----------------------------- MODULE MCAcpTurns ------------------------------
(* Two requests in each version: two prompts, so that one queues behind the  *)
(* other, and a prompt with a steering request.  The host asks once, in v2,  *)
(* in a session with a single request (Lone).                                *)
EXTENDS AcpTurns

CONSTANTS p1, p2, s1, a1

MCPrompts == {p1, p2}
MCSteers  == {s1}
MCAsks    == {a1}
MCSends   == <<{p1, p2}, {p1, s1}>>
=============================================================================

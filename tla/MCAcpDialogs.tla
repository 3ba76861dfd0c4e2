---------------------------- MODULE MCAcpDialogs -----------------------------
(* Two approvals, so that one queues behind the other, of which a driver     *)
(* sees one too; and an approval and a prompt that a resume pulls as well.   *)
EXTENDS AcpDialogs

CONSTANTS a1, a2, i1, resume

MCApprovals == {a1, a2}
MCInputs    == {i1}
MCPulls     == {resume}

Queueing == [asks |-> {a1, a2}, delegated |-> {a1}, pulls |-> {},
             kinds |-> {"both", "approve", "none"}]
Pulling  == [asks |-> {a1, i1}, delegated |-> {}, pulls |-> {resume},
             kinds |-> {"both", "blind"}]
Deciding == [asks |-> {a1, a2}, delegated |-> {a1}, pulls |-> {}, kinds |-> {"both"}]

MCScenes  == {Queueing, Pulling}
MCOverlap == {Deciding}
=============================================================================

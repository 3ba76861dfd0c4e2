--------------------------- MODULE MCAcpRegistry ----------------------------
(* One durable host session, a former adapter's id for it, and three         *)
(* requests: each plan lets one pair of them meet.                           *)
EXTENDS AcpRegistry, TLC

CONSTANTS d, old, r1, r2, r3, a1

MCReqs == {r1, r2, r3}

P(op, sid, msp, value) == [op |-> op, sid |-> sid, msp |-> msp, value |-> value]
No == P("none", d, d, "ask")
Three(p, q, r) == (r1 :> p) @@ (r2 :> q) @@ (r3 :> r)

Resume  == P("resume", d, d, "ask")
Former  == P("resume", old, d, "ask")
New     == P("new", r1, r1, "yolo")
Shut    == P("close", d, d, "ask")
Set(op, value) == P(op, d, d, value)

MCPlans == {
  Three(Resume, Set("config", "yolo"), Resume),
  Three(Resume, Set("mode", "deny"), Set("rival", "auto")),
  Three(Resume, Set("mode", "onRequest"), Set("rival", "deny")),
  Three(Resume, Shut, Resume),
  Three(Resume, Former, Set("rival", "onRequest")),
  Three(Resume, Former, Set("config", "auto")),
  Three(New, P("rival", r1, r1, "ask"), P("config", r1, r1, "denyUnmatched")),
  Three(New, P("fork", r1, r1, "ask"), P("mode", r1, r1, "deny")) }
=============================================================================

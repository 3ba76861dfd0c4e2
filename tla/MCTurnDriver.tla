---------------------------- MODULE MCTurnDriver -----------------------------
(* Turns of at most seven view events: one streamed item with a late update, *)
(* two items of which the second is never streamed, an approval in the       *)
(* middle, a retracted turn, and a failed one of two usage records.          *)
EXTENDS TurnDriver

MCItems == {"m1", "m2"}

Started(i)      == ItemEvent("item/started", i, 1, 0)
Delta(i, k)     == ItemEvent("item/delta", i, 0, k)
Updated(i, n)   == ItemEvent("item/updated", i, 2, n)
Ended(i, n)     == ItemEvent("item/ended", i, 2, n)
Completed(i, n) == ItemEvent("item/completed", i, 3, n)
Usage(total)    == ItemEvent("usage", "none", total, 1)
Ends(outcome)   == TurnEvent(outcome, 0)
Approve         == TurnEvent("approval", 0)

Streamed == << Started("m1"), Delta("m1", 1), Delta("m1", 2), Completed("m1", 2),
               Usage(1), Ends("completed") >>
Updating == << Started("m1"), Delta("m1", 1), Updated("m1", 1), Delta("m1", 2),
               Completed("m1", 2), Ends("completed") >>
TwoItems == << Started("m1"), Delta("m1", 1), Completed("m2", 1), Usage(0),
               Completed("m1", 1), Ends("completed") >>
Parking  == << Started("m1"), Approve, Delta("m1", 1), Completed("m1", 1),
               Ends("completed") >>
Retract  == << Started("m1"), Ends("turn/retracted") >>
Failing  == << Started("m1"), Delta("m1", 1), Ended("m1", 1), Usage(1),
               Usage(2), Ends("failed") >>

MCScripts == {Streamed, Updating, TwoItems, Parking, Retract, Failing}
MCPlain   == {Streamed, Updating, TwoItems, Retract, Failing}
MCLive    == {Parking, TwoItems, Retract}
=============================================================================

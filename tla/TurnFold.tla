------------------------------ MODULE TurnFold -------------------------------
(***************************************************************************)
(* The view fold (src/src/msp/fold.rs, struct TurnFold): a pure function   *)
(* from a session's view events, fed in any order with repetitions and     *)
(* omissions, to the text forwarded for one turn, its token count and its  *)
(* terminal.                                                               *)
(*                                                                         *)
(* An item's text is a sequence of chunks 1..n: a full object carries n, a *)
(* delta one chunk.  Every mapped (item, field) pair is one member of      *)
(* Items; status lines, item kinds and turn scopes are left out, since a   *)
(* stateless session holds the one awaited turn.                           *)
(*                                                                         *)
(* Undone and Recounted are mutants, faulty variants of Finished and       *)
(* Recorded, which show that the properties tell the two apart.            *)
(***************************************************************************)
EXTENDS Integers, Sequences, FiniteSets

CONSTANT Items   \* the (itemId, field) pairs a turn streams

Chunks(n) == [k \in 1..n |-> k]

(* View events.  `text` is the number of chunks of a full object, the chunk  *)
(* of a delta or the tokens of a usage record; `rev` an object's revision or *)
(* the total a usage record's `cumulative` block states (0: no block).       *)
(* "item/ended" is an item/updated whose status is terminal.                 *)
ItemEvent(type, i, rev, n) == [type |-> type, item |-> i, rev |-> rev, text |-> n]
TurnEvent(type, n) == [type |-> type, item |-> "none", rev |-> 0, text |-> n]

ItemObjects == {"item/started", "item/updated", "item/ended", "item/completed"}
TurnEnds    == {"completed", "cancelled", "failed"}

(* What one fed event makes the driver forward.                              *)
Silence == [kind |-> "none", item |-> "none", text |-> <<>>]
Text(i, chunks) ==
  IF chunks = <<>> THEN Silence ELSE [kind |-> "text", item |-> i, text |-> chunks]
Terminal(outcome) == [kind |-> "terminal", item |-> outcome, text |-> <<>>]

NewFold == [ settled |-> FALSE,
             cursor  |-> 0,                      \* 0: before the first event
             rev     |-> [i \in Items |-> 0],    \* 0: not in `items`
             known   |-> [i \in Items |-> <<>>], \* `streamed`
             done    |-> {},
             counted |-> {},                     \* usage_seen
             usage   |-> 0,                      \* the counted-once sums
             total   |-> 0 ]                     \* 0: no `cumulative` yet

(* strip_prefix(known), else the whole authoritative text.                   *)
Suffix(known, full) ==
  IF Len(known) <= Len(full) /\ SubSeq(full, 1, Len(known)) = known
  THEN SubSeq(full, Len(known) + 1, Len(full))
  ELSE full

(* Replace-iff-higher-revision.                                              *)
Newer(f, e) == e.rev > f.rev[e.item]

(* The items whose deltas are late: terminally folded ones.                  *)
Undone(f, e) == f.done
Finished(f, e) ==
  IF e.type \in {"item/ended", "item/completed"} THEN f.done \union {e.item} ELSE f.done

Recounted(f, c) == FALSE
Recorded(f, c) == c \in f.counted

FeedItem(f, e) ==
  LET suffix == Suffix(f.known[e.item], Chunks(e.text))
  IN  IF ~Newer(f, e) THEN [fold |-> f, out |-> Silence]
      ELSE [ fold |-> [f EXCEPT !.rev[e.item] = e.rev,
                                !.done = Finished(f, e),
                                !.known[e.item] =
                                   IF suffix = <<>> THEN @ ELSE Chunks(e.text)],
             out  |-> Text(e.item, suffix) ]

FeedDelta(f, e) ==
  IF e.item \in f.done \/ f.rev[e.item] = 0 THEN [fold |-> f, out |-> Silence]
  ELSE [ fold |-> [f EXCEPT !.known[e.item] = Append(@, e.text)],
         out  |-> Text(e.item, <<e.text>>) ]

FeedUsage(f, c, e) ==
  IF Recorded(f, c) THEN [fold |-> f, out |-> Silence]
  ELSE [ fold |-> [f EXCEPT !.counted = @ \union {c}, !.usage = @ + e.text,
                           !.total = IF e.rev > 0 THEN e.rev ELSE @],
         out  |-> Silence ]

(* The usage a terminal carries.                                             *)
FinalUsage(f) == IF f.total > 0 THEN f.total ELSE f.usage

Settle(f, outcome) ==
  [ fold |-> [f EXCEPT !.settled = TRUE], out |-> Terminal(outcome) ]

(* TurnFold::feed of the event at cursor c.  A settled fold ignores it.      *)
Feed(f, c, e) ==
  LET at == [f EXCEPT !.cursor = c]
  IN  IF f.settled THEN [fold |-> f, out |-> Silence]
      ELSE CASE e.type \in ItemObjects    -> FeedItem(at, e)
             [] e.type = "item/delta"     -> FeedDelta(at, e)
             [] e.type = "usage"          -> FeedUsage(at, c, e)
             [] e.type \in TurnEnds       -> Settle(at, e.type)
             [] e.type = "turn/retracted" -> Settle(at, "cancelled")
             [] OTHER                     -> [fold |-> at, out |-> Silence]
=============================================================================

---------------------------- MODULE EndpointProofs ----------------------------
(***************************************************************************)
(* Theorems about what the clients at the two ends of the bridge see.      *)
(*                                                                         *)
(* HttpStream, for any turns, endpoints and channel capacity: a response   *)
(* restates its turn, is well bracketed and has one truthful end.          *)
(*                                                                         *)
(* AcpServer, for any client and any depth of the outbound channel: what   *)
(* goes to stdout has every session's commands behind the reply that names *)
(* it, the reply to a close behind those to its prompts, and no second     *)
(* reply but to a prompt that a close interrupted.                         *)
(***************************************************************************)
EXTENDS MCEndpoints, SequenceTheorems, FiniteSetTheorems, TLAPS

Sums  == UNION {[parts -> Seq(Nat)] : parts \in SUBSET Nat}
Names == {"created", "role", "content", "reasoning", "stop", "usage", "DONE", "error", "ping",
          "item.added", "item.done", "part.added", "part.done", "summary.delta", "text.delta",
          "response.completed", "response.failed", "body"}
Frame == [name : Names, index : Nat, of : Nat, text : Seq(Nat), sums : Sums]

(* A turn does not come back to a reasoning part it has left, as none of     *)
(* MCScripts does.  Only the brackets of the parts depend on it.             *)
NoPartReturns ==
  \A s \in Scripts : \A i, j, k \in DOMAIN s :
    /\ i < j /\ j < k
    /\ \A x \in {i, j, k} : s[x].kind = "reasoning"
    /\ s[i].part = s[k].part
    => s[j].part = s[k].part

----------------------------------------------------------------------------
(* What TurnRendered says of a sequence of frames: the events it carries,    *)
(* the indices a frame name was used with, and the brackets.                 *)
At(s, names)   == {k \in DOMAIN s : s[k].name \in names}
By(s, name)    == {k \in DOMAIN s : s[k].name = name}
Indices(s, name) == {s[k].index : k \in By(s, name)}
Carriers(s)    == {k \in DOMAIN s : s[k].of # 0}
Carried(s)     == {s[k].of : k \in Carriers(s)}
InTurn(s)      == \A j, k \in Carriers(s) : j < k => s[j].of < s[k].of
Summaries(s)   == {<<s[k].index, s[k].of>> : k \in By(s, "summary.delta")}
EnderNames     == {"DONE", "error", "response.completed", "response.failed", "body"}
PraiseNames    == {"stop", "usage", "body", "response.completed"}
FinalNames     == {"response.completed", "body"}

Once(s, name)  == \A j, k \in By(s, name) : s[j].index = s[k].index => j = k
Precedes(s, opener, closer) ==
  \A j \in By(s, opener), k \in By(s, closer) : s[j].index = s[k].index => j < k
Inside(s, delta, opener, closer) ==
  \A k \in By(s, delta) : \E j \in By(s, opener) :
    /\ s[j].index = s[k].index /\ j < k
    /\ \A c \in By(s, closer) : s[c].index = s[k].index => ~(j < c /\ c < k)

Bracket(s, delta, opener, closer, opened, closed) ==
  /\ Indices(s, opener) = opened /\ Indices(s, closer) = closed
  /\ Once(s, opener) /\ Once(s, closer)
  /\ Precedes(s, opener, closer) /\ Inside(s, delta, opener, closer)

With(set, f, name) == IF f.name = name THEN set \union {f.index} ELSE set

(* A frame that opens what was not opened, or closes or extends what is open. *)
Fits(f, delta, opener, closer, opened, closed) ==
  /\ f.name = opener => f.index \notin opened \union closed
  /\ f.name = delta \/ f.name = closer => f.index \in opened \ closed

(* A sequence with one frame more.                                           *)
LEMMA Pushed ==
  ASSUME NEW s \in Seq(Frame), NEW f \in Frame
  PROVE  /\ Append(s, f) \in Seq(Frame)
         /\ Len(s) \in Nat /\ DOMAIN s = 1..Len(s)
         /\ Len(Append(s, f)) = Len(s) + 1
         /\ DOMAIN Append(s, f) = 1..(Len(s) + 1)
         /\ \A k \in 1..Len(s) : Append(s, f)[k] = s[k] /\ s[k] \in Frame
         /\ Append(s, f)[Len(s) + 1] = f
BY AppendProperties, LenProperties, ElementOfSeq

(* With one frame more: its frames of some names.                            *)
LEMMA PushedAt ==
  ASSUME NEW s \in Seq(Frame), NEW f \in Frame, NEW names
  PROVE  \A k : k \in At(Append(s, f), names) <=>
                  k \in At(s, names) \/ (k = Len(s) + 1 /\ f.name \in names)
BY Pushed DEF At

(* Its frames of one name.                                                   *)
LEMMA PushedBy ==
  ASSUME NEW s \in Seq(Frame), NEW f \in Frame, NEW name
  PROVE  \A k : k \in By(Append(s, f), name) <=>
                  k \in By(s, name) \/ (k = Len(s) + 1 /\ f.name = name)
BY Pushed DEF By

(* The indices a name was used with.                                         *)
LEMMA PushedIndices ==
  ASSUME NEW s \in Seq(Frame), NEW f \in Frame, NEW name
  PROVE  Indices(Append(s, f), name) = With(Indices(s, name), f, name)
<1>1. \A k : k \in By(Append(s, f), name) <=>
                 k \in By(s, name) \/ (k = Len(s) + 1 /\ f.name = name)
  BY PushedBy
<1>2. \A k \in By(s, name) : Append(s, f)[k].index = s[k].index
  BY Pushed DEF By
<1>3. Append(s, f)[Len(s) + 1].index = f.index
  BY Pushed
<1> HIDE DEF By
<1>4. QED
  BY <1>1, <1>2, <1>3 DEF Indices, With

(* A frame that fits keeps the brackets.                                     *)
LEMMA PushedBracket ==
  ASSUME NEW s \in Seq(Frame), NEW f \in Frame,
         NEW delta, NEW opener, NEW closer, NEW opened, NEW closed,
         delta # opener, delta # closer, opener # closer,
         Bracket(s, delta, opener, closer, opened, closed),
         Fits(f, delta, opener, closer, opened, closed)
  PROVE  Bracket(Append(s, f), delta, opener, closer,
                 With(opened, f, opener), With(closed, f, closer))
<1> DEFINE t == Append(s, f)
           n == Len(s) + 1
<1>1. /\ \A k \in By(s, delta) \union By(s, opener) \union By(s, closer) :
           k \in Nat /\ k < n /\ t[k].index = s[k].index
      /\ t[n].index = f.index /\ n \in Nat
  BY Pushed DEF By
<1>2. /\ \A k : k \in By(t, delta) <=> k \in By(s, delta) \/ (k = n /\ f.name = delta)
      /\ \A k : k \in By(t, opener) <=> k \in By(s, opener) \/ (k = n /\ f.name = opener)
      /\ \A k : k \in By(t, closer) <=> k \in By(s, closer) \/ (k = n /\ f.name = closer)
  BY PushedBy
<1>3. /\ Indices(t, opener) = With(opened, f, opener)
      /\ Indices(t, closer) = With(closed, f, closer)
  BY PushedIndices DEF Bracket
<1>4. /\ \A k \in By(s, opener) : s[k].index \in opened
      /\ \A k \in By(s, closer) : s[k].index \in closed
      /\ \A i \in opened : \E k \in By(s, opener) : s[k].index = i
  BY DEF Bracket, Indices
<1>0. /\ f.name = opener => f.index \notin opened \union closed
      /\ f.name = delta \/ f.name = closer => f.index \in opened \ closed
  BY DEF Fits
<1> HIDE DEF t, n
<1>5. Once(t, opener)
  BY <1>0, <1>1, <1>2, <1>4 DEF Once, Bracket
<1>6. Once(t, closer)
  BY <1>0, <1>1, <1>2, <1>4 DEF Once, Bracket
<1>7. Precedes(t, opener, closer)
  BY <1>0, <1>1, <1>2, <1>4 DEF Precedes, Bracket
<1>8. Inside(t, delta, opener, closer)
  <2> SUFFICES ASSUME NEW k \in By(t, delta)
               PROVE  \E j \in By(t, opener) :
                        /\ t[j].index = t[k].index /\ j < k
                        /\ \A c \in By(t, closer) : t[c].index = t[k].index => ~(j < c /\ c < k)
    BY DEF Inside
  <2>1. CASE k \in By(s, delta)
    <3>1. PICK j \in By(s, opener) :
            /\ s[j].index = s[k].index /\ j < k
            /\ \A c \in By(s, closer) : s[c].index = s[k].index => ~(j < c /\ c < k)
      BY <2>1 DEF Bracket, Inside
    <3>2. QED
      BY <1>1, <1>2, <2>1, <3>1
  <2>2. CASE k \notin By(s, delta)
    <3>1. k = n /\ f.name = delta /\ f.index \in opened \ closed
      BY <1>0, <1>2, <2>2
    <3>2. PICK j \in By(s, opener) : s[j].index = f.index
      BY <1>4, <3>1
    <3>3. QED
      BY <1>1, <1>2, <1>4, <3>1, <3>2
  <2>3. QED
    BY <2>1, <2>2
<1>9. QED
  BY <1>3, <1>5, <1>6, <1>7, <1>8 DEF Bracket, t

----------------------------------------------------------------------------
(* A sequence of frames as the client sees it: the events carried, the       *)
(* reasoning parts opened and closed, the output items opened and closed,    *)
(* the deltas of each part, the positions of the frames that end a response. *)
Rendering(s, events, opened, closed, items, finished, deltas, enders) ==
  /\ s \in Seq(Frame)
  /\ Carried(s) = events /\ InTurn(s)
  /\ NoPartReturns => Bracket(s, "summary.delta", "part.added", "part.done", opened, closed)
  /\ Bracket(s, "text.delta", "item.added", "item.done", items, finished)
  /\ Summaries(s) = deltas
  /\ At(s, EnderNames) = enders

(* Nothing was rendered yet.                                                 *)
LEMMA NothingRendered == Rendering(<<>>, {}, {}, {}, {}, {}, {}, {})
<1>1. <<>> \in Seq(Frame) /\ DOMAIN <<>> = {}
  OBVIOUS
<1>2. /\ Carriers(<<>>) = {} /\ At(<<>>, EnderNames) = {}
      /\ \A name : By(<<>>, name) = {}
  BY <1>1 DEF Carriers, At, By
<1>3. QED
  BY <1>1, <1>2 DEF Rendering, Carried, InTurn, Bracket, Summaries, Indices, Once, Precedes, Inside

(* The events it carries.                                                    *)
LEMMA PushedCarried ==
  ASSUME NEW s \in Seq(Frame), NEW f \in Frame, InTurn(s), Carried(s) \subseteq Nat,
         f.of # 0 => \A e \in Carried(s) : e < f.of
  PROVE  /\ Carried(Append(s, f)) = Carried(s) \union ({f.of} \ {0})
         /\ InTurn(Append(s, f))
<1> DEFINE t == Append(s, f)
           n == Len(s) + 1
<1>1. \A k : k \in Carriers(t) <=> k \in Carriers(s) \/ (k = n /\ f.of # 0)
  BY Pushed DEF Carriers
<1>2. /\ \A k \in Carriers(s) : k \in Nat /\ k < n /\ t[k].of = s[k].of
      /\ t[n].of = f.of /\ n \in Nat
  BY Pushed DEF Carriers
<1>3. \A k \in Carriers(s) : s[k].of \in Carried(s)
  BY DEF Carried
<1>4. \A k \in Carriers(s) : s[k].of # 0
  BY DEF Carriers
<1> HIDE DEF t, n
<1>5. Carried(t) = Carried(s) \union ({f.of} \ {0})
  BY <1>1, <1>2, <1>4 DEF Carried
<1>6. InTurn(t)
  BY <1>1, <1>2, <1>3 DEF InTurn
<1>7. QED
  BY <1>5, <1>6 DEF t

(* The summary deltas it holds.                                              *)
LEMMA PushedSummaries ==
  ASSUME NEW s \in Seq(Frame), NEW f \in Frame
  PROVE  Summaries(Append(s, f)) =
           Summaries(s) \union (IF f.name = "summary.delta" THEN {<<f.index, f.of>>} ELSE {})
<1>1. \A k : k \in By(Append(s, f), "summary.delta") <=>
                 k \in By(s, "summary.delta") \/ (k = Len(s) + 1 /\ f.name = "summary.delta")
  BY PushedBy
<1>2. \A k \in By(s, "summary.delta") : /\ Append(s, f)[k].index = s[k].index
                                        /\ Append(s, f)[k].of = s[k].of
  BY Pushed DEF By
<1>3. Append(s, f)[Len(s) + 1].index = f.index /\ Append(s, f)[Len(s) + 1].of = f.of
  BY Pushed
<1> HIDE DEF By
<1>4. QED
  BY <1>1, <1>2, <1>3 DEF Summaries

(* One more frame: it carries a later event or none, opens what was not      *)
(* opened before, and closes or extends what is open.                        *)
LEMMA Rendered1 ==
  ASSUME NEW s, NEW f \in Frame, NEW events \in SUBSET Nat, NEW opened, NEW closed,
         NEW items, NEW finished, NEW deltas, NEW enders,
         Rendering(s, events, opened, closed, items, finished, deltas, enders),
         f.of # 0 => \A e \in events : e < f.of,
         NoPartReturns => Fits(f, "summary.delta", "part.added", "part.done", opened, closed),
         Fits(f, "text.delta", "item.added", "item.done", items, finished)
  PROVE  Rendering(Append(s, f), events \union ({f.of} \ {0}),
                   With(opened, f, "part.added"), With(closed, f, "part.done"),
                   With(items, f, "item.added"), With(finished, f, "item.done"),
                   deltas \union (IF f.name = "summary.delta" THEN {<<f.index, f.of>>} ELSE {}),
                   enders \union (IF f.name \in EnderNames THEN {Len(s) + 1} ELSE {}))
<1>1. s \in Seq(Frame) /\ Append(s, f) \in Seq(Frame)
  BY Pushed DEF Rendering
<1>2. /\ Carried(Append(s, f)) = events \union ({f.of} \ {0})
      /\ InTurn(Append(s, f))
  BY <1>1, PushedCarried DEF Rendering
<1>3. ASSUME NoPartReturns
      PROVE  Bracket(Append(s, f), "summary.delta", "part.added", "part.done",
                     With(opened, f, "part.added"), With(closed, f, "part.done"))
  <2>1. Bracket(s, "summary.delta", "part.added", "part.done", opened, closed)
    BY <1>3 DEF Rendering
  <2>2. QED
    BY <1>1, <1>3, <2>1, PushedBracket
<1>4. Bracket(Append(s, f), "text.delta", "item.added", "item.done",
              With(items, f, "item.added"), With(finished, f, "item.done"))
  <2>1. Bracket(s, "text.delta", "item.added", "item.done", items, finished)
    BY DEF Rendering
  <2>2. QED
    BY <1>1, <2>1, PushedBracket
<1>5. Summaries(Append(s, f)) =
        deltas \union (IF f.name = "summary.delta" THEN {<<f.index, f.of>>} ELSE {})
  BY <1>1, PushedSummaries DEF Rendering
<1>6. At(Append(s, f), EnderNames) =
        enders \union (IF f.name \in EnderNames THEN {Len(s) + 1} ELSE {})
  BY <1>1, PushedAt DEF Rendering
<1>7. QED
  BY <1>1, <1>2, <1>3, <1>4, <1>5, <1>6 DEF Rendering

----------------------------------------------------------------------------
(* The frames of the renderers.                                              *)
LEMMA FrameOf ==
  ASSUME NEW name \in Names, NEW index \in Nat, NEW of \in Nat
  PROVE  /\ F(name, index, of) \in Frame
         /\ F(name, index, of).name = name
         /\ F(name, index, of).index = index
         /\ F(name, index, of).of = of
<1>1. <<>> \in Seq(Nat)
  OBVIOUS
<1>2. <<>> \in Sums
  <2>1. <<>> \in [{} -> Seq(Nat)]
    OBVIOUS
  <2>2. QED
    BY <2>1 DEF Sums
<1>3. QED
  BY <1>1, <1>2 DEF F, Frame

(* The frames that open, fill and close a part or an item.                   *)
LEMMA BracketFrames ==
  ASSUME NEW i \in Nat, NEW k \in Nat
  PROVE  /\ F("part.added", i, 0) \in Frame /\ F("part.added", i, 0).name = "part.added"
         /\ F("part.done", i, 0) \in Frame /\ F("part.done", i, 0).name = "part.done"
         /\ F("summary.delta", i, k) \in Frame /\ F("summary.delta", i, k).name = "summary.delta"
         /\ F("item.added", i, 0) \in Frame /\ F("item.added", i, 0).name = "item.added"
         /\ F("item.done", i, 0) \in Frame /\ F("item.done", i, 0).name = "item.done"
<1>1. F("part.added", i, 0) \in Frame /\ F("part.added", i, 0).name = "part.added"
  BY FrameOf DEF Names
<1>2. F("part.done", i, 0) \in Frame /\ F("part.done", i, 0).name = "part.done"
  BY FrameOf DEF Names
<1>3. F("summary.delta", i, k) \in Frame /\ F("summary.delta", i, k).name = "summary.delta"
  BY FrameOf DEF Names
<1>4. F("item.added", i, 0) \in Frame /\ F("item.added", i, 0).name = "item.added"
  BY FrameOf DEF Names
<1>5. F("item.done", i, 0) \in Frame /\ F("item.done", i, 0).name = "item.done"
  BY FrameOf DEF Names
<1>6. QED
  BY <1>1, <1>2, <1>3, <1>4, <1>5

(* The fields of a final object.                                             *)
LEMMA FinalOf ==
  ASSUME NEW name \in Names, NEW text \in Seq(Nat), NEW sums \in Sums
  PROVE  /\ Final(name, text, sums) \in Frame
         /\ Final(name, text, sums).name = name
         /\ Final(name, text, sums).index = 0
         /\ Final(name, text, sums).of = 0
         /\ Final(name, text, sums).text = text
         /\ Final(name, text, sums).sums = sums
<1> DEFINE empty == [name |-> name, index |-> 0, of |-> 0, text |-> <<>>, sums |-> <<>>]
<1>0. Final(name, text, sums) = [[empty EXCEPT !.text = text] EXCEPT !.sums = sums]
  BY DEF Final, F
<1>1. Final(name, text, sums) = [name |-> name, index |-> 0, of |-> 0, text |-> text, sums |-> sums]
  BY <1>0
<1>2. QED
  BY <1>1 DEF Frame

(* Frames added one by one.                                                  *)
LEMMA Joined ==
  ASSUME NEW s \in Seq(Frame), NEW a \in Frame, NEW r \in Seq(Frame)
  PROVE  /\ s \o <<>> = s
         /\ s \o <<a>> = Append(s, a)
         /\ s \o (<<a>> \o r) = Append(s, a) \o r
<1>1. <<a>> \in Seq(Frame)
  OBVIOUS
<1>2. s \o <<>> = s
  BY ConcatEmptySeq
<1>3. s \o <<a>> = Append(s, a)
  BY AppendIsConcat
<1>4. s \o (<<a>> \o r) = (s \o <<a>>) \o r
  BY <1>1, ConcatAssociative
<1>5. QED
  BY <1>2, <1>3, <1>4

BracketNames == {"part.added", "part.done", "summary.delta",
                 "item.added", "item.done", "text.delta"}

(* A frame that opens, fills and closes nothing: the events and the enders.  *)
LEMMA Plain ==
  ASSUME NEW s, NEW f \in Frame, NEW events \in SUBSET Nat, NEW opened, NEW closed,
         NEW items, NEW finished, NEW deltas, NEW enders,
         Rendering(s, events, opened, closed, items, finished, deltas, enders),
         f.of # 0 => \A e \in events : e < f.of,
         f.name \notin BracketNames
  PROVE  Rendering(Append(s, f), events \union ({f.of} \ {0}), opened, closed, items, finished,
                   deltas, enders \union (IF f.name \in EnderNames THEN {Len(s) + 1} ELSE {}))
<1>1. /\ Fits(f, "summary.delta", "part.added", "part.done", opened, closed)
      /\ Fits(f, "text.delta", "item.added", "item.done", items, finished)
  BY DEF Fits, BracketNames
<1>2. /\ With(opened, f, "part.added") = opened /\ With(closed, f, "part.done") = closed
      /\ With(items, f, "item.added") = items /\ With(finished, f, "item.done") = finished
      /\ deltas \union (IF f.name = "summary.delta" THEN {<<f.index, f.of>>} ELSE {}) = deltas
  BY DEF With, BracketNames
<1> DEFINE after == enders \union (IF f.name \in EnderNames THEN {Len(s) + 1} ELSE {})
<1> HIDE DEF after
<1>3. Rendering(Append(s, f), events \union ({f.of} \ {0}),
                With(opened, f, "part.added"), With(closed, f, "part.done"),
                With(items, f, "item.added"), With(finished, f, "item.done"),
                deltas \union (IF f.name = "summary.delta" THEN {<<f.index, f.of>>} ELSE {}), after)
  BY <1>1, Rendered1 DEF after
<1>4. QED
  BY <1>2, <1>3 DEF after

(* A frame that opens, fills or closes a part or an item.                    *)
LEMMA Brackets ==
  ASSUME NEW s, NEW events \in SUBSET Nat, NEW opened, NEW closed,
         NEW items, NEW finished, NEW deltas, NEW enders,
         Rendering(s, events, opened, closed, items, finished, deltas, enders),
         NEW i \in Nat, NEW k \in Nat \ {0}
  PROVE  /\ (NoPartReturns => i \notin opened \union closed) =>
              Rendering(Append(s, F("part.added", i, 0)), events, opened \union {i}, closed,
                        items, finished, deltas, enders)
         /\ (NoPartReturns => i \in opened \ closed) =>
              Rendering(Append(s, F("part.done", i, 0)), events, opened, closed \union {i},
                        items, finished, deltas, enders)
         /\ (NoPartReturns => i \in opened \ closed) /\ (\A e \in events : e < k) =>
              Rendering(Append(s, F("summary.delta", i, k)), events \union {k}, opened, closed,
                        items, finished, deltas \union {<<i, k>>}, enders)
         /\ i \notin items \union finished =>
              Rendering(Append(s, F("item.added", i, 0)), events, opened, closed,
                        items \union {i}, finished, deltas, enders)
         /\ i \in items \ finished =>
              Rendering(Append(s, F("item.done", i, 0)), events, opened, closed,
                        items, finished \union {i}, deltas, enders)
         /\ i \in items \ finished /\ (\A e \in events : e < k) =>
              Rendering(Append(s, F("text.delta", i, k)), events \union {k}, opened, closed,
                        items, finished, deltas, enders)
<1> DEFINE With4(f) == /\ NoPartReturns => Fits(f, "summary.delta", "part.added", "part.done",
                                                opened, closed)
                       /\ Fits(f, "text.delta", "item.added", "item.done", items, finished)
           Next4(f) == Rendering(Append(s, f), events \union ({f.of} \ {0}),
                         With(opened, f, "part.added"), With(closed, f, "part.done"),
                         With(items, f, "item.added"), With(finished, f, "item.done"),
                         deltas \union (IF f.name = "summary.delta" THEN {<<f.index, f.of>>}
                                                                   ELSE {}),
                         enders \union (IF f.name \in EnderNames THEN {Len(s) + 1} ELSE {}))
<1>1. \A f \in Frame : With4(f) /\ (f.of # 0 => \A e \in events : e < f.of) => Next4(f)
  BY Rendered1
<1>2. ASSUME NoPartReturns => i \notin opened \union closed
      PROVE  Rendering(Append(s, F("part.added", i, 0)), events, opened \union {i}, closed,
                       items, finished, deltas, enders)
  <2> DEFINE f == F("part.added", i, 0)
  <2>1. f \in Frame /\ f.name = "part.added" /\ f.index = i /\ f.of = 0
    BY FrameOf DEF Names
  <2> HIDE DEF f
  <2>2. With4(f)
    BY <1>2, <2>1 DEF Fits
  <2>3. Next4(f)
    BY <1>1, <1>2, <2>1, <2>2
  <2>4. /\ With(opened, f, "part.added") = opened \union {i}
        /\ With(closed, f, "part.done") = closed
        /\ With(items, f, "item.added") = items
        /\ With(finished, f, "item.done") = finished
        /\ events \union ({f.of} \ {0}) = events
        /\ deltas \union (IF f.name = "summary.delta" THEN {<<f.index, f.of>>} ELSE {}) = deltas
        /\ enders \union (IF f.name \in EnderNames THEN {Len(s) + 1} ELSE {}) = enders
    BY <2>1 DEF With, EnderNames
  <2>5. QED
    BY <2>3, <2>4 DEF f
<1>3. ASSUME NoPartReturns => i \in opened \ closed
      PROVE  Rendering(Append(s, F("part.done", i, 0)), events, opened, closed \union {i},
                       items, finished, deltas, enders)
  <2> DEFINE f == F("part.done", i, 0)
  <2>1. f \in Frame /\ f.name = "part.done" /\ f.index = i /\ f.of = 0
    BY FrameOf DEF Names
  <2> HIDE DEF f
  <2>2. With4(f)
    BY <1>3, <2>1 DEF Fits
  <2>3. Next4(f)
    BY <1>1, <1>3, <2>1, <2>2
  <2>4. /\ With(opened, f, "part.added") = opened
        /\ With(closed, f, "part.done") = closed \union {i}
        /\ With(items, f, "item.added") = items
        /\ With(finished, f, "item.done") = finished
        /\ events \union ({f.of} \ {0}) = events
        /\ deltas \union (IF f.name = "summary.delta" THEN {<<f.index, f.of>>} ELSE {}) = deltas
        /\ enders \union (IF f.name \in EnderNames THEN {Len(s) + 1} ELSE {}) = enders
    BY <2>1 DEF With, EnderNames
  <2>5. QED
    BY <2>3, <2>4 DEF f
<1>4. ASSUME NoPartReturns => i \in opened \ closed, \A e \in events : e < k
      PROVE  Rendering(Append(s, F("summary.delta", i, k)), events \union {k}, opened, closed,
                       items, finished, deltas \union {<<i, k>>}, enders)
  <2> DEFINE f == F("summary.delta", i, k)
  <2>1. f \in Frame /\ f.name = "summary.delta" /\ f.index = i /\ f.of = k
    BY FrameOf DEF Names
  <2> HIDE DEF f
  <2>2. With4(f)
    BY <1>4, <2>1 DEF Fits
  <2>3. Next4(f)
    BY <1>1, <1>4, <2>1, <2>2
  <2>4. /\ With(opened, f, "part.added") = opened
        /\ With(closed, f, "part.done") = closed
        /\ With(items, f, "item.added") = items
        /\ With(finished, f, "item.done") = finished
        /\ events \union ({f.of} \ {0}) = events \union {k}
        /\ deltas \union (IF f.name = "summary.delta" THEN {<<f.index, f.of>>} ELSE {})
             = deltas \union {<<i, k>>}
        /\ enders \union (IF f.name \in EnderNames THEN {Len(s) + 1} ELSE {}) = enders
    BY <2>1 DEF With, EnderNames
  <2>5. QED
    BY <2>3, <2>4 DEF f
<1>5. ASSUME i \notin items \union finished
      PROVE  Rendering(Append(s, F("item.added", i, 0)), events, opened, closed,
                       items \union {i}, finished, deltas, enders)
  <2> DEFINE f == F("item.added", i, 0)
  <2>1. f \in Frame /\ f.name = "item.added" /\ f.index = i /\ f.of = 0
    BY FrameOf DEF Names
  <2> HIDE DEF f
  <2>2. With4(f)
    BY <1>5, <2>1 DEF Fits
  <2>3. Next4(f)
    BY <1>1, <1>5, <2>1, <2>2
  <2>4. /\ With(opened, f, "part.added") = opened
        /\ With(closed, f, "part.done") = closed
        /\ With(items, f, "item.added") = items \union {i}
        /\ With(finished, f, "item.done") = finished
        /\ events \union ({f.of} \ {0}) = events
        /\ deltas \union (IF f.name = "summary.delta" THEN {<<f.index, f.of>>} ELSE {}) = deltas
        /\ enders \union (IF f.name \in EnderNames THEN {Len(s) + 1} ELSE {}) = enders
    BY <2>1 DEF With, EnderNames
  <2>5. QED
    BY <2>3, <2>4 DEF f
<1>6. ASSUME i \in items \ finished
      PROVE  Rendering(Append(s, F("item.done", i, 0)), events, opened, closed,
                       items, finished \union {i}, deltas, enders)
  <2> DEFINE f == F("item.done", i, 0)
  <2>1. f \in Frame /\ f.name = "item.done" /\ f.index = i /\ f.of = 0
    BY FrameOf DEF Names
  <2> HIDE DEF f
  <2>2. With4(f)
    BY <1>6, <2>1 DEF Fits
  <2>3. Next4(f)
    BY <1>1, <1>6, <2>1, <2>2
  <2>4. /\ With(opened, f, "part.added") = opened
        /\ With(closed, f, "part.done") = closed
        /\ With(items, f, "item.added") = items
        /\ With(finished, f, "item.done") = finished \union {i}
        /\ events \union ({f.of} \ {0}) = events
        /\ deltas \union (IF f.name = "summary.delta" THEN {<<f.index, f.of>>} ELSE {}) = deltas
        /\ enders \union (IF f.name \in EnderNames THEN {Len(s) + 1} ELSE {}) = enders
    BY <2>1 DEF With, EnderNames
  <2>5. QED
    BY <2>3, <2>4 DEF f
<1>7. ASSUME i \in items \ finished, \A e \in events : e < k
      PROVE  Rendering(Append(s, F("text.delta", i, k)), events \union {k}, opened, closed,
                       items, finished, deltas, enders)
  <2> DEFINE f == F("text.delta", i, k)
  <2>1. f \in Frame /\ f.name = "text.delta" /\ f.index = i /\ f.of = k
    BY FrameOf DEF Names
  <2> HIDE DEF f
  <2>2. With4(f)
    BY <1>7, <2>1 DEF Fits
  <2>3. Next4(f)
    BY <1>1, <1>7, <2>1, <2>2
  <2>4. /\ With(opened, f, "part.added") = opened
        /\ With(closed, f, "part.done") = closed
        /\ With(items, f, "item.added") = items
        /\ With(finished, f, "item.done") = finished
        /\ events \union ({f.of} \ {0}) = events \union {k}
        /\ deltas \union (IF f.name = "summary.delta" THEN {<<f.index, f.of>>} ELSE {}) = deltas
        /\ enders \union (IF f.name \in EnderNames THEN {Len(s) + 1} ELSE {}) = enders
    BY <2>1 DEF With, EnderNames
  <2>5. QED
    BY <2>3, <2>4 DEF f
<1>8. QED
  BY <1>2, <1>3, <1>4, <1>5, <1>6, <1>7

(* Frames that close, whatever event comes next.                             *)
LEMMA Closings ==
  ASSUME NEW s, NEW events \in SUBSET Nat, NEW opened, NEW closed,
         NEW items, NEW finished, NEW deltas, NEW enders,
         Rendering(s, events, opened, closed, items, finished, deltas, enders),
         NEW i \in Nat
  PROVE  /\ (NoPartReturns => i \in opened \ closed) =>
              Rendering(Append(s, F("part.done", i, 0)), events, opened, closed \union {i},
                        items, finished, deltas, enders)
         /\ i \in items \ finished =>
              Rendering(Append(s, F("item.done", i, 0)), events, opened, closed,
                        items, finished \union {i}, deltas, enders)
<1>1. \A k \in Nat \ {0} :
        /\ (NoPartReturns => i \in opened \ closed) =>
              Rendering(Append(s, F("part.done", i, 0)), events, opened, closed \union {i},
                        items, finished, deltas, enders)
        /\ i \in items \ finished =>
              Rendering(Append(s, F("item.done", i, 0)), events, opened, closed,
                        items, finished \union {i}, deltas, enders)
  BY Brackets
<1>2. 1 \in Nat \ {0}
  OBVIOUS
<1>3. QED
  BY <1>1, <1>2

(* A frame that opens an item.                                               *)
LEMMA Opening ==
  ASSUME NEW s, NEW events \in SUBSET Nat, NEW opened, NEW closed,
         NEW items, NEW finished, NEW deltas, NEW enders,
         Rendering(s, events, opened, closed, items, finished, deltas, enders),
         NEW i \in Nat, i \notin items \union finished
  PROVE  Rendering(Append(s, F("item.added", i, 0)), events, opened, closed,
                   items \union {i}, finished, deltas, enders)
<1>1. \A k \in Nat \ {0} :
        Rendering(Append(s, F("item.added", i, 0)), events, opened, closed,
                  items \union {i}, finished, deltas, enders)
  BY Brackets
<1>2. 1 \in Nat \ {0}
  OBVIOUS
<1>3. QED
  BY <1>1, <1>2

----------------------------------------------------------------------------
(* What the renderer remembers of the first n events: the text and the       *)
(* parts joined in order, and the part it told last, behind the others.      *)
Joint  == Seq(Nat)
Joints == Seq(Joint)
Memory == [text : Joint, parts : Joints, added : BOOLEAN, current : SUBSET Nat, status : Joint]
ThoughtTo(n) == {k \in 1..n : script[k].kind = "reasoning"}
PartsTo(n)   == {script[k].part : k \in ThoughtTo(n)}
JoinedTo(n)  == {k \in 1..n : script[k].kind = "text"
                               \/ (script[k].kind = "status" /\ endpoint # "collected")}
PartOf(k)    == IF endpoint = "collected" THEN 0 ELSE script[k].part

MemoryAt(m, n) ==
  /\ Elements(m.text) = JoinedTo(n) /\ Rising(m.text)
  /\ Elements(m.status) = {k \in 1..n : script[k].kind = "status" /\ endpoint = "collected"}
  /\ \A p \in DOMAIN m.parts :
       /\ Elements(m.parts[p]) = {k \in ThoughtTo(n) : PartOf(k) = p - 1}
       /\ Rising(m.parts[p])
  /\ \A k \in ThoughtTo(n) : PartOf(k) + 1 \in DOMAIN m.parts
  /\ m.added = (ThoughtTo(n) # {})
  /\ ~m.added => m.current = {}
  /\ m.added => \E j \in ThoughtTo(n) : /\ m.current = {script[j].part}
                                        /\ \A i \in ThoughtTo(n) : i <= j

TypeOK ==
  /\ script \in Scripts /\ endpoint \in Endpoints
  /\ sent \in 0..Len(script) /\ taken \in 0..sent
  /\ driver \in {"running", "stopped", "cancelled"}
  /\ state \in Memory
  /\ queue \in Seq(Frame) /\ out \in Seq(Frame)
  /\ done \in BOOLEAN /\ client \in {"reading", "ended", "gone"}

Items(m) == IF endpoint = "responses" THEN {0} \union (IF m.added THEN {1} ELSE {}) ELSE {}
Complete == done /\ taken > 0 /\ script[taken].kind = "completed"

(* The stream after the first n events, complete or not, ended or not.       *)
StreamAt(s, n, m, complete, ended) ==
  Rendering(s, IF endpoint = "collected" THEN {} ELSE 1..n,
            IF endpoint = "responses" THEN PartsTo(n) ELSE {},
            IF endpoint # "responses" THEN {}
              ELSE IF complete THEN PartsTo(n) ELSE PartsTo(n) \ m.current,
            Items(m),
            IF complete THEN Items(m) ELSE {},
            IF endpoint = "responses" THEN {<<script[k].part, k>> : k \in ThoughtTo(n)} ELSE {},
            IF ended THEN {Len(s)} ELSE {})

(* A stream that praises nothing says of no turn that it is complete; what   *)
(* a final object says of the first n events.                                *)
Unpraised(s) == At(s, PraiseNames) = {}
SumOf(s, p)  == {s[j].of : j \in {i \in By(s, "summary.delta") : s[i].index = p}}
Restates(f, s, n) ==
  /\ Elements(f.text) \union UNION {Elements(f.sums[p]) : p \in DOMAIN f.sums} = 1..n
  /\ \A p \in DOMAIN f.sums : Rising(f.sums[p])
  /\ endpoint = "responses" =>
       /\ Rising(f.text)
       /\ \E part \in [DOMAIN f.sums -> Indices(s, "summary.delta")] :
            /\ Rising(part)
            /\ \A p \in DOMAIN f.sums : Elements(f.sums[p]) = SumOf(s, part[p])
Finals(s, n) == \A k \in At(s, FinalNames) : Restates(s[k], s, n)

Phase == ~done => taken = 0 \/ ~Ended(script[taken])

HttpInv ==
  /\ TypeOK /\ Phase
  /\ MemoryAt(state, Told)
  /\ StreamAt(Stream, Told, state, Complete, done)
  /\ ~Complete => Unpraised(Stream)
  /\ Finals(Stream, Told)

----------------------------------------------------------------------------
(* The events of a script.                                                   *)
LEMMA ScriptFacts ==
  ASSUME TypeOK, NEW k \in 1..Len(script)
  PROVE  /\ script[k].kind \in {"text", "status", "reasoning", "completed", "cancelled", "failed"}
         /\ script[k].part \in Nat
         /\ Len(script) \in Nat
         /\ k < Len(script) => ~Ended(script[k])
<1>1. script \in Scripts /\ script \in Seq(Event)
  BY HttpStreamAssumption DEF TypeOK
<1>2. script[k] \in Event /\ Len(script) \in Nat
  BY <1>1
<1>3. k < Len(script) => ~Ended(script[k])
  <2>1. k < Len(script) => k \in 1..(Len(script) - 1)
    BY <1>2
  <2>2. QED
    BY <1>1, <2>1, HttpStreamAssumption
<1>4. QED
  BY <1>2, <1>3 DEF Event, Content, Thinking, Terminal

(* An event remembered behind others.                                        *)
LEMMA AppendedElements ==
  ASSUME NEW seq \in Seq(Nat), NEW k \in Nat
  PROVE  /\ Append(seq, k) \in Seq(Nat)
         /\ Elements(Append(seq, k)) = Elements(seq) \union {k}
         /\ Rising(seq) /\ (\A e \in Elements(seq) : e < k) => Rising(Append(seq, k))
<1>1. /\ DOMAIN seq = 1..Len(seq) /\ Len(seq) \in Nat
      /\ DOMAIN Append(seq, k) = 1..(Len(seq) + 1)
      /\ \A i \in 1..Len(seq) : Append(seq, k)[i] = seq[i]
      /\ Append(seq, k)[Len(seq) + 1] = k
      /\ Append(seq, k) \in Seq(Nat)
  BY AppendProperties, LenProperties
<1>2. Elements(Append(seq, k)) = Elements(seq) \union {k}
  BY <1>1 DEF Elements
<1>3. ASSUME Rising(seq), \A e \in Elements(seq) : e < k
      PROVE  Rising(Append(seq, k))
  BY <1>1, <1>3 DEF Rising, Elements
<1>4. QED
  BY <1>1, <1>2, <1>3

(* Grown adds an event to one part, and leaves the others as they were.      *)
LEMMA GrownParts ==
  ASSUME NEW parts \in Seq(Seq(Nat)), NEW p \in Nat, NEW k \in Nat
  PROVE  /\ Grown(parts, p, k) \in Seq(Seq(Nat))
         /\ p + 1 \in DOMAIN Grown(parts, p, k)
         /\ DOMAIN parts \subseteq DOMAIN Grown(parts, p, k)
         /\ DOMAIN Grown(parts, p, k) \subseteq Nat \ {0}
         /\ \A i \in DOMAIN Grown(parts, p, k) :
              Grown(parts, p, k)[i] =
                LET old == IF i \in DOMAIN parts THEN parts[i] ELSE <<>>
                IN  IF i = p + 1 THEN Append(old, k) ELSE old
<1> DEFINE n == IF Len(parts) > p THEN Len(parts) ELSE p + 1
           padded == Padded(parts, p)
<1>1. Len(parts) \in Nat /\ DOMAIN parts = 1..Len(parts) /\ n \in Nat
      /\ p + 1 \in 1..n /\ 1..Len(parts) \subseteq 1..n
  BY LenProperties
<1>2. \A i \in 1..n : (IF i <= Len(parts) THEN parts[i] ELSE <<>>) \in Seq(Nat)
  BY <1>1, ElementOfSeq
<1>3. /\ padded = [i \in 1..n |-> IF i <= Len(parts) THEN parts[i] ELSE <<>>]
      /\ padded \in [1..n -> Seq(Nat)]
  BY <1>2 DEF Padded
<1>4. Grown(parts, p, k) = [padded EXCEPT ![p + 1] = Append(@, k)]
  BY DEF Grown
<1>5. Append(padded[p + 1], k) \in Seq(Nat)
  BY <1>1, <1>3, AppendProperties
<1> HIDE DEF padded, n
<1>6. Grown(parts, p, k) \in [1..n -> Seq(Nat)]
  BY <1>1, <1>3, <1>4, <1>5
<1>7. Grown(parts, p, k) \in Seq(Seq(Nat))
  BY <1>1, <1>6, SeqDef
<1>8. QED
  BY <1>1, <1>3, <1>4, <1>6, <1>7

(* The record updates of Remembered.                                         *)
WithText(m, t)       == [m EXCEPT !.text = t]
WithStatus(m, t)     == [m EXCEPT !.status = t]
WithPart(m, p, a, c) == [m EXCEPT !.parts = p, !.added = a, !.current = c]

(* The memory after each of these updates.                                   *)
LEMMA TextUpdated ==
  ASSUME NEW m \in Memory, NEW t \in Joint
  PROVE  /\ WithText(m, t) \in Memory
         /\ WithText(m, t).text = t /\ WithText(m, t).parts = m.parts
         /\ WithText(m, t).added = m.added /\ WithText(m, t).current = m.current
         /\ WithText(m, t).status = m.status
<1>1. WithText(m, t) = [text |-> t, parts |-> m.parts, added |-> m.added,
                        current |-> m.current, status |-> m.status]
  BY DEF Memory, WithText
<1>2. QED
  BY <1>1 DEF Memory

(* A status line kept apart.                                                 *)
LEMMA StatusUpdated ==
  ASSUME NEW m \in Memory, NEW t \in Joint
  PROVE  /\ WithStatus(m, t) \in Memory
         /\ WithStatus(m, t).text = m.text /\ WithStatus(m, t).parts = m.parts
         /\ WithStatus(m, t).added = m.added /\ WithStatus(m, t).current = m.current
         /\ WithStatus(m, t).status = t
<1>1. WithStatus(m, t) = [text |-> m.text, parts |-> m.parts, added |-> m.added,
                          current |-> m.current, status |-> t]
  BY DEF Memory, WithStatus
<1>2. QED
  BY <1>1 DEF Memory

(* A reasoning part.                                                         *)
LEMMA PartUpdated ==
  ASSUME NEW m \in Memory, NEW p \in Joints, NEW a \in BOOLEAN, NEW c \in SUBSET Nat
  PROVE  /\ WithPart(m, p, a, c) \in Memory
         /\ WithPart(m, p, a, c).text = m.text /\ WithPart(m, p, a, c).parts = p
         /\ WithPart(m, p, a, c).added = a /\ WithPart(m, p, a, c).current = c
         /\ WithPart(m, p, a, c).status = m.status
<1> DEFINE m1 == [m EXCEPT !.parts = p]
           m2 == [m1 EXCEPT !.added = a]
           m3 == [m2 EXCEPT !.current = c]
<1>1. m1 = [text |-> m.text, parts |-> p, added |-> m.added, current |-> m.current,
            status |-> m.status]
  BY DEF Memory
<1>2. m2 = [text |-> m.text, parts |-> p, added |-> a, current |-> m.current,
            status |-> m.status]
  <2> HIDE DEF m1
  <2>1. QED
    BY <1>1
<1>3. m3 = [text |-> m.text, parts |-> p, added |-> a, current |-> c, status |-> m.status]
  <2> HIDE DEF m2
  <2>1. QED
    BY <1>2
<1>4. m3 = WithPart(m, p, a, c)
  BY DEF WithPart
<1>5. QED
  BY <1>3, <1>4 DEF Memory

(* Remembered is one of these updates.                                       *)
LEMMA RememberedAs ==
  ASSUME NEW k \in 1..Len(script)
  PROVE  LET e == script[k]
         IN  /\ e.kind = "text" \/ (e.kind = "status" /\ endpoint # "collected") =>
                  Remembered(e, k) = WithText(state, Append(state.text, k))
             /\ e.kind = "status" /\ endpoint = "collected" =>
                  Remembered(e, k) = WithStatus(state, Append(state.status, k))
             /\ e.kind = "reasoning" =>
                  Remembered(e, k) =
                    WithPart(state, Grown(state.parts, PartOf(k), k), TRUE, {e.part})
<1> DEFINE e == script[k]
           m == Remembered(e, k)
<1>1. ASSUME e.kind = "text" PROVE m = WithText(state, Append(state.text, k))
  BY <1>1 DEF Remembered, Ended, WithText
<1>2. ASSUME e.kind = "status", endpoint # "collected"
      PROVE  m = WithText(state, Append(state.text, k))
  BY <1>2 DEF Remembered, Ended, WithText
<1>3. ASSUME e.kind = "status", endpoint = "collected"
      PROVE  m = WithStatus(state, Append(state.status, k))
  BY <1>3 DEF Remembered, Ended, WithStatus
<1>4. ASSUME e.kind = "reasoning"
      PROVE  m = WithPart(state, Grown(state.parts, PartOf(k), k), TRUE, {e.part})
  BY <1>4 DEF Remembered, Ended, PartOf, WithPart
<1>5. QED
  BY <1>1, <1>2, <1>3, <1>4

(* An event that does not end the turn is remembered where it belongs.       *)
LEMMA Remembering ==
  ASSUME TypeOK, NEW k \in 1..Len(script), ~Ended(script[k]),
         MemoryAt(state, k - 1)
  PROVE  Remembered(script[k], k) \in Memory /\ MemoryAt(Remembered(script[k], k), k)
<1> DEFINE e == script[k]
           m == Remembered(e, k)
           n == k - 1
<1>1. /\ e.kind \in {"text", "status", "reasoning"} /\ e.part \in Nat
      /\ k \in Nat \ {0} /\ n \in Nat /\ 1..k = 1..n \union {k} /\ k \notin 1..n
      /\ \A i \in 1..n : i < k
      /\ Len(script) \in Nat
  BY ScriptFacts DEF Ended
<1>2. /\ ThoughtTo(k) = ThoughtTo(n) \union (IF e.kind = "reasoning" THEN {k} ELSE {})
      /\ JoinedTo(k) = JoinedTo(n) \union
           (IF e.kind = "text" \/ (e.kind = "status" /\ endpoint # "collected") THEN {k} ELSE {})
      /\ ThoughtTo(n) \subseteq 1..n /\ JoinedTo(n) \subseteq 1..n
  BY <1>1 DEF ThoughtTo, JoinedTo
<1>3. /\ state.text \in Seq(Nat) /\ state.status \in Seq(Nat) /\ state.parts \in Seq(Seq(Nat))
      /\ state \in Memory
  BY DEF TypeOK, Memory, Joint, Joints
<1>0. state \in Memory
  BY <1>3
<1>8. /\ state.text \in Joint /\ state.parts \in Joints /\ state.added \in BOOLEAN
      /\ state.current \in SUBSET Nat
  BY <1>3 DEF Memory
<1>4. CASE e.kind = "text" \/ (e.kind = "status" /\ endpoint # "collected")
  <2>1. m = WithText(state, Append(state.text, k))
    BY <1>4, RememberedAs
  <2>a. Append(state.text, k) \in Joint
    BY <1>1, <1>3, AppendProperties DEF Joint
  <2>2. /\ m \in Memory /\ m.text = Append(state.text, k)
        /\ m.parts = state.parts /\ m.added = state.added
        /\ m.current = state.current /\ m.status = state.status
    <3> DEFINE t == Append(state.text, k)
    <3>1. t \in Joint /\ m = WithText(state, t)
      BY <2>1, <2>a
    <3> HIDE DEF t, m
    <3>2. /\ m \in Memory /\ m.text = t /\ m.parts = state.parts /\ m.added = state.added
          /\ m.current = state.current /\ m.status = state.status
      BY <1>0, <3>1, TextUpdated
    <3>3. QED
      BY <3>2 DEF t
  <2>3. /\ Elements(m.text) = JoinedTo(k) /\ Rising(m.text)
    <3>1. Elements(state.text) = JoinedTo(n) /\ Rising(state.text)
      BY DEF MemoryAt
    <3>2. QED
      BY <1>1, <1>2, <1>3, <1>4, <2>2, <3>1, AppendedElements
  <2>4. /\ ThoughtTo(k) = ThoughtTo(n) /\ PartsTo(k) = PartsTo(n)
    BY <1>2, <1>4 DEF PartsTo
  <2>5. {i \in 1..k : script[i].kind = "status" /\ endpoint = "collected"}
          = {i \in 1..n : script[i].kind = "status" /\ endpoint = "collected"}
    BY <1>1, <1>4
  <2> HIDE DEF m, n
  <2>6. QED
    BY <2>2, <2>3, <2>4, <2>5 DEF MemoryAt, m, n
<1>5. CASE e.kind = "status" /\ endpoint = "collected"
  <2>1. m = WithStatus(state, Append(state.status, k))
    BY <1>5, RememberedAs
  <2>a. Append(state.status, k) \in Joint
    BY <1>1, <1>3, AppendProperties DEF Joint
  <2>2. /\ m \in Memory /\ m.status = Append(state.status, k)
        /\ m.parts = state.parts /\ m.added = state.added
        /\ m.current = state.current /\ m.text = state.text
    <3> DEFINE t == Append(state.status, k)
    <3>1. t \in Joint /\ m = WithStatus(state, t)
      BY <2>1, <2>a
    <3> HIDE DEF t, m
    <3>2. /\ m \in Memory /\ m.status = t /\ m.parts = state.parts /\ m.added = state.added
          /\ m.current = state.current /\ m.text = state.text
      BY <1>0, <3>1, StatusUpdated
    <3>3. QED
      BY <3>2 DEF t
  <2>3. JoinedTo(k) = JoinedTo(n)
    BY <1>2, <1>5
  <2>4. /\ ThoughtTo(k) = ThoughtTo(n) /\ PartsTo(k) = PartsTo(n)
    BY <1>2, <1>5 DEF PartsTo
  <2>5. /\ {i \in 1..k : script[i].kind = "status" /\ endpoint = "collected"}
          = {i \in 1..n : script[i].kind = "status" /\ endpoint = "collected"} \union {k}
    BY <1>1, <1>5
  <2>6. Elements(m.status) = Elements(state.status) \union {k}
    BY <1>1, <1>3, <2>2, AppendedElements
  <2> HIDE DEF m, n
  <2>7. QED
    BY <2>2, <2>3, <2>4, <2>5, <2>6 DEF MemoryAt, m, n
<1>6. CASE e.kind = "reasoning"
  <2> DEFINE p == PartOf(k)
             g == Grown(state.parts, p, k)
  <2>0. p \in Nat /\ (endpoint = "collected" => p = 0) /\ (endpoint # "collected" => p = e.part)
    BY <1>1 DEF PartOf
  <2>1. m = WithPart(state, g, TRUE, {e.part})
    BY <1>6, RememberedAs
  <2>2. /\ g \in Seq(Seq(Nat)) /\ p + 1 \in DOMAIN g
        /\ DOMAIN state.parts \subseteq DOMAIN g /\ DOMAIN g \subseteq Nat \ {0}
        /\ \A i \in DOMAIN g : g[i] = LET old == IF i \in DOMAIN state.parts
                                                THEN state.parts[i] ELSE <<>>
                                      IN  IF i = p + 1 THEN Append(old, k) ELSE old
    BY <1>1, <1>3, <2>0, GrownParts
  <2> HIDE DEF g
  <2>a. {e.part} \in SUBSET Nat /\ TRUE \in BOOLEAN /\ state.text \in Joint
    BY <1>1, <1>8
  <2>c. g \in Joints
    BY <2>2 DEF Joint, Joints
  <2>3. /\ m \in Memory /\ m.parts = g /\ m.added = TRUE /\ m.current = {e.part}
        /\ m.text = state.text /\ m.status = state.status
    <3> DEFINE now == {e.part}
               yes == TRUE
    <3>1. now \in SUBSET Nat /\ m = WithPart(state, g, yes, now) /\ yes \in BOOLEAN
      BY <2>1, <2>a
    <3> HIDE DEF now, m, yes
    <3>2. /\ m \in Memory /\ m.parts = g /\ m.added = yes /\ m.current = now
          /\ m.text = state.text /\ m.status = state.status
      BY <1>0, <2>c, <3>1, PartUpdated
    <3>3. QED
      BY <3>2 DEF now, yes
  <2>4. /\ JoinedTo(k) = JoinedTo(n) /\ ThoughtTo(k) = ThoughtTo(n) \union {k}
    BY <1>2, <1>6
  <2>5. {i \in 1..k : script[i].kind = "status" /\ endpoint = "collected"}
          = {i \in 1..n : script[i].kind = "status" /\ endpoint = "collected"}
    BY <1>1, <1>6
  <2>6. ASSUME NEW i \in DOMAIN g
        PROVE  Elements(g[i]) = {j \in ThoughtTo(k) : PartOf(j) = i - 1} /\ Rising(g[i])
    <3> DEFINE old == IF i \in DOMAIN state.parts THEN state.parts[i] ELSE <<>>
    <3>1. old \in Seq(Nat)
      BY <1>3, LenProperties, ElementOfSeq
    <3>2. Elements(old) = {j \in ThoughtTo(n) : PartOf(j) = i - 1} /\ Rising(old)
      <4>1. CASE i \in DOMAIN state.parts
        BY <4>1 DEF MemoryAt
      <4>2. CASE i \notin DOMAIN state.parts
        <5>1. \A j \in ThoughtTo(n) : PartOf(j) + 1 \in DOMAIN state.parts
          BY DEF MemoryAt
        <5>2. \A j \in ThoughtTo(n) : PartOf(j) \in Nat
          BY <1>1, ScriptFacts DEF PartOf, ThoughtTo
        <5>3. {j \in ThoughtTo(n) : PartOf(j) = i - 1} = {}
          BY <2>2, <4>2, <5>1, <5>2
        <5>4. old = <<>> /\ DOMAIN old = {}
          BY <4>2
        <5>5. Elements(old) = {} /\ Rising(old)
          BY <5>4 DEF Elements, Rising
        <5>6. QED
          BY <5>3, <5>5
      <4>3. QED
        BY <4>1, <4>2
    <3>3. g[i] = IF i = p + 1 THEN Append(old, k) ELSE old
      BY <2>2
    <3>4. \A j \in Elements(old) : j < k
      BY <1>1, <1>2, <3>2
    <3> HIDE DEF old
    <3>5. CASE i = p + 1
      <4>1. Elements(g[i]) = Elements(old) \union {k} /\ Rising(g[i])
        BY <1>1, <3>1, <3>2, <3>3, <3>4, <3>5, AppendedElements
      <4>2. PartOf(k) = i - 1
        BY <2>0, <3>5
      <4>3. QED
        BY <2>4, <3>2, <4>1, <4>2
    <3>6. CASE i # p + 1
      <4>1. PartOf(k) # i - 1
        BY <2>0, <2>2, <3>6
      <4>2. QED
        BY <2>4, <3>2, <3>3, <3>6, <4>1
    <3>7. QED
      BY <3>5, <3>6
  <2>7. \A j \in ThoughtTo(k) : PartOf(j) + 1 \in DOMAIN g
    BY <2>2, <2>4 DEF MemoryAt
  <2>8. \E j \in ThoughtTo(k) : m.current = {script[j].part} /\ \A i \in ThoughtTo(k) : i <= j
    <3>1. k \in ThoughtTo(k) /\ m.current = {script[k].part}
      BY <2>3, <2>4
    <3>2. \A i \in ThoughtTo(k) : i <= k
      BY <1>1, <1>2, <2>4
    <3>3. QED
      BY <3>1, <3>2
  <2>9. k \in ThoughtTo(k)
    BY <2>4
  <2> HIDE DEF m, n
  <2>10. QED
    BY <2>3, <2>4, <2>5, <2>6, <2>7, <2>8, <2>9 DEF MemoryAt, m, n
<1>7. QED
  BY <1>1, <1>4, <1>5, <1>6

----------------------------------------------------------------------------
(* A stream that praises nothing, with one frame more.                       *)
LEMMA Modest ==
  ASSUME NEW s \in Seq(Frame), NEW f \in Frame, Unpraised(s), f.name \notin PraiseNames
  PROVE  Unpraised(Append(s, f))
BY PushedAt DEF Unpraised

(* What an event adds to a stream that goes on.                              *)
LEMMA ChatGoesOn ==
  ASSUME TypeOK, NEW k \in 1..Len(script), ~Ended(script[k]), NEW s,
         endpoint \notin {"responses", "collected"},
         StreamAt(s, k - 1, state, FALSE, FALSE), Unpraised(s)
  PROVE  /\ Rendered(script[k], k) \in Seq(Frame)
         /\ StreamAt(s \o Rendered(script[k], k), k, Remembered(script[k], k), FALSE, FALSE)
         /\ Unpraised(s \o Rendered(script[k], k))
<1> DEFINE name == IF script[k].kind = "reasoning" THEN "reasoning" ELSE "content"
           f == F(name, 0, k)
<1>1. /\ script[k].kind \in {"text", "status", "reasoning"}
      /\ k \in Nat \ {0} /\ 1..k = 1..(k - 1) \union {k} /\ \A i \in 1..(k - 1) : i < k
      /\ 1..(k - 1) \in SUBSET Nat
  BY ScriptFacts DEF Ended
<1>2. Rendered(script[k], k) = <<f>>
  BY <1>1 DEF Rendered, ChatFrames
<1>3. /\ f \in Frame /\ f.name \in {"reasoning", "content"} /\ f.of = k
      /\ name \in {"reasoning", "content"}
  <2>1. name \in Names /\ name \in {"reasoning", "content"}
    BY DEF Names
  <2> HIDE DEF name
  <2>2. QED
    BY <1>1, <2>1, FrameOf
<1> HIDE DEF f
<1>4. Rendering(s, 1..(k - 1), {}, {}, {}, {}, {}, {})
  BY DEF StreamAt, Items
<1>5. s \in Seq(Frame)
  BY <1>4 DEF Rendering
<1>6. /\ s \o Rendered(script[k], k) = Append(s, f) /\ Rendered(script[k], k) \in Seq(Frame)
  BY <1>2, <1>3, <1>5, Joined
<1>7. /\ 1..(k - 1) \union ({f.of} \ {0}) = 1..k
      /\ {} \union (IF f.name \in EnderNames THEN {Len(s) + 1} ELSE {}) = {}
      /\ f.name \notin BracketNames /\ f.name \notin PraiseNames
  BY <1>1, <1>3 DEF EnderNames, BracketNames, PraiseNames
<1>8. Rendering(Append(s, f), 1..k, {}, {}, {}, {}, {}, {})
  <2>1. Rendering(Append(s, f), 1..(k - 1) \union ({f.of} \ {0}), {}, {}, {}, {}, {},
                  {} \union (IF f.name \in EnderNames THEN {Len(s) + 1} ELSE {}))
    BY <1>1, <1>3, <1>4, <1>7, Plain
  <2>2. QED
    BY <1>7, <2>1
<1>9. QED
  BY <1>3, <1>5, <1>6, <1>7, <1>8, Modest DEF StreamAt, Items

(* The same for a collected answer, which renders nothing before its end.    *)
LEMMA CollectedGoesOn ==
  ASSUME TypeOK, NEW k \in 1..Len(script), ~Ended(script[k]), NEW s,
         endpoint = "collected",
         StreamAt(s, k - 1, state, FALSE, FALSE), Unpraised(s)
  PROVE  /\ Rendered(script[k], k) \in Seq(Frame)
         /\ StreamAt(s \o Rendered(script[k], k), k, Remembered(script[k], k), FALSE, FALSE)
         /\ Unpraised(s \o Rendered(script[k], k))
<1>1. Rendered(script[k], k) = <<>>
  BY DEF Rendered, Collected, Ended
<1>2. Rendering(s, {}, {}, {}, {}, {}, {}, {})
  BY DEF StreamAt, Items
<1>3. s \in Seq(Frame)
  BY <1>2 DEF Rendering
<1>4. <<>> \in Seq(Frame) /\ s \o <<>> = s
  BY <1>3, ConcatEmptySeq
<1>5. QED
  BY <1>1, <1>2, <1>4 DEF StreamAt, Items

(* What an event does to the open part.                                      *)
LEMMA RememberedFlags ==
  ASSUME TypeOK, NEW k \in 1..Len(script)
  PROVE  /\ script[k].kind \in {"text", "status"} =>
              /\ Remembered(script[k], k).added = state.added
              /\ Remembered(script[k], k).current = state.current
         /\ script[k].kind = "reasoning" =>
              /\ Remembered(script[k], k).added = TRUE
              /\ Remembered(script[k], k).current = {script[k].part}
<1> DEFINE e == script[k]
           m == Remembered(e, k)
<1>1. /\ state \in Memory /\ state.text \in Joint /\ state.status \in Joint
      /\ state.parts \in Seq(Seq(Nat)) /\ k \in Nat /\ e.part \in Nat
  <2>1. state \in Memory
    BY DEF TypeOK
  <2>2. state.text \in Joint /\ state.status \in Joint /\ state.parts \in Seq(Seq(Nat))
    BY <2>1 DEF Memory, Joint, Joints
  <2>3. k \in Nat /\ e.part \in Nat
    BY ScriptFacts
  <2> QED
    BY <2>1, <2>2, <2>3
<1>2. /\ Append(state.text, k) \in Joint /\ Append(state.status, k) \in Joint
  BY <1>1, AppendProperties DEF Joint
<1>3. CASE e.kind = "text" \/ (e.kind = "status" /\ endpoint # "collected")
  <2> DEFINE t == Append(state.text, k)
  <2>1. m = WithText(state, t)
    BY <1>3, RememberedAs
  <2>2. t \in Joint
    BY <1>2
  <2> HIDE DEF t, m
  <2>3. m.added = state.added /\ m.current = state.current
    BY <1>1, <2>1, <2>2, TextUpdated
  <2>4. e.kind # "reasoning"
    BY <1>3
  <2>5. QED
    BY <2>3, <2>4 DEF m
<1>4. CASE e.kind = "status" /\ endpoint = "collected"
  <2> DEFINE t == Append(state.status, k)
  <2>1. m = WithStatus(state, t)
    BY <1>4, RememberedAs
  <2>2. t \in Joint
    BY <1>2
  <2> HIDE DEF t, m
  <2>3. m.added = state.added /\ m.current = state.current
    BY <1>1, <2>1, <2>2, StatusUpdated
  <2>4. e.kind # "reasoning"
    BY <1>4
  <2>5. QED
    BY <2>3, <2>4 DEF m
<1>5. CASE e.kind = "reasoning"
  <2> DEFINE g == Grown(state.parts, PartOf(k), k)
             yes == TRUE
             c == {e.part}
  <2>1. m = WithPart(state, g, yes, c)
    BY <1>5, RememberedAs
  <2>2. PartOf(k) \in Nat
    BY <1>1 DEF PartOf
  <2>3. g \in Joints
    BY <1>1, <2>2, GrownParts DEF Joints, Joint
  <2>4. yes \in BOOLEAN /\ c \in SUBSET Nat
    BY <1>1
  <2> HIDE DEF g, yes, c, m
  <2>5. m.added = yes /\ m.current = c
    BY <1>1, <2>1, <2>3, <2>4, PartUpdated
  <2>6. QED
    BY <1>5, <2>5 DEF yes, c, m
<1>6. CASE e.kind \notin {"text", "status", "reasoning"}
  BY <1>6
<1>7. QED
  BY <1>3, <1>4, <1>5, <1>6

(* A responses stream opens the item and the part at first sight, and closes *)
(* the part it leaves: in order, no part comes back.                         *)
LEMMA ResponsesGoesOn ==
  ASSUME TypeOK, NEW k \in 1..Len(script), ~Ended(script[k]), NEW s,
         endpoint = "responses", MemoryAt(state, k - 1),
         StreamAt(s, k - 1, state, FALSE, FALSE), Unpraised(s)
  PROVE  /\ Rendered(script[k], k) \in Seq(Frame)
         /\ StreamAt(s \o Rendered(script[k], k), k, Remembered(script[k], k), FALSE, FALSE)
         /\ Unpraised(s \o Rendered(script[k], k))
<1> DEFINE e == script[k]
           n == k - 1
           opened == PartsTo(n)
           closed == PartsTo(n) \ state.current
           items  == Items(state)
           deltas == {<<script[i].part, i>> : i \in ThoughtTo(n)}
           m == Remembered(e, k)
<1>1. /\ e.kind \in {"text", "status", "reasoning"} /\ e.part \in Nat
      /\ k \in Nat \ {0} /\ 1..k = 1..n \union {k} /\ \A i \in 1..n : i < k
      /\ 1..n \in SUBSET Nat /\ Len(script) \in Nat /\ n \in Nat
  BY ScriptFacts DEF Ended
<1>0. k \in Nat /\ e.part \in Nat
  BY <1>1
<1>2. Rendering(s, 1..n, opened, closed, items, {}, deltas, {})
  BY DEF StreamAt
<1>3. s \in Seq(Frame)
  BY <1>2 DEF Rendering
<1>4. items = {0} \union (IF state.added THEN {1} ELSE {})
  BY DEF Items
<1>5. CASE e.kind # "reasoning"
  <2> DEFINE f == F("text.delta", 0, k)
  <2>1. Rendered(e, k) = <<f>>
    BY <1>1, <1>5 DEF Rendered, ResponsesFrames
  <2>2. f \in Frame /\ f.name = "text.delta"
    <3>1. "text.delta" \in Names /\ 0 \in Nat /\ k \in Nat
      BY <1>0 DEF Names
    <3>2. QED
      BY <3>1, FrameOf
  <2>3. /\ m.added = state.added /\ m.current = state.current
    BY <1>1, <1>5, RememberedFlags
  <2>4. ThoughtTo(k) = ThoughtTo(n)
    BY <1>1, <1>5 DEF ThoughtTo
  <2>5. Rendering(Append(s, f), 1..n \union {k}, opened, closed, items, {}, deltas, {})
    <3> HIDE DEF opened, closed, items, deltas
    <3>1. 0 \in items \ {}
      BY <1>4
    <3>2. QED
      BY <1>1, <1>2, <3>1, Brackets
  <2>6. s \o Rendered(e, k) = Append(s, f) /\ Rendered(e, k) \in Seq(Frame)
    BY <1>3, <2>1, <2>2, Joined
  <2>7. Unpraised(Append(s, f))
    BY <1>3, <2>2, Modest DEF PraiseNames
  <2>8. StreamAt(Append(s, f), k, m, FALSE, FALSE)
    <3>1. /\ PartsTo(k) = opened /\ PartsTo(k) \ m.current = closed /\ Items(m) = items
          /\ {<<script[i].part, i>> : i \in ThoughtTo(k)} = deltas
      BY <2>3, <2>4 DEF PartsTo, Items
    <3> HIDE DEF opened, closed, items, deltas, m, f
    <3>2. QED
      BY <1>1, <2>5, <3>1 DEF StreamAt
  <2>9. QED
    BY <2>6, <2>7, <2>8
<1>6. CASE e.kind = "reasoning"
  <2> DEFINE p == e.part
             delta == F("summary.delta", p, k)
             open  == F("part.added", p, 0)
             item  == F("item.added", 1, 0)
  <2>1. /\ delta \in Frame /\ delta.name = "summary.delta"
        /\ open \in Frame /\ open.name = "part.added"
        /\ item \in Frame /\ item.name = "item.added"
        /\ <<delta>> \in Seq(Frame) /\ <<open>> \in Seq(Frame) /\ <<item>> \in Seq(Frame)
    <3>1. delta \in Frame /\ delta.name = "summary.delta"
      BY <1>0, BracketFrames
    <3>2. open \in Frame /\ open.name = "part.added"
      BY <1>0, BracketFrames
    <3>3. item \in Frame /\ item.name = "item.added"
      BY <1>0, BracketFrames
    <3> HIDE DEF delta, open, item
    <3>4. QED
      BY <3>1, <3>2, <3>3
  <2>2. m.added = TRUE /\ m.current = {p}
    BY <1>1, <1>6, RememberedFlags
  <2>3. ThoughtTo(k) = ThoughtTo(n) \union {k}
    BY <1>1, <1>6 DEF ThoughtTo
  <2>4. /\ PartsTo(k) = opened \union {p} /\ Items(m) = {0, 1}
        /\ {<<script[i].part, i>> : i \in ThoughtTo(k)} = deltas \union {<<p, k>>}
    BY <2>2, <2>3 DEF PartsTo, Items
  <2>6. Rendered(e, k) = Thought(p, k)
    BY <1>6 DEF Rendered, ResponsesFrames
  <2>7. /\ ~state.added => opened = {} /\ state.current = {}
        /\ state.added => \E j \in ThoughtTo(n) : /\ state.current = {script[j].part}
                                                  /\ \A i \in ThoughtTo(n) : i <= j
    <3>1. ~state.added => ThoughtTo(n) = {} /\ state.current = {}
      BY DEF MemoryAt
    <3>2. QED
      BY <3>1 DEF MemoryAt, PartsTo
  <2>8. \A q \in opened : q \in Nat
    BY <1>1, ScriptFacts DEF PartsTo, ThoughtTo
  <2>9. \A t : Rendering(t, 1..k, opened \union {p}, (opened \union {p}) \ {p}, {0, 1}, {},
                       deltas \union {<<p, k>>}, {}) => StreamAt(t, k, m, FALSE, FALSE)
    <3> HIDE DEF opened, deltas, m, p
    <3>1. QED
      BY <2>2, <2>4 DEF StreamAt
  <2>10. CASE ~state.added
    <3> DEFINE s1 == Append(s, item)
               s2 == Append(s1, open)
               s3 == Append(s2, delta)
    <3>1. opened = {} /\ closed = {} /\ items = {0} /\ state.current = {}
      BY <1>4, <2>7, <2>10
    <3>2. Thought(p, k) = (<<item>> \o (<<>> \o <<open>>)) \o <<delta>>
      BY <2>10, <3>1 DEF Thought, Turned
    <3>3. Thought(p, k) = <<item>> \o (<<open>> \o <<delta>>)
      <4> HIDE DEF item, open, delta
      <4>1. QED
        BY <2>1, <3>2, ConcatEmptySeq, ConcatAssociative, ConcatProperties
    <3>4. s1 \in Seq(Frame) /\ s2 \in Seq(Frame)
      BY <1>3, <2>1, Pushed
    <3>5. s \o Thought(p, k) = s3 /\ Thought(p, k) \in Seq(Frame)
      <4> HIDE DEF item, open, delta
      <4>1. <<open>> \o <<delta>> \in Seq(Frame)
        BY <2>1, ConcatProperties
      <4>2. <<item>> \o (<<open>> \o <<delta>>) \in Seq(Frame)
        BY <2>1, <4>1, ConcatProperties
      <4>3. s \o Thought(p, k) = s1 \o (<<open>> \o <<delta>>)
        BY <1>3, <2>1, <3>3, <4>1, Joined
      <4>4. s1 \o (<<open>> \o <<delta>>) = s2 \o <<delta>>
        BY <2>1, <3>4, Joined
      <4>5. s2 \o <<delta>> = s3
        BY <2>1, <3>4, Joined
      <4>6. QED
        BY <3>3, <4>2, <4>3, <4>4, <4>5
    <3>6. Rendering(s1, 1..n, {}, {}, {0} \union {1}, {}, deltas, {})
      <4> HIDE DEF deltas
      <4>1. 1 \notin {0} \union {}
        OBVIOUS
      <4>2. QED
        BY <1>1, <1>2, <3>1, <4>1, Brackets
    <3>7. Rendering(s2, 1..n, {} \union {p}, {}, {0} \union {1}, {}, deltas, {})
      <4> HIDE DEF deltas, s1, p
      <4>1. p \notin {} \union {} /\ p \in Nat
        BY <1>1 DEF p
      <4>2. QED
        BY <1>1, <3>6, <4>1, Brackets
    <3>8. Rendering(s3, 1..n \union {k}, {} \union {p}, {}, {0} \union {1}, {},
                    deltas \union {<<p, k>>}, {})
      <4> HIDE DEF deltas, s2, p
      <4>1. p \in ({} \union {p}) \ {} /\ p \in Nat
        BY <1>1 DEF p
      <4>2. QED
        BY <1>1, <3>7, <4>1, Brackets
    <3>9. Unpraised(s3)
      BY <1>3, <2>1, <3>4, Modest DEF PraiseNames
    <3>10. /\ 1..n \union {k} = 1..k /\ {} \union {p} = opened \union {p}
           /\ (opened \union {p}) \ {p} = {} /\ {0} \union {1} = {0, 1}
      BY <1>1, <3>1
    <3> HIDE DEF s3, opened, deltas, p, m
    <3>11. StreamAt(s3, k, m, FALSE, FALSE)
      BY <2>9, <3>8, <3>10
    <3>12. QED
      BY <2>6, <3>5, <3>9, <3>11 DEF p, m
  <2>11. CASE state.added /\ state.current = {p}
    <3> DEFINE s1 == Append(s, delta)
    <3>1. p \in opened /\ items = {0, 1}
      BY <1>4, <2>7, <2>11 DEF PartsTo
    <3>2. Thought(p, k) = (<<>> \o <<>>) \o <<delta>>
      BY <2>11 DEF Thought, Turned
    <3>3. Thought(p, k) = <<delta>>
      <4> HIDE DEF delta
      <4>1. QED
        BY <2>1, <3>2, ConcatEmptySeq
    <3>4. s \o Thought(p, k) = s1 /\ Thought(p, k) \in Seq(Frame)
      BY <1>3, <2>1, <3>3, Joined
    <3>5. Rendering(s1, 1..n \union {k}, opened, closed, items, {}, deltas \union {<<p, k>>}, {})
      <4>1. p \in opened \ closed /\ p \in Nat
        BY <1>1, <2>11, <3>1
      <4> HIDE DEF opened, closed, items, deltas, p
      <4>2. QED
        BY <1>1, <1>2, <4>1, Brackets
    <3>6. Unpraised(s1)
      BY <1>3, <2>1, Modest DEF PraiseNames
    <3>7. /\ 1..n \union {k} = 1..k /\ opened = opened \union {p}
          /\ closed = (opened \union {p}) \ {p}
      BY <1>1, <2>11, <3>1
    <3> HIDE DEF s1, opened, closed, deltas, p, m, items
    <3>8. StreamAt(s1, k, m, FALSE, FALSE)
      BY <2>9, <3>1, <3>5, <3>7
    <3>9. QED
      BY <2>6, <3>4, <3>6, <3>8 DEF p, m
  <2>12. CASE state.added /\ state.current # {p}
    <3>0. PICK j \in ThoughtTo(n) : /\ state.current = {script[j].part}
                                   /\ \A i \in ThoughtTo(n) : i <= j
      BY <2>7, <2>12
    <3> DEFINE q == script[j].part
    <3>1. state.current = {q} /\ q \in opened
      BY <3>0 DEF PartsTo
    <3>a. NoPartReturns => p \notin opened
      <4> SUFFICES ASSUME NoPartReturns, NEW i \in ThoughtTo(n), script[i].part = p
                   PROVE  FALSE
        BY DEF PartsTo
      <4>1. script \in Scripts /\ DOMAIN script = 1..Len(script)
        <5>1. script \in Scripts /\ script \in Seq(Event)
          BY HttpStreamAssumption DEF TypeOK
        <5>2. QED
          BY <5>1, LenProperties
      <4>2. /\ i \in DOMAIN script /\ j \in DOMAIN script /\ k \in DOMAIN script
            /\ script[i].kind = "reasoning" /\ script[j].kind = "reasoning"
            /\ script[k].kind = "reasoning"
        BY <1>1, <1>6, <4>1 DEF ThoughtTo
      <4>3. i < j /\ j < k
        BY <1>1, <2>12, <3>0, <3>1 DEF ThoughtTo
      <4>4. script[j].part = p
        BY <4>1, <4>2, <4>3 DEF NoPartReturns
      <4>5. QED
        BY <2>12, <3>1, <4>4
    <3>2. q # p /\ q \in Nat /\ closed = opened \ {q} /\ items = {0, 1}
      BY <1>1, <1>4, <2>8, <2>12, <3>1
    <3> HIDE DEF q
    <3> DEFINE close == F("part.done", q, 0)
               s1 == Append(s, close)
               s2 == Append(s1, open)
               s3 == Append(s2, delta)
    <3>3. close \in Frame /\ close.name = "part.done" /\ <<close>> \in Seq(Frame)
      <4>1. q \in Nat
        BY <3>2
      <4>2. close \in Frame /\ close.name = "part.done"
        BY <4>1, BracketFrames
      <4> HIDE DEF close
      <4>3. QED
        BY <4>2
    <3>4. (CHOOSE x \in state.current : TRUE) = q
      BY <3>1
    <3>5. Thought(p, k) = (<<>> \o (<<close>> \o <<open>>)) \o <<delta>>
      BY <2>12, <3>1, <3>2, <3>4 DEF Thought, Turned
    <3>6. Thought(p, k) = <<close>> \o (<<open>> \o <<delta>>)
      <4> HIDE DEF close, open, delta
      <4>1. QED
        BY <2>1, <3>3, <3>5, ConcatEmptySeq, ConcatAssociative, ConcatProperties
    <3>7. s1 \in Seq(Frame) /\ s2 \in Seq(Frame)
      BY <1>3, <2>1, <3>3, Pushed
    <3>8. s \o Thought(p, k) = s3 /\ Thought(p, k) \in Seq(Frame)
      <4> HIDE DEF close, open, delta
      <4>1. <<open>> \o <<delta>> \in Seq(Frame)
        BY <2>1, ConcatProperties
      <4>2. <<close>> \o (<<open>> \o <<delta>>) \in Seq(Frame)
        BY <3>3, <4>1, ConcatProperties
      <4>0. s \o (<<close>> \o (<<open>> \o <<delta>>)) = s1 \o (<<open>> \o <<delta>>)
        <5> DEFINE rest == <<open>> \o <<delta>>
        <5> HIDE DEF rest
        <5>1. rest \in Seq(Frame)
          BY <4>1 DEF rest
        <5>2. s \o (<<close>> \o rest) = s1 \o rest
          BY <1>3, <3>3, <5>1, Joined
        <5>3. QED
          BY <5>2 DEF rest
      <4>3. s \o Thought(p, k) = s1 \o (<<open>> \o <<delta>>)
        BY <3>6, <4>0
      <4>4. s1 \o (<<open>> \o <<delta>>) = s2 \o <<delta>>
        BY <2>1, <3>7, Joined
      <4>5. s2 \o <<delta>> = s3
        BY <2>1, <3>7, Joined
      <4>6. QED
        BY <3>6, <4>2, <4>3, <4>4, <4>5
    <3>9. Rendering(s1, 1..n, opened, closed \union {q}, items, {}, deltas, {})
      <4>1. q \in opened \ closed
        BY <3>1, <3>2
      <4> HIDE DEF opened, closed, items, deltas
      <4>2. QED
        BY <1>1, <1>2, <3>2, <4>1, Brackets
    <3>10. Rendering(s2, 1..n, opened \union {p}, closed \union {q}, items, {}, deltas, {})
      <4>1. (NoPartReturns => p \notin opened \union (closed \union {q})) /\ p \in Nat
        BY <1>1, <3>2, <3>a
      <4> HIDE DEF opened, closed, items, deltas, s1, p
      <4>2. QED
        BY <1>1, <3>9, <4>1, Brackets
    <3>11. Rendering(s3, 1..n \union {k}, opened \union {p}, closed \union {q}, items, {},
                     deltas \union {<<p, k>>}, {})
      <4>1. (NoPartReturns => p \in (opened \union {p}) \ (closed \union {q})) /\ p \in Nat
        BY <1>1, <3>2, <3>a
      <4> HIDE DEF opened, closed, items, deltas, s2, p
      <4>2. QED
        BY <1>1, <3>10, <4>1, Brackets
    <3>12. Unpraised(s3)
      BY <1>3, <2>1, <3>3, <3>7, Modest DEF PraiseNames
    <3>13. /\ 1..n \union {k} = 1..k
           /\ NoPartReturns => closed \union {q} = (opened \union {p}) \ {p}
      BY <1>1, <3>1, <3>2, <3>a
    <3> HIDE DEF s3, opened, closed, deltas, p, m, items
    <3>b. Rendering(s3, 1..n \union {k}, opened \union {p}, (opened \union {p}) \ {p}, items, {},
                    deltas \union {<<p, k>>}, {})
      BY <3>11, <3>13 DEF Rendering
    <3>14. StreamAt(s3, k, m, FALSE, FALSE)
      BY <2>9, <3>2, <3>b, <3>13
    <3>15. QED
      BY <2>6, <3>8, <3>12, <3>14 DEF p, m
  <2>13. QED
    BY <2>10, <2>11, <2>12
<1>7. QED
  BY <1>5, <1>6

----------------------------------------------------------------------------
(* Frames that end a response or say nothing of the turn.                    *)
LEMMA LastFrame ==
  ASSUME NEW s, NEW f \in Frame, NEW events \in SUBSET Nat, NEW opened, NEW closed,
         NEW items, NEW finished, NEW deltas,
         Rendering(s, events, opened, closed, items, finished, deltas, {}),
         f.of = 0, f.name \in EnderNames
  PROVE  Rendering(Append(s, f), events, opened, closed, items, finished, deltas,
                   {Len(Append(s, f))})
<1>1. f.name \notin BracketNames
  BY DEF EnderNames, BracketNames
<1>2. Rendering(Append(s, f), events \union ({f.of} \ {0}), opened, closed, items, finished,
                deltas, {} \union (IF f.name \in EnderNames THEN {Len(s) + 1} ELSE {}))
  BY <1>1, Plain
<1>3. s \in Seq(Frame)
  BY DEF Rendering
<1>4. Len(Append(s, f)) = Len(s) + 1
  BY <1>3, Pushed
<1>5. /\ events \union ({f.of} \ {0}) = events
      /\ {} \union (IF f.name \in EnderNames THEN {Len(s) + 1} ELSE {}) = {Len(Append(s, f))}
  BY <1>4
<1>6. QED
  BY <1>2, <1>5

(* A frame that carries, opens, closes and ends nothing.                     *)
LEMMA QuietFrame ==
  ASSUME NEW s, NEW f \in Frame, NEW events \in SUBSET Nat, NEW opened, NEW closed,
         NEW items, NEW finished, NEW deltas,
         Rendering(s, events, opened, closed, items, finished, deltas, {}),
         f.of = 0, f.name \notin EnderNames \union BracketNames
  PROVE  Rendering(Append(s, f), events, opened, closed, items, finished, deltas, {})
<1>1. Rendering(Append(s, f), events \union ({f.of} \ {0}), opened, closed, items, finished,
                deltas, {} \union (IF f.name \in EnderNames THEN {Len(s) + 1} ELSE {}))
  BY Plain
<1>2. /\ events \union ({f.of} \ {0}) = events
      /\ {} \union (IF f.name \in EnderNames THEN {Len(s) + 1} ELSE {}) = {}
  OBVIOUS
<1>3. QED
  BY <1>1, <1>2

(* A stream that breaks off, and a beat of the clock.                        *)
LEMMA BreaksOff ==
  ASSUME NEW n \in Nat, NEW m, NEW s, StreamAt(s, n, m, FALSE, FALSE), Unpraised(s),
         NEW f \in Frame, f.of = 0, f.name \in {"error", "response.failed"}
  PROVE  StreamAt(Append(s, f), n, m, FALSE, TRUE) /\ Unpraised(Append(s, f))
<1> DEFINE events == IF endpoint = "collected" THEN {} ELSE 1..n
           opened == IF endpoint = "responses" THEN PartsTo(n) ELSE {}
           closed == IF endpoint # "responses" THEN {} ELSE PartsTo(n) \ m.current
           deltas == IF endpoint = "responses" THEN {<<script[k].part, k>> : k \in ThoughtTo(n)}
                                               ELSE {}
<1>1. Rendering(s, events, opened, closed, Items(m), {}, deltas, {})
  BY DEF StreamAt
<1>2. events \in SUBSET Nat /\ f.name \in EnderNames /\ f.name \notin PraiseNames
  BY DEF EnderNames, PraiseNames
<1>3. s \in Seq(Frame)
  BY <1>1 DEF Rendering
<1>4. Rendering(Append(s, f), events, opened, closed, Items(m), {}, deltas, {Len(Append(s, f))})
  <2> HIDE DEF events, opened, closed, deltas
  <2>1. QED
    BY <1>1, <1>2, LastFrame
<1>5. QED
  BY <1>2, <1>3, <1>4, Modest DEF StreamAt

(* A keep-alive.                                                             *)
LEMMA Beats ==
  ASSUME NEW n \in Nat, NEW m, NEW s, StreamAt(s, n, m, FALSE, FALSE), Unpraised(s),
         NEW f \in Frame, f.of = 0, f.name = "ping"
  PROVE  StreamAt(Append(s, f), n, m, FALSE, FALSE) /\ Unpraised(Append(s, f))
<1> DEFINE events == IF endpoint = "collected" THEN {} ELSE 1..n
           opened == IF endpoint = "responses" THEN PartsTo(n) ELSE {}
           closed == IF endpoint # "responses" THEN {} ELSE PartsTo(n) \ m.current
           deltas == IF endpoint = "responses" THEN {<<script[k].part, k>> : k \in ThoughtTo(n)}
                                               ELSE {}
<1>1. Rendering(s, events, opened, closed, Items(m), {}, deltas, {})
  BY DEF StreamAt
<1>2. /\ events \in SUBSET Nat /\ f.name \notin EnderNames \union BracketNames
      /\ f.name \notin PraiseNames
  BY DEF EnderNames, PraiseNames, BracketNames
<1>3. s \in Seq(Frame)
  BY <1>1 DEF Rendering
<1>4. Rendering(Append(s, f), events, opened, closed, Items(m), {}, deltas, {})
  <2> HIDE DEF events, opened, closed, deltas
  <2>1. QED
    BY <1>1, <1>2, QuietFrame
<1>5. QED
  BY <1>2, <1>3, <1>4, Modest DEF StreamAt

----------------------------------------------------------------------------
(* The final object: its text and its summaries are the events told so far.  *)
LEMMA JoinedElements ==
  ASSUME NEW a \in Seq(Nat), NEW b \in Seq(Nat)
  PROVE  a \o b \in Seq(Nat) /\ Elements(a \o b) = Elements(a) \union Elements(b)
<1>1. /\ a \o b \in Seq(Nat) /\ Len(a) \in Nat /\ Len(b) \in Nat
      /\ DOMAIN a = 1..Len(a) /\ DOMAIN b = 1..Len(b)
      /\ DOMAIN (a \o b) = 1..(Len(a) + Len(b))
      /\ \A i \in 1..(Len(a) + Len(b)) :
           (a \o b)[i] = IF i <= Len(a) THEN a[i] ELSE b[i - Len(a)]
  BY ConcatProperties, LenProperties
<1>2. \A x \in Elements(a) : x \in Elements(a \o b)
  <2> SUFFICES ASSUME NEW i \in 1..Len(a) PROVE a[i] \in Elements(a \o b)
    BY <1>1 DEF Elements
  <2>1. i \in 1..(Len(a) + Len(b)) /\ (a \o b)[i] = a[i]
    BY <1>1
  <2>2. QED
    BY <1>1, <2>1 DEF Elements
<1>3. \A x \in Elements(b) : x \in Elements(a \o b)
  <2> SUFFICES ASSUME NEW i \in 1..Len(b) PROVE b[i] \in Elements(a \o b)
    BY <1>1 DEF Elements
  <2>1. /\ i + Len(a) \in 1..(Len(a) + Len(b)) /\ ~(i + Len(a) <= Len(a))
        /\ i + Len(a) - Len(a) = i
    BY <1>1
  <2>2. (a \o b)[i + Len(a)] = b[i]
    BY <1>1, <2>1
  <2>3. QED
    BY <1>1, <2>1, <2>2 DEF Elements
<1>4. \A x \in Elements(a \o b) : x \in Elements(a) \union Elements(b)
  <2> SUFFICES ASSUME NEW i \in 1..(Len(a) + Len(b))
               PROVE  (a \o b)[i] \in Elements(a) \union Elements(b)
    BY <1>1 DEF Elements
  <2>1. CASE i <= Len(a)
    BY <1>1, <2>1 DEF Elements
  <2>2. CASE ~(i <= Len(a))
    <3>1. i - Len(a) \in 1..Len(b) /\ (a \o b)[i] = b[i - Len(a)]
      BY <1>1, <2>2
    <3>2. QED
      BY <1>1, <3>1 DEF Elements
  <2>3. QED
    BY <2>1, <2>2
<1>5. QED
  BY <1>1, <1>2, <1>3, <1>4

(* The elements of a finite set of numbers, counted up.                      *)
LEMMA Counted ==
  ASSUME NEW S \in SUBSET Nat, IsFiniteSet(S)
  PROVE  LET nth(n) == CHOOSE i \in S : Cardinality({j \in S : j <= i}) = n
         IN  /\ Cardinality(S) \in Nat
             /\ \A n \in 1..Cardinality(S) : nth(n) \in S
             /\ \A m, n \in 1..Cardinality(S) : m < n => nth(m) < nth(n)
             /\ \A i \in S : \E n \in 1..Cardinality(S) : nth(n) = i
<1> DEFINE upto(i) == {j \in S : j <= i}
           rank == [i \in S |-> Cardinality(upto(i))]
           c == Cardinality(S)
           nth(n) == CHOOSE i \in S : Cardinality(upto(i)) = n
<1>1. c \in Nat
  BY FS_CardinalityType
<1>2. \A i \in S : upto(i) \in SUBSET S /\ i \in upto(i)
  OBVIOUS
<1> HIDE DEF c
<1>3. ASSUME NEW i \in S
      PROVE  /\ IsFiniteSet(upto(i)) /\ Cardinality(upto(i)) \in 1..c
  <2> DEFINE u == upto(i)
  <2>1. u \in SUBSET S /\ i \in u
    OBVIOUS
  <2> HIDE DEF u
  <2>2. IsFiniteSet(u) /\ Cardinality(u) <= c /\ Cardinality(u) \in Nat
    BY <2>1, FS_Subset, FS_CardinalityType DEF c
  <2>3. Cardinality(u) # 0
    BY <2>1, <2>2, FS_EmptySet
  <2> QED
    BY <1>1, <2>2, <2>3 DEF u
<1>4. ASSUME NEW i \in S, NEW j \in S, i < j
      PROVE  Cardinality(upto(i)) < Cardinality(upto(j))
  <2> DEFINE u == upto(i)
             v == upto(j)
  <2>0. i \in Nat /\ j \in Nat /\ \A x \in S : x \in Nat
    OBVIOUS
  <2>1. u \in SUBSET v /\ j \in v /\ j \notin u
    <3>1. \A x \in u : x \in S /\ x <= i
      OBVIOUS
    <3>2. \A x \in u : x \in v
      BY <1>4, <2>0, <3>1
    <3>3. j \in v /\ j \notin u
      BY <1>4, <2>0
    <3> HIDE DEF u, v
    <3> QED
      BY <3>2, <3>3
  <2>2. IsFiniteSet(v) /\ Cardinality(v) \in Nat /\ Cardinality(u) \in Nat
    BY <1>3
  <2> HIDE DEF u, v
  <2>3. Cardinality(u) <= Cardinality(v) /\ Cardinality(u) # Cardinality(v)
    BY <2>1, <2>2, FS_Subset
  <2>4. Cardinality(u) < Cardinality(v)
    BY <2>2, <2>3
  <2> QED
    BY <2>4 DEF u, v
<1> HIDE DEF upto
<1>5. \A i, j \in S : Cardinality(upto(i)) = Cardinality(upto(j)) => i = j
  <2> SUFFICES ASSUME NEW i \in S, NEW j \in S, Cardinality(upto(i)) = Cardinality(upto(j)),
                      i # j
               PROVE  FALSE
    OBVIOUS
  <2>1. i < j \/ j < i
    OBVIOUS
  <2>2. Cardinality(upto(i)) \in Nat
    BY <1>1, <1>3
  <2> QED
    BY <1>4, <2>1, <2>2
<1>6. rank \in Injection(S, 1..c)
  <2>1. rank \in [S -> 1..c]
    BY <1>3
  <2>2. \A i, j \in S : rank[i] = rank[j] => i = j
    BY <1>5
  <2> HIDE DEF rank
  <2> QED
    BY <2>1, <2>2 DEF Injection, IsInjective
<1>7. IsFiniteSet(1..c) /\ Cardinality(1..c) = c
  BY <1>1, FS_Interval
<1>8. rank \in Surjection(S, 1..c)
  <2> HIDE DEF rank
  <2> QED
    BY <1>6, <1>7, FS_Injection DEF c
<1>9. \A n \in 1..c : \E i \in S : Cardinality(upto(i)) = n
  <2>1. \A n \in 1..c : \E i \in S : rank[i] = n
    <3> HIDE DEF rank
    <3> QED
      BY <1>8 DEF Surjection
  <2> QED
    BY <2>1
<1>10. \A n \in 1..c : nth(n) \in S /\ Cardinality(upto(nth(n))) = n
  BY <1>9
<1> HIDE DEF nth
<1>11. ASSUME NEW m \in 1..c, NEW n \in 1..c, m < n PROVE nth(m) < nth(n)
  <2>1. nth(m) \in S /\ nth(n) \in S /\ nth(m) \in Nat /\ nth(n) \in Nat
    BY <1>10
  <2>2. CASE nth(n) < nth(m)
    <3>1. Cardinality(upto(nth(n))) < Cardinality(upto(nth(m)))
      BY <1>4, <2>1, <2>2
    <3>2. n < m
      BY <1>10, <3>1
    <3> QED
      BY <1>1, <1>11, <3>2
  <2>3. nth(m) # nth(n)
    BY <1>1, <1>10, <1>11
  <2> QED
    BY <2>1, <2>2, <2>3
<1>12. ASSUME NEW i \in S PROVE \E n \in 1..c : nth(n) = i
  <2>1. Cardinality(upto(i)) \in 1..c
    BY <1>3
  <2>2. nth(Cardinality(upto(i))) = i
    BY <1>5, <1>10, <2>1
  <2> QED
    BY <2>1, <2>2
<1> QED
  BY <1>1, <1>10, <1>11, <1>12 DEF c, nth, upto

(* Kept drops the parts without an event, and keeps the order of the others. *)
LEMMA KeptParts ==
  ASSUME NEW parts \in Seq(Seq(Nat))
  PROVE  /\ Kept(parts) \in Sums
         /\ \E place \in [DOMAIN Kept(parts) -> DOMAIN parts] :
              /\ Rising(place)
              /\ \A p \in DOMAIN place :
                   Kept(parts)[p] = parts[place[p]] /\ parts[place[p]] # <<>>
              /\ \A i \in DOMAIN parts :
                   (\E p \in DOMAIN place : place[p] = i) \/ Elements(parts[i]) = {}
<1> DEFINE told == {i \in DOMAIN parts : parts[i] # <<>>}
           nth(n) == CHOOSE i \in told : Cardinality({j \in told : j <= i}) = n
           c == Cardinality(told)
           place == [n \in 1..c |-> nth(n)]
<1>1. /\ DOMAIN parts = 1..Len(parts) /\ Len(parts) \in Nat
      /\ \A i \in DOMAIN parts : parts[i] \in Seq(Nat)
  <2>1. DOMAIN parts = 1..Len(parts) /\ Len(parts) \in Nat
    BY LenProperties
  <2>2. QED
    BY <2>1, ElementOfSeq
<1>2. told \in SUBSET (1..Len(parts)) /\ told \in SUBSET Nat /\ told \subseteq DOMAIN parts
  BY <1>1
<1>3. Kept(parts) = [n \in 1..c |-> parts[nth(n)]]
  BY DEF Kept
<1>4. \A i \in DOMAIN parts : i \in told <=> parts[i] # <<>>
  OBVIOUS
<1> HIDE DEF told
<1>5. IsFiniteSet(told)
  <2>1. IsFiniteSet(1..Len(parts))
    BY <1>1, FS_Interval
  <2> QED
    BY <1>2, <2>1, FS_Subset
<1>6. /\ c \in Nat
      /\ \A n \in 1..c : nth(n) \in told
      /\ \A m, n \in 1..c : m < n => nth(m) < nth(n)
      /\ \A i \in told : \E n \in 1..c : nth(n) = i
  BY <1>2, <1>5, Counted
<1> HIDE DEF nth, c
<1>7. Kept(parts) \in Sums
  <2>1. Kept(parts) \in [1..c -> Seq(Nat)] /\ 1..c \in SUBSET Nat
    <3>1. \A n \in 1..c : parts[nth(n)] \in Seq(Nat)
      BY <1>1, <1>2, <1>6
    <3>2. 1..c \in SUBSET Nat
      BY <1>6
    <3> QED
      BY <1>3, <3>1, <3>2
  <2> QED
    BY <2>1 DEF Sums
<1>8. /\ place \in [DOMAIN Kept(parts) -> DOMAIN parts] /\ Rising(place)
      /\ \A p \in DOMAIN place : Kept(parts)[p] = parts[place[p]] /\ parts[place[p]] # <<>>
  <2>1. DOMAIN Kept(parts) = 1..c /\ \A p \in 1..c : Kept(parts)[p] = parts[nth(p)]
    BY <1>3
  <2>2. \A p \in 1..c : nth(p) \in DOMAIN parts /\ parts[nth(p)] # <<>>
    BY <1>2, <1>4, <1>6
  <2>3. Rising(place)
    BY <1>6 DEF Rising
  <2> QED
    BY <2>1, <2>2, <2>3
<1>9. Elements(<<>>) = {}
  BY DEF Elements
<1>10. \A i \in DOMAIN parts :
         (\E p \in DOMAIN place : place[p] = i) \/ Elements(parts[i]) = {}
  BY <1>4, <1>6, <1>9
<1> HIDE DEF place
<1> QED
  BY <1>7, <1>8, <1>10

(* The texts of a final object hold every event of the turn, in order.       *)
LEMMA FinalObject ==
  ASSUME TypeOK, NEW n \in Nat, n <= Len(script), \A i \in 1..n : ~Ended(script[i]),
         MemoryAt(state, n), NEW text,
         text = IF endpoint = "collected" THEN state.text \o state.status ELSE state.text
  PROVE  LET sums == Kept(state.parts)
         IN  /\ text \in Seq(Nat) /\ sums \in Sums
             /\ Elements(text) \union UNION {Elements(sums[p]) : p \in DOMAIN sums} = 1..n
             /\ endpoint # "collected" => Rising(text)
             /\ \A p \in DOMAIN sums : Rising(sums[p])
             /\ \E part \in [DOMAIN sums -> {PartOf(k) : k \in ThoughtTo(n)}] :
                  /\ Rising(part)
                  /\ \A p \in DOMAIN sums :
                       Elements(sums[p]) = {k \in ThoughtTo(n) : PartOf(k) = part[p]}
<1> DEFINE sums == Kept(state.parts)
           status == {k \in 1..n : script[k].kind = "status" /\ endpoint = "collected"}
<1>1. /\ state.text \in Seq(Nat) /\ state.status \in Seq(Nat) /\ state.parts \in Seq(Seq(Nat))
  BY DEF TypeOK, Memory, Joint, Joints
<1>2. \A i \in 1..n : script[i].kind \in {"text", "status", "reasoning"} /\ script[i].part \in Nat
  <2>1. Len(script) \in Nat
    <3>1. script \in Seq(Event)
      BY HttpStreamAssumption DEF TypeOK
    <3>2. QED
      BY <3>1, LenProperties
  <2>2. \A i \in 1..n : i \in 1..Len(script)
    BY <2>1
  <2>3. QED
    BY <2>2, ScriptFacts DEF Ended
<1>3. /\ text \in Seq(Nat)
      /\ endpoint # "collected" => Rising(text)
  <2>1. Rising(state.text)
    BY DEF MemoryAt
  <2>2. CASE endpoint = "collected"
    BY <1>1, <2>2, JoinedElements
  <2>3. CASE endpoint # "collected"
    BY <1>1, <2>1, <2>3
  <2>4. QED
    BY <2>2, <2>3
<1>4. Elements(text) = JoinedTo(n) \union status
  <2>1. Elements(state.text) = JoinedTo(n) /\ Elements(state.status) = status
    BY DEF MemoryAt
  <2>2. CASE endpoint = "collected"
    BY <1>1, <2>1, <2>2, JoinedElements
  <2>3. CASE endpoint # "collected"
    BY <2>1, <2>3
  <2>4. QED
    BY <2>2, <2>3
<1>5. /\ sums \in Sums
      /\ \E place \in [DOMAIN sums -> DOMAIN state.parts] :
           /\ Rising(place)
           /\ \A p \in DOMAIN place :
                sums[p] = state.parts[place[p]] /\ state.parts[place[p]] # <<>>
           /\ \A i \in DOMAIN state.parts :
                (\E p \in DOMAIN place : place[p] = i) \/ Elements(state.parts[i]) = {}
  BY <1>1, KeptParts
<1> HIDE DEF sums
<1>p. PICK place \in [DOMAIN sums -> DOMAIN state.parts] :
        /\ Rising(place)
        /\ \A p \in DOMAIN place :
             sums[p] = state.parts[place[p]] /\ state.parts[place[p]] # <<>>
        /\ \A i \in DOMAIN state.parts :
             (\E p \in DOMAIN place : place[p] = i) \/ Elements(state.parts[i]) = {}
  BY <1>5
<1>6. /\ \A p \in DOMAIN state.parts :
           /\ Elements(state.parts[p]) = {k \in ThoughtTo(n) : PartOf(k) = p - 1}
           /\ Rising(state.parts[p])
      /\ \A k \in ThoughtTo(n) : PartOf(k) + 1 \in DOMAIN state.parts
  BY DEF MemoryAt
<1>d. /\ DOMAIN state.parts = 1..Len(state.parts) /\ Len(state.parts) \in Nat
      /\ \A i \in DOMAIN state.parts : state.parts[i] \in Seq(Nat)
  <2>1. DOMAIN state.parts = 1..Len(state.parts) /\ Len(state.parts) \in Nat
    BY <1>1, LenProperties
  <2>2. QED
    BY <1>1, <2>1, ElementOfSeq
<1> DEFINE part == [p \in DOMAIN sums |-> place[p] - 1]
<1>7. \A p \in DOMAIN sums :
        /\ place[p] \in DOMAIN state.parts /\ place[p] \in Nat \ {0}
        /\ Rising(sums[p]) /\ part[p] = place[p] - 1
        /\ Elements(sums[p]) = {k \in ThoughtTo(n) : PartOf(k) = part[p]}
  BY <1>6, <1>d, <1>p
<1>8. part \in [DOMAIN sums -> {PartOf(k) : k \in ThoughtTo(n)}] /\ Rising(part)
  <2>1. ASSUME NEW p \in DOMAIN sums PROVE part[p] \in {PartOf(k) : k \in ThoughtTo(n)}
    <3>1. Elements(sums[p]) # {}
      <4>1. sums[p] \in Seq(Nat) /\ sums[p] # <<>>
        BY <1>d, <1>p, <1>7, <2>1
      <4>2. 1 \in DOMAIN sums[p]
        BY <4>1
      <4> QED
        BY <4>2 DEF Elements
    <3>2. PICK k \in ThoughtTo(n) : PartOf(k) = part[p]
      BY <1>7, <2>1, <3>1
    <3> QED
      BY <3>2
  <2>2. ASSUME NEW p \in DOMAIN sums, NEW q \in DOMAIN sums, p < q PROVE part[p] < part[q]
    <3>1. place[p] < place[q]
      BY <1>p, <2>2 DEF Rising
    <3> QED
      BY <1>7, <2>2, <3>1
  <2>3. Rising(part)
    BY <2>2 DEF Rising
  <2> QED
    BY <2>1, <2>3
<1> HIDE DEF part
<1>9. UNION {Elements(sums[p]) : p \in DOMAIN sums} = ThoughtTo(n)
  <2>1. ASSUME NEW k \in ThoughtTo(n)
        PROVE  \E p \in DOMAIN sums : k \in Elements(sums[p])
    <3>1. PartOf(k) \in Nat
      BY <1>2 DEF PartOf, ThoughtTo
    <3>2. PartOf(k) + 1 \in DOMAIN state.parts /\ PartOf(k) = (PartOf(k) + 1) - 1
      BY <1>6, <3>1
    <3>3. k \in Elements(state.parts[PartOf(k) + 1])
      BY <1>6, <3>2
    <3>4. PICK p \in DOMAIN place : place[p] = PartOf(k) + 1
      BY <1>p, <3>2, <3>3
    <3>5. QED
      BY <1>p, <3>3, <3>4
  <2>2. QED
    BY <1>7, <2>1
<1>10. JoinedTo(n) \union status \union ThoughtTo(n) = 1..n
  BY <1>2 DEF JoinedTo, ThoughtTo
<1>11. QED
  <2>1. Elements(text) \union UNION {Elements(sums[p]) : p \in DOMAIN sums} = 1..n
    BY <1>4, <1>9, <1>10
  <2>2. \E x \in [DOMAIN sums -> {PartOf(k) : k \in ThoughtTo(n)}] :
          /\ Rising(x)
          /\ \A p \in DOMAIN sums : Elements(sums[p]) = {k \in ThoughtTo(n) : PartOf(k) = x[p]}
    BY <1>7, <1>8
  <2> QED
    BY <1>3, <1>5, <1>7, <2>1, <2>2 DEF sums

----------------------------------------------------------------------------
(* What the completion of the turn adds to a stream.                         *)
LEMMA NoFinal ==
  ASSUME NEW s, Unpraised(s)
  PROVE  At(s, FinalNames) = {}
<1>1. At(s, FinalNames) \subseteq At(s, PraiseNames)
  BY DEF At, FinalNames, PraiseNames
<1>2. QED
  BY <1>1 DEF Unpraised

(* Final objects: none so far; one, which is the last frame.                 *)
LEMMA StillNoFinal ==
  ASSUME NEW s \in Seq(Frame), NEW f \in Frame, At(s, FinalNames) = {}, f.name \notin FinalNames
  PROVE  At(Append(s, f), FinalNames) = {}
BY PushedAt

(* The last frame is a final object.                                         *)
LEMMA FinalsPushed ==
  ASSUME NEW s \in Seq(Frame), NEW f \in Frame, NEW n, At(s, FinalNames) = {},
         f.name # "summary.delta", Restates(f, s, n)
  PROVE  Finals(Append(s, f), n)
<1> DEFINE t == Append(s, f)
<1>1. \A k \in At(t, FinalNames) : t[k] = f
  <2>1. \A k : k \in At(t, FinalNames) => k = Len(s) + 1
    BY PushedAt
  <2>2. t[Len(s) + 1] = f
    BY Pushed
  <2>3. QED
    BY <2>1, <2>2
<1>2. \A k : k \in By(t, "summary.delta") <=> k \in By(s, "summary.delta")
  BY PushedBy
<1>3. \A k \in By(s, "summary.delta") : t[k] = s[k]
  BY Pushed DEF By
<1> HIDE DEF t
<1>4. \A p : SumOf(t, p) = SumOf(s, p)
  BY <1>2, <1>3 DEF SumOf
<1>5. Indices(t, "summary.delta") = Indices(s, "summary.delta")
  BY <1>2, <1>3 DEF Indices
<1>6. QED
  BY <1>1, <1>4, <1>5 DEF Finals, Restates, t

(* What a completed turn renders: a stream that is whole and ended, and a    *)
(* final object, if any, that restates it.                                   *)
LEMMA ChatCompletes ==
  ASSUME TypeOK, NEW k \in 1..Len(script), script[k].kind = "completed", NEW s,
         endpoint \notin {"responses", "collected"},
         StreamAt(s, k - 1, state, FALSE, FALSE), Unpraised(s)
  PROVE  /\ Rendered(script[k], k) \in Seq(Frame)
         /\ StreamAt(s \o Rendered(script[k], k), k - 1, state, TRUE, TRUE)
         /\ Finals(s \o Rendered(script[k], k), k - 1)
<1> DEFINE r == Rendered(script[k], k)
           stop == F("stop", 0, 0)
           usage == F("usage", 0, 0)
           end == F("DONE", 0, 0)
           s1 == Append(s, stop)
           s2 == Append(s1, usage)
           Told0(t, enders) == Rendering(t, 1..(k - 1), {}, {}, {}, {}, {}, enders)
<1>1. /\ stop \in Frame /\ stop.name = "stop" /\ stop.of = 0
      /\ usage \in Frame /\ usage.name = "usage" /\ usage.of = 0
      /\ end \in Frame /\ end.name = "DONE" /\ end.of = 0
  <2>1. stop \in Frame /\ stop.name = "stop" /\ stop.of = 0
    BY FrameOf DEF Names
  <2>2. usage \in Frame /\ usage.name = "usage" /\ usage.of = 0
    BY FrameOf DEF Names
  <2>3. end \in Frame /\ end.name = "DONE" /\ end.of = 0
    BY FrameOf DEF Names
  <2>4. QED
    BY <2>1, <2>2, <2>3
<1>2. r = (<<stop>> \o (IF endpoint = "chat+usage" THEN <<usage>> ELSE <<>>)) \o <<end>>
  BY DEF Rendered, ChatFrames
<1> HIDE DEF stop, usage, end, r
<1>3. Told0(s, {}) /\ 1..(k - 1) \in SUBSET Nat /\ s \in Seq(Frame)
  <2>1. Told0(s, {})
    BY DEF StreamAt, Items
  <2>2. QED
    BY <2>1 DEF Rendering
<1>4. s1 \in Seq(Frame) /\ s2 \in Seq(Frame)
  BY <1>1, <1>3, Pushed
<1>5. Told0(s1, {})
  <2>1. stop.name \notin EnderNames \union BracketNames
    BY <1>1 DEF EnderNames, BracketNames
  <2>2. QED
    BY <1>1, <1>3, <2>1, QuietFrame
<1>6. Told0(s2, {})
  <2>1. usage.name \notin EnderNames \union BracketNames
    BY <1>1 DEF EnderNames, BracketNames
  <2> HIDE DEF s1
  <2>2. QED
    BY <1>1, <1>3, <1>5, <2>1, QuietFrame
<1>7. /\ At(s1, FinalNames) = {} /\ At(s2, FinalNames) = {}
  <2>1. At(s1, FinalNames) = {}
    BY <1>1, <1>3, NoFinal, StillNoFinal DEF FinalNames
  <2> HIDE DEF s1
  <2>2. At(s2, FinalNames) = {}
    BY <1>1, <1>4, <2>1, StillNoFinal DEF FinalNames
  <2>3. QED
    BY <2>1, <2>2
<1>8. ASSUME NEW t \in Seq(Frame), Told0(t, {}), At(t, FinalNames) = {}
      PROVE  StreamAt(Append(t, end), k - 1, state, TRUE, TRUE) /\ Finals(Append(t, end), k - 1)
  <2>1. Told0(Append(t, end), {Len(Append(t, end))})
    BY <1>1, <1>3, <1>8, LastFrame DEF EnderNames
  <2>2. At(Append(t, end), FinalNames) = {}
    BY <1>1, <1>8, StillNoFinal DEF FinalNames
  <2>3. QED
    BY <2>1, <2>2 DEF StreamAt, Items, Finals
<1>9. /\ <<stop>> \in Seq(Frame) /\ <<usage>> \in Seq(Frame) /\ <<end>> \in Seq(Frame)
      /\ <<>> \in Seq(Frame)
  BY <1>1
<1>10. CASE endpoint = "chat+usage"
  <2> DEFINE rest == <<usage>> \o <<end>>
  <2>1. rest \in Seq(Frame)
    BY <1>9, ConcatProperties
  <2>2. r = <<stop>> \o rest
    BY <1>2, <1>9, <1>10, ConcatAssociative
  <2> HIDE DEF s1
  <2>3. s1 \o rest = s2 \o <<end>>
    <3> DEFINE last == <<end>>
    <3>1. s1 \in Seq(Frame) /\ usage \in Frame /\ last \in Seq(Frame)
      BY <1>1, <1>4, <1>9
    <3> HIDE DEF last
    <3>2. s1 \o (<<usage>> \o last) = s2 \o last
      BY <3>1, Joined
    <3>3. QED
      BY <3>2 DEF last
  <2> HIDE DEF rest
  <2>4. s \o r = s1 \o rest
    BY <1>1, <1>3, <2>1, <2>2, Joined DEF s1
  <2> HIDE DEF s2
  <2>5. s2 \o <<end>> = Append(s2, end)
    BY <1>1, <1>4, Joined
  <2>6. r \in Seq(Frame)
    BY <1>9, <2>1, <2>2, ConcatProperties
  <2>7. QED
    BY <1>4, <1>6, <1>7, <1>8, <2>3, <2>4, <2>5, <2>6 DEF r
<1>11. CASE endpoint # "chat+usage"
  <2>1. r = <<stop>> \o <<end>>
    BY <1>2, <1>9, <1>11, ConcatEmptySeq
  <2>2. s \o r = s1 \o <<end>>
    BY <1>1, <1>3, <1>9, <2>1, Joined
  <2> HIDE DEF s1
  <2>3. s1 \o <<end>> = Append(s1, end)
    BY <1>1, <1>4, Joined
  <2>4. r \in Seq(Frame)
    BY <1>9, <2>1, ConcatProperties
  <2>5. QED
    BY <1>4, <1>5, <1>7, <1>8, <2>2, <2>3, <2>4 DEF r
<1>12. QED
  BY <1>10, <1>11

(* The same for a collected answer.                                          *)
LEMMA CollectedCompletes ==
  ASSUME TypeOK, NEW k \in 1..Len(script), script[k].kind = "completed", NEW s,
         endpoint = "collected", MemoryAt(state, k - 1),
         StreamAt(s, k - 1, state, FALSE, FALSE), Unpraised(s)
  PROVE  /\ Rendered(script[k], k) \in Seq(Frame)
         /\ StreamAt(s \o Rendered(script[k], k), k - 1, state, TRUE, TRUE)
         /\ Finals(s \o Rendered(script[k], k), k - 1)
<1> DEFINE text == state.text \o state.status
           sums == Kept(state.parts)
           f == Final("body", text, sums)
<1>1. Rendered(script[k], k) = <<f>>
  BY DEF Rendered, Collected
<1>2. /\ k - 1 \in Nat /\ k - 1 <= Len(script) /\ \A i \in 1..(k - 1) : ~Ended(script[i])
  BY ScriptFacts
<1>3. /\ text \in Seq(Nat) /\ sums \in Sums
      /\ Elements(text) \union UNION {Elements(sums[p]) : p \in DOMAIN sums} = 1..(k - 1)
      /\ \A p \in DOMAIN sums : Rising(sums[p])
  BY <1>2, FinalObject
<1> HIDE DEF text, sums
<1>4. /\ f \in Frame /\ f.name = "body" /\ f.of = 0 /\ f.text = text /\ f.sums = sums
  BY <1>3, FinalOf DEF Names
<1> HIDE DEF f
<1>5. Rendering(s, {}, {}, {}, {}, {}, {}, {}) /\ s \in Seq(Frame)
  <2>1. Rendering(s, {}, {}, {}, {}, {}, {}, {})
    BY DEF StreamAt, Items
  <2>2. QED
    BY <2>1 DEF Rendering
<1>6. s \o <<f>> = Append(s, f) /\ <<f>> \in Seq(Frame)
  BY <1>4, <1>5, Joined
<1>7. StreamAt(Append(s, f), k - 1, state, TRUE, TRUE)
  <2>1. Rendering(Append(s, f), {}, {}, {}, {}, {}, {}, {Len(Append(s, f))})
    BY <1>4, <1>5, LastFrame DEF EnderNames
  <2>2. QED
    BY <2>1 DEF StreamAt, Items
<1>8. Finals(Append(s, f), k - 1)
  <2>1. Restates(f, s, k - 1)
    BY <1>3, <1>4 DEF Restates
  <2>2. QED
    BY <1>4, <1>5, <2>1, NoFinal, FinalsPushed
<1>9. QED
  BY <1>1, <1>6, <1>7, <1>8

(* Joining frames.                                                           *)
LEMMA FramesAssociate ==
  \A a, b, c \in Seq(Frame) : (a \o b) \o c = a \o (b \o c) /\ b \o c \in Seq(Frame)
BY ConcatAssociative, ConcatProperties

(* Two frames.                                                               *)
LEMMA JoinedTwo ==
  ASSUME NEW s \in Seq(Frame), NEW a \in Frame, NEW b \in Frame
  PROVE  s \o <<a, b>> = Append(Append(s, a), b) /\ <<a, b>> \in Seq(Frame)
<1>1. <<a, b>> = <<a>> \o <<b>> /\ <<b>> \in Seq(Frame) /\ <<a, b>> \in Seq(Frame)
  <2>1. <<a>> \in Seq(Frame) /\ <<b>> \in Seq(Frame) /\ <<a, b>> \in Seq(Frame)
    OBVIOUS
  <2>2. <<a, b>> = Append(<<a>>, b)
    OBVIOUS
  <2>3. Append(<<a>>, b) = <<a>> \o <<b>>
    BY <2>1, AppendIsConcat
  <2>4. QED
    BY <2>1, <2>2, <2>3
<1>2. s \o (<<a>> \o <<b>>) = Append(s, a) \o <<b>>
  BY <1>1, Joined
<1>3. Append(s, a) \in Seq(Frame)
  BY Pushed
<1> DEFINE t == Append(s, a)
<1> HIDE DEF t
<1>4. t \o <<b>> = Append(t, b)
  BY <1>3, Joined DEF t
<1>5. QED
  BY <1>1, <1>2, <1>4 DEF t

(* The deltas of a part are its events.                                      *)
LEMMA SumsStreamed ==
  ASSUME NEW s, NEW n, Summaries(s) = {<<script[k].part, k>> : k \in ThoughtTo(n)}, NEW p
  PROVE  SumOf(s, p) = {k \in ThoughtTo(n) : script[k].part = p}
<1>1. ASSUME NEW j \in By(s, "summary.delta")
      PROVE  s[j].of \in ThoughtTo(n) /\ script[s[j].of].part = s[j].index
  <2>1. <<s[j].index, s[j].of>> \in Summaries(s)
    BY DEF Summaries
  <2>2. PICK k \in ThoughtTo(n) : <<s[j].index, s[j].of>> = <<script[k].part, k>>
    BY <2>1
  <2>3. QED
    BY <2>2
<1>2. ASSUME NEW k \in ThoughtTo(n)
      PROVE  \E j \in By(s, "summary.delta") : s[j].index = script[k].part /\ s[j].of = k
  <2>1. <<script[k].part, k>> \in Summaries(s)
    OBVIOUS
  <2>2. PICK j \in By(s, "summary.delta") : <<script[k].part, k>> = <<s[j].index, s[j].of>>
    BY <2>1 DEF Summaries
  <2>3. QED
    BY <2>2
<1>3. QED
  BY <1>1, <1>2 DEF SumOf

(* The same for /v1/responses.                                               *)
LEMMA ResponsesCompletes ==
  ASSUME TypeOK, NEW k \in 1..Len(script), script[k].kind = "completed", NEW s,
         endpoint = "responses", MemoryAt(state, k - 1),
         StreamAt(s, k - 1, state, FALSE, FALSE), Unpraised(s)
  PROVE  /\ Rendered(script[k], k) \in Seq(Frame)
         /\ StreamAt(s \o Rendered(script[k], k), k - 1, state, TRUE, TRUE)
         /\ Finals(s \o Rendered(script[k], k), k - 1)
<1> DEFINE n == k - 1
           r == Rendered(script[k], k)
           text == state.text
           sums == Kept(state.parts)
           f == Final("response.completed", text, sums)
           message == F("item.done", 0, 0)
           opened == PartsTo(n)
           items == Items(state)
           deltas == {<<script[i].part, i>> : i \in ThoughtTo(n)}
           So(t, closed, finished, enders) ==
             Rendering(t, 1..n, opened, closed, items, finished, deltas, enders)
<1>1. r = Thoughts \o <<message, f>>
  BY DEF Rendered, ResponsesFrames, Finished
<1>2. /\ n \in Nat /\ n <= Len(script) /\ \A i \in 1..n : ~Ended(script[i])
      /\ 1..n \in SUBSET Nat /\ n < k
  BY ScriptFacts
<1>3. /\ text \in Seq(Nat) /\ sums \in Sums
      /\ Elements(text) \union UNION {Elements(sums[p]) : p \in DOMAIN sums} = 1..n
      /\ Rising(text)
      /\ \A p \in DOMAIN sums : Rising(sums[p])
      /\ \E x \in [DOMAIN sums -> {PartOf(i) : i \in ThoughtTo(n)}] :
           /\ Rising(x)
           /\ \A p \in DOMAIN sums : Elements(sums[p]) = {i \in ThoughtTo(n) : PartOf(i) = x[p]}
  BY <1>2, FinalObject
<1> HIDE DEF text, sums
<1>4. /\ f \in Frame /\ f.name = "response.completed" /\ f.of = 0
      /\ f.text = text /\ f.sums = sums
  BY <1>3, FinalOf DEF Names
<1>5. message \in Frame /\ message.name = "item.done"
  BY BracketFrames
<1>6. So(s, opened \ state.current, {}, {}) /\ s \in Seq(Frame)
  <2>1. So(s, opened \ state.current, {}, {})
    BY DEF StreamAt
  <2>2. QED
    BY <2>1 DEF Rendering
<1>7. items = {0} \union (IF state.added THEN {1} ELSE {})
  BY DEF Items
<1> HIDE DEF f, r
(* The message is finished last, and the final object ends the response.     *)
<1>8. ASSUME NEW t \in Seq(Frame), NEW finished, So(t, opened, finished, {}),
             At(t, FinalNames) = {}, finished \union {0} = items, 0 \notin finished
      PROVE  LET u == Append(Append(t, message), f)
             IN  /\ t \o <<message, f>> = u
                 /\ StreamAt(u, n, state, TRUE, TRUE) /\ Finals(u, n)
  <2> DEFINE t1 == Append(t, message)
             u == Append(t1, f)
  <2>1. t \o <<message, f>> = u
    BY <1>4, <1>5, <1>8, JoinedTwo
  <2>2. t1 \in Seq(Frame) /\ At(t1, FinalNames) = {}
    <3> HIDE DEF message
    <3>1. QED
      BY <1>5, <1>8, Pushed, StillNoFinal DEF FinalNames
  <2>3. So(t1, opened, items, {})
    <3>1. 0 \in items \ finished
      BY <1>8
    <3> HIDE DEF n, opened, items, deltas
    <3>2. So(t1, opened, finished \union {0}, {})
      BY <1>2, <1>8, <3>1, Closings
    <3>3. QED
      BY <1>8, <3>2
  <2> HIDE DEF t1
  <2>4. So(u, opened, items, {Len(u)})
    <3> HIDE DEF n, opened, items, deltas
    <3>1. QED
      BY <1>2, <1>4, <2>3, LastFrame DEF EnderNames
  <2>5. StreamAt(u, n, state, TRUE, TRUE)
    BY <2>4 DEF StreamAt
  <2>6. Restates(f, t1, n)
    <3>1. Summaries(t1) = deltas
      BY <2>3 DEF Rendering
    <3>2. \A p : SumOf(t1, p) = {i \in ThoughtTo(n) : script[i].part = p}
      BY <3>1, SumsStreamed
    <3>3. \A p : {i \in ThoughtTo(n) : PartOf(i) = p} = {i \in ThoughtTo(n) : script[i].part = p}
      BY DEF PartOf
    <3> HIDE DEF n
    <3>4. PICK x \in [DOMAIN sums -> {PartOf(i) : i \in ThoughtTo(n)}] :
            /\ Rising(x)
            /\ \A p \in DOMAIN sums : Elements(sums[p]) = {i \in ThoughtTo(n) : PartOf(i) = x[p]}
      BY <1>3
    <3>5. \A p \in DOMAIN sums : Elements(sums[p]) = SumOf(t1, x[p])
      BY <3>2, <3>3, <3>4
    <3>6. {PartOf(i) : i \in ThoughtTo(n)} \subseteq Indices(t1, "summary.delta")
      <4> SUFFICES ASSUME NEW i \in ThoughtTo(n)
                   PROVE  PartOf(i) \in Indices(t1, "summary.delta")
        OBVIOUS
      <4>1. i \in SumOf(t1, PartOf(i))
        BY <3>2, <3>3
      <4> QED
        BY <4>1 DEF SumOf, Indices
    <3>7. x \in [DOMAIN sums -> Indices(t1, "summary.delta")]
      BY <3>4, <3>6
    <3>8. QED
      BY <1>3, <1>4, <3>4, <3>5, <3>7 DEF Restates
  <2>7. Finals(u, n)
    BY <1>4, <2>2, <2>6, FinalsPushed
  <2>8. QED
    BY <2>1, <2>5, <2>7 DEF t1
<1>9. CASE ~state.added
  <2>1. Thoughts = <<>>
    BY <1>9 DEF Thoughts
  <2>2. <<message, f>> \in Seq(Frame)
    BY <1>4, <1>5
  <2>3. r = <<message, f>>
    BY <1>1, <2>1, <2>2, ConcatEmptySeq
  <2>4. opened \ state.current = opened /\ {} \union {0} = items
    BY <1>7, <1>9 DEF MemoryAt
  <2>5. QED
    BY <1>6, <1>8, <2>2, <2>3, <2>4, NoFinal DEF r
<1>10. CASE state.added
  <2>1. PICK j \in ThoughtTo(n) : state.current = {script[j].part}
    BY <1>10 DEF MemoryAt
  <2> DEFINE q == script[j].part
             close == F("part.done", q, 0)
             item == F("item.done", 1, 0)
             s1 == Append(s, close)
             s2 == Append(s1, item)
  <2>2. q \in Nat /\ q \in opened
    BY <1>2, <2>1, ScriptFacts DEF PartsTo, ThoughtTo
  <2>3. (CHOOSE x \in state.current : TRUE) = q
    BY <2>1
  <2>4. Thoughts = <<close, item>>
    BY <1>10, <2>3 DEF Thoughts
  <2> HIDE DEF q
  <2>5. /\ close \in Frame /\ close.name = "part.done"
        /\ item \in Frame /\ item.name = "item.done"
    <3>1. close \in Frame /\ close.name = "part.done"
      BY <2>2, BracketFrames
    <3>2. item \in Frame /\ item.name = "item.done"
      BY BracketFrames
    <3>3. QED
      BY <3>1, <3>2
  <2>6. So(s1, opened, {}, {})
    <3>1. q \in opened \ (opened \ state.current) /\ (opened \ state.current) \union {q} = opened
      BY <2>1, <2>2 DEF q
    <3> DEFINE closed == opened \ state.current
    <3>2. So(s, closed, {}, {}) /\ q \in opened \ closed /\ closed \union {q} = opened
      BY <1>6, <3>1
    <3> HIDE DEF n, opened, items, deltas, closed
    <3>3. So(s1, closed \union {q}, {}, {})
      BY <1>2, <2>2, <3>2, Closings
    <3>4. QED
      BY <3>2, <3>3
  <2>7. s1 \in Seq(Frame) /\ At(s1, FinalNames) = {}
    <3> HIDE DEF close
    <3>1. QED
      BY <1>6, <2>5, Pushed, NoFinal, StillNoFinal DEF FinalNames
  <2> HIDE DEF s1
  <2>8. So(s2, opened, {1}, {})
    <3>1. 1 \in items \ {}
      BY <1>7, <1>10
    <3> HIDE DEF n, opened, items, deltas
    <3>2. So(s2, opened, {} \union {1}, {})
      BY <1>2, <2>6, <3>1, Closings
    <3>3. QED
      BY <3>2
  <2>9. s2 \in Seq(Frame) /\ At(s2, FinalNames) = {}
    <3> HIDE DEF item
    <3>1. QED
      BY <2>5, <2>7, Pushed, StillNoFinal DEF FinalNames
  <2> HIDE DEF close, item, message
  <2>10. s \o <<close, item>> = s2 /\ <<close, item>> \in Seq(Frame)
    BY <1>6, <2>5, JoinedTwo DEF s1
  <2>11. <<message, f>> \in Seq(Frame)
    BY <1>4, <1>5
  <2>12. r = <<close, item>> \o <<message, f>>
    BY <1>1, <2>4
  <2>13. s \o r = s2 \o <<message, f>> /\ r \in Seq(Frame)
    <3> DEFINE x == <<close, item>>
               y == <<message, f>>
    <3>1. x \in Seq(Frame) /\ y \in Seq(Frame) /\ s \o x = s2 /\ r = x \o y
      BY <2>10, <2>11, <2>12
    <3> HIDE DEF x, y, s2
    <3>2. s \o r = s2 \o y /\ r \in Seq(Frame)
      <4>1. s \in Seq(Frame) /\ x \in Seq(Frame) /\ y \in Seq(Frame)
        BY <1>6, <3>1
      <4>2. (s \o x) \o y = s \o (x \o y) /\ x \o y \in Seq(Frame)
        BY <4>1, FramesAssociate
      <4>3. QED
        BY <3>1, <4>2
    <3>3. QED
      BY <3>2 DEF y
  <2>14. {1} \union {0} = items /\ 0 \notin {1}
    BY <1>7, <1>10
  <2> HIDE DEF s2
  <2>15. QED
    BY <1>8, <2>8, <2>9, <2>13, <2>14 DEF r
<1>11. QED
  BY <1>9, <1>10

----------------------------------------------------------------------------
(* An event taken from the channel.                                          *)
LEMMA EventRendered ==
  ASSUME TypeOK, NEW k \in 1..Len(script), NEW s, MemoryAt(state, k - 1),
         StreamAt(s, k - 1, state, FALSE, FALSE), Unpraised(s)
  PROVE  LET r == Rendered(script[k], k)
             m == Remembered(script[k], k)
             n == IF Ended(script[k]) THEN k - 1 ELSE k
             complete == script[k].kind = "completed"
         IN  /\ r \in Seq(Frame) /\ m \in Memory /\ MemoryAt(m, n)
             /\ StreamAt(s \o r, n, m, complete, Ended(script[k]))
             /\ ~complete => Unpraised(s \o r)
             /\ Finals(s \o r, n)
<1> DEFINE r == Rendered(script[k], k)
           m == Remembered(script[k], k)
<1>1. CASE ~Ended(script[k])
  <2>1. m \in Memory /\ MemoryAt(m, k)
    BY <1>1, Remembering
  <2>2. /\ r \in Seq(Frame) /\ StreamAt(s \o r, k, m, FALSE, FALSE) /\ Unpraised(s \o r)
    <3>1. CASE endpoint = "responses"
      BY <1>1, <3>1, ResponsesGoesOn
    <3>2. CASE endpoint = "collected"
      BY <1>1, <3>2, CollectedGoesOn
    <3>3. CASE endpoint \notin {"responses", "collected"}
      BY <1>1, <3>3, ChatGoesOn
    <3>4. QED
      BY <3>1, <3>2, <3>3
  <2>3. Finals(s \o r, k)
    BY <2>2, NoFinal DEF Finals
  <2>4. script[k].kind # "completed"
    BY <1>1 DEF Ended
  <2> HIDE DEF r, m
  <2>5. StreamAt(s \o r, k, m, script[k].kind = "completed", Ended(script[k]))
    BY <1>1, <2>2, <2>4 DEF StreamAt
  <2>6. QED
    BY <1>1, <2>1, <2>2, <2>3, <2>4, <2>5 DEF r, m
<1>2. CASE script[k].kind = "completed"
  <2>1. m = state /\ Ended(script[k])
    BY <1>2 DEF Remembered, Ended
  <2>2. state \in Memory
    BY DEF TypeOK
  <2>3. /\ r \in Seq(Frame) /\ StreamAt(s \o r, k - 1, state, TRUE, TRUE)
        /\ Finals(s \o r, k - 1)
    <3>1. CASE endpoint = "responses"
      BY <1>2, <3>1, ResponsesCompletes
    <3>2. CASE endpoint = "collected"
      BY <1>2, <3>2, CollectedCompletes
    <3>3. CASE endpoint \notin {"responses", "collected"}
      BY <1>2, <3>3, ChatCompletes
    <3>4. QED
      BY <3>1, <3>2, <3>3
  <2> HIDE DEF r, m
  <2>4. StreamAt(s \o r, k - 1, m, script[k].kind = "completed", Ended(script[k]))
    BY <1>2, <2>1, <2>3 DEF StreamAt
  <2>5. QED
    BY <1>2, <2>1, <2>2, <2>3, <2>4 DEF r, m
<1>3. CASE script[k].kind \in {"cancelled", "failed"}
  <2> DEFINE name == IF endpoint = "responses" THEN "response.failed" ELSE "error"
             f == F(name, 0, 0)
  <2>1. m = state /\ Ended(script[k]) /\ script[k].kind # "completed"
    BY <1>3 DEF Remembered, Ended
  <2>2. state \in Memory /\ k - 1 \in Nat
    BY DEF TypeOK
  <2>3. r = <<f>>
    <3>1. CASE endpoint = "responses"
      BY <1>3, <3>1 DEF Rendered, ResponsesFrames
    <3>2. CASE endpoint = "collected"
      BY <1>3, <3>2 DEF Rendered, Collected
    <3>3. CASE endpoint \notin {"responses", "collected"}
      BY <1>3, <3>3 DEF Rendered, ChatFrames
    <3>4. QED
      BY <3>1, <3>2, <3>3
  <2>4. name \in Names /\ name \in {"error", "response.failed"}
    BY DEF Names
  <2> HIDE DEF name
  <2>5. f \in Frame /\ f.name \in {"error", "response.failed"} /\ f.of = 0
    BY <2>4, FrameOf
  <2> HIDE DEF f, r, m
  <2>6. s \in Seq(Frame)
    BY DEF StreamAt, Rendering
  <2>7. s \o r = Append(s, f) /\ r \in Seq(Frame)
    BY <2>3, <2>5, <2>6, Joined
  <2>8. StreamAt(Append(s, f), k - 1, state, FALSE, TRUE) /\ Unpraised(Append(s, f))
    BY <2>2, <2>5, BreaksOff
  <2>9. StreamAt(s \o r, k - 1, m, script[k].kind = "completed", Ended(script[k]))
    BY <2>1, <2>7, <2>8 DEF StreamAt
  <2>10. Finals(s \o r, k - 1)
    BY <2>7, <2>8, NoFinal DEF Finals
  <2>11. QED
    BY <2>1, <2>2, <2>7, <2>8, <2>9, <2>10 DEF r, m
<1>4. QED
  BY <1>1, <1>2, <1>3 DEF Ended

(* The invariant is about the turn, which stays, and what is told of it.     *)
LEMMA Carry ==
  ASSUME script' = script, endpoint' = endpoint, TypeOK', Phase',
         NEW s, NEW n, NEW m, NEW complete \in BOOLEAN, NEW ended \in BOOLEAN,
         Stream' = s, Told' = n, state' = m, Complete' = complete, done' = ended,
         MemoryAt(m, n), StreamAt(s, n, m, complete, ended),
         ~complete => Unpraised(s), Finals(s, n)
  PROVE  HttpInv'
<1>1. MemoryAt(state, Told)'
  BY DEF MemoryAt, ThoughtTo, JoinedTo, PartOf
<1>2. StreamAt(Stream, Told, state, Complete, done)'
  BY DEF StreamAt, Items, PartsTo, ThoughtTo
<1>3. (~Complete => Unpraised(Stream))'
  BY DEF Unpraised
<1>4. Finals(Stream, Told)'
  BY DEF Finals, Restates
<1>5. QED
  BY <1>1, <1>2, <1>3, <1>4 DEF HttpInv

----------------------------------------------------------------------------
(* The first frames, and each step.                                          *)
LEMMA FreshMemory == Fresh \in Memory /\ MemoryAt(Fresh, 0)
<1>1. <<>> \in Seq(Nat) /\ <<>> \in Seq(Seq(Nat)) /\ DOMAIN <<>> = {}
  OBVIOUS
<1>2. Fresh \in Memory
  BY <1>1 DEF Fresh, Memory, Joint, Joints
<1>3. Elements(<<>>) = {} /\ Rising(<<>>)
  BY <1>1 DEF Elements, Rising
<1>4. ThoughtTo(0) = {} /\ JoinedTo(0) = {}
  BY DEF ThoughtTo, JoinedTo
<1>5. {k \in 1..0 : script[k].kind = "status" /\ endpoint = "collected"} = {}
  OBVIOUS
<1>6. /\ Fresh.text = <<>> /\ Fresh.parts = <<>> /\ Fresh.status = <<>>
      /\ Fresh.added = FALSE /\ Fresh.current = {}
  BY DEF Fresh
<1> HIDE DEF Fresh
<1>7. MemoryAt(Fresh, 0)
  BY <1>1, <1>3, <1>4, <1>5, <1>6 DEF MemoryAt
<1>8. QED
  BY <1>2, <1>7

(* The frames before the first event.                                        *)
LEMMA Prefaced ==
  ASSUME endpoint \in {"chat", "chat+usage", "responses", "collected"}
  PROVE  /\ Preface \in Seq(Frame)
         /\ StreamAt(Preface, 0, Fresh, FALSE, FALSE) /\ Unpraised(Preface)
<1>1. /\ ThoughtTo(0) = {} /\ PartsTo(0) = {} /\ 1..0 = {}
      /\ {<<script[k].part, k>> : k \in ThoughtTo(0)} = {}
  BY DEF ThoughtTo, PartsTo
<1>2. Fresh.added = FALSE /\ Fresh.current = {}
  BY DEF Fresh
<1>3. <<>> \in Seq(Frame) /\ At(<<>>, PraiseNames) = {}
  BY DEF At
<1>4. CASE endpoint = "collected"
  <2>1. Preface = <<>>
    BY <1>4 DEF Preface
  <2> HIDE DEF Preface, Fresh
  <2>2. QED
    BY <1>1, <1>2, <1>3, <1>4, <2>1, NothingRendered DEF StreamAt, Items, Unpraised
<1>5. CASE endpoint \in {"chat", "chat+usage"}
  <2> DEFINE f == F("role", 0, 0)
  <2>1. Preface = <<f>>
    BY <1>5 DEF Preface
  <2>2. f \in Frame /\ f.name = "role" /\ f.of = 0
    BY FrameOf DEF Names
  <2> HIDE DEF f, Preface, Fresh
  <2>3. <<f>> = Append(<<>>, f) /\ <<f>> \in Seq(Frame)
    BY <2>2
  <2>4. Rendering(Append(<<>>, f), {}, {}, {}, {}, {}, {}, {})
    BY <2>2, NothingRendered, QuietFrame DEF EnderNames, BracketNames
  <2>5. Unpraised(Append(<<>>, f))
    BY <1>3, <2>2, Modest DEF PraiseNames, Unpraised
  <2>6. QED
    BY <1>1, <1>2, <1>5, <2>1, <2>3, <2>4, <2>5 DEF StreamAt, Items
<1>6. CASE endpoint = "responses"
  <2> DEFINE f == F("created", 0, 0)
             g == F("item.added", 0, 0)
             s1 == Append(<<>>, f)
  <2>1. Preface = <<f, g>>
    BY <1>6 DEF Preface
  <2>2. f \in Frame /\ f.name = "created" /\ f.of = 0
    BY FrameOf DEF Names
  <2>3. g \in Frame /\ g.name = "item.added"
    BY BracketFrames
  <2> HIDE DEF f, Preface, Fresh
  <2>4. s1 \in Seq(Frame)
    BY <1>3, <2>2, Pushed
  <2>5. Rendering(s1, {}, {}, {}, {}, {}, {}, {})
    BY <2>2, NothingRendered, QuietFrame DEF EnderNames, BracketNames
  <2>6. Unpraised(s1)
    BY <1>3, <2>2, Modest DEF PraiseNames, Unpraised
  <2>7. <<>> \o <<f, g>> = Append(s1, g) /\ <<f, g>> \in Seq(Frame)
    BY <1>3, <2>2, <2>3, JoinedTwo
  <2>8. <<>> \o <<f, g>> = <<f, g>>
    BY <2>7, ConcatEmptySeq
  <2> HIDE DEF s1
  <2>9. Rendering(Append(s1, g), {}, {}, {}, {} \union {0}, {}, {}, {})
    BY <2>5, Opening
  <2>10. Unpraised(Append(s1, g))
    <3> HIDE DEF g
    <3>1. QED
      BY <2>3, <2>4, <2>6, Modest DEF PraiseNames
  <2>11. Items(Fresh) = {} \union {0}
    BY <1>2, <1>6 DEF Items
  <2> HIDE DEF g
  <2>12. StreamAt(Append(s1, g), 0, Fresh, FALSE, FALSE)
    BY <1>1, <1>2, <1>6, <2>9, <2>11 DEF StreamAt
  <2>13. QED
    BY <2>1, <2>7, <2>8, <2>10, <2>12
<1>7. QED
  BY <1>4, <1>5, <1>6

(* The first state.                                                          *)
LEMMA InitHttpInv == Init => HttpInv
<1> SUFFICES ASSUME Init PROVE HttpInv
  OBVIOUS
<1>1. /\ script \in Scripts /\ endpoint \in Endpoints /\ sent = 0 /\ taken = 0
      /\ state = Fresh /\ queue = Preface /\ out = <<>> /\ done = FALSE
      /\ driver = "running" /\ client = "reading"
  BY DEF Init
<1>2. script \in Seq(Event) /\ endpoint \in {"chat", "chat+usage", "responses", "collected"}
  BY <1>1, HttpStreamAssumption
<1>3. Len(script) \in Nat
  BY <1>2, LenProperties
<1>4. /\ Preface \in Seq(Frame)
      /\ StreamAt(Preface, 0, Fresh, FALSE, FALSE) /\ Unpraised(Preface)
  BY <1>2, Prefaced
<1>5. Stream = Preface
  BY <1>1, <1>4, ConcatEmptySeq DEF Stream
<1>6. <<>> \in Seq(Frame)
  OBVIOUS
<1>7. TypeOK
  <2>1. sent \in 0..Len(script) /\ taken \in 0..sent
    BY <1>1, <1>3
  <2>2. state \in Memory
    BY <1>1, FreshMemory
  <2>3. QED
    BY <1>1, <1>4, <1>6, <2>1, <2>2 DEF TypeOK
<1>8. Phase /\ Told = 0 /\ Complete = FALSE
  BY <1>1 DEF Phase, Told, Complete
<1>9. MemoryAt(state, Told)
  BY <1>1, <1>8, FreshMemory
<1>10. StreamAt(Stream, Told, state, Complete, done)
  BY <1>1, <1>4, <1>5, <1>8
<1>11. Finals(Stream, Told)
  BY <1>4, <1>5, NoFinal DEF Finals
<1>12. QED
  BY <1>4, <1>5, <1>7, <1>8, <1>9, <1>10, <1>11 DEF HttpInv

(* Nothing of the invariant is about the rest of the state.                  *)
LEMMA Frozen ==
  ASSUME HttpInv, TypeOK',
         UNCHANGED <<script, endpoint, taken, state, done>>, Stream' = Stream
  PROVE  HttpInv'
<1>1. Told' = Told /\ Complete' = Complete
  BY DEF Told, Complete, Ended
<1>2. Phase'
  BY DEF HttpInv, Phase, Ended
<1>3. Complete \in BOOLEAN /\ done \in BOOLEAN
  BY DEF Complete, HttpInv, TypeOK
<1>4. /\ MemoryAt(state, Told) /\ StreamAt(Stream, Told, state, Complete, done)
      /\ ~Complete => Unpraised(Stream)
      /\ Finals(Stream, Told)
  BY DEF HttpInv
<1>5. QED
  BY <1>1, <1>2, <1>3, <1>4, Carry

(* Every step keeps the invariant.                                           *)
LEMMA HttpStep == HttpInv /\ [Next]_vars => HttpInv'
<1> SUFFICES ASSUME HttpInv, [Next]_vars
             PROVE  HttpInv'
  OBVIOUS
<1>1. /\ script \in Scripts /\ endpoint \in Endpoints
      /\ sent \in 0..Len(script) /\ taken \in 0..sent
      /\ driver \in {"running", "stopped", "cancelled"}
      /\ state \in Memory
      /\ queue \in Seq(Frame) /\ out \in Seq(Frame)
      /\ done \in BOOLEAN /\ client \in {"reading", "ended", "gone"}
      /\ TypeOK
  BY DEF HttpInv, TypeOK
<1>2. Len(script) \in Nat
  <2>1. script \in Seq(Event)
    BY <1>1, HttpStreamAssumption
  <2>2. QED
    BY <2>1, LenProperties
(* A poll meets a turn that goes on.                                         *)
<1>3. ASSUME Polling
      PROVE  /\ Stream = out /\ Told = taken /\ done = FALSE /\ Complete = FALSE
             /\ MemoryAt(state, taken) /\ StreamAt(out, taken, state, FALSE, FALSE)
             /\ Unpraised(out)
  <2>1. Stream = out
    BY <1>1, <1>3, ConcatEmptySeq DEF Polling, Stream
  <2>2. done = FALSE /\ Complete = FALSE
    BY <1>1, <1>3 DEF Polling, Complete
  <2>3. Told = taken
    BY <1>1, <2>2 DEF HttpInv, Phase, Told
  <2>4. /\ MemoryAt(state, Told) /\ StreamAt(Stream, Told, state, Complete, done)
        /\ Unpraised(Stream)
    BY <2>2 DEF HttpInv
  <2>5. QED
    BY <2>1, <2>2, <2>3, <2>4
<1>4. ASSUME Send PROVE HttpInv'
  <2>1. /\ sent' = sent + 1 /\ sent < Len(script)
        /\ UNCHANGED <<script, endpoint, driver, taken, state, queue, out, done, client>>
    BY <1>4 DEF Send, turn
  <2>2. sent' \in 0..Len(script)' /\ taken' \in 0..sent'
    BY <1>1, <1>2, <2>1
  <2>3. TypeOK'
    BY <1>1, <2>1, <2>2 DEF TypeOK
  <2>4. QED
    BY <2>1, <2>3, Frozen DEF Stream
<1>5. ASSUME Stop \/ Cancel PROVE HttpInv'
  <2>1. /\ driver' \in {"stopped", "cancelled"}
        /\ UNCHANGED <<script, endpoint, sent, taken, state, queue, out, done, client>>
    BY <1>5 DEF Stop, Cancel, turn
  <2>2. TypeOK'
    BY <1>1, <2>1 DEF TypeOK
  <2>3. QED
    BY <2>1, <2>2, Frozen DEF Stream
<1>6. ASSUME Emit PROVE HttpInv'
  <2>1. /\ queue # <<>> /\ out' = Append(out, Head(queue)) /\ queue' = Tail(queue)
        /\ UNCHANGED <<script, endpoint, sent, driver, taken, state, done, client>>
    BY <1>6 DEF Emit, turn
  <2>2. /\ Head(queue) \in Frame /\ Tail(queue) \in Seq(Frame)
        /\ queue = <<Head(queue)>> \o Tail(queue)
    BY <1>1, <2>1, HeadTailProperties
  <2>3. Append(out, Head(queue)) \o Tail(queue) = out \o queue
    <3> DEFINE h == Head(queue)
               t == Tail(queue)
    <3>1. h \in Frame /\ t \in Seq(Frame) /\ queue = <<h>> \o t
      BY <2>2
    <3> HIDE DEF h, t
    <3>2. out \o (<<h>> \o t) = Append(out, h) \o t
      BY <1>1, <3>1, Joined
    <3>3. QED
      BY <3>1, <3>2 DEF h, t
  <2>4. Stream' = Stream
    BY <2>1, <2>3 DEF Stream
  <2>5. out' \in Seq(Frame) /\ queue' \in Seq(Frame)
    BY <1>1, <2>1, <2>2, AppendProperties
  <2>6. TypeOK'
    BY <1>1, <2>1, <2>5 DEF TypeOK
  <2>7. QED
    BY <2>1, <2>4, <2>6, Frozen
<1>7. ASSUME Poll PROVE HttpInv'
  <2> DEFINE k == taken + 1
             e == script[k]
             r == Rendered(e, k)
             m == Remembered(e, k)
             n == IF Ended(e) THEN k - 1 ELSE k
             complete == e.kind = "completed"
             s == out \o r
  <2>1. /\ Polling /\ taken < sent
        /\ taken' = k /\ queue' = r /\ state' = m /\ done' = Ended(e)
        /\ UNCHANGED <<script, endpoint, sent, driver, out, client>>
    BY <1>7 DEF Poll, turn
  <2>2. k \in 1..Len(script) /\ k - 1 = taken /\ k \in 1..sent
    BY <1>1, <1>2, <2>1
  <2>3. /\ MemoryAt(state, k - 1) /\ StreamAt(out, k - 1, state, FALSE, FALSE)
        /\ Unpraised(out)
    BY <1>3, <2>1, <2>2
  <2>4. /\ r \in Seq(Frame) /\ m \in Memory /\ MemoryAt(m, n)
        /\ StreamAt(s, n, m, complete, Ended(e))
        /\ ~complete => Unpraised(s)
        /\ Finals(s, n)
    <3> HIDE DEF k
    <3>1. QED
      BY <1>1, <2>2, <2>3, EventRendered
  <2>5. Ended(e) \in BOOLEAN /\ complete \in BOOLEAN
    BY DEF Ended
  <2>6. TypeOK'
    <3> HIDE DEF r, m, e
    <3>1. taken' \in 0..sent' /\ sent' \in 0..Len(script)'
      BY <1>1, <2>1, <2>2
    <3>2. QED
      BY <1>1, <2>1, <2>4, <2>5, <3>1 DEF TypeOK
  <2>7. Stream' = s
    BY <2>1 DEF Stream
  <2>8. Told' = n
    BY <1>1, <2>1, <2>2 DEF Told, Ended
  <2>9. Complete' = complete
    <3>1. taken' > 0
      BY <1>1, <1>2, <2>1, <2>2
    <3>2. script'[taken'] = e /\ done' = Ended(e)
      BY <2>1
    <3>3. CASE e.kind = "completed"
      <4>1. Ended(e) /\ complete = TRUE
        BY <3>3 DEF Ended
      <4> HIDE DEF e, complete
      <4>2. Complete'
        BY <3>1, <3>2, <3>3, <4>1 DEF Complete
      <4>3. Complete' = TRUE
        BY <4>2 DEF Complete
      <4>4. QED
        BY <4>1, <4>3
    <3>4. CASE e.kind # "completed"
      <4>1. complete = FALSE
        BY <3>4
      <4> HIDE DEF e, complete
      <4>2. Complete' = FALSE
        BY <3>2, <3>4 DEF Complete
      <4>3. QED
        BY <4>1, <4>2
    <3>5. QED
      BY <3>3, <3>4
  <2>10. Phase'
    BY <2>1 DEF Phase, Ended
  <2>11. script' = script /\ endpoint' = endpoint /\ state' = m /\ done' = Ended(e)
    BY <2>1
  <2> DEFINE ended == Ended(e)
  <2>12. done' = ended /\ ended \in BOOLEAN /\ StreamAt(s, n, m, complete, ended)
    BY <2>4, <2>5, <2>11
  <2> HIDE DEF r, m, e, n, s, complete, ended
  <2>13. QED
    BY <2>4, <2>5, <2>6, <2>7, <2>8, <2>9, <2>10, <2>11, <2>12, Carry
<1>8. ASSUME Closed \/ KeepAlive PROVE HttpInv'
  <2> DEFINE name == IF Closed THEN "error" ELSE "ping"
             f == F(name, 0, 0)
             s == Append(out, f)
  <2>1. Polling
    BY <1>8 DEF Closed, KeepAlive
  <2>2. name \in Names /\ name \in {"error", "ping"}
    BY DEF Names
  <2>3. /\ queue' = <<f>> /\ done' = (name = "error")
        /\ UNCHANGED <<script, endpoint, sent, driver, taken, state, out, client>>
    <3>1. CASE Closed
      BY <3>1 DEF Closed, turn
    <3>2. CASE ~Closed
      BY <1>3, <1>8, <2>1, <3>2 DEF KeepAlive, turn
    <3>3. QED
      BY <3>1, <3>2
  <2> HIDE DEF name
  <2>4. f \in Frame /\ f.name = name /\ f.of = 0
    BY <2>2, FrameOf
  <2> HIDE DEF f
  <2>5. <<f>> \in Seq(Frame) /\ out \o <<f>> = s
    BY <1>1, <2>4, Joined
  <2>6. TypeOK'
    BY <1>1, <2>3, <2>5 DEF TypeOK
  <2>7. Stream' = s
    BY <2>3, <2>5 DEF Stream
  <2>8. taken = 0 \/ ~Ended(script[taken])
    BY <1>1, <2>1 DEF HttpInv, Phase, Polling
  <2>9. Told' = taken /\ Complete' = FALSE /\ Phase'
    BY <1>1, <2>3, <2>8 DEF Told, Complete, Phase, Ended
  <2> DEFINE ended == (name = "error")
  <2>10. StreamAt(s, taken, state, FALSE, ended) /\ Unpraised(s)
    <3>0. taken \in Nat
      BY <1>1, <1>2
    <3>1. /\ StreamAt(out, taken, state, FALSE, FALSE) /\ Unpraised(out) /\ taken \in Nat
      BY <1>3, <2>1, <3>0
    <3> HIDE DEF s, ended
    <3>2. CASE name = "error"
      <4>1. StreamAt(s, taken, state, FALSE, TRUE) /\ Unpraised(s)
        BY <2>4, <3>1, <3>2, BreaksOff DEF s
      <4>2. QED
        BY <3>2, <4>1 DEF ended
    <3>3. CASE name = "ping"
      <4>1. StreamAt(s, taken, state, FALSE, FALSE) /\ Unpraised(s)
        BY <2>4, <3>1, <3>3, Beats DEF s
      <4>2. ended = FALSE
        BY <3>3 DEF ended
      <4>3. QED
        BY <4>1, <4>2
    <3>4. QED
      BY <2>2, <3>2, <3>3
  <2>11. Finals(s, taken)
    BY <2>10, NoFinal DEF Finals
  <2>12. MemoryAt(state, taken) /\ ended \in BOOLEAN /\ done' = ended
    BY <1>3, <2>1, <2>3
  <2> HIDE DEF s, ended
  <2>13. QED
    BY <2>3, <2>6, <2>7, <2>9, <2>10, <2>11, <2>12, Carry
<1>9. ASSUME End \/ Leave PROVE HttpInv'
  <2>1. /\ client' \in {"ended", "gone"}
        /\ UNCHANGED <<script, endpoint, sent, driver, taken, state, queue, out, done>>
    BY <1>9 DEF End, Leave, turn
  <2>2. TypeOK'
    BY <1>1, <2>1 DEF TypeOK
  <2>3. QED
    BY <2>1, <2>2, Frozen DEF Stream
<1>10. ASSUME UNCHANGED vars PROVE HttpInv'
  <2>1. UNCHANGED <<script, endpoint, sent, driver, taken, state, queue, out, done, client>>
    BY <1>10 DEF vars
  <2>2. TypeOK'
    BY <1>1, <2>1 DEF TypeOK
  <2>3. QED
    BY <2>1, <2>2, Frozen DEF Stream
<1>11. QED
  BY <1>4, <1>5, <1>6, <1>7, <1>8, <1>9, <1>10 DEF Next, Pump

----------------------------------------------------------------------------
(* What the invariant says of the stream, in the words of TurnRendered.      *)
LEMMA Views ==
  ASSUME TypeOK
  PROVE  /\ Stream \in Seq(Frame)
         /\ \A names : Named(names) = At(Stream, names)
         /\ \A name : Named({name}) = By(Stream, name)
         /\ \A name, index :
              Frames(name, index) = {k \in By(Stream, name) : Stream[k].index = index}
<1>1. Stream \in Seq(Frame)
  BY ConcatProperties DEF Stream, TypeOK
<1> HIDE DEF Stream
<1>2. \A names : Named(names) = At(Stream, names)
  BY DEF Named, At
<1>3. \A name : Named({name}) = By(Stream, name)
  BY DEF Named, By
<1>4. QED
  BY <1>1, <1>2, <1>3 DEF Frames

(* Streamed deltas are the turn's events, each once and in order.            *)
LEMMA HttpInvEachOnce == HttpInv => EachOnce
<1> SUFFICES ASSUME HttpInv, endpoint # "collected"
             PROVE  LET carriers == {k \in DOMAIN Stream : Stream[k].of # 0}
                    IN  /\ {Stream[k].of : k \in carriers} = 1..Told
                        /\ \A j, k \in carriers : j < k => Stream[j].of < Stream[k].of
  BY DEF EachOnce
<1>1. Carried(Stream) = 1..Told /\ InTurn(Stream)
  BY DEF HttpInv, StreamAt, Rendering
<1> HIDE DEF Stream, Told
<1>2. QED
  BY <1>1 DEF Carried, InTurn, Carriers

(* One end, its last frame, and no praise of a turn that is not complete.    *)
LEMMA HttpInvEndsOnce == HttpInv => EndsOnce
<1> SUFFICES ASSUME HttpInv PROVE EndsOnce
  OBVIOUS
<1>1. TypeOK
  BY DEF HttpInv
<1>2. Named(EnderNames) = IF done THEN {Len(Stream)} ELSE {}
  <2>1. At(Stream, EnderNames) = IF done THEN {Len(Stream)} ELSE {}
    BY DEF HttpInv, StreamAt, Rendering
  <2>2. QED
    BY <1>1, <2>1, Views
<1>3. Named(PraiseNames) # {} => taken > 0 /\ script[taken].kind = "completed"
  <2>1. Named(PraiseNames) = At(Stream, PraiseNames)
    BY <1>1, Views
  <2>2. ~Complete => Unpraised(Stream)
    BY DEF HttpInv
  <2>3. QED
    BY <2>1, <2>2 DEF Unpraised, Complete
<1>4. QED
  BY <1>2, <1>3 DEF EndsOnce, Enders, EnderNames, PraiseNames

(* The final object restates the deltas.                                     *)
LEMMA HttpInvRestated == HttpInv => Restated
<1> SUFFICES ASSUME HttpInv PROVE Restated
  OBVIOUS
<1>1. TypeOK /\ Finals(Stream, Told)
  BY DEF HttpInv
<1>2. Named(FinalNames) = At(Stream, FinalNames)
  BY <1>1, Views
<1>3. /\ \A p : {Stream[j].of : j \in Frames("summary.delta", p)} = SumOf(Stream, p)
      /\ Streamed = Indices(Stream, "summary.delta")
  BY <1>1, Views DEF SumOf, Streamed, Indices
<1>4. \A k \in Named(FinalNames) : Restates(Stream[k], Stream, Told)
  BY <1>1, <1>2 DEF Finals
<1> HIDE DEF Stream, Told
<1>5. QED
  BY <1>3, <1>4 DEF Restated, Restates, FinalNames

(* Brackets, in the words of Bracketed.                                      *)
LEMMA BracketCloses ==
  ASSUME TypeOK, NEW delta, NEW opener, NEW closer, NEW opened, NEW closed,
         Bracket(Stream, delta, opener, closer, opened, closed),
         Named({"response.completed"}) # {} => closed = opened
  PROVE  /\ \A k \in Named({delta}) : Within(k, opener, closer)
         /\ Closes(opener, closer)
<1> DEFINE s == Stream
<1>1. /\ \A name : Named({name}) = By(s, name)
      /\ \A name, index : Frames(name, index) = {k \in By(s, name) : s[k].index = index}
  BY Views
<1>2. /\ Indices(s, opener) = opened /\ Indices(s, closer) = closed
      /\ Once(s, opener) /\ Once(s, closer)
      /\ Precedes(s, opener, closer) /\ Inside(s, delta, opener, closer)
  BY DEF Bracket
<1>3. DOMAIN s \subseteq Nat /\ \A name : By(s, name) \subseteq Nat
  <2>1. s \in Seq(Frame)
    BY Views
  <2>2. DOMAIN s = 1..Len(s) /\ Len(s) \in Nat
    BY <2>1, LenProperties
  <2>3. QED
    BY <2>2 DEF By
<1> HIDE DEF s
<1>4. \A k \in Named({delta}) : Within(k, opener, closer)
  BY <1>1, <1>2 DEF Inside, Within, s
<1>5. ASSUME NEW k \in By(s, opener)
      PROVE  /\ Frames(opener, s[k].index) = {k}
             /\ Cardinality(Frames(closer, s[k].index)) <= 1
             /\ Named({"response.completed"}) # {} =>
                  \E c \in Frames(closer, s[k].index) : c > k
  <2>1. Frames(opener, s[k].index) = {k}
    BY <1>1, <1>2 DEF Once
  <2>2. Cardinality(Frames(closer, s[k].index)) <= 1
    <3>1. CASE Frames(closer, s[k].index) = {}
      BY <3>1, FS_EmptySet
    <3>2. CASE Frames(closer, s[k].index) # {}
      <4>1. PICK c \in Frames(closer, s[k].index) : TRUE
        BY <3>2
      <4>2. Frames(closer, s[k].index) = {c}
        BY <1>1, <1>2, <4>1 DEF Once
      <4>3. QED
        BY <4>2, FS_Singleton
    <3>3. QED
      BY <3>1, <3>2
  <2>3. ASSUME Named({"response.completed"}) # {}
        PROVE  \E c \in Frames(closer, s[k].index) : c > k
    <3>1. s[k].index \in Indices(s, closer)
      BY <1>2, <2>3 DEF Indices
    <3>2. PICK c \in By(s, closer) : s[c].index = s[k].index
      BY <3>1 DEF Indices
    <3>3. k < c
      BY <1>2, <3>2 DEF Precedes
    <3>4. QED
      BY <1>1, <1>3, <3>2, <3>3
  <2>4. QED
    BY <2>1, <2>2, <2>3
<1>6. \A k \in Named({opener}) :
        /\ Frames(opener, s[k].index) = {k}
        /\ Cardinality(Frames(closer, s[k].index)) <= 1
        /\ Named({"response.completed"}) # {} =>
             \E c \in Frames(closer, s[k].index) : c > k
  <2>1. Named({opener}) = By(s, opener)
    BY <1>1
  <2>2. QED
    BY <1>5, <2>1
<1>7. Closes(opener, closer)
  BY <1>6 DEF Closes, s
<1>8. QED
  BY <1>4, <1>7

(* Deltas come while their part or item is open, and nothing stays open.     *)
LEMMA HttpInvBracketed == NoPartReturns /\ HttpInv => Bracketed
<1> SUFFICES ASSUME NoPartReturns, HttpInv PROVE Bracketed
  OBVIOUS
<1>1. TypeOK
  BY DEF HttpInv
<1> DEFINE opened == IF endpoint = "responses" THEN PartsTo(Told) ELSE {}
           closed == IF endpoint # "responses" THEN {}
                       ELSE IF Complete THEN PartsTo(Told) ELSE PartsTo(Told) \ state.current
           items == Items(state)
           finished == IF Complete THEN Items(state) ELSE {}
<1>2. /\ Bracket(Stream, "summary.delta", "part.added", "part.done", opened, closed)
      /\ Bracket(Stream, "text.delta", "item.added", "item.done", items, finished)
  BY DEF HttpInv, StreamAt, Rendering
<1>3. Named({"response.completed"}) # {} => Complete
  <2>1. Named({"response.completed"}) \subseteq At(Stream, PraiseNames)
    <3> HIDE DEF Stream
    <3>1. QED
      BY DEF Named, At, PraiseNames
  <2>2. ~Complete => Unpraised(Stream)
    BY DEF HttpInv
  <2>3. QED
    BY <2>1, <2>2 DEF Unpraised
<1>4. Named({"response.completed"}) # {} => closed = opened /\ finished = items
  BY <1>3
<1> HIDE DEF opened, closed, items, finished
<1>5. /\ \A k \in Named({"summary.delta"}) : Within(k, "part.added", "part.done")
      /\ Closes("part.added", "part.done")
  BY <1>1, <1>2, <1>4, BracketCloses
<1>6. /\ \A k \in Named({"text.delta"}) : Within(k, "item.added", "item.done")
      /\ Closes("item.added", "item.done")
  BY <1>1, <1>2, <1>4, BracketCloses
<1>7. QED
  BY <1>5, <1>6 DEF Bracketed

(* sse.rs, chat.rs, responses.rs: whatever the turn, and whenever its client *)
(* leaves, what was streamed carries each event once and in order, ends at most *)
(* once and truthfully, and a final object restates all of it.               *)
THEOREM StreamsAreFaithful == SafeSpec => [](EachOnce /\ EndsOnce /\ Restated)
<1>1. HttpInv => EachOnce /\ EndsOnce /\ Restated
  BY HttpInvEachOnce, HttpInvEndsOnce, HttpInvRestated
<1>2. QED
  BY <1>1, InitHttpInv, HttpStep, PTL DEF SafeSpec

(* With the brackets: on a turn that comes back to no reasoning part it left, *)
(* every delta lies in its open part or item, and a completed response leaves *)
(* nothing open.                                                             *)
THEOREM TurnsAreRendered == NoPartReturns => (SafeSpec => []TurnRendered)
<1> SUFFICES ASSUME NoPartReturns PROVE SafeSpec => []TurnRendered
  OBVIOUS
<1>1. HttpInv => TurnRendered
  BY HttpInvEachOnce, HttpInvEndsOnce, HttpInvRestated, HttpInvBracketed DEF TurnRendered
<1>2. QED
  BY <1>1, InitHttpInv, HttpStep, PTL DEF SafeSpec

(***************************************************************************)
(* The ACP server.                                                         *)
(***************************************************************************)
TaskStates == {"none", "started", "serving", "parked", "replying", "refusing",
               "advertising", "signalling", "done"}
Outgoing == [line : Server!Lines, kind : {"result", "commands", "update"}]
Cuts     == [took : SUBSET Server!Lines, left : SUBSET Server!Lines]

ServerTypeOK ==
  /\ input \in Clients /\ read \in 0..Len(input) /\ hungup \in BOOLEAN
  /\ loop \in {"reading", "cancelling", "returned"}
  /\ tasks \in [Server!Lines -> TaskStates]
  /\ version \in {1, 2} /\ agreed \in [Server!Lines -> 0..2]
  /\ live \subseteq Server!Lines /\ inFlight \subseteq Server!Lines
  /\ cut \in [Server!Lines -> Cuts]
  /\ flag \in BOOLEAN /\ updates \subseteq Server!Lines
  /\ outbound \in Seq(Outgoing) /\ written \in Seq(Outgoing)
  /\ writer \in {"writing", "failed", "aborted"}

(* A line the loop has not taken has no task.                                *)
Ahead == \A i \in Server!Lines : i > read => tasks[i] = "none"

(* What is in flight, or interrupted, is a prompt, and only a close at work  *)
(* interrupts.                                                               *)
Interrupts ==
  /\ \A q \in inFlight : input[q] = "prompt"
  /\ \A c \in Server!Lines :
       /\ cut[c].left \subseteq cut[c].took
       /\ \A q \in cut[c].took : input[q] = "prompt" /\ input[c] = "close"
       /\ cut[c].left # {} => tasks[c] = "serving"
       /\ tasks[c] \in {"none", "started"} => cut[c].took = {}

(* A task that has yet to reply has not replied, and nobody has in its       *)
(* place, unless a close did.                                                *)
Unanswered == {"none", "started", "serving", "parked", "replying", "refusing"}
RepliesIn(s, i) == \E k \in DOMAIN s : s[k] = Server!Frame(i, "result")
HasReply(i) == RepliesIn(Server!Stream, i)
NotYet == \A i \in Server!Lines : tasks[i] \in Unanswered /\ i \notin Server!Cut => ~HasReply(i)

(* While the writer is there, a task that is about to advertise has replied, *)
(* and a close has to the prompts that it does not have left; once it is     *)
(* gone no frame is sent any more.                                           *)
Before ==
  writer = "writing" =>
    \A i \in Server!Lines : /\ tasks[i] = "advertising" => HasReply(i)
                            /\ \A q \in cut[i].took \ cut[i].left : HasReply(q)

ServerInv ==
  ServerTypeOK /\ Ahead /\ Interrupts /\ NotYet /\ Before /\ Server!RepliesFirst

(* RepliesFirst as a property of a sequence of frames, of the prompts each   *)
(* close has taken, and of all of these.                                     *)
Took == [c \in Server!Lines |-> cut[c].took]
Ordered(s, took, all) ==
  \A k \in DOMAIN s :
    /\ s[k].kind = "commands" => \E j \in 1..k : s[j] = Server!Frame(s[k].line, "result")
    /\ s[k].kind = "result" =>
         /\ \A q \in took[s[k].line] : \E j \in 1..k : s[j] = Server!Frame(q, "result")
         /\ s[k].line \notin all => \A j \in 1..(k - 1) : s[j] # s[k]

-----------------------------------------------------------------------------
(* The elements of a sequence with one frame more.                           *)
LEMMA AppendFrame ==
  ASSUME NEW s \in Seq(Outgoing), NEW f \in Outgoing
  PROVE  /\ Append(s, f) \in Seq(Outgoing)
         /\ Len(Append(s, f)) = Len(s) + 1
         /\ DOMAIN Append(s, f) = 1..(Len(s) + 1)
         /\ \A k \in 1..Len(s) : Append(s, f)[k] = s[k]
         /\ Append(s, f)[Len(s) + 1] = f
OBVIOUS

(* The elements of a sequence of frames.                                     *)
LEMMA FramesOf ==
  ASSUME NEW s \in Seq(Outgoing), NEW k \in DOMAIN s
  PROVE  s[k] \in Outgoing /\ s[k].line \in Server!Lines
<1>1. s[k] \in Outgoing
  OBVIOUS
<1> QED
  BY <1>1 DEF Outgoing

(* A frame tells what it replies to.                                         *)
LEMMA RepliesAppend ==
  ASSUME NEW s \in Seq(Outgoing), NEW f \in Outgoing, NEW i
  PROVE  RepliesIn(Append(s, f), i) <=> RepliesIn(s, i) \/ f = Server!Frame(i, "result")
<1> DEFINE t == Append(s, f)
<1>1. /\ DOMAIN t = 1..(Len(s) + 1) /\ DOMAIN s = 1..Len(s) /\ Len(s) \in Nat
      /\ \A k \in 1..Len(s) : t[k] = s[k]
      /\ t[Len(s) + 1] = f
  BY AppendFrame
<1> HIDE DEF t
<1>2. \A k : k \in DOMAIN t <=> k \in DOMAIN s \/ k = Len(s) + 1
  BY <1>1
<1>3. RepliesIn(t, i) <=> RepliesIn(s, i) \/ f = Server!Frame(i, "result")
  BY <1>1, <1>2 DEF RepliesIn
<1> QED
  BY <1>3 DEF t

(* A frame sent goes to the end of the stream.                               *)
LEMMA StreamAppend ==
  ASSUME NEW w \in Seq(Outgoing), NEW q \in Seq(Outgoing), NEW f \in Outgoing
  PROVE  w \o Append(q, f) = Append(w \o q, f)
<1>1. w \o Append(q, f) \in Seq(Outgoing) /\ Append(w \o q, f) \in Seq(Outgoing)
  OBVIOUS
<1>2. Len(w \o Append(q, f)) = Len(Append(w \o q, f))
  OBVIOUS
<1>3. ASSUME NEW k \in 1..Len(Append(w \o q, f))
      PROVE  (w \o Append(q, f))[k] = Append(w \o q, f)[k]
  OBVIOUS
<1> QED
  BY <1>1, <1>2, <1>3

(* A frame written stays where it is in the stream.                          *)
LEMMA StreamMoves ==
  ASSUME NEW w \in Seq(Outgoing), NEW q \in Seq(Outgoing), q # <<>>
  PROVE  /\ Append(w, Head(q)) \o Tail(q) = w \o q
         /\ Append(w, Head(q)) \in Seq(Outgoing) /\ Tail(q) \in Seq(Outgoing)
<1>1. /\ Append(w, Head(q)) \in Seq(Outgoing) /\ Tail(q) \in Seq(Outgoing)
      /\ Len(Tail(q)) = Len(q) - 1 /\ Len(Append(w, Head(q))) = Len(w) + 1
  OBVIOUS
<1>2. /\ Append(w, Head(q)) \o Tail(q) \in Seq(Outgoing) /\ w \o q \in Seq(Outgoing)
      /\ Len(Append(w, Head(q)) \o Tail(q)) = Len(w \o q)
  BY <1>1
<1>3. ASSUME NEW k \in 1..Len(w \o q)
      PROVE  (Append(w, Head(q)) \o Tail(q))[k] = (w \o q)[k]
  BY <1>1
<1> QED
  BY <1>1, <1>2, <1>3

(* What comes behind the frames of an ordered sequence keeps the order if it *)
(* is no session's commands before its reply, no close's reply before those  *)
(* to its prompts, and no second reply but to an interrupted prompt.         *)
LEMMA OrderedAppend ==
  ASSUME NEW s \in Seq(Outgoing), NEW f \in Outgoing, NEW took, NEW all, Ordered(s, took, all),
         f.kind = "commands" => \E k \in DOMAIN s : s[k] = Server!Frame(f.line, "result"),
         f.kind = "result" =>
           /\ \A q \in took[f.line] : \E k \in DOMAIN s : s[k] = Server!Frame(q, "result")
           /\ f.line \notin all => \A k \in DOMAIN s : s[k] # f
  PROVE  Ordered(Append(s, f), took, all)
<1> DEFINE t == Append(s, f)
<1>1. SUFFICES ASSUME NEW k \in DOMAIN t
      PROVE  /\ t[k].kind = "commands" => \E j \in 1..k : t[j] = Server!Frame(t[k].line, "result")
             /\ t[k].kind = "result" =>
                  /\ \A q \in took[t[k].line] : \E j \in 1..k : t[j] = Server!Frame(q, "result")
                  /\ t[k].line \notin all => \A j \in 1..(k - 1) : t[j] # t[k]
  BY DEF Ordered
<1> HIDE DEF t
<1>2. /\ DOMAIN t = 1..(Len(s) + 1) /\ DOMAIN s = 1..Len(s) /\ Len(s) \in Nat
      /\ \A j \in 1..Len(s) : t[j] = s[j]
      /\ t[Len(s) + 1] = f
  BY AppendFrame DEF t
<1>3. CASE k \in 1..Len(s)
  <2>1. t[k] = s[k] /\ k \in DOMAIN s /\ \A j \in 1..k : t[j] = s[j]
    BY <1>2, <1>3
  <2>2. \A j \in 1..(k - 1) : j \in 1..k
    BY <1>2, <1>3
  <2> QED
    BY <2>1, <2>2 DEF Ordered
<1>4. CASE k = Len(s) + 1
  <2>1. t[k] = f /\ 1..(k - 1) = DOMAIN s /\ DOMAIN s \subseteq 1..k
    BY <1>2, <1>4
  <2>2. \A j \in DOMAIN s : t[j] = s[j]
    BY <1>2
  <2> QED
    BY <2>1, <2>2
<1> QED
  BY <1>1, <1>2, <1>3, <1>4

(* The order of a stream is the order of what has been written of it.        *)
LEMMA OrderedPrefix ==
  ASSUME NEW w \in Seq(Outgoing), NEW q \in Seq(Outgoing), NEW took, NEW all,
         Ordered(w \o q, took, all)
  PROVE  Ordered(w, took, all)
<1>1. DOMAIN w \subseteq DOMAIN (w \o q) /\ \A k \in DOMAIN w : (w \o q)[k] = w[k]
  OBVIOUS
<1>2. \A k \in DOMAIN w : k \in Nat /\ 1..k \subseteq DOMAIN w /\ 1..(k - 1) \subseteq DOMAIN w
  OBVIOUS
<1> QED
  BY <1>1, <1>2 DEF Ordered

(* RepliesFirst is the order of the stream.                                  *)
LEMMA FirstIsOrdered ==
  Server!Stream \in Seq(Outgoing) =>
    (Server!RepliesFirst <=> Ordered(Server!Stream, Took, Server!Cut))
<1> SUFFICES ASSUME Server!Stream \in Seq(Outgoing)
             PROVE  Server!RepliesFirst <=> Ordered(Server!Stream, Took, Server!Cut)
  OBVIOUS
<1>1. \A k \in DOMAIN Server!Stream : Server!Stream[k].line \in Server!Lines
  BY FramesOf
<1>2. \A k \in DOMAIN Server!Stream : Took[Server!Stream[k].line] = cut[Server!Stream[k].line].took
  BY <1>1 DEF Took
<1> QED
  BY <1>2, Zenon DEF Server!RepliesFirst, Ordered

(* And so it is of the next one.                                             *)
LEMMA PrimedOrder ==
  ASSUME Server!Stream' \in Seq(Outgoing), Took' = Took, Server!Cut' = Server!Cut,
         Ordered(Server!Stream', Took, Server!Cut)
  PROVE  Server!RepliesFirst'
<1>1. \A k \in DOMAIN Server!Stream' : Server!Stream'[k].line \in Server!Lines
  BY FramesOf
<1>2. \A k \in DOMAIN Server!Stream' :
        Took'[Server!Stream'[k].line] = cut'[Server!Stream'[k].line].took
  BY <1>1 DEF Took
<1>3. Ordered(Server!Stream', Took', Server!Cut')
  OBVIOUS
<1> HIDE DEF Took
<1> QED
  BY <1>2, <1>3 DEF Server!RepliesFirst, Ordered, Server!Frame

(* Lines are numbers.                                                        *)
LEMMA LinesAreNumbers == Server!Lines \subseteq Nat \ {0}
<1> SUFFICES ASSUME NEW s \in Clients PROVE DOMAIN s \subseteq Nat \ {0}
  BY DEF Server!Lines
<1>1. s \in Seq(Server!Line)
  BY ServerAssumption
<1> QED
  BY <1>1

(* What comes before a line is a line.                                       *)
LEMMA EarlierLines ==
  ASSUME NEW i \in Server!Lines, NEW j \in 1..(i - 1)
  PROVE  j \in Server!Lines
<1>1. PICK s \in Clients : i \in DOMAIN s
  BY DEF Server!Lines
<1>2. s \in Seq(Server!Line) /\ DOMAIN s = 1..Len(s) /\ Len(s) \in Nat
  BY ServerAssumption
<1>3. j \in DOMAIN s
  BY <1>1, <1>2
<1> QED
  BY <1>3 DEF Server!Lines

(* A frame of a line is a frame.                                             *)
LEMMA FrameTypes ==
  \A i \in Server!Lines : \A kind \in {"result", "commands", "update"} :
    /\ Server!Frame(i, kind) \in Outgoing
    /\ Server!Frame(i, kind).line = i /\ Server!Frame(i, kind).kind = kind
BY DEF Server!Frame, Outgoing

(* The stream is a sequence of frames.                                       *)
LEMMA StreamSeq ==
  ServerTypeOK =>
    Server!Stream \in Seq(Outgoing) /\ DOMAIN Server!Stream = 1..Len(Server!Stream)
BY DEF ServerTypeOK, Server!Stream

(* A send that may take place grows the stream by its frame, or drops it if  *)
(* the writer is gone.                                                       *)
LEMMA Sends ==
  ASSUME ServerInv, NEW f \in Outgoing, outbound' = Server!Sent(f), UNCHANGED written
  PROVE  /\ outbound' \in Seq(Outgoing)
         /\ Server!Stream' = IF writer = "writing" THEN Append(Server!Stream, f) ELSE Server!Stream
<1> USE DEF ServerInv, ServerTypeOK, Server!Stream
<1>1. CASE writer = "writing"
  <2>1. outbound' = Append(outbound, f)
    BY <1>1 DEF Server!Sent
  <2>2. outbound' \in Seq(Outgoing)
    BY <2>1, AppendFrame
  <2>3. written' \o outbound' = Append(written \o outbound, f)
    BY <2>1, StreamAppend
  <2> QED
    BY <1>1, <2>2, <2>3
<1>2. CASE writer # "writing"
  BY <1>2 DEF Server!Sent
<1> QED
  BY <1>1, <1>2

(* What a frame that is sent tells, and that it keeps the order: if it is a  *)
(* task's first reply, with the prompts it interrupted answered, the reply   *)
(* to such a prompt, or no reply at all.                                     *)
LEMMA Sending ==
  ASSUME ServerInv, NEW i \in Server!Lines, NEW kind \in {"result", "commands", "update"},
         outbound' = Server!Sent(Server!Frame(i, kind)), UNCHANGED <<writer, written>>,
         Took' = Took, Server!Cut' = Server!Cut,
         kind = "commands" => tasks[i] = "advertising",
         kind = "result" => \/ tasks[i] \in Unanswered /\ cut[i].left = {}
                            \/ i \in Server!Cut /\ cut[i].took = {}
  PROVE  /\ outbound' \in Seq(Outgoing) /\ Server!RepliesFirst'
         /\ \A q : HasReply(q) => HasReply(q)'
         /\ \A q : HasReply(q)' => HasReply(q) \/ (q = i /\ kind = "result")
         /\ writer = "writing" /\ kind = "result" => HasReply(i)'
<1> DEFINE f == Server!Frame(i, kind)
           s == Server!Stream
<1>1. f \in Outgoing /\ f.line = i /\ f.kind = kind
  BY FrameTypes
<1>2. \A q : f = Server!Frame(q, "result") => q = i /\ kind = "result"
  BY <1>1 DEF Server!Frame
<1>3. s \in Seq(Outgoing) /\ DOMAIN s = 1..Len(s) /\ Len(s) \in Nat
  BY StreamSeq DEF ServerInv
<1>4. outbound' \in Seq(Outgoing) /\ s' = IF writer = "writing" THEN Append(s, f) ELSE s
  BY <1>1, Sends
<1>5. Ordered(s, Took, Server!Cut)
  BY <1>3, FirstIsOrdered DEF ServerInv
<1> HIDE DEF f
<1>6. CASE writer = "writing"
  <2>1. s' = Append(s, f)
    BY <1>4, <1>6
  <2>2. /\ s' \in Seq(Outgoing) /\ DOMAIN s' = 1..(Len(s) + 1)
        /\ \A k \in 1..Len(s) : s'[k] = s[k]
        /\ s'[Len(s) + 1] = f
    BY <1>1, <1>3, <2>1, AppendFrame
  <2>3. \A q : HasReply(q)' <=> HasReply(q) \/ f = Server!Frame(q, "result")
    BY <1>1, <1>3, <2>1, RepliesAppend DEF HasReply, RepliesIn, Server!Frame
  <2>4. /\ \A q : HasReply(q) => HasReply(q)'
        /\ \A q : HasReply(q)' => HasReply(q) \/ (q = i /\ kind = "result")
    BY <1>2, <2>3
  <2>5. kind = "result" => HasReply(i)'
    BY <2>3 DEF f
  <2>6. Ordered(Append(s, f), Took, Server!Cut)
    <3>1. kind = "commands" => \E k \in DOMAIN s : s[k] = Server!Frame(i, "result")
      BY <1>6 DEF ServerInv, Before, HasReply, RepliesIn
    <3>2. Took[i] = cut[i].took
      BY DEF Took
    <3>3. kind = "result" =>
            \A q \in Took[i] : \E k \in DOMAIN s : s[k] = Server!Frame(q, "result")
      BY <1>6, <3>2 DEF ServerInv, Before, HasReply, RepliesIn
    <3>4. kind = "result" /\ i \notin Server!Cut => \A k \in DOMAIN s : s[k] # f
      BY DEF ServerInv, NotYet, HasReply, RepliesIn, f
    <3> QED
      BY <1>1, <1>3, <1>5, <3>1, <3>3, <3>4, OrderedAppend
  <2>7. Server!RepliesFirst'
    BY <1>6, <2>1, <2>2, <2>6, PrimedOrder
  <2> QED
    BY <1>4, <2>4, <2>5, <2>7
<1>7. CASE writer # "writing"
  <2>1. s' = s
    BY <1>4, <1>7
  <2>2. \A q : HasReply(q)' <=> HasReply(q)
    BY <2>1 DEF HasReply, RepliesIn, Server!Frame
  <2>5. Server!RepliesFirst'
    BY <1>3, <1>5, <2>1, PrimedOrder
  <2> QED
    BY <1>4, <1>7, <2>2, <2>5
<1> QED
  BY <1>6, <1>7

(* A step that sends nothing and moves tasks on.                             *)
Quietly(i) ==
  \/ tasks'[i] = tasks[i]
  \/ /\ cut[i].left = {}
     /\ tasks'[i] \in {"none", "started"} => tasks[i] \in {"none", "started"}
     /\ \/ tasks[i] \in Unanswered /\ tasks'[i] \in Unanswered
        \/ tasks'[i] \in {"signalling", "done"}
LEMMA SameStream ==
  ASSUME ServerInv, Server!Stream' = Server!Stream, UNCHANGED <<cut, input>>,
         writer' \in {writer, "failed", "aborted"},
         \A i \in Server!Lines : Quietly(i),
         \A q \in inFlight' : q \in inFlight \/ input[q] = "prompt"
  PROVE  Interrupts' /\ NotYet' /\ Before' /\ Server!RepliesFirst'
<1> USE DEF ServerInv
<1>0. Server!Stream \in Seq(Outgoing) /\ Took' = Took /\ Server!Cut' = Server!Cut
  BY StreamSeq DEF Took, Server!Cut
<1>1. Server!RepliesFirst'
  BY <1>0, FirstIsOrdered, PrimedOrder
<1>2. \A q : HasReply(q)' <=> HasReply(q)
  BY DEF HasReply, RepliesIn, Server!Frame
<1>3. NotYet'
  BY <1>2 DEF NotYet, Unanswered, Quietly, Server!Cut
<1>4. Before'
  BY <1>2 DEF Before, Unanswered, Quietly
<1>5. Interrupts'
  BY DEF Interrupts, Quietly
<1> QED
  BY <1>1, <1>3, <1>4, <1>5


(* Only a close at work has prompts left, and only prompts were ever cut.    *)
LEMMA NoneLeft ==
  ASSUME ServerInv, NEW i \in Server!Lines
  PROVE  /\ tasks[i] # "serving" => cut[i].left = {}
         /\ input[i] # "close" => cut[i].took = {} /\ cut[i].left = {}
         /\ i \in Server!Cut => input[i] = "prompt"
BY DEF ServerInv, Interrupts, Server!Cut

(* A reply.                                                                  *)
LEMMA ReplyStep == ASSUME NEW i \in Server!Lines, ServerInv, Server!Reply(i) PROVE ServerInv'
<1>1. /\ tasks[i] \in {"replying", "refusing"} /\ Server!AfterReply(i) \notin Unanswered
      /\ Server!AfterReply(i) \in {"done", "advertising", "signalling"}
      /\ tasks' = [tasks EXCEPT ![i] = Server!AfterReply(i)]
  BY DEF Server!Reply, Server!Moves, Unanswered, Server!AfterReply
<1>2. /\ outbound' = Server!Sent(Server!Frame(i, "result")) /\ UNCHANGED <<writer, written>>
      /\ cut' = cut /\ input' = input /\ read' = read /\ inFlight' = inFlight
      /\ UNCHANGED <<hungup, loop, version, agreed, live, flag, updates>>
  BY DEF Server!Reply, Server!client, Server!store
<1>3. Took' = Took /\ Server!Cut' = Server!Cut
  BY <1>2 DEF Took, Server!Cut
<1>4. tasks[i] \in Unanswered /\ cut[i].left = {}
  BY <1>1, NoneLeft DEF Unanswered
<1>5. /\ outbound' \in Seq(Outgoing) /\ Server!RepliesFirst'
      /\ \A q : HasReply(q) => HasReply(q)'
      /\ \A q : HasReply(q)' => HasReply(q) \/ q = i
      /\ writer = "writing" => HasReply(i)'
  BY <1>2, <1>3, <1>4, Sending
<1>6. \A j \in Server!Lines : tasks'[j] = IF j = i THEN Server!AfterReply(i) ELSE tasks[j]
  BY <1>1 DEF ServerInv, ServerTypeOK
<1>7. ServerTypeOK'
  BY <1>1, <1>2, <1>5 DEF ServerInv, ServerTypeOK, TaskStates
<1>8. Ahead'
  BY <1>1, <1>2, <1>6 DEF ServerInv, Ahead
<1>9. Interrupts'
  BY <1>1, <1>2, <1>6 DEF ServerInv, Interrupts
<1>10. NotYet'
  BY <1>1, <1>3, <1>5, <1>6 DEF ServerInv, NotYet
<1>11. Before'
  BY <1>2, <1>5, <1>6 DEF ServerInv, Before
<1> QED
  BY <1>5, <1>7, <1>8, <1>9, <1>10, <1>11 DEF ServerInv

(* A close replies to a prompt in its driver's place.                        *)
LEMMA InterruptStep ==
  ASSUME NEW i \in Server!Lines, ServerInv, Server!Interrupt(i) PROVE ServerInv'
<1>1. PICK q \in cut[i].left :
        /\ outbound' = Server!Sent(Server!Frame(q, "result"))
        /\ cut' = [cut EXCEPT ![i].left = @ \ {q}]
        /\ input' = input /\ read' = read /\ tasks' = tasks /\ inFlight' = inFlight
        /\ UNCHANGED <<hungup, loop, version, agreed, live, flag, updates, writer, written>>
  BY DEF Server!Interrupt, Server!client
<1>2. cut \in [Server!Lines -> Cuts] /\ cut[i] \in Cuts
  BY DEF ServerInv, ServerTypeOK
<1>3. q \in Server!Lines /\ q \in cut[i].took /\ input[q] = "prompt" /\ tasks[i] = "serving"
  BY <1>2 DEF ServerInv, Interrupts, Cuts
<1>4. /\ cut'[i].took = cut[i].took /\ cut'[i].left = cut[i].left \ {q}
      /\ \A c \in Server!Lines : c # i => cut'[c] = cut[c]
      /\ cut' \in [Server!Lines -> Cuts]
  BY <1>1, <1>2 DEF Cuts
<1>5. \A c \in Server!Lines : cut'[c].took = cut[c].took
  BY <1>4
<1>6. Took' = Took /\ Server!Cut' = Server!Cut
  BY <1>5 DEF Took, Server!Cut
<1>7. q \in Server!Cut /\ cut[q].took = {}
  BY <1>3, NoneLeft DEF Server!Cut
<1>8. /\ outbound' \in Seq(Outgoing) /\ Server!RepliesFirst'
      /\ \A j : HasReply(j) => HasReply(j)'
      /\ \A j : HasReply(j)' => HasReply(j) \/ j = q
      /\ writer = "writing" => HasReply(q)'
  BY <1>1, <1>3, <1>6, <1>7, Sending
<1>9. ServerTypeOK'
  BY <1>1, <1>4, <1>8 DEF ServerInv, ServerTypeOK
<1>10. Ahead'
  BY <1>1 DEF ServerInv, Ahead
<1>11. Interrupts'
  BY <1>1, <1>3, <1>4 DEF ServerInv, Interrupts
<1>12. NotYet'
  BY <1>1, <1>6, <1>7, <1>8 DEF ServerInv, NotYet
<1>13. Before'
  <2> SUFFICES ASSUME writer = "writing", NEW j \in Server!Lines
               PROVE  /\ tasks'[j] = "advertising" => HasReply(j)'
                      /\ \A p \in cut'[j].took \ cut'[j].left : HasReply(p)'
    BY <1>1 DEF Before
  <2>1. \A p \in cut'[j].took \ cut'[j].left : p = q \/ p \in cut[j].took \ cut[j].left
    BY <1>4
  <2> QED
    BY <1>1, <1>8, <2>1 DEF ServerInv, Before
<1> QED
  BY <1>8, <1>9, <1>10, <1>11, <1>12, <1>13 DEF ServerInv

(* A close takes the prompts that its session has in flight.                 *)
LEMMA CloseStep ==
  ASSUME NEW i \in Server!Lines, ServerInv, tasks[i] = "started", Server!Close(i),
         UNCHANGED <<input, hungup, read, loop, flag, updates, outbound, writer, written>>
  PROVE  ServerInv'
<1> DEFINE cuts == {q \in inFlight : Server!SessionOf(q) = Server!SessionOf(i)}
<1>1. /\ input[i] = "close" /\ tasks' = [tasks EXCEPT ![i] = "serving"]
      /\ cut' = [cut EXCEPT ![i] = [took |-> cuts, left |-> cuts]]
      /\ live' = live \ Server!SessionOf(i)
      /\ UNCHANGED <<version, agreed, inFlight>>
  BY DEF Server!Close, Server!Moves
<1>2. cuts \subseteq inFlight /\ inFlight \subseteq Server!Lines
  BY DEF ServerInv, ServerTypeOK
<1> HIDE DEF cuts
<1>3. /\ \A j \in Server!Lines : tasks'[j] = IF j = i THEN "serving" ELSE tasks[j]
      /\ tasks' \in [Server!Lines -> TaskStates]
  BY <1>1 DEF ServerInv, ServerTypeOK, TaskStates
<1>4. /\ cut' \in [Server!Lines -> Cuts]
      /\ cut'[i].took = cuts /\ cut'[i].left = cuts
      /\ \A c \in Server!Lines : c # i => cut'[c] = cut[c]
  BY <1>1, <1>2 DEF ServerInv, ServerTypeOK, Cuts
<1>5. cut[i].took = {} /\ i \notin Server!Cut
  BY <1>1, NoneLeft DEF ServerInv, Interrupts
<1>6. \A c \in Server!Lines : cut[c].took \subseteq cut'[c].took
  BY <1>4, <1>5
<1>7. Server!Cut \subseteq Server!Cut'
  BY <1>6 DEF Server!Cut
<1>8. /\ Server!Stream' = Server!Stream /\ \A q : HasReply(q)' <=> HasReply(q)
      /\ Server!Stream \in Seq(Outgoing)
  BY StreamSeq DEF Server!Stream, HasReply, RepliesIn, Server!Frame, ServerInv
<1>9. ~HasReply(i)
  BY <1>5 DEF ServerInv, NotYet, Unanswered
<1>10. Server!RepliesFirst'
  <2>1. Ordered(Server!Stream, Took, Server!Cut)
    BY <1>8, FirstIsOrdered DEF ServerInv
  <2> DEFINE s == Server!Stream
  <2>2. ASSUME NEW k \in DOMAIN s, s[k].kind = "result"
        PROVE  s[k].line \in Server!Lines /\ s[k].line # i
    <3>1. s[k] \in Outgoing /\ s[k].line \in Server!Lines
      BY <1>8, FramesOf
    <3>2. s[k] = Server!Frame(s[k].line, "result")
      BY <2>2, <3>1 DEF Outgoing, Server!Frame
    <3> QED
      BY <1>9, <3>1, <3>2 DEF HasReply, RepliesIn
  <2>3. \A k \in DOMAIN s : s[k].kind = "result" =>
          cut'[s[k].line].took = Took[s[k].line]
    BY <1>4, <2>2 DEF Took
  <2> HIDE DEF s
  <2>4. ASSUME NEW k \in DOMAIN s
        PROVE  /\ s[k].kind = "commands" =>
                    \E j \in 1..k : s[j] = Server!Frame(s[k].line, "result")
               /\ s[k].kind = "result" =>
                    /\ \A q \in cut'[s[k].line].took :
                         \E j \in 1..k : s[j] = Server!Frame(q, "result")
                    /\ s[k].line \notin Server!Cut' => \A j \in 1..(k - 1) : s[j] # s[k]
    <3>1. Ordered(s, Took, Server!Cut)
      BY <2>1 DEF s
    <3> QED
      BY <1>7, <2>3, <3>1 DEF Ordered
  <2>5. s = Server!Stream'
    BY <1>8 DEF s
  <2> QED
    BY <2>4, <2>5 DEF Server!RepliesFirst, Server!Frame
<1>11. ServerTypeOK'
  BY <1>1, <1>3, <1>4 DEF ServerInv, ServerTypeOK
<1>12. Ahead'
  BY <1>3 DEF ServerInv, Ahead
<1>13. Interrupts'
  BY <1>1, <1>2, <1>3, <1>4 DEF ServerInv, Interrupts
<1>14. NotYet'
  BY <1>3, <1>7, <1>8 DEF ServerInv, NotYet, Unanswered
<1>15. Before'
  BY <1>3, <1>4, <1>8 DEF ServerInv, Before
<1> QED
  BY <1>10, <1>11, <1>12, <1>13, <1>14, <1>15 DEF ServerInv

(* A frame that is no reply: commands at the end of a task, or an update.    *)
LEMMA OtherFrame ==
  ASSUME ServerInv, NEW i \in Server!Lines, NEW kind \in {"commands", "update"},
         outbound' = Server!Sent(Server!Frame(i, kind)),
         UNCHANGED <<writer, written, cut, input, inFlight>>,
         kind = "commands" => tasks[i] = "advertising",
         \A j \in Server!Lines :
           tasks'[j] = tasks[j] \/ (tasks[j] = "advertising" /\ tasks'[j] = "done")
  PROVE  /\ outbound' \in Seq(Outgoing)
         /\ Interrupts' /\ NotYet' /\ Before' /\ Server!RepliesFirst'
<1>1. Took' = Took /\ Server!Cut' = Server!Cut
  BY DEF Took, Server!Cut
<1>2. /\ outbound' \in Seq(Outgoing) /\ Server!RepliesFirst'
      /\ \A q : HasReply(q)' <=> HasReply(q)
  BY <1>1, Sending
<1>3. NotYet'
  BY <1>1, <1>2 DEF ServerInv, NotYet, Unanswered
<1>4. Before'
  BY <1>2 DEF ServerInv, Before
<1>5. Interrupts'
  BY DEF ServerInv, Interrupts
<1> QED
  BY <1>2, <1>3, <1>4, <1>5

(* The first state.                                                          *)
LEMMA InitServer == Server!Init => ServerInv
<1> SUFFICES ASSUME Server!Init PROVE ServerInv
  OBVIOUS
<1> USE ServerAssumption DEF Server!Init
<1>1. Server!Stream = <<>> /\ DOMAIN Server!Stream = {}
  BY DEF Server!Stream
<1>2. ServerTypeOK
  <2>1. input \in Seq(Server!Line)
    OBVIOUS
  <2>2. read \in 0..Len(input)
    BY <2>1
  <2>3. outbound \in Seq(Outgoing) /\ written \in Seq(Outgoing)
    OBVIOUS
  <2>4. /\ agreed \in [Server!Lines -> 0..2] /\ updates \subseteq Server!Lines
        /\ tasks \in [Server!Lines -> TaskStates]
    BY DEF TaskStates
  <2>5. cut \in [Server!Lines -> Cuts]
    BY DEF Cuts
  <2> QED
    BY <2>2, <2>3, <2>4, <2>5 DEF ServerTypeOK
<1>3. Ahead /\ Interrupts
  BY DEF Ahead, Interrupts
<1>4. NotYet /\ Before /\ Server!RepliesFirst
  BY <1>1 DEF NotYet, Before, HasReply, RepliesIn, Server!RepliesFirst
<1> QED
  BY <1>2, <1>3, <1>4 DEF ServerInv

(* The first step of a task.                                                 *)
LEMMA BeginStep == ASSUME NEW i \in Server!Lines, ServerInv, Server!Begin(i) PROVE ServerInv'
<1>1. /\ tasks[i] = "started"
      /\ UNCHANGED <<input, hungup, read, loop, flag, updates, outbound, writer, written>>
  BY DEF Server!Begin, Server!client, Server!output
<1>2. CASE Server!Close(i)
  BY <1>1, <1>2, CloseStep
<1>3. ASSUME Server!Negotiate(i) \/ Server!Ask(i) \/ Server!Finish(i) \/ Server!Unknown(i)
             \/ Server!Prompt(i)
      PROVE  ServerInv'
  <2>1. /\ \E x \in {"serving", "replying", "refusing", "signalling"} :
              tasks' = [tasks EXCEPT ![i] = x]
        /\ UNCHANGED <<live, inFlight, cut>> /\ version' \in {version, 2}
    BY <1>3 DEF Server!Negotiate, Server!Ask, Server!Finish, Server!Unknown, Server!Prompt,
                Server!Moves, Server!store
  <2>2. PICK x \in {"serving", "replying", "refusing", "signalling"} :
          \A j \in Server!Lines : tasks'[j] = IF j = i THEN x ELSE tasks[j]
    BY <2>1 DEF ServerInv, ServerTypeOK
  <2>3. agreed' \in [Server!Lines -> 0..2]
    <3>1. version \in 0..2 /\ agreed \in [Server!Lines -> 0..2]
      BY DEF ServerInv, ServerTypeOK
    <3>2. CASE Server!Prompt(i)
      <4>1. PICK j \in Server!SessionOf(i) : agreed' = [agreed EXCEPT ![i] = agreed[j]]
        BY <3>2 DEF Server!Prompt
      <4>2. j \in 1..(i - 1)
        BY <4>1 DEF Server!SessionOf
      <4>3. j \in Server!Lines
        BY <4>2, EarlierLines
      <4> QED
        BY <3>1, <4>1, <4>3
    <3>3. CASE ~Server!Prompt(i)
      BY <1>3, <3>1, <3>3
      DEF Server!Negotiate, Server!Ask, Server!Finish, Server!Unknown, Server!store
    <3> QED
      BY <3>2, <3>3
  <2>4. ServerTypeOK'
    BY <1>1, <2>1, <2>3 DEF ServerInv, ServerTypeOK, TaskStates
  <2>5. Ahead'
    BY <1>1, <2>2 DEF ServerInv, Ahead
  <2>6. \A j \in Server!Lines : Quietly(j)
    BY <1>1, <2>2, NoneLeft DEF Quietly, Unanswered
  <2>7. Server!Stream' = Server!Stream
    BY <1>1 DEF Server!Stream
  <2>8. Interrupts' /\ NotYet' /\ Before' /\ Server!RepliesFirst'
    BY <1>1, <2>1, <2>6, <2>7, SameStream
  <2> QED
    BY <2>4, <2>5, <2>8 DEF ServerInv
<1> QED
  BY <1>2, <1>3 DEF Server!Begin

(* The store comes back, a turn is accepted, or settles.                     *)
LEMMA AwaitStep ==
  ASSUME NEW i \in Server!Lines, ServerInv,
         Server!Served(i) \/ Server!Admit(i) \/ Server!Settle(i)
  PROVE  ServerInv'
<1>1. /\ UNCHANGED <<input, hungup, read, loop, flag, updates, outbound, writer, written>>
      /\ UNCHANGED <<version, agreed, cut>>
      /\ live' \subseteq live \union {i}
      /\ \E x \in {"replying", "refusing", "parked"} : tasks' = [tasks EXCEPT ![i] = x]
  BY DEF Server!Served, Server!Admit, Server!Settle, Server!Moves, Server!client, Server!output
<1>2. /\ tasks[i] \in {"serving", "parked"} /\ cut[i].left = {}
      /\ \A q \in inFlight' : q \in inFlight \/ (q = i /\ input[q] = "prompt")
  BY NoneLeft DEF Server!Served, Server!Admit, Server!Settle, Server!Closing
<1>3. PICK x \in {"replying", "refusing", "parked"} :
        \A j \in Server!Lines : tasks'[j] = IF j = i THEN x ELSE tasks[j]
  BY <1>1 DEF ServerInv, ServerTypeOK
<1>4. ServerTypeOK'
  BY <1>1, <1>2 DEF ServerInv, ServerTypeOK, TaskStates
<1>5. Ahead'
  BY <1>1, <1>2, <1>3 DEF ServerInv, Ahead
<1>6. \A j \in Server!Lines : Quietly(j)
  BY <1>2, <1>3 DEF Quietly, Unanswered
<1>7. Server!Stream' = Server!Stream
  BY <1>1 DEF Server!Stream
<1>8. Interrupts' /\ NotYet' /\ Before' /\ Server!RepliesFirst'
  BY <1>1, <1>2, <1>6, <1>7, SameStream
<1> QED
  BY <1>4, <1>5, <1>8 DEF ServerInv

(* A step that leaves the tasks and the channel alone.                       *)
LEMMA IdleStep ==
  ASSUME ServerInv, ServerTypeOK', UNCHANGED <<input, read, tasks, inFlight, cut>>,
         Server!Stream' = Server!Stream, writer' \in {writer, "failed", "aborted"}
  PROVE  ServerInv'
<1>1. Ahead'
  BY DEF ServerInv, Ahead
<1>2. Interrupts' /\ NotYet' /\ Before' /\ Server!RepliesFirst'
  BY SameStream DEF Quietly
<1> QED
  BY <1>1, <1>2 DEF ServerInv

(* Every step keeps the invariant.                                           *)
LEMMA ServerStep == ServerInv /\ [Server!Next]_(Server!vars) => ServerInv'
<1> SUFFICES ASSUME ServerInv, [Server!Next]_(Server!vars) PROVE ServerInv'
  OBVIOUS
<1> USE DEF Server!client, Server!store, Server!output
<1>a. /\ ServerTypeOK /\ Ahead /\ Interrupts /\ NotYet /\ Before /\ Server!RepliesFirst
      /\ written \in Seq(Outgoing) /\ outbound \in Seq(Outgoing)
  BY DEF ServerInv, ServerTypeOK
<1>1. CASE Server!Take
  <2>1. read' = read + 1 /\ read + 1 \in Server!Lines /\ read' \in 0..Len(input)
    <3>1. input \in Clients /\ input \in Seq(Server!Line) /\ read \in 0..Len(input)
      BY <1>a, ServerAssumption DEF ServerTypeOK
    <3>2. read' = read + 1 /\ read < Len(input)
      BY <1>1 DEF Server!Take
    <3>3. read + 1 \in DOMAIN input /\ read + 1 \in 0..Len(input)
      BY <3>1, <3>2
    <3> QED
      BY <3>1, <3>2, <3>3 DEF Server!Lines
  <2>a. read \in Nat /\ read + 1 > read
    <3>1. read \in 0..Len(input) /\ Len(input) \in Nat
      BY <1>a, ServerAssumption DEF ServerTypeOK
    <3> QED
      BY <3>1
  <2>2. /\ tasks' \in {tasks, [tasks EXCEPT ![read + 1] = "started"]}
        /\ tasks[read + 1] = "none"
    BY <1>1, <1>a, <2>1, <2>a, Zenon DEF Server!Take, Ahead
  <2>3. \A j \in Server!Lines : tasks'[j] = tasks[j] \/ (j = read + 1 /\ tasks'[j] = "started")
    BY <1>a, <2>2 DEF ServerTypeOK
  <2>4. \A j \in Server!Lines : Quietly(j)
    BY <2>2, <2>3, NoneLeft DEF Quietly, Unanswered
  <2>5. Server!Stream' = Server!Stream
    BY <1>1 DEF Server!Take, Server!Stream
  <2>6. Interrupts' /\ NotYet' /\ Before' /\ Server!RepliesFirst'
    BY <1>1, <2>4, <2>5, SameStream DEF Server!Take
  <2>7. ServerTypeOK'
    BY <1>1, <1>a, <2>1, <2>2 DEF Server!Take, ServerTypeOK, TaskStates
  <2>8. Ahead'
    <3> SUFFICES ASSUME NEW i \in Server!Lines, i > read + 1 PROVE tasks'[i] = "none"
      BY <2>1 DEF Ahead
    <3>1. i \in Nat /\ i > read /\ i # read + 1
      BY <2>a, LinesAreNumbers
    <3> QED
      BY <1>a, <2>3, <3>1 DEF Ahead
  <2> QED
    BY <2>6, <2>7, <2>8 DEF ServerInv
<1>2. CASE Server!Cancelled
  BY <1>2, <1>a, IdleStep DEF Server!Cancelled, ServerTypeOK, Server!Stream
<1>3. CASE Server!Return
  BY <1>3, <1>a, IdleStep DEF Server!Return, ServerTypeOK, Server!Stream
<1>4. ASSUME NEW i \in Server!Lines, Server!Begin(i) PROVE ServerInv'
  BY <1>4, BeginStep
<1>5. ASSUME NEW i \in Server!Lines, Server!Served(i) \/ Server!Admit(i) \/ Server!Settle(i)
      PROVE  ServerInv'
  BY <1>5, AwaitStep
<1>6. ASSUME NEW i \in Server!Lines, Server!Interrupt(i) PROVE ServerInv'
  BY <1>6, InterruptStep
<1>7. ASSUME NEW i \in Server!Lines, Server!Reply(i) PROVE ServerInv'
  BY <1>7, ReplyStep
<1>8. ASSUME NEW i \in Server!Lines, Server!Advertise(i) PROVE ServerInv'
  <2>1. /\ tasks[i] = "advertising" /\ tasks' = [tasks EXCEPT ![i] = "done"]
        /\ outbound' \in {outbound, Server!Sent(Server!Frame(i, "commands"))}
        /\ UNCHANGED <<input, read, inFlight, cut, writer, written>>
        /\ UNCHANGED <<hungup, loop, version, agreed, live, flag, updates>>
    BY <1>8 DEF Server!Advertise, Server!Moves
  <2>2. \A j \in Server!Lines : tasks'[j] = IF j = i THEN "done" ELSE tasks[j]
    BY <1>a, <2>1 DEF ServerTypeOK
  <2>3. /\ outbound' \in Seq(Outgoing)
        /\ Interrupts' /\ NotYet' /\ Before' /\ Server!RepliesFirst'
    <3>1. CASE outbound' = Server!Sent(Server!Frame(i, "commands"))
      BY <2>1, <2>2, <3>1, OtherFrame
    <3>2. CASE outbound' = outbound
      <4>1. \A j \in Server!Lines : Quietly(j)
        BY <2>1, <2>2, NoneLeft DEF Quietly
      <4>2. Server!Stream' = Server!Stream
        BY <2>1, <3>2 DEF Server!Stream
      <4> QED
        BY <1>a, <2>1, <3>2, <4>1, <4>2, SameStream
    <3> QED
      BY <2>1, <3>1, <3>2
  <2>4. ServerTypeOK'
    BY <1>a, <2>1, <2>3 DEF ServerTypeOK, TaskStates
  <2>5. Ahead'
    BY <1>a, <2>1, <2>2 DEF Ahead
  <2> QED
    BY <2>3, <2>4, <2>5 DEF ServerInv
<1>9. ASSUME NEW i \in Server!Lines, Server!Signal(i) PROVE ServerInv'
  <2>1. /\ tasks[i] = "signalling" /\ tasks' = [tasks EXCEPT ![i] = "done"]
        /\ UNCHANGED <<input, read, inFlight, cut, writer, written, outbound>>
        /\ UNCHANGED <<hungup, loop, version, agreed, live, updates>> /\ flag' = TRUE
    BY <1>9 DEF Server!Signal, Server!Moves
  <2>2. \A j \in Server!Lines : tasks'[j] = IF j = i THEN "done" ELSE tasks[j]
    BY <1>a, <2>1 DEF ServerTypeOK
  <2>3. \A j \in Server!Lines : Quietly(j)
    BY <2>1, <2>2, NoneLeft DEF Quietly
  <2>4. Server!Stream' = Server!Stream
    BY <2>1 DEF Server!Stream
  <2>5. Interrupts' /\ NotYet' /\ Before' /\ Server!RepliesFirst'
    BY <2>1, <2>3, <2>4, SameStream
  <2>6. ServerTypeOK'
    BY <1>a, <2>1 DEF ServerTypeOK, TaskStates
  <2>7. Ahead'
    BY <1>a, <2>1, <2>2 DEF Ahead
  <2> QED
    BY <2>5, <2>6, <2>7 DEF ServerInv
<1>10. CASE Server!Write
  <2>1. /\ Server!Stream' = Server!Stream
        /\ written' \in Seq(Outgoing) /\ outbound' \in Seq(Outgoing)
    BY <1>10, <1>a, StreamMoves DEF Server!Write, Server!Stream
  <2>2. ServerTypeOK'
    BY <1>10, <1>a, <2>1 DEF Server!Write, ServerTypeOK
  <2> QED
    BY <1>10, <2>1, <2>2, IdleStep DEF Server!Write
<1>11. CASE Server!WriteFails
  <2>1. /\ outbound' = <<>> /\ written' = written /\ writer' = "failed"
        /\ UNCHANGED <<input, read, tasks, inFlight, cut>>
        /\ UNCHANGED <<hungup, loop, version, agreed, live, flag, updates>>
    BY <1>11 DEF Server!WriteFails
  <2>2. /\ Server!Stream' = written /\ DOMAIN written \subseteq DOMAIN Server!Stream
        /\ \A k \in DOMAIN written : Server!Stream[k] = written[k]
    BY <1>a, <2>1 DEF Server!Stream
  <2>3. Took' = Took /\ Server!Cut' = Server!Cut
    BY <2>1 DEF Took, Server!Cut
  <2>4. Server!RepliesFirst'
    <3>1. Ordered(Server!Stream, Took, Server!Cut)
      BY FirstIsOrdered, StreamSeq, <1>a
    <3>2. Ordered(written, Took, Server!Cut)
      BY <1>a, <3>1, OrderedPrefix DEF Server!Stream
    <3> QED
      BY <1>a, <2>2, <2>3, <3>2, PrimedOrder
  <2>5. \A q : HasReply(q)' => HasReply(q)
    BY <2>2 DEF HasReply, RepliesIn, Server!Frame
  <2>6. ServerTypeOK'
    BY <1>a, <2>1 DEF ServerTypeOK
  <2>7. Ahead' /\ Interrupts' /\ NotYet' /\ Before'
    BY <1>a, <2>1, <2>3, <2>5 DEF Ahead, Interrupts, NotYet, Before
  <2> QED
    BY <2>4, <2>6, <2>7 DEF ServerInv
<1>12. ASSUME NEW i \in Server!Lines, Server!Update(i) PROVE ServerInv'
  <2>1. /\ outbound' = Server!Sent(Server!Frame(i, "update"))
        /\ updates' = updates \union {i}
        /\ UNCHANGED <<input, read, tasks, inFlight, cut, writer, written>>
        /\ UNCHANGED <<hungup, loop, version, agreed, live, flag>>
    BY <1>12 DEF Server!Update
  <2>2. /\ outbound' \in Seq(Outgoing)
        /\ Interrupts' /\ NotYet' /\ Before' /\ Server!RepliesFirst'
    BY <2>1, OtherFrame
  <2>3. ServerTypeOK'
    BY <1>a, <2>1, <2>2 DEF ServerTypeOK
  <2>4. Ahead'
    BY <1>a, <2>1 DEF Ahead
  <2> QED
    BY <2>2, <2>3, <2>4 DEF ServerInv
<1>13. CASE Server!Hangup
  BY <1>13, <1>a, IdleStep DEF Server!Hangup, ServerTypeOK, Server!Stream
<1>14. CASE UNCHANGED Server!vars
  BY <1>14, <1>a, IdleStep DEF Server!vars, ServerTypeOK, Server!Stream
<1> QED
  BY <1>1, <1>2, <1>3, <1>4, <1>5, <1>6, <1>7, <1>8, <1>9, <1>10, <1>11, <1>12, <1>13, <1>14
  DEF Server!Next, Server!Loop, Server!Handle, Server!Await

(* The invariant holds in every reachable state.                             *)
THEOREM ServerInvariant == Server!SafeSpec => []ServerInv
<1> QED
  BY InitServer, ServerStep, PTL DEF Server!SafeSpec

(* serve: whatever the client pipelines, and however the tasks of its        *)
(* requests, drivers and closes interleave in the bounded channel, a         *)
(* session's commands never come before the reply that names it, nor the     *)
(* reply to a close before those to the prompts it interrupts; and only      *)
(* such a prompt ever has a second reply.                                    *)
THEOREM RepliesComeFirst == Server!SafeSpec => []RepliesFirst
<1>1. ServerInv => RepliesFirst
  BY DEF ServerInv, RepliesFirst
<1> QED
  BY <1>1, ServerInvariant, PTL
===============================================================================

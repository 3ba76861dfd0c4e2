-------------------------- MODULE TurnDriverProofs --------------------------
(***************************************************************************)
(* Theorems about TurnDriver, for any turns, capacities and page limits:   *)
(* the request ends once; a "completed" answer is whole, because whatever  *)
(* the fold has not yet been fed is on its way to it; and nothing is told  *)
(* or charged twice.                                                       *)
(***************************************************************************)
EXTENDS TurnDriver, FiniteSetTheorems, SequenceTheorems, TLAPS, WellFoundedInduction

Entries == [kind : {"view", "gap", "approval", "other"}, at : Nat]
Folds   == [settled : BOOLEAN, cursor : Nat, rev : [Items -> Nat],
            known : [Items -> Seq(Nat)], done : SUBSET Items,
            counted : SUBSET Nat, usage : Nat, total : Nat]
Outputs == [kind : {"none"}, item : {"none"}, text : {<<>>}]
             \union [kind : {"text"}, item : Items, text : Seq(Nat)]
             \union [kind : {"terminal"}, item : TurnEnds, text : {<<>>}]

(* An entry of the broadcast speaks of what the host has committed.          *)
Refers(s) == \A i \in 1..Len(s) :
  s[i].at <= Len(log) /\ (s[i].kind = "view" => s[i].at > 0)

(* The log is what was to be played, up to a turn/cancel.                    *)
Plays ==
  /\ Len(log) <= Len(script) /\ (turn # "over" => Len(log) < Len(script))
  /\ \A k \in 1..Len(log) :
       \/ log[k] = script[k] /\ (log[k].type \in Endings => turn = "over")
       \/ k = Len(log) /\ turn = "over" /\ log[k] = TurnEvent("cancelled", 0)

Typed ==
  /\ TypeOK
  /\ script \in Scripts /\ log \in Seq(Event) /\ Plays
  /\ ring \in Seq(Entries) /\ Refers(ring)
  /\ buffered \in Seq(Entries) /\ Refers(buffered)
  /\ fold \in Folds /\ pending \in Outputs /\ page \subseteq 1..Len(log)
  /\ sent \in [Items -> Seq(Nat)] /\ ended \in Seq(TurnEnds)

(* Where the driver is, what it holds there, and how it stops.               *)
Control ==
  /\ pc = "send" <=> pending # Silence
  /\ fold.settled => pending.kind = "terminal" \/ pc = "end"
  /\ InSetup \/ pc = "select" => buffered = <<>>
  /\ pc = "send" /\ back = "end" => pending.kind = "terminal"
  /\ pc = "cancel" => back = "loop" \/ (back = "end" /\ gone)

Closing ==
  /\ ended # <<>> => pc = "end"
  /\ pc = "end" /\ ended = <<>> => gone

(* A revision the fold holds came from the host, and the last one came with  *)
(* the whole text.                                                           *)
Sourced == \A i \in Items : fold.rev[i] = 0 \/
  \E j \in 1..Len(log) :
    log[j].type \in ItemObjects /\ log[j].item = i /\ log[j].rev = fold.rev[i]
Final == \A k \in 1..Len(log) :
  log[k].type = "item/completed" /\ fold.rev[log[k].item] = log[k].rev =>
    /\ log[k].item \in fold.done
    /\ fold.known[log[k].item] = Chunks(log[k].text) \/ log[k].text = 0

(* What was forwarded ends with what the fold takes the caller to know.      *)
Forwarded(i) == IF pending.kind = "text" /\ pending.item = i
                THEN sent[i] \o pending.text ELSE sent[i]
Shown == (gone /\ ended = <<>>) \/ \A i \in Items : EndsWith(Forwarded(i), fold.known[i])

FoldInv == Sourced /\ Final /\ Shown

(* Entries reach the driver in the order of the host's log.                  *)
Placed(e)    == e.kind \in {"view", "gap"}
Before(a, b) == Placed(a) /\ Placed(b) => a.at < b.at \/ (b.kind = "gap" /\ a.at = b.at)
Sorted(s)    == \A i, j \in 1..Len(s) : i < j => Before(s[i], s[j])
Across(s, t) == \A i \in 1..Len(s), j \in 1..Len(t) : Before(s[i], t[j])
UpTo(s, c)   == \A i \in 1..Len(s) : Placed(s[i]) => s[i].at <= c
Ordered ==
  /\ Sorted(buffered) /\ Sorted(ring) /\ Across(buffered, ring)
  /\ hole # NoHole => UpTo(buffered, hole) /\ UpTo(ring, hole)

(* An item the host has completed and the fold does not have is announced by *)
(* an entry, a hole or a lag, or is among the pages asked for.               *)
Unfed(k)    == log[k].type = "item/completed" /\ fold.rev[log[k].item] < log[k].rev
Held(s, k)  == \E i \in 1..Len(s) : \/ s[i].kind = "view" /\ s[i].at = k
                                    \/ s[i].kind = "gap" /\ s[i].at < k
Beyond(s, k) == \A i \in 1..Len(s) : Placed(s[i]) => s[i].at < k
InPage      == pc = "page" \/ (pc = "send" /\ back = "page")
Promised(k) ==
  \/ Held(buffered, k) \/ Held(ring, k)
  \/ hole # NoHole /\ hole < k
  \/ lagged /\ Beyond(buffered, k)
  \/ pc = "ask" /\ anchor < k
  \/ InPage /\ (k \in page \/ (more /\ anchor < k))

Running == ~Over /\ pending.kind # "terminal"
Coming == Running =>
  \A k \in 1..Len(log) : Unfed(k) =>
    /\ k > fold.cursor /\ Promised(k)
    /\ pc = "ask" => k > anchor
    /\ InPage => k \in page \/ k > anchor
Paged == InPage => \A k \in page : k <= anchor

(* A turn that is about to be, or was, called completed left nothing out.    *)
Whole ==
  pending = Terminal("completed") \/ ended = <<"completed">> =>
    turn = "over" /\ \A k \in 1..Len(log) : ~Unfed(k)

DeliveryInv == (InSetup => ~lagged) /\ Ordered /\ Coming /\ Paged /\ Whole
-----------------------------------------------------------------------------
(* The forwarded text, chunk by chunk.                                       *)

(* Ending with a text, element by element.                                   *)
LEMMA EndsWithMeans ==
  ASSUME NEW s \in Seq(Nat), NEW t \in Seq(Nat)
  PROVE  EndsWith(s, t) <=>
           /\ Len(t) <= Len(s)
           /\ \A i \in 1..Len(t) : s[Len(s) - Len(t) + i] = t[i]
<1> DEFINE d == Len(s) - Len(t)
<1>1. CASE ~(Len(t) <= Len(s))  BY <1>1 DEF EndsWith
<1>2. CASE Len(t) <= Len(s)
  <2>1. d \in Nat /\ d + Len(t) = Len(s)  BY <1>2
  <2>2. \A i \in (d+1)..Len(s) : s[i] \in Nat  BY <2>1
  <2>3. /\ SubSeq(s, d+1, Len(s)) \in Seq(Nat)
        /\ Len(SubSeq(s, d+1, Len(s))) = Len(t)
        /\ \A i \in 1..Len(t) : SubSeq(s, d+1, Len(s))[i] = s[d+i]
    <3>1. d + 1 \in Int /\ Len(s) \in Int  BY <2>1
    <3> HIDE DEF d
    <3>2. /\ SubSeq(s, d+1, Len(s)) \in Seq(Nat)
          /\ Len(SubSeq(s, d+1, Len(s))) = IF d+1 <= Len(s) THEN Len(s)-(d+1)+1 ELSE 0
          /\ \A i \in 1..Len(s)-(d+1)+1 : SubSeq(s, d+1, Len(s))[i] = s[(d+1)+i-1]
      BY <3>1, <2>2, SubSeqProperties
    <3>3. QED  BY <3>2, <2>1, SMTT(30)
  <2>4. ASSUME \A i \in 1..Len(t) : s[d+i] = t[i] PROVE SubSeq(s, d+1, Len(s)) = t
    BY <2>3, <2>4, SeqEqual
  <2>5. QED  BY <2>3, <2>4, <1>2 DEF EndsWith
<1>3. QED  BY <1>1, <1>2

(* What is appended to a text is appended to what it ends with.              *)
LEMMA EndsWithMore ==
  ASSUME NEW s \in Seq(Nat), NEW t \in Seq(Nat), NEW u \in Seq(Nat), EndsWith(s, t)
  PROVE  EndsWith(s \o u, t \o u)
<1>1. /\ Len(t) <= Len(s)
      /\ \A i \in 1..Len(t) : s[Len(s) - Len(t) + i] = t[i]
  BY EndsWithMeans
<1>2. /\ s \o u \in Seq(Nat) /\ Len(s \o u) = Len(s) + Len(u)
      /\ \A i \in 1..Len(s) + Len(u) :
           (s \o u)[i] = IF i <= Len(s) THEN s[i] ELSE u[i - Len(s)]
  BY ConcatProperties
<1>3. /\ t \o u \in Seq(Nat) /\ Len(t \o u) = Len(t) + Len(u)
      /\ \A i \in 1..Len(t) + Len(u) :
           (t \o u)[i] = IF i <= Len(t) THEN t[i] ELSE u[i - Len(t)]
  BY ConcatProperties
<1>4. Len(s) \in Nat /\ Len(t) \in Nat /\ Len(u) \in Nat  OBVIOUS
<1>5. ASSUME NEW i \in 1..Len(t) + Len(u)
      PROVE  (s \o u)[Len(s) + Len(u) - (Len(t) + Len(u)) + i] = (t \o u)[i]
  <2> DEFINE d == Len(s) - Len(t)
  <2>1. d \in Nat /\ Len(s) = Len(t) + d  BY <1>1, <1>4
  <2>2. Len(s) + Len(u) - (Len(t) + Len(u)) + i = d + i /\ d + i \in 1..Len(s) + Len(u)
    BY <2>1, <1>4
  <2>3. CASE i <= Len(t)
    BY <2>1, <2>2, <2>3, <1>1, <1>2, <1>3, <1>4
  <2>4. CASE ~(i <= Len(t))
    <3>1. d + i > Len(s) /\ d + i - Len(s) = i - Len(t)  BY <2>1, <2>4, <1>4
    <3> HIDE DEF d
    <3>2. (s \o u)[d + i] = u[d + i - Len(s)]  BY <3>1, <2>2, <1>2, <2>1, <1>4
    <3>3. (t \o u)[i] = u[i - Len(t)]  BY <2>4, <1>3, <1>4
    <3>4. QED  BY <3>1, <3>2, <3>3, <2>2
  <2>5. QED  BY <2>3, <2>4
<1>6. EndsWith(s \o u, t \o u) <=>
        /\ Len(t \o u) <= Len(s \o u)
        /\ \A i \in 1..Len(t \o u) : (s \o u)[Len(s \o u) - Len(t \o u) + i] = (t \o u)[i]
  <2> HIDE DEF EndsWith
  <2> DEFINE su == s \o u  tu == t \o u
  <2>1. su \in Seq(Nat) /\ tu \in Seq(Nat)  BY <1>2, <1>3
  <2> HIDE DEF su, tu
  <2>2. EndsWith(su, tu) <=>
        /\ Len(tu) <= Len(su)
        /\ \A i \in 1..Len(tu) : su[Len(su) - Len(tu) + i] = tu[i]
    BY <2>1, EndsWithMeans
  <2>3. QED  BY <2>2 DEF su, tu
<1>7. Len(t \o u) <= Len(s \o u)  BY <1>1, <1>2, <1>3, <1>4
<1>8. QED  BY <1>2, <1>3, <1>5, <1>6, <1>7

(* A text ends with what was appended to it, and with nothing.               *)
LEMMA EndsWithLast ==
  ASSUME NEW s \in Seq(Nat), NEW u \in Seq(Nat)
  PROVE  EndsWith(s \o u, u)
<1>1. /\ s \o u \in Seq(Nat) /\ Len(s \o u) = Len(s) + Len(u)
      /\ \A i \in 1..Len(s) + Len(u) :
           (s \o u)[i] = IF i <= Len(s) THEN s[i] ELSE u[i - Len(s)]
  BY ConcatProperties
<1>2. Len(s) \in Nat /\ Len(u) \in Nat  OBVIOUS
<1> DEFINE su == s \o u
<1>3. su \in Seq(Nat) /\ Len(su) = Len(s) + Len(u)  BY <1>1
<1>4. \A i \in 1..Len(u) : su[Len(su) - Len(u) + i] = u[i]
  <2> SUFFICES ASSUME NEW i \in 1..Len(u) PROVE su[Len(su) - Len(u) + i] = u[i]
    OBVIOUS
  <2>1. Len(su) - Len(u) + i = Len(s) + i /\ Len(s) + i - Len(s) = i
    BY <1>2, <1>3
  <2>2. su[Len(s) + i] = u[Len(s) + i - Len(s)]
    BY <1>1, <1>2
  <2>3. QED  BY <2>1, <2>2
<1> HIDE DEF su
<1>5. EndsWith(su, u) <=> /\ Len(u) <= Len(su)
                          /\ \A i \in 1..Len(u) : su[Len(su) - Len(u) + i] = u[i]
  BY <1>3, EndsWithMeans
<1>6. Len(u) <= Len(su)  BY <1>2, <1>3
<1>7. EndsWith(su, u)  BY <1>4, <1>5, <1>6
<1>8. QED  BY <1>7 DEF su

LEMMA EndsWithNothing ==
  ASSUME NEW s \in Seq(Nat)
  PROVE  EndsWith(s, <<>>)
<1>1. <<>> \in Seq(Nat) /\ Len(<<>>) = 0  OBVIOUS
<1>2. SubSeq(s, Len(s) - 0 + 1, Len(s)) = <<>>
  <2>1. Len(s) \in Nat  OBVIOUS
  <2>2. QED  BY <2>1, SubSeqEmpty
<1>3. QED  BY <1>1, <1>2 DEF EndsWith

(* A full object's text is as long as it says.                               *)
LEMMA ChunksType ==
  ASSUME NEW n \in Nat
  PROVE  Chunks(n) \in Seq(Nat) /\ Len(Chunks(n)) = n
<1>1. Chunks(n) \in [1..n -> Nat]  BY DEF Chunks
<1>2. QED  BY <1>1

(* The suffix that is forwarded completes what was known, or is all of it.   *)
LEMMA SuffixCompletes ==
  ASSUME NEW known \in Seq(Nat), NEW full \in Seq(Nat)
  PROVE  /\ Suffix(known, full) \in Seq(Nat)
         /\ Suffix(known, full) = <<>> => known = full \/ full = <<>>
         /\ \A s \in Seq(Nat) : EndsWith(s, known) /\ Suffix(known, full) # <<>> =>
              EndsWith(s \o Suffix(known, full), full)
<1>1. Len(known) \in Nat /\ Len(full) \in Nat  OBVIOUS
<1>2. CASE Len(known) <= Len(full) /\ SubSeq(full, 1, Len(known)) = known
  <2> DEFINE rest == SubSeq(full, Len(known) + 1, Len(full))
  <2>1. Suffix(known, full) = rest  BY <1>2 DEF Suffix
  <2>2. /\ rest \in Seq(Nat)
        /\ Len(rest) = Len(full) - Len(known)
        /\ \A i \in 1..Len(full) - Len(known) : rest[i] = full[Len(known) + i]
    <3>1. /\ rest \in Seq(Nat)
          /\ Len(rest) = IF Len(known)+1 <= Len(full) THEN Len(full)-(Len(known)+1)+1 ELSE 0
          /\ \A i \in 1..Len(full)-(Len(known)+1)+1 : rest[i] = full[(Len(known)+1)+i-1]
      <4>1. Len(known)+1 \in Int /\ Len(full) \in Int  BY <1>1
      <4>2. \A i \in Len(known)+1..Len(full) : full[i] \in Nat  BY <1>1
      <4>3. QED  BY <4>1, <4>2, SubSeqProperties
    <3> HIDE DEF rest
    <3>2. Len(rest) = Len(full) - Len(known)  BY <3>1, <1>1, <1>2
    <3>3. ASSUME NEW i \in 1..Len(full) - Len(known) PROVE rest[i] = full[Len(known) + i]
      <4>1. i \in 1..Len(full)-(Len(known)+1)+1 /\ (Len(known)+1)+i-1 = Len(known) + i
        BY <1>1
      <4>2. QED  BY <4>1, <3>1
    <3>4. QED  BY <3>1, <3>2, <3>3
  <2>3. \A i \in 1..Len(known) : known[i] = full[i]
    <3>1. \A i \in 1..Len(known) - 1 + 1 : SubSeq(full, 1, Len(known))[i] = full[1 + i - 1]
      <4>1. \A i \in 1..Len(known) : full[i] \in Nat  BY <1>1, <1>2
      <4>2. QED  BY <4>1, <1>1, SubSeqProperties
    <3>2. QED  BY <3>1, <1>1, <1>2
  <2>4. known \o rest = full
    <3>1. /\ known \o rest \in Seq(Nat) /\ Len(known \o rest) = Len(known) + Len(rest)
          /\ \A i \in 1..Len(known) + Len(rest) :
               (known \o rest)[i] = IF i <= Len(known) THEN known[i] ELSE rest[i - Len(known)]
      BY <2>2, ConcatProperties
    <3> HIDE DEF rest
    <3>2. Len(known \o rest) = Len(full)  BY <3>1, <2>2, <1>1, <1>2
    <3>3. ASSUME NEW i \in 1..Len(full) PROVE (known \o rest)[i] = full[i]
      <4>1. (known \o rest)[i] = IF i <= Len(known) THEN known[i] ELSE rest[i - Len(known)]
        BY <3>1, <2>2, <1>1, <1>2
      <4>2. CASE i <= Len(known)  BY <4>1, <4>2, <2>3, <1>1
      <4>3. CASE ~(i <= Len(known))
        <5> DEFINE j == i - Len(known)
        <5>1. j \in 1..Len(full) - Len(known) /\ Len(known) + j = i
          BY <4>3, <1>1, <1>2
        <5>2. (known \o rest)[i] = rest[j]  BY <4>1, <4>3
        <5> HIDE DEF j
        <5>3. rest[j] = full[Len(known) + j]  BY <5>1, <2>2
        <5>4. QED  BY <5>1, <5>2, <5>3
      <4>4. QED  BY <4>2, <4>3
    <3>4. QED  BY <3>1, <3>2, <3>3, SeqEqual
  <2> HIDE DEF rest
  <2>5. rest = <<>> => known = full
    <3>1. known \o <<>> = known  BY ConcatEmptySeq
    <3>2. QED  BY <3>1, <2>4
  <2>6. \A s \in Seq(Nat) : EndsWith(s, known) => EndsWith(s \o rest, full)
    BY <2>2, <2>4, EndsWithMore
  <2>7. QED  BY <2>1, <2>2, <2>5, <2>6
<1>3. CASE ~(Len(known) <= Len(full) /\ SubSeq(full, 1, Len(known)) = known)
  <2>1. Suffix(known, full) = full  BY <1>3 DEF Suffix
  <2>2. QED  BY <2>1, EndsWithLast
<1>4. QED  BY <1>2, <1>3
-----------------------------------------------------------------------------
(* What feeding one event does to a fold.                                    *)

(* Objects name an item, and an object has a revision.                       *)
Wellformed(e) ==
  /\ e \in Event
  /\ e.type \in Objects => e.item \in Items
  /\ e.type \in ItemObjects => e.rev > 0

(* From fold f to fold g, with what is forwarded: revisions only grow, a     *)
(* done item's text changes with its revision only, item/completed leaves    *)
(* the whole text, and the text forwarded keeps up with the text known.      *)
Extends(s, out, i) ==
  IF out.kind = "text" /\ out.item = i THEN s \o out.text ELSE s
Feeds(f, c, e, g, out) ==
  /\ g \in Folds /\ out \in Outputs
  /\ g.settled <=> f.settled \/ e.type \in Endings
  /\ out.kind = "terminal" <=> ~f.settled /\ e.type \in Endings
  /\ out = Terminal("completed") => e.type = "completed"
  /\ f.settled => g = f
  /\ ~f.settled => g.cursor = c
  /\ ~f.settled /\ e.type \in ItemObjects => g.rev[e.item] >= e.rev
  /\ \A i \in Items : g.rev[i] # f.rev[i] =>
       e.type \in ItemObjects /\ e.item = i /\ g.rev[i] = e.rev /\ f.rev[i] < e.rev
  /\ f.done \subseteq g.done
  /\ \A i \in f.done : g.rev[i] = f.rev[i] => g.known[i] = f.known[i]
  /\ \A i \in Items : e.type = "item/completed" /\ g.rev[i] # f.rev[i] =>
       i \in g.done /\ (g.known[i] = Chunks(e.text) \/ e.text = 0)
  /\ \A i \in Items, s \in Seq(Nat) :
       EndsWith(s, f.known[i]) => EndsWith(Extends(s, out, i), g.known[i])

(* A step that touches neither items nor what is known.                      *)
LEMMA FeedsNothing ==
  ASSUME NEW f \in Folds, NEW c \in Nat, NEW e, NEW g \in Folds, NEW out \in Outputs,
         ~f.settled, g.cursor = c, g.rev = f.rev, g.known = f.known, g.done = f.done,
         g.settled <=> e.type \in Endings, out.kind = "terminal" <=> e.type \in Endings,
         out.kind # "text",
         out = Terminal("completed") => e.type = "completed",
         e.type \in ItemObjects => f.rev[e.item] >= e.rev
  PROVE  Feeds(f, c, e, g, out)
<1>1. \A i \in Items : ~(g.rev[i] # f.rev[i])  OBVIOUS
<1>2. \A i \in Items, s \in Seq(Nat) : Extends(s, out, i) = s  BY DEF Extends
<1>3. QED  BY <1>1, <1>2 DEF Feeds

(* An object that is newer than the one the fold has.                        *)
LEMMA FeedsObject ==
  ASSUME NEW f \in Folds, NEW c \in Nat, NEW e, Wellformed(e), ~f.settled,
         e.type \in ItemObjects, f.rev[e.item] < e.rev,
         NEW at \in Folds, at = [f EXCEPT !.cursor = c]
  PROVE  Feeds(f, c, e, FeedItem(at, e).fold, FeedItem(at, e).out)
<1> DEFINE i == e.item
           full == Chunks(e.text)
           suffix == Suffix(f.known[i], full)
           text == IF suffix = <<>> THEN f.known[i] ELSE full
           g == [f EXCEPT !.cursor = c, !.rev[i] = e.rev, !.done = Finished(f, e),
                          !.known[i] = text]
           out == Text(i, suffix)
<1>1. /\ i \in Items /\ e.rev \in Nat /\ e.text \in Nat /\ e.type \notin Endings
      /\ e.type # "item/delta"
  BY DEF Wellformed, Event, Objects, Endings, TurnEnds, ItemObjects
<1>2. full \in Seq(Nat) /\ (full = <<>> => e.text = 0)  BY <1>1, ChunksType
<1>3. /\ f.known[i] \in Seq(Nat) /\ f.rev \in [Items -> Nat]
      /\ f.known \in [Items -> Seq(Nat)] /\ f.done \subseteq Items
      /\ f.settled \in BOOLEAN /\ f.counted \in SUBSET Nat /\ f.usage \in Nat
      /\ f.total \in Nat
  BY <1>1 DEF Folds
<1>4. /\ suffix \in Seq(Nat)
      /\ suffix = <<>> => f.known[i] = full \/ full = <<>>
      /\ \A s \in Seq(Nat) : EndsWith(s, f.known[i]) /\ suffix # <<>> =>
           EndsWith(s \o suffix, full)
  BY <1>2, <1>3, SuffixCompletes
<1>5. at.known = f.known /\ at.rev = f.rev /\ at.done = f.done /\ ~at.settled
  BY DEF Folds
<1>6. Finished(at, e) = Finished(f, e)  BY <1>5 DEF Finished
<1>7. FeedItem(at, e).out = out
  BY <1>5 DEF FeedItem, Newer
<1>8. FeedItem(at, e).fold = [at EXCEPT !.rev[i] = e.rev, !.done = Finished(f, e),
                                        !.known[i] = text]
  BY <1>5, <1>6 DEF FeedItem, Newer
<1> HIDE DEF full, suffix
<1>9. text \in Seq(Nat)  BY <1>2, <1>3
<1>10. Finished(f, e) \subseteq Items /\ f.done \subseteq Finished(f, e)
       /\ (e.type = "item/completed" => i \in Finished(f, e))
  BY <1>1, <1>3 DEF Finished
<1> HIDE DEF text
<1> DEFINE h == FeedItem(at, e).fold
<1>11. /\ h.settled = f.settled /\ h.cursor = c /\ h.done = Finished(f, e)
       /\ h.rev = [f.rev EXCEPT ![i] = e.rev]
       /\ h.known = [f.known EXCEPT ![i] = text]
       /\ h.counted = f.counted /\ h.usage = f.usage /\ h.total = f.total
  BY <1>8 DEF Folds
<1>12. h = [settled |-> h.settled, cursor |-> h.cursor, rev |-> h.rev, known |-> h.known,
            done |-> h.done, counted |-> h.counted, usage |-> h.usage,
            total |-> h.total]
  BY <1>8 DEF Folds
<1> HIDE DEF h
<1>13. h \in Folds
  <2>1. h.rev \in [Items -> Nat] /\ h.known \in [Items -> Seq(Nat)]
    BY <1>1, <1>3, <1>9, <1>11
  <2>2. h.settled \in BOOLEAN /\ h.cursor \in Nat /\ h.done \in SUBSET Items
        /\ h.counted \in SUBSET Nat /\ h.usage \in Nat /\ h.total \in Nat
    BY <1>3, <1>10, <1>11
  <2>3. QED  BY <2>1, <2>2, <1>12 DEF Folds
<1>14. /\ out \in Outputs /\ out.kind # "terminal" /\ out # Terminal("completed")
       /\ out.kind = "text" <=> suffix # <<>>
       /\ suffix # <<>> => out.item = i /\ out.text = suffix
  BY <1>1, <1>4 DEF Text, Silence, Terminal, Outputs
<1>15. \A j \in Items : h.rev[j] # f.rev[j] => j = i /\ h.rev[j] = e.rev
  BY <1>3, <1>11
<1>16. h.rev[i] = e.rev /\ h.known[i] = text  BY <1>1, <1>3, <1>11
<1>17. \A j \in f.done : h.rev[j] = f.rev[j] => h.known[j] = f.known[j]
  BY <1>1, <1>3, <1>11, <1>16
<1>18. text = full \/ e.text = 0  BY <1>2, <1>4 DEF text
<1>19. ASSUME NEW j \in Items, NEW s \in Seq(Nat), EndsWith(s, f.known[j])
       PROVE  EndsWith(Extends(s, out, j), h.known[j])
  <2>1. CASE j # i
    BY <2>1, <1>19, <1>3, <1>11, <1>14 DEF Extends
  <2>2. CASE j = i /\ suffix = <<>>
    BY <2>2, <1>19, <1>14, <1>16 DEF Extends, text
  <2>3. CASE j = i /\ suffix # <<>>
    BY <2>3, <1>19, <1>14, <1>16, <1>4 DEF Extends, text
  <2>4. QED  BY <2>1, <2>2, <2>3
<1> HIDE DEF out
<1>20. QED
  <2>1. h.settled <=> f.settled \/ e.type \in Endings  BY <1>1, <1>11
  <2>2. e.rev <= h.rev[e.item]  BY <1>1, <1>16
  <2>3. \A j \in Items : e.type = "item/completed" /\ h.rev[j] # f.rev[j] =>
          j \in h.done /\ (h.known[j] = Chunks(e.text) \/ e.text = 0)
    BY <1>10, <1>11, <1>15, <1>16, <1>18 DEF full
  <2>4. Feeds(f, c, e, h, out)
    BY <1>1, <1>10, <1>11, <1>13, <1>14, <1>15, <1>17, <1>19, <2>1, <2>2, <2>3 DEF Feeds
  <2>5. QED  BY <2>4, <1>7 DEF h

(* A delta of an item whose object the fold has, and is not done.            *)
LEMMA FeedsDelta ==
  ASSUME NEW f \in Folds, NEW c \in Nat, NEW e, Wellformed(e), ~f.settled,
         e.type = "item/delta", e.item \notin f.done,
         NEW g, g = [f EXCEPT !.cursor = c, !.known[e.item] = Append(@, e.text)],
         NEW out, out = Text(e.item, <<e.text>>)
  PROVE  Feeds(f, c, e, g, out)
<1> DEFINE i == e.item
           chunk == <<e.text>>
<1>1. /\ i \in Items /\ e.text \in Nat /\ e.type \notin Endings
      /\ e.type \notin ItemObjects /\ e.type # "item/completed"
  BY DEF Wellformed, Event, Objects, Endings, TurnEnds, ItemObjects
<1>2. chunk \in Seq(Nat) /\ chunk # <<>>  BY <1>1
<1>3. out = [kind |-> "text", item |-> i, text |-> chunk]  BY <1>2 DEF Text
<1>4. /\ out \in Outputs /\ out.kind = "text" /\ out.item = i /\ out.text = chunk
      /\ out # Terminal("completed")
  <2> HIDE DEF chunk
  <2>1. out \in [kind : {"text"}, item : Items, text : Seq(Nat)]  BY <1>1, <1>2, <1>3
  <2>2. Terminal("completed").kind # "text"  BY DEF Terminal
  <2>3. QED  BY <2>1, <2>2, <1>3 DEF Outputs
<1>5. /\ f.known[i] \in Seq(Nat) /\ f.known \in [Items -> Seq(Nat)]
      /\ f.rev \in [Items -> Nat] /\ f.done \subseteq Items
  BY <1>1 DEF Folds
<1>6. f.known[i] \o chunk = Append(f.known[i], e.text)
      /\ Append(f.known[i], e.text) \in Seq(Nat)
  BY <1>1, <1>5, AppendIsConcat, AppendProperties
<1>7. /\ g.settled = f.settled /\ g.cursor = c /\ g.rev = f.rev /\ g.done = f.done
      /\ g.known = [f.known EXCEPT ![i] = Append(f.known[i], e.text)]
  BY <1>1 DEF Folds
<1>8. g \in Folds
  <2>1. g.known \in [Items -> Seq(Nat)]
    <3> DEFINE more1 == Append(f.known[i], e.text)
    <3>1. more1 \in Seq(Nat) /\ g.known = [f.known EXCEPT ![i] = more1]  BY <1>6, <1>7
    <3> HIDE DEF more1
    <3>2. QED  BY <3>1, <1>5, ZenonT(30)
  <2>2. g = [f EXCEPT !.cursor = c, !.known = g.known]  BY <1>7 DEF Folds
  <2>3. QED  BY <2>1, <2>2 DEF Folds
<1> HIDE DEF chunk
<1>9. ASSUME NEW j \in Items, NEW s \in Seq(Nat), EndsWith(s, f.known[j])
      PROVE  EndsWith(Extends(s, out, j), g.known[j])
  <2>1. CASE j # i  BY <2>1, <1>9, <1>5, <1>7, <1>4 DEF Extends
  <2>2. CASE j = i
    <3>1. EndsWith(s \o chunk, f.known[i] \o chunk)
      BY <2>2, <1>9, <1>2, <1>5, EndsWithMore
    <3>2. Extends(s, out, j) = s \o chunk  BY <2>2, <1>4 DEF Extends
    <3>3. g.known[j] = Append(f.known[i], e.text)  BY <2>2, <1>1, <1>5, <1>7
    <3>4. QED  BY <3>1, <3>2, <3>3, <1>6
  <2>3. QED  BY <2>1, <2>2
<1>10. \A j \in f.done : g.known[j] = f.known[j]  BY <1>5, <1>7
<1>11. QED  BY <1>1, <1>4, <1>7, <1>8, <1>9, <1>10 DEF Feeds

(* A settled fold ignores what it is fed.                                    *)
LEMMA FeedsSettled ==
  ASSUME NEW f \in Folds, NEW c, NEW e, f.settled
  PROVE  Feeds(f, c, e, f, Silence)
<1>1. Silence \in Outputs /\ Silence.kind = "none" /\ Silence # Terminal("completed")
  BY DEF Silence, Outputs, Terminal
<1>2. \A i \in Items, s \in Seq(Nat) : Extends(s, Silence, i) = s  BY <1>1 DEF Extends
<1>3. QED  BY <1>1, <1>2 DEF Feeds

(* TurnFold::feed, whatever the event.                                       *)
LEMMA FeedFeeds ==
  ASSUME NEW f \in Folds, NEW c \in Nat, NEW e, Wellformed(e)
  PROVE  Feeds(f, c, e, Feed(f, c, e).fold, Feed(f, c, e).out)
<1> DEFINE at == [f EXCEPT !.cursor = c]
<1>1. /\ at \in Folds /\ at.settled = f.settled /\ at.cursor = c /\ at.rev = f.rev
      /\ at.known = f.known /\ at.done = f.done /\ at.counted = f.counted
      /\ at.usage = f.usage /\ f.counted \in SUBSET Nat /\ f.usage \in Nat
      /\ at.total = f.total /\ f.total \in Nat
  BY DEF Folds
<1>2. /\ e.type \in Objects \union Endings \union {"usage", "approval"}
      /\ e.item \in Items \union {"none"} /\ e.rev \in Nat /\ e.text \in Nat
      /\ e.type \in ItemObjects => e.item \in Items
  BY DEF Wellformed, Event, Objects
<1>3. Silence \in Outputs /\ Silence.kind = "none" /\ Silence # Terminal("completed")
  BY DEF Silence, Outputs, Terminal
<1>4. CASE f.settled  BY <1>4, FeedsSettled DEF Feed
<1>5. CASE ~f.settled /\ e.type \in ItemObjects
  <2>1. Feed(f, c, e) = FeedItem(at, e)
    BY <1>5 DEF Feed, ItemObjects, TurnEnds
  <2>2. CASE f.rev[e.item] < e.rev
    <3> HIDE DEF at
    <3>1. at = [f EXCEPT !.cursor = c]  BY DEF at
    <3>2. QED  BY <3>1, <2>1, <2>2, <1>1, <1>5, FeedsObject
  <2>3. CASE ~(f.rev[e.item] < e.rev)
    <3>1. FeedItem(at, e) = [fold |-> at, out |-> Silence]
      BY <2>3, <1>1, <1>2, <1>5 DEF FeedItem, Newer, Folds
    <3>2. f.rev[e.item] >= e.rev  BY <2>3, <1>2, <1>5 DEF Folds
    <3>3. e.type \notin Endings
      BY <1>5 DEF ItemObjects, Endings, TurnEnds
    <3> HIDE DEF at
    <3>4. Feeds(f, c, e, at, Silence)
      BY <3>2, <3>3, <1>1, <1>3, <1>5, FeedsNothing
    <3>5. QED  BY <3>1, <3>4, <2>1
  <2>4. QED  BY <2>2, <2>3
<1>6. CASE ~f.settled /\ e.type = "item/delta"
  <2>1. Feed(f, c, e) = FeedDelta(at, e)
    BY <1>6 DEF Feed, ItemObjects, TurnEnds
  <2>2. e.type \notin Endings /\ e.type \notin ItemObjects
    BY <1>6 DEF ItemObjects, Endings, TurnEnds
  <2>3. CASE e.item \in f.done \/ f.rev[e.item] = 0
    <3>1. FeedDelta(at, e) = [fold |-> at, out |-> Silence]  BY <2>3, <1>1 DEF FeedDelta
    <3> HIDE DEF at
    <3>2. Feeds(f, c, e, at, Silence)
      BY <2>2, <1>1, <1>3, <1>6, FeedsNothing
    <3>3. QED  BY <3>1, <3>2, <2>1
  <2>4. CASE e.item \notin f.done /\ f.rev[e.item] # 0
    <3> DEFINE g == [f EXCEPT !.cursor = c, !.known[e.item] = Append(@, e.text)]
               out == Text(e.item, <<e.text>>)
    <3>1. FeedDelta(at, e) = [fold |-> [at EXCEPT !.known[e.item] = Append(@, e.text)],
                              out |-> out]
      BY <2>4, <1>1 DEF FeedDelta
    <3>2. [at EXCEPT !.known[e.item] = Append(@, e.text)] = g  BY DEF Folds
    <3> HIDE DEF g, out
    <3>3. Feeds(f, c, e, g, out)
      <4>1. g = [f EXCEPT !.cursor = c, !.known[e.item] = Append(@, e.text)]  BY DEF g
      <4>2. out = Text(e.item, <<e.text>>)  BY DEF out
      <4>3. QED  BY <4>1, <4>2, <2>4, <1>6, FeedsDelta
    <3>4. Feed(f, c, e) = [fold |-> g, out |-> out]  BY <3>1, <3>2, <2>1
    <3>5. QED  BY <3>3, <3>4
  <2>5. QED  BY <2>3, <2>4
<1>7. CASE ~f.settled /\ e.type = "usage"
  <2>1. Feed(f, c, e) = FeedUsage(at, c, e)
    BY <1>7 DEF Feed, ItemObjects, TurnEnds
  <2>2. e.type \notin Endings /\ e.type \notin ItemObjects
    BY <1>7 DEF ItemObjects, Endings, TurnEnds
  <2>3. PICK g :
          /\ g \in {at, [at EXCEPT !.counted = @ \union {c}, !.usage = @ + e.text,
                                   !.total = IF e.rev > 0 THEN e.rev ELSE @]}
          /\ FeedUsage(at, c, e) = [fold |-> g, out |-> Silence]
    BY DEF FeedUsage
  <2>4. /\ g \in Folds /\ g.settled = f.settled /\ g.cursor = c /\ g.rev = f.rev
        /\ g.known = f.known /\ g.done = f.done
    <3>1. CASE g = at  BY <3>1, <1>1
    <3>2. CASE g = [at EXCEPT !.counted = @ \union {c}, !.usage = @ + e.text,
                              !.total = IF e.rev > 0 THEN e.rev ELSE @]
      <4> DEFINE seen == at.counted \union {c}
                 spent == at.usage + e.text
                 total == IF e.rev > 0 THEN e.rev ELSE at.total
      <4>1. seen \in SUBSET Nat /\ spent \in Nat /\ total \in Nat  BY <1>1, <1>2
      <4>2. g = [at EXCEPT !.counted = seen, !.usage = spent, !.total = total]
        BY <3>2
      <4> HIDE DEF seen, spent, total, at
      <4>3. QED  BY <4>1, <4>2, <1>1 DEF Folds
    <3>3. QED  BY <2>3, <3>1, <3>2
  <2>5. Feeds(f, c, e, g, Silence)  BY <2>2, <2>4, <1>3, <1>7, FeedsNothing
  <2>6. QED  BY <2>1, <2>3, <2>5
<1>8. CASE ~f.settled /\ e.type \in Endings
  <2>1. e.type # "item/delta" /\ e.type # "usage" /\ e.type \notin ItemObjects
    BY <1>8 DEF ItemObjects, Endings, TurnEnds
  <2>2. PICK o \in TurnEnds : /\ Feed(f, c, e) = Settle(at, o)
                              /\ o = "completed" => e.type = "completed"
    BY <2>1, <1>8 DEF Feed, Endings, TurnEnds
  <2> DEFINE g == [at EXCEPT !.settled = TRUE]
  <2>3. Feed(f, c, e).fold = g /\ Feed(f, c, e).out = Terminal(o)
    BY <2>2 DEF Settle
  <2>4. /\ g \in Folds /\ g.settled /\ g.cursor = c /\ g.rev = f.rev
        /\ g.known = f.known /\ g.done = f.done
    BY <1>1 DEF Folds
  <2>5. /\ Terminal(o) \in Outputs /\ Terminal(o).kind = "terminal"
        /\ Terminal(o) = Terminal("completed") => o = "completed"
    BY DEF Terminal, Outputs
  <2> HIDE DEF g
  <2>6. Feeds(f, c, e, g, Terminal(o))
    <3>1. Terminal(o).kind # "text"  BY DEF Terminal
    <3>2. QED  BY <3>1, <2>1, <2>2, <2>4, <2>5, <1>8, FeedsNothing
  <2>7. QED  BY <2>3, <2>6
<1>9. CASE ~f.settled /\ e.type = "approval"
  <2>1. Feed(f, c, e) = [fold |-> at, out |-> Silence]
    BY <1>9 DEF Feed, ItemObjects, TurnEnds
  <2>2. e.type \notin Endings /\ e.type \notin ItemObjects
    BY <1>9 DEF ItemObjects, Endings, TurnEnds
  <2> HIDE DEF at
  <2>3. Feeds(f, c, e, at, Silence)  BY <2>2, <1>1, <1>3, <1>9, FeedsNothing
  <2>4. QED  BY <2>1, <2>3
<1>10. QED  BY <1>2, <1>4, <1>5, <1>6, <1>7, <1>8, <1>9 DEF Objects
-----------------------------------------------------------------------------
(* The host's log and the broadcast.                                         *)

(* What every committed event is like: the one that ends the turn is the     *)
(* last, and item/completed has its item's highest revision.                 *)
LEMMA LogWell ==
  ASSUME Typed
  PROVE  /\ \A k \in 1..Len(log) : Wellformed(log[k])
         /\ \A k \in 1..Len(log) :
              log[k].type \in Endings => k = Len(log) /\ turn = "over"
         /\ \A j, k \in 1..Len(log) :
              /\ log[k].type = "item/completed" /\ j # k
              /\ log[j].type \in ItemObjects /\ log[j].item = log[k].item
              => log[j].rev < log[k].rev
<1>1. Playable(script) /\ Plays /\ log \in Seq(Event) /\ Len(log) \in Nat
  BY TurnDriverAssumption DEF Typed
<1>2. script \in Seq(Event) /\ Len(script) \in Nat  BY <1>1 DEF Playable
<1>3. \A k \in 1..Len(log) : k \in 1..Len(script) /\ script[k] \in Event /\ log[k] \in Event
  BY <1>1, <1>2 DEF Plays
<1>4. /\ TurnEvent("cancelled", 0).type = "cancelled"
      /\ "cancelled" \notin Objects /\ "cancelled" \notin ItemObjects
      /\ "item/completed" \in ItemObjects /\ "item/completed" \notin Endings
      /\ ItemObjects \subseteq Objects
  BY DEF TurnEvent, Objects, ItemObjects, Endings, TurnEnds
<1>5. ASSUME NEW k \in 1..Len(log) PROVE Wellformed(log[k])
  <2>1. CASE log[k] = script[k]
    BY <2>1, <1>1, <1>2, <1>3 DEF Playable, Wellformed
  <2>2. CASE log[k] = TurnEvent("cancelled", 0)
    BY <2>2, <1>3, <1>4 DEF Wellformed
  <2>3. QED  BY <2>1, <2>2, <1>1 DEF Plays
<1>6. ASSUME NEW k \in 1..Len(log), log[k].type \in Endings
      PROVE  k = Len(log) /\ turn = "over"
  <2>1. CASE log[k] = script[k] /\ turn = "over"
    <3>1. k = Len(script)  BY <2>1, <1>6, <1>1, <1>3 DEF Playable
    <3>2. QED  BY <3>1, <2>1, <1>1, <1>2 DEF Plays
  <2>2. QED  BY <2>1, <1>6, <1>1 DEF Plays
<1>7. ASSUME NEW j \in 1..Len(log), NEW k \in 1..Len(log),
             log[k].type = "item/completed", j # k,
             log[j].type \in ItemObjects, log[j].item = log[k].item
      PROVE  log[j].rev < log[k].rev
  <2>1. log[j] = script[j] /\ log[k] = script[k]  BY <1>7, <1>1, <1>4 DEF Plays
  <2>2. j \in 1..Len(script) \ {k} /\ k \in 1..Len(script)  BY <1>7, <1>3
  <2>3. QED  BY <2>1, <2>2, <1>7, <1>1 DEF Playable
<1>8. QED  BY <1>5, <1>6, <1>7

(* A step of the host that commits one event, or none.                       *)
Commits(e) ==
  /\ log' = Append(log, e) /\ script' = script
  /\ turn = "running"
  /\ \/ e = NextEvent /\ turn' = (IF e.type \in Endings THEN "over" ELSE turn)
     \/ e = TurnEvent("cancelled", 0) /\ turn' = "over"

LEMMA CommitTyped ==
  ASSUME Typed, NEW e, Commits(e)
  PROVE  /\ log' \in Seq(Event) /\ Len(log') = Len(log) + 1
         /\ \A k \in 1..Len(log) : log'[k] = log[k]
         /\ log'[Len(log) + 1] = e
         /\ Plays' /\ turn' \in {"running", "over"} /\ Len(log) \in Nat
<1>1. Playable(script) /\ Plays /\ log \in Seq(Event) /\ Len(log) \in Nat
  BY TurnDriverAssumption DEF Typed
<1>2. script \in Seq(Event) /\ Len(script) \in Nat /\ Len(log) < Len(script)
  BY <1>1 DEF Playable, Plays, Commits
<1>3. TurnEvent("cancelled", 0) \in Event /\ TurnEvent("cancelled", 0).type = "cancelled"
      /\ "cancelled" \in Endings
  BY DEF TurnEvent, Event, Endings, TurnEnds
<1>4. Len(log) + 1 \in 1..Len(script)  BY <1>1, <1>2
<1>5. e \in Event  BY <1>2, <1>3, <1>4 DEF Commits, NextEvent
<1>6. /\ log' \in Seq(Event) /\ Len(log') = Len(log) + 1
      /\ \A k \in 1..Len(log) : log'[k] = log[k]
      /\ log'[Len(log) + 1] = e
  BY <1>1, <1>5, AppendProperties DEF Commits
<1>7. turn' \in {"running", "over"} /\ script' = script  BY DEF Commits
<1>8. turn' # "over" => Len(log') < Len(script')
  <2>1. ASSUME turn' # "over" PROVE Len(log) + 1 # Len(script)
    BY <2>1, <1>1, <1>4 DEF Commits, NextEvent, Playable
  <2>2. QED  BY <2>1, <1>2, <1>4, <1>6, <1>7
<1>9. ASSUME NEW k \in 1..Len(log')
      PROVE  \/ log'[k] = script'[k] /\ (log'[k].type \in Endings => turn' = "over")
             \/ k = Len(log') /\ turn' = "over" /\ log'[k] = TurnEvent("cancelled", 0)
  <2>1. CASE k \in 1..Len(log)
    <3>1. log[k].type \notin Endings
      BY <2>1, LogWell DEF Commits
    <3>2. log[k] = script[k]  BY <2>1, <3>1, <1>1, <1>3 DEF Plays
    <3>3. QED  BY <2>1, <3>1, <3>2, <1>6, <1>7
  <2>2. CASE k = Len(log) + 1
    BY <2>2, <1>6, <1>7 DEF Commits, NextEvent
  <2>3. QED  BY <2>1, <2>2, <1>1, <1>6
<1>10. Len(log') <= Len(script')  BY <1>2, <1>6, <1>7
<1>11. QED  BY <1>1, <1>6, <1>7, <1>8, <1>9, <1>10 DEF Plays

(* broadcast::send: nothing, or what is left after d entries were dropped.   *)
Overruns(entries, d) ==
  LET all == ring \o entries
  IN  /\ Len(ring') = Len(all) - d /\ Len(ring') <= Ring
      /\ \A i \in 1..Len(all) - d : ring'[i] = all[i + d]
      /\ lagged' = (lagged \/ d > 0)
      /\ torn' = torn \union DeltasOf(SubSeq(all, 1, d))
      /\ d > 0 /\ InSetup => "lag" \in Faults

LEMMA PushMeans ==
  ASSUME Typed, NEW entries \in Seq(Entries), Push(entries)
  PROVE  \/ Over /\ UNCHANGED wireVars
         \/ /\ ~Over /\ ring' \in Seq(Entries)
            /\ \E d \in 0..Len(ring \o entries) : Overruns(entries, d)
<1> DEFINE all == ring \o entries
           d == IF Len(all) > Ring THEN Len(all) - Ring ELSE 0
<1>1. ring \in Seq(Entries) /\ Ring \in Nat \ {0} /\ all \in Seq(Entries) /\ Len(all) \in Nat
  BY TurnDriverAssumption, ConcatProperties DEF Typed
<1>2. d \in 0..Len(all) /\ Len(all) - d <= Ring
  <2> HIDE DEF all
  <2>1. QED  BY <1>1
<1>3. ASSUME ~Over
      PROVE  /\ ring' = SubSeq(all, d + 1, Len(all)) /\ lagged' = (lagged \/ d > 0)
             /\ torn' = torn \union DeltasOf(SubSeq(all, 1, d))
             /\ d > 0 /\ InSetup => "lag" \in Faults
  BY <1>3 DEF Push
<1>4. Over => UNCHANGED wireVars  BY DEF Push
<1> HIDE DEF all, d
<1>5. ASSUME ~Over
      PROVE  /\ ring' \in Seq(Entries) /\ Len(ring') = Len(all) - d
             /\ \A i \in 1..Len(all) - d : ring'[i] = all[i + d]
  <2>1. /\ ring' \in Seq(Entries)
        /\ Len(ring') = IF d+1 <= Len(all) THEN Len(all)-(d+1)+1 ELSE 0
        /\ \A i \in 1..Len(all)-(d+1)+1 : ring'[i] = all[(d+1)+i-1]
    <3>1. d + 1 \in Int /\ Len(all) \in Int /\ \A i \in d+1..Len(all) : all[i] \in Entries
      BY <1>1, <1>2
    <3> DEFINE left == SubSeq(all, d + 1, Len(all))
    <3>2. /\ left \in Seq(Entries)
          /\ Len(left) = IF d+1 <= Len(all) THEN Len(all)-(d+1)+1 ELSE 0
          /\ \A i \in 1..Len(all)-(d+1)+1 : left[i] = all[(d+1)+i-1]
      BY <3>1, SubSeqProperties
    <3>3. ring' = left  BY <1>3, <1>5
    <3> HIDE DEF left
    <3>4. QED  BY <3>2, <3>3
  <2>2. Len(ring') = Len(all) - d  BY <2>1, <1>1, <1>2
  <2>3. ASSUME NEW i \in 1..Len(all) - d PROVE ring'[i] = all[i + d]
    <3>1. i \in 1..Len(all)-(d+1)+1 /\ (d+1)+i-1 = i + d  BY <1>1, <1>2
    <3>2. QED  BY <3>1, <2>1
  <2>4. QED  BY <2>1, <2>2, <2>3
<1>6. ASSUME ~Over PROVE Overruns(entries, d)
  BY <1>2, <1>3, <1>5, <1>6 DEF Overruns, all
<1>7. QED  BY <1>2, <1>4, <1>5, <1>6 DEF all

(* Entries that refer to a log of n events.                                  *)
Fits(entries, n) ==
  /\ entries \in Seq(Entries)
  /\ \A i \in 1..Len(entries) :
       entries[i].at <= n /\ (entries[i].kind = "view" => entries[i].at > 0)

LEMMA OneFits ==
  ASSUME NEW n, NEW e \in Entries, e.at <= n, e.kind = "view" => e.at > 0
  PROVE  Fits(<<e>>, n)
<1>1. <<e>> \in Seq(Entries) /\ Len(<<e>>) = 1 /\ <<e>>[1] = e  OBVIOUS
<1>2. QED  BY <1>1 DEF Fits

LEMMA TwoFit ==
  ASSUME NEW n, NEW g \in Entries, g.at <= n, g.kind = "view" => g.at > 0,
         NEW e \in Entries, e.at <= n, e.kind = "view" => e.at > 0
  PROVE  Fits(<<g, e>>, n)
<1>1. /\ <<g, e>> \in Seq(Entries) /\ Len(<<g, e>>) = 2
      /\ <<g, e>>[1] = g /\ <<g, e>>[2] = e
  OBVIOUS
<1>2. QED  BY <1>1 DEF Fits

LEMMA FitsMore ==
  ASSUME NEW s, NEW n \in Nat, NEW m \in Nat, n <= m, Fits(s, n)
  PROVE  Fits(s, m)
<1>1. \A i \in 1..Len(s) : s[i] \in Entries  BY DEF Fits
<1>2. \A i \in 1..Len(s) : s[i].at \in Nat  BY <1>1 DEF Entries
<1>3. QED  BY <1>2 DEF Fits

(* The ring keeps its type when what is pushed refers to the new log.        *)
LEMMA PushTyped ==
  ASSUME Typed, log' \in Seq(Event), Len(log) <= Len(log'),
         \A k \in 1..Len(log') : log'[k].type = "item/delta" => log'[k].item \in Items,
         NEW entries, Push(entries), Fits(entries, Len(log'))
  PROVE  /\ ring' \in Seq(Entries) /\ Refers(ring)' /\ Len(ring') <= Ring
         /\ lagged' \in BOOLEAN /\ torn' \subseteq Items
<1> DEFINE all == ring \o entries
<1>1. /\ ring \in Seq(Entries) /\ Refers(ring) /\ Len(ring) <= Ring /\ log \in Seq(Event)
      /\ lagged \in BOOLEAN /\ torn \subseteq Items
  BY DEF Typed, TypeOK
<1>2. /\ all \in Seq(Entries) /\ Len(all) = Len(ring) + Len(entries)
      /\ \A i \in 1..Len(ring) + Len(entries) :
           all[i] = IF i <= Len(ring) THEN ring[i] ELSE entries[i - Len(ring)]
  BY <1>1, ConcatProperties DEF Fits
<1>3. ASSUME NEW i \in 1..Len(all)
      PROVE  all[i].at <= Len(log') /\ (all[i].kind = "view" => all[i].at > 0)
  <2>1. CASE i <= Len(ring)
    <3>1. all[i] = ring[i] /\ i \in 1..Len(ring)  BY <2>1, <1>2
    <3>2. ring[i] \in Entries /\ Len(log) \in Nat /\ Len(log') \in Nat  BY <3>1, <1>1
    <3>3. QED  BY <3>1, <3>2, <1>1 DEF Refers, Entries
  <2>2. CASE ~(i <= Len(ring))
    <3> DEFINE j == i - Len(ring)
    <3>1. j \in 1..Len(entries)  BY <2>2, <1>2, <1>1
    <3>2. all[i] = entries[j]  BY <2>2, <1>2
    <3> HIDE DEF j, all
    <3>3. QED  BY <3>1, <3>2 DEF Fits
  <2>3. QED  BY <2>1, <2>2
<1> HIDE DEF all
<1>4. CASE Over /\ UNCHANGED wireVars
  <2>1. ring' = ring /\ lagged' = lagged /\ torn' = torn  BY <1>4 DEF wireVars
  <2>2. Refers(ring)'
    <3> SUFFICES ASSUME NEW i \in 1..Len(ring)
                 PROVE  ring[i].at <= Len(log') /\ (ring[i].kind = "view" => ring[i].at > 0)
      BY <2>1 DEF Refers
    <3>1. i \in 1..Len(all) /\ all[i] = ring[i]  BY <1>1, <1>2
    <3>2. QED  BY <3>1, <1>3
  <2>3. QED  BY <2>1, <2>2, <1>1
<1>5. CASE ~Over /\ ring' \in Seq(Entries) /\ \E d \in 0..Len(all) : Overruns(entries, d)
  <2>1. PICK d \in 0..Len(all) : Overruns(entries, d)  BY <1>5
  <2>2. /\ Len(ring') = Len(all) - d /\ Len(ring') <= Ring
        /\ \A i \in 1..Len(all) - d : ring'[i] = all[i + d]
        /\ lagged' = (lagged \/ d > 0)
        /\ torn' = torn \union DeltasOf(SubSeq(all, 1, d))
    BY <2>1 DEF Overruns, all
  <2>3. Refers(ring)'
    <3> SUFFICES ASSUME NEW i \in 1..Len(ring')
                 PROVE  ring'[i].at <= Len(log') /\ (ring'[i].kind = "view" => ring'[i].at > 0)
      BY DEF Refers
    <3>1. i \in 1..Len(all) - d /\ i + d \in 1..Len(all)  BY <2>2, <1>2
    <3>2. QED  BY <3>1, <2>2, <1>3
  <2>4. DeltasOf(SubSeq(all, 1, d)) \subseteq Items
    <3> DEFINE lost == SubSeq(all, 1, d)
    <3>1. d \in Nat /\ \A i \in 1..d : i \in 1..Len(all) /\ all[i] \in Entries  BY <1>2
    <3>2. lost \in Seq(Entries) /\ Len(lost) = d /\ \A i \in 1..d : lost[i] = all[i]
      <4>1. /\ lost \in Seq(Entries) /\ Len(lost) = IF 1 <= d THEN d - 1 + 1 ELSE 0
            /\ \A i \in 1..d - 1 + 1 : lost[i] = all[1 + i - 1]
        BY <3>1, SubSeqProperties
      <4> HIDE DEF lost
      <4>2. QED  BY <4>1, <3>1
    <3> HIDE DEF lost
    <3>3. ASSUME NEW k \in DOMAIN lost, lost[k].kind = "view",
                 log'[lost[k].at].type = "item/delta"
          PROVE  log'[lost[k].at].item \in Items
      <4>1. k \in 1..d /\ lost[k] = all[k] /\ k \in 1..Len(all) /\ all[k] \in Entries
        BY <3>1, <3>2
      <4>2. all[k].at \in 1..Len(log')
        BY <4>1, <3>3, <1>3 DEF Entries
      <4>3. QED  BY <4>1, <4>2, <3>3
    <3>4. QED  BY <3>3 DEF DeltasOf, lost
  <2>5. QED  BY <1>5, <2>2, <2>3, <2>4, <1>1
<1>6. QED  BY <1>4, <1>5, PushMeans DEF all, Fits
-----------------------------------------------------------------------------
(* Type correctness.                                                         *)
Points == {"setup", "started", "error", "loop", "select", "send", "ask",
           "page", "decide", "cancel", "end"}

LEMMA GrowTyped ==
  ASSUME Typed, log' \in Seq(Event), Len(log) <= Len(log'), script' = script, Plays',
         turn' \in {"none", "running", "over"}, holes' \in 0..MaxHoles, parked' \in BOOLEAN,
         hole' \in {NoHole} \union 0..Len(log'),
         ring' \in Seq(Entries), Refers(ring)', Len(ring') <= Ring, lagged' \in BOOLEAN,
         torn' \subseteq Items,
         pc' \in Points, asked' \in BOOLEAN,
         UNCHANGED <<dead, back, fold, buffered, pending, pageVars, outVars, gone>>
  PROVE  Typed'
<1>1. Len(log) \in Nat /\ Len(log') \in Nat  BY DEF Typed
<1>2. Refers(buffered)'
  <2>1. Fits(buffered, Len(log)) /\ buffered' = buffered  BY DEF Typed, Refers, Fits
  <2>2. Fits(buffered, Len(log'))  BY <2>1, <1>1, FitsMore
  <2>3. QED  BY <2>1, <2>2 DEF Refers, Fits
<1>3. TypeOK' /\ page' \subseteq 1..Len(log')
  BY <1>1 DEF Typed, TypeOK, pageVars, outVars, Points
<1>4. QED  BY <1>2, <1>3 DEF Typed, outVars

LEMMA HostTyped ==
  ASSUME Typed, HostEvent \/ HostSkips \/ HostGap \/ OtherSession \/ CancelTurn
  PROVE  Typed'
<1>1. /\ TypeOK /\ log \in Seq(Event) /\ Len(log) \in Nat /\ pc \in Points /\ Plays
      /\ ring \in Seq(Entries) /\ Refers(ring) /\ MaxHoles \in Nat
      /\ hole \in {NoHole} \union 0..Len(log) /\ script \in Scripts
  BY TurnDriverAssumption DEF Typed, TypeOK, Points
<1>2. ASSUME log' \in Seq(Event), Len(log) <= Len(log'),
             \A k \in 1..Len(log') : k <= Len(log) => log'[k] = log[k],
             \A k \in 1..Len(log') : k > Len(log) =>
               (log'[k].type = "item/delta" => log'[k].item \in Items)
      PROVE  \A k \in 1..Len(log') : log'[k].type = "item/delta" => log'[k].item \in Items
  BY <1>1, <1>2, LogWell DEF Wellformed, Objects
<1>3. Approval \in Entries /\ Other \in Entries
      /\ Approval.at = 0 /\ Other.at = 0 /\ Approval.kind # "view" /\ Other.kind # "view"
  BY DEF Approval, Other, Entries
<1>4. \A c \in Nat : /\ View(c) \in Entries /\ View(c).at = c
                     /\ Gap(c) \in Entries /\ Gap(c).at = c /\ Gap(c).kind # "view"
  BY DEF View, Gap, Entries
<1>5. Playing => NextEvent \in Event
             /\ (NextEvent.type \in Objects => NextEvent.item \in Items)
  <2>1. ASSUME Playing PROVE Len(log) + 1 \in 1..Len(script) /\ Playable(script)
    BY <2>1, <1>1, TurnDriverAssumption DEF Playing, Plays, Playable
  <2>2. QED  BY <2>1 DEF NextEvent, Playable
<1>6. TurnEvent("cancelled", 0).type # "item/delta"  BY DEF TurnEvent
<1>7. CASE HostEvent
  <2>1. Commits(NextEvent)
    BY <1>7 DEF HostEvent, Playing, Commits
  <2>2. /\ log' \in Seq(Event) /\ Len(log') = Len(log) + 1
        /\ \A k \in 1..Len(log) : log'[k] = log[k]
        /\ log'[Len(log) + 1] = NextEvent
        /\ Plays' /\ turn' \in {"running", "over"}
    BY <2>1, CommitTyped
  <2>3. \A k \in 1..Len(log') : log'[k].type = "item/delta" => log'[k].item \in Items
    <3>1. Playing  BY <1>7 DEF HostEvent
    <3>2. QED  BY <3>1, <2>2, <1>1, <1>2, <1>5 DEF Objects
  <2> DEFINE e == IF NextEvent.type = "approval" THEN Approval ELSE View(Len(log) + 1)
  <2>4. e \in Entries /\ e.at <= Len(log') /\ (e.kind = "view" => e.at > 0)
    BY <2>2, <1>1, <1>3, <1>4
  <2>5. Push(<<e>>)  BY <1>7 DEF HostEvent
  <2> HIDE DEF e
  <2>6. Fits(<<e>>, Len(log')) /\ Len(log) <= Len(log')  BY <2>2, <2>4, <1>1, OneFits
  <2>7. /\ ring' \in Seq(Entries) /\ Refers(ring)' /\ Len(ring') <= Ring
        /\ lagged' \in BOOLEAN /\ torn' \subseteq Items
    BY <2>2, <2>3, <2>5, <2>6, PushTyped
  <2>8. hole' \in {NoHole} \union 0..Len(log')  BY <1>7, <1>1, <2>2 DEF HostEvent
  <2>9. /\ script' = script /\ holes' \in 0..MaxHoles /\ parked' \in BOOLEAN
        /\ UNCHANGED <<dead, driverVars, pageVars, outVars, gone>>
    BY <1>7, <1>1 DEF HostEvent, TypeOK
  <2>10. /\ pc' \in Points /\ asked' \in BOOLEAN
         /\ UNCHANGED <<dead, back, fold, buffered, pending, pageVars, outVars, gone>>
    BY <2>9, <1>1 DEF driverVars, TypeOK
  <2>11. Len(log) <= Len(log') /\ turn' \in {"none", "running", "over"}  BY <2>2, <1>1
  <2>12. QED  BY <2>2, <2>7, <2>8, <2>9, <2>10, <2>11, GrowTyped
<1>8. CASE HostSkips
  <2>1. Commits(NextEvent) /\ Playing
    BY <1>8 DEF HostSkips, Playing, Commits
  <2>2. /\ log' \in Seq(Event) /\ Len(log') = Len(log) + 1
        /\ \A k \in 1..Len(log) : log'[k] = log[k]
        /\ Plays' /\ turn' \in {"running", "over"}
    BY <2>1, CommitTyped
  <2>3. hole' \in {NoHole} \union 0..Len(log') /\ holes' \in 0..MaxHoles
    BY <1>8, <1>1, <2>2 DEF HostSkips, TypeOK
  <2>4. torn' \subseteq Items
    BY <1>8, <1>1, <1>5, <2>1 DEF HostSkips, TypeOK, Objects
  <2>5. /\ script' = script /\ parked' = parked /\ ring' = ring /\ lagged' = lagged
        /\ UNCHANGED <<dead, driverVars, pageVars, outVars, gone>>
    BY <1>8 DEF HostSkips
  <2>6. /\ pc' \in Points /\ asked' \in BOOLEAN /\ parked' \in BOOLEAN
        /\ lagged' \in BOOLEAN /\ Len(ring') <= Ring /\ ring' \in Seq(Entries)
        /\ UNCHANGED <<dead, back, fold, buffered, pending, pageVars, outVars, gone>>
    BY <2>5, <1>1 DEF driverVars, TypeOK
  <2>7. Refers(ring)'
    <3>1. Fits(ring, Len(log)) /\ Len(log) <= Len(log') /\ Len(log') \in Nat
      BY <1>1, <2>2 DEF Refers, Fits
    <3>2. Fits(ring, Len(log'))  BY <3>1, <1>1, FitsMore
    <3>3. QED  BY <3>2, <2>5 DEF Refers, Fits
  <2>8. Len(log) <= Len(log') /\ turn' \in {"none", "running", "over"}  BY <2>2, <1>1
  <2>9. QED  BY <2>2, <2>3, <2>4, <2>5, <2>6, <2>7, <2>8, GrowTyped
<1>9. CASE HostGap \/ OtherSession
  <2>1. /\ log' = log /\ script' = script /\ turn' = turn /\ holes' = holes
        /\ parked' = parked /\ hole' \in {NoHole, hole}
        /\ UNCHANGED <<dead, driverVars, pageVars, outVars, gone>>
    BY <1>9 DEF HostGap, OtherSession
  <2>2. PICK e \in Entries : Push(<<e>>) /\ e.at <= Len(log) /\ e.kind # "view"
    <3>1. CASE HostGap
      <4>1. hole \in Nat /\ hole <= Len(log) /\ Push(<<Gap(hole)>>)
        BY <3>1, <1>1 DEF HostGap, NoHole
      <4>2. QED  BY <4>1, <1>4
    <3>2. CASE OtherSession  BY <3>2, <1>1, <1>3 DEF OtherSession
    <3>3. QED  BY <1>9, <3>1, <3>2
  <2>3. Fits(<<e>>, Len(log'))  BY <2>1, <2>2, OneFits
  <2>4. \A k \in 1..Len(log') : log'[k].type = "item/delta" => log'[k].item \in Items
    BY <2>1, <1>1, <1>2
  <2>5. Len(log) <= Len(log') /\ log' \in Seq(Event)  BY <2>1, <1>1
  <2>6. /\ ring' \in Seq(Entries) /\ Refers(ring)' /\ Len(ring') <= Ring
        /\ lagged' \in BOOLEAN /\ torn' \subseteq Items
    BY <2>2, <2>3, <2>4, <2>5, PushTyped
  <2>7. /\ Plays' /\ turn' \in {"none", "running", "over"} /\ holes' \in 0..MaxHoles
        /\ parked' \in BOOLEAN /\ hole' \in {NoHole} \union 0..Len(log')
        /\ pc' \in Points /\ asked' \in BOOLEAN
        /\ UNCHANGED <<dead, back, fold, buffered, pending, pageVars, outVars, gone>>
    BY <2>1, <1>1 DEF driverVars, TypeOK, Plays
  <2>8. QED  BY <2>1, <2>5, <2>6, <2>7, GrowTyped
<1>10. CASE CancelTurn
  <2>1. /\ UNCHANGED <<script, holes, dead, back, fold, buffered, pending, pageVars,
                       outVars, gone>>
        /\ asked' = TRUE /\ pc' = back /\ HostCancels
    BY <1>10 DEF CancelTurn
  <2>2. pc' \in Points /\ asked' \in BOOLEAN /\ holes' \in 0..MaxHoles
    BY <2>1, <1>1 DEF TypeOK, Points
  <2>3. CASE dead \/ turn # "running"
    <3>1. UNCHANGED <<log, turn, parked, hole, wireVars>>  BY <2>1, <2>3 DEF HostCancels
    <3>2. /\ Plays' /\ Refers(ring)' /\ log' \in Seq(Event) /\ Len(log) <= Len(log')
          /\ turn' \in {"none", "running", "over"}
          /\ parked' \in BOOLEAN /\ hole' \in {NoHole} \union 0..Len(log')
          /\ ring' \in Seq(Entries) /\ Len(ring') <= Ring /\ lagged' \in BOOLEAN
          /\ torn' \subseteq Items
      BY <3>1, <2>1, <1>1 DEF wireVars, TypeOK, Plays, Refers
    <3>3. QED  BY <3>2, <2>1, <2>2, GrowTyped
  <2>4. CASE ~(dead \/ turn # "running")
    <3> DEFINE entries == IF hole = NoHole THEN <<View(Len(log) + 1)>>
                          ELSE <<Gap(hole), View(Len(log) + 1)>>
    <3>1. /\ Commits(TurnEvent("cancelled", 0)) /\ parked' = FALSE /\ hole' = NoHole
          /\ Push(entries)
      BY <2>1, <2>4 DEF HostCancels, Commits
    <3>2. /\ log' \in Seq(Event) /\ Len(log') = Len(log) + 1
          /\ \A k \in 1..Len(log) : log'[k] = log[k]
          /\ log'[Len(log) + 1] = TurnEvent("cancelled", 0)
          /\ Plays' /\ turn' \in {"running", "over"}
      BY <3>1, CommitTyped
    <3>3. \A k \in 1..Len(log') : log'[k].type = "item/delta" => log'[k].item \in Items
      BY <3>2, <1>1, <1>2, <1>6
    <3>4. View(Len(log) + 1) \in Entries /\ View(Len(log) + 1).at = Len(log) + 1
      BY <1>1, <1>4
    <3>5. View(Len(log) + 1).at <= Len(log') /\ View(Len(log) + 1).at > 0
      BY <3>2, <3>4, <1>1
    <3>6. hole # NoHole => Gap(hole) \in Entries /\ Gap(hole).at <= Len(log')
                          /\ Gap(hole).kind # "view"
      BY <3>2, <1>1, <1>4
    <3>7. Fits(entries, Len(log'))  BY <3>4, <3>5, <3>6, OneFits, TwoFit
    <3> HIDE DEF entries
    <3>8. /\ ring' \in Seq(Entries) /\ Refers(ring)' /\ Len(ring') <= Ring
          /\ lagged' \in BOOLEAN /\ torn' \subseteq Items
      BY <3>1, <3>2, <3>3, <3>7, <1>1, PushTyped
    <3>9. /\ Len(log) <= Len(log') /\ turn' \in {"none", "running", "over"}
          /\ parked' \in BOOLEAN /\ hole' \in {NoHole} \union 0..Len(log')
      <4>1. Len(log) <= Len(log')  BY <3>2, <1>1
      <4>2. QED  BY <4>1, <3>1, <3>2
    <3>10. QED  BY <3>2, <3>8, <3>9, <2>1, <2>2, GrowTyped
  <2>5. QED  BY <2>3, <2>4
<1>11. QED  BY <1>7, <1>8, <1>9, <1>10
(* Feeding the event at cursor c.                                            *)
LEMMA FeedAtFeeds ==
  ASSUME Typed, NEW c \in 1..Len(log), NEW resume, FeedAt(c, resume)
  PROVE  /\ Feeds(fold, c, log[c], fold', pending')
         /\ back' = resume
         /\ pc' = IF pending' = Silence THEN resume ELSE "send"
         /\ Wellformed(log[c]) /\ c \in Nat
<1>1. fold \in Folds /\ Wellformed(log[c]) /\ c \in Nat
  <2>1. fold \in Folds  BY DEF Typed
  <2>2. \A k \in 1..Len(log) : Wellformed(log[k])
    <3> HIDE DEF Typed
    <3>1. QED  BY LogWell
  <2>3. Wellformed(log[c])  BY <2>2
  <2>4. c \in Nat  OBVIOUS
  <2>5. QED  BY <2>1, <2>3, <2>4
<1>2. fold' = Feed(fold, c, log[c]).fold /\ pending' = Feed(fold, c, log[c]).out
  BY DEF FeedAt, Emit
<1>3. Feeds(fold, c, log[c], fold', pending')  BY <1>1, <1>2, FeedFeeds
<1>4. QED  BY <1>1, <1>2, <1>3 DEF FeedAt, Emit

(* Taking the first entry, and driving it.                                   *)
LEMMA TakeTyped ==
  ASSUME NEW s \in Seq(Entries), s # <<>>, Refers(s)
  PROVE  /\ Head(s) \in Entries /\ Head(s).at <= Len(log) /\ Head(s) = s[1]
         /\ Head(s).kind = "view" => Head(s).at \in 1..Len(log)
         /\ Tail(s) \in Seq(Entries) /\ Len(Tail(s)) = Len(s) - 1 /\ Len(s) \in Nat \ {0}
         /\ \A i \in 1..Len(Tail(s)) : Tail(s)[i] = s[i + 1]
         /\ Refers(Tail(s))
<1>1. Len(s) \in Nat \ {0} /\ Head(s) = s[1]  OBVIOUS
<1>2. /\ Head(s) \in Entries
      /\ Tail(s) \in Seq(Entries) /\ Len(Tail(s)) = Len(s) - 1
      /\ \A i \in 1..Len(Tail(s)) : Tail(s)[i] = s[i + 1]
  BY HeadTailProperties
<1>3. Head(s).at <= Len(log) /\ (Head(s).kind = "view" => Head(s).at > 0)
  <2>1. 1 \in 1..Len(s)  BY <1>1
  <2>2. QED  BY <2>1, <1>1 DEF Refers
<1>4. Head(s).kind = "view" => Head(s).at \in 1..Len(log)
  <2>1. Head(s).at \in Nat  BY <1>2 DEF Entries
  <2>2. QED  BY <2>1, <1>3
<1>5. Refers(Tail(s))
  <2>1. \A i \in 1..Len(Tail(s)) : i + 1 \in 1..Len(s)  BY <1>1, <1>2
  <2>2. QED  BY <2>1, <1>2 DEF Refers
<1>6. QED  BY <1>1, <1>2, <1>3, <1>4, <1>5

LEMMA EmitTyped ==
  ASSUME NEW out \in Outputs, NEW resume \in {"loop", "page", "end"}, Emit(out, resume)
  PROVE  pending' \in Outputs /\ back' \in {"loop", "page", "end"} /\ pc' \in Points
BY DEF Emit, Points

LEMMA Emittable == Silence \in Outputs /\ Terminal("failed") \in Outputs
BY DEF Silence, Terminal, Outputs, TurnEnds

LEMMA DriveTyped ==
  ASSUME Typed, NEW e \in Entries, e.at <= Len(log),
         e.kind = "view" => e.at \in 1..Len(log), DriveEvent(e)
  PROVE  /\ fold' \in Folds /\ fold'.cursor \in 0..Len(log) /\ fold'.done \subseteq Items
         /\ pending' \in Outputs /\ back' \in {"loop", "page", "end"} /\ pc' \in Points
         /\ page' \subseteq 1..Len(log) /\ more' \in BOOLEAN
         /\ pages' \in 0..MaxPages /\ anchor' \in 0..Len(log)
<1>1. /\ fold \in Folds /\ fold.cursor \in 0..Len(log) /\ fold.done \subseteq Items
      /\ pending \in Outputs /\ back \in {"loop", "page", "end"}
      /\ page \subseteq 1..Len(log) /\ more \in BOOLEAN /\ pages \in 0..MaxPages
      /\ anchor \in 0..Len(log) /\ Len(log) \in Nat
      /\ MaxPages \in Nat \ {0}
  BY TurnDriverAssumption DEF Typed, TypeOK
<1>2. CASE e.kind = "view" /\ FeedAt(e.at, "loop") /\ UNCHANGED pageVars
  <2>1. /\ Feeds(fold, e.at, log[e.at], fold', pending') /\ back' = "loop"
        /\ pc' = IF pending' = Silence THEN "loop" ELSE "send"
    BY <1>2, FeedAtFeeds
  <2>2. /\ fold' \in Folds /\ pending' \in Outputs
        /\ fold'.cursor = e.at \/ fold' = fold
    BY <2>1 DEF Feeds
  <2>3. QED  BY <2>1, <2>2, <1>1, <1>2 DEF pageVars, Folds, Points
<1>3. CASE e.kind = "other" /\ Emit(Silence, "loop") /\ UNCHANGED <<fold, pageVars>>
  <2>1. pending' \in Outputs /\ back' \in {"loop", "page", "end"} /\ pc' \in Points
    BY <1>3, Emittable, EmitTyped
  <2>2. QED  BY <2>1, <1>1, <1>3 DEF pageVars
<1>4. CASE e.kind = "gap" /\ AskPages(e.at) /\ UNCHANGED <<fold, pending, back>>
  <2>1. e.at \in 0..Len(log)  BY <1>1 DEF Entries
  <2>2. pages' \in 0..MaxPages /\ page' \subseteq 1..Len(log) /\ more' \in BOOLEAN
    <3>1. 0 \in 0..MaxPages  BY <1>1
    <3>2. pages' = 0 /\ page' = {} /\ more' = FALSE  BY <1>4 DEF AskPages
    <3>3. QED  BY <3>1, <3>2
  <2>3. anchor' \in 0..Len(log) /\ pc' \in Points  BY <2>1, <1>4 DEF AskPages, Points
  <2>4. fold' = fold /\ pending' = pending /\ back' = back  BY <1>4
  <2>5. QED  BY <2>2, <2>3, <2>4, <1>1
<1>5. CASE e.kind = "approval" /\ pc' = "decide" /\ UNCHANGED <<fold, pending, back, pageVars>>
  BY <1>1, <1>5 DEF pageVars, Points
<1>6. QED  BY <1>2, <1>3, <1>4, <1>5 DEF DriveEvent

(* Steps that leave the host's log alone.                                    *)
LEMMA StillTyped ==
  ASSUME Typed, UNCHANGED <<script, log, hole, holes, torn>>,
         turn' \in {"running", turn}, turn = "none" \/ turn' = turn,
         parked' \in BOOLEAN, dead' \in BOOLEAN, gone' \in BOOLEAN, asked' = asked,
         ring' \in Seq(Entries), Refers(ring'), Len(ring') <= Ring, lagged' \in BOOLEAN,
         buffered' \in Seq(Entries), Refers(buffered'),
         fold' \in Folds, fold'.cursor \in 0..Len(log), fold'.done \subseteq Items,
         pending' \in Outputs, back' \in {"loop", "page", "end"}, pc' \in Points,
         page' \subseteq 1..Len(log), more' \in BOOLEAN,
         pages' \in 0..MaxPages, anchor' \in 0..Len(log),
         queue' \in 0..Depth, sent' \in [Items -> Seq(Nat)], ended' \in Seq(TurnEnds)
  PROVE  Typed'
<1>1. TypeOK'  BY DEF Typed, TypeOK, Points
<1>2. Plays'
  <2>1. Plays  BY DEF Typed
  <2>2. \A k \in 1..Len(log) : log[k].type \in Endings => turn = "over"  BY LogWell
  <2>3. turn' # "over" => turn # "over"  OBVIOUS
  <2>4. turn = "over" => turn' = "over"  OBVIOUS
  <2>5. QED  BY <2>1, <2>2, <2>3, <2>4 DEF Plays
<1>3. Refers(ring)' /\ Refers(buffered)'  BY DEF Refers
<1>4. QED  BY <1>1, <1>2, <1>3 DEF Typed
(* The turn has not begun before turn/start.                                 *)
Fresh == back \in {"loop", "page", "end"} /\ (pc = "setup" => turn = "none")

LEMMA FreshStep ==
  ASSUME Fresh, [Next]_vars
  PROVE  Fresh'
<1> USE DEF Fresh, hostVars, wireVars, driverVars, pageVars, outVars
<1>1. CASE UNCHANGED vars  BY <1>1 DEF vars
<1>2. CASE Host \/ OtherSession \/ HostDies
  BY <1>2 DEF Host, HostEvent, HostSkips, HostGap, OtherSession, HostDies, Playing
<1>3. CASE Setup  BY <1>3 DEF Setup, StartTurn, SetupFails, Acked
<1>4. CASE ClientReads \/ ClientLeaves \/ SetupDropped
  BY <1>4 DEF ClientReads, ClientLeaves, SetupDropped
<1>5. CASE DriveBuffered \/ SelectEvent
  BY <1>5 DEF DriveBuffered, SelectEvent, DriveEvent, FeedAt, Emit, AskPages
<1>6. CASE FeedPage \/ SelectDead \/ PagingFails
  BY <1>6 DEF FeedPage, SelectDead, PagingFails, FeedAt, Emit
<1>7. CASE LoopTop \/ SelectCancelled \/ SelectLagged \/ Send \/ PageArrives \/ PageDone
  BY <1>7 DEF LoopTop, SelectCancelled, SelectLagged, AskPages, Send, AfterSend,
              PageArrives, PageDone
<1>8. CASE Decide \/ CancelTurn  BY <1>8 DEF Decide, CancelTurn
<1>9. QED  BY <1>1, <1>2, <1>3, <1>4, <1>5, <1>6, <1>7, <1>8 DEF Next, Driver

(* The driver's steps, and the caller's.                                     *)
LEMMA DriverTyped ==
  ASSUME Typed, Fresh,
         \/ HostDies \/ Setup \/ DriveBuffered \/ LoopTop \/ SelectCancelled \/ SelectDead
         \/ SelectEvent \/ SelectLagged \/ Send \/ PageArrives \/ PagingFails
         \/ FeedPage \/ PageDone \/ Decide
         \/ ClientReads \/ ClientLeaves \/ SetupDropped
  PROVE  Typed'
<1>1. /\ fold \in Folds /\ fold.cursor \in 0..Len(log) /\ fold.done \subseteq Items
      /\ pending \in Outputs /\ back \in {"loop", "page", "end"} /\ pc \in Points
      /\ page \subseteq 1..Len(log) /\ more \in BOOLEAN /\ pages \in 0..MaxPages
      /\ anchor \in 0..Len(log) /\ Len(log) \in Nat
      /\ MaxPages \in Nat \ {0} /\ Depth \in Nat \ {0} /\ Ring \in Nat \ {0}
  BY TurnDriverAssumption DEF Typed, TypeOK, Points
<1>2. /\ parked \in BOOLEAN /\ dead \in BOOLEAN /\ gone \in BOOLEAN /\ asked \in BOOLEAN
      /\ lagged \in BOOLEAN /\ queue \in 0..Depth /\ sent \in [Items -> Seq(Nat)]
      /\ ended \in Seq(TurnEnds) /\ turn \in {"none", "running", "over"}
      /\ ring \in Seq(Entries) /\ Refers(ring) /\ Len(ring) <= Ring
      /\ buffered \in Seq(Entries) /\ Refers(buffered)
  BY DEF Typed, TypeOK
<1> USE DEF hostVars, wireVars, driverVars, pageVars, outVars
<1>3. CASE HostDies
  BY <1>1, <1>2, <1>3, StillTyped DEF HostDies
<1>4. CASE StartTurn
  <2>1. turn' = "running" /\ turn \in {"none", "running", "over"}  BY <1>4, <1>2 DEF StartTurn
  <2>2. turn = "none" \/ turn' = turn  BY <1>4 DEF Fresh, StartTurn
  <2>3. /\ pc' = "started"
        /\ UNCHANGED <<script, log, hole, holes, parked, wireVars, dead, back, fold,
                       buffered, pending, asked, pageVars, outVars, gone>>
    BY <1>4 DEF StartTurn
  <2>4. pc' \in Points /\ turn' \in {"running", turn}  BY <2>1, <2>3 DEF Points
  <2>5. QED  BY <2>2, <2>3, <2>4, <1>1, <1>2, StillTyped
<1>5. CASE SetupFails  BY <1>1, <1>2, <1>5, StillTyped DEF SetupFails, Points
<1>6. CASE Acked
  <2>1. /\ buffered' \in {<<>>, ring} /\ ring' \in {ring, <<>>}
        /\ lagged' = FALSE /\ pc' = "loop"
        /\ UNCHANGED <<hostVars, torn, dead, back, fold, pending, asked, pageVars,
                       outVars, gone>>
    BY <1>6 DEF Acked
  <2>2. <<>> \in Seq(Entries) /\ Refers(<<>>) /\ Len(<<>>) = 0  BY DEF Refers
  <2>3. /\ buffered' \in Seq(Entries) /\ Refers(buffered')
        /\ ring' \in Seq(Entries) /\ Refers(ring') /\ Len(ring') <= Ring
    <3>1. Len(<<>>) <= Ring  BY <2>2, <1>1
    <3>2. CASE buffered' = ring /\ ring' = <<>>  BY <3>1, <3>2, <2>2, <1>2
    <3>3. CASE buffered' = <<>> /\ ring' = ring  BY <3>3, <2>2, <1>2
    <3>4. QED  BY <3>2, <3>3, <1>6 DEF Acked
  <2>4. QED  BY <2>1, <2>3, <1>1, <1>2, StillTyped DEF Points
<1>7. CASE DriveBuffered
  <2>1. /\ buffered # <<>> /\ buffered' = Tail(buffered) /\ DriveEvent(Head(buffered))
        /\ UNCHANGED <<hostVars, wireVars, dead, asked, outVars, gone>>
    BY <1>7 DEF DriveBuffered
  <2>2. /\ Head(buffered) \in Entries /\ Head(buffered).at <= Len(log)
        /\ Head(buffered).kind = "view" => Head(buffered).at \in 1..Len(log)
        /\ buffered' \in Seq(Entries) /\ Refers(buffered')
    BY <2>1, <1>2, TakeTyped
  <2>3. /\ fold' \in Folds /\ fold'.cursor \in 0..Len(log) /\ fold'.done \subseteq Items
        /\ pending' \in Outputs /\ back' \in {"loop", "page", "end"} /\ pc' \in Points
        /\ page' \subseteq 1..Len(log) /\ more' \in BOOLEAN
        /\ pages' \in 0..MaxPages /\ anchor' \in 0..Len(log)
    BY <2>1, <2>2, DriveTyped
  <2>4. QED  BY <2>1, <2>2, <2>3, <1>2, StillTyped
<1>8. CASE LoopTop \/ SelectCancelled \/ PageDone
  <2>1. /\ UNCHANGED <<hostVars, wireVars, dead, fold, buffered, pending, asked,
                       pageVars, outVars, gone>>
        /\ pc' \in Points /\ back' \in {"loop", "page", "end"}
    BY <1>1, <1>8 DEF LoopTop, SelectCancelled, PageDone, Points
  <2>2. QED  BY <2>1, <1>1, <1>2, StillTyped
<1>9. CASE SelectDead \/ PagingFails
  <2>1. /\ Emit(Terminal("failed"), "end")
        /\ UNCHANGED <<hostVars, wireVars, dead, fold, buffered, asked, pageVars,
                       outVars, gone>>
    BY <1>9 DEF SelectDead, PagingFails
  <2>2. pending' \in Outputs /\ back' \in {"loop", "page", "end"} /\ pc' \in Points
    BY <2>1, Emittable, EmitTyped
  <2>3. QED  BY <2>1, <2>2, <1>1, <1>2, StillTyped
<1>10. CASE SelectEvent
  <2>1. /\ ring # <<>> /\ ring' = Tail(ring) /\ DriveEvent(Head(ring))
        /\ UNCHANGED <<hostVars, lagged, torn, dead, buffered, asked, outVars, gone>>
    BY <1>10 DEF SelectEvent
  <2>2. /\ Head(ring) \in Entries /\ Head(ring).at <= Len(log)
        /\ Head(ring).kind = "view" => Head(ring).at \in 1..Len(log)
        /\ ring' \in Seq(Entries) /\ Refers(ring')
        /\ Len(ring') = Len(ring) - 1 /\ Len(ring) \in Nat
    BY <2>1, <1>2, TakeTyped
  <2>3. /\ fold' \in Folds /\ fold'.cursor \in 0..Len(log) /\ fold'.done \subseteq Items
        /\ pending' \in Outputs /\ back' \in {"loop", "page", "end"} /\ pc' \in Points
        /\ page' \subseteq 1..Len(log) /\ more' \in BOOLEAN
        /\ pages' \in 0..MaxPages /\ anchor' \in 0..Len(log)
    BY <2>1, <2>2, DriveTyped
  <2>4. Len(ring') <= Ring  BY <2>2, <1>1, <1>2
  <2>5. QED  BY <2>1, <2>2, <2>3, <2>4, <1>2, StillTyped
<1>11. CASE SelectLagged
  <2>1. /\ lagged' = FALSE /\ pc' = "ask" /\ anchor' = fold.cursor /\ pages' = 0
        /\ page' = {} /\ more' = FALSE
        /\ UNCHANGED <<hostVars, ring, torn, dead, back, fold, buffered, pending, asked,
                       outVars, gone>>
    BY <1>11 DEF SelectLagged, AskPages
  <2>2. pages' \in 0..MaxPages /\ page' \subseteq 1..Len(log)  BY <2>1, <1>1
  <2>3. QED  BY <2>1, <2>2, <1>1, <1>2, StillTyped DEF Points
<1>12. CASE Send
  <2>1. /\ UNCHANGED <<hostVars, wireVars, dead, back, fold, buffered, asked, pageVars, gone>>
        /\ pending' = Silence /\ pc' \in Points
    BY <1>1, <1>12 DEF Send, AfterSend, Points
  <2>2. queue' \in 0..Depth /\ sent' \in [Items -> Seq(Nat)] /\ ended' \in Seq(TurnEnds)
    <3>1. CASE gone  BY <3>1, <1>2, <1>12 DEF Send
    <3>2. CASE ~gone
      <4>1. queue' = queue + 1 /\ queue < Depth  BY <3>2, <1>12 DEF Send, Room
      <4>2. sent' \in [Items -> Seq(Nat)]
        <5>1. CASE pending.kind = "text"
          <6>1. pending.item \in Items /\ pending.text \in Seq(Nat)
            BY <5>1, <1>1 DEF Outputs
          <6>2. sent[pending.item] \o pending.text \in Seq(Nat)
            BY <6>1, <1>2, ConcatProperties
          <6>3. sent' = [sent EXCEPT ![pending.item] = sent[pending.item] \o pending.text]
            BY <3>2, <5>1, <1>12 DEF Send
          <6> DEFINE longer == sent[pending.item] \o pending.text
          <6> HIDE DEF longer
          <6>4. longer \in Seq(Nat) /\ sent' = [sent EXCEPT ![pending.item] = longer]
            BY <6>2, <6>3 DEF longer
          <6>5. QED  BY <6>1, <6>4, <1>2
        <5>2. CASE pending.kind # "text"  BY <3>2, <5>2, <1>2, <1>12 DEF Send
        <5>3. QED  BY <5>1, <5>2
      <4>3. ended' \in Seq(TurnEnds)
        <5>1. CASE pending.kind = "terminal"
          <6>1. pending.item \in TurnEnds  BY <5>1, <1>1 DEF Outputs
          <6>2. ended' = Append(ended, pending.item)  BY <3>2, <5>1, <1>12 DEF Send
          <6>3. QED  BY <6>1, <6>2, <1>2, AppendProperties
        <5>2. CASE pending.kind # "terminal"  BY <3>2, <5>2, <1>2, <1>12 DEF Send
        <5>3. QED  BY <5>1, <5>2
      <4>4. QED  BY <4>1, <4>2, <4>3, <1>1, <1>2
    <3>3. QED  BY <3>1, <3>2
  <2>3. pending' \in Outputs  BY <2>1, Emittable
  <2>4. QED  BY <2>1, <2>2, <2>3, <1>1, <1>2, StillTyped
<1>13. CASE PageArrives
  <2>1. /\ pages < MaxPages /\ pages' = pages + 1
        /\ page' = First(PageLimit, CommittedAfter(anchor)) /\ more' \in BOOLEAN
        /\ \/ anchor' = anchor /\ pc' = "loop"
           \/ \E k \in page' : anchor' = k /\ pc' = "page"
        /\ UNCHANGED <<hostVars, wireVars, dead, back, fold, buffered, pending,
                       asked, outVars, gone>>
    BY <1>13 DEF PageArrives
  <2>2. page' \subseteq 1..Len(log)  BY <2>1 DEF First, CommittedAfter
  <2>3. anchor' \in 0..Len(log) /\ pc' \in Points /\ pages' \in 0..MaxPages
    BY <2>1, <2>2, <1>1 DEF Points
  <2>4. QED  BY <2>1, <2>2, <2>3, <1>1, <1>2, StillTyped
<1>14. CASE FeedPage
  <2>1. PICK k \in page : page' = page \ {k} /\ FeedAt(k, "page")
    BY <1>14 DEF FeedPage
  <2>2. /\ Feeds(fold, k, log[k], fold', pending') /\ back' = "page"
        /\ pc' = IF pending' = Silence THEN "page" ELSE "send"
    BY <2>1, <1>1, FeedAtFeeds
  <2>3. /\ fold' \in Folds /\ pending' \in Outputs
        /\ fold'.cursor = k \/ fold' = fold
    BY <2>2 DEF Feeds
  <2>4. fold'.cursor \in 0..Len(log) /\ fold'.done \subseteq Items /\ pc' \in Points
    BY <2>2, <2>3, <1>1 DEF Folds, Points
  <2>5. UNCHANGED <<hostVars, wireVars, dead, buffered, asked, more, anchor, pages,
                    outVars, gone>>
    BY <1>14 DEF FeedPage
  <2>6. page' \subseteq 1..Len(log)  BY <2>1, <1>1
  <2>7. QED  BY <2>2, <2>3, <2>4, <2>5, <2>6, <1>1, <1>2, StillTyped
<1>15. CASE Decide
  <2>1. /\ UNCHANGED <<script, log, turn, hole, holes, wireVars, dead, fold, buffered,
                       pending, asked, pageVars, outVars, gone>>
        /\ pc' \in Points /\ back' \in {"loop", "page", "end"} /\ parked' \in BOOLEAN
    BY <1>1, <1>2, <1>15 DEF Decide, Points
  <2>2. QED  BY <2>1, <1>1, <1>2, StillTyped
<1>16. CASE ClientReads
  <2>1. /\ UNCHANGED <<hostVars, wireVars, dead, driverVars, pageVars, sent, ended, gone>>
        /\ queue' \in 0..Depth
    BY <1>1, <1>2, <1>16 DEF ClientReads
  <2>2. QED  BY <2>1, <1>1, <1>2, StillTyped
<1>17. CASE ClientLeaves \/ SetupDropped
  <2>1. /\ UNCHANGED <<hostVars, wireVars, dead, back, fold, buffered, pending, asked,
                       pageVars, outVars>>
        /\ gone' = TRUE /\ pc' \in Points
    BY <1>1, <1>17 DEF ClientLeaves, SetupDropped, Points
  <2>2. QED  BY <2>1, <1>1, <1>2, StillTyped
<1>18. QED
  BY <1>3, <1>4, <1>5, <1>6, <1>7, <1>8, <1>9, <1>10, <1>11, <1>12, <1>13, <1>14,
     <1>15, <1>16, <1>17 DEF Setup

LEMMA TypedInit == Init => Typed
<1> SUFFICES ASSUME Init PROVE Typed  OBVIOUS
<1>1. /\ script \in Scripts /\ Playable(script) /\ log = <<>>
      /\ {Ring, Depth, MaxPages} \subseteq Nat \ {0} /\ MaxHoles \in Nat
  BY TurnDriverAssumption DEF Init
<1>2. Len(log) = 0 /\ log \in Seq(Event)  BY <1>1
<1>3. Plays
  <2>1. Len(script) \in Nat /\ Len(script) # 0  BY <1>1 DEF Playable
  <2>2. QED  BY <2>1, <1>2 DEF Plays
<1>4. NewFold \in Folds  BY DEF NewFold, Folds
<1>5. /\ ring = <<>> /\ buffered = <<>> /\ Refers(<<>>) /\ <<>> \in Seq(Entries)
      /\ Len(<<>>) = 0
  BY DEF Init, Refers
<1>6. fold = NewFold /\ fold.cursor = 0 /\ fold.done = {}  BY DEF Init, NewFold
<1>7. pending \in Outputs  BY Emittable DEF Init
<1>8. sent \in [Items -> Seq(Nat)] /\ ended \in Seq(TurnEnds)  BY DEF Init
<1>9. TypeOK
  <2>1. /\ turn = "none" /\ hole = NoHole /\ holes = 0 /\ parked = FALSE /\ dead = FALSE
        /\ lagged = FALSE /\ gone = FALSE /\ asked = FALSE /\ more = FALSE /\ queue = 0
        /\ pc = "setup" /\ back = "loop" /\ pages = 0 /\ anchor = 0 /\ torn = {}
    BY DEF Init
  <2>2. pages \in 0..MaxPages /\ holes \in 0..MaxHoles /\ queue \in 0..Depth
        /\ Len(ring) <= Ring
    BY <2>1, <1>1, <1>5
  <2>3. anchor \in 0..Len(log) /\ fold.cursor \in 0..Len(log)
    BY <2>1, <1>2, <1>6
  <2>4. QED  BY <2>1, <2>2, <2>3, <1>6 DEF TypeOK
<1>10. page = {}  BY DEF Init
<1>11. QED  BY <1>1, <1>2, <1>3, <1>4, <1>5, <1>6, <1>7, <1>8, <1>9, <1>10 DEF Typed

LEMMA TypedStep ==
  ASSUME Typed, Fresh, [Next]_vars
  PROVE  Typed'
<1>1. CASE UNCHANGED vars
  BY <1>1 DEF vars, hostVars, wireVars, driverVars, pageVars, outVars, Typed, TypeOK,
              Plays, Refers
<1>2. CASE Next
  BY <1>2, HostTyped, DriverTyped DEF Next, Host, Driver
<1>3. QED  BY <1>1, <1>2

(* Every variable keeps its type, whatever is lost, dropped or left.         *)
THEOREM TurnDriverTypes == SafeSpec => []TypeOK
<1>1. Init => Fresh  BY DEF Init, Fresh
<1>2. Typed /\ Fresh /\ [Next]_vars => Typed' /\ Fresh'  BY TypedStep, FreshStep
<1>3. Typed => TypeOK  BY DEF Typed
<1>4. QED  BY TypedInit, <1>1, <1>2, <1>3, PTL DEF SafeSpec
-----------------------------------------------------------------------------
(* One terminal.                                                             *)

(* Between events nothing is pending, and the fold is not settled.           *)
LEMMA AtRest ==
  ASSUME Control, pc # "send", pc # "end"
  PROVE  pending = Silence /\ pending.kind = "none" /\ ~fold.settled
BY DEF Control, Silence

LEMMA FeedControl ==
  ASSUME Typed, Control, pc # "send", pc # "end", NEW c \in 1..Len(log),
         NEW resume \in {"loop", "page"}, FeedAt(c, resume)
  PROVE  /\ back' = resume /\ pc' = (IF pending' = Silence THEN resume ELSE "send")
         /\ pc' = "send" <=> pending' # Silence
         /\ fold'.settled <=> pending'.kind = "terminal"
         /\ ~fold.settled
BY FeedAtFeeds, AtRest DEF Feeds

LEMMA DriveControl ==
  ASSUME Typed, Control, pc \in {"loop", "select"}, NEW e \in Entries,
         e.kind = "view" => e.at \in 1..Len(log), DriveEvent(e)
  PROVE  /\ pc' = "send" <=> pending' # Silence
         /\ fold'.settled => pending'.kind = "terminal"
         /\ pc' \in {"loop", "send", "ask", "decide"}
         /\ pc' = "send" => back' = "loop"
<1>1. pending = Silence /\ ~fold.settled  BY AtRest
<1>2. CASE e.kind = "view" /\ FeedAt(e.at, "loop")  BY <1>2, FeedControl
<1>3. CASE e.kind = "other" /\ Emit(Silence, "loop") /\ fold' = fold
  BY <1>1, <1>3 DEF Emit
<1>4. CASE e.kind \in {"gap", "approval"} /\ pc' \in {"ask", "decide"}
           /\ UNCHANGED <<fold, pending, back>>
  BY <1>1, <1>4
<1>5. QED  BY <1>2, <1>3, <1>4 DEF DriveEvent, AskPages

LEMMA ControlStep ==
  ASSUME Typed, Control, [Next]_vars
  PROVE  Control'
<1> USE DEF hostVars, wireVars, driverVars, pageVars, outVars
<1>1. CASE UNCHANGED vars  BY <1>1 DEF vars, Control, InSetup
<1>2. CASE Host \/ OtherSession \/ HostDies
  <2>1. UNCHANGED <<driverVars, gone>>
    BY <1>2 DEF Host, HostEvent, HostSkips, HostGap, OtherSession, HostDies
  <2>2. QED  BY <2>1 DEF Control, InSetup
<1>3. CASE StartTurn \/ SetupFails \/ Acked \/ SetupDropped
  <2>1. /\ UNCHANGED <<fold, pending, back>> /\ pc \in {"setup", "started"}
        /\ pc' \in {"started", "error", "loop"}
        /\ pc' \in {"error", "loop"} \/ buffered' = buffered
    BY <1>3 DEF StartTurn, SetupFails, Acked, SetupDropped, InSetup
  <2>2. QED  BY <2>1, AtRest DEF Control, InSetup
<1>4. CASE ClientReads \/ ClientLeaves
  BY <1>4 DEF ClientReads, ClientLeaves, Control, InSetup
<1>5. CASE DriveBuffered
  <2>1. /\ Head(buffered) \in Entries
        /\ Head(buffered).kind = "view" => Head(buffered).at \in 1..Len(log)
    BY <1>5, TakeTyped DEF DriveBuffered, Typed
  <2>2. /\ pc' = "send" <=> pending' # Silence
        /\ fold'.settled => pending'.kind = "terminal"
        /\ pc' \in {"loop", "send", "ask", "decide"}
        /\ pc' = "send" => back' = "loop"
    BY <1>5, <2>1, DriveControl DEF DriveBuffered
  <2>3. QED  BY <2>2 DEF Control, InSetup
<1>6. CASE SelectEvent
  <2>1. /\ Head(ring) \in Entries
        /\ Head(ring).kind = "view" => Head(ring).at \in 1..Len(log)
    BY <1>6, TakeTyped DEF SelectEvent, Typed
  <2>2. /\ pc' = "send" <=> pending' # Silence
        /\ fold'.settled => pending'.kind = "terminal"
        /\ pc' \in {"loop", "send", "ask", "decide"}
        /\ pc' = "send" => back' = "loop"
    BY <1>6, <2>1, DriveControl DEF SelectEvent
  <2>3. QED  BY <2>2 DEF Control, InSetup
<1>7. CASE FeedPage
  <2>1. PICK k \in page : FeedAt(k, "page")  BY <1>7 DEF FeedPage
  <2>2. k \in 1..Len(log) /\ pc = "page"  BY <1>7 DEF FeedPage, Typed
  <2>3. /\ back' = "page" /\ pc' = (IF pending' = Silence THEN "page" ELSE "send")
        /\ pc' = "send" <=> pending' # Silence
        /\ fold'.settled <=> pending'.kind = "terminal"
    BY <2>1, <2>2, FeedControl
  <2>4. QED  BY <2>3 DEF Control, InSetup
<1>8. CASE SelectDead \/ PagingFails
  <2>1. /\ pending' = Terminal("failed") /\ back' = "end"
        /\ pc' = IF pending' = Silence THEN "end" ELSE "send"
    BY <1>8 DEF SelectDead, PagingFails, Emit
  <2>2. pending' # Silence /\ pending'.kind = "terminal"  BY <2>1 DEF Terminal, Silence
  <2>3. QED  BY <2>1, <2>2 DEF Control, InSetup
<1>9. CASE LoopTop \/ SelectCancelled
  <2>1. /\ \/ pc' = "cancel" /\ back' = "end" /\ gone'
           \/ pc' = "select" /\ buffered' = <<>>
        /\ UNCHANGED <<fold, pending>> /\ pc # "send" /\ pc # "end"
    BY <1>9 DEF LoopTop, SelectCancelled
  <2>2. QED  BY <2>1, AtRest DEF Control, InSetup
<1>10. CASE SelectLagged \/ PageArrives \/ PageDone
  <2>1. /\ pc' \in {"ask", "loop", "page"}
        /\ UNCHANGED <<fold, pending>> /\ pc # "send" /\ pc # "end"
    BY <1>10 DEF SelectLagged, AskPages, PageArrives, PageDone
  <2>2. QED  BY <2>1, AtRest DEF Control, InSetup
<1>11. CASE Send
  <2>1. /\ pc = "send" /\ pending' = Silence /\ UNCHANGED <<fold, back>>
        /\ pc' = IF pending.kind = "terminal" THEN "end" ELSE back
    BY <1>11 DEF Send, AfterSend
  <2>2. back \in {"loop", "page", "end"}  BY DEF Typed, TypeOK
  <2>3. QED  BY <2>1, <2>2 DEF Control, InSetup
<1>12. CASE Decide
  <2>1. /\ pc = "decide" /\ UNCHANGED <<fold, pending>>
        /\ pc' = "loop" \/ (pc' = "cancel" /\ back' = "loop")
    BY <1>12 DEF Decide
  <2>2. QED  BY <2>1, AtRest DEF Control, InSetup
<1>13. CASE CancelTurn
  <2>1. /\ pc = "cancel" /\ UNCHANGED <<fold, pending, back>> /\ pc' = back
        /\ back \in {"loop", "page", "end"}
    BY <1>13 DEF CancelTurn, Typed, TypeOK
  <2>2. QED  BY <2>1, AtRest DEF Control, InSetup
<1>14. QED
  BY <1>1, <1>2, <1>3, <1>4, <1>5, <1>6, <1>7, <1>8, <1>9, <1>10, <1>11, <1>12, <1>13
     DEF Next, Setup, Driver

LEMMA ClosingStep ==
  ASSUME Typed, Control, Closing, [Next]_vars
  PROVE  Closing' /\ (ended # <<>> => UNCHANGED <<sent, ended>>)
<1> USE DEF hostVars, wireVars, driverVars, pageVars, outVars
<1>1. CASE UNCHANGED vars  BY <1>1 DEF vars, Closing
<1>2. CASE Host \/ OtherSession \/ HostDies
  <2>1. UNCHANGED <<pc, gone, sent, ended>>
    BY <1>2 DEF Host, HostEvent, HostSkips, HostGap, OtherSession, HostDies
  <2>2. QED  BY <2>1 DEF Closing
<1>3. CASE Setup \/ SetupDropped
  <2>1. /\ UNCHANGED <<sent, ended>> /\ pc \in {"setup", "started"}
        /\ pc' \in {"started", "error", "loop"}
    BY <1>3 DEF Setup, StartTurn, SetupFails, Acked, SetupDropped, InSetup
  <2>2. QED  BY <2>1 DEF Closing
<1>4. CASE ClientReads \/ ClientLeaves
  BY <1>4 DEF ClientReads, ClientLeaves, Closing
<1>5. CASE DriveBuffered \/ SelectEvent \/ FeedPage \/ SelectDead \/ PagingFails
  <2>1. UNCHANGED <<sent, ended>> /\ pc # "end" /\ pc # "send" /\ pc' # "end"
    <3>1. CASE DriveBuffered
      <4>1. /\ Head(buffered) \in Entries
            /\ Head(buffered).kind = "view" => Head(buffered).at \in 1..Len(log)
        BY <3>1, TakeTyped DEF DriveBuffered, Typed
      <4>2. QED  BY <3>1, <4>1, DriveControl DEF DriveBuffered
    <3>2. CASE SelectEvent
      <4>1. /\ Head(ring) \in Entries
            /\ Head(ring).kind = "view" => Head(ring).at \in 1..Len(log)
        BY <3>2, TakeTyped DEF SelectEvent, Typed
      <4>2. QED  BY <3>2, <4>1, DriveControl DEF SelectEvent
    <3>3. CASE FeedPage  BY <3>3 DEF FeedPage, FeedAt, Emit
    <3>4. CASE SelectDead \/ PagingFails
      BY <3>4 DEF SelectDead, PagingFails, Emit, Terminal, Silence
    <3>5. QED  BY <1>5, <3>1, <3>2, <3>3, <3>4
  <2>2. QED  BY <2>1 DEF Closing
<1>6. CASE LoopTop \/ SelectCancelled \/ SelectLagged \/ PageArrives \/ PageDone \/ Decide
  <2>1. UNCHANGED <<sent, ended>> /\ pc # "end" /\ pc' # "end"
    BY <1>6 DEF LoopTop, SelectCancelled, SelectLagged, AskPages, PageArrives, PageDone,
                Decide
  <2>2. QED  BY <2>1 DEF Closing
<1>7. CASE CancelTurn
  <2>1. /\ UNCHANGED <<sent, ended, gone>> /\ pc = "cancel" /\ pc' = back
        /\ back = "end" => gone
    BY <1>7 DEF CancelTurn, Control
  <2>2. QED  BY <2>1 DEF Closing
<1>8. CASE Send
  <2>1. pc = "send" /\ ended = <<>> /\ gone' = gone  BY <1>8 DEF Send, Closing
  <2>2. pending.kind = "terminal" <=> pc' = "end"
    BY <1>8 DEF Send, AfterSend, Control
  <2>3. CASE gone  BY <2>1, <2>3, <1>8 DEF Send, Closing
  <2>4. CASE ~gone /\ pending.kind = "terminal"
    <3>1. ended' = Append(ended, pending.item)  BY <2>4, <1>8 DEF Send
    <3>2. ended' # <<>>
      BY <3>1, <2>1, <2>4 DEF Typed
    <3>3. QED  BY <3>2, <2>1, <2>2, <2>4 DEF Closing
  <2>5. CASE ~gone /\ pending.kind # "terminal"
    <3>1. ended' = ended  BY <2>5, <1>8 DEF Send
    <3>2. QED  BY <3>1, <2>1, <2>2, <2>5 DEF Closing
  <2>6. QED  BY <2>3, <2>4, <2>5
<1>9. QED
  BY <1>1, <1>2, <1>3, <1>4, <1>5, <1>6, <1>7, <1>8 DEF Next, Driver

(* What the steps keep, and the reader of the next lemmas may assume.        *)
Steady == Typed /\ Fresh /\ Control /\ Closing

LEMMA SteadyInit == Init => Steady
<1> SUFFICES ASSUME Init PROVE Steady  OBVIOUS
<1>1. Fresh /\ Control /\ Closing
  BY DEF Init, Fresh, Control, Closing, InSetup, NewFold
<1>2. QED  BY <1>1, TypedInit DEF Steady

LEMMA SteadyStep ==
  ASSUME Steady, [Next]_vars
  PROVE  Steady'
BY TypedStep, FreshStep, ControlStep, ClosingStep DEF Steady

LEMMA SteadyAlways == SafeSpec => []Steady
<1>1. Steady /\ [Next]_vars => Steady'  BY SteadyStep
<1>2. QED  BY SteadyInit, <1>1, PTL DEF SafeSpec

(* A request forwards one terminal and nothing after it, and a driver that   *)
(* stops without one has lost its caller.                                    *)
THEOREM RequestEndsOnce == SafeSpec => EndsOnce
<1>1. Steady /\ [Next]_vars => [ended # <<>> => UNCHANGED <<sent, ended>>]_vars
  BY ClosingStep DEF Steady
<1>2. Steady => (pc = "end" /\ ended = <<>> => gone)  BY DEF Steady, Closing
<1>3. SafeSpec => [][ended # <<>> => UNCHANGED <<sent, ended>>]_vars
  BY <1>1, SteadyAlways, PTL DEF SafeSpec
<1>4. SafeSpec => [](pc = "end" /\ ended = <<>> => gone)
  BY <1>2, SteadyAlways, PTL
<1>5. QED  BY <1>3, <1>4 DEF EndsOnce
-----------------------------------------------------------------------------
(* What the fold knows of the log, and what the caller was forwarded of it.  *)
WellLogged ==
  /\ \A k \in 1..Len(log) : Wellformed(log[k])
  /\ \A k \in 1..Len(log) : log[k].type \in Endings => k = Len(log) /\ turn = "over"
  /\ \A j, k \in 1..Len(log) :
       /\ log[k].type = "item/completed" /\ j # k
       /\ log[j].type \in ItemObjects /\ log[j].item = log[k].item
       => log[j].rev < log[k].rev

LEMMA TypedLog == Typed => WellLogged
BY LogWell DEF WellLogged

LEMMA TypedLogNext == Typed' => WellLogged'
BY TypedLog, PTL

(* The log only grows, by at most one event.                                 *)
Logs == \/ log' = log
        \/ /\ Len(log') = Len(log) + 1
           /\ \A k \in 1..Len(log) : log'[k] = log[k]

LEMMA LogStep ==
  ASSUME Typed, [Next]_vars
  PROVE  Logs
<1> USE DEF hostVars, wireVars, driverVars, pageVars, outVars
<1>1. CASE UNCHANGED vars  BY <1>1 DEF vars, Logs
<1>2. ASSUME NEW e, Commits(e) PROVE Logs  BY <1>2, CommitTyped DEF Logs
<1>3. CASE HostEvent
  BY <1>2, <1>3 DEF HostEvent, Playing, Commits
<1>4. CASE HostSkips
  BY <1>2, <1>4 DEF HostSkips, Playing, Commits
<1>5. CASE CancelTurn
  <2>1. log' = log \/ Commits(TurnEvent("cancelled", 0))
    BY <1>5 DEF CancelTurn, HostCancels, Commits
  <2>2. QED  BY <2>1, <1>2 DEF Logs
<1>6. CASE \/ HostGap \/ OtherSession \/ HostDies \/ Setup \/ DriveBuffered \/ LoopTop
           \/ SelectCancelled \/ SelectDead \/ SelectEvent \/ SelectLagged \/ Send
           \/ PageArrives \/ PagingFails \/ FeedPage \/ PageDone \/ Decide
           \/ ClientReads \/ ClientLeaves \/ SetupDropped
  <2>1. log' = log
    BY <1>6 DEF HostGap, OtherSession, HostDies, Setup, StartTurn, SetupFails, Acked,
       DriveBuffered, LoopTop, SelectCancelled, SelectDead, SelectEvent, SelectLagged, Send,
       PageArrives, PagingFails, FeedPage, PageDone, Decide, ClientReads, ClientLeaves,
       SetupDropped
  <2>2. QED  BY <2>1 DEF Logs
<1>7. QED  BY <1>1, <1>3, <1>4, <1>5, <1>6 DEF Next, Host, Driver

(* The log grows, and the fold holds nothing of the new event.               *)
LEMMA FoldLogs ==
  ASSUME Typed, Typed', Sourced, Final, Logs, fold' = fold
  PROVE  Sourced' /\ Final'
<1> HIDE DEF WellLogged
<1>0. WellLogged /\ WellLogged'  BY TypedLog, TypedLogNext
<1>1. /\ log \in Seq(Event) /\ Len(log) \in Nat /\ fold.rev \in [Items -> Nat]
      /\ WellLogged /\ WellLogged'
  BY <1>0 DEF Typed, Folds
<1>2. CASE log' = log  BY <1>2 DEF Sourced, Final
<1>3. CASE /\ Len(log') = Len(log) + 1
           /\ \A k \in 1..Len(log) : log'[k] = log[k]
  <2>1. \A k \in 1..Len(log) : k \in 1..Len(log') /\ log'[k] = log[k]  BY <1>1, <1>3
  <2>2. Sourced'  BY <2>1 DEF Sourced
  <2>3. ASSUME NEW k \in 1..Len(log'), log'[k].type = "item/completed",
               fold.rev[log'[k].item] = log'[k].rev
        PROVE  k \in 1..Len(log)
    <3> SUFFICES ASSUME k \notin 1..Len(log) PROVE FALSE  OBVIOUS
    <3>1. Wellformed(log'[k])  BY <1>1 DEF WellLogged
    <3>2. "item/completed" \in ItemObjects /\ "item/completed" \in Objects
      BY DEF ItemObjects, Objects
    <3>3. log'[k].item \in Items /\ log'[k].rev > 0 /\ log'[k].rev \in Nat
      BY <2>3, <3>1, <3>2 DEF Wellformed, Event
    <3>4. PICK j \in 1..Len(log) : /\ log[j].type \in ItemObjects
                                   /\ log[j].item = log'[k].item
                                   /\ log[j].rev = log'[k].rev
      BY <2>3, <3>3 DEF Sourced
    <3>5. log'[j].rev < log'[k].rev  BY <2>1, <2>3, <3>4, <1>1 DEF WellLogged
    <3>6. QED  BY <2>1, <3>3, <3>4, <3>5
  <2>4. Final'  BY <2>1, <2>3 DEF Final
  <2>5. QED  BY <2>2, <2>4
<1>4. QED  BY <1>2, <1>3 DEF Logs

LEMMA FeedFold ==
  ASSUME Steady, FoldInv, pc # "send", pc # "end", NEW c \in 1..Len(log), NEW resume,
         FeedAt(c, resume), UNCHANGED <<log, sent, ended, gone>>
  PROVE  FoldInv'
<1> DEFINE e == log[c]
<1>1. /\ Feeds(fold, c, e, fold', pending') /\ WellLogged /\ Wellformed(e)
      /\ fold \in Folds /\ sent \in [Items -> Seq(Nat)] /\ log' = log
      /\ sent' = sent /\ ended' = ended /\ gone' = gone
  BY FeedAtFeeds, TypedLog DEF Steady, Typed
<1>2. /\ \A i \in Items : fold'.rev[i] # fold.rev[i] =>
           e.type \in ItemObjects /\ e.item = i /\ fold'.rev[i] = e.rev
      /\ fold.done \subseteq fold'.done
      /\ \A i \in fold.done : fold'.rev[i] = fold.rev[i] => fold'.known[i] = fold.known[i]
      /\ \A i \in Items : e.type = "item/completed" /\ fold'.rev[i] # fold.rev[i] =>
           i \in fold'.done /\ (fold'.known[i] = Chunks(e.text) \/ e.text = 0)
      /\ \A i \in Items, s \in Seq(Nat) :
           EndsWith(s, fold.known[i]) => EndsWith(Extends(s, pending', i), fold'.known[i])
  BY <1>1 DEF Feeds
<1> HIDE DEF e
<1>3. Sourced'
  <2> SUFFICES ASSUME NEW i \in Items, fold'.rev[i] # 0
               PROVE  \E j \in 1..Len(log) : /\ log[j].type \in ItemObjects
                                             /\ log[j].item = i /\ log[j].rev = fold'.rev[i]
    BY <1>1 DEF Sourced
  <2>1. CASE fold'.rev[i] = fold.rev[i]  BY <2>1 DEF FoldInv, Sourced
  <2>2. CASE fold'.rev[i] # fold.rev[i]  BY <2>2, <1>2 DEF e
  <2>3. QED  BY <2>1, <2>2
<1>4. Final'
  <2> SUFFICES ASSUME NEW k \in 1..Len(log), log[k].type = "item/completed",
                      fold'.rev[log[k].item] = log[k].rev
               PROVE  /\ log[k].item \in fold'.done
                      /\ fold'.known[log[k].item] = Chunks(log[k].text) \/ log[k].text = 0
    BY <1>1 DEF Final
  <2> DEFINE i == log[k].item
  <2>1. i \in Items /\ log[k].rev \in Nat
    BY <1>1 DEF WellLogged, Wellformed, Event, Objects, ItemObjects
  <2>2. CASE fold'.rev[i] = fold.rev[i]
    <3>1. i \in fold.done /\ (fold.known[i] = Chunks(log[k].text) \/ log[k].text = 0)
      BY <2>2 DEF FoldInv, Final
    <3>2. QED  BY <3>1, <2>2, <1>2
  <2>3. CASE fold'.rev[i] # fold.rev[i]
    <3>1. e.type \in ItemObjects /\ e.item = i /\ e.rev = log[k].rev
      BY <2>1, <2>3, <1>2
    <3>2. c = k
      <4>1. c # k => log[c].rev < log[k].rev
        BY <3>1, <1>1 DEF WellLogged, e
      <4>2. QED  BY <4>1, <3>1, <2>1 DEF e
    <3>3. QED  BY <3>2, <2>1, <2>3, <1>2 DEF e
  <2>4. QED  BY <2>2, <2>3
<1>5. Shown'
  <2>1. CASE gone /\ ended = <<>>  BY <2>1, <1>1 DEF Shown
  <2>2. CASE \A i \in Items : EndsWith(Forwarded(i), fold.known[i])
    <3>1. pending.kind # "text"  BY AtRest DEF Steady
    <3>2. ASSUME NEW i \in Items PROVE EndsWith(Forwarded(i)', fold'.known[i])
      <4>1. Forwarded(i) = sent[i] /\ Forwarded(i)' = Extends(sent[i], pending', i)
        BY <3>1, <1>1 DEF Forwarded, Extends
      <4>2. sent[i] \in Seq(Nat)  BY <1>1
      <4>3. QED  BY <4>1, <4>2, <2>2, <1>2
    <3>3. QED  BY <3>2 DEF Shown
  <2>3. QED  BY <2>1, <2>2 DEF FoldInv, Shown
<1>6. QED  BY <1>3, <1>4, <1>5 DEF FoldInv

LEMMA DriveFold ==
  ASSUME Steady, FoldInv, pc \in {"loop", "select"}, NEW e \in Entries,
         e.kind = "view" => e.at \in 1..Len(log), DriveEvent(e),
         UNCHANGED <<log, sent, ended, gone>>
  PROVE  FoldInv'
<1>1. CASE e.kind = "view" /\ FeedAt(e.at, "loop")  BY <1>1, FeedFold
<1>2. CASE fold' = fold /\ pending' = Silence
  <2>1. pending = Silence  BY AtRest DEF Steady, Control
  <2>2. QED  BY <2>1, <1>2 DEF FoldInv, Sourced, Final, Shown, Forwarded
<1>3. e.kind # "view" => fold' = fold /\ pending' \in {Silence, pending}
  BY DEF DriveEvent, Emit
<1>4. pending = Silence  BY AtRest DEF Steady
<1>5. e.kind = "view" => FeedAt(e.at, "loop")  BY DEF DriveEvent
<1>6. QED  BY <1>1, <1>2, <1>3, <1>4, <1>5

LEMMA FoldStep ==
  ASSUME Steady, Steady', FoldInv, [Next]_vars
  PROVE  FoldInv'
<1> USE DEF hostVars, wireVars, driverVars, pageVars, outVars
<1>1. Typed /\ Typed' /\ Logs /\ Control  BY LogStep DEF Steady
<1>2. ASSUME fold' = fold, UNCHANGED <<sent, ended>>,
             pending' = pending \/ (pending.kind # "text" /\ pending'.kind # "text"),
             gone => gone'
      PROVE  FoldInv'
  <2>1. Sourced' /\ Final'  BY <1>1, <1>2, FoldLogs DEF FoldInv
  <2>2. ASSUME NEW i \in Items PROVE Forwarded(i)' = Forwarded(i)
    <3>1. CASE pending' = pending  BY <3>1, <1>2 DEF Forwarded
    <3>2. CASE pending.kind # "text" /\ pending'.kind # "text"
      BY <3>2, <1>2 DEF Forwarded
    <3>3. QED  BY <3>1, <3>2, <1>2
  <2>3. ASSUME gone /\ ended = <<>> PROVE Shown'
    BY <2>3, <1>2 DEF Shown
  <2>4. ASSUME \A i \in Items : EndsWith(Forwarded(i), fold.known[i]) PROVE Shown'
    <3>1. ASSUME NEW i \in Items PROVE EndsWith(Forwarded(i)', fold'.known[i])
      BY <2>2, <2>4, <1>2
    <3>2. QED  BY <3>1 DEF Shown
  <2>5. QED  BY <2>1, <2>3, <2>4 DEF FoldInv, Shown
<1>3. CASE UNCHANGED vars  BY <1>2, <1>3 DEF vars
<1>4. CASE \/ Host \/ OtherSession \/ HostDies \/ ClientReads \/ ClientLeaves
           \/ SetupDropped \/ Setup
  <2>1. UNCHANGED <<fold, pending, sent, ended>> /\ (gone => gone')
    BY <1>4 DEF Host, HostEvent, HostSkips, HostGap, OtherSession, HostDies, ClientReads,
       ClientLeaves, SetupDropped, Setup, StartTurn, SetupFails, Acked
  <2>2. QED  BY <2>1, <1>2
<1>5. CASE \/ LoopTop \/ SelectCancelled \/ SelectLagged \/ PageArrives \/ PageDone
           \/ Decide \/ CancelTurn
  <2>1. UNCHANGED <<fold, pending, sent, ended, gone>>
    BY <1>5 DEF LoopTop, SelectCancelled, SelectLagged, PageArrives, PageDone, Decide,
                CancelTurn
  <2>2. QED  BY <2>1, <1>2
<1>6. CASE SelectDead \/ PagingFails
  <2>1. /\ UNCHANGED <<fold, sent, ended, gone>> /\ pending' = Terminal("failed")
        /\ pc # "send" /\ pc # "end"
    BY <1>6 DEF SelectDead, PagingFails, Emit
  <2>2. pending.kind # "text" /\ pending'.kind # "text"
    BY <2>1, <1>1, AtRest DEF Terminal
  <2>3. QED  BY <2>1, <2>2, <1>2
<1>7. CASE DriveBuffered
  <2>1. /\ Head(buffered) \in Entries
        /\ Head(buffered).kind = "view" => Head(buffered).at \in 1..Len(log)
    BY <1>1, <1>7, TakeTyped DEF DriveBuffered, Typed
  <2>2. QED  BY <1>7, <2>1, DriveFold DEF DriveBuffered
<1>8. CASE SelectEvent
  <2>1. /\ Head(ring) \in Entries
        /\ Head(ring).kind = "view" => Head(ring).at \in 1..Len(log)
    BY <1>1, <1>8, TakeTyped DEF SelectEvent, Typed
  <2>2. QED  BY <1>8, <2>1, DriveFold DEF SelectEvent
<1>9. CASE FeedPage
  <2>1. PICK k \in page : FeedAt(k, "page")  BY <1>9 DEF FeedPage
  <2>2. k \in 1..Len(log) /\ pc = "page" /\ UNCHANGED <<log, sent, ended, gone>>
    BY <1>1, <1>9 DEF FeedPage, Typed
  <2>3. QED  BY <2>1, <2>2, FeedFold
<1>10. CASE Send
  <2>1. /\ fold' = fold /\ gone' = gone /\ log' = log /\ pending' = Silence
        /\ pc = "send" /\ ended = <<>>
    BY <1>10 DEF Send, Steady, Closing
  <2>2. Sourced' /\ Final'  BY <2>1, <1>1, FoldLogs DEF FoldInv
  <2>3. CASE gone
    BY <2>1, <2>2, <2>3, <1>10 DEF FoldInv, Shown, Send
  <2>4. CASE ~gone
    <3>1. \A i \in Items : EndsWith(Forwarded(i), fold.known[i])
      BY <2>4 DEF FoldInv, Shown
    <3>2. ASSUME NEW i \in Items PROVE Forwarded(i)' = Forwarded(i)
      <4>1. Forwarded(i)' = sent'[i]  BY <2>1 DEF Forwarded, Silence
      <4>2. sent \in [Items -> Seq(Nat)]  BY <1>1 DEF Typed
      <4>3. CASE pending.kind = "text"
        BY <4>1, <4>2, <4>3, <2>4, <1>10 DEF Send, Forwarded
      <4>4. CASE pending.kind # "text"
        BY <4>1, <4>4, <2>4, <1>10 DEF Send, Forwarded
      <4>5. QED  BY <4>3, <4>4
    <3>3. QED  BY <3>1, <3>2, <2>1, <2>2 DEF FoldInv, Shown
  <2>5. QED  BY <2>3, <2>4
<1>11. QED
  BY <1>3, <1>4, <1>5, <1>6, <1>7, <1>8, <1>9, <1>10 DEF Next, Driver
-----------------------------------------------------------------------------
(* Delivery, as long as no overrun hits the setup: what the fold lacks is on *)
(* its way.                                                                  *)

(* What a step adds to the broadcast, some of it perhaps overrun.            *)
Flows(entries) ==
  LET all == ring \o entries
  IN  \/ Over /\ ring' = ring /\ lagged' = lagged
      \/ /\ ~Over /\ ring' \in Seq(Entries)
         /\ \E d \in 0..Len(all) :
              /\ Len(ring') = Len(all) - d
              /\ \A i \in 1..Len(all) - d : ring'[i] = all[i + d]
              /\ lagged' = (lagged \/ d > 0)
              /\ d > 0 /\ InSetup => "lag" \in Faults

LEMMA PushFlows ==
  ASSUME Typed, NEW entries \in Seq(Entries), Push(entries)
  PROVE  Flows(entries)
<1> DEFINE all == ring \o entries
<1> HIDE DEF all
<1>1. CASE Over /\ UNCHANGED wireVars  BY <1>1 DEF Flows, wireVars
<1>2. CASE /\ ~Over /\ ring' \in Seq(Entries)
           /\ \E d \in 0..Len(all) : Overruns(entries, d)
  <2>1. PICK d \in 0..Len(all) : Overruns(entries, d)  BY <1>2
  <2>2. /\ Len(ring') = Len(all) - d
        /\ \A i \in 1..Len(all) - d : ring'[i] = all[i + d]
        /\ lagged' = (lagged \/ d > 0)
        /\ d > 0 /\ InSetup => "lag" \in Faults
    BY <2>1 DEF Overruns, all
  <2>3. QED  BY <1>2, <2>2 DEF Flows, all
<1>3. QED  BY <1>1, <1>2, PushMeans DEF all

LEMMA NothingFlows ==
  ASSUME Typed, ring' = ring, lagged' = lagged
  PROVE  Flows(<<>>)
<1>1. ring \in Seq(Entries) /\ Len(ring) \in Nat /\ lagged \in BOOLEAN
  BY DEF Typed, TypeOK
<1>2. ring \o <<>> = ring  BY <1>1, ConcatEmptySeq
<1>3. /\ Len(ring') = Len(ring) - 0 /\ 0 \in 0..Len(ring)
      /\ \A i \in 1..Len(ring) - 0 : ring'[i] = ring[i + 0]
      /\ lagged' = (lagged \/ 0 > 0) /\ ~(0 > 0)
  BY <1>1
<1>4. QED  BY <1>1, <1>2, <1>3 DEF Flows

(* Whatever is dropped lies beyond what the driver has buffered.             *)
LEMMA FlowDelivers ==
  ASSUME Typed, Ordered, NEW entries \in Seq(Entries), Flows(entries),
         Sorted(entries), Across(ring, entries), Across(buffered, entries)
  PROVE  /\ Sorted(ring') /\ Across(buffered, ring')
         /\ \A n \in Nat : UpTo(ring, n) /\ UpTo(entries, n) => UpTo(ring', n)
         /\ ~Over => \A k \in Nat : Held(ring, k) \/ Held(entries, k) =>
              Held(ring', k) \/ (lagged' /\ Beyond(buffered, k))
         /\ lagged => lagged'
         /\ InSetup /\ lagged' => lagged \/ "lag" \in Faults
<1> DEFINE all == ring \o entries
<1>1. /\ ring \in Seq(Entries) /\ buffered \in Seq(Entries) /\ lagged \in BOOLEAN
      /\ Len(ring) \in Nat /\ Len(entries) \in Nat /\ Len(buffered) \in Nat
      /\ Sorted(ring) /\ Across(buffered, ring)
  BY DEF Typed, TypeOK, Ordered
<1>2. /\ all \in Seq(Entries) /\ Len(all) = Len(ring) + Len(entries)
      /\ \A i \in 1..Len(ring) + Len(entries) :
           all[i] = IF i <= Len(ring) THEN ring[i] ELSE entries[i - Len(ring)]
  BY <1>1, ConcatProperties
<1> HIDE DEF all
<1>3. ASSUME NEW i \in 1..Len(all)
      PROVE  \/ i \in 1..Len(ring) /\ all[i] = ring[i]
             \/ i - Len(ring) \in 1..Len(entries) /\ all[i] = entries[i - Len(ring)]
                /\ i > Len(ring)
  BY <1>1, <1>2
<1>4. Sorted(all)
  <2> SUFFICES ASSUME NEW i \in 1..Len(all), NEW j \in 1..Len(all), i < j
               PROVE  Before(all[i], all[j])
    BY DEF Sorted
  <2>1. CASE i \in 1..Len(ring) /\ j \in 1..Len(ring)
    <3>1. all[i] = ring[i] /\ all[j] = ring[j]  BY <2>1, <1>3, <1>1
    <3>2. QED  BY <3>1, <2>1, <1>1 DEF Sorted
  <2>2. CASE i \in 1..Len(ring) /\ j \notin 1..Len(ring)
    <3>1. all[i] = ring[i]  BY <2>2, <1>3, <1>1
    <3>2. j - Len(ring) \in 1..Len(entries) /\ all[j] = entries[j - Len(ring)]
      BY <2>2, <1>3
    <3>3. QED  BY <3>1, <3>2, <2>2 DEF Across
  <2>3. CASE i \notin 1..Len(ring)
    <3> DEFINE a == i - Len(ring)
               b == j - Len(ring)
    <3>1. a \in 1..Len(entries) /\ all[i] = entries[a]  BY <2>3, <1>3
    <3>2. j \notin 1..Len(ring)  BY <2>3, <1>1
    <3>3. b \in 1..Len(entries) /\ all[j] = entries[b]  BY <3>2, <1>3
    <3>4. a < b  BY <1>1
    <3> HIDE DEF a, b
    <3>5. QED  BY <3>1, <3>3, <3>4 DEF Sorted
  <2>4. QED  BY <2>1, <2>2, <2>3
<1>5. Across(buffered, all)
  <2> SUFFICES ASSUME NEW i \in 1..Len(buffered), NEW j \in 1..Len(all)
               PROVE  Before(buffered[i], all[j])
    BY DEF Across
  <2>1. CASE j \in 1..Len(ring) /\ all[j] = ring[j]  BY <2>1, <1>1 DEF Across
  <2>2. CASE j - Len(ring) \in 1..Len(entries) /\ all[j] = entries[j - Len(ring)]
    BY <2>2 DEF Across
  <2>3. QED  BY <2>1, <2>2, <1>3
<1>6. ASSUME NEW n \in Nat, UpTo(ring, n), UpTo(entries, n) PROVE UpTo(all, n)
  <2> SUFFICES ASSUME NEW j \in 1..Len(all), Placed(all[j]) PROVE all[j].at <= n
    BY DEF UpTo
  <2>1. CASE j \in 1..Len(ring) /\ all[j] = ring[j]  BY <2>1, <1>6 DEF UpTo
  <2>2. CASE j - Len(ring) \in 1..Len(entries) /\ all[j] = entries[j - Len(ring)]
    BY <2>2, <1>6 DEF UpTo
  <2>3. QED  BY <2>1, <2>2, <1>3
<1>7. ASSUME NEW k \in Nat, Held(ring, k) \/ Held(entries, k) PROVE Held(all, k)
  <2>1. CASE Held(ring, k)
    <3>1. PICK i \in 1..Len(ring) : \/ ring[i].kind = "view" /\ ring[i].at = k
                                    \/ ring[i].kind = "gap" /\ ring[i].at < k
      BY <2>1 DEF Held
    <3>2. i \in 1..Len(all) /\ all[i] = ring[i]  BY <1>1, <1>2
    <3>3. QED  BY <3>1, <3>2 DEF Held
  <2>2. CASE Held(entries, k)
    <3>1. PICK i \in 1..Len(entries) : \/ entries[i].kind = "view" /\ entries[i].at = k
                                       \/ entries[i].kind = "gap" /\ entries[i].at < k
      BY <2>2 DEF Held
    <3> DEFINE j == Len(ring) + i
    <3>2. j \in 1..Len(all) /\ ~(j <= Len(ring)) /\ j - Len(ring) = i  BY <1>1, <1>2
    <3> HIDE DEF j
    <3>3. all[j] = entries[i]  BY <3>2, <1>2
    <3>4. QED  BY <3>1, <3>2, <3>3 DEF Held
  <2>3. QED  BY <1>7, <2>1, <2>2
<1>8. CASE Over /\ ring' = ring /\ lagged' = lagged
  BY <1>1, <1>8 DEF Over, InSetup
<1>9. CASE /\ ~Over /\ ring' \in Seq(Entries)
           /\ \E d \in 0..Len(all) :
                /\ Len(ring') = Len(all) - d
                /\ \A i \in 1..Len(all) - d : ring'[i] = all[i + d]
                /\ lagged' = (lagged \/ d > 0)
                /\ d > 0 /\ InSetup => "lag" \in Faults
  <2>1. PICK d \in 0..Len(all) :
                /\ Len(ring') = Len(all) - d
                /\ \A i \in 1..Len(all) - d : ring'[i] = all[i + d]
                /\ lagged' = (lagged \/ d > 0)
                /\ d > 0 /\ InSetup => "lag" \in Faults
    BY <1>9
  <2>2. \A i \in 1..Len(ring') : i + d \in 1..Len(all) /\ ring'[i] = all[i + d]
    BY <2>1, <1>1, <1>2
  <2>3. Sorted(ring')
    <3> SUFFICES ASSUME NEW i \in 1..Len(ring'), NEW j \in 1..Len(ring'), i < j
                 PROVE  Before(ring'[i], ring'[j])
      BY DEF Sorted
    <3>1. i + d < j + d  BY <1>2, <1>9
    <3>2. QED  BY <3>1, <2>2, <1>4 DEF Sorted
  <2>4. Across(buffered, ring')  BY <2>2, <1>5 DEF Across
  <2>5. \A n \in Nat : UpTo(all, n) => UpTo(ring', n)  BY <2>2 DEF UpTo
  <2>6. ASSUME NEW k \in Nat, Held(all, k)
        PROVE  Held(ring', k) \/ (lagged' /\ Beyond(buffered, k))
    <3>1. PICK i \in 1..Len(all) : \/ all[i].kind = "view" /\ all[i].at = k
                                   \/ all[i].kind = "gap" /\ all[i].at < k
      BY <2>6 DEF Held
    <3>2. CASE i > d
      <4> DEFINE j == i - d
      <4>1. j \in 1..Len(ring') /\ j + d = i  BY <3>2, <2>1, <1>1, <1>2
      <4> HIDE DEF j
      <4>2. ring'[j] = all[i]  BY <4>1, <2>2
      <4>3. QED  BY <3>1, <4>1, <4>2 DEF Held
    <3>3. CASE ~(i > d)
      <4>0. d > 0  BY <3>3, <1>2
      <4>1. d > 0 /\ lagged'  BY <4>0, <2>1
      <4>2. ASSUME NEW b \in 1..Len(buffered), Placed(buffered[b])
            PROVE  buffered[b].at < k
        <5>1. Before(buffered[b], all[i]) /\ Placed(all[i])
          BY <1>5, <3>1 DEF Across, Placed
        <5>2. buffered[b] \in Entries /\ all[i] \in Entries  BY <1>1, <1>2
        <5>3. buffered[b].at \in Nat /\ all[i].at \in Nat  BY <5>2 DEF Entries
        <5>4. QED  BY <3>1, <4>2, <5>1, <5>3 DEF Before
      <4>3. QED  BY <4>1, <4>2 DEF Beyond
    <3>4. QED  BY <3>2, <3>3
  <2>7. QED  BY <2>1, <2>3, <2>4, <2>5, <2>6, <1>6, <1>7
<1>10. QED  BY <1>8, <1>9 DEF Flows, all
(* The host or another session adds entries, in the order of the log, and    *)
(* announces what it commits, now or when its hole is closed.                *)
Announces(entries) ==
  /\ Sorted(entries) /\ Across(ring, entries) /\ Across(buffered, entries)
  /\ hole' # NoHole => UpTo(ring, hole') /\ UpTo(buffered, hole') /\ UpTo(entries, hole')
  /\ \A k \in Nat : hole # NoHole /\ hole < k =>
       Held(entries, k) \/ (hole' # NoHole /\ hole' < k)
  /\ \A k \in 1..Len(log') : k > Len(log) /\ log'[k].type = "item/completed" =>
       Held(entries, k) \/ (hole' # NoHole /\ hole' < k)

LEMMA HostDelivery ==
  ASSUME "lag" \notin Faults, Steady, Typed', DeliveryInv, Logs,
         NEW entries \in Seq(Entries), Flows(entries), Announces(entries),
         UNCHANGED <<fold, buffered, pending, page, more, anchor, ended>>,
         (pc' = pc /\ back' = back) \/ (pc = "cancel" /\ pc' \in {"loop", "end"}),
         turn = "over" => log' = log /\ turn' = "over"
  PROVE  DeliveryInv'
<1>1. /\ Typed /\ log \in Seq(Event) /\ Len(log) \in Nat /\ Len(log') \in Nat
      /\ ring \in Seq(Entries) /\ buffered \in Seq(Entries) /\ lagged \in BOOLEAN
      /\ fold.cursor \in 0..Len(log) /\ anchor \in 0..Len(log)
      /\ hole' \in {NoHole} \union 0..Len(log')
  BY SMTT(30) DEF Steady, Typed, TypeOK
<1>2. /\ Ordered /\ Coming /\ Paged /\ Whole /\ (InSetup => ~lagged)  BY DEF DeliveryInv
<1>3. /\ Sorted(ring') /\ Across(buffered, ring')
      /\ \A n \in Nat : UpTo(ring, n) /\ UpTo(entries, n) => UpTo(ring', n)
      /\ ~Over => \A k \in Nat : Held(ring, k) \/ Held(entries, k) =>
           Held(ring', k) \/ (lagged' /\ Beyond(buffered, k))
      /\ lagged => lagged'
      /\ InSetup /\ lagged' => lagged \/ "lag" \in Faults
  BY <1>1, <1>2, FlowDelivers DEF Announces
<1>4. Ordered'
  <2>1. buffered' = buffered  OBVIOUS
  <2>2. hole' # NoHole => UpTo(buffered, hole') /\ UpTo(ring', hole')
    BY <1>1, <1>3 DEF Announces
  <2>3. Sorted(buffered)' /\ Sorted(ring)' /\ Across(buffered, ring)'
    BY <1>2, <1>3, <2>1 DEF Ordered, Sorted, Across
  <2>4. hole' # NoHole => UpTo(buffered', hole') /\ UpTo(ring', hole')
    BY <2>1, <2>2
  <2>5. (hole # NoHole => UpTo(buffered, hole) /\ UpTo(ring, hole))'  BY <2>4
  <2>6. QED  BY <2>3, <2>5 DEF Ordered
<1>5. (InSetup => ~lagged)'
  <2>1. InSetup' => InSetup  BY DEF InSetup
  <2>2. QED  BY <2>1, <1>2, <1>3
<1>6. /\ InPage' <=> InPage /\ pc' # "end"
      /\ (pc = "ask")' <=> pc = "ask"
      /\ Running' => Running /\ ~Over
  BY DEF Running, Over, InPage, Steady, Control
<1>7. Paged'
  <2>1. InPage' => InPage  BY <1>6
  <2>2. QED  BY <2>1, <1>2 DEF Paged
<1>8. ASSUME Running', NEW k \in 1..Len(log'), Unfed(k)'
      PROVE  /\ k > fold.cursor /\ Promised(k)'
             /\ (pc = "ask")' => k > anchor
             /\ InPage' => k \in page \/ k > anchor
  <2>1. Running /\ ~Over  BY <1>6, <1>8
  <2>2. CASE k \in 1..Len(log)
    <3>1. log'[k] = log[k]  BY <2>2 DEF Logs
    <3>2. Unfed(k)  BY <3>1, <1>8 DEF Unfed
    <3>3. /\ k > fold.cursor /\ Promised(k)
          /\ pc = "ask" => k > anchor
          /\ InPage => k \in page \/ k > anchor
      BY <3>2, <2>1, <2>2, <1>2 DEF Coming
    <3>4. Held(buffered, k) => Promised(k)'
      <4>1. Held(buffered, k) => Held(buffered', k)  OBVIOUS
      <4>2. Held(buffered, k)' <=> Held(buffered', k)  BY DEF Held
      <4>3. QED  BY <4>1, <4>2 DEF Promised
    <3>5. Held(ring', k) => Promised(k)'
      <4>1. Held(ring, k)' <=> Held(ring', k)  BY DEF Held
      <4>2. QED  BY <4>1 DEF Promised
    <3>6. lagged' /\ Beyond(buffered, k) => Promised(k)'
      <4>1. Beyond(buffered, k)' <=> Beyond(buffered', k)  BY DEF Beyond
      <4>2. QED  BY <4>1 DEF Promised
    <3>7. hole' # NoHole /\ hole' < k => Promised(k)'  BY DEF Promised
    <3>8. Held(entries, k) \/ Held(ring, k) => Promised(k)'
      BY <3>5, <3>6, <2>1, <2>2, <1>3
    <3>9. hole # NoHole /\ hole < k => Promised(k)'
      BY <3>7, <3>8, <2>2 DEF Announces
    <3>10. lagged /\ Beyond(buffered, k) => Promised(k)'  BY <3>6, <1>3
    <3>11. pc = "ask" /\ anchor < k => Promised(k)'  BY <1>6 DEF Promised
    <3>12. InPage /\ (k \in page \/ (more /\ anchor < k)) => Promised(k)'
      <4>1. InPage => InPage'  BY <1>8 DEF Running, Over, InPage, Steady, Control
      <4>2. QED  BY <4>1 DEF Promised
    <3>13. Promised(k)'
      BY <3>3, <3>4, <3>8, <3>9, <3>10, <3>11, <3>12 DEF Promised
    <3>14. QED  BY <3>3, <3>13, <1>6
  <2>3. CASE k \notin 1..Len(log)
    <3>1. k > Len(log) /\ k \in Nat  BY <2>3, <1>1
    <3>2. log'[k].type = "item/completed"  BY <1>8 DEF Unfed
    <3>3. Held(entries, k) \/ (hole' # NoHole /\ hole' < k)
      BY <3>1, <3>2, <1>8 DEF Announces
    <3>4. Held(ring', k) => Promised(k)'
      <4>1. Held(ring, k)' <=> Held(ring', k)  BY DEF Held
      <4>2. QED  BY <4>1 DEF Promised
    <3>5. lagged' /\ Beyond(buffered, k) => Promised(k)'
      <4>1. Beyond(buffered, k)' <=> Beyond(buffered', k)  BY DEF Beyond
      <4>2. QED  BY <4>1 DEF Promised
    <3>6. Promised(k)'
      BY <3>1, <3>3, <3>4, <3>5, <2>1, <1>3 DEF Promised
    <3>7. k > fold.cursor /\ k > anchor  BY <3>1, <1>1
    <3>8. QED  BY <3>6, <3>7
  <2>4. QED  BY <2>2, <2>3
<1>9. Coming'  BY <1>8 DEF Coming
<1>10. Whole'
  <2>1. SUFFICES ASSUME pending = Terminal("completed") \/ ended = <<"completed">>
                 PROVE  turn' = "over" /\ \A k \in 1..Len(log') : ~Unfed(k)'
    BY DEF Whole
  <2>2. turn = "over" /\ \A k \in 1..Len(log) : ~Unfed(k)  BY <2>1, <1>2 DEF Whole
  <2>3. log' = log /\ turn' = "over"  BY <2>2
  <2>4. QED  BY <2>2, <2>3 DEF Unfed
<1>11. QED  BY <1>4, <1>5, <1>7, <1>9, <1>10 DEF DeliveryInv
LEMMA OneEntry ==
  ASSUME NEW e \in Entries
  PROVE  /\ <<e>> \in Seq(Entries) /\ Sorted(<<e>>)
         /\ \A s : (\A i \in 1..Len(s) : Before(s[i], e)) => Across(s, <<e>>)
         /\ \A n : (Placed(e) => e.at <= n) => UpTo(<<e>>, n)
         /\ \A k : (e.kind = "view" /\ e.at = k) \/ (e.kind = "gap" /\ e.at < k) =>
              Held(<<e>>, k)
<1>1. /\ <<e>> \in Seq(Entries) /\ Len(<<e>>) = 1 /\ <<e>>[1] = e
      /\ \A i \in 1..Len(<<e>>) : i = 1 /\ 1 \in 1..Len(<<e>>)
  OBVIOUS
<1>2. 1 \in 1..Len(<<e>>)  BY <1>1
<1>3. Sorted(<<e>>)  BY <1>1 DEF Sorted
<1>4. \A s : (\A i \in 1..Len(s) : Before(s[i], e)) => Across(s, <<e>>)
  BY <1>1 DEF Across
<1>5. \A n : (Placed(e) => e.at <= n) => UpTo(<<e>>, n)  BY <1>1 DEF UpTo
<1>6. \A k : (e.kind = "view" /\ e.at = k) \/ (e.kind = "gap" /\ e.at < k) =>
        Held(<<e>>, k)
  BY <1>1, <1>2 DEF Held
<1>7. QED  BY <1>1, <1>3, <1>4, <1>5, <1>6

LEMMA TwoEntries ==
  ASSUME NEW g \in Entries, NEW e \in Entries, Before(g, e)
  PROVE  /\ <<g, e>> \in Seq(Entries) /\ Sorted(<<g, e>>)
         /\ \A s : (\A i \in 1..Len(s) : Before(s[i], g) /\ Before(s[i], e)) =>
              Across(s, <<g, e>>)
         /\ \A k : g.kind = "gap" /\ g.at < k => Held(<<g, e>>, k)
<1>1. /\ <<g, e>> \in Seq(Entries) /\ Len(<<g, e>>) = 2
      /\ <<g, e>>[1] = g /\ <<g, e>>[2] = e
      /\ \A i \in 1..Len(<<g, e>>) : i = 1 \/ i = 2
  OBVIOUS
<1>2. 1 \in 1..Len(<<g, e>>)  BY <1>1
<1>3. Sorted(<<g, e>>)
  <2> SUFFICES ASSUME NEW i \in 1..Len(<<g, e>>), NEW j \in 1..Len(<<g, e>>), i < j
               PROVE  Before(<<g, e>>[i], <<g, e>>[j])
    BY DEF Sorted
  <2>1. i = 1 /\ j = 2  BY <1>1
  <2>2. QED  BY <2>1, <1>1
<1>4. \A s : (\A i \in 1..Len(s) : Before(s[i], g) /\ Before(s[i], e)) =>
        Across(s, <<g, e>>)
  BY <1>1 DEF Across
<1>5. \A k : g.kind = "gap" /\ g.at < k => Held(<<g, e>>, k)  BY <1>1, <1>2 DEF Held
<1>6. QED  BY <1>1, <1>3, <1>4, <1>5

(* Everything sent so far precedes a new event's entry, and the close of the *)
(* hole that was open.                                                       *)
LEMMA SentBefore ==
  ASSUME Typed, Ordered, NEW s \in {ring, buffered}
  PROVE  /\ \A i \in 1..Len(s) : Before(s[i], View(Len(log) + 1))
         /\ hole # NoHole => \A i \in 1..Len(s) : Before(s[i], Gap(hole))
         /\ \A e \in Entries : ~Placed(e) => \A i \in 1..Len(s) : Before(s[i], e)
         /\ UpTo(s, Len(log))
         /\ hole # NoHole => UpTo(s, hole)
<1>1. /\ s \in Seq(Entries) /\ Refers(s) /\ Len(log) \in Nat
      /\ hole \in {NoHole} \union 0..Len(log)
      /\ hole # NoHole => UpTo(s, hole)
  BY DEF Typed, TypeOK, Ordered
<1>2. \A i \in 1..Len(s) : s[i].at \in Nat /\ s[i].at <= Len(log)
  <2>1. \A i \in 1..Len(s) : s[i] \in Entries  BY <1>1
  <2>2. QED  BY <2>1, <1>1 DEF Refers, Entries
<1>3. \A i \in 1..Len(s) : Before(s[i], View(Len(log) + 1))
  BY <1>1, <1>2 DEF Before, View
<1>4. ASSUME hole # NoHole, NEW i \in 1..Len(s) PROVE Before(s[i], Gap(hole))
  <2>1. Placed(s[i]) => s[i].at <= hole  BY <1>1, <1>4 DEF UpTo
  <2>2. hole \in Nat  BY <1>1, <1>4
  <2>3. QED  BY <2>1, <2>2, <1>2 DEF Before, Gap
<1>5. UpTo(s, Len(log))  BY <1>2 DEF UpTo
<1>6. \A e \in Entries : ~Placed(e) => \A i \in 1..Len(s) : Before(s[i], e)
  BY DEF Before
<1>7. QED  BY <1>1, <1>3, <1>4, <1>5, <1>6

(* A view entry that waits to be driven.                                     *)
Shows(s, k) == \E i \in 1..Len(s) : s[i].kind = "view" /\ s[i].at = k

(* What is dropped of an item's deltas tears the item.                       *)
Tears(entries) ==
  /\ torn \subseteq torn'
  /\ \A k \in Nat : Shows(ring', k) => Shows(ring, k) \/ Shows(entries, k)
  /\ ~Over => \A k \in Nat : Shows(ring, k) \/ Shows(entries, k) =>
       Shows(ring', k) \/ (log'[k].type = "item/delta" => log'[k].item \in torn')

LEMMA PushTears ==
  ASSUME Typed, NEW entries \in Seq(Entries), Push(entries)
  PROVE  Tears(entries)
<1> DEFINE all == ring \o entries
<1>1. ring \in Seq(Entries) /\ Len(ring) \in Nat /\ Len(entries) \in Nat
  BY DEF Typed
<1>2. /\ all \in Seq(Entries) /\ Len(all) = Len(ring) + Len(entries)
      /\ \A i \in 1..Len(ring) + Len(entries) :
           all[i] = IF i <= Len(ring) THEN ring[i] ELSE entries[i - Len(ring)]
  BY <1>1, ConcatProperties
<1> HIDE DEF all
<1>3. ASSUME NEW i \in 1..Len(all)
      PROVE  \/ i \in 1..Len(ring) /\ all[i] = ring[i]
             \/ i - Len(ring) \in 1..Len(entries) /\ all[i] = entries[i - Len(ring)]
  BY <1>1, <1>2
<1>4. ASSUME NEW k \in Nat, Shows(ring, k) \/ Shows(entries, k) PROVE Shows(all, k)
  <2>1. CASE Shows(ring, k)
    <3>1. PICK i \in 1..Len(ring) : ring[i].kind = "view" /\ ring[i].at = k
      BY <2>1 DEF Shows
    <3>2. i \in 1..Len(all) /\ all[i] = ring[i]  BY <1>1, <1>2
    <3>3. QED  BY <3>1, <3>2 DEF Shows
  <2>2. CASE Shows(entries, k)
    <3>1. PICK i \in 1..Len(entries) : entries[i].kind = "view" /\ entries[i].at = k
      BY <2>2 DEF Shows
    <3> DEFINE j == Len(ring) + i
    <3>2. j \in 1..Len(all) /\ ~(j <= Len(ring)) /\ j - Len(ring) = i  BY <1>1, <1>2
    <3> HIDE DEF j
    <3>3. all[j] = entries[i]  BY <3>2, <1>2
    <3>4. QED  BY <3>1, <3>2, <3>3 DEF Shows
  <2>3. QED  BY <1>4, <2>1, <2>2
<1>5. CASE Over /\ UNCHANGED wireVars  BY <1>5 DEF Tears, wireVars
<1>6. CASE ~Over /\ ring' \in Seq(Entries) /\ \E d \in 0..Len(all) : Overruns(entries, d)
  <2>1. PICK d \in 0..Len(all) : Overruns(entries, d)  BY <1>6
  <2> DEFINE cut == SubSeq(all, 1, d)
  <2>2. /\ Len(ring') = Len(all) - d
        /\ \A i \in 1..Len(all) - d : ring'[i] = all[i + d]
        /\ torn' = torn \union DeltasOf(cut)
    BY <2>1 DEF Overruns, all
  <2>3. Len(cut) = d /\ DOMAIN cut = 1..d /\ \A i \in 1..d : cut[i] = all[i]
    <3>1. d \in Nat /\ \A i \in 1..d : all[i] \in Entries  BY <1>1, <1>2
    <3>2. /\ cut \in Seq(Entries) /\ Len(cut) = IF 1 <= d THEN d - 1 + 1 ELSE 0
          /\ \A i \in 1..d - 1 + 1 : cut[i] = all[1 + i - 1]
      BY <3>1, SubSeqProperties
    <3> HIDE DEF cut
    <3>3. Len(cut) = d  BY <3>1, <3>2
    <3>4. ASSUME NEW i \in 1..d PROVE cut[i] = all[i]
      <4>1. i \in 1..d - 1 + 1 /\ 1 + i - 1 = i  BY <3>1
      <4>2. QED  BY <4>1, <3>2
    <3>5. QED  BY <3>2, <3>3, <3>4
  <2> HIDE DEF cut
  <2>4. ASSUME NEW k \in Nat, Shows(ring', k)
        PROVE  Shows(ring, k) \/ Shows(entries, k)
    <3>1. PICK j \in 1..Len(ring') : ring'[j].kind = "view" /\ ring'[j].at = k
      BY <2>4 DEF Shows
    <3> DEFINE i == j + d
    <3>2. i \in 1..Len(all) /\ ring'[j] = all[i]  BY <2>2, <1>1, <1>2
    <3> HIDE DEF i
    <3>3. QED  BY <3>1, <3>2, <1>3 DEF Shows
  <2>5. ASSUME NEW k \in Nat, Shows(all, k), log'[k].type = "item/delta"
        PROVE  Shows(ring', k) \/ log'[k].item \in torn'
    <3>1. PICK i \in 1..Len(all) : all[i].kind = "view" /\ all[i].at = k
      BY <2>5 DEF Shows
    <3>2. CASE i > d
      <4> DEFINE j == i - d
      <4>1. j \in 1..Len(ring') /\ j + d = i  BY <3>2, <2>2, <1>1, <1>2
      <4> HIDE DEF j
      <4>2. ring'[j] = all[i]  BY <4>1, <2>2
      <4>3. QED  BY <3>1, <4>1, <4>2 DEF Shows
    <3>3. CASE ~(i > d)
      <4>1. i \in 1..d  BY <3>3, <1>1, <1>2
      <4>2. i \in DOMAIN cut /\ cut[i].kind = "view" /\ cut[i].at = k
        BY <4>1, <3>1, <2>3
      <4>3. log'[k].item \in DeltasOf(cut)  BY <4>2, <2>5 DEF DeltasOf
      <4>4. QED  BY <4>3, <2>2
    <3>4. QED  BY <3>2, <3>3
  <2>6. QED  BY <2>2, <2>4, <2>5, <1>4 DEF Tears
<1>7. QED  BY <1>5, <1>6, PushMeans DEF all

LEMMA NothingTears ==
  ASSUME ring' = ring, torn \subseteq torn'
  PROVE  Tears(<<>>)
<1>1. \A k : ~Shows(<<>>, k)  BY DEF Shows
<1>2. QED  BY <1>1 DEF Tears, Shows

(* An action of the host or of another session: the entries it sends, the    *)
(* new event's among them unless it is skipped.                              *)
Sends(entries) ==
  /\ entries \in Seq(Entries) /\ Flows(entries) /\ Announces(entries) /\ Tears(entries)
  /\ \A k \in Nat : Shows(entries, k) => k > Len(log)
  /\ \A k \in 1..Len(log') : k > Len(log) /\ log'[k].type = "item/delta" =>
       Shows(entries, k) \/ log'[k].item \in torn'
  /\ UNCHANGED <<fold, buffered, pending, page, more, anchor, ended, sent, gone>>
  /\ (pc' = pc /\ back' = back) \/ (pc = "cancel" /\ pc' \in {"loop", "end"})
  /\ turn = "over" => log' = log /\ turn' = "over"

LEMMA OneShown ==
  ASSUME NEW e, NEW k
  PROVE  Shows(<<e>>, k) <=> e.kind = "view" /\ e.at = k
<1>1. Len(<<e>>) = 1 /\ <<e>>[1] = e /\ \A i \in 1..Len(<<e>>) : i = 1  OBVIOUS
<1>2. 1 \in 1..Len(<<e>>)  BY <1>1
<1>3. QED  BY <1>1, <1>2 DEF Shows

LEMMA HostSends ==
  ASSUME Steady, Ordered,
         HostEvent \/ HostSkips \/ HostGap \/ OtherSession \/ CancelTurn
  PROVE  \E entries : Sends(entries)
<1>1. /\ Typed /\ Ordered /\ Len(log) \in Nat
      /\ hole \in {NoHole} \union 0..Len(log) /\ lagged \in BOOLEAN
  BY DEF Steady, Typed, TypeOK
<1>2. /\ View(Len(log) + 1) \in Entries /\ View(Len(log) + 1).kind = "view"
      /\ View(Len(log) + 1).at = Len(log) + 1
      /\ Approval \in Entries /\ ~Placed(Approval) /\ Other \in Entries /\ ~Placed(Other)
      /\ hole # NoHole => /\ Gap(hole) \in Entries /\ Gap(hole).kind = "gap"
                          /\ Gap(hole).at = hole /\ hole \in Nat
  BY <1>1 DEF View, Approval, Other, Gap, Entries, Placed
<1>3. \A s \in {ring, buffered} :
         /\ \A i \in 1..Len(s) : Before(s[i], View(Len(log) + 1))
         /\ hole # NoHole => \A i \in 1..Len(s) : Before(s[i], Gap(hole))
         /\ \A e \in Entries : ~Placed(e) => \A i \in 1..Len(s) : Before(s[i], e)
         /\ UpTo(s, Len(log))
         /\ hole # NoHole => UpTo(s, hole)
  BY <1>1, SentBefore
<1>4. \A e : Commits(e) => /\ Len(log') = Len(log) + 1 /\ log'[Len(log) + 1] = e
                           /\ \A k \in 1..Len(log') : k > Len(log) => k = Len(log) + 1
  BY <1>1, CommitTyped
<1> USE DEF hostVars, driverVars, pageVars, outVars
<1>5. CASE HostEvent
  <2> DEFINE e == IF NextEvent.type = "approval" THEN Approval ELSE View(Len(log) + 1)
  <2>1. /\ Push(<<e>>) /\ hole = NoHole /\ hole' = hole /\ turn # "over"
        /\ Commits(NextEvent)
        /\ UNCHANGED <<fold, buffered, pending, page, more, anchor, ended, sent, gone,
                       pc, back>>
    BY <1>5 DEF HostEvent, Playing, Commits
  <2>2. e \in Entries /\ \A s \in {ring, buffered} : \A i \in 1..Len(s) : Before(s[i], e)
    BY <1>2, <1>3
  <2>3. ASSUME NEW k \in 1..Len(log'), k > Len(log), log'[k].type # "approval"
        PROVE  e.kind = "view" /\ e.at = k
    BY <2>1, <2>3, <1>2, <1>4
  <2>4. e.kind = "view" => e.at = Len(log) + 1  BY <1>2 DEF Placed
  <2> HIDE DEF e
  <2>5. Announces(<<e>>) /\ <<e>> \in Seq(Entries)
    BY <2>1, <2>2, <2>3, OneEntry DEF Announces
  <2>6. Flows(<<e>>) /\ Tears(<<e>>)  BY <2>1, <2>5, <1>1, PushFlows, PushTears
  <2>7. \A k \in Nat : Shows(<<e>>, k) => k > Len(log)  BY <2>4, <1>1, OneShown
  <2>8. \A k \in 1..Len(log') : k > Len(log) /\ log'[k].type = "item/delta" =>
          Shows(<<e>>, k)
    BY <2>3, OneShown
  <2>9. Sends(<<e>>)  BY <2>1, <2>5, <2>6, <2>7, <2>8 DEF Sends
  <2>10. QED  BY <2>9
<1>6. \A k : ~Shows(<<>>, k)  BY DEF Shows
<1>7. /\ Sorted(<<>>) /\ Across(ring, <<>>) /\ Across(buffered, <<>>)
      /\ \A n : UpTo(<<>>, n)
  BY DEF Sorted, Across, UpTo
<1>8. CASE HostSkips
  <2>1. /\ ring' = ring /\ lagged' = lagged /\ turn # "over"
        /\ hole' = IF hole = NoHole THEN Len(log) ELSE hole
        /\ Commits(NextEvent)
        /\ UNCHANGED <<fold, buffered, pending, page, more, anchor, ended, sent, gone,
                       pc, back>>
        /\ torn' = IF NextEvent.type = "item/delta" THEN torn \union {NextEvent.item}
                   ELSE torn
    BY <1>8 DEF HostSkips, Playing, Commits
  <2>2. <<>> \in Seq(Entries) /\ Flows(<<>>) /\ Tears(<<>>)
    BY <2>1, <1>1, NothingFlows, NothingTears
  <2>3. UpTo(ring, hole') /\ UpTo(buffered, hole')  BY <2>1, <1>3
  <2>4. hole' # NoHole /\ hole' <= Len(log) /\ (hole # NoHole => hole' = hole)
    BY <2>1, <1>1 DEF NoHole
  <2>5. \A k \in 1..Len(log') : k > Len(log) => hole' < k
    BY <2>1, <2>4, <1>1, <1>4
  <2>6. Announces(<<>>)  BY <1>7, <2>3, <2>4, <2>5 DEF Announces
  <2>7. \A k \in 1..Len(log') : k > Len(log) /\ log'[k].type = "item/delta" =>
          log'[k].item \in torn'
    BY <2>1, <1>4
  <2>8. Sends(<<>>)  BY <2>1, <2>2, <2>6, <2>7, <1>6 DEF Sends
  <2>9. QED  BY <2>8
<1>9. CASE HostGap
  <2>1. /\ Push(<<Gap(hole)>>) /\ hole # NoHole /\ hole' = NoHole /\ log' = log
        /\ turn' = turn
        /\ UNCHANGED <<fold, buffered, pending, page, more, anchor, ended, sent, gone,
                       pc, back>>
    BY <1>9 DEF HostGap
  <2> DEFINE g == Gap(hole)
  <2>2. /\ g \in Entries /\ g.kind = "gap" /\ g.at = hole
        /\ \A s \in {ring, buffered} : \A i \in 1..Len(s) : Before(s[i], g)
    BY <2>1, <1>2, <1>3
  <2> HIDE DEF g
  <2>3. \A k \in 1..Len(log') : ~(k > Len(log))  BY <2>1, <1>1
  <2>4. Announces(<<g>>) /\ <<g>> \in Seq(Entries)
    BY <2>1, <2>2, <2>3, OneEntry DEF Announces
  <2>5. Flows(<<g>>) /\ Tears(<<g>>)
    BY <2>1, <2>4, <1>1, PushFlows, PushTears DEF g
  <2>6. \A k : ~Shows(<<g>>, k)  BY <2>2, OneShown
  <2>7. Sends(<<g>>)  BY <2>1, <2>3, <2>4, <2>5, <2>6 DEF Sends
  <2>8. QED  BY <2>7
<1>10. CASE OtherSession
  <2>1. /\ Push(<<Other>>) /\ hole' = hole /\ log' = log /\ turn' = turn
        /\ UNCHANGED <<fold, buffered, pending, page, more, anchor, ended, sent, gone,
                       pc, back>>
    BY <1>10 DEF OtherSession
  <2>2. \A k \in 1..Len(log') : ~(k > Len(log))  BY <2>1, <1>1
  <2> DEFINE e == Other
  <2>3. e \in Entries /\ ~Placed(e)  BY <1>2
  <2>4. Push(<<e>>)  BY <2>1
  <2> HIDE DEF e
  <2>5. <<e>> \in Seq(Entries) /\ Sorted(<<e>>) /\ \A n : UpTo(<<e>>, n)
    BY <2>3, OneEntry
  <2>6. Across(ring, <<e>>) /\ Across(buffered, <<e>>)  BY <2>3, <1>3, OneEntry
  <2>7. Announces(<<e>>)  BY <2>1, <2>2, <2>5, <2>6, <1>3 DEF Announces
  <2>8. Flows(<<e>>) /\ Tears(<<e>>)  BY <2>4, <2>5, <1>1, PushFlows, PushTears
  <2>9. \A k : ~Shows(<<e>>, k)  BY <2>3, OneShown DEF Placed
  <2>10. Sends(<<e>>)  BY <2>1, <2>2, <2>5, <2>7, <2>8, <2>9 DEF Sends
  <2>11. QED  BY <2>10
<1>11. CASE CancelTurn
  <2>1. /\ pc = "cancel" /\ pc' = back /\ HostCancels
        /\ UNCHANGED <<script, fold, buffered, pending, page, more, anchor, ended, sent,
                       gone>>
    BY <1>11 DEF CancelTurn
  <2>2. pc' \in {"loop", "end"}  BY <2>1 DEF Steady, Control
  <2>3. CASE dead \/ turn # "running"
    <3>1. /\ log' = log /\ hole' = hole /\ turn' = turn /\ ring' = ring /\ lagged' = lagged
          /\ torn' = torn
      BY <2>1, <2>3 DEF HostCancels, wireVars
    <3>2. <<>> \in Seq(Entries) /\ Flows(<<>>) /\ Tears(<<>>)
      BY <3>1, <1>1, NothingFlows, NothingTears
    <3>3. \A k \in 1..Len(log') : ~(k > Len(log))  BY <3>1, <1>1
    <3>4. Announces(<<>>)  BY <3>1, <3>3, <1>3, <1>7 DEF Announces
    <3>5. Sends(<<>>)  BY <2>1, <2>2, <3>1, <3>2, <3>3, <3>4, <1>6 DEF Sends
    <3>6. QED  BY <3>5
  <2>4. CASE ~(dead \/ turn # "running")
    <3> DEFINE e == View(Len(log) + 1)
               g == Gap(hole)
               entries == IF hole = NoHole THEN <<e>> ELSE <<g, e>>
    <3>1. /\ Commits(TurnEvent("cancelled", 0)) /\ hole' = NoHole /\ turn # "over"
          /\ Push(entries)
      BY <2>1, <2>4 DEF HostCancels, Commits
    <3>2. \A k \in 1..Len(log') : k > Len(log) => log'[k].type = "cancelled"
      BY <3>1, <1>4 DEF TurnEvent
    <3>3. /\ entries \in Seq(Entries) /\ Sorted(entries)
          /\ Across(ring, entries) /\ Across(buffered, entries)
          /\ \A k \in Nat : hole # NoHole /\ hole < k => Held(entries, k)
          /\ \A k \in Nat : Shows(entries, k) => k > Len(log)
      <4>0. e.kind = "view" /\ e.at = Len(log) + 1  BY <1>2
      <4>1. CASE hole = NoHole
        <5>1. e \in Entries  BY <1>2
        <5>2. \A s \in {ring, buffered} : \A i \in 1..Len(s) : Before(s[i], e)  BY <1>3
        <5>3. entries = <<e>>  BY <4>1
        <5> HIDE DEF e, entries
        <5>4. \A k \in Nat : Shows(entries, k) => k > Len(log)
          BY <5>3, <4>0, <1>1, OneShown
        <5>5. QED  BY <5>1, <5>2, <5>3, <5>4, <4>1, OneEntry
      <4>2. CASE hole # NoHole
        <5>1. e \in Entries /\ g \in Entries /\ g.kind = "gap" /\ g.at = hole
          BY <4>2, <1>2
        <5>2. \A s \in {ring, buffered} :
                \A i \in 1..Len(s) : Before(s[i], g) /\ Before(s[i], e)
          BY <4>2, <1>3
        <5>3. entries = <<g, e>>  BY <4>2
        <5>4. Before(g, e)  BY <4>2, <1>1, <1>2 DEF Before
        <5> HIDE DEF e, g, entries
        <5>5. \A k \in Nat : Shows(entries, k) => k > Len(log)
          <6>1. /\ Len(<<g, e>>) = 2 /\ <<g, e>>[1] = g /\ <<g, e>>[2] = e
                /\ \A i \in 1..Len(<<g, e>>) : i = 1 \/ i = 2
            OBVIOUS
          <6>2. QED  BY <6>1, <5>1, <5>3, <4>0, <1>1 DEF Shows
        <5>6. QED  BY <5>1, <5>2, <5>3, <5>4, <5>5, TwoEntries
      <4>3. QED  BY <4>1, <4>2
    <3> HIDE DEF entries
    <3>4. Announces(entries)  BY <3>1, <3>2, <3>3 DEF Announces
    <3>5. Flows(entries) /\ Tears(entries)
      BY <3>1, <3>3, <1>1, PushFlows, PushTears
    <3>6. Sends(entries)  BY <2>1, <2>2, <3>1, <3>2, <3>3, <3>4, <3>5 DEF Sends
    <3>7. QED  BY <3>6
  <2>5. QED  BY <2>3, <2>4
<1>12. QED  BY <1>5, <1>8, <1>9, <1>10, <1>11

LEMMA HostSteps ==
  ASSUME "lag" \notin Faults, Steady, Typed', DeliveryInv, Logs,
         HostEvent \/ HostSkips \/ HostGap \/ OtherSession \/ CancelTurn
  PROVE  DeliveryInv'
<1>1. PICK entries : Sends(entries)  BY HostSends DEF DeliveryInv
<1>2. /\ entries \in Seq(Entries) /\ Flows(entries) /\ Announces(entries)
      /\ UNCHANGED <<fold, buffered, pending, page, more, anchor, ended>>
      /\ (pc' = pc /\ back' = back) \/ (pc = "cancel" /\ pc' \in {"loop", "end"})
      /\ turn = "over" => log' = log /\ turn' = "over"
  BY <1>1 DEF Sends
<1>3. QED  BY <1>2, HostDelivery

(* Taking the first entry keeps the order, and what it does not announce is  *)
(* announced later on and lies beyond it.                                    *)
LEMMA TakeOrdered ==
  ASSUME NEW s \in Seq(Entries), s # <<>>, Sorted(s), NEW t \in Seq(Entries)
  PROVE  /\ Sorted(Tail(s))
         /\ Across(s, t) => Across(Tail(s), t)
         /\ Across(t, s) => Across(t, Tail(s))
         /\ \A n : UpTo(s, n) => UpTo(Tail(s), n)
         /\ \A n : UpTo(s, n) /\ Placed(Head(s)) => Head(s).at <= n
         /\ \A k : Beyond(s, k) =>
              Beyond(Tail(s), k) /\ (Placed(Head(s)) => Head(s).at < k)
<1>1. /\ Tail(s) \in Seq(Entries) /\ Len(Tail(s)) = Len(s) - 1 /\ Len(s) \in Nat \ {0}
      /\ \A i \in 1..Len(Tail(s)) : Tail(s)[i] = s[i + 1]
      /\ Head(s) = s[1]
  BY HeadTailProperties
<1> DEFINE u == Tail(s)
<1>2. \A i \in 1..Len(u) : i + 1 \in 1..Len(s) /\ u[i] = s[i + 1]  BY <1>1
<1>3. 1 \in 1..Len(s) /\ Head(s) = s[1]  BY <1>1
<1>4. \A i, j \in 1..Len(u) : i < j => i + 1 < j + 1  BY <1>1
<1> HIDE DEF u
<1>5. Sorted(u)  BY <1>2, <1>4 DEF Sorted
<1>6. Across(s, t) => Across(u, t)  BY <1>2 DEF Across
<1>7. Across(t, s) => Across(t, u)  BY <1>2 DEF Across
<1>8. \A n : UpTo(s, n) => UpTo(u, n)  BY <1>2 DEF UpTo
<1>9. \A n : UpTo(s, n) /\ Placed(Head(s)) => Head(s).at <= n  BY <1>3 DEF UpTo
<1>10. \A k : Beyond(s, k) => Beyond(u, k) /\ (Placed(Head(s)) => Head(s).at < k)
  BY <1>2, <1>3 DEF Beyond
<1>11. QED  BY <1>5, <1>6, <1>7, <1>8, <1>9, <1>10 DEF u

LEMMA BeforeHeld ==
  ASSUME NEW e \in Entries, Placed(e), NEW t \in Seq(Entries), NEW k \in Nat,
         NEW i \in 1..Len(t), Before(e, t[i]),
         \/ t[i].kind = "view" /\ t[i].at = k
         \/ t[i].kind = "gap" /\ t[i].at < k
  PROVE  e.at < k
<1>1. t[i] \in Entries /\ Placed(t[i])  BY DEF Placed
<1>2. e.at \in Nat /\ t[i].at \in Nat  BY <1>1 DEF Entries
<1>3. QED  BY <1>1, <1>2 DEF Before

LEMMA TakeHeld ==
  ASSUME NEW s \in Seq(Entries), s # <<>>, Sorted(s), NEW k \in Nat, Held(s, k)
  PROVE  \/ Head(s).kind = "view" /\ Head(s).at = k
         \/ Head(s).kind = "gap" /\ Head(s).at < k
         \/ Held(Tail(s), k) /\ (Placed(Head(s)) => Head(s).at < k)
<1>1. /\ Tail(s) \in Seq(Entries) /\ Len(Tail(s)) = Len(s) - 1 /\ Len(s) \in Nat \ {0}
      /\ \A i \in 1..Len(Tail(s)) : Tail(s)[i] = s[i + 1]
      /\ Head(s) = s[1] /\ Head(s) \in Entries
  BY HeadTailProperties
<1>2. PICK i \in 1..Len(s) : \/ s[i].kind = "view" /\ s[i].at = k
                             \/ s[i].kind = "gap" /\ s[i].at < k
  BY DEF Held
<1>3. CASE i = 1  BY <1>1, <1>2, <1>3
<1>4. CASE i # 1
  <2> DEFINE j == i - 1
  <2>1. j \in 1..Len(Tail(s)) /\ j + 1 = i /\ 1 < i /\ 1 \in 1..Len(s)  BY <1>1, <1>4
  <2> HIDE DEF j
  <2>2. Tail(s)[j] = s[i]  BY <1>1, <2>1
  <2>3. Held(Tail(s), k)  BY <1>2, <2>1, <2>2 DEF Held
  <2>4. Before(s[1], s[i])  BY <2>1 DEF Sorted
  <2>5. Placed(Head(s)) => Head(s).at < k  BY <1>1, <1>2, <2>4, BeforeHeld
  <2>6. QED  BY <2>3, <2>5
<1>5. QED  BY <1>3, <1>4

LEMMA AcrossHeld ==
  ASSUME NEW s \in Seq(Entries), s # <<>>, NEW t \in Seq(Entries), Across(s, t),
         NEW k \in Nat, Held(t, k), Placed(Head(s))
  PROVE  Head(s).at < k
<1>1. Head(s) = s[1] /\ Head(s) \in Entries /\ 1 \in 1..Len(s)
  <2>1. Len(s) \in Nat \ {0}  OBVIOUS
  <2>2. QED  BY <2>1, HeadTailProperties
<1>2. PICK i \in 1..Len(t) : \/ t[i].kind = "view" /\ t[i].at = k
                             \/ t[i].kind = "gap" /\ t[i].at < k
  BY DEF Held
<1>3. Before(s[1], t[i])  BY <1>1 DEF Across
<1>4. QED  BY <1>1, <1>2, <1>3, BeforeHeld

(* The driver takes an entry: what the fold lacks is the entry itself, or    *)
(* lies beyond it, and then a gap promises it or something else still does.  *)
Takes(e) ==
  \/ /\ pc = "loop" /\ buffered # <<>> /\ e = Head(buffered)
     /\ buffered' = Tail(buffered) /\ ring' = ring
  \/ /\ pc = "select" /\ ring # <<>> /\ ~lagged /\ e = Head(ring)
     /\ ring' = Tail(ring) /\ buffered' = buffered
Kept(k) ==
  \/ Held(buffered', k) \/ Held(ring', k) \/ (hole # NoHole /\ hole < k)
  \/ lagged /\ Beyond(buffered', k)

LEMMA TakesDelivery ==
  ASSUME Steady, DeliveryInv, NEW e, Takes(e), NEW k \in 1..Len(log), Unfed(k)
  PROVE  \/ e.kind = "view" /\ e.at = k
         \/ (Placed(e) => e.at < k) /\ (e.kind = "gap" \/ Kept(k))
<1>1. /\ ring \in Seq(Entries) /\ buffered \in Seq(Entries) /\ k \in Nat
      /\ hole \in {NoHole} \union 0..Len(log) /\ Len(log) \in Nat
  BY DEF Steady, Typed, TypeOK
<1>2. /\ Sorted(buffered) /\ Sorted(ring) /\ Across(buffered, ring)
      /\ hole # NoHole => UpTo(buffered, hole) /\ UpTo(ring, hole)
  BY DEF DeliveryInv, Ordered
<1>3. ~Over /\ ~InPage /\ pc # "ask" /\ Running
  <2>1. pc \in {"loop", "select"}  BY DEF Takes
  <2>2. pending.kind = "none"  BY <2>1, AtRest DEF Steady
  <2>3. QED  BY <2>1, <2>2 DEF Over, InPage, Running
<1>4. Promised(k)  BY <1>3 DEF DeliveryInv, Coming
<1>5. \/ Held(buffered, k) \/ Held(ring, k) \/ (hole # NoHole /\ hole < k)
      \/ lagged /\ Beyond(buffered, k)
  BY <1>3, <1>4 DEF Promised
<1>6. CASE /\ pc = "loop" /\ buffered # <<>> /\ e = Head(buffered)
           /\ buffered' = Tail(buffered) /\ ring' = ring
  <2>1. e \in Entries /\ e.at \in Nat
    <3>1. e \in Entries  BY <1>1, <1>6, HeadTailProperties
    <3>2. QED  BY <3>1 DEF Entries
  <2>2. CASE Held(buffered, k)
    BY <2>2, <1>1, <1>2, <1>6, TakeHeld DEF Kept, Placed
  <2>3. CASE Held(ring, k)
    <3>1. Placed(e) => e.at < k  BY <2>3, <1>1, <1>2, <1>6, AcrossHeld
    <3>2. QED  BY <3>1, <2>3, <1>6 DEF Kept
  <2>4. CASE hole # NoHole /\ hole < k
    <3>1. Placed(e) => e.at <= hole  BY <2>4, <1>1, <1>2, <1>6, TakeOrdered
    <3>2. Placed(e) => e.at < k  BY <3>1, <2>1, <2>4, <1>1
    <3>3. QED  BY <3>2, <2>4 DEF Kept
  <2>5. CASE lagged /\ Beyond(buffered, k)
    BY <2>5, <1>1, <1>2, <1>6, TakeOrdered DEF Kept
  <2>6. QED  BY <1>5, <2>2, <2>3, <2>4, <2>5
<1>7. CASE /\ pc = "select" /\ ring # <<>> /\ ~lagged /\ e = Head(ring)
           /\ ring' = Tail(ring) /\ buffered' = buffered
  <2>1. e \in Entries /\ e.at \in Nat
    <3>1. e \in Entries  BY <1>1, <1>7, HeadTailProperties
    <3>2. QED  BY <3>1 DEF Entries
  <2>2. ~Held(buffered, k)
    <3>1. buffered = <<>>  BY <1>7 DEF Steady, Control
    <3>2. QED  BY <3>1 DEF Held
  <2>3. CASE Held(ring, k)
    BY <2>3, <1>1, <1>2, <1>7, TakeHeld DEF Kept, Placed
  <2>4. CASE hole # NoHole /\ hole < k
    <3>1. Placed(e) => e.at <= hole  BY <2>4, <1>1, <1>2, <1>7, TakeOrdered
    <3>2. Placed(e) => e.at < k  BY <3>1, <2>1, <2>4, <1>1
    <3>3. QED  BY <3>2, <2>4 DEF Kept
  <2>5. QED  BY <1>5, <1>7, <2>2, <2>3, <2>4
<1>8. QED  BY <1>6, <1>7 DEF Takes

(* A fed event is no longer lacking, and the rest is as it was.              *)
LEMMA FeedUnfed ==
  ASSUME Steady, pc # "send", pc # "end", NEW c \in 1..Len(log), NEW resume,
         FeedAt(c, resume), log' = log
  PROVE  /\ fold'.cursor = c
         /\ \A k \in 1..Len(log) : Unfed(k)' => Unfed(k) /\ k # c
         /\ pending' = Terminal("completed") => log[c].type = "completed"
<1> DEFINE e == log[c]
<1>1. /\ Feeds(fold, c, e, fold', pending') /\ WellLogged /\ ~fold.settled
      /\ fold \in Folds
  BY FeedAtFeeds, TypedLog, AtRest DEF Steady, Typed
<1>2. /\ fold'.cursor = c
      /\ pending' = Terminal("completed") => e.type = "completed"
      /\ e.type \in ItemObjects => fold'.rev[e.item] >= e.rev
      /\ \A i \in Items : fold'.rev[i] # fold.rev[i] => fold.rev[i] < fold'.rev[i]
      /\ fold' \in Folds
  BY <1>1 DEF Feeds
<1>3. ASSUME NEW k \in 1..Len(log), Unfed(k)' PROVE Unfed(k) /\ k # c
  <2> DEFINE i == log[k].item
  <2>1. log[k].type = "item/completed" /\ fold'.rev[i] < log[k].rev
    BY <1>3 DEF Unfed
  <2>2. i \in Items /\ log[k].rev \in Nat /\ log[k].type \in ItemObjects
    BY <1>1, <2>1 DEF WellLogged, Wellformed, Event, Objects, ItemObjects
  <2>3. fold'.rev[i] \in Nat /\ fold.rev[i] \in Nat  BY <1>1, <1>2, <2>2 DEF Folds
  <2>4. fold.rev[i] < log[k].rev  BY <1>2, <2>1, <2>2, <2>3
  <2>5. k # c  BY <1>2, <2>1, <2>2, <2>3
  <2>6. QED  BY <2>1, <2>4, <2>5 DEF Unfed
<1>4. QED  BY <1>2, <1>3
(* A step that neither feeds, sends, takes nor pages.                        *)
LEMMA QuietDelivery ==
  ASSUME DeliveryInv,
         UNCHANGED <<log, fold, pending, ring, lagged, buffered, hole, page, more,
                     anchor, ended>>,
         turn = "over" => turn' = "over",
         \/ pc' = pc /\ back' = back
         \/ /\ pc \notin {"ask", "page", "send"} /\ pc' \notin {"ask", "page", "send"}
            /\ (InSetup' => InSetup) /\ (Over => Over')
  PROVE  DeliveryInv'
<1>1. /\ Ordered /\ Coming /\ Paged /\ Whole /\ (InSetup => ~lagged)  BY DEF DeliveryInv
<1>2. Ordered'  BY <1>1 DEF Ordered, Sorted, Across, UpTo
<1>3. InSetup' => InSetup  BY DEF InSetup
<1>4. /\ InPage' <=> InPage
      /\ (pc = "ask")' <=> pc = "ask"
      /\ Running' => Running
  BY DEF InPage, Running, Over
<1>5. ASSUME NEW k \in 1..Len(log) PROVE /\ Promised(k) => Promised(k)'
                                         /\ Unfed(k)' => Unfed(k)
  BY <1>4 DEF Promised, Unfed, Held, Beyond
<1>6. Coming'  BY <1>1, <1>4, <1>5 DEF Coming
<1>7. Paged'  BY <1>1, <1>4 DEF Paged
<1>8. Whole'  BY <1>1 DEF Whole, Unfed
<1>9. QED  BY <1>1, <1>2, <1>3, <1>6, <1>7, <1>8 DEF DeliveryInv

(* The driver takes an entry and drives it.                                  *)
LEMMA TakeStep ==
  ASSUME Steady, DeliveryInv, DriveBuffered \/ SelectEvent
  PROVE  DeliveryInv'
<1>1. /\ ring \in Seq(Entries) /\ Refers(ring) /\ buffered \in Seq(Entries)
      /\ Refers(buffered) /\ Len(log) \in Nat /\ hole \in {NoHole} \union 0..Len(log)
  BY DEF Steady, Typed, TypeOK
<1>2. Ordered /\ Whole  BY DEF DeliveryInv
<1>3. PICK e : /\ Takes(e) /\ DriveEvent(e) /\ pc \in {"loop", "select"}
               /\ UNCHANGED <<log, turn, hole, ended>> /\ lagged' = lagged
  <2>1. DriveBuffered => Takes(Head(buffered)) /\ DriveEvent(Head(buffered))
    BY DEF DriveBuffered, Takes, wireVars
  <2>2. SelectEvent => Takes(Head(ring)) /\ DriveEvent(Head(ring))
    BY DEF SelectEvent, Takes
  <2>3. /\ pc \in {"loop", "select"} /\ UNCHANGED <<log, turn, hole, ended>>
        /\ lagged' = lagged
    BY DEF DriveBuffered, SelectEvent, hostVars, wireVars, outVars
  <2>4. QED  BY <2>1, <2>2, <2>3
<1>4. /\ e \in Entries /\ (e.kind = "view" => e.at \in 1..Len(log))
  BY <1>1, <1>3, TakeTyped DEF Takes
<1>5. Sorted(buffered') /\ Sorted(ring') /\ Across(buffered', ring')
      /\ (hole # NoHole => UpTo(buffered', hole) /\ UpTo(ring', hole))
  BY <1>1, <1>2, <1>3, TakeOrdered DEF Takes, Ordered
<1>6. Ordered'
  <2>1. hole' = hole  BY <1>3
  <2>2. hole' # NoHole => UpTo(buffered', hole') /\ UpTo(ring', hole')
    BY <1>5, <2>1
  <2>3. Sorted(buffered)' /\ Sorted(ring)' /\ Across(buffered, ring)'
    BY <1>5 DEF Sorted, Across
  <2>4. (hole # NoHole => UpTo(buffered, hole) /\ UpTo(ring, hole))'
    BY <2>2 DEF UpTo
  <2>5. QED  BY <2>3, <2>4 DEF Ordered
<1>7. pending = Silence /\ ~fold.settled /\ ended = <<>>
  BY <1>3, AtRest DEF Steady, Closing
<1>8. /\ pc' \in {"loop", "send", "ask", "decide"} /\ (pc' = "send" => back' = "loop")
      /\ (fold'.settled => pending'.kind = "terminal")
  BY <1>3, <1>4, DriveControl DEF Steady
<1>9. ~InSetup' /\ ~InPage'  BY <1>8 DEF InSetup, InPage
<1>10. Paged'  BY <1>9 DEF Paged
<1>11. \A k \in 1..Len(log) : Kept(k) => Promised(k)'
  BY <1>3 DEF Kept, Promised, Held, Beyond
<1>12. \A k \in 1..Len(log) : Unfed(k) =>
         \/ e.kind = "view" /\ e.at = k
         \/ (Placed(e) => e.at < k) /\ (e.kind = "gap" \/ Kept(k))
  BY <1>3, TakesDelivery
<1>13. \A k \in 1..Len(log) : Unfed(k) => k > fold.cursor
  <2>1. Running  BY <1>3, <1>7 DEF Running, Over, Silence
  <2>2. QED  BY <2>1 DEF DeliveryInv, Coming
<1>14. CASE e.kind = "view"
  <2>1. FeedAt(e.at, "loop")  BY <1>3, <1>14 DEF DriveEvent
  <2>2. /\ fold'.cursor = e.at
        /\ \A k \in 1..Len(log) : Unfed(k)' => Unfed(k) /\ k # e.at
        /\ pending' = Terminal("completed") => log[e.at].type = "completed"
    BY <2>1, <1>3, <1>4, <1>14, FeedUnfed
  <2>3. pc' # "ask"  BY <2>1 DEF FeedAt, Emit
  <2>4. \A k \in 1..Len(log) : Unfed(k)' => k > fold'.cursor /\ Promised(k)'
    BY <2>2, <1>11, <1>12, <1>14 DEF Placed
  <2>5. Coming'
    <3>1. Len(log') = Len(log)  BY <1>3
    <3>2. QED  BY <3>1, <2>3, <2>4, <1>9 DEF Coming
  <2>6. Whole'
    <3> SUFFICES ASSUME pending' = Terminal("completed")
                 PROVE  turn' = "over" /\ \A k \in 1..Len(log) : ~Unfed(k)'
      BY <1>3, <1>7 DEF Whole
    <3>1. e.at = Len(log) /\ turn = "over"
      <4>1. WellLogged  BY TypedLog DEF Steady
      <4>2. log[e.at].type \in Endings  BY <2>2 DEF Endings, TurnEnds
      <4>3. QED  BY <4>1, <4>2, <1>4, <1>14 DEF WellLogged
    <3>2. ASSUME NEW k \in 1..Len(log), Unfed(k)' PROVE FALSE
      <4>1. k > e.at  BY <3>2, <2>2, <2>4
      <4>2. QED  BY <4>1, <3>1, <1>1
    <3>3. QED  BY <3>1, <3>2, <1>3
  <2>7. QED  BY <2>5, <2>6, <1>6, <1>9, <1>10 DEF DeliveryInv
<1>15. CASE e.kind # "view"
  <2>1. /\ fold' = fold /\ pending' = Silence
        /\ e.kind = "gap" => pc' = "ask" /\ anchor' = e.at
        /\ e.kind # "gap" => pc' # "ask"
    BY <1>3, <1>7, <1>15 DEF DriveEvent, Emit, AskPages
  <2>2. \A k \in 1..Len(log) : Unfed(k)' => Unfed(k)  BY <1>3, <2>1 DEF Unfed
  <2>3. ASSUME NEW k \in 1..Len(log), Unfed(k)'
        PROVE  k > fold'.cursor /\ Promised(k)' /\ (pc' = "ask" => k > anchor')
    <3>1. Unfed(k) /\ k > fold'.cursor  BY <2>1, <2>2, <2>3, <1>13
    <3>2. CASE e.kind = "gap"
      <4>1. e.at < k /\ pc' = "ask" /\ anchor' = e.at
        BY <3>1, <3>2, <2>1, <1>12 DEF Placed
      <4>2. Promised(k)'  BY <4>1 DEF Promised
      <4>3. k \in Nat /\ e.at \in Nat  BY <1>4 DEF Entries
      <4>4. QED  BY <3>1, <4>1, <4>2, <4>3
    <3>3. CASE e.kind # "gap"
      <4>1. Kept(k)  BY <3>1, <3>3, <1>12, <1>15
      <4>2. QED  BY <3>1, <3>3, <4>1, <2>1, <1>11
    <3>4. QED  BY <3>2, <3>3
  <2>4. Coming'
    <3>1. Len(log') = Len(log)  BY <1>3
    <3>2. QED  BY <3>1, <2>3, <1>9 DEF Coming
  <2>5. Whole'
    <3>1. pending' # Terminal("completed")  BY <2>1 DEF Silence, Terminal
    <3>2. ended' # <<"completed">>  BY <1>3, <1>7
    <3>3. QED  BY <3>1, <3>2 DEF Whole
  <2>6. QED  BY <2>4, <2>5, <1>6, <1>9, <1>10 DEF DeliveryInv
<1>16. QED  BY <1>14, <1>15
(* view/page returns the first of what it has to return.                     *)
LEMMA FirstIsFirst ==
  ASSUME NEW set, set \subseteq 1..Len(log), Len(log) \in Nat, NEW n \in Nat,
         NEW k \in set \ First(n, set), NEW j \in First(n, set)
  PROVE  j < k
<1> DEFINE upto(x) == { y \in set : y <= x }
<1>1. k \in Nat /\ j \in Nat /\ j \in set  BY DEF First
<1>2. SUFFICES ASSUME k <= j PROVE FALSE  BY <1>1
<1>3. IsFiniteSet(set)
  <2>1. IsFiniteSet(1..Len(log))  BY FS_Interval
  <2>2. QED  BY <2>1, FS_Subset
<1>4. IsFiniteSet(upto(j))  BY <1>3, FS_Subset
<1>5. upto(k) \subseteq upto(j)
  <2>1. \A y \in set : y \in Nat  OBVIOUS
  <2>2. \A y \in Nat : y <= k => y <= j  BY <1>1, <1>2
  <2>3. QED  BY <2>1, <2>2
<1>6. IsFiniteSet(upto(k)) /\ Cardinality(upto(k)) <= Cardinality(upto(j))
  BY <1>4, <1>5, FS_Subset
<1>7. Cardinality(upto(j)) <= n  BY DEF First
<1>8. Cardinality(upto(k)) \in Nat /\ Cardinality(upto(j)) \in Nat
  BY <1>4, <1>6, FS_CardinalityType
<1>9. Cardinality(upto(k)) <= n  BY <1>6, <1>7, <1>8
<1>10. k \in First(n, set)  BY <1>9 DEF First
<1>11. QED  BY <1>10

(* The driver asks for a page, gets it, feeds it and goes on.                *)
LEMMA PageStep ==
  ASSUME Steady, DeliveryInv, PageArrives \/ FeedPage \/ PageDone \/ SelectLagged
  PROVE  DeliveryInv'
<1>1. /\ Len(log) \in Nat /\ fold.cursor \in 0..Len(log) /\ anchor \in 0..Len(log)
      /\ page \subseteq 1..Len(log)
  BY DEF Steady, Typed, TypeOK
<1>2. Ordered /\ Whole /\ Paged  BY DEF DeliveryInv
<1> USE DEF hostVars, wireVars, pageVars, outVars
<1>3. /\ pc \in {"ask", "page", "select"}
      /\ UNCHANGED <<log, turn, hole, ring, buffered, ended>>
  BY DEF PageArrives, FeedPage, PageDone, SelectLagged
<1>4. Ordered'  BY <1>2, <1>3 DEF Ordered, Sorted, Across, UpTo
<1>5. /\ pending = Silence /\ ended = <<>> /\ Running
  BY <1>3, AtRest DEF Steady, Closing, Running, Over
<1>6. \A k \in 1..Len(log) : Unfed(k) =>
        /\ k > fold.cursor /\ Promised(k)
        /\ pc = "ask" => k > anchor
        /\ pc = "page" => k \in page \/ k > anchor
  BY <1>5 DEF DeliveryInv, Coming, InPage
<1>7. Len(log') = Len(log)  BY <1>3
<1>8. ASSUME fold' = fold, pending' = pending PROVE Whole'
  BY <1>8, <1>2, <1>3 DEF Whole, Unfed
<1>9. ASSUME fold' = fold, NEW k, Unfed(k)' PROVE Unfed(k)
  BY <1>9, <1>3 DEF Unfed
<1>10. CASE SelectLagged
  <2>1. /\ fold' = fold /\ pending' = pending /\ pc' = "ask" /\ anchor' = fold.cursor
    BY <1>10 DEF SelectLagged, AskPages
  <2>2. ~InSetup' /\ ~InPage'  BY <2>1 DEF InSetup, InPage
  <2>3. \A k \in 1..Len(log) : Unfed(k)' =>
          k > fold'.cursor /\ Promised(k)' /\ k > anchor'
    BY <2>1, <1>1, <1>6, <1>9 DEF Promised
  <2>4. Coming'  BY <2>2, <2>3, <1>7 DEF Coming
  <2>5. QED  BY <2>1, <2>2, <2>4, <1>4, <1>8 DEF DeliveryInv, Paged
<1>11. CASE PageArrives
  <2> DEFINE rest == CommittedAfter(anchor)
             got  == First(PageLimit, rest)
  <2>1. /\ pc = "ask" /\ fold' = fold /\ pending' = pending
        /\ page' = got /\ more' = (got # rest)
        /\ \/ rest = {} /\ pc' = "loop"
           \/ \E x \in got : (\A j \in got : j <= x) /\ anchor' = x /\ pc' = "page"
    BY <1>11 DEF PageArrives
  <2>2. /\ rest = { k \in 1..Len(log) : k > anchor /\ log[k].type \in Committed }
        /\ got \subseteq rest /\ PageLimit \in Nat
    BY TurnDriverAssumption DEF CommittedAfter, First
  <2>3. \A k \in rest \ got, j \in got : j < k
    BY <2>2, <1>1, FirstIsFirst
  <2> HIDE DEF rest, got
  <2>4. ASSUME NEW k \in 1..Len(log), Unfed(k)' PROVE k \in rest /\ k > fold'.cursor
    <3>1. Unfed(k)  BY <2>1, <2>4, <1>9
    <3>2. k > anchor /\ k > fold.cursor  BY <3>1, <2>1, <1>6
    <3>3. log[k].type \in Committed  BY <3>1 DEF Unfed, Committed
    <3>4. QED  BY <3>2, <3>3, <2>1, <2>2
  <2>5. ~InSetup'  BY <2>1 DEF InSetup
  <2>6. CASE rest = {} /\ pc' = "loop"
    <3>1. ~InPage'  BY <2>6 DEF InPage
    <3>2. \A k \in 1..Len(log) : ~Unfed(k)'  BY <2>4, <2>6
    <3>3. Coming'  BY <3>2, <1>7 DEF Coming
    <3>4. QED  BY <3>1, <3>3, <2>1, <2>5, <1>4, <1>8 DEF DeliveryInv, Paged
  <2>7. CASE \E x \in got : (\A j \in got : j <= x) /\ anchor' = x /\ pc' = "page"
    <3>1. PICK x \in got : (\A j \in got : j <= x) /\ anchor' = x /\ pc' = "page"
      BY <2>7
    <3>2. Paged'  BY <3>1, <2>1 DEF Paged
    <3>3. InPage' /\ pc' # "ask"  BY <3>1 DEF InPage
    <3>4. ASSUME NEW k \in 1..Len(log), Unfed(k)'
          PROVE  /\ k > fold'.cursor /\ Promised(k)'
                 /\ k \in page' \/ k > anchor'
      <4>1. k \in rest /\ k > fold'.cursor  BY <2>4, <3>4
      <4>2. CASE k \in got  BY <4>1, <4>2, <2>1, <3>3 DEF Promised
      <4>3. CASE k \notin got
        <5>1. anchor' < k  BY <4>1, <4>3, <2>3, <3>1
        <5>2. more'  BY <4>1, <4>3, <2>1
        <5>3. k \in Nat /\ anchor' \in Nat  BY <3>1, <2>2, <1>1
        <5>4. QED  BY <4>1, <5>1, <5>2, <5>3, <3>3 DEF Promised
      <4>4. QED  BY <4>2, <4>3
    <3>5. Coming'  BY <3>3, <3>4, <1>7 DEF Coming
    <3>6. QED  BY <3>2, <3>5, <2>1, <2>5, <1>4, <1>8 DEF DeliveryInv
  <2>8. QED  BY <2>1, <2>6, <2>7
<1>12. CASE FeedPage
  <2>1. PICK x \in page : /\ \A j \in page : x <= j
                          /\ page' = page \ {x} /\ FeedAt(x, "page")
    BY <1>12 DEF FeedPage
  <2>2. pc = "page" /\ more' = more /\ anchor' = anchor /\ x \in 1..Len(log)
        /\ lagged' = lagged
    BY <2>1, <1>1, <1>12 DEF FeedPage
  <2>3. /\ fold'.cursor = x
        /\ \A k \in 1..Len(log) : Unfed(k)' => Unfed(k) /\ k # x
        /\ pending' = Terminal("completed") => log[x].type = "completed"
    BY <2>1, <2>2, <1>3, FeedUnfed
  <2>4. /\ InPage' /\ pc' # "ask" /\ ~InSetup'
    BY <2>1 DEF FeedAt, Emit, InPage, InSetup
  <2>5. InPage  BY <2>2 DEF InPage
  <2>6. x <= anchor  BY <2>1, <2>5, <1>2 DEF Paged
  <2>7. Paged'  BY <2>1, <2>2, <2>5, <1>2 DEF Paged
  <2>8. ASSUME NEW k \in 1..Len(log), Unfed(k)'
        PROVE  k > x /\ Promised(k)' /\ (k \in page' \/ k > anchor')
    <3>1. Unfed(k) /\ k # x  BY <2>3, <2>8
    <3>2. k \in page \/ k > anchor  BY <3>1, <2>2, <1>6
    <3>3. k > x
      <4>1. CASE k \in page  BY <4>1, <3>1, <2>1, <2>2
      <4>2. CASE k > anchor  BY <4>2, <2>6, <2>2, <1>1
      <4>3. QED  BY <3>2, <4>1, <4>2
    <3>4. k \in page' \/ k > anchor'  BY <3>1, <3>2, <2>1, <2>2
    <3>5. Promised(k)'
      <4>1. /\ \/ Held(buffered, k) \/ Held(ring, k)
               \/ hole # NoHole /\ hole < k
               \/ lagged /\ Beyond(buffered, k)
               \/ k \in page \/ (more /\ anchor < k)
        BY <3>1, <2>2, <1>6 DEF Promised
      <4>2. k \in page => k \in page'  BY <3>1, <2>1
      <4>3. QED  BY <4>1, <4>2, <2>2, <2>4, <1>3 DEF Promised, Held, Beyond
    <3>6. QED  BY <3>3, <3>4, <3>5
  <2>9. Coming'  BY <2>3, <2>4, <2>8, <1>7 DEF Coming
  <2>10. Whole'
    <3> SUFFICES ASSUME pending' = Terminal("completed")
                 PROVE  turn' = "over" /\ \A k \in 1..Len(log) : ~Unfed(k)'
      BY <1>3, <1>5 DEF Whole
    <3>1. x = Len(log) /\ turn = "over"
      <4>1. WellLogged  BY TypedLog DEF Steady
      <4>2. log[x].type \in Endings  BY <2>3 DEF Endings, TurnEnds
      <4>3. QED  BY <4>1, <4>2, <2>2 DEF WellLogged
    <3>2. ASSUME NEW k \in 1..Len(log), Unfed(k)' PROVE FALSE
      <4>1. k > x  BY <3>2, <2>8
      <4>2. QED  BY <4>1, <3>1, <1>1
    <3>3. QED  BY <3>1, <3>2, <1>3
  <2>11. QED  BY <2>4, <2>7, <2>9, <2>10, <1>4 DEF DeliveryInv
<1>13. CASE PageDone
  <2>1. /\ pc = "page" /\ page = {} /\ page' = {} /\ anchor' = anchor /\ more' = more
        /\ fold' = fold /\ pending' = pending /\ lagged' = lagged
        /\ pc' = IF more THEN "ask" ELSE "loop"
    BY <1>13 DEF PageDone
  <2>2. ~InSetup' /\ ~InPage'  BY <2>1 DEF InSetup, InPage
  <2>3. ASSUME NEW k \in 1..Len(log), Unfed(k)'
        PROVE  k > fold'.cursor /\ Promised(k)' /\ (pc' = "ask" => k > anchor')
    <3>1. Unfed(k)  BY <2>1, <2>3, <1>9
    <3>2. k > fold.cursor /\ k > anchor  BY <3>1, <2>1, <1>6
    <3>3. \/ Held(buffered, k) \/ Held(ring, k)
          \/ hole # NoHole /\ hole < k
          \/ lagged /\ Beyond(buffered, k)
          \/ more /\ anchor < k
      BY <3>1, <2>1, <1>6 DEF Promised
    <3>4. more /\ anchor < k => Promised(k)'  BY <2>1 DEF Promised
    <3>5. Promised(k)'  BY <3>3, <3>4, <2>1, <1>3 DEF Promised, Held, Beyond
    <3>6. QED  BY <3>2, <3>5, <2>1
  <2>4. Coming'  BY <2>2, <2>3, <1>7 DEF Coming
  <2>5. QED  BY <2>1, <2>2, <2>4, <1>4, <1>8 DEF DeliveryInv, Paged
<1>14. QED  BY <1>10, <1>11, <1>12, <1>13

(* Forwarding an output, and the failures the driver makes up itself.        *)
LEMMA SendStep ==
  ASSUME Steady, DeliveryInv, Send \/ SelectDead \/ PagingFails
  PROVE  DeliveryInv'
<1> USE DEF hostVars, wireVars, pageVars, outVars
<1>1. Ordered /\ Whole /\ Paged /\ Coming  BY DEF DeliveryInv
<1>2. UNCHANGED <<log, turn, hole, ring, lagged, buffered, fold, page, more, anchor>>
  BY DEF Send, SelectDead, PagingFails
<1>3. Ordered'  BY <1>1, <1>2 DEF Ordered, Sorted, Across, UpTo
<1>4. CASE SelectDead \/ PagingFails
  <2>1. /\ pending' = Terminal("failed") /\ ended' = ended /\ back' = "end"
        /\ pc # "send" /\ pc # "end"
        /\ pc' = IF Terminal("failed") = Silence THEN "end" ELSE "send"
    BY <1>4 DEF SelectDead, PagingFails, Emit
  <2>2. /\ Terminal("failed") # Silence /\ Terminal("failed").kind = "terminal"
        /\ Terminal("failed") # Terminal("completed")
    BY DEF Terminal, Silence
  <2>3. ~InSetup' /\ ~InPage' /\ ~Running'
    BY <2>1, <2>2 DEF InSetup, InPage, Running
  <2>4. ended = <<>>  BY <2>1 DEF Steady, Closing
  <2>5. QED  BY <2>1, <2>2, <2>3, <2>4, <1>3 DEF DeliveryInv, Coming, Paged, Whole
<1>5. CASE Send
  <2>1. /\ pc = "send" /\ pending' = Silence /\ ended = <<>> /\ back' = back
        /\ pc' = IF pending.kind = "terminal" THEN "end" ELSE back
        /\ back \in {"loop", "page", "end"}
        /\ pending \in Outputs
    BY <1>5 DEF Send, AfterSend, Steady, Closing, Fresh, Typed
  <2>2. ~InSetup' /\ pc' # "ask"  BY <2>1 DEF InSetup
  <2>3. InPage' => InPage  BY <2>1 DEF InPage
  <2>4. Running' => Running /\ (InPage => InPage')
    BY <2>1 DEF Running, Over, InPage
  <2>5. ASSUME NEW k \in 1..Len(log), Promised(k), InPage => InPage' PROVE Promised(k)'
    BY <2>1, <2>5, <1>2 DEF Promised, Held, Beyond
  <2>6. Coming'
    <3> SUFFICES ASSUME Running', NEW k \in 1..Len(log), Unfed(k)'
                 PROVE  /\ k > fold.cursor /\ Promised(k)'
                        /\ InPage' => k \in page \/ k > anchor
      BY <2>2, <1>2 DEF Coming
    <3>1. Unfed(k) /\ Running  BY <2>4, <1>2 DEF Unfed
    <3>2. k > fold.cursor /\ Promised(k) /\ (InPage => k \in page \/ k > anchor)
      BY <3>1, <1>1 DEF Coming
    <3>3. QED  BY <3>2, <2>3, <2>4, <2>5
  <2>7. Paged'  BY <2>3, <1>1, <1>2 DEF Paged
  <2>8. Whole'
    <3> SUFFICES ASSUME ended' = <<"completed">>
                 PROVE  turn' = "over" /\ \A k \in 1..Len(log) : ~Unfed(k)'
      BY <2>1, <1>2 DEF Whole, Silence, Terminal
    <3>1. pending.kind = "terminal" /\ ended' = Append(<<>>, pending.item)
      BY <2>1, <1>5 DEF Send
    <3>2. pending.item = "completed"  BY <3>1
    <3>3. pending = Terminal("completed")
      BY <3>1, <3>2, <2>1 DEF Outputs, Terminal
    <3>4. QED  BY <3>3, <1>1, <1>2 DEF Whole, Unfed
  <2>9. QED  BY <2>2, <2>6, <2>7, <2>8, <1>3 DEF DeliveryInv
<1>6. QED  BY <1>4, <1>5

(* The ack: what was in the channel is now in the driver's buffer.           *)
LEMMA AckedStep ==
  ASSUME Steady, DeliveryInv, Acked
  PROVE  DeliveryInv'
<1> USE DEF hostVars, wireVars, pageVars, outVars
<1>1. /\ Ordered /\ Coming /\ Whole /\ ~lagged /\ buffered = <<>>
      /\ lagged \in BOOLEAN
  BY DEF DeliveryInv, Acked, InSetup, Steady, Control, Typed, TypeOK
<1>2. /\ buffered' = ring /\ ring' = <<>> /\ lagged' = FALSE
      /\ pc = "started" /\ pc' = "loop"
      /\ UNCHANGED <<log, turn, hole, fold, pending, ended, page, more, anchor, back>>
  BY <1>1 DEF Acked
<1>3. Ordered'
  <2>1. Sorted(ring) /\ (hole # NoHole => UpTo(ring, hole))  BY <1>1 DEF Ordered
  <2>2. Sorted(<<>>) /\ Across(ring, <<>>) /\ UpTo(<<>>, hole)
    BY DEF Sorted, Across, UpTo
  <2>3. Sorted(buffered)' /\ Sorted(ring)' /\ Across(buffered, ring)'
    BY <2>1, <2>2, <1>2 DEF Sorted, Across
  <2>4. (hole # NoHole => UpTo(buffered, hole) /\ UpTo(ring, hole))'
    BY <2>1, <2>2, <1>2 DEF UpTo
  <2>5. QED  BY <2>3, <2>4 DEF Ordered
<1>4. ~InSetup' /\ ~InPage' /\ pc' # "ask"  BY <1>2 DEF InSetup, InPage
<1>5. Running' => Running  BY <1>2 DEF Running, Over
<1>6. ASSUME Running', NEW k \in 1..Len(log), Unfed(k)'
      PROVE  k > fold.cursor /\ Promised(k)'
  <2>1. Unfed(k) /\ Running  BY <1>5, <1>6, <1>2 DEF Unfed
  <2>2. k > fold.cursor /\ Promised(k)  BY <2>1, <1>1 DEF Coming
  <2>3. ~Held(buffered, k) /\ pc # "ask" /\ ~InPage
    BY <1>1, <1>2 DEF Held, InPage
  <2>4. Held(ring, k) \/ (hole # NoHole /\ hole < k)
    BY <2>2, <2>3, <1>1 DEF Promised
  <2>5. Promised(k)'  BY <2>4, <1>2 DEF Promised, Held
  <2>6. QED  BY <2>2, <2>5
<1>7. Coming'  BY <1>2, <1>4, <1>6 DEF Coming
<1>8. Whole'  BY <1>1, <1>2 DEF Whole, Unfed
<1>9. QED  BY <1>3, <1>4, <1>7, <1>8 DEF DeliveryInv, Paged

LEMMA DeliveryStep ==
  ASSUME "lag" \notin Faults, Steady, Steady', DeliveryInv, [Next]_vars
  PROVE  DeliveryInv'
<1> USE DEF hostVars, wireVars, driverVars, pageVars, outVars
<1>1. CASE UNCHANGED vars  BY <1>1, QuietDelivery DEF vars
<1>2. CASE HostEvent \/ HostSkips \/ HostGap \/ OtherSession \/ CancelTurn
  <2>1. Typed' /\ Logs  BY LogStep DEF Steady
  <2>2. QED  BY <2>1, <1>2, HostSteps
<1>3. CASE HostDies \/ ClientReads \/ ClientLeaves
  <2>1. /\ UNCHANGED <<log, fold, pending, ring, lagged, buffered, hole, page, more,
                       anchor, ended>>
        /\ turn' = turn /\ pc' = pc /\ back' = back
    BY <1>3 DEF HostDies, ClientReads, ClientLeaves
  <2>2. QED  BY <2>1, QuietDelivery
<1>4. CASE StartTurn \/ SetupFails \/ SetupDropped
  <2>1. /\ UNCHANGED <<log, fold, pending, ring, lagged, buffered, hole, page, more,
                       anchor, ended>>
        /\ pc \in {"setup", "started"} /\ pc' \in {"started", "error"}
    BY <1>4 DEF StartTurn, SetupFails, SetupDropped, InSetup
  <2>2. turn = "over" => turn' = "over"
    BY <1>4 DEF StartTurn, SetupFails, SetupDropped, Steady, Fresh
  <2>3. (InSetup' => InSetup) /\ ~Over  BY <2>1 DEF InSetup, Over
  <2>4. QED  BY <2>1, <2>2, <2>3, QuietDelivery
<1>5. CASE LoopTop \/ SelectCancelled \/ Decide
  <2>1. /\ UNCHANGED <<log, fold, pending, ring, lagged, buffered, hole, page, more,
                       anchor, ended>>
        /\ turn' = turn
        /\ pc \in {"loop", "select", "decide"} /\ pc' \in {"loop", "select", "cancel"}
    BY <1>5 DEF LoopTop, SelectCancelled, Decide
  <2>2. ~InSetup' /\ ~Over  BY <2>1 DEF InSetup, Over
  <2>3. QED  BY <2>1, <2>2, QuietDelivery
<1>6. CASE Acked  BY <1>6, AckedStep
<1>7. CASE DriveBuffered \/ SelectEvent  BY <1>7, TakeStep
<1>8. CASE PageArrives \/ FeedPage \/ PageDone \/ SelectLagged  BY <1>8, PageStep
<1>9. CASE Send \/ SelectDead \/ PagingFails  BY <1>9, SendStep
<1>10. QED
  BY <1>1, <1>2, <1>3, <1>4, <1>5, <1>6, <1>7, <1>8, <1>9 DEF Next, Host, Setup, Driver

LEMMA FoldInit == Init => FoldInv /\ DeliveryInv
<1> SUFFICES ASSUME Init PROVE FoldInv /\ DeliveryInv  OBVIOUS
<1>1. /\ log = <<>> /\ ring = <<>> /\ buffered = <<>> /\ hole = NoHole /\ lagged = FALSE
      /\ pc = "setup" /\ pending = Silence /\ ended = <<>>
      /\ fold = NewFold /\ sent = [i \in Items |-> <<>>]
  BY DEF Init
<1>2. ~ \E k \in 1..Len(log) : TRUE  BY <1>1
<1>3. Sourced /\ Final  BY <1>1, <1>2 DEF Sourced, Final, NewFold
<1>4. Shown
  <2>1. ASSUME NEW i \in Items PROVE EndsWith(Forwarded(i), fold.known[i])
    <3>1. fold.known[i] = <<>> /\ Forwarded(i) = <<>>
      BY <1>1 DEF NewFold, Forwarded, Silence
    <3>2. <<>> \in Seq(Nat)  OBVIOUS
    <3>3. EndsWith(<<>>, <<>>)  BY <3>2, EndsWithNothing
    <3>4. QED  BY <3>1, <3>3
  <2>2. QED  BY <2>1 DEF Shown
<1>5. Ordered  BY <1>1 DEF Ordered, Sorted, Across, UpTo
<1>6. Coming /\ ~InPage  BY <1>1, <1>2 DEF Coming, InPage
<1>7. Whole  BY <1>1 DEF Whole, Silence, Terminal
<1>8. QED  BY <1>1, <1>3, <1>4, <1>5, <1>6, <1>7 DEF FoldInv, DeliveryInv, Paged

(* A fold that has been fed every item of the log has its latest revisions,  *)
(* and what was forwarded ends with their texts.                             *)
LEMMA WholeIsForwarded == Steady /\ FoldInv /\ DeliveryInv => NothingMissing
<1> SUFFICES ASSUME Steady, FoldInv, DeliveryInv, ended = <<"completed">>,
                    NEW k \in 1..Len(log), log[k].type = "item/completed"
             PROVE  EndsWith(sent[log[k].item], Chunks(log[k].text))
  <2>1. DOMAIN log = 1..Len(log)  BY DEF Steady, Typed
  <2>2. QED  BY <2>1 DEF NothingMissing, CommittedTexts
<1> DEFINE i == log[k].item
<1>1. /\ WellLogged /\ fold.rev \in [Items -> Nat] /\ sent \in [Items -> Seq(Nat)]
      /\ Control /\ Closing
  BY TypedLog DEF Steady, Typed, Folds
<1>2. /\ i \in Items /\ log[k].rev \in Nat /\ log[k].rev > 0 /\ log[k].text \in Nat
  <2>1. Wellformed(log[k])  BY <1>1 DEF WellLogged
  <2>2. QED  BY <2>1 DEF Wellformed, Event, Objects, ItemObjects
<1>3. ended # <<>> /\ pending = Silence
  BY <1>1 DEF Control, Closing
<1>4. EndsWith(sent[i], fold.known[i])
  <2>1. Forwarded(i) = sent[i]  BY <1>3 DEF Forwarded, Silence
  <2>2. QED  BY <2>1, <1>2, <1>3 DEF FoldInv, Shown
<1>5. ~(fold.rev[i] < log[k].rev)  BY DEF DeliveryInv, Whole, Unfed
<1>6. fold.rev[i] = log[k].rev
  <2>1. PICK j \in 1..Len(log) : /\ log[j].type \in ItemObjects /\ log[j].item = i
                                 /\ log[j].rev = fold.rev[i]
    BY <1>1, <1>2, <1>5 DEF FoldInv, Sourced
  <2>2. j # k => log[j].rev < log[k].rev  BY <2>1, <1>1 DEF WellLogged
  <2>3. QED  BY <2>1, <2>2, <1>5
<1>7. fold.known[i] = Chunks(log[k].text) \/ log[k].text = 0
  BY <1>6 DEF FoldInv, Final
<1>8. CASE log[k].text = 0
  <2>1. Chunks(0) = <<>>  BY DEF Chunks
  <2>2. sent[i] \in Seq(Nat)  BY <1>1, <1>2
  <2>3. EndsWith(sent[i], <<>>)  BY <2>2, EndsWithNothing
  <2>4. QED  BY <1>8, <2>1, <2>3
<1>9. QED  BY <1>4, <1>7, <1>8

(* Missing content never presents as complete: as long as the broadcast does *)
(* not overrun before the driver listens, a request that is told "completed" *)
(* was forwarded the whole text of every item the host committed, whatever   *)
(* the host skipped, lagged or paged.                                        *)
THEOREM CompletedIsWhole ==
  ASSUME "lag" \notin Faults
  PROVE  SafeSpec => []NothingMissing
<1> DEFINE Inv == Steady /\ FoldInv /\ DeliveryInv
<1>1. Init => Inv  BY SteadyInit, FoldInit
<1>2. Inv /\ [Next]_vars => Inv'
  <2> SUFFICES ASSUME Inv, [Next]_vars PROVE Inv'  OBVIOUS
  <2>1. Steady'  BY SteadyStep
  <2>2. FoldInv'  BY <2>1, FoldStep
  <2>3. DeliveryInv'  BY <2>1, DeliveryStep
  <2>4. QED  BY <2>1, <2>2, <2>3
<1>3. Inv => NothingMissing  BY WholeIsForwarded
<1>4. QED  BY <1>1, <1>2, <1>3, PTL DEF SafeSpec
-----------------------------------------------------------------------------
(* Nothing is told twice.                                                    *)

(* What waits to be driven.                                                  *)
Queued(k)   == Shows(buffered, k) \/ Shows(ring, k)
DeltaOf(k, i) == log[k].type = "item/delta" /\ log[k].item = i

(* A delta that no longer waits was driven, or its item is torn; what waits  *)
(* comes after it.                                                           *)
Passed == \A i \in Items \ torn, k \in 1..Len(log) :
  DeltaOf(k, i) /\ ~Queued(k) => \A c \in Nat : Queued(c) => k < c

(* What the fold takes the caller to know was told by an event before all    *)
(* that waits, or by the item's last object.                                 *)
Teller(i, j) ==
  /\ log[j].type \in Objects /\ log[j].item = i
  /\ log[j].text = Len(fold.known[i])
  /\ \/ log[j].type = "item/completed" /\ fold.rev[i] = log[j].rev
     \/ \A c \in Nat : Queued(c) => j < c
Heard(i) ==
  fold.known[i] = <<>> \/ \E j \in 1..Len(log) : Teller(i, j)

(* The deltas that wait are those that the caller does not know.             *)
Level(i) == fold.rev[i] # 0 /\ i \notin fold.done =>
  \A k \in 1..Len(log) : DeltaOf(k, i) =>
    (Queued(k) <=> log[k].text > Len(fold.known[i]))

(* The caller knows a text from its first chunk on, and was forwarded that.  *)
Exact(i) ==
  /\ fold.known[i] = Chunks(Len(fold.known[i]))
  /\ sent[i] = Chunks(Len(sent[i]))
  /\ gone \/ Forwarded(i) = fold.known[i]

Replayed == \A k \in page : log[k].type \in Committed
TellInv ==
  /\ Ordered /\ Replayed /\ (~Over => Passed)
  /\ \A i \in Items \ torn : Exact(i) /\ (~Over => Heard(i) /\ Level(i))
-----------------------------------------------------------------------------
(* What the fold is told.                                                    *)

(* The texts of the log are those of what was to be played.                  *)
LEMMA LogTells == Typed => Accumulates(log)
<1> SUFFICES ASSUME Typed PROVE Accumulates(log)  OBVIOUS
<1>1. Accumulates(script) /\ Playable(script) /\ Plays /\ Len(log) \in Nat
  BY TurnDriverAssumption DEF Typed
<1>2. script \in Seq(Event) /\ Len(script) \in Nat /\ Len(log) <= Len(script)
  BY <1>1 DEF Playable, Plays
<1>3. \A k \in 1..Len(log) : k \in 1..Len(script)  BY <1>1, <1>2
<1>4. TurnEvent("cancelled", 0).type \notin Objects
  BY DEF TurnEvent, Objects, ItemObjects
<1>5. \A k \in 1..Len(log) : log[k].type \in Objects => log[k] = script[k]
  BY <1>1, <1>4 DEF Plays
<1>6. "item/completed" \in Objects /\ "item/delta" \in Objects
  BY DEF Objects, ItemObjects
<1>7. \A j, k \in 1..Len(log) : Alike(log, j, k) =>
        Alike(script, j, k) /\ log[j] = script[j] /\ log[k] = script[k]
  BY <1>5 DEF Alike
<1>8. ASSUME NEW k \in 1..Len(log)
      PROVE  /\ \A j \in 1..(k - 1) : Alike(log, j, k) =>
                  log[j].text < log[k].text
                    \/ (log[k].type # "item/delta" /\ log[j].text = log[k].text)
             /\ log[k].type = "item/completed" =>
                  \A j \in 1..Len(log) : Alike(log, j, k) => log[j].text <= log[k].text
             /\ log[k].type = "item/delta" =>
                  /\ log[k].text > 0
                  /\ log[k].text = 1 \/ \E j \in 1..(k - 1) :
                       log[j].type = "item/delta" /\ Alike(log, j, k)
                         /\ log[j].text = log[k].text - 1
  <2>1. \A j \in 1..(k - 1) : j \in 1..Len(log)  BY <1>1
  <2>2. k \in 1..Len(script)  BY <1>3
  <2>3. ASSUME NEW j \in 1..(k - 1), Alike(log, j, k)
        PROVE  log[j].text < log[k].text
                 \/ (log[k].type # "item/delta" /\ log[j].text = log[k].text)
    BY <2>1, <2>2, <2>3, <1>1, <1>7 DEF Accumulates
  <2>4. ASSUME log[k].type = "item/completed", NEW j \in 1..Len(log), Alike(log, j, k)
        PROVE  log[j].text <= log[k].text
    BY <2>2, <2>4, <1>1, <1>3, <1>7 DEF Accumulates
  <2>5. ASSUME log[k].type = "item/delta"
        PROVE  /\ log[k].text > 0
               /\ log[k].text = 1 \/ \E j \in 1..(k - 1) :
                    log[j].type = "item/delta" /\ Alike(log, j, k)
                      /\ log[j].text = log[k].text - 1
    <3>1. log[k] = script[k]  BY <2>5, <1>5, <1>6
    <3>2. script[k].text > 0 /\ (script[k].text = 1 \/ \E j \in 1..(k - 1) :
            script[j].type = "item/delta" /\ Alike(script, j, k)
              /\ script[j].text = script[k].text - 1)
      BY <2>2, <2>5, <3>1, <1>1 DEF Accumulates
    <3>3. ASSUME NEW j \in 1..(k - 1), script[j].type = "item/delta"
          PROVE  log[j] = script[j]
      <4>1. j \in 1..Len(log) /\ j # Len(log)  BY <1>1
      <4>2. QED  BY <4>1, <1>1 DEF Plays
    <3>4. \A j \in 1..(k - 1) : script[j].type = "item/delta" /\ Alike(script, j, k) =>
            log[j] = script[j] /\ Alike(log, j, k)
      BY <3>1, <3>3 DEF Alike
    <3>5. QED  BY <3>1, <3>2, <3>4
  <2>6. QED  BY <2>3, <2>4, <2>5
<1>9. QED  BY <1>8 DEF Accumulates

(* The suffix past known chunks, and a chunk more.                           *)
LEMMA SuffixOfChunks ==
  ASSUME NEW m \in Nat, NEW n \in Nat, m <= n
  PROVE  /\ Chunks(m) \o Suffix(Chunks(m), Chunks(n)) = Chunks(n)
         /\ Suffix(Chunks(m), Chunks(n)) \in Seq(Nat)
         /\ Suffix(Chunks(m), Chunks(n)) = <<>> => m = n
<1> DEFINE known == Chunks(m)
           full == Chunks(n)
           start == SubSeq(full, 1, m)
           rest == SubSeq(full, m + 1, n)
<1>1. /\ known \in Seq(Nat) /\ Len(known) = m /\ full \in Seq(Nat) /\ Len(full) = n
      /\ \A k \in 1..m : known[k] = k
      /\ \A k \in 1..n : full[k] = k
  BY ChunksType DEF Chunks
<1> HIDE DEF known, full
<1>2. \A k \in 1..n : full[k] \in Nat  BY <1>1
<1>3. /\ start \in Seq(Nat) /\ Len(start) = m
      /\ \A k \in 1..m : start[k] = k
  <2>1. /\ start \in Seq(Nat) /\ Len(start) = IF 1 <= m THEN m - 1 + 1 ELSE 0
        /\ \A k \in 1..m - 1 + 1 : start[k] = full[1 + k - 1]
    BY <1>2, SubSeqProperties
  <2> HIDE DEF start
  <2>2. QED  BY <2>1, <1>1
<1>4. /\ rest \in Seq(Nat) /\ Len(rest) = n - m
      /\ \A k \in 1..n - m : rest[k] = m + k
  <2>1. /\ rest \in Seq(Nat) /\ Len(rest) = IF m + 1 <= n THEN n - (m + 1) + 1 ELSE 0
        /\ \A k \in 1..n - (m + 1) + 1 : rest[k] = full[(m + 1) + k - 1]
    BY <1>2, SubSeqProperties
  <2> HIDE DEF rest
  <2>2. Len(rest) = n - m  BY <2>1
  <2>3. ASSUME NEW k \in 1..n - m PROVE rest[k] = m + k
    <3>1. k \in 1..n - (m + 1) + 1 /\ (m + 1) + k - 1 = m + k /\ m + k \in 1..n  OBVIOUS
    <3>2. QED  BY <3>1, <2>1, <1>1
  <2>4. QED  BY <2>1, <2>2, <2>3
<1>5. Suffix(known, full) = rest
  <2>1. start = known
    <3> HIDE DEF start
    <3>1. \A k \in 1..Len(start) : start[k] = known[k]  BY <1>1, <1>3
    <3>2. Len(start) = Len(known)  BY <1>1, <1>3
    <3>3. QED  BY <3>1, <3>2, <1>1, <1>3, SeqEqual
  <2>2. QED  BY <2>1, <1>1 DEF Suffix
<1> HIDE DEF rest, start
<1>6. known \o rest = full
  <2>1. /\ known \o rest \in Seq(Nat) /\ Len(known \o rest) = Len(known) + Len(rest)
        /\ \A k \in 1..Len(known) + Len(rest) :
             (known \o rest)[k] = IF k <= Len(known) THEN known[k] ELSE rest[k - Len(known)]
    <3>1. known \in Seq(Nat) /\ rest \in Seq(Nat)  BY <1>1, <1>4
    <3>2. QED  BY <3>1, ConcatProperties
  <2>2. Len(known \o rest) = Len(full)  BY <2>1, <1>1, <1>4
  <2>3. ASSUME NEW k \in 1..n PROVE (known \o rest)[k] = full[k]
    <3>1. (known \o rest)[k] = IF k <= m THEN known[k] ELSE rest[k - m]
      <4>1. k \in 1..Len(known) + Len(rest) /\ Len(known) = m  BY <1>1, <1>4
      <4>2. QED  BY <4>1, <2>1
    <3>2. CASE k <= m  BY <3>1, <3>2, <1>1
    <3>3. CASE ~(k <= m)
      <4> DEFINE j == k - m
      <4>1. j \in 1..n - m /\ m + j = k  BY <3>3
      <4>2. (known \o rest)[k] = rest[j]  BY <3>1, <3>3
      <4> HIDE DEF j
      <4>3. QED  BY <4>1, <4>2, <1>1, <1>4
    <3>4. QED  BY <3>2, <3>3
  <2>4. \A k \in 1..Len(full) : (known \o rest)[k] = full[k]  BY <2>3, <1>1
  <2>5. QED  BY <2>1, <2>2, <2>4, <1>1, SeqEqual
<1>7. rest = <<>> => m = n  BY <1>4
<1>8. QED  BY <1>4, <1>5, <1>6, <1>7 DEF known, full

LEMMA ChunkMore ==
  ASSUME NEW m \in Nat
  PROVE  Append(Chunks(m), m + 1) = Chunks(m + 1)
         /\ Chunks(m) \o <<m + 1>> = Chunks(m + 1)
<1> DEFINE s == Chunks(m)
           t == Chunks(m + 1)
           u == Append(s, m + 1)
<1>1. /\ s \in Seq(Nat) /\ Len(s) = m /\ t \in Seq(Nat) /\ Len(t) = m + 1
      /\ \A k \in 1..m : s[k] = k
      /\ \A k \in 1..m + 1 : t[k] = k
  BY ChunksType DEF Chunks
<1> HIDE DEF s, t
<1>2. /\ u \in Seq(Nat) /\ Len(u) = m + 1 /\ u[m + 1] = m + 1
      /\ \A k \in 1..m : u[k] = s[k]
  BY <1>1, AppendProperties
<1>3. s \o <<m + 1>> = u
  BY <1>1, AppendIsConcat
<1> HIDE DEF u
<1>4. \A k \in 1..Len(t) : u[k] = t[k]  BY <1>1, <1>2
<1>5. u = t  BY <1>1, <1>2, <1>4, SeqEqual
<1>6. QED  BY <1>3, <1>5 DEF s, t, u

(* TurnFold::feed, to the chunk: an object newer than the fold's replaces    *)
(* the text, a delta of an item that is held and not done adds to it, and    *)
(* the rest says nothing.                                                    *)
Quiet(f, e, g, out) ==
  /\ g.known = f.known /\ g.rev = f.rev /\ g.done = f.done /\ out.kind # "text"
  /\ ~(e.type = "item/delta" /\ e.item \notin f.done /\ f.rev[e.item] # 0)
Shaped(f, e, g, out) ==
  LET suffix == Suffix(f.known[e.item], Chunks(e.text))
  IN  /\ e.type \in ItemObjects /\ f.rev[e.item] < e.rev
      /\ g.rev = [f.rev EXCEPT ![e.item] = e.rev]
      /\ g.done \in {f.done, f.done \union {e.item}}
      /\ e.type = "item/completed" => e.item \in g.done
      /\ g.known = [f.known EXCEPT ![e.item] = IF suffix = <<>> THEN @ ELSE Chunks(e.text)]
      /\ out = Text(e.item, suffix)
Added(f, e, g, out) ==
  /\ e.type = "item/delta" /\ e.item \notin f.done /\ f.rev[e.item] # 0
  /\ g.rev = f.rev /\ g.done = f.done
  /\ g.known = [f.known EXCEPT ![e.item] = Append(@, e.text)]
  /\ out = Text(e.item, <<e.text>>)

(* What it counts: a usage record once.                                      *)
Charges(f, c, e, g) ==
  \/ g.counted = f.counted /\ g.usage = f.usage /\ g.total = f.total
  \/ /\ e.type = "usage" /\ c \notin f.counted
     /\ g.counted = f.counted \union {c} /\ g.usage = f.usage + e.text
     /\ g.total \in {f.total, e.rev}

LEMMA FeedTells ==
  ASSUME NEW f \in Folds, NEW c \in Nat, NEW e, Wellformed(e), ~f.settled,
         NEW g, g = Feed(f, c, e).fold, NEW out, out = Feed(f, c, e).out
  PROVE  /\ Quiet(f, e, g, out) \/ Shaped(f, e, g, out) \/ Added(f, e, g, out)
         /\ Charges(f, c, e, g)
<1> DEFINE at == [f EXCEPT !.cursor = c]
<1>1. /\ at \in Folds /\ at.rev = f.rev /\ at.known = f.known /\ at.done = f.done
      /\ at.counted = f.counted /\ at.usage = f.usage /\ f.rev \in [Items -> Nat]
      /\ f.known \in [Items -> Seq(Nat)] /\ at.total = f.total
  BY DEF Folds
<1>2. /\ e.type \in Objects \union Endings \union {"usage", "approval"}
      /\ e.rev \in Nat /\ e.text \in Nat
      /\ e.type \in Objects => e.item \in Items
      /\ ItemObjects \subseteq Objects /\ "item/delta" \in Objects
  BY DEF Wellformed, Event, Objects
<1>3. Silence.kind # "text"  BY DEF Silence
<1>4. CASE e.type \in ItemObjects
  <2>1. Feed(f, c, e) = FeedItem(at, e) /\ e.type # "item/delta"
    BY <1>4 DEF Feed, ItemObjects, TurnEnds
  <2>2. e.item \in Items  BY <1>2, <1>4
  <2> HIDE DEF at
  <2>3. CASE f.rev[e.item] < e.rev
    <3> DEFINE suffix == Suffix(f.known[e.item], Chunks(e.text))
               known2 == [f.known EXCEPT ![e.item] = IF suffix = <<>> THEN @
                                                    ELSE Chunks(e.text)]
               rev2 == [f.rev EXCEPT ![e.item] = e.rev]
               done2 == Finished(at, e)
    <3>1. Newer(at, e)  BY <2>3, <1>1 DEF Newer
    <3>2. /\ FeedItem(at, e).out = Text(e.item, suffix)
          /\ FeedItem(at, e).fold = [at EXCEPT !.rev[e.item] = e.rev, !.done = done2,
                !.known[e.item] = IF suffix = <<>> THEN @ ELSE Chunks(e.text)]
      BY <3>1, <1>1 DEF FeedItem
    <3>3. [at EXCEPT !.rev[e.item] = e.rev, !.done = done2,
                !.known[e.item] = IF suffix = <<>> THEN @ ELSE Chunks(e.text)]
            = [at EXCEPT !.rev = rev2, !.done = done2, !.known = known2]
      BY <1>1
    <3>4. g = [at EXCEPT !.rev = rev2, !.done = done2, !.known = known2]
          /\ out = Text(e.item, suffix)
      BY <2>1, <3>2, <3>3
    <3>5. /\ done2 \in {f.done, f.done \union {e.item}}
          /\ e.type = "item/completed" => e.item \in done2
      BY <1>1 DEF Finished
    <3> HIDE DEF suffix, known2, rev2, done2
    <3>6. /\ g.rev = rev2 /\ g.done = done2 /\ g.known = known2
          /\ g.counted = f.counted /\ g.usage = f.usage /\ g.total = f.total
      BY <3>4, <1>1 DEF Folds
    <3>7. Shaped(f, e, g, out)
      BY <3>4, <3>5, <3>6, <2>3, <1>4 DEF Shaped, suffix, known2, rev2
    <3>8. QED  BY <3>6, <3>7 DEF Charges
  <2>4. CASE ~(f.rev[e.item] < e.rev)
    <3>1. FeedItem(at, e) = [fold |-> at, out |-> Silence]
      BY <2>2, <2>4, <1>1, <1>2 DEF FeedItem, Newer
    <3>2. g = at /\ out = Silence  BY <3>1, <2>1
    <3>3. QED  BY <3>2, <2>1, <1>1, <1>3 DEF Quiet, Charges
  <2>5. QED  BY <2>3, <2>4
<1>5. CASE e.type = "item/delta"
  <2>1. Feed(f, c, e) = FeedDelta(at, e)  BY <1>5 DEF Feed, ItemObjects, TurnEnds
  <2> HIDE DEF at
  <2>2. CASE e.item \in f.done \/ f.rev[e.item] = 0
    <3>1. FeedDelta(at, e) = [fold |-> at, out |-> Silence]  BY <2>2, <1>1 DEF FeedDelta
    <3>2. g = at /\ out = Silence  BY <3>1, <2>1
    <3>3. QED  BY <3>2, <2>2, <1>1, <1>3 DEF Quiet, Charges
  <2>3. CASE e.item \notin f.done /\ f.rev[e.item] # 0
    <3> DEFINE known2 == [f.known EXCEPT ![e.item] = Append(@, e.text)]
    <3>1. FeedDelta(at, e) = [fold |-> [at EXCEPT !.known[e.item] = Append(@, e.text)],
                              out |-> Text(e.item, <<e.text>>)]
      BY <2>3, <1>1 DEF FeedDelta
    <3>2. [at EXCEPT !.known[e.item] = Append(@, e.text)] = [at EXCEPT !.known = known2]
      BY <1>1
    <3>3. g = [at EXCEPT !.known = known2] /\ out = Text(e.item, <<e.text>>)
      BY <2>1, <3>1, <3>2
    <3> HIDE DEF known2
    <3>4. /\ g.rev = f.rev /\ g.done = f.done /\ g.known = known2
          /\ g.counted = f.counted /\ g.usage = f.usage /\ g.total = f.total
      BY <3>3, <1>1 DEF Folds
    <3>5. QED  BY <3>3, <3>4, <2>3, <1>5 DEF Added, Charges, known2
  <2>4. QED  BY <2>2, <2>3
<1>6. CASE e.type = "usage"
  <2>1. Feed(f, c, e) = FeedUsage(at, c, e) /\ e.type # "item/delta"
    BY <1>6 DEF Feed, ItemObjects, TurnEnds
  <2> HIDE DEF at
  <2>2. out = Silence  BY <2>1 DEF FeedUsage
  <2>3. CASE c \in f.counted
    <3>1. g = at  BY <2>1, <2>3, <1>1 DEF FeedUsage, Recorded
    <3>2. QED  BY <3>1, <2>1, <2>2, <1>1, <1>3 DEF Quiet, Charges
  <2>4. CASE c \notin f.counted
    <3> DEFINE seen == f.counted \union {c}
               spent == f.usage + e.text
               total == IF e.rev > 0 THEN e.rev ELSE f.total
    <3>1. g = [at EXCEPT !.counted = seen, !.usage = spent, !.total = total]
      BY <2>1, <2>4, <1>1 DEF FeedUsage, Recorded
    <3>2. total \in {f.total, e.rev}  OBVIOUS
    <3> HIDE DEF seen, spent, total
    <3>3. /\ g.known = f.known /\ g.rev = f.rev /\ g.done = f.done
          /\ g.counted = seen /\ g.usage = spent /\ g.total = total
      BY <3>1, <1>1 DEF Folds
    <3>4. QED
      BY <3>2, <3>3, <2>1, <2>2, <2>4, <1>3, <1>6 DEF Quiet, Charges, seen, spent
  <2>5. QED  BY <2>3, <2>4
<1>7. CASE e.type \in Endings
  <2>1. e.type # "item/delta" /\ e.type # "usage" /\ e.type \notin ItemObjects
    BY <1>7 DEF ItemObjects, Endings, TurnEnds
  <2>2. PICK o \in TurnEnds : Feed(f, c, e) = Settle(at, o)
    BY <2>1, <1>7 DEF Feed, Endings, TurnEnds
  <2>3. g = [at EXCEPT !.settled = TRUE] /\ out = Terminal(o)  BY <2>2 DEF Settle
  <2> HIDE DEF at
  <2>4. /\ g.known = f.known /\ g.rev = f.rev /\ g.done = f.done
        /\ g.counted = f.counted /\ g.usage = f.usage /\ g.total = f.total
    BY <2>3, <1>1 DEF Folds
  <2>5. QED  BY <2>1, <2>3, <2>4 DEF Quiet, Charges, Terminal
<1>8. CASE e.type = "approval"
  <2>1. Feed(f, c, e) = [fold |-> at, out |-> Silence] /\ e.type # "item/delta"
    BY <1>8 DEF Feed, ItemObjects, TurnEnds
  <2> HIDE DEF at
  <2>2. g = at /\ out = Silence  BY <2>1
  <2>3. QED  BY <2>1, <2>2, <1>1, <1>3 DEF Quiet, Charges
<1>9. QED  BY <1>2, <1>4, <1>5, <1>6, <1>7, <1>8 DEF Objects

(* The driver feeds what waits longest, or a replayed event of a page.       *)
Serves(c) ==
  \/ /\ log[c].type \in Committed
     /\ \A k \in Nat : Queued(k)' <=> Queued(k)
  \/ /\ Queued(c) /\ ~Queued(c)'
     /\ \A k \in Nat : /\ Queued(k) => c <= k
                       /\ k # c => (Queued(k)' <=> Queued(k))

(* An object that is newer than the fold's has all that the caller knows.    *)
LEMMA ObjectsCarry ==
  ASSUME Steady, NEW c \in 1..Len(log), Serves(c), log[c].type \in ItemObjects,
         fold.rev[log[c].item] < log[c].rev, Heard(log[c].item)
  PROVE  Len(fold.known[log[c].item]) <= log[c].text
<1> DEFINE i == log[c].item
<1>1. /\ WellLogged /\ Accumulates(log) /\ fold.rev \in [Items -> Nat]
      /\ fold.known \in [Items -> Seq(Nat)] /\ Len(log) \in Nat
  BY TypedLog, LogTells DEF Steady, Typed, Folds
<1>2. /\ i \in Items /\ log[c].rev \in Nat /\ log[c].text \in Nat
      /\ log[c].type \in Objects
  BY <1>1 DEF WellLogged, Wellformed, Event, Objects
<1>3. CASE fold.known[i] = <<>>  BY <1>2, <1>3
<1>4. CASE \E j \in 1..Len(log) : Teller(i, j)
  <2>1. PICK j \in 1..Len(log) : Teller(i, j)  BY <1>4
  <2>2. Alike(log, j, c) /\ log[j].text = Len(fold.known[i])
    BY <2>1, <1>2 DEF Alike, Teller
  <2>3. CASE log[c].type = "item/completed"
    BY <2>2, <2>3, <1>1 DEF Accumulates
  <2>4. CASE log[j].type = "item/completed" /\ fold.rev[i] = log[j].rev
    <3>1. j # c  BY <2>4, <1>2
    <3>2. log[j].item = log[c].item  BY <2>1 DEF Teller
    <3>3. log[c].rev < log[j].rev  BY <3>1, <3>2, <2>4, <1>1 DEF WellLogged
    <3>4. log[j].rev \in Nat /\ fold.rev[i] \in Nat  BY <2>4, <1>1, <1>2
    <3>5. QED  BY <3>3, <3>4, <2>4, <1>2
  <2>5. CASE log[c].type # "item/completed" /\ \A k \in Nat : Queued(k) => j < k
    <3>1. log[c].type \notin Committed
      BY <2>5 DEF Committed, ItemObjects, Endings, TurnEnds
    <3>2. Queued(c) /\ c \in Nat  BY <3>1 DEF Serves
    <3>3. j \in 1..(c - 1)  BY <3>2, <2>5
    <3>4. log[j].text < log[c].text \/ log[j].text = log[c].text
      BY <3>3, <2>2, <1>1 DEF Accumulates
    <3>5. log[j].text \in Nat  BY <2>2, <1>1, <1>2
    <3>6. QED  BY <3>4, <3>5, <2>2, <1>2
  <2>6. QED  BY <2>1, <2>3, <2>4, <2>5 DEF Teller
<1>5. QED  BY <1>3, <1>4 DEF Heard

(* A delta that is added is the next one.                                    *)
LEMMA DeltasFollow ==
  ASSUME Steady, Passed, NEW c \in 1..Len(log), Serves(c), log[c].type = "item/delta",
         log[c].item \notin torn, log[c].item \notin fold.done,
         fold.rev[log[c].item] # 0, Level(log[c].item)
  PROVE  log[c].text = Len(fold.known[log[c].item]) + 1
<1> DEFINE i == log[c].item
<1>1. /\ WellLogged /\ Accumulates(log) /\ fold.known \in [Items -> Seq(Nat)]
      /\ Len(log) \in Nat
  BY TypedLog, LogTells DEF Steady, Typed, Folds
<1>2. i \in Items /\ log[c].text \in Nat
  BY <1>1 DEF WellLogged, Wellformed, Event, Objects
<1>3. Queued(c) /\ \A k \in Nat : Queued(k) => c <= k
  BY DEF Serves, Committed, Endings, TurnEnds
<1>4. Len(fold.known[i]) \in Nat /\ log[c].text > Len(fold.known[i])
  BY <1>1, <1>2, <1>3 DEF Level, DeltaOf
<1>5. CASE log[c].text = 1  BY <1>4, <1>5
<1>6. CASE log[c].text # 1
  <2>1. PICK j \in 1..(c - 1) : /\ log[j].type = "item/delta" /\ Alike(log, j, c)
                                /\ log[j].text = log[c].text - 1
    BY <1>1, <1>6 DEF Accumulates
  <2>2. j \in 1..Len(log) /\ DeltaOf(j, i)  BY <2>1, <1>1 DEF DeltaOf, Alike
  <2>3. ~Queued(j)
    <3>1. j \in Nat /\ ~(c <= j)  OBVIOUS
    <3>2. QED  BY <3>1, <1>3
  <2>4. ~(log[j].text > Len(fold.known[i]))  BY <2>2, <2>3 DEF Level
  <2>5. QED  BY <2>1, <2>4, <1>2, <1>4
<1>7. QED  BY <1>5, <1>6

(* One item, as the event at c is fed.                                       *)
LEMMA FeedTellsItem ==
  ASSUME Steady, Passed, pc # "send", pc # "end", NEW c \in 1..Len(log), NEW resume,
         FeedAt(c, resume), Serves(c), UNCHANGED <<log, sent, gone>>,
         NEW i \in Items \ torn, Exact(i), Heard(i), Level(i)
  PROVE  Exact(i)' /\ Heard(i)' /\ Level(i)'
<1> DEFINE e == log[c]
           m == e.item
<1>1. /\ WellLogged /\ Accumulates(log) /\ Len(log) \in Nat /\ Wellformed(e)
      /\ fold \in Folds /\ fold.rev \in [Items -> Nat] /\ fold.known \in [Items -> Seq(Nat)]
      /\ sent \in [Items -> Seq(Nat)] /\ pending = Silence /\ ~fold.settled
      /\ log' = log /\ sent' = sent /\ gone' = gone
  <2>1. WellLogged /\ Accumulates(log) /\ Len(log) \in Nat
    BY TypedLog, LogTells DEF Steady, Typed
  <2>2. Wellformed(e)  BY <2>1 DEF WellLogged
  <2>3. /\ fold \in Folds /\ fold.rev \in [Items -> Nat] /\ fold.known \in [Items -> Seq(Nat)]
        /\ sent \in [Items -> Seq(Nat)]
    BY DEF Steady, Typed, Folds
  <2>4. pending = Silence /\ ~fold.settled  BY AtRest DEF Steady
  <2>5. QED  BY <2>1, <2>2, <2>3, <2>4
<1>2. /\ e.rev \in Nat /\ e.text \in Nat
      /\ e.type \in Objects => m \in Items
      /\ ItemObjects \subseteq Objects /\ "item/delta" \in Objects
      /\ "item/delta" \notin ItemObjects
  BY <1>1 DEF Wellformed, Event, Objects, ItemObjects
<1> HIDE DEF e, m
<1>12. gone => gone'
  <2>1. gone \in BOOLEAN /\ gone' = gone  BY <1>1 DEF Steady, Typed, TypeOK
  <2>2. QED  BY <2>1
<1>11. i \in Items /\ fold.known[i] \in Seq(Nat) /\ Len(fold.known[i]) \in Nat
  <2>1. i \in Items /\ fold.known[i] \in Seq(Nat)  BY <1>1
  <2>2. QED  BY <2>1, LenProperties
<1>3. Quiet(fold, e, fold', pending') \/ Shaped(fold, e, fold', pending')
        \/ Added(fold, e, fold', pending')
  <2>1. fold' = Feed(fold, c, e).fold /\ pending' = Feed(fold, c, e).out
    BY DEF FeedAt, Emit, e
  <2>2. c \in Nat  BY <1>1
  <2>3. QED  BY <2>1, <2>2, <1>1, FeedTells
<1>4. Forwarded(i) = sent[i]  BY <1>1 DEF Forwarded, Silence
<1>5. /\ \A k \in Nat : Queued(k)' => Queued(k)
      /\ \A k \in Nat : k # c => (Queued(k)' <=> Queued(k))
      /\ e.type \notin Committed => /\ Queued(c) /\ ~Queued(c)'
                                    /\ \A k \in Nat : Queued(k) => c <= k
  BY DEF Serves, e
<1>6. ASSUME fold'.known[i] = fold.known[i], fold'.rev[i] = fold.rev[i],
             Forwarded(i)' = sent[i], i \in fold'.done <=> i \in fold.done,
             DeltaOf(c, i) => i \in fold.done \/ fold.rev[i] = 0
      PROVE  Exact(i)' /\ Heard(i)' /\ Level(i)'
  <2>1. Exact(i)'  BY <1>1, <1>4, <1>6 DEF Exact
  <2>2. \A j \in 1..Len(log) : Teller(i, j) => Teller(i, j)'
    BY <1>1, <1>5, <1>6 DEF Teller
  <2>3. Heard(i)'  BY <2>2, <1>1, <1>6 DEF Heard
  <2>4. ASSUME fold'.rev[i] # 0, i \notin fold'.done, NEW k \in 1..Len(log), DeltaOf(k, i)
        PROVE  Queued(k)' <=> log[k].text > Len(fold'.known[i])
    <3>1. k # c /\ k \in Nat  BY <2>4, <1>6
    <3>2. QED  BY <3>1, <2>4, <1>5, <1>6 DEF Level
  <2>5. Level(i)'  BY <2>4, <1>1 DEF Level, DeltaOf
  <2>6. QED  BY <2>1, <2>3, <2>5
<1>7. CASE Quiet(fold, e, fold', pending')
  <2>1. Forwarded(i)' = sent[i]  BY <1>1, <1>7 DEF Forwarded, Quiet
  <2>2. QED  BY <2>1, <1>6, <1>7 DEF Quiet, DeltaOf, e, m
<1>8. CASE Shaped(fold, e, fold', pending')
  <2> DEFINE suffix == Suffix(fold.known[m], Chunks(e.text))
  <2>1. /\ m \in Items /\ e.type \in ItemObjects /\ fold.rev[m] < e.rev
        /\ fold'.rev = [fold.rev EXCEPT ![m] = e.rev]
        /\ fold'.done \in {fold.done, fold.done \union {m}}
        /\ e.type = "item/completed" => m \in fold'.done
        /\ fold'.known = [fold.known EXCEPT ![m] = IF suffix = <<>> THEN @ ELSE Chunks(e.text)]
        /\ pending' = Text(m, suffix)
    <3>1. e.type \in ItemObjects /\ m \in Items  BY <1>2, <1>8 DEF Shaped
    <3>2. QED  BY <3>1, <1>8 DEF Shaped, m
  <2>2. CASE m # i
    <3>1. /\ fold'.known[i] = fold.known[i] /\ fold'.rev[i] = fold.rev[i]
          /\ i \in fold'.done <=> i \in fold.done
      BY <2>1, <2>2, <1>1
    <3>2. Forwarded(i)' = sent[i]
      BY <2>1, <2>2, <1>1 DEF Forwarded, Text, Silence
    <3>3. ~DeltaOf(c, i)  BY <2>2 DEF DeltaOf, e, m
    <3>4. QED  BY <3>1, <3>2, <3>3, <1>6
  <2>3. CASE m = i
    <3> DEFINE known == Len(fold.known[i])
               n == e.text
    <3>1. /\ known \in Nat /\ n \in Nat /\ fold.known[i] = Chunks(known)
          /\ sent[i] = Chunks(Len(sent[i])) /\ (gone \/ sent[i] = fold.known[i])
      <4>1. known \in Nat /\ n \in Nat  BY <1>11, <1>2
      <4>2. QED  BY <4>1, <1>4 DEF Exact
    <3>2. known <= n
      BY <2>1, <2>3, <1>1, ObjectsCarry DEF e, m
    <3>3. /\ fold.known[i] \o suffix = Chunks(n) /\ suffix \in Seq(Nat)
          /\ suffix = <<>> => fold.known[i] = Chunks(n)
      <4> HIDE DEF known, n
      <4>1. /\ Chunks(known) \o Suffix(Chunks(known), Chunks(n)) = Chunks(n)
            /\ Suffix(Chunks(known), Chunks(n)) \in Seq(Nat)
            /\ Suffix(Chunks(known), Chunks(n)) = <<>> => known = n
        BY <3>1, <3>2, SuffixOfChunks
      <4>2. suffix = Suffix(Chunks(known), Chunks(n))  BY <3>1, <2>3 DEF n
      <4>3. QED  BY <4>1, <4>2, <3>1
    <3>4. fold'.known[i] = Chunks(n)  BY <2>1, <2>3, <3>3, <1>1
    <3>5. Len(fold'.known[i]) = n  BY <3>1, <3>4, ChunksType
    <3>6. Forwarded(i)' = sent[i] \o suffix
      <4>1. CASE suffix = <<>>
        <5>1. pending' = Silence  BY <4>1, <2>1 DEF Text
        <5>2. Forwarded(i)' = sent[i]  BY <5>1, <1>1 DEF Forwarded, Silence
        <5>3. sent[i] \o <<>> = sent[i]  BY <1>1, ConcatEmptySeq
        <5>4. QED  BY <4>1, <5>2, <5>3
      <4>2. CASE suffix # <<>>
        <5>1. pending' = [kind |-> "text", item |-> i, text |-> suffix]
          BY <4>2, <2>1, <2>3 DEF Text
        <5> HIDE DEF suffix
        <5>2. QED  BY <5>1, <1>1 DEF Forwarded
      <4>3. QED  BY <4>1, <4>2
    <3>7. Exact(i)'
      <4>1. gone' \/ Forwarded(i)' = fold'.known[i]
        <5>1. sent[i] = fold.known[i] => Forwarded(i)' = fold'.known[i]
          BY <3>3, <3>4, <3>6
        <5>2. gone \/ sent[i] = fold.known[i]  BY <3>1
        <5>3. QED  BY <5>1, <5>2, <1>12
      <4>2. fold'.known[i] = Chunks(Len(fold'.known[i]))  BY <3>4, <3>5
      <4>3. sent'[i] = Chunks(Len(sent'[i]))  BY <3>1, <1>1
      <4>4. QED  BY <4>1, <4>2, <4>3 DEF Exact
    <3>8. e.type = "item/completed" \/ e.type \notin Committed
      BY <2>1 DEF ItemObjects, Committed, Endings, TurnEnds
    <3>9. Heard(i)'
      <4>1. e.type \notin Committed => \A k \in Nat : Queued(k)' => c < k
        BY <1>5
      <4>2. fold'.rev[i] = e.rev  BY <2>1, <2>3, <1>1
      <4>3. Teller(i, c)'
        BY <4>1, <4>2, <2>1, <2>3, <3>5, <3>8, <1>1, <1>2 DEF Teller, e, m
      <4>4. QED  BY <4>3, <1>1 DEF Heard
    <3>10. ASSUME i \notin fold'.done, NEW k \in 1..Len(log), DeltaOf(k, i)
           PROVE  Queued(k)' <=> log[k].text > n
      <4>1. e.type \notin Committed  BY <2>1, <2>3, <3>8, <3>10
      <4>2. Queued(c) /\ k \in Nat /\ c \in Nat /\ \A q \in Nat : Queued(q) => c <= q
        BY <4>1, <1>1, <1>5
      <4>3. k # c  BY <2>1, <3>10, <1>2 DEF DeltaOf, e
      <4>4. Queued(k)' <=> Queued(k)  BY <4>2, <4>3, <1>5
      <4>5. log[k].text \in Nat /\ Alike(log, c, k) /\ Alike(log, k, c)
        <5>1. log[k].text \in Nat /\ log[k].type \in Objects /\ log[k].item = i
          BY <3>10, <1>1, <1>2 DEF DeltaOf, WellLogged, Wellformed, Event
        <5>2. log[c].type \in Objects /\ log[c].item = i  BY <2>1, <2>3, <1>2 DEF e, m
        <5>3. QED  BY <5>1, <5>2 DEF Alike
      <4>6. ASSUME Queued(k) PROVE log[k].text > n
        <5>1. c \in 1..(k - 1)  BY <4>2, <4>3, <4>6
        <5>2. log[c].text < log[k].text
          BY <5>1, <4>5, <3>10, <1>1 DEF Accumulates, DeltaOf
        <5>3. QED  BY <5>2, <4>5, <3>1 DEF e
      <4>7. ASSUME ~Queued(k) PROVE ~(log[k].text > n)
        <5>1. k < c  BY <4>2, <4>7, <3>10 DEF Passed
        <5>2. k \in 1..(c - 1)  BY <5>1
        <5>3. log[k].text < log[c].text \/ log[k].text = log[c].text
          BY <5>2, <4>5, <1>1 DEF Accumulates
        <5>4. QED  BY <5>3, <4>5, <3>1 DEF e
      <4>8. QED  BY <4>4, <4>6, <4>7
    <3>11. Level(i)'  BY <3>5, <3>10, <1>1 DEF Level, DeltaOf
    <3>12. QED  BY <3>7, <3>9, <3>11
  <2>4. QED  BY <2>2, <2>3
<1>9. CASE Added(fold, e, fold', pending')
  <2>1. /\ m \in Items /\ e.type = "item/delta" /\ m \notin fold.done /\ fold.rev[m] # 0
        /\ fold'.rev = fold.rev /\ fold'.done = fold.done
        /\ fold'.known = [fold.known EXCEPT ![m] = Append(@, e.text)]
        /\ pending' = [kind |-> "text", item |-> m, text |-> <<e.text>>]
    <3>1. e.type \in Objects /\ m \in Items  BY <1>2, <1>9 DEF Added
    <3>2. <<e.text>> # <<>>  OBVIOUS
    <3>3. QED  BY <3>1, <3>2, <1>9 DEF Added, Text, m
  <2>2. CASE m # i
    <3>1. Forwarded(i)' = sent[i]  BY <2>1, <2>2, <1>1 DEF Forwarded
    <3>2. fold'.known[i] = fold.known[i]  BY <2>1, <2>2, <1>1
    <3>3. ~DeltaOf(c, i)  BY <2>2 DEF DeltaOf, e, m
    <3>4. QED  BY <2>1, <3>1, <3>2, <3>3, <1>6
  <2>3. CASE m = i
    <3> DEFINE known == Len(fold.known[i])
    <3>1. /\ known \in Nat /\ fold.known[i] = Chunks(known)
          /\ sent[i] = Chunks(Len(sent[i])) /\ (gone \/ sent[i] = fold.known[i])
      BY <1>1, <1>11, <1>4 DEF Exact
    <3>2. e.text = known + 1  BY <2>1, <2>3, DeltasFollow DEF e, m
    <3> HIDE DEF known
    <3>3. /\ fold'.known[i] = Chunks(e.text)
          /\ Forwarded(i)' = sent[i] \o <<e.text>>
          /\ gone \/ Forwarded(i)' = Chunks(e.text)
      <4>1. Append(Chunks(known), known + 1) = Chunks(known + 1)
            /\ Chunks(known) \o <<known + 1>> = Chunks(known + 1)
        BY <3>1, ChunkMore
      <4>2. fold'.known[i] = Append(fold.known[i], e.text)  BY <2>1, <2>3, <1>1
      <4>3. Forwarded(i)' = sent[i] \o <<e.text>>  BY <2>1, <2>3, <1>1 DEF Forwarded
      <4>4. fold'.known[i] = Chunks(e.text)  BY <4>1, <4>2, <3>1, <3>2
      <4>5. ~gone => sent[i] \o <<e.text>> = Chunks(e.text)  BY <4>1, <3>1, <3>2
      <4>6. QED  BY <4>3, <4>4, <4>5
    <3>4. Len(fold'.known[i]) = e.text  BY <3>3, <1>2, ChunksType
    <3>5. Exact(i)'
      <4>0. fold'.known[i] = Chunks(e.text) /\ (gone \/ Forwarded(i)' = Chunks(e.text))
        BY <3>3
      <4>1. gone' \/ Forwarded(i)' = fold'.known[i]  BY <4>0, <1>12
      <4>2. fold'.known[i] = Chunks(Len(fold'.known[i]))  BY <3>3, <3>4
      <4>3. sent'[i] = Chunks(Len(sent'[i]))  BY <3>1, <1>1
      <4>4. QED  BY <4>1, <4>2, <4>3 DEF Exact
    <3>6. e.type \notin Committed
      BY <2>1 DEF Committed, Endings, TurnEnds
    <3>7. /\ Queued(c) /\ ~Queued(c)' /\ c \in Nat
          /\ \A k \in Nat : Queued(k) => c <= k
      BY <3>6, <1>1, <1>5
    <3>8. Heard(i)'
      <4>1. \A k \in Nat : Queued(k)' => c < k  BY <3>7, <1>5
      <4>2. Teller(i, c)'  BY <4>1, <2>1, <2>3, <3>4, <1>1, <1>2 DEF Teller, e, m
      <4>3. QED  BY <4>2, <1>1 DEF Heard
    <3>9. ASSUME NEW k \in 1..Len(log), DeltaOf(k, i)
          PROVE  Queued(k)' <=> log[k].text > e.text
      <4>1. k \in Nat /\ log[k].text \in Nat /\ Alike(log, c, k) /\ Alike(log, k, c)
        <5>1. log[k].text \in Nat /\ log[k].type \in Objects /\ log[k].item = i
          BY <3>9, <1>1, <1>2 DEF DeltaOf, WellLogged, Wellformed, Event
        <5>2. log[c].type \in Objects /\ log[c].item = i  BY <2>1, <2>3, <1>2 DEF e, m
        <5>3. QED  BY <5>1, <5>2, <1>1 DEF Alike
      <4>2. CASE k = c  BY <4>2, <3>7, <1>2 DEF e
      <4>3. CASE k # c /\ Queued(k)
        <5>1. c \in 1..(k - 1)  BY <4>1, <4>3, <3>7
        <5>2. log[c].text < log[k].text
          BY <5>1, <4>1, <3>9, <1>1 DEF Accumulates, DeltaOf
        <5>3. QED  BY <5>2, <4>1, <4>3, <1>2, <1>5 DEF e
      <4>4. CASE k # c /\ ~Queued(k)
        <5>1. k < c  BY <4>4, <3>7, <3>9 DEF Passed
        <5>2. k \in 1..(c - 1)  BY <5>1
        <5>3. log[k].text < log[c].text \/ log[k].text = log[c].text
          BY <5>2, <4>1, <1>1 DEF Accumulates
        <5>4. QED  BY <5>3, <4>1, <4>4, <1>2, <1>5 DEF e
      <4>5. QED  BY <4>2, <4>3, <4>4
    <3>10. Level(i)'  BY <3>4, <3>9, <1>1 DEF Level, DeltaOf
    <3>11. QED  BY <3>5, <3>8, <3>10
  <2>4. QED  BY <2>2, <2>3
<1>10. QED  BY <1>3, <1>7, <1>8, <1>9

LEMMA FeedPassed ==
  ASSUME Steady, Passed, NEW c \in 1..Len(log), Serves(c), UNCHANGED <<log, torn>>
  PROVE  Passed'
<1>1. Len(log) \in Nat /\ log' = log /\ torn' = torn  BY DEF Steady, Typed
<1> SUFFICES ASSUME NEW i \in Items \ torn, NEW k \in 1..Len(log), DeltaOf(k, i),
                    ~Queued(k)', NEW q \in Nat, Queued(q)'
             PROVE  k < q
  BY <1>1 DEF Passed, DeltaOf
<1>2. k \in Nat /\ c \in Nat  BY <1>1
<1>3. Queued(q)  BY DEF Serves
<1>4. CASE ~Queued(k)  BY <1>3, <1>4 DEF Passed
<1>5. CASE Queued(k)
  <2>1. k = c /\ ~Queued(c)' /\ c <= q  BY <1>2, <1>3, <1>5 DEF Serves
  <2>2. q # c  BY <2>1
  <2>3. QED  BY <2>1, <2>2, <1>2
<1>6. QED  BY <1>4, <1>5
-----------------------------------------------------------------------------
(* The order of what waits, also when the setup's receiver lags.             *)
LEMMA SendsOrdered ==
  ASSUME Steady, Typed', Ordered, NEW entries, Sends(entries)
  PROVE  Ordered'
<1>1. /\ Typed /\ entries \in Seq(Entries) /\ Flows(entries) /\ buffered' = buffered
      /\ Announces(entries) /\ hole' \in {NoHole} \union 0..Len(log') /\ Len(log') \in Nat
  BY DEF Sends, Steady, Typed, TypeOK
<1>2. /\ Sorted(ring') /\ Across(buffered, ring')
      /\ \A n \in Nat : UpTo(ring, n) /\ UpTo(entries, n) => UpTo(ring', n)
  BY <1>1, FlowDelivers DEF Announces
<1>3. hole' # NoHole => UpTo(buffered', hole') /\ UpTo(ring', hole')
  BY <1>1, <1>2 DEF Announces
<1>4. Sorted(buffered)' /\ Sorted(ring)' /\ Across(buffered, ring)'
  BY <1>1, <1>2 DEF Ordered, Sorted, Across
<1>5. (hole # NoHole => UpTo(buffered, hole) /\ UpTo(ring, hole))'  BY <1>3
<1>6. QED  BY <1>4, <1>5 DEF Ordered

LEMMA SameOrdered ==
  ASSUME Ordered, hole' = hole,
         \/ buffered' = buffered /\ ring' = ring
         \/ buffered' = ring /\ ring' = <<>>
         \/ buffered' = <<>> /\ ring' = ring
  PROVE  Ordered'
<1>1. \A s : Sorted(<<>>) /\ Across(s, <<>>) /\ Across(<<>>, s) /\ UpTo(<<>>, hole)
  BY DEF Sorted, Across, UpTo
<1>2. /\ Sorted(buffered) /\ Sorted(ring) /\ Across(buffered, ring)
      /\ hole # NoHole => UpTo(buffered, hole) /\ UpTo(ring, hole)
  BY DEF Ordered
<1>3. /\ Sorted(buffered') /\ Sorted(ring') /\ Across(buffered', ring')
      /\ hole' # NoHole => UpTo(buffered', hole') /\ UpTo(ring', hole')
  BY <1>1, <1>2
<1>4. Sorted(buffered)' /\ Sorted(ring)' /\ Across(buffered, ring)'
  BY <1>3 DEF Sorted, Across
<1>5. (hole # NoHole => UpTo(buffered, hole) /\ UpTo(ring, hole))'  BY <1>3
<1>6. QED  BY <1>4, <1>5 DEF Ordered

(* Of what waits the driver takes the first.                                 *)
LEMMA TakesFirst ==
  ASSUME Steady, Ordered, NEW e, Takes(e), hole' = hole
  PROVE  /\ Ordered'
         /\ e.kind # "view" => \A k \in Nat : Queued(k)' <=> Queued(k)
         /\ e.kind = "view" =>
              /\ Queued(e.at) /\ ~Queued(e.at)'
              /\ \A k \in Nat : /\ Queued(k) => e.at <= k
                                /\ k # e.at => (Queued(k)' <=> Queued(k))
<1>1. /\ ring \in Seq(Entries) /\ buffered \in Seq(Entries)
      /\ Sorted(buffered) /\ Sorted(ring) /\ Across(buffered, ring)
      /\ hole # NoHole => UpTo(buffered, hole) /\ UpTo(ring, hole)
  BY DEF Steady, Typed, Ordered
<1>2. Ordered'
  <2>1. /\ Sorted(buffered') /\ Sorted(ring') /\ Across(buffered', ring')
        /\ hole # NoHole => UpTo(buffered', hole) /\ UpTo(ring', hole)
    BY <1>1, TakeOrdered DEF Takes
  <2>2. hole' # NoHole => UpTo(buffered', hole') /\ UpTo(ring', hole')
    BY <2>1
  <2>3. Sorted(buffered)' /\ Sorted(ring)' /\ Across(buffered, ring)'
    BY <2>1 DEF Sorted, Across
  <2>4. (hole # NoHole => UpTo(buffered, hole) /\ UpTo(ring, hole))'  BY <2>2
  <2>5. QED  BY <2>3, <2>4 DEF Ordered
<1>3. ASSUME NEW s \in Seq(Entries), s # <<>>, Sorted(s), e = Head(s)
      PROVE  /\ e \in Entries
             /\ \A k \in Nat : Shows(Tail(s), k) => Shows(s, k)
             /\ \A k \in Nat : Shows(s, k) =>
                  Shows(Tail(s), k) \/ (e.kind = "view" /\ e.at = k)
             /\ e.kind = "view" => /\ Shows(s, e.at) /\ ~Shows(Tail(s), e.at)
                                   /\ \A k \in Nat : Shows(s, k) => e.at <= k
  <2> DEFINE u == Tail(s)
  <2>1. /\ u \in Seq(Entries) /\ Len(u) = Len(s) - 1 /\ Len(s) \in Nat \ {0}
        /\ \A i \in 1..Len(u) : u[i] = s[i + 1]
        /\ e = s[1] /\ e \in Entries
    BY <1>3, HeadTailProperties
  <2> HIDE DEF u
  <2>2. \A i \in 1..Len(u) : i + 1 \in 1..Len(s) /\ 1 < i + 1 /\ u[i] = s[i + 1]
    BY <2>1
  <2>3. 1 \in 1..Len(s)  BY <2>1
  <2>4. ASSUME NEW k \in Nat, Shows(u, k) PROVE Shows(s, k)
    BY <2>2, <2>4 DEF Shows
  <2>5. ASSUME NEW k \in Nat, Shows(s, k)
        PROVE  Shows(u, k) \/ (e.kind = "view" /\ e.at = k)
    <3>1. PICK i \in 1..Len(s) : s[i].kind = "view" /\ s[i].at = k  BY <2>5 DEF Shows
    <3>2. CASE i = 1  BY <3>1, <3>2, <2>1
    <3>3. CASE i # 1
      <4> DEFINE j == i - 1
      <4>1. j \in 1..Len(u) /\ j + 1 = i  BY <3>3, <2>1
      <4> HIDE DEF j
      <4>2. u[j] = s[i]  BY <4>1, <2>2
      <4>3. QED  BY <3>1, <4>1, <4>2 DEF Shows
    <3>4. QED  BY <3>2, <3>3
  <2>6. ASSUME e.kind = "view", NEW k \in Nat, Shows(u, k) PROVE e.at < k
    <3>1. PICK i \in 1..Len(u) : u[i].kind = "view" /\ u[i].at = k  BY <2>6 DEF Shows
    <3>2. s[i + 1] \in Entries /\ s[i + 1].kind = "view" /\ s[i + 1].at = k
      BY <3>1, <2>2, <1>3
    <3>3. Before(s[1], s[i + 1])  BY <2>2, <2>3, <1>3 DEF Sorted
    <3>4. QED  BY <3>2, <3>3, <2>1, <2>6 DEF Before, Placed
  <2>7. ASSUME e.kind = "view"
        PROVE  /\ Shows(s, e.at) /\ ~Shows(u, e.at)
               /\ \A k \in Nat : Shows(s, k) => e.at <= k
    <3>1. e.at \in Nat  BY <2>1 DEF Entries
    <3>2. Shows(s, e.at)  BY <2>1, <2>3, <2>7 DEF Shows
    <3>3. ~Shows(u, e.at)  BY <3>1, <2>6, <2>7
    <3>4. QED  BY <3>1, <3>2, <3>3, <2>5, <2>6, <2>7
  <2>8. QED  BY <2>1, <2>4, <2>5, <2>7 DEF u
<1>4. CASE /\ pc = "loop" /\ buffered # <<>> /\ e = Head(buffered)
           /\ buffered' = Tail(buffered) /\ ring' = ring
  <2>1. /\ e \in Entries
        /\ \A k \in Nat : Shows(buffered', k) => Shows(buffered, k)
        /\ \A k \in Nat : Shows(buffered, k) =>
             Shows(buffered', k) \/ (e.kind = "view" /\ e.at = k)
        /\ e.kind = "view" => /\ Shows(buffered, e.at) /\ ~Shows(buffered', e.at)
                              /\ \A k \in Nat : Shows(buffered, k) => e.at <= k
    BY <1>1, <1>3, <1>4
  <2>2. ASSUME e.kind = "view", NEW k \in Nat, Shows(ring, k) PROVE e.at < k
    <3>1. PICK j \in 1..Len(ring) : ring[j].kind = "view" /\ ring[j].at = k
      BY <2>2 DEF Shows
    <3>2. 1 \in 1..Len(buffered) /\ e = buffered[1]  BY <1>1, <1>4, HeadTailProperties
    <3>3. Before(e, ring[j]) /\ ring[j] \in Entries  BY <3>2, <1>1 DEF Across
    <3>4. QED  BY <3>1, <3>3, <2>1, <2>2 DEF Before, Placed
  <2>3. e.kind = "view" => e.at \in Nat /\ ~Shows(ring, e.at)
    <3>1. e.at \in Nat  BY <2>1 DEF Entries
    <3>2. QED  BY <3>1, <2>2
  <2>4. \A k \in Nat : Queued(k)' <=> Shows(buffered', k) \/ Shows(ring, k)
    BY <1>4 DEF Queued, Shows
  <2>5. ASSUME e.kind = "view", NEW k \in Nat, Queued(k) PROVE e.at <= k
    BY <2>1, <2>2, <2>3, <2>5 DEF Queued
  <2>6. QED  BY <1>2, <2>1, <2>3, <2>4, <2>5 DEF Queued
<1>5. CASE /\ pc = "select" /\ ring # <<>> /\ ~lagged /\ e = Head(ring)
           /\ ring' = Tail(ring) /\ buffered' = buffered
  <2>1. /\ e \in Entries
        /\ \A k \in Nat : Shows(ring', k) => Shows(ring, k)
        /\ \A k \in Nat : Shows(ring, k) =>
             Shows(ring', k) \/ (e.kind = "view" /\ e.at = k)
        /\ e.kind = "view" => /\ Shows(ring, e.at) /\ ~Shows(ring', e.at)
                              /\ \A k \in Nat : Shows(ring, k) => e.at <= k
    BY <1>1, <1>3, <1>5
  <2>2. buffered = <<>> /\ \A k : ~Shows(buffered, k)
    BY <1>5 DEF Steady, Control, Shows
  <2>3. e.kind = "view" => e.at \in Nat
    BY <2>1 DEF Entries
  <2>4. \A k \in Nat : Queued(k)' <=> Shows(ring', k)
    BY <2>2, <1>5 DEF Queued, Shows
  <2>5. QED  BY <1>2, <2>1, <2>2, <2>3, <2>4 DEF Queued
<1>6. QED  BY <1>4, <1>5 DEF Takes
-----------------------------------------------------------------------------
(* TellInv holds on.                                                         *)
LEMMA LogTellsNext == Typed' => Accumulates(log)'
BY LogTells, PTL

LEMMA SendsTold ==
  ASSUME Steady, Typed', Logs, TellInv, NEW entries, Sends(entries)
  PROVE  TellInv'
<1>1. /\ Typed /\ Len(log) \in Nat /\ Len(log') \in Nat /\ Len(log) <= Len(log')
      /\ \A k \in 1..Len(log) : log'[k] = log[k]
      /\ \A k \in 1..Len(log) : k \in 1..Len(log')
      /\ page \subseteq 1..Len(log)
  BY DEF Steady, Typed, Logs
<1>2. /\ fold' = fold /\ buffered' = buffered /\ pending' = pending /\ page' = page
      /\ sent' = sent /\ gone' = gone /\ Tears(entries)
      /\ \A k \in Nat : Shows(entries, k) => k > Len(log)
      /\ \A k \in 1..Len(log') : k > Len(log) /\ log'[k].type = "item/delta" =>
           Shows(entries, k) \/ log'[k].item \in torn'
  BY DEF Sends
<1>3. /\ Ordered /\ Replayed /\ (~Over => Passed)
      /\ \A i \in Items \ torn : Exact(i) /\ (~Over => Heard(i) /\ Level(i))
  BY DEF TellInv
<1>4. Ordered'  BY <1>3, SendsOrdered
<1>5. Replayed'  BY <1>1, <1>2, <1>3 DEF Replayed
<1>6. Over => Over'  BY DEF Sends, Over
<1>7. torn \subseteq torn'  BY <1>2 DEF Tears
<1>8. ASSUME NEW k \in Nat, Queued(k)' PROVE Queued(k) \/ k > Len(log)
  <2>1. Shows(buffered', k) \/ Shows(ring', k)  BY <1>8 DEF Queued, Shows
  <2>2. QED  BY <2>1, <1>2 DEF Tears, Queued
<1>9. ASSUME ~Over, NEW k \in 1..Len(log'), Queued(k) \/ k > Len(log),
             log'[k].type = "item/delta", log'[k].item \notin torn'
      PROVE  Queued(k)'
  <2>1. k \in Nat /\ (Queued(k) \/ Shows(entries, k))  BY <1>1, <1>2, <1>9
  <2>2. Shows(buffered', k) \/ Shows(ring', k)
    BY <2>1, <1>2, <1>9 DEF Queued, Tears
  <2>3. QED  BY <2>2 DEF Queued, Shows
<1>10. ASSUME NEW i \in Items \ torn' PROVE Exact(i)'
  <2>1. Exact(i)  BY <1>3, <1>7
  <2>2. QED  BY <2>1, <1>2 DEF Exact, Forwarded
<1>11. ASSUME ~Over' PROVE Passed'
  <2> SUFFICES ASSUME NEW i \in Items \ torn', NEW k \in 1..Len(log'), DeltaOf(k, i)',
                      ~Queued(k)', NEW c \in Nat, Queued(c)'
               PROVE  k < c
    BY DEF Passed
  <2>1. ~Over /\ Passed  BY <1>3, <1>6, <1>11
  <2>2. log'[k].type = "item/delta" /\ log'[k].item = i  BY DEF DeltaOf
  <2>3. ~Queued(k) /\ ~(k > Len(log))  BY <2>1, <2>2, <1>9
  <2>4. k \in 1..Len(log) /\ DeltaOf(k, i)  BY <2>2, <2>3, <1>1 DEF DeltaOf
  <2>5. Queued(c) => k < c  BY <2>1, <2>3, <2>4, <1>7 DEF Passed
  <2>6. QED  BY <2>3, <2>5, <1>1, <1>8
<1>12. ASSUME ~Over', NEW i \in Items \ torn' PROVE Heard(i)' /\ Level(i)'
  <2>1. ~Over /\ Heard(i) /\ Level(i)  BY <1>3, <1>6, <1>7, <1>12
  <2>2. ASSUME NEW j \in 1..Len(log), Teller(i, j) PROVE Teller(i, j)' /\ j \in 1..Len(log')
    <3>1. \A c \in Nat : Queued(c)' => Queued(c) \/ j < c  BY <1>1, <1>8
    <3>2. QED  BY <3>1, <2>2, <1>1, <1>2 DEF Teller
  <2>3. Heard(i)'  BY <2>1, <2>2, <1>2 DEF Heard
  <2>4. ASSUME fold.rev[i] # 0, i \notin fold.done, NEW k \in 1..Len(log'),
               log'[k].type = "item/delta", log'[k].item = i
        PROVE  Queued(k)' <=> log'[k].text > Len(fold.known[i])
    <3>1. k \in Nat /\ i \notin torn' /\ i \in Items  BY <1>1
    <3>2. CASE k \in 1..Len(log)
      <4>1. Queued(k) <=> log[k].text > Len(fold.known[i])
        BY <2>1, <2>4, <3>2, <1>1 DEF Level, DeltaOf
      <4>2. Queued(k)' => Queued(k)  BY <3>1, <3>2, <1>8
      <4>3. Queued(k) => Queued(k)'  BY <2>1, <2>4, <3>1, <1>9
      <4>4. QED  BY <4>1, <4>2, <4>3, <3>2, <1>1
    <3>3. CASE k \notin 1..Len(log)
      <4>1. k > Len(log)  BY <3>3, <1>1
      <4>2. Queued(k)'  BY <4>1, <2>1, <2>4, <3>1, <1>9
      <4>3. Accumulates(log') /\ WellLogged'  BY LogTellsNext, TypedLogNext
      <4>4. log'[k].text \in Nat /\ log'[k].text > 0
        BY <4>3, <2>4 DEF Accumulates, WellLogged, Wellformed, Event
      <4>5. CASE fold.known[i] = <<>>  BY <4>2, <4>4, <4>5
      <4>6. CASE \E j \in 1..Len(log) : Teller(i, j)
        <5>1. PICK j \in 1..Len(log) : Teller(i, j)  BY <4>6
        <5>2. /\ log'[j].type \in Objects /\ log'[j].item = i
              /\ log'[j].text = Len(fold.known[i])
          BY <5>1, <1>1 DEF Teller
        <5>3. j \in 1..(k - 1)  BY <4>1, <1>1
        <5>4. Alike(log', j, k)
          BY <5>2, <2>4 DEF Alike, Objects
        <5>5. log'[j].text < log'[k].text  BY <5>3, <5>4, <4>3, <2>4 DEF Accumulates
        <5>6. log'[j].text \in Nat
          BY <4>3, <1>1 DEF WellLogged, Wellformed, Event
        <5>7. QED  BY <5>2, <5>5, <5>6, <4>2, <4>4
      <4>7. QED  BY <2>1, <4>5, <4>6 DEF Heard
    <3>4. QED  BY <3>2, <3>3
  <2>5. Level(i)'  BY <2>4, <1>2 DEF Level, DeltaOf
  <2>6. QED  BY <2>3, <2>5
<1>13. QED  BY <1>4, <1>5, <1>10, <1>11, <1>12 DEF TellInv

(* Where nothing is fed, and nothing that waits is taken.                    *)
LEMMA SameTold ==
  ASSUME Steady, Steady', TellInv, Ordered', Replayed',
         UNCHANGED <<log, fold, sent, torn>>, gone => gone', Over => Over',
         pending' = pending \/ (pending.kind # "text" /\ pending'.kind # "text"),
         \A k \in Nat : Queued(k)' <=> Queued(k)
  PROVE  TellInv'
<1>1. /\ Len(log) \in Nat /\ log' = log /\ fold' = fold /\ sent' = sent /\ torn' = torn
      /\ \A k \in 1..Len(log) : k \in Nat
  BY DEF Steady, Typed
<1>2. (~Over => Passed)
      /\ \A i \in Items \ torn : Exact(i) /\ (~Over => Heard(i) /\ Level(i))
  BY DEF TellInv
<1>3. ASSUME NEW i \in Items \ torn, Exact(i) PROVE Exact(i)'
  <2>1. Forwarded(i)' = Forwarded(i)
    BY <1>1 DEF Forwarded
  <2>2. gone \/ Forwarded(i) = fold.known[i]  BY <1>3 DEF Exact
  <2>3. gone' \/ Forwarded(i)' = fold'.known[i]
    BY <2>1, <2>2, <1>1
  <2>4. QED  BY <2>3, <1>1, <1>3 DEF Exact
<1>4. Passed => Passed'  BY <1>1 DEF Passed, DeltaOf
<1>5. ASSUME NEW i \in Items, Heard(i) PROVE Heard(i)'
  <2>1. \A j \in 1..Len(log) : Teller(i, j) => Teller(i, j)'  BY <1>1 DEF Teller
  <2>2. QED  BY <2>1, <1>1, <1>5 DEF Heard
<1>6. ASSUME NEW i \in Items, Level(i) PROVE Level(i)'
  BY <1>1, <1>6 DEF Level, DeltaOf
<1>7. QED  BY <1>1, <1>2, <1>3, <1>4, <1>5, <1>6 DEF TellInv

(* An event is fed.                                                          *)
LEMMA FeedTold ==
  ASSUME Steady, TellInv, Ordered', Replayed', pc \notin {"send", "end", "error"},
         NEW c \in 1..Len(log), NEW resume, FeedAt(c, resume), Serves(c),
         UNCHANGED <<log, sent, gone, torn>>
  PROVE  TellInv'
<1>1. ~Over /\ torn' = torn  BY DEF Over
<1>2. Passed /\ \A i \in Items \ torn : Exact(i) /\ Heard(i) /\ Level(i)
  BY <1>1 DEF TellInv
<1>3. Passed'  BY <1>2, FeedPassed
<1>4. \A i \in Items \ torn : Exact(i)' /\ Heard(i)' /\ Level(i)'
  BY <1>2, FeedTellsItem
<1>5. QED  BY <1>1, <1>3, <1>4 DEF TellInv

(* An output is forwarded.                                                   *)
LEMMA SendTold ==
  ASSUME Steady, TellInv, Send
  PROVE  TellInv'
<1> USE DEF hostVars, wireVars, pageVars, outVars
<1>1. /\ UNCHANGED <<log, hole, ring, lagged, torn, fold, buffered, page, gone>>
      /\ pending' = Silence /\ pc = "send" /\ ~Over
      /\ sent \in [Items -> Seq(Nat)]
      /\ gone \/ sent' = IF pending.kind = "text"
                         THEN [sent EXCEPT ![pending.item] = @ \o pending.text] ELSE sent
      /\ ~gone \/ sent' = sent
  BY DEF Send, Over, Steady, Typed
<1>2. /\ Ordered /\ Replayed /\ Passed
      /\ \A i \in Items \ torn : Exact(i) /\ Heard(i) /\ Level(i)
  BY <1>1 DEF TellInv
<1>3. Ordered'  BY <1>1, <1>2, SameOrdered
<1>4. Replayed'  BY <1>1, <1>2 DEF Replayed
<1>5. \A k : Queued(k)' <=> Queued(k)  BY <1>1 DEF Queued, Shows
<1>6. Passed'  BY <1>1, <1>2, <1>5 DEF Passed, DeltaOf
<1>7. ASSUME NEW i \in Items \ torn PROVE Exact(i)'
  <2>1. /\ fold.known[i] = Chunks(Len(fold.known[i])) /\ sent[i] = Chunks(Len(sent[i]))
        /\ gone \/ Forwarded(i) = fold.known[i]
    BY <1>2 DEF Exact
  <2>2. Forwarded(i)' = sent'[i]  BY <1>1 DEF Forwarded, Silence
  <2>3. CASE gone
    <3>1. sent' = sent /\ gone'  BY <2>3, <1>1
    <3>2. QED  BY <3>1, <2>1, <1>1 DEF Exact
  <2>4. CASE ~gone
    <3>1. sent'[i] = Forwarded(i)  BY <2>4, <1>1 DEF Forwarded
    <3>2. sent'[i] = fold'.known[i]  BY <3>1, <2>1, <2>4, <1>1
    <3>3. QED  BY <3>2, <2>1, <2>2, <1>1 DEF Exact
  <2>5. QED  BY <2>3, <2>4
<1>8. ASSUME NEW i \in Items \ torn PROVE Heard(i)' /\ Level(i)'
  <2>1. \A j \in 1..Len(log) : Teller(i, j) => Teller(i, j)'
    BY <1>1, <1>5 DEF Teller
  <2>2. Heard(i)'  BY <2>1, <1>1, <1>2 DEF Heard
  <2>3. Level(i)'  BY <1>1, <1>2, <1>5 DEF Level, DeltaOf
  <2>4. QED  BY <2>2, <2>3
<1>9. QED  BY <1>1, <1>3, <1>4, <1>6, <1>7, <1>8 DEF TellInv

(* A step that leaves the fold and what waits alone.                         *)
LEMMA RestTold ==
  ASSUME Steady, Steady', TellInv,
         UNCHANGED <<log, fold, sent, torn, ring, buffered, hole>>,
         gone => gone', Over => Over', Replayed',
         pending' = pending \/ (pending.kind # "text" /\ pending'.kind # "text")
  PROVE  TellInv'
<1>1. Ordered'  BY SameOrdered DEF TellInv
<1>2. \A k \in Nat : Queued(k)' <=> Queued(k)  BY DEF Queued, Shows
<1>3. QED  BY <1>1, <1>2, SameTold

LEMMA TakeTold ==
  ASSUME Steady, Steady', TellInv, DriveBuffered \/ SelectEvent
  PROVE  TellInv'
<1>1. /\ ring \in Seq(Entries) /\ Refers(ring) /\ buffered \in Seq(Entries)
      /\ Refers(buffered) /\ Len(log) \in Nat /\ gone \in BOOLEAN
  BY DEF Steady, Typed, TypeOK
<1>2. PICK e : /\ Takes(e) /\ DriveEvent(e) /\ pc \in {"loop", "select"}
               /\ UNCHANGED <<log, hole, sent, gone, torn>>
  <2>1. DriveBuffered => Takes(Head(buffered)) /\ DriveEvent(Head(buffered))
    BY DEF DriveBuffered, Takes, wireVars
  <2>2. SelectEvent => Takes(Head(ring)) /\ DriveEvent(Head(ring))
    BY DEF SelectEvent, Takes
  <2>3. pc \in {"loop", "select"} /\ UNCHANGED <<log, hole, sent, gone, torn>>
    BY DEF DriveBuffered, SelectEvent, hostVars, wireVars, outVars
  <2>4. QED  BY <2>1, <2>2, <2>3
<1>3. e \in Entries /\ (e.kind = "view" => e.at \in 1..Len(log))
  BY <1>1, <1>2, TakeTyped DEF Takes
<1>4. /\ Ordered'
      /\ e.kind # "view" => \A k \in Nat : Queued(k)' <=> Queued(k)
      /\ e.kind = "view" =>
           /\ Queued(e.at) /\ ~Queued(e.at)'
           /\ \A k \in Nat : /\ Queued(k) => e.at <= k
                             /\ k # e.at => (Queued(k)' <=> Queued(k))
  BY <1>2, TakesFirst DEF TellInv
<1>5. pending = Silence /\ ~Over  BY <1>2, AtRest DEF Steady, Over
<1>6. page' = page \/ page' = {}  BY <1>2 DEF DriveEvent, AskPages, pageVars
<1>7. Replayed'  BY <1>2, <1>6 DEF TellInv, Replayed
<1>8. CASE e.kind = "view"
  <2>1. FeedAt(e.at, "loop")  BY <1>2, <1>8 DEF DriveEvent
  <2>2. Serves(e.at)  BY <1>4, <1>8 DEF Serves
  <2>3. QED  BY <2>1, <2>2, <1>2, <1>3, <1>4, <1>7, <1>8, FeedTold
<1>9. CASE e.kind # "view"
  <2>1. fold' = fold /\ pending' = pending
    BY <1>2, <1>5, <1>9 DEF DriveEvent, Emit
  <2>2. QED  BY <2>1, <1>1, <1>2, <1>4, <1>5, <1>7, <1>9, SameTold
<1>10. QED  BY <1>8, <1>9

LEMMA PageTold ==
  ASSUME Steady, Steady', TellInv, PageArrives \/ FeedPage
  PROVE  TellInv'
<1>1. page \subseteq 1..Len(log) /\ gone \in BOOLEAN
  <2>1. page \subseteq 1..Len(log)  BY DEF Steady, Typed
  <2>2. gone \in BOOLEAN  BY DEF Steady, Typed, TypeOK
  <2>3. QED  BY <2>1, <2>2
<1> USE DEF hostVars, wireVars, outVars
<1>2. /\ UNCHANGED <<log, sent, torn, ring, buffered, hole, gone>>
      /\ pc \in {"ask", "page"} /\ ~Over
  BY DEF PageArrives, FeedPage, Over
<1>3. CASE PageArrives
  <2>1. page' = First(PageLimit, CommittedAfter(anchor)) /\ fold' = fold /\ pending' = pending
    BY <1>3 DEF PageArrives
  <2>2. page' \subseteq {k \in 1..Len(log) : log[k].type \in Committed}
    BY <2>1 DEF First, CommittedAfter
  <2>3. Replayed'  BY <2>2, <1>2 DEF Replayed
  <2>4. QED  BY <2>1, <2>3, <1>1, <1>2, RestTold
<1>4. CASE FeedPage
  <2>1. PICK k \in page : page' = page \ {k} /\ FeedAt(k, "page")
    BY <1>4 DEF FeedPage
  <2>2. k \in 1..Len(log) /\ log[k].type \in Committed
    BY <2>1, <1>1 DEF TellInv, Replayed
  <2>3. Serves(k)  BY <2>2, <1>2 DEF Serves, Queued, Shows
  <2>4. Replayed'  BY <2>1, <1>2 DEF TellInv, Replayed
  <2>5. Ordered'  BY <1>2, SameOrdered DEF TellInv
  <2>6. QED  BY <2>1, <2>2, <2>3, <2>4, <2>5, <1>2, FeedTold
<1>5. QED  BY <1>3, <1>4

LEMMA AckedTold ==
  ASSUME Steady, Steady', TellInv, Acked
  PROVE  TellInv'
<1> USE DEF hostVars, pageVars, outVars
<1>1. /\ pc = "started" /\ pc' = "loop" /\ buffered = <<>> /\ gone \in BOOLEAN
      /\ UNCHANGED <<log, fold, sent, torn, hole, pending, page, gone>>
      /\ \/ buffered' = ring /\ ring' = <<>>
         \/ buffered' = <<>> /\ ring' = ring
  BY DEF Acked, Steady, Control, InSetup, Typed, TypeOK
<1>2. Ordered'  BY <1>1, SameOrdered DEF TellInv
<1>3. \A k : ~Shows(<<>>, k)  BY DEF Shows
<1>4. \A k \in Nat : Queued(k)' <=> Queued(k)
  <2>1. \A k : Queued(k) <=> Shows(ring, k)  BY <1>1, <1>3 DEF Queued
  <2>2. \A k : Queued(k)' <=> Shows(buffered', k) \/ Shows(ring', k)  BY DEF Queued, Shows
  <2>3. QED  BY <2>1, <2>2, <1>1, <1>3
<1>5. Replayed'  BY <1>1 DEF TellInv, Replayed
<1>6. ~Over  BY <1>1 DEF Over
<1>7. QED  BY <1>1, <1>2, <1>4, <1>5, <1>6, SameTold

LEMMA TellStep ==
  ASSUME Steady, Steady', TellInv, [Next]_vars
  PROVE  TellInv'
<1> USE DEF hostVars, wireVars, driverVars, pageVars, outVars
<1>1. gone \in BOOLEAN  BY DEF Steady, Typed, TypeOK
<1>2. Replayed  BY DEF TellInv
<1>3. ASSUME UNCHANGED <<log, fold, sent, torn, ring, buffered, hole, pending, page>>,
             gone' = gone \/ gone' = TRUE, pc' = pc \/ ~Over
      PROVE  TellInv'
  <2>1. Replayed' /\ (Over => Over') /\ (gone => gone')
    BY <1>1, <1>2, <1>3 DEF Replayed, Over
  <2>2. QED  BY <2>1, <1>3, RestTold
<1>4. CASE UNCHANGED vars  BY <1>3, <1>4 DEF vars
<1>5. CASE HostEvent \/ HostSkips \/ HostGap \/ OtherSession \/ CancelTurn
  <2>1. Typed' /\ Logs  BY LogStep DEF Steady
  <2>2. PICK entries : Sends(entries)  BY <1>5, HostSends DEF TellInv
  <2>3. QED  BY <2>1, <2>2, SendsTold
<1>6. CASE HostDies \/ ClientReads \/ ClientLeaves
  BY <1>3, <1>6 DEF HostDies, ClientReads, ClientLeaves
<1>7. CASE StartTurn \/ SetupFails \/ SetupDropped \/ LoopTop \/ SelectCancelled
             \/ Decide \/ PageDone
  BY <1>3, <1>7 DEF StartTurn, SetupFails, SetupDropped, LoopTop, SelectCancelled,
     Decide, PageDone, InSetup, Over
<1>8. CASE SelectDead \/ PagingFails
  <2>1. /\ UNCHANGED <<log, fold, sent, torn, ring, buffered, hole, page, gone>>
        /\ pc \in {"select", "ask"} /\ pending' = Terminal("failed")
    BY <1>8 DEF SelectDead, PagingFails, Emit
  <2>2. pending.kind # "text" /\ pending'.kind # "text" /\ ~Over
    BY <2>1, AtRest DEF Steady, Terminal, Over
  <2>3. Replayed'  BY <2>1, <1>2 DEF Replayed
  <2>4. QED  BY <2>1, <2>2, <2>3, <1>1, RestTold
<1>9. CASE SelectLagged
  <2>1. /\ UNCHANGED <<log, fold, sent, torn, ring, buffered, hole, pending, gone>>
        /\ pc = "select" /\ page' = {}
    BY <1>9 DEF SelectLagged, AskPages
  <2>2. Replayed' /\ ~Over  BY <2>1 DEF Replayed, Over
  <2>3. QED  BY <2>1, <2>2, <1>1, RestTold
<1>10. CASE Acked  BY <1>10, AckedTold
<1>11. CASE DriveBuffered \/ SelectEvent  BY <1>11, TakeTold
<1>12. CASE PageArrives \/ FeedPage  BY <1>12, PageTold
<1>13. CASE Send  BY <1>13, SendTold
<1>14. QED
  BY <1>4, <1>5, <1>6, <1>7, <1>8, <1>9, <1>10, <1>11, <1>12, <1>13
  DEF Next, Host, Setup, Driver

LEMMA TellInit == Init => TellInv
<1> SUFFICES ASSUME Init PROVE TellInv  OBVIOUS
<1>1. /\ log = <<>> /\ ring = <<>> /\ buffered = <<>> /\ hole = NoHole
      /\ pending = Silence /\ page = {} /\ torn = {}
      /\ fold = NewFold /\ sent = [i \in Items |-> <<>>]
  BY DEF Init
<1>2. ~ \E k \in 1..Len(log) : TRUE  BY <1>1
<1>3. Ordered  BY <1>1 DEF Ordered, Sorted, Across, UpTo
<1>4. Replayed  BY <1>1 DEF Replayed
<1>5. Passed  BY <1>2 DEF Passed
<1>6. ASSUME NEW i \in Items PROVE Exact(i) /\ Heard(i) /\ Level(i)
  <2>1. fold.known[i] = <<>> /\ fold.rev[i] = 0 /\ sent[i] = <<>>
    BY <1>1 DEF NewFold
  <2>2. Forwarded(i) = <<>>  BY <2>1, <1>1 DEF Forwarded, Silence
  <2>3. Len(<<>>) = 0 /\ Chunks(0) = <<>>  BY DEF Chunks
  <2>4. QED  BY <2>1, <2>2, <2>3 DEF Exact, Heard, Level
<1>7. QED  BY <1>3, <1>4, <1>5, <1>6 DEF TellInv

LEMMA ToldOnce == TellInv => NoChunkTwice
BY DEF TellInv, Exact, NoChunkTwice
-----------------------------------------------------------------------------
(* No usage record is counted twice, and none that the host did not commit:  *)
(* sums over the log, up to each of its events.                              *)
Sums(f, set, s) ==
  /\ f \in [0..Len(s) -> Nat] /\ f[0] = 0
  /\ \A k \in 1..Len(s) : f[k] = f[k-1] + (IF k \in set THEN s[k].text ELSE 0)
Records(s) == { k \in 1..Len(s) : s[k].type = "usage" }

Charged ==
  /\ fold.counted \subseteq Records(log)
  /\ \E f : Sums(f, fold.counted, log) /\ f[Len(log)] = fold.usage
  /\ fold.total = 0 \/ \E k \in Records(log) : fold.total = log[k].rev

LEMMA SetInduction ==
  ASSUME NEW S \in SUBSET Nat, 0 \in S, \A n \in S : n + 1 \in S
  PROVE  S = Nat
<1>1. SUFFICES ASSUME Nat \ S # {} PROVE FALSE
  OBVIOUS
<1>2. PICK x \in Nat \ S : \A y \in Nat \ S : ~(<<y, x>> \in OpToRel(<, Nat))
  BY <1>1, NatLessThanWellFounded, WFMin
<1>3. x \in Nat /\ x \notin S /\ x # 0
  OBVIOUS
<1>4. x - 1 \in Nat /\ x - 1 < x /\ (x - 1) + 1 = x
  BY <1>3
<1>5. x - 1 \in S
  BY <1>2, <1>4 DEF OpToRel
<1> HIDE <1>2
<1>6. QED  BY <1>3, <1>4, <1>5

(* A sum that gains less at each step is less.                               *)
LEMMA SumsCompare ==
  ASSUME NEW n \in Nat, NEW f \in [0..n -> Nat], NEW h \in [0..n -> Nat], f[0] <= h[0],
         \A k \in 1..n : f[k-1] <= h[k-1] => f[k] <= h[k]
  PROVE  f[n] <= h[n]
<1> DEFINE S == { k \in Nat : k > n \/ f[k] <= h[k] }
<1>1. S \in SUBSET Nat /\ 0 \in S  OBVIOUS
<1>2. ASSUME NEW k \in S PROVE k + 1 \in S
  <2>1. k \in Nat /\ (k > n \/ f[k] <= h[k])  OBVIOUS
  <2>2. CASE k + 1 > n  BY <2>1, <2>2
  <2>3. CASE ~(k + 1 > n)
    <3>1. k + 1 \in 1..n /\ (k + 1) - 1 = k /\ f[k] <= h[k]  BY <2>1, <2>3
    <3>2. f[k + 1] <= h[k + 1]  BY <3>1
    <3>3. QED  BY <2>1, <3>2
  <2>4. QED  BY <2>2, <2>3
<1> HIDE DEF S
<1>3. S = Nat  BY <1>1, <1>2, SetInduction
<1>4. n \in S  BY <1>3
<1>5. QED  BY <1>4 DEF S

LEMMA SumsLess ==
  ASSUME NEW s, Len(s) \in Nat, \A k \in 1..Len(s) : s[k].text \in Nat,
         NEW a, NEW b, a \subseteq b, NEW f, Sums(f, a, s), NEW h, Sums(h, b, s)
  PROVE  f[Len(s)] <= h[Len(s)]
<1> DEFINE n == Len(s)
<1>1. n \in Nat /\ f \in [0..n -> Nat] /\ h \in [0..n -> Nat] /\ f[0] <= h[0]
  BY DEF Sums
<1>2. ASSUME NEW k \in 1..n, f[k-1] <= h[k-1] PROVE f[k] <= h[k]
  <2>1. /\ f[k] = f[k-1] + (IF k \in a THEN s[k].text ELSE 0)
        /\ h[k] = h[k-1] + (IF k \in b THEN s[k].text ELSE 0)
        /\ s[k].text \in Nat /\ (k \in a => k \in b)
        /\ k \in 0..n /\ k - 1 \in 0..n
    BY DEF Sums
  <2>2. f[k-1] \in Nat /\ h[k-1] \in Nat  BY <1>1, <2>1
  <2>3. QED  BY <1>2, <2>1, <2>2
<1> HIDE DEF n
<1>3. f[n] <= h[n]  BY <1>1, <1>2, SumsCompare
<1>4. QED  BY <1>3 DEF n

LEMMA SumsGrow ==
  ASSUME NEW s, NEW t, Len(s) \in Nat, Len(t) = Len(s) + 1,
         \A k \in 1..Len(s) : t[k] = s[k], t[Len(t)].text \in Nat,
         NEW a, NEW b, \A k \in 1..Len(s) : k \in a <=> k \in b,
         NEW f, Sums(f, a, s)
  PROVE  \E g : Sums(g, b, t) /\ (Len(t) \notin b => g[Len(t)] = f[Len(s)])
<1> DEFINE n == Len(s)
           last == IF n + 1 \in b THEN t[n + 1].text ELSE 0
           g == [k \in 0..(n + 1) |-> IF k = n + 1 THEN f[n] + last ELSE f[k]]
<1>1. n \in Nat /\ last \in Nat /\ f \in [0..n -> Nat] /\ f[0] = 0
  BY DEF Sums
<1>2. g \in [0..(n + 1) -> Nat] /\ g[0] = 0 /\ g[n + 1] = f[n] + last
      /\ \A k \in 0..n : g[k] = f[k]
  <2> HIDE DEF last, n
  <2>1. QED  BY <1>1
<1> HIDE DEF g
<1>3. ASSUME NEW k \in 1..(n + 1)
      PROVE  g[k] = g[k-1] + (IF k \in b THEN t[k].text ELSE 0)
  <2>1. CASE k = n + 1
    <3>1. k - 1 = n /\ n \in 0..n  BY <2>1, <1>1
    <3>2. QED  BY <2>1, <3>1, <1>2
  <2>2. CASE k # n + 1
    <3>1. k \in 1..n /\ k \in 0..n /\ k - 1 \in 0..n  BY <2>2, <1>1
    <3>2. f[k] = f[k-1] + (IF k \in a THEN s[k].text ELSE 0)  BY <3>1 DEF Sums
    <3>3. QED  BY <3>1, <3>2, <1>2
  <2>3. QED  BY <2>1, <2>2
<1>4. Sums(g, b, t)  BY <1>2, <1>3 DEF Sums
<1>5. n + 1 \notin b => g[n + 1] = f[n]
  <2>1. f[n] \in Nat  BY <1>1
  <2>2. QED  BY <2>1, <1>2
<1>6. QED  BY <1>4, <1>5

LEMMA SumsAside ==
  ASSUME NEW s, NEW t, Len(s) \in Nat, Len(t) = Len(s) + 1,
         \A k \in 1..Len(s) : t[k] = s[k], t[Len(t)].text \in Nat,
         NEW a, Len(t) \notin a, NEW f, Sums(f, a, s)
  PROVE  \E g : Sums(g, a, t) /\ g[Len(t)] = f[Len(s)]
<1>1. \A k \in 1..Len(s) : k \in a <=> k \in a  OBVIOUS
<1>2. \E g : Sums(g, a, t) /\ (Len(t) \notin a => g[Len(t)] = f[Len(s)])
  BY <1>1, SumsGrow
<1>3. QED  BY <1>2

LEMMA SumsMore ==
  ASSUME NEW s, Len(s) \in Nat, \A k \in 1..Len(s) : s[k].text \in Nat,
         NEW c \in 1..Len(s), NEW a, c \notin a, NEW f, Sums(f, a, s)
  PROVE  \E g : Sums(g, a \union {c}, s) /\ g[Len(s)] = f[Len(s)] + s[c].text
<1> DEFINE n == Len(s)
           m == s[c].text
           g == [k \in 0..n |-> IF k >= c THEN f[k] + m ELSE f[k]]
<1>1. n \in Nat /\ m \in Nat /\ c \in 1..n /\ f \in [0..n -> Nat] /\ f[0] = 0
  BY DEF Sums
<1>2. /\ g \in [0..n -> Nat] /\ g[0] = 0
      /\ \A k \in 0..n : g[k] = IF k >= c THEN f[k] + m ELSE f[k]
  <2> HIDE DEF n, m
  <2>1. QED  BY <1>1
<1> HIDE DEF g
<1>3. ASSUME NEW k \in 1..n
      PROVE  g[k] = g[k-1] + (IF k \in a \union {c} THEN s[k].text ELSE 0)
  <2>1. f[k] = f[k-1] + (IF k \in a THEN s[k].text ELSE 0)  BY DEF Sums
  <2>2. k \in 0..n /\ k - 1 \in 0..n  BY <1>1
  <2>3. f[k-1] \in Nat /\ f[k] \in Nat  BY <2>2, <1>1
  <2>4. /\ g[k] = IF k >= c THEN f[k] + m ELSE f[k]
        /\ g[k-1] = IF k - 1 >= c THEN f[k-1] + m ELSE f[k-1]
    BY <2>2, <1>2
  <2>5. CASE k = c
    <3>1. g[k] = f[k] + m /\ g[k-1] = f[k-1] /\ f[k] = f[k-1]
      BY <2>1, <2>3, <2>4, <2>5, <1>1
    <3>2. QED  BY <3>1, <2>3, <2>5
  <2>6. CASE k > c
    <3>1. g[k] = f[k] + m /\ g[k-1] = f[k-1] + m  BY <2>4, <2>6, <1>1
    <3>2. s[k].text \in Nat  OBVIOUS
    <3>3. k \in a \union {c} <=> k \in a  BY <2>6, <1>1
    <3>4. CASE k \in a
      <4>1. f[k] = f[k-1] + s[k].text  BY <3>4, <2>1
      <4>2. g[k] = g[k-1] + s[k].text  BY <4>1, <3>1, <3>2, <2>3, <1>1
      <4>3. QED  BY <4>2, <3>3, <3>4
    <3>5. CASE k \notin a
      <4>1. f[k] = f[k-1] + 0  BY <3>5, <2>1
      <4>2. g[k] = g[k-1] + 0  BY <4>1, <3>1, <2>3, <1>1
      <4>3. QED  BY <4>2, <3>3, <3>5
    <3>6. QED  BY <3>4, <3>5
  <2>7. CASE k < c
    <3>1. g[k] = f[k] /\ g[k-1] = f[k-1]  BY <2>4, <2>7, <1>1
    <3>2. QED  BY <3>1, <2>1, <2>7, <1>1
  <2>8. QED  BY <2>5, <2>6, <2>7, <1>1
<1>4. Sums(g, a \union {c}, s)  BY <1>2, <1>3 DEF Sums
<1>5. g[n] = f[n] + m
  <2>1. n \in 0..n /\ n >= c  BY <1>1
  <2>2. QED  BY <2>1, <1>2
<1>6. QED  BY <1>4, <1>5

(* Every sequence has its sums: the recursive definition defines them.       *)
LEMMA SumsExist ==
  ASSUME NEW s, Len(s) \in Nat, \A k \in 1..Len(s) : s[k].text \in Nat
  PROVE  \E f : Sums(f, Records(s), s)
<1> DEFINE n == Len(s)
           w(k) == IF k \in Records(s) THEN s[k].text ELSE 0
           Upto(f, m) == /\ f \in [0..m -> Nat] /\ f[0] = 0
                         /\ \A k \in 1..m : f[k] = f[k-1] + w(k)
           S == { m \in Nat : m > n \/ \E f : Upto(f, m) }
<1>1. n \in Nat /\ \A k \in 1..n : w(k) \in Nat  OBVIOUS
<1> HIDE DEF w, n
<1>2. 0 \in S
  <2> DEFINE z == [k \in 0..0 |-> 0]
  <2>1. z \in [0..0 -> Nat] /\ z[0] = 0 /\ ~ \E k \in 1..0 : TRUE  OBVIOUS
  <2> HIDE DEF z
  <2>2. Upto(z, 0)  BY <2>1
  <2>3. QED  BY <2>2
<1>3. ASSUME NEW m \in S PROVE m + 1 \in S
  <2>1. m \in Nat /\ (m > n \/ \E f : Upto(f, m))  OBVIOUS
  <2>2. CASE m + 1 > n  BY <2>1, <2>2
  <2>3. CASE ~(m + 1 > n)
    <3>1. m + 1 \in 1..n /\ ~(m > n)  BY <2>1, <2>3, <1>1
    <3>2. PICK f : Upto(f, m)  BY <2>1, <3>1
    <3> DEFINE g == [k \in 0..(m + 1) |-> IF k = m + 1 THEN f[m] + w(m + 1) ELSE f[k]]
    <3>3. f[m] \in Nat /\ w(m + 1) \in Nat  BY <3>1, <3>2, <2>1, <1>1
    <3>4. /\ g \in [0..(m + 1) -> Nat] /\ g[0] = 0 /\ g[m + 1] = f[m] + w(m + 1)
          /\ \A k \in 0..m : g[k] = f[k]
      BY <3>2, <3>3, <2>1
    <3> HIDE DEF g
    <3>5. ASSUME NEW k \in 1..(m + 1) PROVE g[k] = g[k-1] + w(k)
      <4>1. CASE k = m + 1
        <5>1. k - 1 = m /\ m \in 0..m  BY <4>1, <2>1
        <5>2. QED  BY <5>1, <4>1, <3>4
      <4>2. CASE k # m + 1
        <5>1. k \in 1..m /\ k \in 0..m /\ k - 1 \in 0..m  BY <4>2, <2>1
        <5>2. f[k] = f[k-1] + w(k)  BY <5>1, <3>2
        <5>3. QED  BY <5>1, <5>2, <3>4
      <4>3. QED  BY <4>1, <4>2
    <3>6. Upto(g, m + 1)  BY <3>4, <3>5
    <3>7. m + 1 \in Nat /\ \E e : Upto(e, m + 1)
      <4> HIDE DEF Upto
      <4>1. QED  BY <3>6, <2>1
    <3>8. QED  BY <3>7
  <2>4. QED  BY <2>2, <2>3
<1> HIDE DEF S
<1>4. S = Nat
  <2>1. S \in SUBSET Nat  BY DEF S
  <2>2. QED  BY <2>1, <1>2, <1>3, SetInduction
<1>5. n \in S  BY <1>1, <1>4
<1>6. PICK f : Upto(f, n)  BY <1>5, <1>1 DEF S
<1>7. Sums(f, Records(s), s)  BY <1>6 DEF Sums, n, w
<1>8. QED  BY <1>7

(* Spent is the sum over the host's records.                                 *)
LEMMA SpentSums ==
  ASSUME NEW s, Len(s) \in Nat, \A k \in 1..Len(s) : s[k].text \in Nat
  PROVE  Sums(Spent(s), Records(s), s)
<1> DEFINE n == Len(s)
           w(k) == IF s[k].type = "usage" THEN s[k].text ELSE 0
           F == CHOOSE f : f = [k \in 0..n |-> IF k = 0 THEN 0 ELSE f[k-1] + w(k)]
<1>1. PICK h : Sums(h, Records(s), s)  BY SumsExist
<1>2. /\ n \in Nat /\ h \in [0..n -> Nat] /\ h[0] = 0
      /\ \A k \in 1..n : h[k] = h[k-1] + w(k) /\ w(k) \in Nat
  BY <1>1 DEF Sums, Records
<1>3. Spent(s) = F  BY DEF Spent
<1> HIDE DEF w, n
<1>4. h = [k \in 0..n |-> IF k = 0 THEN 0 ELSE h[k-1] + w(k)]
  BY <1>2
<1>5. F = [k \in 0..n |-> IF k = 0 THEN 0 ELSE F[k-1] + w(k)]
  BY <1>4
<1> HIDE DEF F
<1>6. \A k \in 0..n : F[k] = IF k = 0 THEN 0 ELSE F[k-1] + w(k)  BY <1>5
<1> DEFINE S == { k \in Nat : k > n \/ F[k] = h[k] }
<1>7. 0 \in S
  <2>1. 0 \in 0..n  BY <1>2
  <2>2. F[0] = 0  BY <2>1, <1>6
  <2>3. QED  BY <2>2, <1>2
<1>8. ASSUME NEW k \in S PROVE k + 1 \in S
  <2>1. k \in Nat /\ (k > n \/ F[k] = h[k])  OBVIOUS
  <2>2. CASE k + 1 > n  BY <2>1, <2>2
  <2>3. CASE ~(k + 1 > n)
    <3> DEFINE j == k + 1
    <3>1. j \in 1..n /\ j \in 0..n /\ j - 1 = k /\ j # 0 /\ F[k] = h[k]
      BY <2>1, <2>3, <1>2
    <3>2. F[j] = F[j-1] + w(j) /\ h[j] = h[j-1] + w(j)  BY <3>1, <1>2, <1>6
    <3>3. F[j] = h[j] /\ j \in Nat  BY <3>1, <3>2
    <3>4. QED  BY <3>3
  <2>4. QED  BY <2>2, <2>3
<1> HIDE DEF S
<1>9. S = Nat
  <2>1. S \in SUBSET Nat  BY DEF S
  <2>2. QED  BY <2>1, <1>7, <1>8, SetInduction
<1>10. \A k \in 0..n : F[k] = h[k]
  <2> TAKE k \in 0..n
  <2>1. k \in S /\ ~(k > n)  BY <1>2, <1>9
  <2>2. QED  BY <2>1 DEF S
<1>11. DOMAIN F = 0..n  BY <1>5
<1>12. F = h
  <2>1. F = [k \in 0..n |-> F[k]]  BY <1>5, <1>11
  <2>2. h = [k \in 0..n |-> h[k]]  BY <1>2
  <2>3. QED  BY <2>1, <2>2, <1>10
<1>13. QED  BY <1>1, <1>3, <1>12

(* The sums over two sequences that agree up to k are the same there, and no *)
(* sum shrinks.                                                              *)
LEMMA SumsAlike ==
  ASSUME NEW s, NEW t, NEW k \in Nat, Len(s) \in Nat, Len(t) \in Nat,
         k <= Len(s), k <= Len(t),
         \A j \in 1..Len(s) : s[j].text \in Nat,
         \A j \in 1..k : s[j] = t[j],
         NEW f, Sums(f, Records(s), s), NEW h, Sums(h, Records(t), t)
  PROVE  f[k] = h[k] /\ f[k] <= f[Len(s)]
<1> DEFINE n == Len(s)
           w(j) == IF j \in Records(s) THEN s[j].text ELSE 0
<1>1. /\ f \in [0..n -> Nat] /\ f[0] = 0 /\ n \in Nat /\ k \in 0..n
      /\ \A j \in 1..n : f[j] = f[j-1] + w(j) /\ w(j) \in Nat
  BY DEF Sums
<1>2. /\ h[0] = 0 /\ \A j \in 1..k : h[j] = h[j-1] + w(j)
  <2>1. \A j \in 1..k : j \in 1..Len(s) /\ j \in 1..Len(t)  OBVIOUS
  <2>2. \A j \in 1..k : (j \in Records(s) <=> j \in Records(t)) /\ s[j].text = t[j].text
    BY <2>1 DEF Records
  <2>3. h[0] = 0 /\ \A j \in 1..Len(t) :
          h[j] = h[j-1] + (IF j \in Records(t) THEN t[j].text ELSE 0)
    BY DEF Sums
  <2>4. QED  BY <2>1, <2>2, <2>3
<1> HIDE DEF w, n
<1>3. f[k] = h[k]
  <2> DEFINE S == { j \in Nat : j > k \/ f[j] = h[j] }
  <2>1. 0 \in S  BY <1>1, <1>2
  <2>2. ASSUME NEW j \in S PROVE j + 1 \in S
    <3>1. j \in Nat /\ (j > k \/ f[j] = h[j])  OBVIOUS
    <3>2. CASE j + 1 > k  BY <3>1, <3>2
    <3>3. CASE ~(j + 1 > k)
      <4> DEFINE i == j + 1
      <4>1. i \in 1..k /\ i \in 1..n /\ i - 1 = j /\ f[j] = h[j]
        BY <3>1, <3>3, <1>1
      <4>2. f[i] = f[i-1] + w(i) /\ h[i] = h[i-1] + w(i)  BY <4>1, <1>1, <1>2
      <4>3. f[i] = h[i] /\ i \in Nat  BY <4>1, <4>2
      <4>4. QED  BY <4>3
    <3>4. QED  BY <3>2, <3>3
  <2> HIDE DEF S
  <2>3. S = Nat
    <3>1. S \in SUBSET Nat  BY DEF S
    <3>2. QED  BY <3>1, <2>1, <2>2, SetInduction
  <2>4. k \in S  BY <2>3
  <2>5. QED  BY <2>4 DEF S
<1>4. f[k] <= f[n]
  <2> DEFINE g == [j \in 0..n |-> IF j <= k THEN f[j] ELSE f[k]]
  <2>1. f[k] \in Nat /\ \A j \in 0..n : f[j] \in Nat  BY <1>1
  <2>2. /\ g \in [0..n -> Nat] /\ g[0] = 0 /\ g[n] = f[k]
        /\ \A j \in 0..n : g[j] = IF j <= k THEN f[j] ELSE f[k]
    BY <2>1, <1>1
  <2> HIDE DEF g
  <2>3. ASSUME NEW j \in 1..n, g[j-1] <= f[j-1] PROVE g[j] <= f[j]
    <3>1. j \in 0..n /\ j - 1 \in 0..n  BY <1>1
    <3>2. CASE j <= k
      <4>1. g[j] = f[j]  BY <3>1, <3>2, <2>2
      <4>2. QED  BY <4>1, <3>1, <2>1
    <3>3. CASE ~(j <= k)
      <4>1. g[j] = f[k]  BY <3>1, <3>3, <2>2
      <4>2. g[j-1] = f[k]
        <5>1. CASE j - 1 <= k
          <6>1. j - 1 = k  BY <5>1, <3>3, <1>1
          <6>2. g[j-1] = f[j-1]  BY <5>1, <3>1, <2>2
          <6>3. QED  BY <6>1, <6>2
        <5>2. CASE ~(j - 1 <= k)  BY <5>2, <3>1, <2>2
        <5>3. QED  BY <5>1, <5>2
      <4>3. f[j] = f[j-1] + w(j) /\ w(j) \in Nat  BY <1>1
      <4>4. f[j-1] \in Nat /\ f[k] \in Nat  BY <3>1, <2>1
      <4>5. f[k] <= f[j-1]  BY <4>2, <2>3
      <4>6. QED  BY <4>1, <4>3, <4>4, <4>5
    <3>4. QED  BY <3>2, <3>3
  <2>4. f[0] = 0 /\ g[0] <= f[0]  BY <2>2, <1>1
  <2>5. g[n] <= f[n]  BY <2>2, <2>3, <2>4, <1>1, SumsCompare
  <2>6. QED  BY <2>2, <2>5
<1>5. QED  BY <1>3, <1>4 DEF n

(* No `cumulative` block of the log states more than the host has counted.   *)
LEMMA StatesNoMore ==
  ASSUME Typed, NEW k \in Records(log)
  PROVE  log[k].rev \in Nat /\ log[k].rev <= Spent(log)[Len(log)]
<1>1. /\ WellLogged /\ Len(log) \in Nat /\ k \in 1..Len(log) /\ log[k].type = "usage"
  BY TypedLog DEF Typed, Records
<1>2. \A j \in 1..Len(log) : log[j].text \in Nat /\ log[j].rev \in Nat
  BY <1>1 DEF WellLogged, Wellformed, Event
<1>3. /\ script \in Seq(Event) /\ Metered(script)
      /\ Len(script) \in Nat /\ Len(log) <= Len(script)
      /\ \A j \in 1..Len(script) : script[j].text \in Nat
  <2>1. script \in Scripts /\ Len(log) <= Len(script)  BY DEF Typed, Plays
  <2>2. Playable(script) /\ Metered(script)  BY <2>1, TurnDriverAssumption
  <2>3. script \in Seq(Event)  BY <2>2 DEF Playable
  <2>4. Len(script) \in Nat /\ \A j \in 1..Len(script) : script[j] \in Event
    BY <2>3
  <2>5. \A j \in 1..Len(script) : script[j].text \in Nat  BY <2>4 DEF Event
  <2>6. QED  BY <2>1, <2>2, <2>3, <2>4, <2>5
<1>4. \A j \in 1..k : log[j] = script[j]
  <2>1. \A j \in 1..Len(log) :
          log[j] = script[j] \/ (j = Len(log) /\ log[j] = TurnEvent("cancelled", 0))
    BY DEF Typed, Plays
  <2>2. log[k].type # "cancelled"  BY <1>1
  <2>3. log[k] = script[k]
    <3>1. TurnEvent("cancelled", 0).type = "cancelled"  BY DEF TurnEvent
    <3>2. QED  BY <3>1, <2>1, <2>2, <1>1
  <2>4. ASSUME NEW j \in 1..k PROVE log[j] = script[j]
    <3>1. j \in 1..Len(log) /\ (j = Len(log) => j = k)  BY <1>1
    <3>2. QED  BY <3>1, <2>1, <2>3
  <2>5. QED  BY <2>4
<1>5. Sums(Spent(log), Records(log), log)  BY <1>1, <1>2, SpentSums
<1>6. Sums(Spent(script), Records(script), script)  BY <1>3, SpentSums
<1>7. k \in Nat /\ k <= Len(log) /\ k <= Len(script)  BY <1>1, <1>3
<1>8. Spent(log)[k] = Spent(script)[k] /\ Spent(log)[k] <= Spent(log)[Len(log)]
  <2> DEFINE s == log
             t == script
             f == Spent(s)
             h == Spent(t)
  <2>1. /\ Len(s) \in Nat /\ Len(t) \in Nat /\ k <= Len(s) /\ k <= Len(t) /\ k \in Nat
        /\ \A j \in 1..Len(s) : s[j].text \in Nat
        /\ \A j \in 1..k : s[j] = t[j]
        /\ Sums(f, Records(s), s) /\ Sums(h, Records(t), t)
    BY <1>1, <1>2, <1>3, <1>4, <1>5, <1>6, <1>7
  <2> HIDE DEF s, t, f, h
  <2>2. f[k] = h[k] /\ f[k] <= f[Len(s)]  BY <2>1, SumsAlike
  <2>3. QED  BY <2>2 DEF s, t, f, h
<1>9. log[k].rev <= Spent(log)[k]
  <2>1. k \in 1..Len(script) /\ script[k].type = "usage" /\ log[k] = script[k]
    BY <1>1, <1>3, <1>4, <1>7
  <2>2. script[k].rev <= Spent(script)[k]  BY <2>1, <1>3 DEF Metered
  <2>3. QED  BY <2>1, <2>2, <1>8
<1>10. /\ Spent(log)[k] \in Nat /\ Spent(log)[Len(log)] \in Nat /\ log[k].rev \in Nat
  BY <1>1, <1>2, <1>5, <1>7 DEF Sums
<1>11. QED  BY <1>8, <1>9, <1>10

LEMMA NeverInflated == Steady /\ Charged => UsageNeverInflated
<1> SUFFICES ASSUME Steady, Charged PROVE UsageNeverInflated  OBVIOUS
<1>1. Typed /\ WellLogged /\ Len(log) \in Nat  BY TypedLog DEF Steady, Typed
<1>2. \A k \in 1..Len(log) : log[k].text \in Nat
  BY <1>1 DEF WellLogged, Wellformed, Event
<1>3. PICK f : Sums(f, fold.counted, log) /\ f[Len(log)] = fold.usage  BY DEF Charged
<1>4. Sums(Spent(log), Records(log), log)  BY <1>1, <1>2, SpentSums
<1>5. f[Len(log)] <= Spent(log)[Len(log)]
  <2> DEFINE h == Spent(log)
  <2>1. Sums(h, Records(log), log)  BY <1>4
  <2> HIDE DEF h
  <2>2. f[Len(log)] <= h[Len(log)]  BY <1>1, <1>2, <1>3, <2>1, SumsLess DEF Charged
  <2>3. QED  BY <2>2 DEF h
<1>6. fold.total > 0 => fold.total <= Spent(log)[Len(log)]
  <2> SUFFICES ASSUME fold.total > 0 PROVE fold.total <= Spent(log)[Len(log)]  OBVIOUS
  <2>1. PICK k \in Records(log) : fold.total = log[k].rev  BY DEF Charged
  <2>2. log[k].rev <= Spent(log)[Len(log)]  BY <1>1, StatesNoMore
  <2>3. QED  BY <2>1, <2>2
<1>7. QED  BY <1>3, <1>5, <1>6 DEF UsageNeverInflated, FinalUsage

(* The host commits: the new event is not yet counted.                       *)
LEMMA ChargedGrows ==
  ASSUME Steady, Typed', Logs, Charged, fold' = fold
  PROVE  Charged'
<1>1. WellLogged /\ WellLogged' /\ Len(log) \in Nat /\ Len(log') \in Nat
  BY TypedLog, TypedLogNext DEF Steady, Typed
<1>2. /\ fold.counted \subseteq Records(log)
      /\ \E f : Sums(f, fold.counted, log) /\ f[Len(log)] = fold.usage
      /\ fold.total = 0 \/ \E k \in Records(log) : fold.total = log[k].rev
  BY DEF Charged
<1>3. CASE log' = log  BY <1>2, <1>3 DEF Charged
<1>4. CASE Len(log') = Len(log) + 1 /\ \A k \in 1..Len(log) : log'[k] = log[k]
  <2>1. log'[Len(log')].text \in Nat
    <3>1. Len(log') \in 1..Len(log')  BY <1>1, <1>4
    <3>2. QED  BY <3>1, <1>1 DEF WellLogged, Wellformed, Event
  <2>2. /\ \A k \in 1..Len(log) : k \in Records(log) <=> k \in Records(log')
        /\ Records(log) \subseteq Records(log') /\ Len(log') \notin Records(log)
    BY <1>1, <1>4 DEF Records
  <2>3. PICK f : Sums(f, fold.counted, log) /\ f[Len(log)] = fold.usage  BY <1>2
  <2>5. \E g : Sums(g, fold.counted, log') /\ g[Len(log')] = f[Len(log)]
    <3> DEFINE seen == fold.counted
               t == log'
    <3>1. Sums(f, seen, log) /\ Len(log) \in Nat  BY <2>3, <1>1
    <3>2. /\ Len(t) = Len(log) + 1 /\ \A k \in 1..Len(log) : t[k] = log[k]
          /\ t[Len(t)].text \in Nat
      BY <2>1, <1>4
    <3>3. Len(t) \notin seen  BY <2>2, <1>2
    <3> HIDE DEF seen, t
    <3>4. \E g : Sums(g, seen, t) /\ g[Len(t)] = f[Len(log)]
      BY <3>1, <3>2, <3>3, SumsAside
    <3>5. QED  BY <3>4 DEF seen, t
  <2>6. fold.total = 0 \/ \E k \in Records(log') : fold.total = log'[k].rev
    <3>1. \A k \in Records(log) : k \in Records(log') /\ log'[k].rev = log[k].rev
      BY <2>2, <1>4 DEF Records
    <3>2. QED  BY <3>1, <1>2
  <2>7. \E g : Sums(g, fold.counted, log') /\ g[Len(log')] = fold.usage
    BY <2>2, <2>3, <2>5, <1>2
  <2>8. fold.counted \subseteq Records(log')  BY <2>2, <1>2
  <2>9. QED  BY <2>6, <2>7, <2>8 DEF Charged
<1>5. QED  BY <1>3, <1>4 DEF Logs

(* A record is counted.                                                      *)
LEMMA ChargedFeeds ==
  ASSUME Steady, Charged, ~fold.settled, log' = log, NEW c \in 1..Len(log),
         NEW resume, FeedAt(c, resume)
  PROVE  Charged'
<1>1. WellLogged /\ Len(log) \in Nat /\ fold \in Folds
  BY TypedLog DEF Steady, Typed
<1>2. Wellformed(log[c]) /\ c \in Nat /\ \A k \in 1..Len(log) : log[k].text \in Nat
  BY <1>1 DEF WellLogged, Wellformed, Event
<1>3. fold' = Feed(fold, c, log[c]).fold  BY DEF FeedAt
<1>4. Charges(fold, c, log[c], fold')  BY <1>1, <1>2, <1>3, FeedTells
<1>5. /\ fold.counted \subseteq Records(log)
      /\ \E f : Sums(f, fold.counted, log) /\ f[Len(log)] = fold.usage
      /\ fold.total = 0 \/ \E k \in Records(log) : fold.total = log[k].rev
  BY DEF Charged
<1>6. CASE /\ fold'.counted = fold.counted /\ fold'.usage = fold.usage
           /\ fold'.total = fold.total
  BY <1>5, <1>6 DEF Charged
<1>7. CASE /\ log[c].type = "usage" /\ c \notin fold.counted
           /\ fold'.counted = fold.counted \union {c}
           /\ fold'.usage = fold.usage + log[c].text
           /\ fold'.total \in {fold.total, log[c].rev}
  <2>1. PICK f : Sums(f, fold.counted, log) /\ f[Len(log)] = fold.usage  BY <1>5
  <2>2. PICK g : /\ Sums(g, fold.counted \union {c}, log)
                 /\ g[Len(log)] = f[Len(log)] + log[c].text
    <3> DEFINE seen == fold.counted
    <3>1. Sums(f, seen, log) /\ c \notin seen  BY <2>1, <1>7
    <3>2. Len(log) \in Nat /\ \A k \in 1..Len(log) : log[k].text \in Nat  BY <1>1, <1>2
    <3> HIDE DEF seen
    <3>3. \E g : Sums(g, seen \union {c}, log) /\ g[Len(log)] = f[Len(log)] + log[c].text
      BY <3>1, <3>2, SumsMore
    <3>4. QED  BY <3>3 DEF seen
  <2>3. c \in Records(log)  BY <1>7 DEF Records
  <2>4. fold'.counted \subseteq Records(log)  BY <2>3, <1>5, <1>7
  <2>5. Sums(g, fold'.counted, log) /\ g[Len(log)] = fold'.usage  BY <2>1, <2>2, <1>7
  <2>6. fold'.total = 0 \/ \E k \in Records(log) : fold'.total = log[k].rev
    BY <2>3, <1>5, <1>7
  <2>7. QED  BY <2>4, <2>5, <2>6 DEF Charged
<1>8. QED  BY <1>4, <1>6, <1>7 DEF Charges

LEMMA ChargedStep ==
  ASSUME Steady, Steady', Charged, [Next]_vars
  PROVE  Charged'
<1>1. Logs /\ Typed'  BY LogStep DEF Steady
<1>2. CASE fold' = fold  BY <1>1, <1>2, ChargedGrows
<1>3. CASE DriveBuffered \/ SelectEvent
  <2>1. /\ ring \in Seq(Entries) /\ Refers(ring) /\ buffered \in Seq(Entries)
        /\ Refers(buffered)
    BY DEF Steady, Typed
  <2>2. PICK e : /\ Takes(e) /\ DriveEvent(e) /\ pc \in {"loop", "select"} /\ log' = log
    <3>1. DriveBuffered => Takes(Head(buffered)) /\ DriveEvent(Head(buffered))
      BY DEF DriveBuffered, Takes, wireVars
    <3>2. SelectEvent => Takes(Head(ring)) /\ DriveEvent(Head(ring))
      BY DEF SelectEvent, Takes
    <3>3. pc \in {"loop", "select"} /\ log' = log
      BY <1>3 DEF DriveBuffered, SelectEvent, hostVars
    <3>4. QED  BY <3>1, <3>2, <3>3, <1>3
  <2>3. e \in Entries /\ (e.kind = "view" => e.at \in 1..Len(log))
    BY <2>1, <2>2, TakeTyped DEF Takes
  <2>4. ~fold.settled  BY <2>2, AtRest DEF Steady
  <2>5. CASE e.kind = "view"
    <3>1. FeedAt(e.at, "loop")  BY <2>2, <2>5 DEF DriveEvent
    <3>2. QED  BY <3>1, <2>2, <2>3, <2>4, <2>5, ChargedFeeds
  <2>6. CASE e.kind # "view"
    <3>1. fold' = fold  BY <2>2, <2>6 DEF DriveEvent
    <3>2. QED  BY <3>1, <1>2
  <2>7. QED  BY <2>5, <2>6
<1>4. CASE FeedPage
  <2>1. PICK k \in page : FeedAt(k, "page")  BY <1>4 DEF FeedPage
  <2>2. k \in 1..Len(log)  BY <2>1 DEF Steady, Typed
  <2>3. log' = log /\ pc = "page"  BY <1>4 DEF FeedPage, hostVars
  <2>4. ~fold.settled  BY <2>3, AtRest DEF Steady
  <2>5. QED  BY <2>1, <2>2, <2>3, <2>4, ChargedFeeds
<1>5. CASE \/ UNCHANGED vars \/ Host \/ OtherSession \/ HostDies \/ Setup \/ LoopTop
           \/ SelectCancelled \/ SelectDead \/ SelectLagged \/ Send \/ PageArrives
           \/ PagingFails \/ PageDone \/ Decide \/ CancelTurn \/ ClientReads
           \/ ClientLeaves \/ SetupDropped
  <2>1. fold' = fold
    BY <1>5 DEF vars, driverVars, Host, HostEvent, HostSkips, HostGap, OtherSession,
       HostDies, Setup, StartTurn, SetupFails, Acked, LoopTop, SelectCancelled,
       SelectDead, SelectLagged, Send, PageArrives, PagingFails, PageDone, Decide,
       CancelTurn, ClientReads, ClientLeaves, SetupDropped
  <2>2. QED  BY <2>1, <1>2
<1>6. QED  BY <1>3, <1>4, <1>5 DEF Next, Driver

LEMMA ChargedInit == Init => Charged
<1> SUFFICES ASSUME Init PROVE Charged  OBVIOUS
<1>1. log = <<>> /\ fold.counted = {} /\ fold.usage = 0 /\ fold.total = 0
  BY DEF Init, NewFold
<1> DEFINE z == [k \in 0..0 |-> 0]
<1>2. Len(log) = 0 /\ Records(log) = {}  BY <1>1 DEF Records
<1>3. Sums(z, {}, log) /\ z[Len(log)] = 0
  <2>1. z \in [0..0 -> Nat] /\ z[0] = 0 /\ ~ \E k \in 1..0 : TRUE  OBVIOUS
  <2>2. QED  BY <2>1, <1>2 DEF Sums
<1> HIDE DEF z
<1>4. QED  BY <1>1, <1>2, <1>3 DEF Charged

(* However much is paged, replayed or delivered late, and wherever the       *)
(* broadcast overran: an item whose deltas all reached the driver has no     *)
(* chunk forwarded twice or out of order, and no usage record is charged     *)
(* twice.                                                                    *)
THEOREM ToldAndChargedOnce == SafeSpec => []NothingTwice
<1> DEFINE Inv == Steady /\ TellInv /\ Charged
<1>1. Init => Inv  BY SteadyInit, TellInit, ChargedInit
<1>2. Inv /\ [Next]_vars => Inv'
  <2> SUFFICES ASSUME Inv, [Next]_vars PROVE Inv'  OBVIOUS
  <2>1. Steady'  BY SteadyStep
  <2>2. TellInv'  BY <2>1, TellStep
  <2>3. Charged'  BY <2>1, ChargedStep
  <2>4. QED  BY <2>1, <2>2, <2>3
<1>3. Inv => NothingTwice  BY ToldOnce, NeverInflated DEF NothingTwice
<1>4. QED  BY <1>1, <1>2, <1>3, PTL DEF SafeSpec
=============================================================================

-------------------------- MODULE AcpDialogsProofs --------------------------
(***************************************************************************)
(* Theorems about AcpDialogs, for any asks, readers and scenes: a prompt   *)
(* is put to the client once; and, if no task overtakes another between    *)
(* its look at pending_perm and its assignment, one permission dialog is   *)
(* shown at a time, a verdict is what its own dialog was answered, and a   *)
(* session that closes leaves no waiter behind.                            *)
(***************************************************************************)
EXTENDS AcpDialogs, FiniteSetTheorems, SequenceTheorems, TLAPS

(* A request to the client belongs to the task that sent it until a task of  *)
(* its own awaits the answer.                                                *)
Owned ==
  /\ \A t \in Tasks : At(t, "asked") =>
       /\ task[t].req \in Sent /\ about[task[t].req] = task[t].ask
       /\ task[task[t].req] = Off
  /\ \A s, t \in Tasks : At(s, "asked") /\ At(t, "asked") /\ task[s].req = task[t].req =>
       s = t
  /\ \A n \in Dialogs \ Sent : task[n] = Off
  /\ Len(about) <= MaxDialogs

(* Who is where: a dialog's own task awaits, settles and opens what was      *)
(* queued; an ask is at hand from "opening" to "asked".                      *)
AtHand == {"opening", "passed", "asking", "asked"}
Fits(t, next) ==
  /\ next.at \in {"awaiting", "popping"} \union Settling => t \in Dialogs
  /\ next.at \in AtHand \union {"declining"} => next.ask \in Asks
  /\ next.at = "declining" => next.ask \in Inputs
  /\ t \in Dialogs /\ next.at \in AtHand \union {"declining"} => next.ask \in Approvals
Placed == \A t \in Tasks : Fits(t, task[t])

(* A prompt that is put to the client, by its task or by a request sent.     *)
Front     == {"passed", "asking", "declining"}
Fronts(i) == { t \in Tasks : task[t].ask = i /\ task[t].at \in Front }
SentFor(i) == { n \in Sent : about[n] = i }
Once ==
  \A i \in Inputs :
    /\ \A x, y \in SentFor(i) \union Fronts(i) : x = y
    /\ Fronts(i) # {} => SentFor(i) = {}
    /\ open /\ i \notin seen => Fronts(i) = {} /\ SentFor(i) = {}

(* The prompts shown: each under the request that was sent for it.           *)
Forms ==
  /\ \A e \in ui : e.req # 0 => e.req \in Sent /\ about[e.req] = e.ask
  /\ \A t \in Tasks, e \in ui : At(t, "asked") /\ e.ask = task[t].ask => e.req = 0
  /\ \A e \in ui : open /\ e.ask \in seen

DialogsInv == TypeOK /\ Owned /\ Placed /\ Once

(* One task at a time holds the session's permission dialog.                 *)
Holds(t) == \/ task[t].at \in {"passed", "asking", "asked"} /\ task[t].ask \in Approvals
            \/ At(t, "awaiting") /\ about[t] \in Approvals
Exclusive ==
  /\ perm.ask = None => perm = NoPerm
  /\ \A s, t \in Tasks : Holds(s) /\ Holds(t) => s = t
  /\ open => \A t \in Tasks : Holds(t) =>
       perm = CASE At(t, "passed")   -> NoPerm
                [] At(t, "awaiting") -> Entry(about[t], t)
                [] OTHER             -> Entry(task[t].ask, 0)

(* Every waiter is known: to the task that registered it, or to the session. *)
Known(n) == open /\ (perm.req = n \/ \E e \in ui : e.req = n)
Watched ==
  \A n \in Sent : waiter[n] = "open" =>
    \/ \E t \in Tasks : At(t, "asked") /\ task[t].req = n
    \/ At(n, "awaiting") /\ Known(n)

(* A verdict is about what its own dialog asked, and as it was answered.     *)
Faithful ==
  \A n \in Dialogs :
    /\ At(n, "awaiting") => n \in Sent
    /\ task[n].at \in Settling =>
         /\ n \in Sent /\ waiter[n] # "open" /\ task[n].ask = about[n]
         /\ At(n, "approving") <=> waiter[n] = "allow"

SessionInv == Forms /\ Exclusive /\ Watched /\ Faithful
-----------------------------------------------------------------------------
(* Tasks that move.                                                          *)
Task    == [at : Points, ask : Asks \union {None}, req : Nat]
Answers == {"open", "lost", "allow", "reject", "dismissed", "used"}
Entries == [ask : Approvals \union {None}, req : Nat]

Changes(t, next) == /\ task' \in [Tasks -> Task] /\ task'[t] = next
                    /\ \A s \in Tasks \ {t} : task'[s] = task[s]

(* The parts of the type invariant.                                          *)
HostTypes ==
  /\ kind \in [Approvals -> Kind]
  /\ asked \in [Asks -> {"never", "no", "waiting", "missed", "settled"}]
  /\ feed \in [Readers -> Seq(Asks)]
SessionTypes ==
  /\ open \in BOOLEAN /\ perm \in Entries /\ ui \subseteq [ask : Inputs, req : Nat]
  /\ seen \subseteq Inputs
QueueTypes  == queue \in Seq(Approvals) /\ \A i, j \in DOMAIN queue : queue[i] = queue[j] => i = j
ClientTypes == about \in Seq(Asks) /\ waiter \in [Sent -> Answers]

LEMMA TypeParts ==
  TypeOK <=> /\ HostTypes /\ SessionTypes /\ QueueTypes /\ ClientTypes
             /\ task \in [Tasks -> Task]
BY DEF TypeOK, HostTypes, SessionTypes, QueueTypes, ClientTypes, Task, Answers, Entries

LEMMA TypePartsNext ==
  TypeOK' <=> /\ HostTypes' /\ SessionTypes' /\ QueueTypes' /\ ClientTypes'
              /\ task' \in [Tasks -> Task]
BY DEF TypeOK, HostTypes, SessionTypes, QueueTypes, ClientTypes, Task, Answers, Entries, Sent

(* The names of tasks do not clash.                                          *)
LEMMA Names ==
  /\ Dialogs \subseteq Nat /\ Dialogs \subseteq Tasks /\ Readers \subseteq Tasks
  /\ Asks \subseteq Tasks /\ \A n \in Dialogs : n \notin Readers /\ n \notin Asks
  /\ \A a \in Approvals : a \notin Inputs /\ a \in Asks
  /\ \A i \in Inputs : i \notin Approvals /\ i \in Asks
  /\ None \notin Asks /\ MaxDialogs \in Nat
  /\ Observer \in Readers /\ Pulls \subseteq Readers
BY AcpDialogsAssumption DEF Dialogs, Tasks, Readers, Asks

LEMMA Moved ==
  ASSUME NEW t \in Tasks, task \in [Tasks -> Task], NEW p \in Points,
         NEW a \in Asks \union {None}, NEW n \in Nat, Moves(t, Suspended(p, a, n))
  PROVE  /\ Changes(t, Suspended(p, a, n))
         /\ task'[t].at = p /\ task'[t].ask = a /\ task'[t].req = n
<1>1. Suspended(p, a, n) \in Task  BY DEF Suspended, Task
<1>2. Changes(t, Suspended(p, a, n))  BY <1>1 DEF Changes, Moves
<1>3. QED  BY <1>2 DEF Changes, Suspended

LEMMA Returned ==
  ASSUME NEW t \in Tasks, task \in [Tasks -> Task], Returns(t)
  PROVE  /\ Changes(t, Over(t)) /\ Over(t) \in Task
         /\ task'[t].at \in {"off", "done"} /\ task'[t].ask = None
         /\ t \in Dialogs => task'[t].at = "done"
<1>1. Off \in Task /\ Suspended("done", None, 0) \in Task
  BY DEF Off, Suspended, Task, Points
<1>2. Over(t) \in Task  BY <1>1 DEF Over
<1>3. Changes(t, Over(t))  BY <1>2 DEF Changes, Returns, Moves
<1>4. t \in Dialogs => t \notin Readers  BY Names
<1>5. QED  BY <1>2, <1>3, <1>4 DEF Changes, Over, Off, Suspended

(* What a task is at, and what it has at hand.                               *)
LEMMA Stands ==
  ASSUME TypeOK, NEW t \in Tasks
  PROVE  /\ task[t] \in Task /\ task[t].at \in Points /\ task[t].req \in Nat
         /\ task[t].ask \in Asks \union {None}
BY TypeParts DEF Task

LEMMA HostTakesType ==
  ASSUME HostTypes, NEW set, NEW a \in Asks, HostTakes(set, a)
  PROVE  asked' \in [Asks -> {"never", "no", "waiting", "missed", "settled"}]
BY DEF HostTypes, HostTakes

(* A request to the client is the last of those sent.                        *)
LEMMA SentGrows ==
  ASSUME ClientTypes, NEW a \in Asks, about' = Append(about, a), waiter' = Append(waiter, "open")
  PROVE  /\ ClientTypes' /\ Len(about) \in Nat /\ Sent' = Sent \union {Len(about) + 1}
         /\ Len(about') = Len(about) + 1
         /\ Len(about) + 1 \notin Sent /\ about'[Len(about) + 1] = a
         /\ waiter'[Len(about) + 1] = "open"
         /\ \A n \in Sent : about'[n] = about[n] /\ waiter'[n] = waiter[n]
<1> DEFINE n == Len(about)
<1>1. /\ about \in Seq(Asks) /\ n \in Nat /\ waiter \in [1..n -> Answers]
  BY DEF ClientTypes, Sent
<1>2. /\ about' \in Seq(Asks) /\ Len(about') = n + 1 /\ about'[n + 1] = a
      /\ \A k \in 1..n : about'[k] = about[k]
  BY <1>1
<1> HIDE DEF n
<1>3. waiter \in Seq(Answers) /\ Len(waiter) = n  BY <1>1
<1>4. /\ waiter' \in [1..n+1 -> Answers] /\ waiter'[n + 1] = "open"
      /\ \A k \in 1..n : waiter'[k] = waiter[k]
  <2>1. "open" \in Answers /\ waiter' = Append(waiter, "open")  BY DEF Answers
  <2> DEFINE w == "open"
  <2> HIDE DEF w
  <2>2. waiter' = Append(waiter, w) /\ w \in Answers  BY <2>1 DEF w
  <2>3. /\ waiter' \in Seq(Answers) /\ Len(waiter') = n + 1 /\ waiter'[n + 1] = w
        /\ \A k \in 1..n : waiter'[k] = waiter[k]
    BY <2>2, <1>3, <1>1, AppendProperties
  <2>4. waiter' \in [1..n+1 -> Answers]
    <3> DEFINE u == waiter'
    <3>1. u \in Seq(Answers) /\ Len(u) = n + 1  BY <2>3
    <3> HIDE DEF u
    <3>2. u \in [1..n+1 -> Answers]  BY <3>1
    <3>3. QED  BY <3>2 DEF u
  <2>5. QED  BY <2>3, <2>4 DEF w
<1>5. Sent' = 1..n+1 /\ Sent = 1..n  BY <1>2 DEF Sent, n
<1>6. Sent' = Sent \union {n + 1} /\ n + 1 \notin Sent  BY <1>5, <1>1
<1>7. ClientTypes'  BY <1>2, <1>4, <1>5 DEF ClientTypes
<1>8. QED  BY <1>1, <1>2, <1>4, <1>5, <1>6, <1>7 DEF n
-----------------------------------------------------------------------------
(* Types.                                                                    *)

LEMMA HostStepsTyped ==
  ASSUME TypeOK,
         \/ \E a \in Asks : HostAsks(a) \/ HostSettles(a) \/ Delegate(a)
         \/ \E r \in Readers : Pull(r) \/ Read(r)
  PROVE  TypeOK'
<1> USE DEF hostVars, sessionVars, clientVars
<1>1. /\ HostTypes /\ SessionTypes /\ QueueTypes /\ ClientTypes
      /\ task \in [Tasks -> Task]
  BY TypeParts
<1>2. ASSUME UNCHANGED <<open, perm, queue, ui, seen, about, waiter>>, HostTypes',
             task' \in [Tasks -> Task]
      PROVE  TypeOK'
  <2>1. SessionTypes' /\ QueueTypes' /\ ClientTypes'
    BY <1>1, <1>2 DEF SessionTypes, QueueTypes, ClientTypes, Sent
  <2>2. QED  BY <2>1, <1>2, TypePartsNext
<1>3. ASSUME NEW a \in Asks, HostAsks(a) PROVE TypeOK'
  <2>1. /\ asked' \in [Asks -> {"never", "no", "waiting", "missed", "settled"}]
        /\ kind' = kind /\ task' = task
    BY <1>1, <1>3 DEF HostAsks, HostTypes
  <2>2. feed' \in [Readers -> Seq(Asks)]
    <3> DEFINE more == IF a \in Repeated THEN <<a, a>> ELSE <<a>>
    <3>1. more \in Seq(Asks)  BY <1>3
    <3>2. feed' = [feed EXCEPT ![Observer] = @ \o more]  BY <1>3 DEF HostAsks
    <3> HIDE DEF more
    <3>3. feed[Observer] \in Seq(Asks)  BY <1>1, Names DEF HostTypes
    <3>4. feed[Observer] \o more \in Seq(Asks)  BY <3>1, <3>3
    <3>5. QED  BY <3>2, <3>4, <1>1 DEF HostTypes
  <2>3. HostTypes'  BY <2>1, <2>2, <1>1 DEF HostTypes
  <2>4. QED  BY <2>1, <2>3, <1>1, <1>2, <1>3 DEF HostAsks
<1>4. ASSUME NEW a \in Asks, HostSettles(a) PROVE TypeOK'
  <2>1. HostTypes' /\ task' = task  BY <1>1, <1>4 DEF HostSettles, HostTypes
  <2>2. QED  BY <2>1, <1>1, <1>2, <1>4 DEF HostSettles
<1>5. ASSUME NEW a \in Asks, Delegate(a) PROVE TypeOK'
  <2>1. HostTypes'  BY <1>1, <1>5 DEF Delegate, HostTypes
  <2>2. task' \in [Tasks -> Task]
    BY <1>1, <1>5, Names, Moved DEF Delegate, Changes, Points
  <2>3. QED  BY <2>1, <2>2, <1>2, <1>5 DEF Delegate
<1>6. ASSUME NEW r \in Readers, Pull(r) PROVE TypeOK'
  <2>1. ASSUME NEW set \in SUBSET Asks PROVE Orders(set) \subseteq Seq(Asks)
    <3>1. IsFiniteSet(set)  BY AcpDialogsAssumption, FS_Subset
    <3>2. Cardinality(set) \in Nat  BY <3>1, FS_CardinalityType
    <3>3. QED  BY <3>2 DEF Orders
  <2>2. Waiting(Approvals) \subseteq Asks /\ Waiting(Inputs) \subseteq Asks
    BY Names DEF Waiting
  <2>3. PICK s \in Orders(Waiting(Approvals)), t \in Orders(Waiting(Inputs)) :
          feed' = [feed EXCEPT ![r] = s \o t]
    BY <1>6 DEF Pull
  <2>4. s \o t \in Seq(Asks)  BY <2>1, <2>2, <2>3
  <2>5. feed' \in [Readers -> Seq(Asks)]  BY <2>3, <2>4, <1>1 DEF HostTypes
  <2>6. HostTypes'  BY <2>5, <1>1, <1>6 DEF Pull, HostTypes
  <2>7. task' \in [Tasks -> Task]
    <3>1. r \in Tasks /\ Moves(r, Suspended("off", None, 0))
      BY <1>6, Names DEF Pull, Off
    <3>2. QED  BY <3>1, <1>1, Moved DEF Changes, Points
  <2>8. QED  BY <2>6, <2>7, <1>2, <1>6 DEF Pull
<1>7. ASSUME NEW r \in Readers, Read(r) PROVE TypeOK'
  <2>1. feed[r] \in Seq(Asks) /\ feed[r] # <<>>  BY <1>1, <1>7 DEF HostTypes, Read
  <2>2. Head(feed[r]) \in Asks /\ Tail(feed[r]) \in Seq(Asks)  BY <2>1
  <2>3. HostTypes'  BY <2>2, <1>1, <1>7 DEF Read, HostTypes
  <2>4. task' \in [Tasks -> Task]
    BY <2>2, <1>1, <1>7, Names, Moved DEF Read, Changes, Points
  <2>5. QED  BY <2>3, <2>4, <1>2, <1>7 DEF Read
<1>8. QED  BY <1>3, <1>4, <1>5, <1>6, <1>7

(* A task opens, shows or declines an ask.                                   *)
LEMMA OpenTyped ==
  ASSUME TypeOK, Owned, Placed, NEW t \in Tasks, OpenStep(t)
  PROVE  TypeOK'
<1> USE DEF hostVars, sessionVars, clientVars
<1>1. /\ HostTypes /\ SessionTypes /\ QueueTypes /\ ClientTypes
      /\ task \in [Tasks -> Task] /\ task[t].req \in Nat
      /\ task[t].ask \in Asks \union {None}
      /\ task[t].at \in AtHand \union {"declining"} => task[t].ask \in Asks
      /\ Sent \subseteq Dialogs
  <2>1. /\ HostTypes /\ SessionTypes /\ QueueTypes /\ ClientTypes
        /\ task \in [Tasks -> Task]
    BY TypeParts
  <2>2. task[t].req \in Nat /\ task[t].ask \in Asks \union {None}  BY Stands
  <2>3. task[t].at \in AtHand \union {"declining"} => task[t].ask \in Asks
    BY DEF Placed, Fits
  <2>4. Sent \subseteq Dialogs
    <3>1. Len(about) \in Nat  BY <2>1 DEF ClientTypes
    <3>2. QED  BY <3>1, Names DEF Owned, Sent, Dialogs
  <2>5. QED  BY <2>1, <2>2, <2>3, <2>4
<1>2. task[t].at \in {"opening", "passed", "asking", "asked", "declining"} =>
        task[t].ask \in Asks
  BY <1>1 DEF AtHand
<1>3. ASSUME Returns(t) PROVE task' \in [Tasks -> Task]
  BY <1>1, <1>3, Returned DEF Changes
<1>4. ASSUME NEW p \in Points, NEW n \in Nat, task[t].ask \in Asks,
             Moves(t, Suspended(p, task[t].ask, n))
      PROVE  task' \in [Tasks -> Task]
  BY <1>1, <1>4, Moved DEF Changes
<1>5. ASSUME NEW n \in Sent, task' = Completed(t, n) PROVE task' \in [Tasks -> Task]
  <2>1. Suspended("awaiting", None, n) \in Task
    BY <1>1, Names DEF Suspended, Task, Points
  <2>2. Over(t) \in Task  BY DEF Over, Off, Suspended, Task, Points
  <2>3. QED  BY <2>1, <2>2, <1>1, <1>5 DEF Completed
<1>6. {"opening", "passed", "asking", "asked", "declining"} \subseteq Points
  BY DEF Points
<1>7. CASE OpenBlind(t)
  <2>1. task[t].ask \in Asks  BY <1>2, <1>7 DEF OpenBlind, At
  <2>2. HostTypes'  BY <2>1, <1>1, <1>7, HostTakesType DEF OpenBlind, HostTypes
  <2>3. SessionTypes' /\ QueueTypes' /\ ClientTypes'
    BY <1>1, <1>7 DEF OpenBlind, SessionTypes, QueueTypes, ClientTypes, Sent
  <2>4. QED  BY <2>2, <2>3, <1>3, <1>7, TypePartsNext DEF OpenBlind
<1>8. CASE Defer(t)
  <2>1. HostTypes' /\ SessionTypes' /\ ClientTypes'
    BY <1>1, <1>8 DEF Defer, HostTypes, SessionTypes, ClientTypes, Sent
  <2>2. QueueTypes'
    <3> DEFINE a == task[t].ask
    <3>1. a \in Approvals /\ queue' \in {queue, Enqueued(a)}  BY <1>8 DEF Defer
    <3>2. CASE queue' = queue  BY <3>2, <1>1 DEF QueueTypes
    <3>3. CASE queue' = Append(queue, a) /\ ~ \E k \in DOMAIN queue : queue[k] = a
      <4> HIDE DEF a
      <4>1. /\ queue' \in Seq(Approvals) /\ DOMAIN queue' = 1..Len(queue) + 1
            /\ queue'[Len(queue) + 1] = a /\ DOMAIN queue = 1..Len(queue)
            /\ \A k \in 1..Len(queue) : queue'[k] = queue[k]
        BY <3>1, <3>3, <1>1 DEF QueueTypes
      <4>2. ASSUME NEW i \in DOMAIN queue', NEW j \in DOMAIN queue', queue'[i] = queue'[j]
            PROVE  i = j
        <5>1. Len(queue) \in Nat  BY <1>1 DEF QueueTypes
        <5>2. \A k \in DOMAIN queue' : k \in DOMAIN queue \/ k = Len(queue) + 1
          BY <4>1, <5>1
        <5>3. QED  BY <5>2, <4>1, <4>2, <3>3, <1>1 DEF QueueTypes
      <4>3. QED  BY <4>1, <4>2 DEF QueueTypes
    <3>4. QED  BY <3>1, <3>2, <3>3 DEF Enqueued
  <2>3. QED  BY <2>1, <2>2, <1>3, <1>8, TypePartsNext DEF Defer
<1>9. CASE Pass(t)
  <2>1. HostTypes' /\ SessionTypes' /\ QueueTypes' /\ ClientTypes'
    BY <1>1, <1>9 DEF Pass, HostTypes, SessionTypes, QueueTypes, ClientTypes, Sent
  <2>2. task' \in [Tasks -> Task]
    <3>1. \/ Returns(t)
          \/ Moves(t, Suspended("passed", task[t].ask, 0)) /\ task[t].ask \in Asks
      BY <1>2, <1>9 DEF Pass, At
    <3>2. QED  BY <3>1, <1>3, <1>4, <1>6
  <2>3. QED  BY <2>1, <2>2, TypePartsNext
<1>10. CASE Present(t)
  <2>1. HostTypes' /\ QueueTypes' /\ ClientTypes'
    BY <1>1, <1>10 DEF Present, HostTypes, QueueTypes, ClientTypes, Sent
  <2>2. SessionTypes'
    <3>1. perm' = perm \/ (perm' = Entry(task[t].ask, 0) /\ task[t].ask \in Approvals)
      BY <1>10 DEF Present
    <3>2. QED  BY <3>1, <1>1, <1>10 DEF Present, SessionTypes, Entry, Entries
  <2>3. task' \in [Tasks -> Task]
    <3>1. \/ Returns(t)
          \/ Moves(t, Suspended("asking", task[t].ask, 0)) /\ task[t].ask \in Asks
      BY <1>2, <1>10 DEF Present, At
    <3>2. QED  BY <3>1, <1>3, <1>4, <1>6
  <2>4. QED  BY <2>1, <2>2, <2>3, TypePartsNext
<1>11. CASE Request(t)
  <2>1. HostTypes' /\ QueueTypes' /\ SessionTypes'
    BY <1>1, <1>11 DEF Request, HostTypes, QueueTypes, SessionTypes
  <2>2. /\ task[t].ask \in Asks /\ about' = Append(about, task[t].ask)
        /\ waiter' = Append(waiter, "open") /\ Len(about) \in Nat
        /\ Moves(t, Suspended("asked", task[t].ask, Len(about) + 1))
    BY <1>1, <1>2, <1>11 DEF Request, At, ClientTypes
  <2>3. ClientTypes'  BY <2>2, <1>1, SentGrows DEF ClientTypes
  <2>4. task' \in [Tasks -> Task]
    <3>1. Len(about) + 1 \in Nat  BY <2>2
    <3>2. QED  BY <2>2, <3>1, <1>4, <1>6
  <2>5. QED  BY <2>1, <2>3, <2>4, TypePartsNext
<1>12. CASE Attach(t) \/ AttachInput(t)
  <2>1. /\ task[t].ask \in Asks /\ task[t].req \in Sent
        /\ HostTypes' /\ QueueTypes' /\ about' = about /\ UNCHANGED <<open, seen>>
    BY <1>1, <1>2, <1>12 DEF Attach, AttachInput, At, Owned, HostTypes, QueueTypes
  <2>2. ClientTypes'
    <3>1. waiter' \in {waiter, Released(task[t].req)}
      BY <1>12 DEF Attach, AttachInput
    <3>2. QED  BY <3>1, <2>1, <1>1 DEF ClientTypes, Released, Sent, Answers
  <2>3. SessionTypes'
    <3>1. CASE Attach(t)
      <4>1. perm' = perm \/ (perm' = Entry(task[t].ask, task[t].req) /\ task[t].ask \in Approvals)
        BY <3>1 DEF Attach
      <4>2. ui' = ui  BY <3>1 DEF Attach
      <4>3. QED  BY <4>1, <4>2, <2>1, <1>1 DEF SessionTypes, Entry, Entries
    <3>2. CASE AttachInput(t)
      <4>1. \/ ui' = ui
            \/ /\ ui' = { e \in ui : e.ask # task[t].ask }
                          \union {Entry(task[t].ask, task[t].req)}
               /\ task[t].ask \in Inputs
        BY <3>2 DEF AttachInput
      <4>2. perm' = perm  BY <3>2 DEF AttachInput
      <4>3. QED  BY <4>1, <4>2, <2>1, <1>1 DEF SessionTypes, Entry
    <3>3. QED  BY <3>1, <3>2, <1>12
  <2>4. task' \in [Tasks -> Task]
    <3>1. task' = Completed(t, task[t].req) \/ Returns(t)
      BY <1>12 DEF Attach, AttachInput
    <3>2. QED  BY <3>1, <2>1, <1>3, <1>5
  <2>5. QED  BY <2>1, <2>2, <2>3, <2>4, TypePartsNext
<1>13. CASE Route(t)
  <2>1. HostTypes' /\ QueueTypes' /\ ClientTypes'
    BY <1>1, <1>13 DEF Route, HostTypes, QueueTypes, ClientTypes, Sent
  <2>2. SessionTypes'  BY <1>1, <1>13 DEF Route, SessionTypes, Marked
  <2>3. task' \in [Tasks -> Task]
    <3>1. \/ Returns(t)
          \/ \E p \in {"passed", "declining"} : Moves(t, Suspended(p, task[t].ask, 0))
      BY <1>13 DEF Route
    <3>2. task[t].ask \in Asks  BY <1>2, <1>13 DEF Route, At
    <3>3. QED  BY <3>1, <3>2, <1>3, <1>4, <1>6
  <2>4. QED  BY <2>1, <2>2, <2>3, TypePartsNext
<1>14. CASE Bridge(t)
  <2>1. HostTypes' /\ QueueTypes' /\ ClientTypes'
    BY <1>1, <1>14 DEF Bridge, HostTypes, QueueTypes, ClientTypes, Sent
  <2>2. SessionTypes'
    <3>1. ui' = ui \/ (ui' = ui \union {Entry(task[t].ask, 0)} /\ task[t].ask \in Inputs)
      BY <1>14 DEF Bridge
    <3>2. QED  BY <3>1, <1>1, <1>14 DEF Bridge, SessionTypes, Entry
  <2>3. task' \in [Tasks -> Task]
    <3>1. \E p \in {"asking", "declining"} : Moves(t, Suspended(p, task[t].ask, 0))
      BY <1>14 DEF Bridge
    <3>2. task[t].ask \in Asks  BY <1>2, <1>14 DEF Bridge, At
    <3>3. QED  BY <3>1, <3>2, <1>4, <1>6
  <2>4. QED  BY <2>1, <2>2, <2>3, TypePartsNext
<1>15. CASE Decline(t)
  <2>1. task[t].ask \in Asks  BY <1>2, <1>15 DEF Decline, At
  <2>2. HostTypes'  BY <2>1, <1>1, <1>15, HostTakesType DEF Decline, HostTypes
  <2>3. SessionTypes' /\ QueueTypes' /\ ClientTypes'
    BY <1>1, <1>15 DEF Decline, SessionTypes, QueueTypes, ClientTypes, Sent
  <2>4. QED  BY <2>2, <2>3, <1>3, <1>15, TypePartsNext DEF Decline
<1>16. QED
  BY <1>7, <1>8, <1>9, <1>10, <1>11, <1>12, <1>13, <1>14, <1>15 DEF OpenStep

(* A dialog's own task takes the answer, settles the ask, and pops the next. *)
LEMMA CloseTyped ==
  ASSUME TypeOK, Owned, Placed, NEW n \in Dialogs, CloseStep(n)
  PROVE  TypeOK'
<1> USE DEF hostVars, sessionVars, clientVars
<1>1. /\ HostTypes /\ SessionTypes /\ QueueTypes /\ ClientTypes
      /\ task \in [Tasks -> Task] /\ n \in Tasks /\ n \in Nat
  BY TypeParts, Names
<1>2. ASSUME Returns(n) PROVE task' \in [Tasks -> Task]
  BY <1>1, <1>2, Returned DEF Changes
<1>3. ASSUME NEW p \in Points, NEW a \in Asks \union {None}, NEW k \in Nat,
             Moves(n, Suspended(p, a, k))
      PROVE  task' \in [Tasks -> Task]
  BY <1>1, <1>3, Moved DEF Changes
<1>4. {"approving", "denying", "cancelling", "popping", "opening"} \subseteq Points
  BY DEF Points, Settling
<1>5. ASSUME Used(n), about' = about PROVE ClientTypes'
  BY <1>1, <1>5 DEF ClientTypes, Used, Sent, Answers
<1>6. CASE TakePermission(n)
  <2>1. HostTypes' /\ QueueTypes' /\ ClientTypes'
    BY <1>1, <1>6 DEF TakePermission, HostTypes, QueueTypes, ClientTypes, Sent
  <2>2. SessionTypes'
    <3>1. perm' = perm \/ perm' = Entry(None, 0)  BY <1>6 DEF TakePermission, NoPerm
    <3>2. QED  BY <3>1, <1>1, <1>6 DEF TakePermission, SessionTypes, Entry, Entries
  <2>3. task' \in [Tasks -> Task]
    <3>1. \/ Returns(n)
          \/ Moves(n, Suspended(Verdict(waiter[n], perm.ask), perm.ask, n)) /\ perm.ask # None
      BY <1>6 DEF TakePermission
    <3>2. Verdict(waiter[n], perm.ask) \in {"approving", "denying", "cancelling"}
      BY DEF Verdict
    <3>3. perm.ask # None => perm.ask \in Asks  BY <1>1, Names DEF SessionTypes, Entries
    <3>4. QED  BY <3>1, <3>2, <3>3, <1>1, <1>2, <1>3, <1>4
  <2>4. QED  BY <2>1, <2>2, <2>3, TypePartsNext
<1>7. CASE Decide(n) \/ AnswerInput(n)
  <2>1. task[n].ask \in Asks  BY <1>7, Names DEF Decide, AnswerInput
  <2>2. \E set : HostTakes(set, task[n].ask)  BY <1>7 DEF Decide, AnswerInput
  <2>3. HostTypes'
    BY <2>1, <2>2, <1>1, <1>7, HostTakesType DEF Decide, AnswerInput, HostTypes
  <2>4. SessionTypes' /\ QueueTypes' /\ ClientTypes'
    BY <1>1, <1>5, <1>7 DEF Decide, AnswerInput, SessionTypes, QueueTypes
  <2>5. task' \in [Tasks -> Task]
    <3>1. Returns(n) \/ Moves(n, Suspended("popping", None, n))
      BY <1>7 DEF Decide, AnswerInput
    <3>2. QED  BY <3>1, <1>1, <1>2, <1>3, <1>4
  <2>6. QED  BY <2>3, <2>4, <2>5, TypePartsNext
<1>8. CASE Pop(n)
  <2>1. HostTypes' /\ SessionTypes' /\ ClientTypes'
    BY <1>1, <1>8 DEF Pop, HostTypes, SessionTypes, ClientTypes, Sent
  <2>2. CASE Pops
    <3>1. /\ queue \in Seq(Approvals) /\ queue # <<>> /\ queue' = Tail(queue)
          /\ Moves(n, Suspended("opening", Head(queue), 0))
      BY <2>2, <1>1, <1>8 DEF Pop, Pops, QueueTypes
    <3>2. Head(queue) \in Approvals /\ Tail(queue) \in Seq(Approvals)  BY <3>1
    <3>3. QueueTypes'
      <4>1. /\ DOMAIN queue' = 1..Len(queue) - 1 /\ DOMAIN queue = 1..Len(queue)
            /\ Len(queue) \in Nat
            /\ \A k \in 1..Len(queue) - 1 : queue'[k] = queue[k + 1]
        BY <3>1
      <4>2. ASSUME NEW i \in DOMAIN queue', NEW j \in DOMAIN queue', queue'[i] = queue'[j]
            PROVE  i = j
        <5>1. /\ i + 1 \in DOMAIN queue /\ j + 1 \in DOMAIN queue
              /\ queue[i + 1] = queue[j + 1]
          BY <4>1, <4>2
        <5>2. i + 1 = j + 1  BY <5>1, <1>1 DEF QueueTypes
        <5>3. i \in Nat /\ j \in Nat  BY <4>1, <4>2
        <5>4. QED  BY <5>2, <5>3
      <4>3. QED  BY <3>1, <3>2, <4>2 DEF QueueTypes
    <3>4. task' \in [Tasks -> Task]
      <4>1. Head(queue) \in Asks  BY <3>2, Names
      <4>2. QED  BY <3>1, <4>1, <1>3, <1>4
    <3>5. QED  BY <2>1, <3>3, <3>4, TypePartsNext
  <2>3. CASE ~Pops
    <3>1. Returns(n) /\ queue' = queue  BY <2>3, <1>8 DEF Pop
    <3>2. QueueTypes'  BY <3>1, <1>1 DEF QueueTypes
    <3>3. QED  BY <3>1, <3>2, <2>1, <1>2, TypePartsNext
  <2>4. QED  BY <2>2, <2>3
<1>9. CASE TakeInput(n)
  <2>1. HostTypes' /\ QueueTypes' /\ ClientTypes'
    BY <1>1, <1>9 DEF TakeInput, HostTypes, QueueTypes, ClientTypes, Sent
  <2>2. SessionTypes'  BY <1>1, <1>9 DEF TakeInput, SessionTypes
  <2>3. task' \in [Tasks -> Task]
    <3>1. \/ Returns(n)
          \/ \E e \in ui : \E p \in {"approving", "cancelling"} :
               Moves(n, Suspended(p, e.ask, n))
      BY <1>9 DEF TakeInput
    <3>2. \A e \in ui : e.ask \in Asks  BY <1>1, Names DEF SessionTypes
    <3>3. QED  BY <3>1, <3>2, <1>1, <1>2, <1>3, <1>4
  <2>4. QED  BY <2>1, <2>2, <2>3, TypePartsNext
<1>10. QED  BY <1>6, <1>7, <1>8, <1>9 DEF CloseStep

LEMMA ClientTyped ==
  ASSUME TypeOK, (\E n \in Dialogs : Answer(n)) \/ Close
  PROVE  TypeOK' /\ task' = task /\ about' = about
<1> USE DEF hostVars, sessionVars, clientVars
<1>1. /\ HostTypes /\ SessionTypes /\ QueueTypes /\ ClientTypes
      /\ task \in [Tasks -> Task]
  BY TypeParts
<1>2. ASSUME NEW n \in Dialogs, Answer(n) PROVE TypeOK' /\ task' = task /\ about' = about
  <2>1. HostTypes' /\ SessionTypes' /\ QueueTypes' /\ task' = task /\ about' = about
    BY <1>1, <1>2 DEF Answer, HostTypes, SessionTypes, QueueTypes
  <2>2. ClientTypes'
    <3>1. \E answer \in Answers : waiter' = [waiter EXCEPT ![n] = answer]
      BY <1>2 DEF Answer, Answers
    <3>2. QED  BY <3>1, <2>1, <1>1 DEF ClientTypes, Sent
  <2>3. QED  BY <2>1, <2>2, <1>1, TypePartsNext
<1>3. ASSUME Close PROVE TypeOK' /\ task' = task /\ about' = about
  <2>1. /\ open' = FALSE /\ perm' = NoPerm /\ queue' = <<>> /\ ui' = {} /\ seen' = {}
        /\ UNCHANGED <<kind, asked, feed, about, task>>
        /\ waiter' = [n \in Sent |-> IF waiter[n] = "open" /\ (n = perm.req \/ \E e \in ui : e.req = n)
                                     THEN "lost" ELSE waiter[n]]
    BY <1>3 DEF Close
  <2>2. HostTypes'  BY <2>1, <1>1 DEF HostTypes
  <2>3. SessionTypes'  BY <2>1 DEF SessionTypes, NoPerm, Entry, Entries
  <2>4. QueueTypes'  BY <2>1 DEF QueueTypes
  <2>5. ClientTypes'  BY <2>1, <1>1 DEF ClientTypes, Sent, Answers
  <2>6. QED  BY <2>1, <2>2, <2>3, <2>4, <2>5, <1>1, TypePartsNext
<1>4. QED  BY <1>2, <1>3

LEMMA TypedStep ==
  ASSUME TypeOK, Owned, Placed, [Next]_vars
  PROVE  TypeOK'
<1>1. CASE UNCHANGED vars
  BY <1>1, TypeParts, TypePartsNext
     DEF vars, hostVars, sessionVars, clientVars, HostTypes, SessionTypes, QueueTypes,
         ClientTypes, Sent
<1>2. ASSUME NEW t \in Readers \union Asks \union Dialogs, OpenStep(t) PROVE TypeOK'
  BY <1>2, OpenTyped DEF Tasks
<1>3. CASE Next
  BY <1>2, <1>3, HostStepsTyped, CloseTyped, ClientTyped DEF Next
<1>4. QED  BY <1>1, <1>3

LEMMA TypedInit == Init => TypeOK
<1> SUFFICES ASSUME Init PROVE TypeOK  OBVIOUS
<1>1. PICK scene \in Scenes :
        /\ kind \in [Approvals -> scene.kinds]
        /\ asked = [a \in Asks |-> IF a \in scene.asks THEN "no" ELSE "never"]
        /\ task = [t \in Tasks |->
                    CASE t \in scene.pulls -> Suspended("new", None, 0)
                      [] t \in (Asks \ scene.delegated) \union (Pulls \ scene.pulls) ->
                           Suspended("done", None, 0)
                      [] OTHER -> Off]
  BY DEF Init
<1>2. scene.kinds \subseteq Kind  BY AcpDialogsAssumption DEF Scene
<1>3. kind \in [Approvals -> Kind]  BY <1>1, <1>2
<1>4. HostTypes
  <2>1. feed \in [Readers -> Seq(Asks)]  BY DEF Init
  <2>2. QED  BY <2>1, <1>1, <1>3 DEF HostTypes
<1>5. SessionTypes /\ QueueTypes
  BY DEF Init, SessionTypes, QueueTypes, NoPerm, Entry, Entries
<1>6. ClientTypes  BY DEF Init, ClientTypes, Sent
<1>7. task \in [Tasks -> Task]
  <2>1. \A p \in {"new", "done", "off"} : Suspended(p, None, 0) \in Task
    BY DEF Suspended, Task, Points
  <2>2. QED  BY <2>1, <1>1 DEF Off
<1>8. QED  BY <1>4, <1>5, <1>6, <1>7, TypeParts
-----------------------------------------------------------------------------
(* Steps of one task.                                                        *)
Quiet == {"off", "done", "opening", "popping"}

Shifts(t, next) ==
  /\ Changes(t, next) /\ Fits(t, next) /\ next.at # "asked"
  /\ t \in Dialogs => task[t] # Off
  /\ next.at \in Front /\ next.ask \in Inputs =>
       task[t].at \in Front /\ task[t].ask = next.ask

LEMMA OwnedMove ==
  ASSUME Owned, NEW t \in Tasks, NEW next \in Task, Changes(t, next), next.at # "asked",
         t \in Dialogs => task[t] # Off, about' = about
  PROVE  Owned'
<1>1. \A s \in Tasks : task'[s].at = "asked" => s # t /\ task'[s] = task[s]
  BY DEF Changes
<1>2. \A n \in Dialogs : task[n] = Off => task'[n] = Off
  BY Names DEF Changes
<1>3. Sent \subseteq Dialogs
  BY Names DEF Owned, Sent, Dialogs
<1>4. ASSUME NEW s \in Tasks, task'[s].at = "asked"
      PROVE  /\ task'[s].req \in Sent /\ about[task'[s].req] = task'[s].ask
             /\ task'[task'[s].req] = Off
  <2>1. task'[s] = task[s] /\ task[s].at = "asked"  BY <1>1, <1>4
  <2>2. task[s].req \in Sent /\ about[task[s].req] = task[s].ask /\ task[task[s].req] = Off
    BY <2>1 DEF Owned, At
  <2>3. QED  BY <2>1, <2>2, <1>2, <1>3
<1>5. \A r, s \in Tasks : task'[r].at = "asked" /\ task'[s].at = "asked"
                          /\ task'[r].req = task'[s].req => r = s
  BY <1>1 DEF Owned, At
<1>6. \A n \in Dialogs \ Sent : task'[n] = Off  BY <1>2 DEF Owned
<1>7. Len(about) <= MaxDialogs  BY DEF Owned
<1>8. QED  BY <1>4, <1>5, <1>6, <1>7 DEF Owned, At, Sent

LEMMA PlacedMove ==
  ASSUME Placed, NEW t \in Tasks, NEW next \in Task, Changes(t, next), Fits(t, next)
  PROVE  Placed'
<1>1. \A s \in Tasks : Fits(s, task'[s])  BY DEF Changes, Placed
<1>2. QED  BY <1>1 DEF Placed, Fits

LEMMA OnceMove ==
  ASSUME Once, NEW t \in Tasks, NEW next \in Task, Changes(t, next), about' = about,
         open' => open /\ seen \subseteq seen',
         next.at \in Front /\ next.ask \in Inputs =>
           task[t].at \in Front /\ task[t].ask = next.ask
  PROVE  Once'
<1>1. ASSUME NEW i \in Inputs PROVE Fronts(i)' \subseteq Fronts(i) /\ SentFor(i)' = SentFor(i)
  BY DEF Fronts, SentFor, Sent, Changes
<1>2. ASSUME NEW i \in Inputs
      PROVE  /\ \A x, y \in SentFor(i)' \union Fronts(i)' : x = y
             /\ Fronts(i)' # {} => SentFor(i)' = {}
             /\ open' /\ i \notin seen' => Fronts(i)' = {} /\ SentFor(i)' = {}
  BY <1>1 DEF Once
<1>3. QED  BY <1>2 DEF Once

LEMMA ShiftKeeps ==
  ASSUME Owned, Placed, Once, NEW t \in Tasks, NEW next \in Task, Shifts(t, next),
         about' = about, open' => open /\ seen \subseteq seen'
  PROVE  Owned' /\ Placed' /\ Once'
BY OwnedMove, PlacedMove, OnceMove DEF Shifts

(* A step of a task that neither sends a request nor awaits one leaves the   *)
(* waiters and the verdicts of the others alone.                             *)
LEMMA Sideways ==
  ASSUME Owned, Watched, Faithful, NEW t \in Tasks, NEW next \in Task,
         Changes(t, next), about' = about, task[t].at # "asked",
         At(t, "awaiting") => waiter[t] # "open",
         next.at \notin {"asked", "awaiting"} \union Settling,
         waiter \in [Sent -> Answers],
         waiter' = waiter \/ (t \in Dialogs /\ task[t].at \in Settling /\ Used(t)),
         \A m \in Sent : At(m, "awaiting") /\ Known(m) => Known(m)'
  PROVE  Watched' /\ Faithful'
<1>1. /\ Sent' = Sent /\ Sent \subseteq Dialogs /\ Sent \subseteq Tasks
      /\ \A n \in Dialogs : n \in Tasks
  BY Names DEF Owned, Sent, Dialogs
<1>2. \A n \in Sent : waiter'[n] = waiter[n] \/ (n = t /\ waiter[n] # "open" /\ waiter'[n] = "used")
  BY DEF Used, Faithful
<1>3. Watched'
  <2> SUFFICES ASSUME NEW n \in Sent, waiter'[n] = "open"
               PROVE  \/ \E s \in Tasks : task'[s].at = "asked" /\ task'[s].req = n
                      \/ task'[n].at = "awaiting" /\ Known(n)'
    BY <1>1 DEF Watched, At
  <2>1. waiter[n] = "open"  BY <1>2
  <2>2. CASE \E s \in Tasks : task[s].at = "asked" /\ task[s].req = n
    BY <2>2 DEF Changes
  <2>3. CASE task[n].at = "awaiting" /\ Known(n)
    <3>1. n # t  BY <2>1, <2>3 DEF At
    <3>2. task'[n] = task[n]  BY <3>1, <1>1 DEF Changes
    <3>3. QED  BY <3>2, <2>3 DEF At
  <2>4. QED  BY <2>1, <2>2, <2>3 DEF Watched, At
<1>4. Faithful'
  <2> SUFFICES ASSUME NEW n \in Dialogs
               PROVE  /\ task'[n].at = "awaiting" => n \in Sent
                      /\ task'[n].at \in Settling =>
                           /\ n \in Sent /\ waiter'[n] # "open" /\ task'[n].ask = about[n]
                           /\ task'[n].at = "approving" <=> waiter'[n] = "allow"
    BY <1>1 DEF Faithful, At
  <2>1. CASE n = t  BY <2>1 DEF Changes
  <2>2. CASE n # t
    <3>1. task'[n] = task[n]  BY <2>2, <1>1 DEF Changes
    <3>2. n \in Sent => waiter'[n] = waiter[n]  BY <2>2, <1>2
    <3>3. QED  BY <3>1, <3>2 DEF Faithful, At
  <2>3. QED  BY <2>1, <2>2
<1>5. QED  BY <1>3, <1>4

LEMMA FormsStay ==
  ASSUME Forms, NEW t \in Tasks, NEW next \in Task, Changes(t, next), about' = about,
         ui' = ui, open' = open, seen \subseteq seen', next.at # "asked"
  PROVE  Forms'
<1>1. \A s \in Tasks : task'[s].at = "asked" => task'[s] = task[s]  BY DEF Changes
<1>2. QED  BY <1>1 DEF Forms, At, Sent

(* Who holds the session's dialog besides the task that moves.               *)
LEMMA OthersHold ==
  ASSUME NEW t \in Tasks, NEW next \in Task, Changes(t, next), about' = about
  PROVE  \A s \in Tasks \ {t} : Holds(s)' <=> Holds(s)
BY DEF Holds, Changes, At

LEMMA ExclusiveStay ==
  ASSUME Exclusive, NEW t \in Tasks, NEW next \in Task, Changes(t, next), about' = about,
         UNCHANGED <<open, perm>>, ~Holds(t)'
  PROVE  Exclusive'
<1>1. \A s \in Tasks : Holds(s)' => s # t /\ Holds(s) /\ task'[s] = task[s]
  BY OthersHold DEF Changes
<1>2. \A r, s \in Tasks : Holds(r)' /\ Holds(s)' => r = s  BY <1>1 DEF Exclusive
<1>3. ASSUME open, NEW s \in Tasks, Holds(s)'
      PROVE  perm = CASE task'[s].at = "passed"   -> NoPerm
                      [] task'[s].at = "awaiting" -> Entry(about[s], s)
                      [] OTHER                    -> Entry(task'[s].ask, 0)
  BY <1>1, <1>3 DEF Exclusive, At
<1>4. QED  BY <1>2, <1>3 DEF Exclusive, At

(* A step after which the task has nothing in hand that matters here.        *)
Quietly(t) ==
  /\ \E next \in Task : /\ Changes(t, next) /\ Fits(t, next) /\ next.at \in Quiet
                        /\ t \in Dialogs => task[t] # Off
  /\ UNCHANGED <<open, perm, ui, seen, about>>
  /\ task[t].at # "asked" /\ (At(t, "awaiting") => waiter[t] # "open")
  /\ waiter' = waiter \/ (t \in Dialogs /\ task[t].at \in Settling /\ Used(t))

LEMMA QuietKeeps ==
  ASSUME TypeOK, Owned, Placed, Once, NEW t \in Tasks, Quietly(t)
  PROVE  /\ Owned' /\ Placed' /\ Once'
         /\ SessionInv => SessionInv'
<1>1. PICK next \in Task : /\ Changes(t, next) /\ Fits(t, next) /\ next.at \in Quiet
                           /\ t \in Dialogs => task[t] # Off
  BY DEF Quietly
<1>2. /\ UNCHANGED <<open, perm, ui, seen, about>> /\ task[t].at # "asked"
      /\ At(t, "awaiting") => waiter[t] # "open"
      /\ waiter' = waiter \/ (t \in Dialogs /\ task[t].at \in Settling /\ Used(t))
  BY DEF Quietly
<1>3. Shifts(t, next)  BY <1>1 DEF Shifts, Quiet, Front
<1>4. Owned' /\ Placed' /\ Once'  BY <1>2, <1>3, ShiftKeeps
<1>5. ASSUME SessionInv PROVE SessionInv'
  <2>1. next.at \notin {"asked", "awaiting"} \union Settling /\ next.at # "asked"
    BY <1>1 DEF Quiet, Settling
  <2>2. \A m \in Sent : Known(m) => Known(m)'  BY <1>2 DEF Known
  <2>3. waiter \in [Sent -> Answers]  BY TypeParts DEF ClientTypes
  <2>4. Watched' /\ Faithful'  BY <1>1, <1>2, <1>5, <2>1, <2>2, <2>3, Sideways DEF SessionInv
  <2>5. Forms'  BY <1>1, <1>2, <1>5, <2>1, FormsStay DEF SessionInv
  <2>6. ~Holds(t)'  BY <1>1 DEF Holds, Changes, Quiet, At
  <2>7. Exclusive'  BY <1>1, <1>2, <1>5, <2>6, ExclusiveStay DEF SessionInv
  <2>8. QED  BY <2>4, <2>5, <2>7 DEF SessionInv
<1>6. QED  BY <1>4, <1>5

(* What a step preserves: who owns what always, and what the session's       *)
(* dialogs rest on as long as no task overtakes another.                     *)
Keeps ==
  /\ Owned' /\ Placed' /\ Once'
  /\ "overlap" \notin Faults /\ SessionInv => SessionInv'

LEMMA HostKeeps ==
  ASSUME DialogsInv, UNCHANGED <<open, perm, ui, seen, about, waiter, task>>
  PROVE  Keeps
<1>1. Sent' = Sent  BY DEF Sent
<1>2. Owned' /\ Placed' /\ Once'
  BY <1>1 DEF DialogsInv, Owned, Placed, Fits, Once, Fronts, SentFor, At
<1>3. ASSUME SessionInv PROVE SessionInv'
  <2>1. Forms' /\ Faithful' /\ Watched'
    BY <1>1, <1>3 DEF SessionInv, Forms, Watched, Known, Faithful, At
  <2>2. \A t \in Tasks : Holds(t)' <=> Holds(t)  BY DEF Holds, At
  <2>3. Exclusive'  BY <2>2, <1>3 DEF SessionInv, Exclusive, At
  <2>4. QED  BY <2>1, <2>3 DEF SessionInv
<1>4. QED  BY <1>2, <1>3 DEF Keeps

(* The steps after which a task is idle, has its ask yet to open, or has the *)
(* next one to take off the queue.                                           *)
LEMMA ReadersQuiet ==
  ASSUME DialogsInv,
         \/ \E a \in Asks : HostAsks(a) \/ HostSettles(a) \/ Delegate(a)
         \/ \E r \in Readers : Pull(r) \/ Read(r)
  PROVE  \/ UNCHANGED <<open, perm, ui, seen, about, waiter, task>>
         \/ \E t \in Tasks : Quietly(t)
<1> USE DEF hostVars, sessionVars, clientVars
<1>1. HostTypes /\ task \in [Tasks -> Task]  BY TypeParts DEF DialogsInv
<1>2. ASSUME NEW t \in Tasks, t \notin Dialogs, NEW p \in {"off", "opening"},
             NEW a \in Asks \union {None}, Moves(t, Suspended(p, a, 0)),
             p = "opening" => a \in Asks, At(t, "off") \/ At(t, "new"),
             UNCHANGED <<open, perm, ui, seen, about, waiter>>
      PROVE  Quietly(t)
  <2>1. p \in Points /\ p \in Quiet  BY DEF Points, Quiet
  <2>2. Changes(t, Suspended(p, a, 0)) /\ Suspended(p, a, 0) \in Task
    BY <2>1, <1>1, <1>2, Moved DEF Suspended, Task
  <2>3. Fits(t, Suspended(p, a, 0))  BY <1>2 DEF Fits, Suspended, Settling, AtHand
  <2>4. Suspended(p, a, 0).at \in Quiet  BY <2>1 DEF Suspended
  <2>5. QED  BY <2>2, <2>3, <2>4, <1>2 DEF Quietly, At
<1>3. ASSUME NEW a \in Asks, HostAsks(a) \/ HostSettles(a)
      PROVE  UNCHANGED <<open, perm, ui, seen, about, waiter, task>>
  BY <1>3 DEF HostAsks, HostSettles
<1>4. ASSUME NEW a \in Asks, Delegate(a) PROVE Quietly(a)
  <2>1. a \in Tasks /\ a \notin Dialogs  BY Names
  <2>2. /\ Moves(a, Suspended("opening", a, 0)) /\ At(a, "off")
        /\ UNCHANGED <<open, perm, ui, seen, about, waiter>>
    BY <1>4 DEF Delegate
  <2>3. QED  BY <2>1, <2>2, <1>2
<1>5. ASSUME NEW r \in Readers, Pull(r) PROVE Quietly(r)
  <2>1. r \in Tasks /\ r \notin Dialogs  BY Names
  <2>2. /\ Moves(r, Suspended("off", None, 0)) /\ At(r, "new")
        /\ UNCHANGED <<open, perm, ui, seen, about, waiter>>
    BY <1>5 DEF Pull, Off
  <2>3. QED  BY <2>1, <2>2, <1>2
<1>6. ASSUME NEW r \in Readers, Read(r) PROVE Quietly(r)
  <2>1. r \in Tasks /\ r \notin Dialogs  BY Names
  <2>2. /\ Moves(r, Suspended("opening", Head(feed[r]), 0)) /\ At(r, "off")
        /\ UNCHANGED <<open, perm, ui, seen, about, waiter>> /\ feed[r] # <<>>
    BY <1>6 DEF Read
  <2>3. feed[r] \in Seq(Asks)  BY <1>1 DEF HostTypes
  <2>4. Head(feed[r]) \in Asks  BY <2>2, <2>3
  <2>5. QED  BY <2>1, <2>2, <2>4, <1>2
<1>7. QED  BY <1>3, <1>4, <1>5, <1>6, Names

LEMMA OpenQuiet ==
  ASSUME DialogsInv, NEW t \in Tasks,
         \/ OpenBlind(t) \/ Defer(t) \/ Decline(t)
         \/ (Pass(t) \/ Route(t)) /\ Returns(t) /\ UNCHANGED seen
         \/ Present(t) /\ ~open
  PROVE  Quietly(t)
<1> USE DEF hostVars, sessionVars, clientVars
<1>1. task \in [Tasks -> Task]  BY TypeParts DEF DialogsInv
<1>2. /\ Returns(t) /\ UNCHANGED <<open, perm, ui, seen, about, waiter>>
      /\ task[t].at \in {"opening", "declining", "passed"}
  BY DEF OpenBlind, Defer, Decline, Pass, Route, Present, At
<1>3. Changes(t, Over(t)) /\ Over(t) \in Task /\ Over(t).at \in {"off", "done"}
  BY <1>1, <1>2, Returned DEF Changes
<1>4. Fits(t, Over(t)) /\ Over(t).at \in Quiet
  BY <1>3 DEF Fits, Quiet, Settling, AtHand
<1>5. task[t] # Off  BY <1>2 DEF Off, Suspended
<1>6. QED  BY <1>2, <1>3, <1>4, <1>5 DEF Quietly, At

LEMMA CloseQuiet ==
  ASSUME DialogsInv, NEW n \in Dialogs,
         \/ Decide(n) \/ AnswerInput(n) \/ Pop(n)
         \/ (TakePermission(n) \/ TakeInput(n)) /\ Returns(n) /\ UNCHANGED <<perm, ui>>
  PROVE  Quietly(n)
<1> USE DEF hostVars, sessionVars, clientVars
<1>1. task \in [Tasks -> Task] /\ n \in Tasks /\ n \in Nat /\ QueueTypes
  BY TypeParts, Names DEF DialogsInv
<1>2. /\ UNCHANGED <<open, perm, ui, seen, about>>
      /\ task[n].at \in {"awaiting", "popping"} \union Settling
      /\ At(n, "awaiting") => waiter[n] # "open"
      /\ waiter' = waiter \/ (task[n].at \in Settling /\ Used(n))
  BY DEF Decide, AnswerInput, Pop, TakePermission, TakeInput, At, Settling
<1>3. task[n] # Off /\ task[n].at # "asked"  BY <1>2 DEF Off, Suspended, Settling
<1>4. ASSUME NEW next \in Task, Changes(n, next), next.at \in Quiet, Fits(n, next)
      PROVE  Quietly(n)
  BY <1>2, <1>3, <1>4 DEF Quietly
<1>5. CASE Returns(n)
  <2>1. Changes(n, Over(n)) /\ Over(n) \in Task /\ Over(n).at \in {"off", "done"}
    BY <1>1, <1>5, Returned DEF Changes
  <2>2. Fits(n, Over(n)) /\ Over(n).at \in Quiet
    BY <2>1 DEF Fits, Quiet, Settling, AtHand
  <2>3. QED  BY <2>1, <2>2, <1>4
<1>6. CASE Decide(n)
  <2> DEFINE next == Suspended("popping", None, n)
  <2>1. next \in Task /\ next.at \in Quiet /\ Fits(n, next)
    BY <1>1 DEF Suspended, Task, Points, Quiet, Fits, AtHand, Settling
  <2>2. Moves(n, next)  BY <1>6 DEF Decide
  <2>3. Changes(n, next)  BY <2>1, <2>2, <1>1 DEF Changes, Moves
  <2>4. QED  BY <2>1, <2>3, <1>4
<1>7. CASE Pop(n) /\ Pops
  <2> DEFINE next == Suspended("opening", Head(queue), 0)
  <2>1. Head(queue) \in Approvals  BY <1>1, <1>7 DEF QueueTypes, Pops
  <2>2. next \in Task /\ next.at \in Quiet /\ Fits(n, next)
    BY <1>1, <2>1, Names DEF Suspended, Task, Points, Quiet, Fits, AtHand, Settling
  <2>3. Moves(n, next)  BY <1>7 DEF Pop
  <2>4. Changes(n, next)  BY <2>2, <2>3, <1>1 DEF Changes, Moves
  <2>5. QED  BY <2>2, <2>4, <1>4
<1>8. QED  BY <1>5, <1>6, <1>7 DEF AnswerInput, Pop, TakePermission, TakeInput

-----------------------------------------------------------------------------
(* Opening an approval.                                                      *)

LEMMA AskTask ==
  ASSUME DialogsInv, NEW t \in Tasks
  PROVE  /\ task \in [Tasks -> Task] /\ task[t] \in Task /\ task[t].ask \in Asks \union {None}
         /\ task[t].req \in Nat /\ waiter \in [Sent -> Answers]
         /\ Sent \subseteq Dialogs /\ Sent \subseteq Tasks /\ Sent \subseteq Nat \ {0}
         /\ Owned /\ Placed /\ Once
BY TypeParts, Stands, Names DEF DialogsInv, ClientTypes, Sent, Dialogs, Owned

(* The next point of a task that opens an ask.                               *)
LEMMA Opens ==
  ASSUME DialogsInv, NEW t \in Tasks, NEW p \in {"passed", "asking", "declining", "asked"},
         NEW n \in Nat, task[t].at \in AtHand, Moves(t, Suspended(p, task[t].ask, n)),
         p = "declining" => task[t].ask \in Inputs
  PROVE  LET next == Suspended(p, task[t].ask, n) IN
         /\ next \in Task /\ Changes(t, next) /\ Fits(t, next) /\ task[t] # Off
         /\ next.at = p /\ next.ask = task[t].ask /\ next.req = n
<1>1. p \in Points /\ task[t].ask \in Asks /\ task \in [Tasks -> Task]
  BY AskTask DEF Points, Placed, Fits
<1>2. Fits(t, Suspended(p, task[t].ask, n))
  <2>1. Fits(t, task[t])  BY AskTask DEF Placed
  <2>2. QED  BY <2>1, <1>1 DEF Fits, Suspended, AtHand, Settling
<1>3. task[t] # Off  BY DEF Off, Suspended, AtHand
<1>4. QED  BY <1>1, <1>2, <1>3, Moved DEF Suspended, Task

LEMMA PassKeeps ==
  ASSUME DialogsInv, NEW t \in Tasks, Pass(t) PROVE Keeps
<1> USE DEF hostVars, sessionVars, clientVars
<1>1. CASE Returns(t)
  BY <1>1, OpenQuiet, QuietKeeps DEF Pass, Keeps, DialogsInv
<1>2. CASE ~Returns(t)
  <2> DEFINE next == Suspended("passed", task[t].ask, 0)
  <2>1. /\ At(t, "opening") /\ task[t].ask \in Approvals /\ Moves(t, next) /\ MayPass
        /\ open /\ perm.ask = None /\ UNCHANGED <<open, perm, queue, ui, seen, about, waiter>>
    BY <1>2 DEF Pass, Displaying
  <2>2. task[t].at \in AtHand /\ task[t].at = "opening"  BY <2>1 DEF At, AtHand
  <2>3. /\ next \in Task /\ Changes(t, next) /\ Fits(t, next) /\ task[t] # Off
        /\ next.at = "passed" /\ next.ask = task[t].ask
    BY <2>1, <2>2, Opens
  <2> HIDE DEF next
  <2>4. next.ask \notin Inputs  BY <2>1, <2>3, Names
  <2>5. Shifts(t, next)  BY <2>3, <2>4 DEF Shifts
  <2>6. Owned' /\ Placed' /\ Once'  BY <2>1, <2>3, <2>5, AskTask, ShiftKeeps
  <2>7. ASSUME "overlap" \notin Faults, SessionInv PROVE SessionInv'
    <3>1. next.at \notin {"asked", "awaiting"} \union Settling /\ next.at # "asked"
      BY <2>3 DEF Settling
    <3>2. \A m \in Sent : Known(m) => Known(m)'  BY <2>1 DEF Known
    <3>3. Watched' /\ Faithful'
      BY <2>1, <2>2, <2>3, <2>7, <3>1, <3>2, AskTask, Sideways DEF SessionInv, At
    <3>4. Forms'  BY <2>1, <2>3, <2>7, <3>1, FormsStay DEF SessionInv
    <3>5. \A s \in Tasks : ~Holds(s)
      <4> SUFFICES ASSUME NEW s \in Tasks, Holds(s) PROVE FALSE  OBVIOUS
      <4>1. perm = CASE At(s, "passed")   -> NoPerm
                     [] At(s, "awaiting") -> Entry(about[s], s)
                     [] OTHER             -> Entry(task[s].ask, 0)
        BY <2>1, <2>7 DEF SessionInv, Exclusive
      <4>2. ~At(s, "passed")  BY <2>1, <2>7 DEF MayPass
      <4>3. CASE At(s, "awaiting")
        <5>1. about[s] \in Approvals  BY <4>3 DEF Holds, At
        <5>2. QED  BY <5>1, <4>1, <4>2, <4>3, <2>1, Names DEF Entry
      <4>4. CASE ~At(s, "awaiting")
        <5>1. task[s].ask \in Approvals  BY <4>4 DEF Holds
        <5>2. QED  BY <5>1, <4>1, <4>2, <4>4, <2>1, Names DEF Entry
      <4>5. QED  BY <4>3, <4>4
    <3>6. \A s \in Tasks : Holds(s)' => s = t  BY <2>1, <2>3, <3>5, OthersHold
    <3>7. perm' = NoPerm /\ task'[t].at = "passed"
      BY <2>1, <2>3, <2>7 DEF SessionInv, Exclusive, Changes
    <3>8. Exclusive'  BY <3>6, <3>7, <2>1, <2>7 DEF SessionInv, Exclusive, At
    <3>9. QED  BY <3>3, <3>4, <3>8 DEF SessionInv
  <2>8. QED  BY <2>6, <2>7 DEF Keeps
<1>3. QED  BY <1>1, <1>2

LEMMA PresentKeeps ==
  ASSUME DialogsInv, NEW t \in Tasks, Present(t) PROVE Keeps
<1> USE DEF hostVars, sessionVars, clientVars
<1>1. CASE ~open
  BY <1>1, OpenQuiet, QuietKeeps DEF Keeps, DialogsInv
<1>2. CASE open
  <2> DEFINE next == Suspended("asking", task[t].ask, 0)
  <2>1. /\ At(t, "passed") /\ task[t].ask \in Approvals /\ Moves(t, next)
        /\ perm' = Entry(task[t].ask, 0) /\ UNCHANGED <<open, queue, ui, seen, about, waiter>>
    BY <1>2 DEF Present
  <2>2. task[t].at \in AtHand /\ task[t].at = "passed"  BY <2>1 DEF At, AtHand
  <2>3. /\ next \in Task /\ Changes(t, next) /\ Fits(t, next) /\ task[t] # Off
        /\ next.at = "asking" /\ next.ask = task[t].ask
    BY <2>1, <2>2, Opens
  <2> HIDE DEF next
  <2>4. next.ask \notin Inputs  BY <2>1, <2>3, Names
  <2>5. Shifts(t, next)  BY <2>3, <2>4 DEF Shifts
  <2>6. Owned' /\ Placed' /\ Once'  BY <2>1, <2>3, <2>5, AskTask, ShiftKeeps
  <2>7. ASSUME SessionInv PROVE SessionInv'
    <3>1. next.at \notin {"asked", "awaiting"} \union Settling /\ next.at # "asked"
      BY <2>3 DEF Settling
    <3>2. Holds(t)  BY <2>1, <2>2 DEF Holds
    <3>3. perm = NoPerm
      <4>1. perm = CASE At(t, "passed")   -> NoPerm
                     [] At(t, "awaiting") -> Entry(about[t], t)
                     [] OTHER             -> Entry(task[t].ask, 0)
        BY <3>2, <2>7, <1>2 DEF SessionInv, Exclusive
      <4>2. ~At(t, "awaiting")  BY <2>2 DEF At
      <4>3. QED  BY <4>1, <4>2, <2>1
    <3>4. \A m \in Sent : Known(m) => Known(m)'
      <4>1. \A m \in Sent : perm.req # m  BY <3>3, AskTask DEF NoPerm, Entry
      <4>2. QED  BY <4>1, <2>1 DEF Known
    <3>5. Watched' /\ Faithful'
      BY <2>1, <2>2, <2>3, <2>7, <3>1, <3>4, AskTask, Sideways DEF SessionInv, At
    <3>6. Forms'  BY <2>1, <2>3, <2>7, <3>1, FormsStay DEF SessionInv
    <3>7. \A s \in Tasks : Holds(s) => s = t  BY <3>2, <2>7 DEF SessionInv, Exclusive
    <3>8. \A s \in Tasks : Holds(s)' => s = t  BY <2>1, <2>3, <3>7, OthersHold
    <3>9. perm'.ask # None /\ perm' = Entry(task'[t].ask, 0) /\ task'[t].at = "asking"
      BY <2>1, <2>3, Names DEF Changes, Entry
    <3>10. Exclusive'  BY <3>8, <3>9 DEF Exclusive, At
    <3>11. QED  BY <3>5, <3>6, <3>10 DEF SessionInv
  <2>8. QED  BY <2>6, <2>7 DEF Keeps
<1>3. QED  BY <1>1, <1>2

(* A task sends its request, which it then owns.                             *)
LEMMA RequestKeeps ==
  ASSUME DialogsInv, NEW t \in Tasks, Request(t) PROVE Keeps
<1> USE DEF hostVars, sessionVars, clientVars
<1> DEFINE a == task[t].ask
           n == Len(about) + 1
           next == Suspended("asked", a, n)
<1>1. /\ At(t, "asking") /\ Moves(t, next) /\ Len(about) < MaxDialogs
      /\ about' = Append(about, a) /\ waiter' = Append(waiter, "open")
      /\ UNCHANGED <<open, perm, queue, ui, seen>>
  BY DEF Request
<1>2. task[t].at \in AtHand /\ task[t].at = "asking" /\ a \in Asks
  BY <1>1, AskTask DEF At, AtHand, Placed, Fits
<1>3. ClientTypes  BY TypeParts DEF DialogsInv
<1>4. /\ Len(about) \in Nat /\ Sent' = Sent \union {n} /\ n \notin Sent
      /\ Len(about') = n /\ about'[n] = a /\ waiter'[n] = "open"
      /\ \A m \in Sent : about'[m] = about[m] /\ waiter'[m] = waiter[m]
  BY <1>1, <1>2, <1>3, SentGrows
<1>5. /\ next \in Task /\ Changes(t, next) /\ Fits(t, next) /\ task[t] # Off
      /\ next.at = "asked" /\ next.ask = a /\ next.req = n
  <2>1. n \in Nat  BY <1>4
  <2>2. QED  BY <2>1, <1>1, <1>2, Opens
<1>6. n \in Dialogs /\ n \in Tasks /\ Sent \subseteq Dialogs /\ Sent \subseteq Tasks
  BY <1>1, <1>4, Names, AskTask DEF Dialogs
<1>7. Owned /\ Placed /\ Once  BY AskTask
<1> HIDE DEF a, n, next
<1>8. task[n] = Off /\ n # t  BY <1>4, <1>5, <1>6, <1>7 DEF Owned
<1>9. task'[t] = next /\ \A s \in Tasks \ {t} : task'[s] = task[s]  BY <1>5 DEF Changes
<1>10. Owned'
  <2>1. ASSUME NEW s \in Tasks, task'[s].at = "asked"
        PROVE  /\ task'[s].req \in Sent' /\ about'[task'[s].req] = task'[s].ask
               /\ task'[task'[s].req] = Off
               /\ s # t => task'[s].req \in Sent /\ task'[s] = task[s]
    <3>1. CASE s = t
      <4>1. task'[s].req = n /\ task'[s].ask = a /\ task'[n] = Off
        BY <3>1, <1>5, <1>6, <1>8, <1>9
      <4>2. QED  BY <4>1, <3>1, <1>4
    <3>2. CASE s # t
      <4>1. task'[s] = task[s] /\ task[s].at = "asked"  BY <3>2, <2>1, <1>9
      <4>2. /\ task[s].req \in Sent /\ about[task[s].req] = task[s].ask
            /\ task[task[s].req] = Off
        BY <4>1, <1>7 DEF Owned, At
      <4>3. task'[task[s].req] = Off  BY <4>2, <1>5, <1>6, <1>9
      <4>4. QED  BY <4>1, <4>2, <4>3, <1>4
    <3>3. QED  BY <3>1, <3>2
  <2>2. ASSUME NEW r \in Tasks, NEW s \in Tasks, task'[r].at = "asked", task'[s].at = "asked",
               task'[r].req = task'[s].req
        PROVE  r = s
    <3>1. task'[t].req = n  BY <1>5, <1>9
    <3>2. CASE r = t \/ s = t  BY <3>1, <3>2, <2>1, <2>2, <1>4
    <3>3. CASE r # t /\ s # t
      <4>1. task'[r] = task[r] /\ task'[s] = task[s]  BY <3>3, <2>1, <2>2
      <4>2. QED  BY <4>1, <2>2, <1>7 DEF Owned, At
    <3>4. QED  BY <3>2, <3>3
  <2>3. \A m \in Dialogs \ Sent' : task'[m] = Off
    <3>1. \A m \in Dialogs \ Sent' : m \in Tasks /\ task[m] = Off
      BY <1>4, <1>7, Names DEF Owned
    <3>2. QED  BY <3>1, <1>5, <1>9
  <2>4. Len(about') <= MaxDialogs
    <3>1. n <= MaxDialogs  BY <1>6, Names DEF Dialogs
    <3>2. QED  BY <3>1, <1>4
  <2>5. QED  BY <2>1, <2>2, <2>3, <2>4 DEF Owned, At
<1>11. Placed'  BY <1>5, <1>7, PlacedMove
<1>12. Once'
  <2> SUFFICES ASSUME NEW i \in Inputs
               PROVE  /\ \A x, y \in SentFor(i)' \union Fronts(i)' : x = y
                      /\ Fronts(i)' # {} => SentFor(i)' = {}
                      /\ open /\ i \notin seen => Fronts(i)' = {} /\ SentFor(i)' = {}
    BY <1>1 DEF Once
  <2>1. Fronts(i)' = Fronts(i) \ {t}
    BY <1>5, <1>9 DEF Fronts, Front
  <2>2. CASE i = a
    <3>1. t \in Fronts(i)  BY <2>2, <1>2 DEF Fronts, Front, a
    <3>2. SentFor(i) = {} /\ Fronts(i) = {t} /\ ~(open /\ i \notin seen)
      BY <3>1, <1>7 DEF Once
    <3>3. SentFor(i)' = {n}  BY <3>2, <2>2, <1>4 DEF SentFor
    <3>4. QED  BY <3>2, <3>3, <2>1
  <2>3. CASE i # a
    <3>1. SentFor(i)' = SentFor(i)  BY <2>3, <1>4 DEF SentFor
    <3>2. QED  BY <3>1, <2>1, <1>7 DEF Once
  <2>4. QED  BY <2>2, <2>3
<1>13. ASSUME SessionInv PROVE SessionInv'
  <2>1. Forms'
    <3>1. \A e \in ui : e.req # 0 => e.req \in Sent' /\ about'[e.req] = e.ask
      BY <1>4, <1>13 DEF SessionInv, Forms
    <3>2. ASSUME NEW s \in Tasks, NEW e \in ui, task'[s].at = "asked", e.ask = task'[s].ask
          PROVE  e.req = 0
      <4>1. CASE s # t  BY <4>1, <3>2, <1>9, <1>13 DEF SessionInv, Forms, At
      <4>2. CASE s = t
        <5>1. e.ask = a /\ a \in Inputs
          <6>1. e.ask \in Inputs  BY TypeParts DEF DialogsInv, SessionTypes
          <6>2. QED  BY <6>1, <4>2, <3>2, <1>5, <1>9
        <5>2. t \in Fronts(a)  BY <1>2 DEF Fronts, Front, a
        <5>3. SentFor(a) = {}  BY <5>1, <5>2, <1>7 DEF Once
        <5>4. QED  BY <5>1, <5>3, <1>13 DEF SessionInv, Forms, SentFor
      <4>3. QED  BY <4>1, <4>2
    <3>3. QED  BY <3>1, <3>2, <1>1, <1>13 DEF SessionInv, Forms, At
  <2>2. Exclusive'
    <3>1. \A s \in Tasks : Holds(s)' => Holds(s) /\ (task'[s].at = "awaiting" =>
                                        s # t /\ task'[s] = task[s] /\ about'[s] = about[s])
      <4> SUFFICES ASSUME NEW s \in Tasks, Holds(s)'
                   PROVE  Holds(s) /\ (task'[s].at = "awaiting" =>
                            s # t /\ task'[s] = task[s] /\ about'[s] = about[s])
        OBVIOUS
      <4>1. CASE s = t
        BY <4>1, <1>2, <1>5, <1>9 DEF Holds, At, a
      <4>2. CASE s # t
        <5>1. task'[s] = task[s]  BY <4>2, <1>9
        <5>2. At(s, "awaiting") => about'[s] = about[s]
          <6>1. At(s, "awaiting") => s \in Dialogs  BY <1>7 DEF Placed, Fits, At
          <6>2. At(s, "awaiting") => s \in Sent  BY <6>1, <1>13 DEF SessionInv, Faithful
          <6>3. QED  BY <6>2, <1>4
        <5>3. QED  BY <5>1, <5>2, <4>2 DEF Holds, At
      <4>3. QED  BY <4>1, <4>2
    <3>2. \A r, s \in Tasks : Holds(r)' /\ Holds(s)' => r = s
      BY <3>1, <1>13 DEF SessionInv, Exclusive
    <3>3. ASSUME open, NEW s \in Tasks, Holds(s)'
          PROVE  perm = CASE task'[s].at = "passed"   -> NoPerm
                          [] task'[s].at = "awaiting" -> Entry(about'[s], s)
                          [] OTHER                    -> Entry(task'[s].ask, 0)
      <4>1. perm = CASE At(s, "passed")   -> NoPerm
                     [] At(s, "awaiting") -> Entry(about[s], s)
                     [] OTHER             -> Entry(task[s].ask, 0)
        BY <3>1, <3>3, <1>13 DEF SessionInv, Exclusive
      <4>2. CASE s = t
        BY <4>1, <4>2, <1>2, <1>5, <1>9 DEF At, a
      <4>3. CASE s # t
        <5>1. task'[s] = task[s]  BY <4>3, <1>9
        <5>2. task[s].at = "awaiting" => about'[s] = about[s]  BY <5>1, <3>1, <3>3
        <5>3. QED  BY <5>1, <5>2, <4>1 DEF At
      <4>4. QED  BY <4>2, <4>3
    <3>4. QED  BY <3>2, <3>3, <1>1, <1>13 DEF SessionInv, Exclusive, At
  <2>3. Watched'
    <3> SUFFICES ASSUME NEW m \in Sent', waiter'[m] = "open"
                 PROVE  \/ \E s \in Tasks : task'[s].at = "asked" /\ task'[s].req = m
                        \/ task'[m].at = "awaiting" /\ Known(m)'
      BY DEF Watched, At
    <3>1. CASE m = n  BY <3>1, <1>5, <1>9
    <3>2. CASE m \in Sent
      <4>1. waiter[m] = "open"  BY <3>2, <1>4
      <4>2. CASE \E s \in Tasks : task[s].at = "asked" /\ task[s].req = m
        BY <4>2, <1>2, <1>9
      <4>3. CASE task[m].at = "awaiting" /\ Known(m)
        <5>1. m # t /\ m \in Tasks  BY <4>3, <3>2, <1>2, <1>6
        <5>2. Known(m)'  BY <4>3, <1>1 DEF Known
        <5>3. QED  BY <5>1, <5>2, <4>3, <1>9
      <4>4. QED  BY <4>1, <4>2, <4>3, <3>2, <1>13 DEF SessionInv, Watched, At
    <3>3. QED  BY <3>1, <3>2, <1>4
  <2>4. Faithful'
    <3> SUFFICES ASSUME NEW m \in Dialogs
                 PROVE  /\ task'[m].at = "awaiting" => m \in Sent'
                        /\ task'[m].at \in Settling =>
                             /\ m \in Sent' /\ waiter'[m] # "open" /\ task'[m].ask = about'[m]
                             /\ task'[m].at = "approving" <=> waiter'[m] = "allow"
      BY DEF Faithful, At
    <3>1. CASE m = t  BY <3>1, <1>5, <1>9 DEF Settling
    <3>2. CASE m # t
      <4>1. task'[m] = task[m]  BY <3>2, <1>9, Names
      <4>2. QED  BY <4>1, <1>4, <1>13 DEF SessionInv, Faithful, At
    <3>3. QED  BY <3>1, <3>2
  <2>5. QED  BY <2>1, <2>2, <2>3, <2>4 DEF SessionInv
<1>14. QED  BY <1>10, <1>11, <1>12, <1>13 DEF Keeps

(* The task that sent a request leaves it to the request's own task.         *)
LEMMA Handover ==
  ASSUME DialogsInv, NEW t \in Tasks, At(t, "asked"), task' = Completed(t, task[t].req),
         UNCHANGED <<about, open, seen>>
  PROVE  /\ task[t].req \in Sent /\ task[t].req \in Tasks /\ task[t].req # t
         /\ about[task[t].req] = task[t].ask /\ task[task[t].req] = Off
         /\ task'[t] = Over(t) /\ Over(t).at \in {"off", "done"}
         /\ task'[task[t].req].at = "awaiting"
         /\ \A s \in Tasks \ {t, task[t].req} : task'[s] = task[s]
         /\ Owned' /\ Placed' /\ Once'
<1> DEFINE n == task[t].req
<1>1. /\ task \in [Tasks -> Task] /\ Sent \subseteq Tasks /\ Sent \subseteq Dialogs
      /\ Owned /\ Placed /\ Once
  BY AskTask
<1>2. n \in Sent /\ about[n] = task[t].ask /\ task[n] = Off  BY <1>1 DEF Owned
<1>3. n # t /\ n \in Tasks /\ n \in Dialogs
  BY <1>1, <1>2 DEF At, Off, Suspended
<1>4. Over(t).at \in {"off", "done"}  BY DEF Over, Off, Suspended
<1>5. /\ task'[t] = Over(t) /\ task'[n] = Suspended("awaiting", None, n)
      /\ \A s \in Tasks \ {t, n} : task'[s] = task[s]
  BY <1>1, <1>3 DEF Completed
<1>6. task[t].at = "asked"  BY DEF At
<1> HIDE DEF n
<1>7. task'[n].at = "awaiting"  BY <1>5 DEF Suspended
<1>8. Owned'
  <2>1. ASSUME NEW s \in Tasks, task'[s].at = "asked"
        PROVE  /\ task'[s] = task[s] /\ task'[s].req \in Sent
               /\ about[task'[s].req] = task'[s].ask /\ task'[task'[s].req] = Off
    <3>1. s # t /\ s # n  BY <2>1, <1>4, <1>5, <1>7
    <3>2. task'[s] = task[s]  BY <3>1, <1>5
    <3>3. /\ task[s].req \in Sent /\ about[task[s].req] = task[s].ask
          /\ task[task[s].req] = Off
      BY <3>2, <2>1, <1>1 DEF Owned, At
    <3>4. task[s].req # n  BY <3>1, <3>2, <2>1, <1>1, <1>6 DEF Owned, At, n
    <3>5. task[s].req # t  BY <3>3, <1>6 DEF Off, Suspended
    <3>6. QED  BY <3>2, <3>3, <3>4, <3>5, <1>1, <1>5
  <2>2. \A r, s \in Tasks : task'[r].at = "asked" /\ task'[s].at = "asked"
                            /\ task'[r].req = task'[s].req => r = s
    BY <2>1, <1>1 DEF Owned, At
  <2>3. \A m \in Dialogs \ Sent : task'[m] = Off
    <3>1. \A m \in Dialogs \ Sent : m \in Tasks /\ task[m] = Off
      BY <1>1, Names DEF Owned
    <3>2. task[t] # Off  BY <1>6 DEF Off, Suspended
    <3>3. QED  BY <3>1, <3>2, <1>2, <1>5
  <2>4. Len(about) <= MaxDialogs  BY <1>1 DEF Owned
  <2>5. QED  BY <2>1, <2>2, <2>3, <2>4 DEF Owned, At, Sent
<1>9. Placed'
  <2>1. Fits(t, task'[t])  BY <1>4, <1>5 DEF Fits, AtHand, Settling
  <2>2. Fits(n, task'[n])  BY <1>3, <1>7 DEF Fits, AtHand, Settling
  <2>3. \A s \in Tasks : Fits(s, task'[s])  BY <2>1, <2>2, <1>1, <1>5 DEF Placed
  <2>4. QED  BY <2>3 DEF Placed, Fits
<1>10. Once'
  <2>1. ASSUME NEW i \in Inputs PROVE Fronts(i)' \subseteq Fronts(i) /\ SentFor(i)' = SentFor(i)
    <3>1. task'[t].at \notin Front /\ task'[n].at \notin Front
      BY <1>4, <1>5, <1>7 DEF Front
    <3>2. QED  BY <3>1, <1>5 DEF Fronts, SentFor, Sent
  <2>2. ASSUME NEW i \in Inputs
        PROVE  /\ \A x, y \in SentFor(i)' \union Fronts(i)' : x = y
               /\ Fronts(i)' # {} => SentFor(i)' = {}
               /\ open' /\ i \notin seen' => Fronts(i)' = {} /\ SentFor(i)' = {}
    BY <2>1, <1>1 DEF Once
  <2>3. QED  BY <2>2 DEF Once
<1>11. QED
  BY <1>2, <1>3, <1>4, <1>5, <1>7, <1>8, <1>9, <1>10 DEF n

(* The waiter and the verdicts after the handover.                           *)
LEMMA HandoverWatched ==
  ASSUME DialogsInv, Watched, Faithful, NEW t \in Tasks, At(t, "asked"),
         NEW n \in Sent, n = task[t].req,
         task' = Completed(t, n), UNCHANGED <<about, open, seen, waiter>>,
         Known(n)',
         \A m \in Sent \ {n} : Known(m) => Known(m)'
  PROVE  Watched' /\ Faithful'
<1>1. /\ n \in Sent /\ n \in Tasks /\ n # t /\ task[n] = Off
      /\ task'[t] = Over(t) /\ Over(t).at \in {"off", "done"}
      /\ task'[n].at = "awaiting"
      /\ \A s \in Tasks \ {t, n} : task'[s] = task[s]
  BY Handover
<1>2. Sent' = Sent /\ Sent \subseteq Tasks  BY AskTask DEF Sent
<1>3. Known(n)' /\ \A m \in Sent \ {n} : Known(m) => Known(m)'  OBVIOUS
<1>4. \A s \in Tasks : task[s].at = "asked" /\ s # t => task'[s] = task[s]
  BY <1>1 DEF Off, Suspended
<1>5. task[t].req = n /\ task[t].at = "asked"  BY DEF At
<1>6. Watched'
  <2> SUFFICES ASSUME NEW m \in Sent, waiter[m] = "open"
               PROVE  \/ \E s \in Tasks : task'[s].at = "asked" /\ task'[s].req = m
                      \/ task'[m].at = "awaiting" /\ Known(m)'
    BY <1>2 DEF Watched, At
  <2>1. CASE m = n  BY <2>1, <1>1, <1>3
  <2>2. CASE m # n /\ \E s \in Tasks : task[s].at = "asked" /\ task[s].req = m
    <3>1. PICK s \in Tasks : task[s].at = "asked" /\ task[s].req = m  BY <2>2
    <3>2. s # t  BY <3>1, <2>2, <1>5
    <3>3. QED  BY <3>1, <3>2, <1>4
  <2>3. CASE m # n /\ task[m].at = "awaiting" /\ Known(m)
    <3>1. m # t /\ m \in Tasks  BY <2>3, <1>2, <1>5
    <3>2. QED  BY <3>1, <2>3, <1>1, <1>3
  <2>4. QED  BY <2>1, <2>2, <2>3 DEF Watched, At
<1>7. Faithful'
  <2> SUFFICES ASSUME NEW m \in Dialogs
               PROVE  /\ task'[m].at = "awaiting" => m \in Sent
                      /\ task'[m].at \in Settling =>
                           /\ m \in Sent /\ waiter[m] # "open" /\ task'[m].ask = about[m]
                           /\ task'[m].at = "approving" <=> waiter[m] = "allow"
    BY <1>2 DEF Faithful, At
  <2>1. CASE m = n \/ m = t  BY <2>1, <1>1 DEF Settling
  <2>2. CASE m # n /\ m # t
    <3>1. task'[m] = task[m]  BY <2>2, <1>1, Names
    <3>2. QED  BY <3>1 DEF Faithful, At
  <2>3. QED  BY <2>1, <2>2
<1>8. QED  BY <1>6, <1>7

(* The task that sent a request finds nothing that shows it, and retracts.   *)
LEMMA RetractKeeps ==
  ASSUME DialogsInv, NEW t \in Tasks, At(t, "asked"), Returns(t),
         waiter' = Released(task[t].req), UNCHANGED <<open, perm, ui, seen, about>>
  PROVE  Keeps
<1> DEFINE n == task[t].req
<1>1. /\ task \in [Tasks -> Task] /\ Sent \subseteq Tasks /\ Sent \subseteq Dialogs
      /\ waiter \in [Sent -> Answers] /\ Owned /\ Placed /\ Once
  BY AskTask
<1>2. n \in Sent /\ task[n] = Off  BY <1>1 DEF Owned
<1>3. /\ Changes(t, Over(t)) /\ Over(t) \in Task /\ Over(t).at \in {"off", "done"}
  BY <1>1, Returned DEF Changes
<1>4. task[t] # Off /\ task[t].at = "asked"  BY DEF At, Off, Suspended
<1>5. Shifts(t, Over(t))
  BY <1>3, <1>4 DEF Shifts, Fits, AtHand, Settling, Front
<1>6. Owned' /\ Placed' /\ Once'  BY <1>1, <1>3, <1>5, ShiftKeeps
<1>7. /\ \A m \in Sent \ {n} : waiter'[m] = waiter[m]
      /\ waiter'[n] = IF waiter[n] = "open" THEN "lost" ELSE waiter[n]
  BY <1>1, <1>2 DEF Released
<1>8. Sent' = Sent  BY DEF Sent
<1>9. ASSUME SessionInv PROVE SessionInv'
  <2>1. Forms'
    <3>1. Over(t).at # "asked"  BY <1>3
    <3>2. QED  BY <3>1, <1>3, <1>9, FormsStay DEF SessionInv
  <2>2. Exclusive'
    <3>1. ~Holds(t)'  BY <1>3 DEF Holds, Changes, At
    <3>2. QED  BY <3>1, <1>3, <1>9, ExclusiveStay DEF SessionInv
  <2>3. Watched'
    <3> SUFFICES ASSUME NEW m \in Sent, waiter'[m] = "open"
                 PROVE  \/ \E s \in Tasks : task'[s].at = "asked" /\ task'[s].req = m
                        \/ task'[m].at = "awaiting" /\ Known(m)'
      BY <1>8 DEF Watched, At
    <3>1. m # n /\ waiter[m] = "open"  BY <1>7
    <3>2. CASE \E s \in Tasks : task[s].at = "asked" /\ task[s].req = m
      <4>1. PICK s \in Tasks : task[s].at = "asked" /\ task[s].req = m  BY <3>2
      <4>2. s # t  BY <4>1, <3>1
      <4>3. QED  BY <4>1, <4>2, <1>3 DEF Changes
    <3>3. CASE task[m].at = "awaiting" /\ Known(m)
      <4>1. m # t /\ m \in Tasks  BY <3>3, <1>1, <1>4
      <4>2. QED  BY <4>1, <3>3, <1>3 DEF Changes, Known
    <3>4. QED  BY <3>1, <3>2, <3>3, <1>9 DEF SessionInv, Watched, At
  <2>4. Faithful'
    <3> SUFFICES ASSUME NEW m \in Dialogs
                 PROVE  /\ task'[m].at = "awaiting" => m \in Sent
                        /\ task'[m].at \in Settling =>
                             /\ m \in Sent /\ waiter'[m] # "open" /\ task'[m].ask = about[m]
                             /\ task'[m].at = "approving" <=> waiter'[m] = "allow"
      BY <1>8 DEF Faithful, At
    <3>1. CASE m = t
      <4>1. task'[m].at \in {"off", "done"}  BY <3>1, <1>3 DEF Changes
      <4>2. QED  BY <4>1 DEF Settling
    <3>2. CASE m # t
      <4>1. task'[m] = task[m]  BY <3>2, <1>3, Names DEF Changes
      <4>2. m \in Sent /\ waiter[m] # "open" => waiter'[m] = waiter[m]  BY <1>7
      <4>3. QED  BY <4>1, <4>2, <1>9 DEF SessionInv, Faithful, At
    <3>3. QED  BY <3>1, <3>2
  <2>5. QED  BY <2>1, <2>2, <2>3, <2>4 DEF SessionInv
<1>10. QED  BY <1>6, <1>9 DEF Keeps

LEMMA AttachKeeps ==
  ASSUME DialogsInv, NEW t \in Tasks, Attach(t) PROVE Keeps
<1> USE DEF hostVars, sessionVars, clientVars
<1> DEFINE a == task[t].ask
<1>1. At(t, "asked") /\ a \in Approvals /\ UNCHANGED <<open, ui, seen, about>>
  BY DEF Attach
<1>2. PICK n \in Sent : n = task[t].req
  <2>1. task[t].req \in Sent  BY <1>1, AskTask DEF Owned
  <2>2. QED  BY <2>1
<1>3. CASE ~(open /\ perm.ask = a)
  <2>1. Returns(t) /\ waiter' = Released(n) /\ perm' = perm  BY <1>2, <1>3 DEF Attach
  <2>2. QED  BY <2>1, <1>1, <1>2, RetractKeeps
<1>4. CASE open /\ perm.ask = a
  <2>1. perm' = Entry(a, n) /\ task' = Completed(t, n) /\ waiter' = waiter
    BY <1>2, <1>4 DEF Attach
  <2>2. /\ n \in Sent /\ n \in Tasks /\ n # t /\ about[n] = a /\ task[n] = Off
        /\ task'[t] = Over(t) /\ Over(t).at \in {"off", "done"}
        /\ task'[n].at = "awaiting"
        /\ \A s \in Tasks \ {t, n} : task'[s] = task[s]
        /\ Owned' /\ Placed' /\ Once'
    BY <1>1, <1>2, <2>1, Handover
  <2>3. task[t].at = "asked"  BY <1>1 DEF At
  <2>4. ASSUME SessionInv PROVE SessionInv'
    <3>1. Holds(t)  BY <1>1, <2>3 DEF Holds
    <3>2. perm.req = 0
      <4>1. perm = CASE At(t, "passed")   -> NoPerm
                     [] At(t, "awaiting") -> Entry(about[t], t)
                     [] OTHER             -> Entry(task[t].ask, 0)
        BY <3>1, <2>4, <1>4 DEF SessionInv, Exclusive
      <4>2. ~At(t, "passed") /\ ~At(t, "awaiting")  BY <2>3 DEF At
      <4>3. QED  BY <4>1, <4>2 DEF Entry
    <3>3. Known(n)'  BY <2>1, <1>1, <1>4 DEF Known, Entry
    <3>4. \A m \in Sent \ {n} : Known(m) => Known(m)'
      <4>1. \A m \in Sent : perm.req # m  BY <3>2, AskTask
      <4>2. QED  BY <4>1, <1>1 DEF Known
    <3>5. Watched' /\ Faithful'
      BY <1>1, <1>2, <2>1, <2>4, <3>3, <3>4, HandoverWatched DEF SessionInv
    <3>6. Forms'
      <4>1. \A s \in Tasks : task'[s].at = "asked" => task'[s] = task[s]  BY <2>2
      <4>2. QED  BY <4>1, <1>1, <2>4 DEF SessionInv, Forms, At, Sent
    <3>7. \A s \in Tasks : Holds(s)' => s = n
      <4> SUFFICES ASSUME NEW s \in Tasks, Holds(s)', s # n PROVE FALSE  OBVIOUS
      <4>1. s # t  BY <2>2 DEF Holds, At
      <4>2. task'[s] = task[s]  BY <4>1, <2>2
      <4>3. Holds(s)  BY <4>2, <1>1 DEF Holds, At
      <4>4. QED  BY <4>1, <4>3, <3>1, <2>4 DEF SessionInv, Exclusive
    <3>8. perm' = Entry(about'[n], n) /\ perm'.ask # None
      BY <1>1, <2>1, <2>2, Names DEF Entry
    <3>9. Exclusive'  BY <3>7, <3>8, <2>2 DEF Exclusive, At
    <3>10. QED  BY <3>5, <3>6, <3>9 DEF SessionInv
  <2>5. QED  BY <2>2, <2>4 DEF Keeps
<1>5. QED  BY <1>3, <1>4

-----------------------------------------------------------------------------
(* User input.                                                               *)

LEMMA RouteKeeps ==
  ASSUME DialogsInv, NEW t \in Tasks, Route(t) PROVE Keeps
<1> USE DEF hostVars, sessionVars, clientVars
<1> DEFINE i == task[t].ask
<1>1. i \in Inputs /\ task[t].at = "opening" /\ UNCHANGED <<open, perm, ui, about, waiter>>
  BY DEF Route, At
<1>2. CASE Returns(t) /\ UNCHANGED seen
  BY <1>2, OpenQuiet, QuietKeeps DEF Keeps, DialogsInv
<1>3. CASE ~(Returns(t) /\ UNCHANGED seen)
  <2>1. open /\ i \notin seen /\ seen' = seen \union {i}
    BY <1>3 DEF Route, Marked
  <2>2. PICK p \in {"passed", "declining"} : Moves(t, Suspended(p, i, 0))
    BY <1>3 DEF Route
  <2> DEFINE next == Suspended(p, i, 0)
  <2>3. task[t].at \in AtHand  BY <1>1 DEF AtHand
  <2>4. /\ next \in Task /\ Changes(t, next) /\ Fits(t, next) /\ task[t] # Off
        /\ next.at = p /\ next.ask = i
    BY <1>1, <2>2, <2>3, Opens
  <2>5. /\ waiter \in [Sent -> Answers] /\ Owned /\ Placed /\ Once
    BY AskTask
  <2> HIDE DEF next
  <2>6. Owned'  BY <1>1, <2>4, <2>5, OwnedMove
  <2>7. Placed'  BY <2>4, <2>5, PlacedMove
  <2>8. Once'
    <3> SUFFICES ASSUME NEW j \in Inputs
                 PROVE  /\ \A x, y \in SentFor(j)' \union Fronts(j)' : x = y
                        /\ Fronts(j)' # {} => SentFor(j)' = {}
                        /\ open' /\ j \notin seen' => Fronts(j)' = {} /\ SentFor(j)' = {}
      BY DEF Once
    <3>1. SentFor(j)' = SentFor(j)  BY <1>1 DEF SentFor, Sent
    <3>2. CASE j = i
      <4>1. SentFor(j) = {} /\ Fronts(j) = {}  BY <3>2, <2>1, <2>5 DEF Once
      <4>2. Fronts(j)' \subseteq {t}  BY <4>1, <2>4 DEF Fronts, Changes
      <4>3. j \in seen'  BY <3>2, <2>1
      <4>4. QED  BY <3>1, <4>1, <4>2, <4>3
    <3>3. CASE j # i
      <4>1. Fronts(j)' \subseteq Fronts(j)  BY <3>3, <2>4 DEF Fronts, Changes
      <4>2. QED  BY <3>1, <4>1, <1>1, <2>1, <2>5 DEF Once
    <3>4. QED  BY <3>2, <3>3
  <2>9. ASSUME SessionInv PROVE SessionInv'
    <3>1. next.at \notin {"asked", "awaiting"} \union Settling /\ next.at # "asked"
      BY <2>4 DEF Settling
    <3>2. \A m \in Sent : Known(m) => Known(m)'  BY <1>1 DEF Known
    <3>3. Watched' /\ Faithful'
      BY <1>1, <2>4, <2>5, <2>9, <3>1, <3>2, Sideways DEF SessionInv, At
    <3>4. seen \subseteq seen'  BY <2>1
    <3>5. Forms'  BY <1>1, <2>4, <2>9, <3>1, <3>4, FormsStay DEF SessionInv
    <3>6. ~Holds(t)'
      BY <1>1, <2>4, Names DEF Holds, Changes, At
    <3>7. Exclusive'  BY <1>1, <2>4, <2>9, <3>6, ExclusiveStay DEF SessionInv
    <3>8. QED  BY <3>3, <3>5, <3>7 DEF SessionInv
  <2>10. QED  BY <2>6, <2>7, <2>8, <2>9 DEF Keeps
<1>4. QED  BY <1>2, <1>3

LEMMA BridgeKeeps ==
  ASSUME DialogsInv, NEW t \in Tasks, Bridge(t) PROVE Keeps
<1> USE DEF hostVars, sessionVars, clientVars
<1> DEFINE i == task[t].ask
<1>1. /\ i \in Inputs /\ task[t].at = "passed"
      /\ UNCHANGED <<open, perm, seen, about, waiter>>
  BY DEF Bridge, At
<1>2. PICK p \in {"asking", "declining"} : Moves(t, Suspended(p, i, 0))
  BY DEF Bridge
<1>3. ui' = ui \/ (ui' = ui \union {Entry(i, 0)} /\ open)
  BY DEF Bridge
<1> DEFINE next == Suspended(p, i, 0)
<1>4. task[t].at \in AtHand  BY <1>1 DEF AtHand
<1>5. /\ next \in Task /\ Changes(t, next) /\ Fits(t, next) /\ task[t] # Off
      /\ next.at = p /\ next.ask = i
  BY <1>1, <1>2, <1>4, Opens
<1>6. /\ waiter \in [Sent -> Answers] /\ Owned /\ Placed /\ Once
  BY AskTask
<1> HIDE DEF next
<1>7. Shifts(t, next)  BY <1>1, <1>5 DEF Shifts, Front
<1>8. Owned' /\ Placed' /\ Once'  BY <1>1, <1>5, <1>6, <1>7, ShiftKeeps
<1>9. ASSUME SessionInv PROVE SessionInv'
  <2>1. next.at \notin {"asked", "awaiting"} \union Settling /\ next.at # "asked"
    BY <1>5 DEF Settling
  <2>2. \A m \in Sent : Known(m) => Known(m)'  BY <1>1, <1>3 DEF Known
  <2>3. Watched' /\ Faithful'
    BY <1>1, <1>5, <1>6, <1>9, <2>1, <2>2, Sideways DEF SessionInv, At
  <2>4. Forms'
    <3>1. \A s \in Tasks : task'[s].at = "asked" => task'[s] = task[s]
      BY <1>5, <2>1 DEF Changes
    <3>2. t \in Fronts(i)  BY <1>1 DEF Fronts, Front
    <3>3. open => i \in seen  BY <3>2, <1>1, <1>6 DEF Once
    <3>4. \A e \in ui' : e \in ui \/ (e.ask = i /\ e.req = 0 /\ open)
      BY <1>3 DEF Entry
    <3>5. QED  BY <3>1, <3>3, <3>4, <1>1, <1>9 DEF SessionInv, Forms, At, Sent
  <2>5. ~Holds(t)'  BY <1>1, <1>5, Names DEF Holds, Changes, At
  <2>6. Exclusive'  BY <1>1, <1>5, <1>9, <2>5, ExclusiveStay DEF SessionInv
  <2>7. QED  BY <2>3, <2>4, <2>6 DEF SessionInv
<1>10. QED  BY <1>8, <1>9 DEF Keeps

LEMMA AttachInputKeeps ==
  ASSUME DialogsInv, NEW t \in Tasks, AttachInput(t) PROVE Keeps
<1> USE DEF hostVars, sessionVars, clientVars
<1> DEFINE i == task[t].ask
<1>1. At(t, "asked") /\ i \in Inputs /\ UNCHANGED <<open, perm, seen, about>>
  BY DEF AttachInput
<1>2. PICK n \in Sent : n = task[t].req
  <2>1. task[t].req \in Sent  BY <1>1, AskTask DEF Owned
  <2>2. QED  BY <2>1
<1>3. CASE ~ \E e \in ui : e.ask = i
  <2>1. Returns(t) /\ waiter' = Released(n) /\ ui' = ui  BY <1>2, <1>3 DEF AttachInput
  <2>2. QED  BY <2>1, <1>1, <1>2, RetractKeeps
<1>4. CASE \E e \in ui : e.ask = i
  <2>1. /\ ui' = { e \in ui : e.ask # i } \union {Entry(i, n)}
        /\ task' = Completed(t, n) /\ waiter' = waiter
    BY <1>2, <1>4 DEF AttachInput
  <2>2. /\ n \in Tasks /\ n # t /\ about[n] = i /\ task[n] = Off
        /\ task'[t] = Over(t) /\ Over(t).at \in {"off", "done"}
        /\ task'[n].at = "awaiting"
        /\ \A s \in Tasks \ {t, n} : task'[s] = task[s]
        /\ Owned' /\ Placed' /\ Once'
    BY <1>1, <1>2, <2>1, Handover
  <2>3. task[t].at = "asked"  BY <1>1 DEF At
  <2>4. ASSUME SessionInv PROVE SessionInv'
    <3>1. \A e \in ui : e.ask = i => e.req = 0
      BY <1>1, <2>4 DEF SessionInv, Forms
    <3>2. open /\ i \in seen  BY <1>4, <2>4 DEF SessionInv, Forms
    <3>3. Known(n)'
      <4>1. Entry(i, n) \in ui' /\ Entry(i, n).req = n  BY <2>1 DEF Entry
      <4>2. QED  BY <4>1, <3>2, <1>1 DEF Known
    <3>4. \A m \in Sent \ {n} : Known(m) => Known(m)'
      <4>1. \A m \in Sent : \A e \in ui : e.req = m => e \in ui'
        BY <3>1, <2>1, AskTask
      <4>2. QED  BY <4>1, <1>1 DEF Known
    <3>5. Watched' /\ Faithful'
      BY <1>1, <1>2, <2>1, <2>4, <3>3, <3>4, HandoverWatched DEF SessionInv
    <3>6. ASSUME NEW s \in Tasks, task'[s].at = "asked"
          PROVE  task'[s] = task[s] /\ s # t /\ task[s].ask # i
      <4>1. s # t /\ task'[s] = task[s]  BY <3>6, <2>2
      <4>2. task[s].req \in Sent /\ about[task[s].req] = task[s].ask /\ task[s].req # n
        BY <4>1, <3>6, <2>3, <1>2, AskTask DEF Owned, At
      <4>3. CASE task[s].ask = i
        <5>1. task[s].req \in SentFor(i) /\ n \in SentFor(i)
          BY <4>2, <4>3, <2>2 DEF SentFor
        <5>2. QED  BY <5>1, <4>2, <1>1, AskTask DEF Once
      <4>4. QED  BY <4>1, <4>3
    <3>7. Forms'
      <4>1. \A e \in ui' : (e \in ui /\ e.ask # i) \/ (e.ask = i /\ e.req = n)
        BY <2>1 DEF Entry
      <4>2. \A e \in ui' : e.req # 0 => e.req \in Sent /\ about[e.req] = e.ask
        BY <4>1, <2>2, <2>4 DEF SessionInv, Forms
      <4>3. \A s \in Tasks, e \in ui' : task'[s].at = "asked" /\ e.ask = task'[s].ask => e.req = 0
        BY <4>1, <3>6, <2>4 DEF SessionInv, Forms, At
      <4>4. \A e \in ui' : open /\ e.ask \in seen
        BY <4>1, <3>2, <2>4 DEF SessionInv, Forms
      <4>5. QED  BY <4>2, <4>3, <4>4, <1>1 DEF Forms, At, Sent
    <3>8. ASSUME NEW s \in Tasks, Holds(s)' PROVE Holds(s) /\ task'[s] = task[s]
      <4>1. s # t /\ s # n
        BY <3>8, <1>1, <2>2, Names DEF Holds, At
      <4>2. task'[s] = task[s]  BY <4>1, <2>2
      <4>3. QED  BY <4>2, <3>8, <1>1 DEF Holds, At
    <3>9. Exclusive'
      <4>1. \A r, s \in Tasks : Holds(r)' /\ Holds(s)' => r = s
        BY <3>8, <2>4 DEF SessionInv, Exclusive
      <4>2. ASSUME open, NEW s \in Tasks, Holds(s)'
            PROVE  perm = CASE task'[s].at = "passed"   -> NoPerm
                            [] task'[s].at = "awaiting" -> Entry(about[s], s)
                            [] OTHER                    -> Entry(task'[s].ask, 0)
        BY <3>8, <4>2, <2>4 DEF SessionInv, Exclusive, At
      <4>3. QED  BY <4>1, <4>2, <1>1, <2>4 DEF SessionInv, Exclusive, At
    <3>10. QED  BY <3>5, <3>7, <3>9 DEF SessionInv
  <2>5. QED  BY <2>2, <2>4 DEF Keeps
<1>5. QED  BY <1>3, <1>4

-----------------------------------------------------------------------------
(* Answers and verdicts.                                                     *)

(* A verdict is about what its own dialog asked, and as it was answered.     *)
LEMMA VerdictMove ==
  ASSUME DialogsInv, NEW n \in Dialogs, At(n, "awaiting"), waiter[n] # "open",
         NEW next \in Task, Moves(n, next), next.at \in Settling, UNCHANGED <<about, open, seen>>
  PROVE  /\ Owned' /\ Placed' /\ Once' /\ Changes(n, next)
         /\ \A s \in Tasks : task'[s].at = "asked" => task'[s] = task[s]
         /\ ~Holds(n)'
<1>1. n \in Tasks /\ task \in [Tasks -> Task] /\ Owned /\ Placed /\ Once
  BY Names, AskTask
<1>2. Changes(n, next)  BY <1>1 DEF Changes, Moves
<1>3. /\ Fits(n, next) /\ next.at \notin Front /\ next.at \notin {"asked", "awaiting"}
      /\ task[n] # Off
  BY DEF Fits, Front, Settling, AtHand, Off, Suspended, At
<1>4. Shifts(n, next)  BY <1>2, <1>3 DEF Shifts
<1>5. Owned' /\ Placed' /\ Once'  BY <1>1, <1>4, ShiftKeeps
<1>6. \A s \in Tasks : task'[s].at = "asked" => task'[s] = task[s]
  BY <1>2, <1>3 DEF Changes
<1>7. ~Holds(n)'  BY <1>1, <1>2, <1>3 DEF Holds, Changes, At, Front
<1>8. QED  BY <1>2, <1>5, <1>6, <1>7

LEMMA VerdictWatched ==
  ASSUME DialogsInv, Watched, Faithful, NEW n \in Dialogs, At(n, "awaiting"),
         waiter[n] # "open", NEW next \in Task, Changes(n, next), next.at \in Settling,
         next.ask = about[n], next.at = "approving" <=> waiter[n] = "allow",
         UNCHANGED <<about, open, waiter>>,
         \A m \in Sent \ {n} : Known(m) => Known(m)'
  PROVE  Watched' /\ Faithful'
<1>1. Sent' = Sent /\ n \in Tasks /\ Sent \subseteq Tasks
  BY Names, AskTask DEF Sent
<1>2. next.at # "asked" /\ next.at # "awaiting" /\ task[n].at = "awaiting"
  BY DEF Settling, At
<1>3. Watched'
  <2> SUFFICES ASSUME NEW m \in Sent, waiter[m] = "open"
               PROVE  \/ \E s \in Tasks : task'[s].at = "asked" /\ task'[s].req = m
                      \/ task'[m].at = "awaiting" /\ Known(m)'
    BY <1>1 DEF Watched, At
  <2>1. m # n  OBVIOUS
  <2>2. CASE \E s \in Tasks : task[s].at = "asked" /\ task[s].req = m
    BY <2>2, <1>2 DEF Changes
  <2>3. CASE task[m].at = "awaiting" /\ Known(m)
    BY <2>1, <2>3, <1>1 DEF Changes
  <2>4. QED  BY <2>2, <2>3 DEF Watched, At
<1>4. Faithful'
  <2> SUFFICES ASSUME NEW m \in Dialogs
               PROVE  /\ task'[m].at = "awaiting" => m \in Sent
                      /\ task'[m].at \in Settling =>
                           /\ m \in Sent /\ waiter[m] # "open" /\ task'[m].ask = about[m]
                           /\ task'[m].at = "approving" <=> waiter[m] = "allow"
    BY <1>1 DEF Faithful, At
  <2>1. CASE m = n
    <3>1. task'[m] = next /\ n \in Sent  BY <2>1, <1>2 DEF Changes, Faithful, At
    <3>2. QED  BY <3>1, <2>1, <1>2
  <2>2. CASE m # n
    <3>1. task'[m] = task[m]  BY <2>2, Names DEF Changes
    <3>2. QED  BY <3>1 DEF Faithful, At
  <2>3. QED  BY <2>1, <2>2
<1>5. QED  BY <1>3, <1>4

LEMMA TakePermissionKeeps ==
  ASSUME DialogsInv, NEW n \in Dialogs, TakePermission(n) PROVE Keeps
<1> USE DEF hostVars, sessionVars, clientVars
<1>1. /\ At(n, "awaiting") /\ about[n] \in Approvals /\ waiter[n] # "open"
      /\ UNCHANGED <<open, ui, seen, about, waiter>>
  BY DEF TakePermission
<1>2. CASE ~(open /\ perm.ask # None)
  <2>1. Returns(n) /\ perm' = perm  BY <1>2 DEF TakePermission
  <2>2. n \in Tasks  BY Names
  <2>3. QED  BY <2>1, <2>2, <1>1, CloseQuiet, QuietKeeps DEF Keeps, DialogsInv
<1>3. CASE open /\ perm.ask # None
  <2> DEFINE v == Verdict(waiter[n], perm.ask)
             next == Suspended(v, perm.ask, n)
  <2>1. Moves(n, next) /\ perm' = NoPerm  BY <1>3 DEF TakePermission
  <2>2. v \in Settling /\ (v = "approving" <=> waiter[n] = "allow")
    BY DEF Verdict, Settling
  <2> HIDE DEF v
  <2>3. /\ next \in Task /\ next.at = v /\ next.ask = perm.ask
    <3>1. perm.ask \in Asks  BY <1>3, TypeParts, Names DEF DialogsInv, SessionTypes, Entries
    <3>2. v \in Points /\ n \in Nat  BY <2>2, Names DEF Points
    <3>3. QED  BY <3>1, <3>2 DEF Suspended, Task
  <2> HIDE DEF next
  <2>4. /\ Owned' /\ Placed' /\ Once' /\ Changes(n, next) /\ ~Holds(n)'
        /\ \A s \in Tasks : task'[s].at = "asked" => task'[s] = task[s]
    BY <1>1, <2>1, <2>2, <2>3, VerdictMove
  <2>5. ASSUME SessionInv PROVE SessionInv'
    <3>1. Holds(n) /\ n \in Tasks /\ n \in Sent
      BY <1>1, <2>5, Names DEF Holds, SessionInv, Faithful
    <3>2. perm = Entry(about[n], n)
      <4>1. perm = CASE At(n, "passed")   -> NoPerm
                     [] At(n, "awaiting") -> Entry(about[n], n)
                     [] OTHER             -> Entry(task[n].ask, 0)
        BY <3>1, <2>5, <1>3 DEF SessionInv, Exclusive
      <4>2. ~At(n, "passed")  BY <1>1 DEF At
      <4>3. QED  BY <4>1, <4>2, <1>1
    <3>3. perm.ask = about[n] /\ perm.req = n  BY <3>2 DEF Entry
    <3>4. \A m \in Sent \ {n} : Known(m) => Known(m)'
      BY <3>3, <1>1 DEF Known
    <3>5. Watched' /\ Faithful'
      BY <1>1, <2>2, <2>3, <2>4, <2>5, <3>3, <3>4, VerdictWatched DEF SessionInv
    <3>6. Forms'  BY <2>4, <1>1, <2>5 DEF SessionInv, Forms, At, Sent
    <3>7. \A s \in Tasks : ~Holds(s)'
      <4>1. \A s \in Tasks : Holds(s) => s = n
        BY <2>5, <3>1 DEF SessionInv, Exclusive
      <4>2. \A s \in Tasks \ {n} : Holds(s)' <=> Holds(s)
        BY <2>3, <2>4, <3>1, <1>1, OthersHold
      <4>3. QED  BY <4>1, <4>2, <2>4
    <3>8. Exclusive'  BY <3>7, <2>1 DEF Exclusive
    <3>9. QED  BY <3>5, <3>6, <3>8 DEF SessionInv
  <2>6. QED  BY <2>4, <2>5 DEF Keeps
<1>4. QED  BY <1>2, <1>3

LEMMA TakeInputKeeps ==
  ASSUME DialogsInv, NEW n \in Dialogs, TakeInput(n) PROVE Keeps
<1> USE DEF hostVars, sessionVars, clientVars
<1>1. /\ At(n, "awaiting") /\ about[n] \in Inputs /\ waiter[n] # "open"
      /\ UNCHANGED <<open, perm, seen, about, waiter>>
  BY DEF TakeInput
<1>2. CASE ~ \E e \in ui : e.req = n
  <2>1. Returns(n) /\ ui' = ui  BY <1>2 DEF TakeInput
  <2>2. n \in Tasks  BY Names
  <2>3. QED  BY <2>1, <2>2, <1>1, CloseQuiet, QuietKeeps DEF Keeps, DialogsInv
<1>3. CASE \E e \in ui : e.req = n
  <2> DEFINE v == IF waiter[n] = "allow" THEN "approving" ELSE "cancelling"
  <2>1. PICK e \in ui : e.req = n /\ ui' = ui \ {e} /\ Moves(n, Suspended(v, e.ask, n))
    BY <1>3 DEF TakeInput
  <2> DEFINE next == Suspended(v, e.ask, n)
  <2>2. v \in Settling /\ (v = "approving" <=> waiter[n] = "allow")
    BY DEF Settling
  <2> HIDE DEF v
  <2>3. next \in Task /\ next.at = v /\ next.ask = e.ask
    <3>1. e.ask \in Asks  BY TypeParts, Names DEF DialogsInv, SessionTypes
    <3>2. v \in Points /\ n \in Nat  BY <2>2, Names DEF Points
    <3>3. QED  BY <3>1, <3>2 DEF Suspended, Task
  <2>4. Moves(n, next)  BY <2>1
  <2> HIDE DEF next
  <2>5. /\ Owned' /\ Placed' /\ Once' /\ Changes(n, next) /\ ~Holds(n)'
        /\ \A s \in Tasks : task'[s].at = "asked" => task'[s] = task[s]
    BY <1>1, <2>2, <2>3, <2>4, VerdictMove
  <2>6. ASSUME SessionInv PROVE SessionInv'
    <3>1. n \in Sent /\ n \in Tasks
      BY <1>1, <2>6, Names DEF SessionInv, Faithful
    <3>2. e.ask = about[n]
      <4>1. e.req # 0  BY <2>1, <3>1, AskTask
      <4>2. QED  BY <4>1, <2>1, <2>6 DEF SessionInv, Forms
    <3>3. \A m \in Sent \ {n} : Known(m) => Known(m)'
      BY <2>1, <1>1 DEF Known
    <3>4. Watched' /\ Faithful'
      BY <1>1, <2>2, <2>3, <2>5, <2>6, <3>2, <3>3, VerdictWatched DEF SessionInv
    <3>5. Forms'
      <4>1. ui' \subseteq ui  BY <2>1
      <4>2. QED  BY <4>1, <2>5, <1>1, <2>6 DEF SessionInv, Forms, At, Sent
    <3>6. Exclusive'  BY <1>1, <2>3, <2>5, <2>6, <3>1, ExclusiveStay DEF SessionInv
    <3>7. QED  BY <3>4, <3>5, <3>6 DEF SessionInv
  <2>7. QED  BY <2>5, <2>6 DEF Keeps
<1>4. QED  BY <1>2, <1>3

LEMMA AnswerKeeps ==
  ASSUME DialogsInv, NEW n \in Dialogs, Answer(n) PROVE Keeps
<1> USE DEF hostVars, sessionVars, clientVars
<1>1. /\ n \in Sent /\ waiter[n] = "open"
      /\ UNCHANGED <<open, perm, queue, ui, seen, about, task>>
  BY DEF Answer
<1>2. PICK answer \in {"allow", "dismissed", "reject"} :
        waiter' = [waiter EXCEPT ![n] = answer]
  BY DEF Answer
<1>3. waiter \in [Sent -> Answers] /\ Owned /\ Placed /\ Once  BY AskTask, Names
<1>4. /\ waiter'[n] # "open" /\ \A m \in Sent \ {n} : waiter'[m] = waiter[m]
  BY <1>1, <1>2, <1>3
<1>5. Sent' = Sent  BY <1>1 DEF Sent
<1>6. Owned' /\ Placed' /\ Once'
  BY <1>1, <1>3, <1>5 DEF Owned, Placed, Fits, Once, Fronts, SentFor, At
<1>7. ASSUME SessionInv PROVE SessionInv'
  <2>1. Forms' /\ Watched'
    BY <1>1, <1>4, <1>5, <1>7 DEF SessionInv, Forms, Watched, Known, At
  <2>2. Faithful'
    <3>1. \A m \in Sent : waiter[m] # "open" => waiter'[m] = waiter[m]  BY <1>1, <1>4
    <3>2. QED  BY <3>1, <1>1, <1>5, <1>7 DEF SessionInv, Faithful, At
  <2>3. \A t \in Tasks : Holds(t)' <=> Holds(t)  BY <1>1 DEF Holds, At
  <2>4. Exclusive'  BY <2>3, <1>1, <1>7 DEF SessionInv, Exclusive, At
  <2>5. QED  BY <2>1, <2>2, <2>4 DEF SessionInv
<1>8. QED  BY <1>6, <1>7 DEF Keeps

LEMMA CloseKeeps ==
  ASSUME DialogsInv, Close PROVE Keeps
<1> USE DEF hostVars, sessionVars, clientVars
<1>1. /\ open' = FALSE /\ perm' = NoPerm /\ ui' = {} /\ open
      /\ UNCHANGED <<about, task>>
      /\ \A m \in Sent : waiter'[m] = IF waiter[m] = "open" /\ (m = perm.req \/ \E e \in ui : e.req = m)
                                      THEN "lost" ELSE waiter[m]
  BY DEF Close
<1>2. Owned /\ Placed /\ Once  BY DEF DialogsInv
<1>3. Sent' = Sent  BY <1>1 DEF Sent
<1>4. Owned' /\ Placed'  BY <1>1, <1>2, <1>3 DEF Owned, Placed, Fits, At
<1>5. Once'
  <2>1. \A i \in Inputs : Fronts(i)' = Fronts(i) /\ SentFor(i)' = SentFor(i)
    BY <1>1, <1>3 DEF Fronts, SentFor
  <2>2. QED  BY <2>1, <1>1, <1>2 DEF Once
<1>6. ASSUME SessionInv PROVE SessionInv'
  <2>1. Forms'  BY <1>1 DEF Forms
  <2>2. Watched'
    <3> SUFFICES ASSUME NEW m \in Sent, waiter'[m] = "open"
                 PROVE  \E s \in Tasks : task[s].at = "asked" /\ task[s].req = m
      BY <1>1, <1>3 DEF Watched, At
    <3>1. waiter[m] = "open" /\ ~(m = perm.req \/ \E e \in ui : e.req = m)  BY <1>1
    <3>2. ~Known(m)  BY <3>1 DEF Known
    <3>3. QED  BY <3>1, <3>2, <1>6 DEF SessionInv, Watched, At
  <2>3. Faithful'
    <3>1. \A m \in Sent : waiter[m] # "open" => waiter'[m] = waiter[m]  BY <1>1
    <3>2. QED  BY <3>1, <1>1, <1>3, <1>6 DEF SessionInv, Faithful, At
  <2>4. \A t \in Tasks : Holds(t)' <=> Holds(t)  BY <1>1 DEF Holds, At
  <2>5. Exclusive'  BY <2>4, <1>1, <1>6 DEF SessionInv, Exclusive
  <2>6. QED  BY <2>1, <2>2, <2>3, <2>5 DEF SessionInv
<1>7. QED  BY <1>4, <1>5, <1>6 DEF Keeps

-----------------------------------------------------------------------------
(* All steps together.                                                       *)

LEMMA StepKeeps ==
  ASSUME DialogsInv, [Next]_vars
  PROVE  Keeps
<1>1. ASSUME NEW t \in Tasks, Quietly(t) PROVE Keeps
  BY <1>1, QuietKeeps DEF Keeps, DialogsInv
<1>2. ASSUME NEW t \in Tasks, OpenStep(t) PROVE Keeps
  <2>1. CASE OpenBlind(t) \/ Defer(t) \/ Decline(t)  BY <2>1, <1>1, OpenQuiet
  <2>2. QED
    BY <2>1, <1>2, PassKeeps, PresentKeeps, RequestKeeps, AttachKeeps, RouteKeeps,
       BridgeKeeps, AttachInputKeeps
       DEF OpenStep
<1>3. ASSUME NEW n \in Dialogs, CloseStep(n) PROVE Keeps
  <2>1. CASE Decide(n) \/ AnswerInput(n) \/ Pop(n)  BY <2>1, <1>1, CloseQuiet, Names
  <2>2. QED  BY <2>1, <1>3, TakePermissionKeeps, TakeInputKeeps DEF CloseStep
<1>4. CASE UNCHANGED <<open, perm, ui, seen, about, waiter, task>>
  BY <1>4, HostKeeps
<1>5. CASE \/ \E a \in Asks : HostAsks(a) \/ HostSettles(a) \/ Delegate(a)
           \/ \E r \in Readers : Pull(r) \/ Read(r)
  BY <1>5, <1>1, <1>4, ReadersQuiet
<1>6. CASE UNCHANGED vars
  BY <1>4, <1>6 DEF vars, sessionVars, clientVars
<1>7. CASE Next
  <2>1. CASE \E t \in Readers \union Asks \union Dialogs : OpenStep(t)
    BY <2>1, <1>2 DEF Tasks
  <2>2. QED  BY <2>1, <1>3, <1>5, <1>7, AnswerKeeps, CloseKeeps DEF Next
<1>8. QED  BY <1>6, <1>7

LEMMA InitKeeps == Init => Owned /\ Placed /\ Once /\ SessionInv
<1> SUFFICES ASSUME Init PROVE Owned /\ Placed /\ Once /\ SessionInv  OBVIOUS
<1>1. /\ Sent = {} /\ Len(about) = 0 /\ open = TRUE /\ perm = NoPerm /\ ui = {}
  BY DEF Init, Sent
<1>2. PICK scene \in Scenes :
        task = [t \in Tasks |->
                  CASE t \in scene.pulls -> Suspended("new", None, 0)
                    [] t \in (Asks \ scene.delegated) \union (Pulls \ scene.pulls) ->
                         Suspended("done", None, 0)
                    [] OTHER -> Off]
  BY DEF Init
<1>3. scene.pulls \subseteq Pulls  BY AcpDialogsAssumption DEF Scene
<1>4. \A t \in Tasks : /\ task[t].at \in {"new", "done", "off"}
                       /\ t \in Dialogs => task[t] = Off
  <2>1. \A n \in Dialogs : n \in Tasks /\ n \notin Pulls /\ n \notin Asks  BY Names
  <2>2. QED  BY <2>1, <1>2, <1>3 DEF Off, Suspended
<1>5. \A n \in Dialogs : n \in Tasks  BY Names
<1>6. Owned  BY <1>1, <1>4, <1>5, Names DEF Owned, At
<1>7. Placed  BY <1>4 DEF Placed, Fits, AtHand, Settling
<1>8. Once
  <2>1. \A i \in Inputs : Fronts(i) = {} /\ SentFor(i) = {}
    BY <1>1, <1>4 DEF Fronts, SentFor, Front
  <2>2. QED  BY <2>1 DEF Once
<1>9. Forms /\ Watched  BY <1>1 DEF Forms, Watched
<1>10. \A t \in Tasks : ~Holds(t)  BY <1>4 DEF Holds, At
<1>11. Exclusive  BY <1>1, <1>10 DEF Exclusive
<1>12. Faithful  BY <1>4, <1>5 DEF Faithful, At, Settling
<1>13. QED  BY <1>6, <1>7, <1>8, <1>9, <1>11, <1>12 DEF SessionInv

-----------------------------------------------------------------------------
(* The theorems.                                                             *)

LEMMA DialogsInvariant == SafeSpec => []DialogsInv
<1>1. Init => DialogsInv  BY TypedInit, InitKeeps DEF DialogsInv
<1>2. DialogsInv /\ [Next]_vars => DialogsInv'
  <2> SUFFICES ASSUME DialogsInv, [Next]_vars PROVE DialogsInv'  OBVIOUS
  <2>1. TypeOK'  BY TypedStep DEF DialogsInv
  <2>2. Owned' /\ Placed' /\ Once'  BY StepKeeps DEF Keeps
  <2>3. QED  BY <2>1, <2>2 DEF DialogsInv
<1>3. QED  BY <1>1, <1>2, PTL DEF SafeSpec

LEMMA SessionInvariant ==
  ASSUME "overlap" \notin Faults
  PROVE  SafeSpec => [](DialogsInv /\ SessionInv)
<1>1. Init => SessionInv  BY InitKeeps
<1>2. DialogsInv /\ SessionInv /\ [Next]_vars => SessionInv'
  BY StepKeeps DEF Keeps
<1>3. QED  BY <1>1, <1>2, DialogsInvariant, PTL DEF SafeSpec

(* Every variable of the dialogs keeps its type, and no approval queues      *)
(* twice (open_approval's enqueue, pop_queued_approval).                     *)
THEOREM DialogTypes == SafeSpec => []TypeOK
<1>1. DialogsInv => TypeOK  BY DEF DialogsInv
<1>2. QED  BY <1>1, DialogsInvariant, PTL

(* route_user_input: however many tasks bring a prompt to the session, one   *)
(* of them at most puts it to the client or declines it, whether or not a    *)
(* second task gets between an approval's look and its assignment.           *)
THEOREM PromptedOncePerAsk == SafeSpec => []PromptedOnce
<1>1. DialogsInv => PromptedOnce
  <2> SUFFICES ASSUME DialogsInv, NEW i \in Inputs
               PROVE  Cardinality(SentFor(i) \union Fronts(i)) <= 1
    BY DEF PromptedOnce, SentFor, Fronts, Front
  <2> DEFINE S == SentFor(i) \union Fronts(i)
  <2>1. \A x, y \in S : x = y  BY DEF DialogsInv, Once
  <2> HIDE DEF S
  <2>2. CASE S = {}  BY <2>2, FS_EmptySet DEF S
  <2>3. CASE S # {}
    <3>1. PICK x \in S : S = {x}  BY <2>1, <2>3
    <3>2. Cardinality(S) = 1  BY <3>1, FS_Singleton
    <3>3. QED  BY <3>2 DEF S
  <2>4. QED  BY <2>2, <2>3
<1>2. QED  BY <1>1, DialogsInvariant, PTL

(* open_approval: one permission dialog per session at a time, unless a      *)
(* second task looks at pending_perm between another's look and its          *)
(* assignment.                                                               *)
THEOREM OneDialogShown ==
  ASSUME "overlap" \notin Faults
  PROVE  SafeSpec => []OneDialogAtATime
<1>1. DialogsInv /\ SessionInv => OneDialogAtATime
  <2> SUFFICES ASSUME DialogsInv, SessionInv, NEW m \in Shown(Approvals), NEW n \in Shown(Approvals)
               PROVE  m = n
    BY DEF OneDialogAtATime
  <2>1. ASSUME NEW k \in Shown(Approvals)
        PROVE  \E t \in Tasks : Holds(t) /\ ((At(t, "asked") /\ task[t].req = k)
                                              \/ (At(t, "awaiting") /\ t = k))
    <3>1. k \in Sent /\ about[k] \in Approvals /\ waiter[k] = "open" /\ k \in Tasks
      BY <2>1, AskTask, Names DEF Shown, DialogsInv, Sent, Owned, Dialogs
    <3>2. CASE \E t \in Tasks : At(t, "asked") /\ task[t].req = k
      <4>1. PICK t \in Tasks : At(t, "asked") /\ task[t].req = k  BY <3>2
      <4>2. task[t].ask = about[k] /\ task[t].at = "asked"
        BY <4>1 DEF DialogsInv, Owned, At
      <4>3. Holds(t)  BY <4>2, <3>1 DEF Holds
      <4>4. QED  BY <4>1, <4>3
    <3>3. CASE At(k, "awaiting")  BY <3>1, <3>3 DEF Holds
    <3>4. QED  BY <3>1, <3>2, <3>3 DEF SessionInv, Watched
  <2>2. PICK s \in Tasks : Holds(s) /\ ((At(s, "asked") /\ task[s].req = m)
                                         \/ (At(s, "awaiting") /\ s = m))
    BY <2>1
  <2>3. PICK t \in Tasks : Holds(t) /\ ((At(t, "asked") /\ task[t].req = n)
                                         \/ (At(t, "awaiting") /\ t = n))
    BY <2>1
  <2>4. s = t  BY <2>2, <2>3 DEF SessionInv, Exclusive
  <2>5. QED  BY <2>2, <2>3, <2>4 DEF At
<1>2. QED  BY <1>1, SessionInvariant, PTL

(* complete_permission and complete_elicitation: under the same condition a  *)
(* verdict is about the ask its dialog showed, and approves exactly when     *)
(* that dialog's answer did.                                                 *)
THEOREM VerdictsAsAnswered ==
  ASSUME "overlap" \notin Faults
  PROVE  SafeSpec => []DecidedAsAnswered
<1>1. SessionInv => DecidedAsAnswered
  BY DEF SessionInv, Faithful, DecidedAsAnswered
<1>2. QED  BY <1>1, SessionInvariant, PTL

(* session/close: under the same condition, what still waits for the client  *)
(* after it belongs to a task that is about to retract it.                   *)
THEOREM NoWaiterLeft ==
  ASSUME "overlap" \notin Faults
  PROVE  SafeSpec => []WaitersReleased
<1>1. SessionInv => WaitersReleased
  BY DEF SessionInv, Watched, Known, WaitersReleased
<1>2. QED  BY <1>1, SessionInvariant, PTL
=============================================================================

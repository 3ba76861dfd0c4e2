------------------------- MODULE MspConnectionProofs -------------------------
(***************************************************************************)
(* Theorems about MspConnection: type correctness, no leaked waiter, at    *)
(* most one admission per command, outcomes that tell the truth, and the   *)
(* finality of a connection's death.                                       *)
(***************************************************************************)
EXTENDS MspConnection, SequenceTheorems, FiniteSetTheorems, TLAPS

(* Every id a caller holds was minted for it; every id it held before was    *)
(* refused by the host, and one it is about to write is unknown to the host. *)
OwnIds ==
  \A c \in Callers :
    /\ pc[c] = "idle" => id[c] = 0
    /\ pc[c] # "idle" => id[c] \in Ids /\ waiters[id[c]].caller = c
    /\ pc[c] = "backoff" => id[c] \in refused

OldIdsRefused ==
  \A i \in Ids : i # id[waiters[i].caller] => i \in refused

Fresh(i) ==
  /\ i \notin held \cup admitted \cup refused
  /\ \A k \in 1..Len(toHost) : toHost[k].kind = "command" => toHost[k].id # i

UnwrittenIsFresh ==
  \A c \in Callers : pc[c] \in {"locking", "writing"} => Fresh(id[c])

HostSets ==
  /\ held \subseteq Ids /\ admitted \subseteq Ids /\ refused \subseteq Ids
  /\ held \cap (admitted \cup refused) = {}
  /\ admitted \cap refused = {}

CommandsInPipe ==
  /\ \A k \in 1..Len(toHost) : toHost[k].kind = "command" =>
       toHost[k].id \in Ids \ (held \cup admitted \cup refused)
  /\ \A k, l \in 1..Len(toHost) :
       (toHost[k].kind = "command" /\ toHost[l].kind = "command"
          /\ toHost[k].id = toHost[l].id) => k = l

Refusal == {"backpressure", "declined"}
RefusalsAreTrue ==
  /\ \A k \in 1..Len(fromHost) : fromHost[k].kind \in Refusal => fromHost[k].id \in refused
  /\ \A i \in Ids : waiters[i].slot \in Refusal => i \in refused

ReaderState == state = "Dead" <=> reader \in {"closing", "ended"}

AckHead == reader = "acking" => fromHost # <<>> /\ Head(fromHost).kind = "ask"

(* An entry in the map is unresolved: whoever resolves a oneshot removes it. *)
PendingIsOpen == \A i \in pending : waiters[i].slot = "open"

AdmissionInv ==
  /\ TypeOK
  /\ NoWaiterLeak
  /\ PendingIsOpen
  /\ OwnIds
  /\ OldIdsRefused
  /\ UnwrittenIsFresh
  /\ HostSets
  /\ CommandsInPipe
  /\ RefusalsAreTrue
  /\ ReaderState
  /\ AckHead

(* What the callers are told.  The answers under way and those that have     *)
(* arrived say what the host did ...                                         *)
Execution == {"result", "error", "invalid"}
AnswersAreTrue ==
  /\ \A k \in 1..Len(fromHost) : fromHost[k].kind \in Execution => fromHost[k].id \in admitted
  /\ \A i \in Ids : waiters[i].slot \in {"result", "error", "protocolError"} => i \in admitted

(* ... and a caller has been told the answer to its last attempt.            *)
ToldOfLast ==
  \A c \in Callers : outcome[c] # "none" =>
    /\ pc[c] = "done"
    /\ outcome[c] \in {"result", "error", "protocolError"} => id[c] \in admitted
    /\ outcome[c] \in Refusal => id[c] \in refused
    /\ outcome[c] = "backpressure" => retries[c] + 1 = MaxAttempts
    /\ outcome[c] = "frameTooLarge" => c \in large

(* A caller whose frame is over the limit has one attempt, of which the host *)
(* knows nothing.                                                            *)
OversizedUnwritten ==
  \A c \in large :
    /\ pc[c] \notin {"waiting", "backoff"}
    /\ Fresh(id[c])
    /\ \A i \in Ids : waiters[i].caller = c => i = id[c]

(* The attempts of a caller are counted by `retries`.                        *)
AttemptsCounted ==
  \A c \in Callers :
    /\ retries[c] < MaxAttempts
    /\ IsFiniteSet(MyIds(c))
    /\ pc[c] \in {"idle", "backoff"} => Cardinality(MyIds(c)) = retries[c]
    /\ pc[c] \in InFlight \cup {"done"} => Cardinality(MyIds(c)) = retries[c] + 1

OutcomeInv == AnswersAreTrue /\ ToldOfLast /\ OversizedUnwritten /\ AttemptsCounted

-----------------------------------------------------------------------------
(* What typing says of the oneshots minted so far.                          *)
LEMMA WaiterFacts ==
  ASSUME TypeOK
  PROVE  /\ waiters \in Seq(Waiter) /\ Len(waiters) \in Nat
         /\ \A i \in Ids : waiters[i] \in Waiter /\ waiters[i].caller \in Callers
<1>1. waiters \in Seq(Waiter)
  BY DEF TypeOK
<1>2. Len(waiters) \in Nat
  BY <1>1, LenProperties
<1>3. \A i \in Ids : waiters[i] \in Waiter
  BY <1>1, ElementOfSeq DEF Ids
<1>4. \A i \in Ids : waiters[i].caller \in Callers
  BY <1>3 DEF Waiter
<1> QED
  BY <1>1, <1>2, <1>3, <1>4

(* A connection that has just been launched satisfies the invariant.        *)
LEMMA InitAdmission == Init => AdmissionInv
<1> SUFFICES ASSUME Init PROVE AdmissionInv
  OBVIOUS
<1> USE DEF Init
<1>1. TypeOK
  <2>1. /\ pc \in [Callers -> {"idle", "backoff", "done", "dropped"} \cup InFlight]
        /\ id \in [Callers -> Nat] /\ retries \in [Callers -> Nat]
        /\ outcome \in [Callers -> {"none"} \cup Answers \cup LocalErrors]
    OBVIOUS
  <2>2. waiters \in Seq(Waiter) /\ events \in Seq(Nat) /\ toHost \in Seq(Frame)
        /\ fromHost \in Seq(HostFrame)
    OBVIOUS
  <2> QED
    BY <2>1, <2>2 DEF TypeOK
<1>2. Ids = {}
  BY DEF Ids
<1>3. NoWaiterLeak /\ PendingIsOpen /\ OldIdsRefused /\ HostSets /\ RefusalsAreTrue /\ CommandsInPipe
  BY <1>2 DEF NoWaiterLeak, PendingIsOpen, OldIdsRefused, HostSets, RefusalsAreTrue, CommandsInPipe
<1>4. OwnIds /\ UnwrittenIsFresh /\ ReaderState /\ AckHead
  BY DEF OwnIds, UnwrittenIsFresh, ReaderState, AckHead
<1> QED
  BY <1>1, <1>3, <1>4 DEF AdmissionInv

(* Minting an id and inserting its waiter keeps the invariant: the id is    *)
(* new to the map, to the pipes and to the host.                            *)
LEMMA SendAdmission ==
  ASSUME AdmissionInv, NEW c \in Callers, Send(c)
  PROVE  AdmissionInv'
<1> USE ConnectionAssumption DEF AdmissionInv, Send, Unlock, Unregister, callerVars, connVars, hostVars, Ids, InFlight, NoOne, Answers, LocalErrors
<1>w. /\ waiters \in Seq(Waiter) /\ Len(waiters) \in Nat
      /\ \A i \in Ids : waiters[i] \in Waiter /\ waiters[i].caller \in Callers
  BY WaiterFacts
<1>a. /\ [caller |-> c, slot |-> "open"] \in Waiter
      /\ waiters' = Append(waiters, [caller |-> c, slot |-> "open"])
      /\ waiters \in Seq(Waiter)
  BY DEF TypeOK, Waiter
<1>b. /\ waiters' \in Seq(Waiter)
      /\ Len(waiters) \in Nat
      /\ Len(waiters') = Len(waiters) + 1
      /\ \A i \in Ids : waiters'[i] = waiters[i]
      /\ waiters'[Len(waiters) + 1] = [caller |-> c, slot |-> "open"]
  BY <1>a, AppendProperties, LenProperties
<1>1. TypeOK'
  <2>1. pc' \in [Callers -> {"idle", "backoff", "done", "dropped"} \cup InFlight]
        /\ id' \in [Callers -> Nat]
    BY <1>b DEF TypeOK
  <2>2. pending' \subseteq Ids'
    <3>1. pending' = pending \cup {Len(waiters) + 1} /\ pending \subseteq Ids
      BY DEF TypeOK
    <3>2. Ids' = 1..(Len(waiters) + 1)
      BY <1>b
    <3>3. \A i \in 1..Len(waiters) : i \in 1..(Len(waiters) + 1)
      BY <1>w
    <3>4. Len(waiters) + 1 \in 1..(Len(waiters) + 1)
      BY <1>w
    <3>5. pending \subseteq 1..Len(waiters)
      BY <3>1
    <3> HIDE DEF Send, Ids, AdmissionInv
    <3> QED
      BY <3>1, <3>2, <3>3, <3>4, <3>5
  <2> QED
    BY <1>b, <2>1, <2>2 DEF TypeOK
<1>2. NoWaiterLeak'
  BY <1>w, <1>a, <1>b DEF TypeOK, NoWaiterLeak, PendingIsOpen, OwnIds
<1>3. PendingIsOpen'
  <2>1. pending' = pending \cup {Len(waiters) + 1} /\ pending \subseteq Ids
    BY DEF TypeOK
  <2>2. PendingIsOpen
    OBVIOUS
  <2> HIDE DEF Send, AdmissionInv
  <2>3. ASSUME NEW i \in pending' PROVE waiters'[i].slot = "open"
    <3>1. CASE i \in pending
      BY <3>1, <1>b, <2>1, <2>2 DEF PendingIsOpen
    <3>2. CASE i = Len(waiters) + 1
      BY <3>2, <1>b
    <3> QED
      BY <2>1, <2>3, <3>1, <3>2
  <2> QED
    BY <2>3 DEF PendingIsOpen
<1>4. OwnIds'
  BY <1>w, <1>a, <1>b DEF TypeOK, OwnIds
<1>5. OldIdsRefused'
  BY <1>w, <1>a, <1>b DEF TypeOK, OldIdsRefused, OwnIds
<1>6. UnwrittenIsFresh'
  BY <1>w, <1>a, <1>b DEF TypeOK, UnwrittenIsFresh, Fresh, OwnIds, HostSets, CommandsInPipe
<1>7. HostSets'
  BY <1>w, <1>a, <1>b DEF TypeOK, HostSets, CommandsInPipe
<1>8. CommandsInPipe'
  BY <1>w, <1>a, <1>b DEF TypeOK, CommandsInPipe, HostSets, UnwrittenIsFresh, Fresh, OwnIds
<1>9. RefusalsAreTrue'
  BY <1>w, <1>a, <1>b DEF TypeOK, RefusalsAreTrue, Refusal
<1>10. /\ ReaderState'
      /\ AckHead'
  BY DEF ReaderState, AckHead
<1> QED
  BY <1>1, <1>2, <1>3, <1>4, <1>5, <1>6, <1>7, <1>8, <1>9, <1>10

(* So does taking the writer lock ...                                       *)
LEMMA LockAdmission ==
  ASSUME AdmissionInv, NEW c \in Callers, Lock(c)
  PROVE  AdmissionInv'
<1> USE ConnectionAssumption DEF AdmissionInv, Lock, Unlock, Unregister, callerVars, connVars, hostVars, Ids, InFlight, NoOne, Answers, LocalErrors
<1>w. /\ waiters \in Seq(Waiter) /\ Len(waiters) \in Nat
      /\ \A i \in Ids : waiters[i] \in Waiter /\ waiters[i].caller \in Callers
  BY WaiterFacts
<1>1. TypeOK'
  BY <1>w DEF TypeOK
<1>2. NoWaiterLeak'
  BY <1>w DEF TypeOK, NoWaiterLeak, PendingIsOpen, OwnIds
<1>3. OwnIds'
  BY <1>w DEF TypeOK, OwnIds
<1>4. UnwrittenIsFresh'
  BY <1>w DEF TypeOK, UnwrittenIsFresh, Fresh, OwnIds, HostSets, CommandsInPipe
<1>5. /\ PendingIsOpen'
      /\ OldIdsRefused'
      /\ HostSets'
      /\ CommandsInPipe'
      /\ RefusalsAreTrue'
      /\ ReaderState'
      /\ AckHead'
  BY DEF PendingIsOpen, OldIdsRefused, HostSets, CommandsInPipe, RefusalsAreTrue, ReaderState, AckHead
<1> QED
  BY <1>1, <1>2, <1>3, <1>4, <1>5

(* ... and writing the frame: no other command frame carries its id.        *)
LEMMA WriteAdmission ==
  ASSUME AdmissionInv, NEW c \in Callers, Write(c)
  PROVE  AdmissionInv'
<1> USE ConnectionAssumption DEF AdmissionInv, Write, Unlock, Unregister, callerVars, connVars, hostVars, Ids, InFlight, NoOne, Answers, LocalErrors
<1>w. /\ waiters \in Seq(Waiter) /\ Len(waiters) \in Nat
      /\ \A i \in Ids : waiters[i] \in Waiter /\ waiters[i].caller \in Callers
  BY WaiterFacts
<1>a. OnWire([kind |-> "command", id |-> id[c]]) \in Frame
  BY DEF TypeOK, OnWire, Frame
<1>b. /\ toHost' = Append(toHost, OnWire([kind |-> "command", id |-> id[c]]))
      /\ toHost \in Seq(Frame)
  BY DEF TypeOK
<1>c. /\ toHost' \in Seq(Frame)
      /\ Len(toHost) \in Nat
      /\ Len(toHost') = Len(toHost) + 1
      /\ \A i \in 1..Len(toHost) : toHost'[i] = toHost[i]
      /\ toHost'[Len(toHost) + 1].kind = "command" => toHost'[Len(toHost) + 1].id = id[c]
  BY <1>a, <1>b, AppendProperties, LenProperties DEF OnWire
<1>1. TypeOK'
  BY <1>w, <1>a, <1>b, <1>c DEF TypeOK
<1>2. NoWaiterLeak'
  BY <1>w, <1>a, <1>b, <1>c DEF TypeOK, NoWaiterLeak, PendingIsOpen, OwnIds
<1>3. OwnIds'
  BY <1>w, <1>a, <1>b, <1>c DEF TypeOK, OwnIds
<1>4. UnwrittenIsFresh'
  <2> SUFFICES ASSUME NEW d \in Callers, pc'[d] \in {"locking", "writing"}
               PROVE  Fresh(id[d])'
    BY DEF UnwrittenIsFresh
  <2>1. d # c /\ pc[d] \in {"locking", "writing"}
    BY DEF TypeOK
  <2>2. id[d] # id[c] /\ Fresh(id[d])
    BY <2>1 DEF OwnIds, UnwrittenIsFresh
  <2>3. UNCHANGED <<id, held, admitted, refused>>
    OBVIOUS
  <2> HIDE DEF Write
  <2> QED
    BY <1>c, <2>2, <2>3 DEF Fresh
<1>5. CommandsInPipe'
  <2>1. id[c] \in Ids /\ Fresh(id[c])
    BY DEF OwnIds, UnwrittenIsFresh
  <2>2. UNCHANGED <<id, waiters, held, admitted, refused>>
    OBVIOUS
  <2>3. CommandsInPipe /\ Ids' = Ids
    BY <2>2
  <2> HIDE DEF Write, AdmissionInv, Ids
  <2>4. \A k \in 1..Len(toHost') : toHost'[k].kind = "command" =>
          toHost'[k].id \in Ids \ (held \cup admitted \cup refused)
    BY <1>c, <2>1, <2>3 DEF CommandsInPipe, Fresh
  <2>5. ASSUME NEW k \in 1..Len(toHost'), NEW l \in 1..Len(toHost'),
               toHost'[k].kind = "command", toHost'[l].kind = "command",
               toHost'[k].id = toHost'[l].id
        PROVE  k = l
    <3>1. CASE k \in 1..Len(toHost) /\ l \in 1..Len(toHost)
      BY <3>1, <1>c, <2>3, <2>5 DEF CommandsInPipe
    <3>2. CASE k = Len(toHost) + 1 \/ l = Len(toHost) + 1
      BY <3>2, <1>c, <2>1, <2>5 DEF Fresh
    <3> QED
      BY <1>c, <2>5, <3>1, <3>2
  <2> QED
    BY <2>2, <2>3, <2>4, <2>5 DEF CommandsInPipe
<1>6. /\ PendingIsOpen'
      /\ OldIdsRefused'
      /\ HostSets'
      /\ RefusalsAreTrue'
      /\ ReaderState'
      /\ AckHead'
  BY DEF PendingIsOpen, OldIdsRefused, HostSets, RefusalsAreTrue, ReaderState, AckHead
<1> QED
  BY <1>1, <1>2, <1>3, <1>4, <1>5, <1>6

(* A failed write takes its own waiter out.                                 *)
LEMMA WriteFailsAdmission ==
  ASSUME AdmissionInv, NEW c \in Callers, WriteFails(c)
  PROVE  AdmissionInv'
<1> USE ConnectionAssumption DEF AdmissionInv, WriteFails, Unlock, Unregister, callerVars, connVars, hostVars, Ids, InFlight, NoOne, Answers, LocalErrors, WriteError
<1>w. /\ waiters \in Seq(Waiter) /\ Len(waiters) \in Nat
      /\ \A i \in Ids : waiters[i] \in Waiter /\ waiters[i].caller \in Callers
  BY WaiterFacts
<1>1. TypeOK'
  BY <1>w DEF TypeOK
<1>2. NoWaiterLeak'
  BY <1>w DEF TypeOK, NoWaiterLeak, PendingIsOpen, OwnIds
<1>3. PendingIsOpen'
  BY <1>w DEF TypeOK, PendingIsOpen
<1>4. OwnIds'
  BY <1>w DEF TypeOK, OwnIds
<1>5. UnwrittenIsFresh'
  BY <1>w DEF TypeOK, UnwrittenIsFresh, Fresh, OwnIds, HostSets, CommandsInPipe
<1>6. /\ OldIdsRefused'
      /\ HostSets'
      /\ CommandsInPipe'
      /\ RefusalsAreTrue'
      /\ ReaderState'
      /\ AckHead'
  BY DEF OldIdsRefused, HostSets, CommandsInPipe, RefusalsAreTrue, ReaderState, AckHead
<1> QED
  BY <1>1, <1>2, <1>3, <1>4, <1>5, <1>6

(* An attempt is retried only after a refusal, so the id it gives up was    *)
(* refused.                                                                 *)
LEMMA ReceiveAdmission ==
  ASSUME AdmissionInv, NEW c \in Callers, Receive(c)
  PROVE  AdmissionInv'
<1> USE ConnectionAssumption DEF AdmissionInv, Receive, Unlock, Unregister, callerVars, connVars, hostVars, Ids, InFlight, NoOne, Answers, LocalErrors, Retryable
<1>w. /\ waiters \in Seq(Waiter) /\ Len(waiters) \in Nat
      /\ \A i \in Ids : waiters[i] \in Waiter /\ waiters[i].caller \in Callers
  BY WaiterFacts
<1>a. id[c] \in Ids /\ waiters[id[c]].slot \in Answers
  BY DEF OwnIds
<1>b. waiters[id[c]].slot \in Refusal => id[c] \in refused
  BY <1>a DEF RefusalsAreTrue
<1>c. \/ /\ waiters[id[c]].slot = "backpressure"
         /\ pc' = [pc EXCEPT ![c] = "backoff"]
         /\ retries' = [retries EXCEPT ![c] = retries[c] + 1]
         /\ UNCHANGED outcome
      \/ /\ pc' = [pc EXCEPT ![c] = "done"]
         /\ outcome' = [outcome EXCEPT ![c] = waiters[id[c]].slot]
         /\ UNCHANGED retries
  OBVIOUS
<1>d. UNCHANGED <<large, id, connVars, toHost, fromHost, hostVars>> /\ pc[c] = "waiting"
  OBVIOUS
<1> HIDE DEF Receive
<1>1. TypeOK'
  <2>1. pc' \in [Callers -> {"idle", "backoff", "done", "dropped"} \cup InFlight]
    BY <1>c DEF TypeOK
  <2>2. retries' \in [Callers -> Nat]
    <3>1. retries \in [Callers -> Nat] /\ retries[c] + 1 \in Nat
      BY DEF TypeOK
    <3> QED
      BY <1>c, <3>1
  <2>3. outcome' \in [Callers -> {"none"} \cup Answers \cup LocalErrors]
    BY <1>a, <1>c DEF TypeOK
  <2> QED
    BY <1>d, <2>1, <2>2, <2>3 DEF TypeOK
<1>2. NoWaiterLeak'
  <2>1. CASE pc' = [pc EXCEPT ![c] = "backoff"] /\ waiters[id[c]].slot = "backpressure"
    BY <1>a, <1>b, <1>d, <2>1 DEF TypeOK, NoWaiterLeak, PendingIsOpen
  <2>2. CASE pc' = [pc EXCEPT ![c] = "done"]
    BY <1>a, <1>b, <1>d, <2>2 DEF TypeOK, NoWaiterLeak, PendingIsOpen
  <2> QED
    BY <1>c, <2>1, <2>2
<1>3. OwnIds'
  <2>1. CASE pc' = [pc EXCEPT ![c] = "backoff"] /\ waiters[id[c]].slot = "backpressure"
    BY <1>a, <1>b, <1>d, <2>1 DEF TypeOK, OwnIds, Refusal
  <2>2. CASE pc' = [pc EXCEPT ![c] = "done"]
    BY <1>a, <1>b, <1>d, <2>2 DEF TypeOK, OwnIds, Refusal
  <2> QED
    BY <1>c, <2>1, <2>2
<1>4. UnwrittenIsFresh'
  <2>1. CASE pc' = [pc EXCEPT ![c] = "backoff"] /\ waiters[id[c]].slot = "backpressure"
    BY <1>a, <1>b, <1>d, <2>1 DEF TypeOK, UnwrittenIsFresh, Fresh
  <2>2. CASE pc' = [pc EXCEPT ![c] = "done"]
    BY <1>a, <1>b, <1>d, <2>2 DEF TypeOK, UnwrittenIsFresh, Fresh
  <2> QED
    BY <1>c, <2>1, <2>2
<1>5. /\ PendingIsOpen'
      /\ OldIdsRefused'
      /\ HostSets'
      /\ CommandsInPipe'
      /\ RefusalsAreTrue'
      /\ ReaderState'
      /\ AckHead'
  BY <1>d DEF PendingIsOpen, OldIdsRefused, HostSets, CommandsInPipe, RefusalsAreTrue, ReaderState, AckHead
<1> QED
  BY <1>1, <1>2, <1>3, <1>4, <1>5

(* A dropped oneshot ends the command without a retry ...                   *)
LEMMA DisconnectedAdmission ==
  ASSUME AdmissionInv, NEW c \in Callers, Disconnected(c)
  PROVE  AdmissionInv'
<1> USE ConnectionAssumption DEF AdmissionInv, Disconnected, Unlock, Unregister, callerVars, connVars, hostVars, Ids, InFlight, NoOne, Answers, LocalErrors
<1>w. /\ waiters \in Seq(Waiter) /\ Len(waiters) \in Nat
      /\ \A i \in Ids : waiters[i] \in Waiter /\ waiters[i].caller \in Callers
  BY WaiterFacts
<1>1. TypeOK'
  BY <1>w DEF TypeOK
<1>2. NoWaiterLeak'
  BY <1>w DEF TypeOK, NoWaiterLeak, PendingIsOpen, OwnIds
<1>3. OwnIds'
  BY <1>w DEF TypeOK, OwnIds
<1>4. UnwrittenIsFresh'
  BY <1>w DEF TypeOK, UnwrittenIsFresh, Fresh, OwnIds, HostSets, CommandsInPipe
<1>5. /\ PendingIsOpen'
      /\ OldIdsRefused'
      /\ HostSets'
      /\ CommandsInPipe'
      /\ RefusalsAreTrue'
      /\ ReaderState'
      /\ AckHead'
  BY DEF PendingIsOpen, OldIdsRefused, HostSets, CommandsInPipe, RefusalsAreTrue, ReaderState, AckHead
<1> QED
  BY <1>1, <1>2, <1>3, <1>4, <1>5

(* ... and so does a timeout, which takes its own waiter out.               *)
LEMMA TimeoutAdmission ==
  ASSUME AdmissionInv, NEW c \in Callers, Timeout(c)
  PROVE  AdmissionInv'
<1> USE ConnectionAssumption DEF AdmissionInv, Timeout, Unlock, Unregister, callerVars, connVars, hostVars, Ids, InFlight, NoOne, Answers, LocalErrors
<1>w. /\ waiters \in Seq(Waiter) /\ Len(waiters) \in Nat
      /\ \A i \in Ids : waiters[i] \in Waiter /\ waiters[i].caller \in Callers
  BY WaiterFacts
<1>1. TypeOK'
  BY <1>w DEF TypeOK
<1>2. NoWaiterLeak'
  BY <1>w DEF TypeOK, NoWaiterLeak, PendingIsOpen, OwnIds
<1>3. PendingIsOpen'
  BY <1>w DEF TypeOK, PendingIsOpen
<1>4. OwnIds'
  BY <1>w DEF TypeOK, OwnIds
<1>5. UnwrittenIsFresh'
  BY <1>w DEF TypeOK, UnwrittenIsFresh, Fresh, OwnIds, HostSets, CommandsInPipe
<1>6. /\ OldIdsRefused'
      /\ HostSets'
      /\ CommandsInPipe'
      /\ RefusalsAreTrue'
      /\ ReaderState'
      /\ AckHead'
  BY DEF OldIdsRefused, HostSets, CommandsInPipe, RefusalsAreTrue, ReaderState, AckHead
<1> QED
  BY <1>1, <1>2, <1>3, <1>4, <1>5, <1>6

(* A dropped handler leaves its waiter behind, unanswered.                  *)
LEMMA AbandonAdmission ==
  ASSUME AdmissionInv, NEW c \in Callers, Abandon(c)
  PROVE  AdmissionInv'
<1> USE ConnectionAssumption DEF AdmissionInv, Abandon, Unlock, Unregister, callerVars, connVars, hostVars, Ids, InFlight, NoOne, Answers, LocalErrors
<1>w. /\ waiters \in Seq(Waiter) /\ Len(waiters) \in Nat
      /\ \A i \in Ids : waiters[i] \in Waiter /\ waiters[i].caller \in Callers
  BY WaiterFacts
<1>1. TypeOK'
  BY <1>w DEF TypeOK
<1>2. NoWaiterLeak'
  BY <1>w DEF TypeOK, NoWaiterLeak, PendingIsOpen, OwnIds
<1>3. OwnIds'
  BY <1>w DEF TypeOK, OwnIds
<1>4. UnwrittenIsFresh'
  BY <1>w DEF TypeOK, UnwrittenIsFresh, Fresh, OwnIds, HostSets, CommandsInPipe
<1>5. /\ PendingIsOpen'
      /\ OldIdsRefused'
      /\ HostSets'
      /\ CommandsInPipe'
      /\ RefusalsAreTrue'
      /\ ReaderState'
      /\ AckHead'
  BY DEF PendingIsOpen, OldIdsRefused, HostSets, CommandsInPipe, RefusalsAreTrue, ReaderState, AckHead
<1> QED
  BY <1>1, <1>2, <1>3, <1>4, <1>5

(* Shutdown takes the pipe without touching commands.                       *)
LEMMA TakeStdinAdmission ==
  ASSUME AdmissionInv, TakeStdin
  PROVE  AdmissionInv'
<1> USE ConnectionAssumption DEF AdmissionInv, TakeStdin, Unlock, Unregister, callerVars, connVars, hostVars, Ids, InFlight, NoOne, Answers, LocalErrors
<1>w. /\ waiters \in Seq(Waiter) /\ Len(waiters) \in Nat
      /\ \A i \in Ids : waiters[i] \in Waiter /\ waiters[i].caller \in Callers
  BY WaiterFacts
<1>1. TypeOK'
  BY <1>w DEF TypeOK
<1>2. /\ NoWaiterLeak'
      /\ PendingIsOpen'
      /\ OwnIds'
      /\ OldIdsRefused'
      /\ UnwrittenIsFresh'
      /\ HostSets'
      /\ CommandsInPipe'
      /\ RefusalsAreTrue'
      /\ ReaderState'
      /\ AckHead'
  BY DEF NoWaiterLeak, PendingIsOpen, OwnIds, OldIdsRefused, UnwrittenIsFresh, HostSets, CommandsInPipe, RefusalsAreTrue, ReaderState, AckHead, Fresh
<1> QED
  BY <1>1, <1>2

(* The reader resolves and removes the waiter of the answered id, no other. *)
LEMMA RouteAnswerAdmission ==
  ASSUME AdmissionInv, RouteAnswer
  PROVE  AdmissionInv'
<1> USE ConnectionAssumption DEF AdmissionInv, RouteAnswer, Unlock, Unregister, callerVars, connVars, hostVars, Ids, InFlight, NoOne, Answers, LocalErrors, SlotFor
<1>w. /\ waiters \in Seq(Waiter) /\ Len(waiters) \in Nat
      /\ \A i \in Ids : waiters[i] \in Waiter /\ waiters[i].caller \in Callers
  BY WaiterFacts
<1>a. /\ fromHost \in Seq(HostFrame) /\ fromHost # <<>>
  BY DEF TypeOK, AckHead
<1>b. /\ fromHost' \in Seq(HostFrame)
      /\ Head(fromHost) \in HostFrame
      /\ Len(fromHost) \in Nat \ {0}
      /\ Head(fromHost) = fromHost[1]
      /\ Len(fromHost') = Len(fromHost) - 1
      /\ \A i \in 1..Len(fromHost') : fromHost'[i] = fromHost[i + 1]
  BY <1>a, HeadTailProperties, LenProperties
<1>c. Head(fromHost).kind \in {"result", "error", "backpressure", "declined", "invalid"}
  BY <1>b DEF HostFrame
<1>d. /\ waiters' \in Seq(Waiter) /\ Len(waiters') = Len(waiters)
      /\ \A i \in Ids : waiters'[i] =
           IF i = Head(fromHost).id /\ i \in pending
           THEN [waiters[i] EXCEPT !.slot = SlotFor(Head(fromHost))] ELSE waiters[i]
  <2>1. waiters \in Seq(Waiter) /\ pending \subseteq 1..Len(waiters)
    BY DEF TypeOK
  <2>2. CASE Head(fromHost).id \in pending
    <3>1. waiters' = [waiters EXCEPT ![Head(fromHost).id] =
                        [@ EXCEPT !.slot = SlotFor(Head(fromHost))]]
      BY <2>2
    <3>2. \A i \in Ids : waiters[i] \in Waiter
      BY <2>1, ElementOfSeq DEF Ids
    <3>a. waiters[Head(fromHost).id] \in Waiter
      BY <2>1, <2>2, <3>2
    <3>b. SlotFor(Head(fromHost)) \in Answers
      BY <1>c DEF SlotFor, Answers
    <3>3. [waiters[Head(fromHost).id] EXCEPT !.slot = SlotFor(Head(fromHost))] \in Waiter
      <4> HIDE DEF RouteAnswer, AdmissionInv, SlotFor
      <4> QED
        BY <3>a, <3>b DEF Waiter
    <3>4. Head(fromHost).id \in 1..Len(waiters)
      BY <2>1, <2>2
    <3> DEFINE h == Head(fromHost).id
               new == [waiters[h] EXCEPT !.slot = SlotFor(Head(fromHost))]
    <3>5. new \in Waiter /\ h \in 1..Len(waiters) /\ waiters' = [waiters EXCEPT ![h] = new]
      BY <3>1, <3>3, <3>4
    <3> HIDE DEF RouteAnswer, AdmissionInv, h, new
    <3>6. /\ waiters' \in Seq(Waiter) /\ Len(waiters') = Len(waiters)
          /\ \A i \in 1..Len(waiters) : waiters'[i] = IF i = h THEN new ELSE waiters[i]
      BY <2>1, <3>5, ExceptSeq
    <3> QED
      BY <2>2, <3>6 DEF h, new
  <2>3. CASE Head(fromHost).id \notin pending
    BY <2>1, <2>3
  <2> QED
    BY <2>2, <2>3
<1>e. /\ \A i \in Ids : waiters[i] \in Waiter
      /\ \A i \in Ids : waiters'[i].caller = waiters[i].caller
      /\ \A i \in Ids : waiters'[i].slot \in Refusal /\ waiters'[i] # waiters[i] =>
           /\ Head(fromHost).kind \in Refusal /\ Head(fromHost).id = i
  <2>1. \A i \in Ids : waiters[i] \in Waiter
    BY ElementOfSeq DEF TypeOK
  <2> HIDE DEF RouteAnswer, AdmissionInv, Ids
  <2> QED
    BY <2>1, <1>d DEF Waiter, SlotFor, Refusal
<1>1. TypeOK'
  <2>1. /\ pending' \subseteq pending /\ Ids' = Ids
        /\ UNCHANGED <<callerVars, writer, stdin, torn, reader, state, events, toHost, hostVars>>
    BY <1>d
  <2> HIDE DEF RouteAnswer
  <2> QED
    BY <1>b, <1>d, <2>1 DEF TypeOK
<1>2. NoWaiterLeak'
  <2>1. pending' \subseteq pending /\ UNCHANGED <<pc, id>>
    OBVIOUS
  <2> HIDE DEF RouteAnswer
  <2> QED
    BY <1>e, <2>1 DEF TypeOK, NoWaiterLeak
<1>3. PendingIsOpen'
  BY <1>w, <1>a, <1>b, <1>c, <1>d, <1>e DEF TypeOK, PendingIsOpen
<1>4. OwnIds'
  <2>1. UNCHANGED <<pc, id, refused>>
    OBVIOUS
  <2> HIDE DEF RouteAnswer
  <2> QED
    BY <1>d, <1>e, <2>1 DEF OwnIds
<1>5. OldIdsRefused'
  BY <1>w, <1>a, <1>b, <1>c, <1>d, <1>e DEF TypeOK, OldIdsRefused, OwnIds
<1>6. HostSets'
  BY <1>w, <1>a, <1>b, <1>c, <1>d, <1>e DEF TypeOK, HostSets, CommandsInPipe
<1>7. CommandsInPipe'
  BY <1>w, <1>a, <1>b, <1>c, <1>d, <1>e DEF TypeOK, CommandsInPipe, HostSets, UnwrittenIsFresh, Fresh, OwnIds
<1>8. RefusalsAreTrue'
  <2>1. UNCHANGED refused
    OBVIOUS
  <2>2. Head(fromHost).kind \in Refusal => Head(fromHost).id \in refused
    BY <1>b DEF RefusalsAreTrue
  <2> HIDE DEF RouteAnswer
  <2>3. \A i \in Ids' : waiters'[i].slot \in Refusal => i \in refused
    BY <1>d, <1>e, <2>2 DEF RefusalsAreTrue
  <2>4. \A k \in 1..Len(fromHost') : fromHost'[k].kind \in Refusal => fromHost'[k].id \in refused
    BY <1>b DEF RefusalsAreTrue
  <2> QED
    BY <2>1, <2>3, <2>4 DEF RefusalsAreTrue
<1>9. AckHead'
  BY <1>w, <1>a, <1>b, <1>c, <1>d, <1>e DEF TypeOK, AckHead
<1>10. /\ UnwrittenIsFresh'
      /\ ReaderState'
  BY DEF UnwrittenIsFresh, ReaderState, Fresh
<1> QED
  BY <1>1, <1>2, <1>3, <1>4, <1>5, <1>6, <1>7, <1>8, <1>9, <1>10

(* A request from the host occupies the reader ...                          *)
LEMMA RouteAskAdmission ==
  ASSUME AdmissionInv, RouteAsk
  PROVE  AdmissionInv'
<1> USE ConnectionAssumption DEF AdmissionInv, RouteAsk, Unlock, Unregister, callerVars, connVars, hostVars, Ids, InFlight, NoOne, Answers, LocalErrors
<1>w. /\ waiters \in Seq(Waiter) /\ Len(waiters) \in Nat
      /\ \A i \in Ids : waiters[i] \in Waiter /\ waiters[i].caller \in Callers
  BY WaiterFacts
<1>1. TypeOK'
  BY <1>w DEF TypeOK
<1>2. ReaderState'
  BY <1>w DEF TypeOK, ReaderState
<1>3. AckHead'
  BY <1>w DEF TypeOK, AckHead
<1>4. /\ NoWaiterLeak'
      /\ PendingIsOpen'
      /\ OwnIds'
      /\ OldIdsRefused'
      /\ UnwrittenIsFresh'
      /\ HostSets'
      /\ CommandsInPipe'
      /\ RefusalsAreTrue'
  BY DEF NoWaiterLeak, PendingIsOpen, OwnIds, OldIdsRefused, UnwrittenIsFresh, HostSets, CommandsInPipe, RefusalsAreTrue, Fresh
<1> QED
  BY <1>1, <1>2, <1>3, <1>4

(* ... whose receipt is not a command.                                      *)
LEMMA AckAdmission ==
  ASSUME AdmissionInv, Ack
  PROVE  AdmissionInv'
<1> USE ConnectionAssumption DEF AdmissionInv, Ack, Unlock, Unregister, callerVars, connVars, hostVars, Ids, InFlight, NoOne, Answers, LocalErrors, OnWire
<1>w. /\ waiters \in Seq(Waiter) /\ Len(waiters) \in Nat
      /\ \A i \in Ids : waiters[i] \in Waiter /\ waiters[i].caller \in Callers
  BY WaiterFacts
<1>a. /\ fromHost \in Seq(HostFrame) /\ fromHost # <<>>
  BY DEF TypeOK, AckHead
<1>b. /\ fromHost' \in Seq(HostFrame)
      /\ Head(fromHost) \in HostFrame
      /\ Len(fromHost) \in Nat \ {0}
      /\ Head(fromHost) = fromHost[1]
      /\ Len(fromHost') = Len(fromHost) - 1
      /\ \A i \in 1..Len(fromHost') : fromHost'[i] = fromHost[i + 1]
  BY <1>a, HeadTailProperties, LenProperties
<1>c. Head(fromHost).kind = "ask" /\ Head(fromHost) \in [kind : {"ask"}, id : Nat, known : BOOLEAN]
  BY <1>b DEF AckHead, HostFrame
<1>d. events' \in Seq(Nat)
  BY <1>c, AppendProperties DEF TypeOK
<1>e. /\ toHost' \in Seq(Frame)
      /\ Len(toHost) \in Nat
      /\ Len(toHost') \in {Len(toHost), Len(toHost) + 1}
      /\ \A i \in 1..Len(toHost) : toHost'[i] = toHost[i]
      /\ \A i \in 1..Len(toHost') : toHost'[i].kind = "command" => i \in 1..Len(toHost)
  <2> DEFINE reply == IF Head(fromHost).known THEN "receipt" ELSE "methodNotFound"
             frame == OnWire([kind |-> reply, id |-> Head(fromHost).id])
  <2>1. frame \in Frame /\ frame.kind # "command"
    BY <1>c DEF OnWire, Frame
  <2>2. toHost' = Append(toHost, frame) \/ toHost' = toHost
    OBVIOUS
  <2>3. toHost \in Seq(Frame) /\ Len(toHost) \in Nat
    BY LenProperties DEF TypeOK
  <2>4. CASE toHost' = Append(toHost, frame)
    <3>1. /\ toHost' \in Seq(Frame)
          /\ Len(toHost') = Len(toHost) + 1
          /\ \A i \in 1..Len(toHost) : toHost'[i] = toHost[i]
          /\ toHost'[Len(toHost) + 1] = frame
      BY <2>1, <2>3, <2>4, AppendProperties
    <3> HIDE DEF frame
    <3> QED
      BY <2>1, <2>3, <3>1
  <2>5. CASE toHost' = toHost
    BY <2>3, <2>5
  <2> QED
    BY <2>2, <2>4, <2>5
<1>1. TypeOK'
  BY <1>w, <1>a, <1>b, <1>c, <1>d, <1>e DEF TypeOK
<1>2. UnwrittenIsFresh'
  <2>1. UNCHANGED <<pc, id, waiters, held, admitted, refused>>
    OBVIOUS
  <2> HIDE DEF Ack
  <2> QED
    BY <1>e, <2>1 DEF UnwrittenIsFresh, Fresh
<1>3. CommandsInPipe'
  <2>1. UNCHANGED <<pc, id, waiters, held, admitted, refused>>
    OBVIOUS
  <2> HIDE DEF Ack
  <2> QED
    BY <1>e, <2>1 DEF CommandsInPipe, Fresh
<1>4. RefusalsAreTrue'
  BY <1>w, <1>a, <1>b, <1>c, <1>d, <1>e DEF TypeOK, RefusalsAreTrue, Refusal
<1>5. ReaderState'
  BY <1>w, <1>a, <1>b, <1>c, <1>d, <1>e DEF TypeOK, ReaderState
<1>6. AckHead'
  BY <1>w, <1>a, <1>b, <1>c, <1>d, <1>e DEF TypeOK, AckHead
<1>7. /\ NoWaiterLeak'
      /\ PendingIsOpen'
      /\ OwnIds'
      /\ OldIdsRefused'
      /\ HostSets'
  BY DEF NoWaiterLeak, PendingIsOpen, OwnIds, OldIdsRefused, HostSets
<1> QED
  BY <1>1, <1>2, <1>3, <1>4, <1>5, <1>6, <1>7

(* Death is published before the waiters are failed.                        *)
LEMMA EofAdmission ==
  ASSUME AdmissionInv, Eof
  PROVE  AdmissionInv'
<1> USE ConnectionAssumption DEF AdmissionInv, Eof, Unlock, Unregister, callerVars, connVars, hostVars, Ids, InFlight, NoOne, Answers, LocalErrors
<1>w. /\ waiters \in Seq(Waiter) /\ Len(waiters) \in Nat
      /\ \A i \in Ids : waiters[i] \in Waiter /\ waiters[i].caller \in Callers
  BY WaiterFacts
<1>1. TypeOK'
  BY <1>w DEF TypeOK
<1>2. ReaderState'
  BY <1>w DEF TypeOK, ReaderState
<1>3. AckHead'
  BY <1>w DEF TypeOK, AckHead
<1>4. /\ NoWaiterLeak'
      /\ PendingIsOpen'
      /\ OwnIds'
      /\ OldIdsRefused'
      /\ UnwrittenIsFresh'
      /\ HostSets'
      /\ CommandsInPipe'
      /\ RefusalsAreTrue'
  BY DEF NoWaiterLeak, PendingIsOpen, OwnIds, OldIdsRefused, UnwrittenIsFresh, HostSets, CommandsInPipe, RefusalsAreTrue, Fresh
<1> QED
  BY <1>1, <1>2, <1>3, <1>4

(* Failing the waiters resolves none with an answer.                        *)
LEMMA FailWaitersAdmission ==
  ASSUME AdmissionInv, FailWaiters
  PROVE  AdmissionInv'
<1> USE ConnectionAssumption DEF AdmissionInv, FailWaiters, Unlock, Unregister, callerVars, connVars, hostVars, Ids, InFlight, NoOne, Answers, LocalErrors
<1>w. /\ waiters \in Seq(Waiter) /\ Len(waiters) \in Nat
      /\ \A i \in Ids : waiters[i] \in Waiter /\ waiters[i].caller \in Callers
  BY WaiterFacts
<1>a. /\ waiters \in Seq(Waiter) /\ Len(waiters) \in Nat
      /\ \A i \in Ids : waiters[i] \in Waiter
  BY ElementOfSeq, LenProperties DEF TypeOK
<1>b. waiters' \in [1..Len(waiters) -> Waiter]
  BY <1>a DEF Waiter
<1>c. waiters' \in Seq(Waiter) /\ Len(waiters') = Len(waiters)
  BY <1>a, <1>b
<1>d. /\ \A i \in Ids : waiters'[i].caller = waiters[i].caller
      /\ \A i \in Ids : waiters'[i].slot \in Refusal => waiters[i].slot \in Refusal
  BY <1>a DEF Waiter, Refusal
<1>1. TypeOK'
  BY <1>w, <1>a, <1>b, <1>c, <1>d DEF TypeOK
<1>2. NoWaiterLeak'
  BY <1>w, <1>a, <1>b, <1>c, <1>d DEF TypeOK, NoWaiterLeak, PendingIsOpen, OwnIds
<1>3. PendingIsOpen'
  BY <1>w, <1>a, <1>b, <1>c, <1>d DEF TypeOK, PendingIsOpen
<1>4. OwnIds'
  BY <1>w, <1>a, <1>b, <1>c, <1>d DEF TypeOK, OwnIds
<1>5. OldIdsRefused'
  BY <1>w, <1>a, <1>b, <1>c, <1>d DEF TypeOK, OldIdsRefused, OwnIds
<1>6. HostSets'
  BY <1>w, <1>a, <1>b, <1>c, <1>d DEF TypeOK, HostSets, CommandsInPipe
<1>7. CommandsInPipe'
  BY <1>w, <1>a, <1>b, <1>c, <1>d DEF TypeOK, CommandsInPipe, HostSets, UnwrittenIsFresh, Fresh, OwnIds
<1>8. RefusalsAreTrue'
  BY <1>w, <1>a, <1>b, <1>c, <1>d DEF TypeOK, RefusalsAreTrue, Refusal
<1>9. ReaderState'
  BY <1>w, <1>a, <1>b, <1>c, <1>d DEF TypeOK, ReaderState
<1>10. AckHead'
  BY <1>w, <1>a, <1>b, <1>c, <1>d DEF TypeOK, AckHead
<1>11. /\ UnwrittenIsFresh'
  BY DEF UnwrittenIsFresh, Fresh
<1> QED
  BY <1>1, <1>2, <1>3, <1>4, <1>5, <1>6, <1>7, <1>8, <1>9, <1>10, <1>11

(* The host reads each command once.                                        *)
LEMMA HostReadAdmission ==
  ASSUME AdmissionInv, HostRead
  PROVE  AdmissionInv'
<1> USE ConnectionAssumption DEF AdmissionInv, HostRead, Unlock, Unregister, callerVars, connVars, hostVars, Ids, InFlight, NoOne, Answers, LocalErrors
<1>w. /\ waiters \in Seq(Waiter) /\ Len(waiters) \in Nat
      /\ \A i \in Ids : waiters[i] \in Waiter /\ waiters[i].caller \in Callers
  BY WaiterFacts
<1>a. toHost \in Seq(Frame) /\ toHost # <<>>
  BY DEF TypeOK
<1>b. /\ toHost' \in Seq(Frame)
      /\ Head(toHost) \in Frame
      /\ Len(toHost) \in Nat \ {0}
      /\ Head(toHost) = toHost[1]
      /\ Len(toHost') = Len(toHost) - 1
      /\ \A i \in 1..Len(toHost') : toHost'[i] = toHost[i + 1]
  BY <1>a, HeadTailProperties, LenProperties
<1>c. Head(toHost).kind = "command" =>
        /\ Head(toHost).id \in Ids \ (held \cup admitted \cup refused)
        /\ \A k \in 2..Len(toHost) : toHost[k].kind = "command" => toHost[k].id # Head(toHost).id
  BY <1>b DEF CommandsInPipe
<1>1. TypeOK'
  <2>1. held' \subseteq Nat
    BY <1>b DEF Frame, TypeOK
  <2> QED
    BY <1>b, <2>1 DEF TypeOK
<1>2. UnwrittenIsFresh'
  BY <1>w, <1>a, <1>b, <1>c DEF TypeOK, UnwrittenIsFresh, Fresh, OwnIds, HostSets, CommandsInPipe
<1>3. HostSets'
  <2>1. UNCHANGED <<waiters, admitted, refused>>
    OBVIOUS
  <2>2. held' = held \/ (held' = held \cup {Head(toHost).id} /\ Head(toHost).kind = "command")
    OBVIOUS
  <2> HIDE DEF HostRead
  <2> QED
    BY <1>c, <2>1, <2>2 DEF HostSets
<1>4. CommandsInPipe'
  BY <1>w, <1>a, <1>b, <1>c DEF TypeOK, CommandsInPipe, HostSets, UnwrittenIsFresh, Fresh, OwnIds
<1>5. /\ NoWaiterLeak'
      /\ PendingIsOpen'
      /\ OwnIds'
      /\ OldIdsRefused'
      /\ RefusalsAreTrue'
      /\ ReaderState'
      /\ AckHead'
  BY DEF NoWaiterLeak, PendingIsOpen, OwnIds, OldIdsRefused, RefusalsAreTrue, ReaderState, AckHead
<1> QED
  BY <1>1, <1>2, <1>3, <1>4, <1>5

(* It admits or refuses a command it holds, never both.                     *)
LEMMA HostAnswerAdmission ==
  ASSUME AdmissionInv, HostAnswer
  PROVE  AdmissionInv'
<1> USE ConnectionAssumption DEF AdmissionInv, HostAnswer, Unlock, Unregister, callerVars, connVars, hostVars, Ids, InFlight, NoOne, Answers, LocalErrors
<1>w. /\ waiters \in Seq(Waiter) /\ Len(waiters) \in Nat
      /\ \A i \in Ids : waiters[i] \in Waiter /\ waiters[i].caller \in Callers
  BY WaiterFacts
<1>a. PICK i \in held, kind \in {"result", "error", "backpressure", "declined", "invalid"} :
        /\ fromHost' = Append(fromHost, [kind |-> kind, id |-> i])
        /\ held' = held \ {i}
        /\ IF kind \in {"backpressure", "declined"}
           THEN refused' = refused \cup {i} /\ UNCHANGED admitted
           ELSE admitted' = admitted \cup {i} /\ UNCHANGED refused
  OBVIOUS
<1>b. i \in Ids /\ i \in Nat
  BY <1>a DEF HostSets, TypeOK
<1>c. [kind |-> kind, id |-> i] \in HostFrame /\ fromHost \in Seq(HostFrame)
  BY <1>a, <1>b DEF HostFrame, TypeOK
<1>d. /\ fromHost' \in Seq(HostFrame)
      /\ Len(fromHost) \in Nat
      /\ Len(fromHost') = Len(fromHost) + 1
      /\ \A k \in 1..Len(fromHost) : fromHost'[k] = fromHost[k]
      /\ fromHost'[Len(fromHost) + 1] = [kind |-> kind, id |-> i]
      /\ fromHost # <<>> => Head(fromHost') = Head(fromHost)
      /\ fromHost' # <<>>
  BY <1>a, <1>c, AppendProperties, HeadTailAppend, LenProperties
<1>1. TypeOK'
  <2>1. held' \subseteq Ids /\ admitted' \subseteq Ids /\ refused' \subseteq Ids
    BY <1>a, <1>b DEF HostSets
  <2> QED
    BY <1>a, <1>d, <2>1 DEF TypeOK
<1>2. OwnIds'
  BY <1>w, <1>a, <1>b, <1>c, <1>d DEF TypeOK, OwnIds
<1>3. OldIdsRefused'
  BY <1>w, <1>a, <1>b, <1>c, <1>d DEF TypeOK, OldIdsRefused, OwnIds
<1>4. UnwrittenIsFresh'
  BY <1>w, <1>a, <1>b, <1>c, <1>d DEF TypeOK, UnwrittenIsFresh, Fresh, OwnIds, HostSets, CommandsInPipe
<1>5. HostSets'
  <2>1. UNCHANGED waiters
    OBVIOUS
  <2> HIDE DEF HostAnswer
  <2> QED
    BY <1>a, <1>b, <2>1 DEF HostSets
<1>6. CommandsInPipe'
  BY <1>w, <1>a, <1>b, <1>c, <1>d DEF TypeOK, CommandsInPipe, HostSets, UnwrittenIsFresh, Fresh, OwnIds
<1>7. RefusalsAreTrue'
  <2>1. UNCHANGED waiters /\ refused \subseteq refused'
    BY <1>a
  <2>2. kind \in Refusal => i \in refused'
    BY <1>a DEF Refusal
  <2> HIDE DEF HostAnswer
  <2>3. \A k \in 1..Len(fromHost') : fromHost'[k].kind \in Refusal => fromHost'[k].id \in refused'
    BY <1>d, <2>1, <2>2 DEF RefusalsAreTrue
  <2> QED
    BY <2>1, <2>3 DEF RefusalsAreTrue
<1>8. AckHead'
  BY <1>w, <1>a, <1>b, <1>c, <1>d DEF TypeOK, AckHead
<1>9. /\ NoWaiterLeak'
      /\ PendingIsOpen'
      /\ ReaderState'
  BY DEF NoWaiterLeak, PendingIsOpen, ReaderState
<1> QED
  BY <1>1, <1>2, <1>3, <1>4, <1>5, <1>6, <1>7, <1>8, <1>9

(* Requests from the host touch no command ...                              *)
LEMMA HostAskAdmission ==
  ASSUME AdmissionInv, HostAsk
  PROVE  AdmissionInv'
<1> USE ConnectionAssumption DEF AdmissionInv, HostAsk, Unlock, Unregister, callerVars, connVars, hostVars, Ids, InFlight, NoOne, Answers, LocalErrors
<1>w. /\ waiters \in Seq(Waiter) /\ Len(waiters) \in Nat
      /\ \A i \in Ids : waiters[i] \in Waiter /\ waiters[i].caller \in Callers
  BY WaiterFacts
<1>a. PICK known \in BOOLEAN :
        fromHost' = Append(fromHost, [kind |-> "ask", id |-> asked + 1, known |-> known])
  OBVIOUS
<1>c. /\ [kind |-> "ask", id |-> asked + 1, known |-> known] \in HostFrame
      /\ fromHost \in Seq(HostFrame)
  BY <1>a DEF HostFrame, TypeOK
<1>d. /\ fromHost' \in Seq(HostFrame)
      /\ Len(fromHost) \in Nat
      /\ Len(fromHost') = Len(fromHost) + 1
      /\ \A k \in 1..Len(fromHost) : fromHost'[k] = fromHost[k]
      /\ fromHost'[Len(fromHost) + 1].kind = "ask"
      /\ fromHost # <<>> => Head(fromHost') = Head(fromHost)
      /\ fromHost' # <<>>
  BY <1>a, <1>c, AppendProperties, HeadTailAppend, LenProperties
<1>1. TypeOK'
  <2>1. asked' \in Nat
    BY DEF TypeOK
  <2>2. UNCHANGED <<callerVars, connVars, toHost, host, held, admitted, refused>>
    OBVIOUS
  <2> HIDE DEF HostAsk
  <2> QED
    BY <1>d, <2>1, <2>2 DEF TypeOK
<1>2. RefusalsAreTrue'
  BY <1>w, <1>a, <1>c, <1>d DEF TypeOK, RefusalsAreTrue, Refusal
<1>3. AckHead'
  BY <1>w, <1>a, <1>c, <1>d DEF TypeOK, AckHead
<1>4. /\ NoWaiterLeak'
      /\ PendingIsOpen'
      /\ OwnIds'
      /\ OldIdsRefused'
      /\ UnwrittenIsFresh'
      /\ HostSets'
      /\ CommandsInPipe'
      /\ ReaderState'
  BY DEF NoWaiterLeak, PendingIsOpen, OwnIds, OldIdsRefused, UnwrittenIsFresh, HostSets, CommandsInPipe, ReaderState, Fresh
<1> QED
  BY <1>1, <1>2, <1>3, <1>4

(* ... and neither does its exit.                                           *)
LEMMA HostExitAdmission ==
  ASSUME AdmissionInv, HostExit
  PROVE  AdmissionInv'
<1> USE ConnectionAssumption DEF AdmissionInv, HostExit, Unlock, Unregister, callerVars, connVars, hostVars, Ids, InFlight, NoOne, Answers, LocalErrors
<1>w. /\ waiters \in Seq(Waiter) /\ Len(waiters) \in Nat
      /\ \A i \in Ids : waiters[i] \in Waiter /\ waiters[i].caller \in Callers
  BY WaiterFacts
<1>1. TypeOK'
  BY <1>w DEF TypeOK
<1>2. /\ NoWaiterLeak'
      /\ PendingIsOpen'
      /\ OwnIds'
      /\ OldIdsRefused'
      /\ UnwrittenIsFresh'
      /\ HostSets'
      /\ CommandsInPipe'
      /\ RefusalsAreTrue'
      /\ ReaderState'
      /\ AckHead'
  BY DEF NoWaiterLeak, PendingIsOpen, OwnIds, OldIdsRefused, UnwrittenIsFresh, HostSets, CommandsInPipe, RefusalsAreTrue, ReaderState, AckHead, Fresh
<1> QED
  BY <1>1, <1>2

(* A step that changes nothing keeps the invariant.                         *)
LEMMA StutterAdmission ==
  ASSUME AdmissionInv, UNCHANGED vars
  PROVE  AdmissionInv'
<1>1. TypeOK'
  BY DEF AdmissionInv, TypeOK, vars, callerVars, connVars, hostVars, Ids
<1>2. /\ NoWaiterLeak' /\ PendingIsOpen' /\ OwnIds' /\ OldIdsRefused'
      /\ UnwrittenIsFresh' /\ HostSets' /\ CommandsInPipe' /\ RefusalsAreTrue'
      /\ ReaderState' /\ AckHead'
  BY DEF AdmissionInv, vars, callerVars, connVars, hostVars, Ids, NoWaiterLeak,
         PendingIsOpen, OwnIds, OldIdsRefused, UnwrittenIsFresh, Fresh, HostSets,
         CommandsInPipe, RefusalsAreTrue, ReaderState, AckHead
<1> QED
  BY <1>1, <1>2 DEF AdmissionInv

(* The invariant is inductive.                                              *)
LEMMA NextAdmission ==
  ASSUME AdmissionInv, [Next]_vars
  PROVE  AdmissionInv'
<1>1. CASE \E c \in Callers : CallerStep(c)
  <2>1. PICK c \in Callers : CallerStep(c)
    BY <1>1
  <2> QED
    BY <2>1, SendAdmission, LockAdmission, WriteAdmission, WriteFailsAdmission,
       ReceiveAdmission, DisconnectedAdmission, TimeoutAdmission, AbandonAdmission
       DEF CallerStep
<1>2. CASE TakeStdin
  BY <1>2, TakeStdinAdmission
<1>3. CASE ReaderStep
  BY <1>3, RouteAnswerAdmission, RouteAskAdmission, AckAdmission, EofAdmission,
     FailWaitersAdmission DEF ReaderStep
<1>4. CASE HostStep
  BY <1>4, HostReadAdmission, HostAnswerAdmission, HostAskAdmission, HostExitAdmission
     DEF HostStep
<1>5. CASE UNCHANGED vars
  BY <1>5, StutterAdmission
<1> QED
  BY <1>1, <1>2, <1>3, <1>4, <1>5 DEF Next

(* The inductive invariant holds of every connection, for any number of     *)
(* callers, any pipe capacity and any attempt budget.                       *)
THEOREM AdmissionInvariant == SafeSpec => []AdmissionInv
<1>1. AdmissionInv /\ [Next]_vars => AdmissionInv'
  BY NextAdmission
<1> QED
  BY InitAdmission, <1>1, PTL DEF SafeSpec

(* Every variable keeps its type.                                           *)
THEOREM TypeCorrect == SafeSpec => []TypeOK
<1>1. AdmissionInv => TypeOK
  BY DEF AdmissionInv
<1> QED
  BY AdmissionInvariant, <1>1, PTL

(* No entry of the `pending` map outlives the attempt it was inserted for,  *)
(* save for a dropped HTTP handler (host.rs command).                       *)
THEOREM WaitersNeverLeak == SafeSpec => []NoWaiterLeak
<1>1. AdmissionInv => NoWaiterLeak
  BY DEF AdmissionInv
<1> QED
  BY AdmissionInvariant, <1>1, PTL

(* However often command_with_retry resends, the host admits at most one    *)
(* attempt of a command: every id but the current one was refused.          *)
THEOREM AtMostOneAdmission == SafeSpec => []AdmittedAtMostOnce
<1>1. AdmissionInv => AdmittedAtMostOnce
  <2> SUFFICES ASSUME AdmissionInv,
                      NEW i \in admitted \cap Ids, NEW j \in admitted \cap Ids,
                      waiters[i].caller = waiters[j].caller
               PROVE  i = j
    BY DEF AdmittedAtMostOnce
  <2>1. i \notin refused /\ j \notin refused
    BY DEF AdmissionInv, HostSets
  <2>2. i = id[waiters[i].caller] /\ j = id[waiters[j].caller]
    BY <2>1 DEF AdmissionInv, OldIdsRefused
  <2> QED
    BY <2>2
<1> QED
  BY AdmissionInvariant, <1>1, PTL

(* Once the connection is Dead it stays Dead and no oneshot is resolved     *)
(* with an answer: the reader that could do so has left its loop.           *)
THEOREM DeathIsFinal == SafeSpec => DeadIsFinal
<1> DEFINE Final == state = "Dead" =>
              /\ state' = "Dead"
              /\ \A i \in Ids : waiters'[i].slot # waiters[i].slot =>
                                  waiters'[i].slot = "dropped"
<1>1. ASSUME AdmissionInv, [Next]_vars, state = "Dead"
      PROVE  Final
  <2>1. reader \in {"closing", "ended"}
    BY <1>1 DEF AdmissionInv, ReaderState
  <2>2. CASE \E c \in Callers : CallerStep(c)
    <3>1. PICK c \in Callers : CallerStep(c)
      BY <2>2
    <3>2. CASE Send(c)
      <4>1. waiters' = Append(waiters, [caller |-> c, slot |-> "open"])
            /\ waiters \in Seq(Waiter) /\ state' = state
        BY <1>1, <3>2 DEF Send, AdmissionInv, TypeOK
      <4>2. [caller |-> c, slot |-> "open"] \in Waiter
        BY DEF Waiter
      <4>3. \A i \in Ids : waiters'[i] = waiters[i]
        BY <4>1, <4>2, AppendProperties DEF Ids
      <4> QED
        BY <1>1, <4>1, <4>3
    <3>3. CASE ~Send(c)
      <4>1. state' = state /\ waiters' = waiters
        BY <3>1, <3>3 DEF CallerStep, Lock, Write, WriteFails, Receive, Disconnected,
           Timeout, Abandon, connVars
      <4> QED
        BY <1>1, <4>1
    <3> QED
      BY <3>2, <3>3
  <2>3. CASE ReaderStep
    <3>1. state' = state
      BY <1>1, <2>1, <2>3 DEF ReaderStep, RouteAnswer, RouteAsk, Ack, Eof, FailWaiters
    <3>2. \A i \in Ids : waiters'[i] = waiters[i] \/ waiters'[i] = [waiters[i] EXCEPT !.slot = "dropped"]
      BY <2>1, <2>3 DEF ReaderStep, RouteAnswer, RouteAsk, Ack, Eof, FailWaiters
    <3>3. \A i \in Ids : waiters[i] \in Waiter
      BY <1>1, WaiterFacts DEF AdmissionInv
    <3> QED
      BY <1>1, <3>1, <3>2, <3>3 DEF Waiter
  <2>4. CASE TakeStdin \/ HostStep \/ UNCHANGED vars
    <3>1. state' = state /\ waiters' = waiters
      BY <2>4 DEF TakeStdin, HostStep, HostRead, HostAnswer, HostAsk, HostExit,
         connVars, vars
    <3> QED
      BY <1>1, <3>1
  <2> QED
    BY <1>1, <2>2, <2>3, <2>4 DEF Next
<1>2. AdmissionInv /\ [Next]_vars => [Final]_vars
  BY <1>1
<1> QED
  BY AdmissionInvariant, <1>2, PTL DEF SafeSpec, DeadIsFinal

(* Answers are only put on the pipe by a host that has admitted or refused   *)
(* the command, and only the reader takes them off it.                       *)
LEMMA AnswersStep ==
  ASSUME AdmissionInv, AnswersAreTrue, [Next]_vars
  PROVE  AnswersAreTrue'
<1> USE DEF callerVars, connVars, hostVars, Ids
<1>w. /\ waiters \in Seq(Waiter) /\ Len(waiters) \in Nat /\ fromHost \in Seq(HostFrame)
      /\ \A i \in Ids : waiters[i] \in Waiter
  BY WaiterFacts DEF AdmissionInv, TypeOK
<1>f. /\ Len(fromHost) \in Nat
      /\ fromHost # <<>> =>
           /\ Head(fromHost) = fromHost[1] /\ 1 \in 1..Len(fromHost)
           /\ Len(Tail(fromHost)) = Len(fromHost) - 1
           /\ \A k \in 1..Len(Tail(fromHost)) : Tail(fromHost)[k] = fromHost[k + 1]
  BY <1>w, HeadTailProperties, LenProperties
<1>t. ASSUME fromHost # <<>>, fromHost' = Tail(fromHost), admitted' = admitted
      PROVE  \A k \in 1..Len(fromHost') :
               fromHost'[k].kind \in Execution => fromHost'[k].id \in admitted'
  BY <1>f, <1>t DEF AnswersAreTrue
<1>1. ASSUME NEW c \in Callers, Send(c) PROVE AnswersAreTrue'
  <2>1. /\ waiters' = Append(waiters, [caller |-> c, slot |-> "open"])
        /\ fromHost' = fromHost /\ admitted' = admitted
    BY <1>1 DEF Send
  <2>2. /\ Len(waiters') = Len(waiters) + 1
        /\ \A i \in Ids : waiters'[i] = waiters[i]
        /\ waiters'[Len(waiters) + 1].slot = "open"
    <3>1. [caller |-> c, slot |-> "open"] \in Waiter
      BY DEF Waiter
    <3> QED
      BY <1>w, <2>1, <3>1, AppendProperties
  <2> QED
    BY <1>w, <2>1, <2>2 DEF AnswersAreTrue
<1>2. CASE RouteAnswer
  <2>1. /\ fromHost # <<>> /\ fromHost' = Tail(fromHost) /\ admitted' = admitted
        /\ \/ waiters' = waiters
           \/ /\ Head(fromHost).id \in pending
              /\ waiters' = [waiters EXCEPT ![Head(fromHost).id].slot = SlotFor(Head(fromHost))]
    BY <1>2 DEF RouteAnswer
  <2>2. \A k \in 1..Len(fromHost') :
          fromHost'[k].kind \in Execution => fromHost'[k].id \in admitted'
    BY <1>t, <2>1
  <2>3. CASE waiters' = waiters
    BY <2>1, <2>2, <2>3 DEF AnswersAreTrue
  <2>4. CASE /\ Head(fromHost).id \in Ids
             /\ waiters' = [waiters EXCEPT ![Head(fromHost).id].slot = SlotFor(Head(fromHost))]
    <3>1. Head(fromHost).kind # "protocolError"
      BY <1>w, <1>f, <2>1 DEF HostFrame
    <3>2. SlotFor(Head(fromHost)) \in {"result", "error", "protocolError"} =>
            Head(fromHost).kind \in Execution
      BY <3>1 DEF SlotFor, Execution
    <3>3. SlotFor(Head(fromHost)) \in {"result", "error", "protocolError"} =>
            Head(fromHost).id \in admitted
      BY <1>f, <2>1, <3>1, <3>2 DEF AnswersAreTrue
    <3>4. /\ Len(waiters') = Len(waiters)
          /\ \A i \in Ids : waiters'[i].slot = IF i = Head(fromHost).id
                             THEN SlotFor(Head(fromHost)) ELSE waiters[i].slot
      BY <1>w, <2>4 DEF Waiter
    <3> QED
      BY <2>1, <2>2, <3>3, <3>4 DEF AnswersAreTrue
  <2> QED
    BY <2>1, <2>3, <2>4 DEF AdmissionInv, TypeOK
<1>3. CASE Ack
  <2>1. /\ fromHost # <<>> /\ fromHost' = Tail(fromHost) /\ admitted' = admitted
        /\ waiters' = waiters
    BY <1>3 DEF Ack, AdmissionInv, AckHead
  <2> QED
    BY <1>t, <2>1 DEF AnswersAreTrue
<1>4. CASE FailWaiters
  <2>1. /\ fromHost' = fromHost /\ admitted' = admitted /\ Len(waiters') = Len(waiters)
        /\ \A i \in Ids : waiters'[i].slot \in {waiters[i].slot, "dropped"}
    BY <1>4, <1>w DEF FailWaiters, Waiter
  <2> QED
    BY <2>1 DEF AnswersAreTrue
<1>5. CASE HostAnswer
  <2>1. PICK i \in held, kind \in {"result", "error", "backpressure", "declined", "invalid"} :
          /\ fromHost' = Append(fromHost, [kind |-> kind, id |-> i])
          /\ IF kind \in {"backpressure", "declined"} THEN UNCHANGED admitted
                                                      ELSE admitted' = admitted \cup {i}
    BY <1>5 DEF HostAnswer
  <2>2. /\ admitted \subseteq admitted' /\ waiters' = waiters
        /\ kind \in Execution => i \in admitted'
    BY <1>5, <2>1 DEF HostAnswer, Execution
  <2>3. [kind |-> kind, id |-> i] \in HostFrame
    BY <2>1 DEF HostFrame, AdmissionInv, TypeOK
  <2>4. /\ Len(fromHost') = Len(fromHost) + 1
        /\ \A k \in 1..Len(fromHost) : fromHost'[k] = fromHost[k]
        /\ fromHost'[Len(fromHost) + 1] = [kind |-> kind, id |-> i]
    BY <1>w, <2>1, <2>3, AppendProperties
  <2> QED
    BY <1>f, <2>2, <2>4 DEF AnswersAreTrue
<1>6. CASE HostAsk
  <2>1. PICK known \in BOOLEAN :
          fromHost' = Append(fromHost, [kind |-> "ask", id |-> asked + 1, known |-> known])
    BY <1>6 DEF HostAsk
  <2>2. [kind |-> "ask", id |-> asked + 1, known |-> known] \in HostFrame
    BY DEF HostFrame, AdmissionInv, TypeOK
  <2>3. /\ Len(fromHost') = Len(fromHost) + 1
        /\ \A k \in 1..Len(fromHost) : fromHost'[k] = fromHost[k]
        /\ fromHost'[Len(fromHost) + 1].kind = "ask"
    BY <1>w, <2>1, <2>2, AppendProperties
  <2> QED
    BY <1>6, <1>f, <2>3 DEF HostAsk, AnswersAreTrue, Execution
<1>7. CASE \/ UNCHANGED vars \/ TakeStdin \/ RouteAsk \/ Eof \/ HostRead \/ HostExit
           \/ \E c \in Callers : Lock(c) \/ Write(c) \/ WriteFails(c) \/ Receive(c)
                               \/ Disconnected(c) \/ Timeout(c) \/ Abandon(c)
  <2>1. UNCHANGED <<waiters, fromHost, admitted>>
    BY <1>7 DEF vars, TakeStdin, RouteAsk, Eof, HostRead, HostExit, Lock, Write, WriteFails,
                Receive, Disconnected, Timeout, Abandon
  <2> QED
    BY <2>1 DEF AnswersAreTrue
<1> QED
  BY <1>1, <1>2, <1>3, <1>4, <1>5, <1>6, <1>7 DEF Next, CallerStep, ReaderStep, HostStep

(* A caller is told the answer of its last attempt, and of a refusal only    *)
(* when the budget is spent.                                                 *)
LEMMA ToldStep ==
  ASSUME AdmissionInv, OutcomeInv, [Next]_vars
  PROVE  ToldOfLast'
<1> USE DEF callerVars, connVars, hostVars
<1>i. AnswersAreTrue /\ ToldOfLast /\ AttemptsCounted
  BY DEF OutcomeInv
<1>t. /\ pc \in [Callers -> {"idle", "backoff", "done", "dropped"} \cup InFlight]
      /\ outcome \in [Callers -> {"none"} \cup Answers \cup LocalErrors]
      /\ retries \in [Callers -> Nat] /\ id \in [Callers -> Nat]
  BY DEF AdmissionInv, TypeOK
<1>1. ASSUME NEW c \in Callers, Send(c) PROVE ToldOfLast'
  BY <1>1, <1>i, <1>t DEF Send, ToldOfLast
<1>2. ASSUME NEW c \in Callers, Lock(c) \/ Write(c) \/ Abandon(c) PROVE ToldOfLast'
  BY <1>2, <1>i, <1>t DEF Lock, Write, Abandon, ToldOfLast, InFlight
<1>3. ASSUME NEW c \in Callers, WriteFails(c) PROVE ToldOfLast'
  BY <1>3, <1>i, <1>t DEF WriteFails, WriteError, ToldOfLast, Refusal
<1>4. ASSUME NEW c \in Callers, Receive(c) PROVE ToldOfLast'
  <2> DEFINE answer == waiters[id[c]].slot
  <2>1. id[c] \in Ids /\ answer \in Answers /\ pc[c] = "waiting"
    BY <1>4 DEF Receive, AdmissionInv, OwnIds
  <2>2. /\ answer \in {"result", "error", "protocolError"} => id[c] \in admitted
        /\ answer \in Refusal => id[c] \in refused
    BY <1>i, <2>1 DEF AnswersAreTrue, AdmissionInv, RefusalsAreTrue
  <2>3. UNCHANGED <<large, id, admitted, refused>>
    BY <1>4 DEF Receive
  <2>4. CASE Retryable(c, answer)
    BY <1>4, <1>i, <1>t, <2>1, <2>3, <2>4 DEF Receive, ToldOfLast
  <2>5. CASE ~Retryable(c, answer)
    <3>1. answer = "backpressure" => retries[c] + 1 = MaxAttempts
      BY <1>i, <1>t, <2>5, ConnectionAssumption DEF Retryable, AttemptsCounted
    <3>2. /\ pc' = [pc EXCEPT ![c] = "done"] /\ outcome' = [outcome EXCEPT ![c] = answer]
          /\ retries' = retries
      BY <1>4, <2>5 DEF Receive
    <3>3. answer # "frameTooLarge"
      BY <2>1 DEF Answers
    <3> HIDE DEF answer
    <3> QED
      BY <1>i, <1>t, <2>2, <2>3, <3>1, <3>2, <3>3 DEF ToldOfLast
  <2> QED
    BY <2>4, <2>5
<1>5. ASSUME NEW c \in Callers, Disconnected(c) \/ Timeout(c) PROVE ToldOfLast'
  BY <1>5, <1>i, <1>t DEF Disconnected, Timeout, ToldOfLast, Refusal
<1>6. CASE HostAnswer
  <2>1. admitted \subseteq admitted' /\ refused \subseteq refused'
    BY <1>6 DEF HostAnswer
  <2> QED
    BY <1>6, <1>i, <2>1 DEF HostAnswer, ToldOfLast
<1>7. CASE UNCHANGED vars \/ TakeStdin \/ ReaderStep \/ HostRead \/ HostAsk \/ HostExit
  <2>1. UNCHANGED <<callerVars, admitted, refused>>
    BY <1>7 DEF vars, TakeStdin, ReaderStep, RouteAnswer, RouteAsk, Ack, Eof, FailWaiters,
                HostRead, HostAsk, HostExit
  <2> QED
    BY <1>i, <2>1 DEF ToldOfLast
<1> QED
  BY <1>1, <1>2, <1>3, <1>4, <1>5, <1>6, <1>7 DEF Next, CallerStep, HostStep

(* Send mints an id for the caller that sends ...                            *)
LEMMA SendMints ==
  ASSUME AdmissionInv, NEW c \in Callers, Send(c)
  PROVE  /\ Len(waiters) \in Nat /\ Len(waiters') = Len(waiters) + 1
         /\ \A i \in Ids : waiters'[i].caller = waiters[i].caller
         /\ waiters'[Len(waiters) + 1].caller = c
         /\ id' = [id EXCEPT ![c] = Len(waiters) + 1]
<1>1. waiters \in Seq(Waiter) /\ Len(waiters) \in Nat
  BY WaiterFacts DEF AdmissionInv
<1>2. [caller |-> c, slot |-> "open"] \in Waiter
  BY DEF Waiter
<1>3. waiters' = Append(waiters, [caller |-> c, slot |-> "open"])
  BY DEF Send
<1>4. /\ Len(waiters') = Len(waiters) + 1
      /\ \A i \in Ids : waiters'[i] = waiters[i]
      /\ waiters'[Len(waiters) + 1] = [caller |-> c, slot |-> "open"]
  BY <1>1, <1>2, <1>3, AppendProperties DEF Ids
<1>5. id' = [id EXCEPT ![c] = Len(waiters) + 1]
  BY DEF Send
<1>6. waiters'[Len(waiters) + 1].caller = c
  BY <1>4
<1> QED
  BY <1>1, <1>4, <1>5, <1>6

(* ... and nothing else does, or gives an oneshot to another caller.         *)
LEMMA OthersKeepIds ==
  ASSUME AdmissionInv, [Next]_vars, \A c \in Callers : ~Send(c)
  PROVE  /\ Ids' = Ids /\ id' = id
         /\ \A i \in Ids : waiters'[i].caller = waiters[i].caller
<1> USE DEF callerVars, connVars, hostVars, Ids
<1>w. /\ waiters \in Seq(Waiter) /\ Len(waiters) \in Nat
      /\ \A i \in Ids : waiters[i] \in Waiter
  BY WaiterFacts DEF AdmissionInv
<1>1. CASE RouteAnswer
  <2>1. /\ id' = id
        /\ \/ waiters' = waiters
           \/ waiters' = [waiters EXCEPT ![Head(fromHost).id].slot = SlotFor(Head(fromHost))]
    BY <1>1 DEF RouteAnswer
  <2>2. Len(waiters') = Len(waiters) /\ \A i \in Ids : waiters'[i].caller = waiters[i].caller
    BY <1>w, <2>1 DEF Waiter
  <2> QED
    BY <2>1, <2>2
<1>2. CASE FailWaiters
  BY <1>w, <1>2 DEF FailWaiters, Waiter
<1>3. CASE \/ UNCHANGED vars \/ TakeStdin \/ RouteAsk \/ Ack \/ Eof \/ HostStep
           \/ \E c \in Callers : Lock(c) \/ Write(c) \/ WriteFails(c) \/ Receive(c)
                               \/ Disconnected(c) \/ Timeout(c) \/ Abandon(c)
  <2>1. UNCHANGED <<waiters, id>>
    BY <1>3 DEF vars, TakeStdin, RouteAsk, Ack, Eof, HostStep, HostRead, HostAnswer, HostAsk,
                HostExit, Lock, Write, WriteFails, Receive, Disconnected, Timeout, Abandon
  <2> QED
    BY <2>1
<1> QED
  BY <1>1, <1>2, <1>3 DEF Next, CallerStep, ReaderStep

(* The attempts of a caller are counted.                                     *)
LEMMA AttemptsStep ==
  ASSUME AdmissionInv, AttemptsCounted, ToldOfLast, [Next]_vars
  PROVE  AttemptsCounted'
<1>t. /\ pc \in [Callers -> {"idle", "backoff", "done", "dropped"} \cup InFlight]
      /\ retries \in [Callers -> Nat]
  BY DEF AdmissionInv, TypeOK
<1>1. ASSUME NEW c \in Callers, Send(c) PROVE AttemptsCounted'
  <2> SUFFICES ASSUME NEW d \in Callers
      PROVE  /\ retries'[d] < MaxAttempts
             /\ IsFiniteSet(MyIds(d)')
             /\ pc'[d] \in {"idle", "backoff"} => Cardinality(MyIds(d)') = retries'[d]
             /\ pc'[d] \in InFlight \cup {"done"} => Cardinality(MyIds(d)') = retries'[d] + 1
    BY DEF AttemptsCounted
  <2>1. /\ pc[c] \in {"idle", "backoff"} /\ pc' = [pc EXCEPT ![c] = "locking"]
        /\ retries' = retries
    BY <1>1 DEF Send
  <2>2. Ids' = Ids \cup {Len(waiters) + 1} /\ Len(waiters) + 1 \notin Ids
    BY <1>1, SendMints DEF Ids
  <2>3. CASE d = c
    <3>1. MyIds(c)' = MyIds(c) \cup {Len(waiters) + 1} /\ Len(waiters) + 1 \notin MyIds(c)
      BY <1>1, <2>2, SendMints DEF MyIds
    <3>2. IsFiniteSet(MyIds(c)) /\ Cardinality(MyIds(c)) = retries[c]
      BY <2>1 DEF AttemptsCounted
    <3>3. IsFiniteSet(MyIds(c)') /\ Cardinality(MyIds(c)') = retries[c] + 1
      BY <3>1, <3>2, FS_AddElement
    <3> QED
      BY <1>t, <2>1, <2>3, <3>3 DEF AttemptsCounted
  <2>4. CASE d # c
    <3>1. MyIds(d)' = MyIds(d)
      BY <1>1, <2>2, <2>4, SendMints DEF MyIds
    <3> QED
      BY <1>t, <2>1, <2>4, <3>1 DEF AttemptsCounted
  <2> QED
    BY <2>3, <2>4
<1>2. ASSUME \A c \in Callers : ~Send(c) PROVE AttemptsCounted'
  <2>1. \A d \in Callers : MyIds(d)' = MyIds(d)
    BY <1>2, OthersKeepIds DEF MyIds
  <2>2. ASSUME NEW c \in Callers, Receive(c) PROVE AttemptsCounted'
    <3>1. pc[c] = "waiting"
      BY <2>2 DEF Receive
    <3>2. CASE Retryable(c, waiters[id[c]].slot)
      <4>1. /\ pc' = [pc EXCEPT ![c] = "backoff"]
            /\ retries' = [retries EXCEPT ![c] = retries[c] + 1]
            /\ retries[c] + 1 < MaxAttempts
        BY <2>2, <3>2 DEF Receive, Retryable
      <4> QED
        BY <1>t, <2>1, <3>1, <4>1 DEF AttemptsCounted, InFlight
    <3>3. CASE ~Retryable(c, waiters[id[c]].slot)
      <4>1. pc' = [pc EXCEPT ![c] = "done"] /\ retries' = retries
        BY <2>2, <3>3 DEF Receive
      <4> QED
        BY <1>t, <2>1, <3>1, <4>1 DEF AttemptsCounted, InFlight
    <3> QED
      BY <3>2, <3>3
  <2>3. ASSUME NEW c \in Callers, \/ Lock(c) \/ Write(c) \/ WriteFails(c) \/ Disconnected(c)
                                 \/ Timeout(c) \/ Abandon(c)
        PROVE  AttemptsCounted'
    <3>1. /\ pc[c] \in InFlight \cup {"backoff"} /\ retries' = retries
          /\ \E x \in InFlight \cup {"done", "dropped"} : pc' = [pc EXCEPT ![c] = x]
          /\ pc[c] = "backoff" => pc' = [pc EXCEPT ![c] = "dropped"]
      BY <2>3 DEF Lock, Write, WriteFails, Disconnected, Timeout, Abandon, InFlight
    <3> QED
      BY <1>t, <2>1, <3>1 DEF AttemptsCounted, InFlight
  <2>4. CASE UNCHANGED vars \/ TakeStdin \/ ReaderStep \/ HostStep
    <3>1. UNCHANGED callerVars
      BY <2>4 DEF vars, TakeStdin, ReaderStep, RouteAnswer, RouteAsk, Ack, Eof, FailWaiters,
                  HostStep, HostRead, HostAnswer, HostAsk, HostExit
    <3> QED
      BY <2>1, <3>1 DEF AttemptsCounted, callerVars
  <2> QED
    BY <1>2, <2>2, <2>3, <2>4 DEF Next, CallerStep
<1> QED
  BY <1>1, <1>2

(* Which frames are too large is settled before the first step.              *)
LEMMA LargeStays ==
  ASSUME [Next]_vars
  PROVE  large' = large
<1>1. ASSUME NEW c \in Callers, CallerStep(c) PROVE large' = large
  BY <1>1 DEF CallerStep, Send, Lock, Write, WriteFails, Receive, Disconnected, Timeout, Abandon
<1>2. ASSUME TakeStdin \/ ReaderStep \/ HostStep \/ UNCHANGED vars PROVE large' = large
  BY <1>2 DEF TakeStdin, ReaderStep, RouteAnswer, RouteAsk, Ack, Eof, FailWaiters,
              HostStep, HostRead, HostAnswer, HostAsk, HostExit, vars, callerVars
<1> QED
  BY <1>1, <1>2 DEF Next

(* A frame over the limit never reaches the host, so its command has one     *)
(* attempt of which the host knows nothing.                                  *)
LEMMA OversizedStep ==
  ASSUME AdmissionInv, AdmissionInv', OversizedUnwritten, [Next]_vars
  PROVE  OversizedUnwritten'
<1>t. /\ pc \in [Callers -> {"idle", "backoff", "done", "dropped"} \cup InFlight]
      /\ id \in [Callers -> Nat] /\ Len(waiters) \in Nat /\ large \subseteq Callers
  BY WaiterFacts, ConnectionAssumption DEF AdmissionInv, TypeOK
<1>l. large' = large
  BY LargeStays
<1>o. \A c \in Callers, d \in Callers :
        c # d /\ pc[d] # "idle" => id[c] # id[d] /\ id[d] \in Ids
  BY <1>t DEF AdmissionInv, OwnIds, Ids
<1>1. ASSUME NEW d \in Callers, Send(d) PROVE OversizedUnwritten'
  <2> SUFFICES ASSUME NEW c \in large
      PROVE  /\ pc'[c] \notin {"waiting", "backoff"}
             /\ Fresh(id[c])'
             /\ \A i \in Ids' : waiters'[i].caller = c => i = id'[c]
    BY <1>l DEF OversizedUnwritten
  <2>1. /\ pc[d] \in {"idle", "backoff"} /\ pc' = [pc EXCEPT ![d] = "locking"]
        /\ UNCHANGED <<toHost, held, admitted, refused>>
    BY <1>1 DEF Send, hostVars
  <2>2. Ids' = Ids \cup {Len(waiters) + 1} /\ Len(waiters) + 1 \notin Ids
    BY <1>1, SendMints DEF Ids
  <2>3. CASE d = c
    <3>1. pc[c] = "idle" /\ id[c] = 0 /\ id'[c] = Len(waiters) + 1 /\ pc'[c] = "locking"
      BY <1>1, <1>t, <2>1, <2>3, SendMints DEF OversizedUnwritten, AdmissionInv, OwnIds
    <3>2. Fresh(id[c])'
      BY <1>t, <3>1 DEF AdmissionInv, UnwrittenIsFresh
    <3>3. \A i \in Ids : waiters[i].caller # c
      BY <3>1 DEF OversizedUnwritten, Ids
    <3> QED
      BY <1>1, <2>2, <2>3, <3>1, <3>2, <3>3, SendMints
  <2>4. CASE d # c
    <3>1. id'[c] = id[c] /\ pc'[c] = pc[c]
      BY <1>1, <1>t, <2>1, <2>4, SendMints
    <3>2. Fresh(id[c])'
      BY <2>1, <3>1 DEF OversizedUnwritten, Fresh
    <3> QED
      BY <1>1, <2>2, <2>4, <3>1, <3>2, SendMints DEF OversizedUnwritten
  <2> QED
    BY <2>3, <2>4
<1>2. ASSUME \A c \in Callers : ~Send(c),
             \A c \in large : pc'[c] \notin {"waiting", "backoff"},
             \A c \in large : Fresh(id[c])'
      PROVE  OversizedUnwritten'
  <2>1. /\ Ids' = Ids /\ id' = id
        /\ \A i \in Ids : waiters'[i].caller = waiters[i].caller
    BY <1>2, OthersKeepIds
  <2> QED
    BY <1>2, <1>l, <2>1 DEF OversizedUnwritten
<1>k. ASSUME \A c \in Callers : ~Send(c), UNCHANGED <<toHost, held, admitted, refused>>,
             NEW c \in large
      PROVE  Fresh(id[c])'
  BY <1>k, OthersKeepIds DEF OversizedUnwritten, Fresh
<1>3. ASSUME \A c \in Callers : ~Send(c), NEW d \in Callers, Write(d)
      PROVE  OversizedUnwritten'
  <2>1. /\ d \notin large /\ pc[d] = "writing" /\ pc' = [pc EXCEPT ![d] = "waiting"]
        /\ toHost' = Append(toHost, OnWire([kind |-> "command", id |-> id[d]]))
        /\ UNCHANGED <<held, admitted, refused>>
    BY <1>3 DEF Write, hostVars
  <2>2. /\ toHost \in Seq(Frame) /\ OnWire([kind |-> "command", id |-> id[d]]) \in Frame
        /\ OnWire([kind |-> "command", id |-> id[d]]).id = id[d]
    BY <1>t DEF AdmissionInv, TypeOK, OnWire, Frame
  <2>3. /\ Len(toHost) \in Nat /\ Len(toHost') = Len(toHost) + 1
        /\ \A k \in 1..Len(toHost) : toHost'[k] = toHost[k]
        /\ toHost'[Len(toHost) + 1].id = id[d]
    BY <2>1, <2>2, AppendProperties, LenProperties
  <2>4. ASSUME NEW c \in large PROVE Fresh(id[c])'
    <3>1. id'[c] = id[c] /\ id[c] # id[d]
      BY <1>3, <1>o, <1>t, <2>1, OthersKeepIds
    <3> QED
      BY <2>1, <2>3, <3>1 DEF OversizedUnwritten, Fresh
  <2>5. \A c \in large : pc'[c] \notin {"waiting", "backoff"}
    BY <1>t, <2>1 DEF OversizedUnwritten
  <2> QED
    BY <1>2, <1>3, <2>4, <2>5
<1>4. ASSUME \A c \in Callers : ~Send(c), NEW d \in Callers,
             \/ Lock(d) \/ WriteFails(d) \/ Receive(d) \/ Disconnected(d) \/ Timeout(d) \/ Abandon(d)
      PROVE  OversizedUnwritten'
  <2>1. UNCHANGED <<toHost, held, admitted, refused>>
    BY <1>4 DEF Lock, WriteFails, Receive, Disconnected, Timeout, Abandon, hostVars
  <2>2. \/ pc[d] = "waiting"
        \/ \E x \in {"writing", "done", "dropped"} : pc' = [pc EXCEPT ![d] = x]
    BY <1>4 DEF Lock, WriteFails, Receive, Disconnected, Timeout, Abandon
  <2>3. \E x : pc' = [pc EXCEPT ![d] = x]
    BY <1>4 DEF Lock, WriteFails, Receive, Disconnected, Timeout, Abandon
  <2>4. \A c \in large : pc'[c] \notin {"waiting", "backoff"}
    BY <1>t, <2>2, <2>3 DEF OversizedUnwritten
  <2> QED
    BY <1>2, <1>4, <1>k, <2>1, <2>4
<1>5. ASSUME \A c \in Callers : ~Send(c), Ack PROVE OversizedUnwritten'
  <2> DEFINE frame == OnWire([kind |-> IF Head(fromHost).known THEN "receipt" ELSE "methodNotFound",
                              id |-> Head(fromHost).id])
  <2>1. /\ toHost' \in {toHost, Append(toHost, frame)}
        /\ UNCHANGED <<pc, held, admitted, refused>>
    BY <1>5 DEF Ack, callerVars, hostVars
  <2>2. frame \in Frame /\ frame.kind # "command" /\ toHost \in Seq(Frame)
    <3>1. fromHost # <<>> /\ fromHost \in Seq(HostFrame)
      BY <1>5 DEF Ack, AdmissionInv, AckHead, TypeOK
    <3>2. Head(fromHost) \in HostFrame
      BY <3>1, HeadTailProperties
    <3>3. Head(fromHost).id \in Nat
      BY <3>2 DEF HostFrame
    <3> QED
      BY <3>3 DEF OnWire, Frame, AdmissionInv, TypeOK
  <2> HIDE DEF frame
  <2>3. /\ Len(toHost) \in Nat /\ Len(toHost') \in Len(toHost)..(Len(toHost) + 1)
        /\ \A k \in 1..Len(toHost) : toHost'[k] = toHost[k]
        /\ Len(toHost') = Len(toHost) + 1 => toHost'[Len(toHost) + 1].kind # "command"
    BY <2>1, <2>2, AppendProperties, LenProperties
  <2>4. ASSUME NEW c \in large PROVE Fresh(id[c])'
    BY <1>5, <2>1, <2>3, OthersKeepIds DEF OversizedUnwritten, Fresh
  <2> QED
    BY <1>2, <1>5, <2>1, <2>4 DEF OversizedUnwritten
<1>6. ASSUME \A c \in Callers : ~Send(c), HostRead PROVE OversizedUnwritten'
  <2>1. /\ toHost # <<>> /\ toHost' = Tail(toHost) /\ UNCHANGED <<pc, admitted, refused>>
        /\ held' \in {held, held \cup {Head(toHost).id}}
        /\ Head(toHost).kind # "command" => held' = held
    BY <1>6 DEF HostRead, callerVars, connVars
  <2>2. /\ Len(toHost) \in Nat \ {0} /\ Head(toHost) = toHost[1]
        /\ Len(toHost') = Len(toHost) - 1
        /\ \A k \in 1..Len(toHost') : toHost'[k] = toHost[k + 1]
    BY <2>1, HeadTailProperties, LenProperties DEF AdmissionInv, TypeOK
  <2>3. ASSUME NEW c \in large PROVE Fresh(id[c])'
    <3>1. id'[c] = id[c] /\ (Head(toHost).kind = "command" => Head(toHost).id # id[c])
      BY <1>6, <2>2, OthersKeepIds DEF OversizedUnwritten, Fresh
    <3> QED
      BY <2>1, <2>2, <3>1 DEF OversizedUnwritten, Fresh
  <2> QED
    BY <1>2, <1>6, <2>1, <2>3 DEF OversizedUnwritten
<1>7. ASSUME \A c \in Callers : ~Send(c), HostAnswer PROVE OversizedUnwritten'
  <2>1. PICK i \in held : /\ held' = held \ {i} /\ admitted' \subseteq admitted \cup {i}
                          /\ refused' \subseteq refused \cup {i}
    BY <1>7 DEF HostAnswer
  <2>2. UNCHANGED <<pc, toHost>>
    BY <1>7 DEF HostAnswer, callerVars
  <2>3. ASSUME NEW c \in large PROVE Fresh(id[c])'
    BY <1>7, <2>1, <2>2, OthersKeepIds DEF OversizedUnwritten, Fresh
  <2> QED
    BY <1>2, <1>7, <2>2, <2>3 DEF OversizedUnwritten
<1>8. ASSUME \A c \in Callers : ~Send(c),
             \/ UNCHANGED vars \/ TakeStdin \/ RouteAnswer \/ RouteAsk \/ Eof \/ FailWaiters
             \/ HostAsk \/ HostExit
      PROVE  OversizedUnwritten'
  <2>1. UNCHANGED <<pc, toHost, held, admitted, refused>>
    BY <1>8 DEF vars, TakeStdin, RouteAnswer, RouteAsk, Eof, FailWaiters, HostAsk, HostExit,
                callerVars, hostVars
  <2> QED
    BY <1>2, <1>8, <1>k, <2>1 DEF OversizedUnwritten
<1> QED
  BY <1>1, <1>3, <1>4, <1>5, <1>6, <1>7, <1>8 DEF Next, CallerStep, ReaderStep, HostStep

(* The first state: nobody has been told anything.                           *)
LEMMA InitOutcome == Init => OutcomeInv
<1> SUFFICES ASSUME Init PROVE OutcomeInv
  OBVIOUS
<1> USE ConnectionAssumption DEF Init
<1>1. Ids = {} /\ fromHost = <<>> /\ Len(fromHost) = 0
  BY DEF Ids
<1>2. AnswersAreTrue /\ ToldOfLast /\ OversizedUnwritten
  BY <1>1 DEF AnswersAreTrue, ToldOfLast, OversizedUnwritten, Fresh
<1>3. AttemptsCounted
  <2> SUFFICES ASSUME NEW c \in Callers
      PROVE  /\ retries[c] < MaxAttempts /\ pc[c] = "idle" /\ retries[c] = 0
             /\ IsFiniteSet(MyIds(c)) /\ Cardinality(MyIds(c)) = 0
    BY DEF AttemptsCounted, InFlight
  <2>1. MyIds(c) = {}
    BY <1>1 DEF MyIds
  <2>2. IsFiniteSet(MyIds(c)) /\ Cardinality(MyIds(c)) = 0
    BY <2>1, FS_EmptySet
  <2>3. retries[c] = 0 /\ pc[c] = "idle" /\ 0 < MaxAttempts
    OBVIOUS
  <2> QED
    BY <2>2, <2>3
<1> QED
  BY <1>2, <1>3 DEF OutcomeInv

(* What a caller is told by command_with_retry is what the host did to its   *)
(* command: executed, refused each time as often as the budget allows, or    *)
(* never seen.                                                               *)
THEOREM OutcomesAreTrue == SafeSpec => []OutcomeTruthful
<1>1. AdmissionInv /\ AdmissionInv' /\ OutcomeInv /\ [Next]_vars => OutcomeInv'
  BY AnswersStep, ToldStep, OversizedStep, AttemptsStep DEF OutcomeInv
<1>2. AdmissionInv /\ OutcomeInv => OutcomeTruthful
  <2> SUFFICES ASSUME AdmissionInv, OutcomeInv, NEW c \in Callers
      PROVE  /\ outcome[c] \in {"result", "error", "protocolError"} =>
                   MyIds(c) \cap admitted # {}
             /\ outcome[c] \in {"backpressure", "declined"} => MyIds(c) \subseteq refused
             /\ outcome[c] = "backpressure" => Cardinality(MyIds(c)) = MaxAttempts
             /\ outcome[c] = "frameTooLarge" => MyIds(c) \cap (admitted \cup refused) = {}
    BY DEF OutcomeTruthful
  <2> USE DEF OutcomeInv
  <2>1. outcome[c] # "none" => pc[c] = "done" /\ id[c] \in MyIds(c)
    BY DEF ToldOfLast, AdmissionInv, OwnIds, MyIds
  <2>2. outcome[c] \in {"result", "error", "protocolError"} => id[c] \in admitted
    BY DEF ToldOfLast
  <2>3. outcome[c] \in {"backpressure", "declined"} => MyIds(c) \subseteq refused
    BY DEF ToldOfLast, AdmissionInv, OldIdsRefused, Refusal, MyIds
  <2>4. outcome[c] = "backpressure" => Cardinality(MyIds(c)) = MaxAttempts
    BY DEF ToldOfLast, AttemptsCounted
  <2>5. outcome[c] = "frameTooLarge" => MyIds(c) \cap (admitted \cup refused) = {}
    BY DEF ToldOfLast, OversizedUnwritten, Fresh, MyIds
  <2> QED
    BY <2>1, <2>2, <2>3, <2>4, <2>5
<1> QED
  BY InitOutcome, AdmissionInvariant, <1>1, <1>2, PTL DEF SafeSpec
=============================================================================

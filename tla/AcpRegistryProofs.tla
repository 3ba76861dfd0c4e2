------------------------- MODULE AcpRegistryProofs --------------------------
(***************************************************************************)
(* Theorems about AcpRegistry, for any clients, hosts and observers: that  *)
(* a session always names a host session, that an open session keeps an    *)
(* observer, and that its mode label is the one for the host's mode once   *)
(* all is quiet.                                                           *)
(***************************************************************************)
EXTENDS AcpRegistry, SequenceTheorems, TLAPS

Pulling  == {"attached", "pulling", "listing", "presenting"}
Points   == {"idle", "entered", "called", "answered", "checked", "done"} \union Pulling
Handlers == [at : Points, msp : HostSessions \union {None}, gen : Nat,
             folded : Modes \union {None}, fresh : BOOLEAN,
             pulled : SUBSET Asks]
Events   == [msp : HostSessions, kind : {"mode"}, value : Modes]
              \union [msp : HostSessions, kind : {"ask"}, value : Asks]
Watchers == [at : {"none", "born", "watching", "retired"}, sid : Sids \union {None},
             gen : Nat, feed : Seq(Events)]

TypeOK ==
  /\ plan \in Plans /\ plan \in [Reqs -> Plan]
  /\ req \in [Reqs -> Handlers]
  /\ table \in [Sids -> Entry \union {None}]
  /\ obs \in [Reqs -> Watchers]
  /\ up \in {"serving", "restarting", "exhausted"} /\ gen \in Nat \ {0}
  /\ mode \in [HostSessions -> Modes \union {None}]
  /\ asked \in [Asks -> HostSessions \union {None}]
  /\ raced \subseteq HostSessions

(* A request keeps to the steps of its operation, and knows the host session *)
(* it is about.                                                              *)
Reaches(r) ==
  /\ req[r].at \in {"checked"} \union Pulling => plan[r].op = "resume"
  /\ req[r].at \in {"entered", "called"} /\ plan[r].op # "new" =>
       req[r].msp \in HostSessions
  /\ req[r].at \in {"answered", "checked"} /\ plan[r].op = "resume" =>
       /\ req[r].msp \in HostSessions /\ mode[req[r].msp] \in Modes
       /\ req[r].folded \in Modes
  /\ req[r].at = "answered" /\ plan[r].op \in Creating =>
       req[r].msp = r /\ mode[r] \in Modes

(* An open session names a session of the host.                              *)
Backed == \A s \in Sids : Open(s) => mode[table[s].msp] \in Modes

RegistryInv ==
  TypeOK /\ (\A r \in Reqs : Reaches(r)) /\ Backed

(* An open session has an observer that listens, or will once it is polled,  *)
(* as long as the first host lives, or as ready() waits for the next one.    *)
Lives  == gen = 1 /\ up = "serving"
Served == up # "exhausted" /\ (Lives \/ "late" \notin Faults)
Attending(o, s) == obs[o].at \in {"born", "watching"} /\ obs[o].sid = s
Observed == Served => \A s \in Sids : Open(s) => \E o \in Reqs : Attending(o, s)

(* An observer is spawned once, by the request it is named after, and the    *)
(* session a resume found known stays so until the resume has written it.    *)
After       == Pulling \union {"done"}
SpawnedOnce == \A r \in Reqs : obs[r].at # "none" => req[r].at \in After
StaysKnown  == \A r \in Reqs : req[r].at = "checked" /\ ~req[r].fresh => Open(plan[r].sid)

ObserverInv == Observed /\ SpawnedOnce /\ StaysKnown

(* Clients that name the host session of an id alike.                        *)
Consistent(clients) ==
  \A f \in clients : \A q, r \in Reqs :
    f[q].op = "close" /\ f[r].op = "resume" /\ f[q].sid = f[r].sid => f[q].msp = f[r].msp

(* What ids stand for on the host: a former adapter's id for the durable     *)
(* session F names, any other for itself.  Clients agree on it.              *)
HostOf(F, s) == IF s \in Stale THEN F[s] ELSE s
NamedBy(F) ==
  \A f \in Plans, r \in Reqs :
    f[r].op \in Setting \union {"resume", "close"} => f[r].msp = HostOf(F, f[r].sid)

(* A request at work in an existing session is alone with its host session,  *)
(* and the request that created it, if any, was answered.                    *)
Working(r) == Busy(r) /\ plan[r].op \in Setting \union {"resume"}
Named(F)   == \A r \in Reqs : Working(r) => req[r].msp = HostOf(F, plan[r].sid)
Alone      == \A q, r \in Reqs : q # r /\ Working(q) /\ Working(r) => plan[q].msp # plan[r].msp
Introduced == \A r \in Reqs :
                Working(r) /\ plan[r].sid \in Reqs => req[plan[r].sid].at = "done"

(* What the host answered still holds of the session when it is written      *)
(* down, unless another client changed the mode meanwhile.                   *)
Early     == {"idle", "entered", "called"}
Echoes(r) ==
  req[r].msp \notin raced =>
    /\ req[r].at = "answered" /\ plan[r].op \in Creating => req[r].folded = mode[r]
    /\ req[r].at \in {"answered", "checked"} /\ plan[r].op = "resume" =>
         req[r].folded = mode[req[r].msp]
    /\ req[r].at = "answered" /\ plan[r].op \in Setting =>
         Stands(Told(r), mode[req[r].msp])
Uncreated == \A r \in Reqs : req[r].at \in Early => mode[r] = None

RequestsInv(F) ==
  Named(F) /\ Alone /\ Introduced /\ (\A r \in Reqs : Echoes(r)) /\ Uncreated

TableNames(F) == \A s \in Sids : Open(s) => table[s].msp = HostOf(F, s)

(* A command that is yet to reach the host finds the observers of its        *)
(* session subscribed.                                                       *)
NoneWaits(F) ==
  \A r, o \in Reqs :
    Working(r) /\ req[r].at \in Early /\ obs[o].at = "born" =>
      HostOf(F, obs[o].sid) # HostOf(F, plan[r].sid)

(* An observer hears of sessions that exist, and the last it hears of one is *)
(* the mode the host applies.                                                *)
Sound(o) ==
  /\ Len(obs[o].feed) <= Ring
  /\ obs[o].at = "born" => obs[o].feed = <<>>
  /\ \A i \in 1..Len(obs[o].feed) : mode[obs[o].feed[i].msp] \in Modes
Tells(e, h) == e.kind = "mode" /\ e.msp = h
LastOf(feed, i) ==
  feed[i].kind = "mode" /\ \A j \in 1..Len(feed) : j > i => ~Tells(feed[j], feed[i].msp)
Heard(o) ==
  obs[o].at = "watching" =>
    /\ obs[o].gen = gen
    /\ \A i \in 1..Len(obs[o].feed) :
         LastOf(obs[o].feed, i) => obs[o].feed[i].value = mode[obs[o].feed[i].msp]
FeedsInv == (\A o \in Reqs : Sound(o)) /\ (Lives => \A o \in Reqs : Heard(o))

(* A label is right, or an observer of the session has the mode to come.     *)
Right(F, s)    == Stands(table[s].label, mode[HostOf(F, s)])
Hears(F, o, s) ==
  /\ obs[o].at = "watching" /\ obs[o].sid = s
  /\ \E i \in 1..Len(obs[o].feed) : Tells(obs[o].feed[i], HostOf(F, s))
LabelsInv(F) ==
  Lives => \A s \in Sids : Open(s) /\ HostOf(F, s) \notin raced =>
             Right(F, s) \/ \E o \in Reqs : Hears(F, o, s)

ModesInv(F) ==
  RequestsInv(F) /\ TableNames(F) /\ NoneWaits(F) /\ FeedsInv /\ LabelsInv(F)

(* No event is pushed out of a receiver that is full: the one the code makes *)
(* has room for EVENT_CHANNEL_DEPTH events.                                  *)
Unspilled ==
  \A o \in Reqs : Len(obs[o].feed) = Ring =>
                    obs'[o].feed = obs[o].feed \/ Len(obs'[o].feed) < Ring
-----------------------------------------------------------------------------

(* The broadcast keeps the type of a receiver's feed.                        *)
LEMMA PushType ==
  ASSUME NEW feed \in Seq(Events), NEW e \in Events
  PROVE  Push(feed, e) \in Seq(Events)
<1>1. Append(feed, e) \in Seq(Events) /\ Append(feed, e) # <<>>
  BY AppendProperties
<1>2. Tail(Append(feed, e)) \in Seq(Events)
  BY <1>1, HeadTailProperties
<1> QED
  BY <1>1, <1>2 DEF Push

(* A send reaches receivers, and leaves who they are alone.                  *)
LEMMA PostType ==
  ASSUME obs \in [Reqs -> Watchers], NEW e \in Events
  PROVE  /\ Post(e) \in [Reqs -> Watchers]
         /\ \A o \in Reqs : Post(e)[o].at = obs[o].at /\ Post(e)[o].sid = obs[o].sid
<1>1. ASSUME NEW o \in Reqs
      PROVE  /\ Post(e)[o] \in Watchers
             /\ Post(e)[o].at = obs[o].at /\ Post(e)[o].sid = obs[o].sid
  <2>1. obs[o] \in Watchers /\ obs[o].feed \in Seq(Events)
    BY DEF Watchers
  <2>2. Push(obs[o].feed, e) \in Seq(Events)
    BY <2>1, PushType
  <2>3. Post(e)[o] = [obs[o] EXCEPT !.feed = Push(@, e)] \/ Post(e)[o] = obs[o]
    BY DEF Post
  <2> QED
    BY <2>1, <2>2, <2>3 DEF Watchers
<1> QED
  BY <1>1 DEF Post

(* A spawned observer is waiting for its first poll.                         *)
LEMMA SpawnType ==
  ASSUME obs \in [Reqs -> Watchers], NEW r \in Reqs, NEW s \in Sids
  PROVE  /\ Spawned(r, s) \in [Reqs -> Watchers]
         /\ Spawned(r, s)[r].at = "born" /\ Spawned(r, s)[r].sid = s
         /\ \A o \in Reqs \ {r} : Spawned(r, s)[o] = obs[o]
<1>1. <<>> \in Seq(Events)
  OBVIOUS
<1>2. Unborn \in Watchers
  BY <1>1 DEF Unborn, Watchers
<1>3. /\ [Unborn EXCEPT !.at = "born", !.sid = s] \in Watchers
      /\ [Unborn EXCEPT !.at = "born", !.sid = s].at = "born"
      /\ [Unborn EXCEPT !.at = "born", !.sid = s].sid = s
  BY <1>2 DEF Watchers
<1> QED
  BY <1>3 DEF Spawned

(* A handler that goes on keeps what it knows.                               *)
LEMMA BecomesKeeps ==
  ASSUME TypeOK, NEW r \in Reqs, NEW p \in Points, Becomes(r, p)
  PROVE  /\ req' \in [Reqs -> Handlers]
         /\ req'[r].at = p /\ req'[r].msp = req[r].msp /\ req'[r].folded = req[r].folded
         /\ req'[r].fresh = req[r].fresh
         /\ \A q \in Reqs \ {r} : req'[q] = req[q]
<1>1. req \in [Reqs -> Handlers] /\ req' = [req EXCEPT ![r].at = p]
  BY DEF TypeOK, Becomes
<1> QED
  BY <1>1, SMTT(30) DEF Handlers

(* What a handler learns keeps the type of its task.                         *)
LEMMA LearnsType ==
  ASSUME req \in [Reqs -> Handlers], NEW r \in Reqs, NEW p \in Points
  PROVE  /\ \A m \in HostSessions \union {None} :
              [req EXCEPT ![r].at = p, ![r].msp = m] \in [Reqs -> Handlers]
         /\ \A g \in Nat : [req EXCEPT ![r].at = p, ![r].gen = g] \in [Reqs -> Handlers]
         /\ \A f \in Modes \union {None} :
              [req EXCEPT ![r].at = p, ![r].folded = f] \in [Reqs -> Handlers]
         /\ \A b \in BOOLEAN : [req EXCEPT ![r].at = p, ![r].fresh = b] \in [Reqs -> Handlers]
         /\ \A l \in SUBSET Asks :
              [req EXCEPT ![r].at = p, ![r].pulled = l] \in [Reqs -> Handlers]
<1>1. ASSUME NEW m \in HostSessions \union {None}
      PROVE [req EXCEPT ![r].at = p, ![r].msp = m] \in [Reqs -> Handlers]
  <2>1. [req[r] EXCEPT !.at = p, !.msp = m] \in Handlers
    BY ZenonT(30) DEF Handlers
  <2>2. [req EXCEPT ![r].at = p, ![r].msp = m]
          = [req EXCEPT ![r] = [req[r] EXCEPT !.at = p, !.msp = m]]
    OBVIOUS
  <2> QED
    BY <2>1, <2>2
<1>2. ASSUME NEW g \in Nat
      PROVE [req EXCEPT ![r].at = p, ![r].gen = g] \in [Reqs -> Handlers]
  <2>1. [req[r] EXCEPT !.at = p, !.gen = g] \in Handlers
    BY DEF Handlers
  <2>2. [req EXCEPT ![r].at = p, ![r].gen = g]
          = [req EXCEPT ![r] = [req[r] EXCEPT !.at = p, !.gen = g]]
    OBVIOUS
  <2> QED
    BY <2>1, <2>2
<1>3. ASSUME NEW f \in Modes \union {None}
      PROVE [req EXCEPT ![r].at = p, ![r].folded = f] \in [Reqs -> Handlers]
  <2>1. [req[r] EXCEPT !.at = p, !.folded = f] \in Handlers
    BY ZenonT(30) DEF Handlers
  <2>2. [req EXCEPT ![r].at = p, ![r].folded = f]
          = [req EXCEPT ![r] = [req[r] EXCEPT !.at = p, !.folded = f]]
    OBVIOUS
  <2> QED
    BY <2>1, <2>2
<1>4. ASSUME NEW b \in BOOLEAN
      PROVE [req EXCEPT ![r].at = p, ![r].fresh = b] \in [Reqs -> Handlers]
  <2>1. [req[r] EXCEPT !.at = p, !.fresh = b] \in Handlers
    BY DEF Handlers
  <2>2. [req EXCEPT ![r].at = p, ![r].fresh = b]
          = [req EXCEPT ![r] = [req[r] EXCEPT !.at = p, !.fresh = b]]
    OBVIOUS
  <2> QED
    BY <2>1, <2>2
<1>5. ASSUME NEW l \in SUBSET Asks
      PROVE [req EXCEPT ![r].at = p, ![r].pulled = l] \in [Reqs -> Handlers]
  <2>1. [req[r] EXCEPT !.at = p, !.pulled = l] \in Handlers
    BY DEF Handlers
  <2>2. [req EXCEPT ![r].at = p, ![r].pulled = l]
          = [req EXCEPT ![r] = [req[r] EXCEPT !.at = p, !.pulled = l]]
    OBVIOUS
  <2> QED
    BY <2>1, <2>2
<1> QED
  BY <1>1, <1>2, <1>3, <1>4, <1>5

(* The modes and labels the vocabularies are translated to.                  *)
LEMMA ModeTypes ==
  /\ \A m : LabelOf(m) \in Label
  /\ \A l : HostMode(l) \in Modes
  /\ \A v : Resolve(v) \in Modes
  /\ \A l, m : Granted(l, m) \in Label
  /\ \A l \in Label : \A m : Adopted(l, m) \in Label
  /\ \A r \in Reqs : Folds(r) \subseteq Modes
<1>1. \A m : LabelOf(m) \in Label
  BY DEF LabelOf, Label
<1>2. \A l : HostMode(l) \in Modes
  BY DEF HostMode, Modes
<1>3. \A v : Resolve(v) \in Modes
  BY <1>2 DEF Resolve
<1>4. \A l, m : Granted(l, m) \in Label
  BY <1>1 DEF Granted, Label
<1>5. \A l \in Label : \A m : Adopted(l, m) \in Label
  BY <1>1 DEF Adopted
<1>6. "promptUnmatched" \in Modes
  BY DEF Modes
<1>7. \A r \in Reqs : Folds(r) \subseteq Modes
  BY <1>3, <1>6 DEF Folds
<1> QED
  BY <1>1, <1>2, <1>3, <1>4, <1>5, <1>7

(* A first state satisfies the invariants.                                   *)
LEMMA InitRegistry == Init => RegistryInv /\ ObserverInv
<1> SUFFICES ASSUME Init PROVE RegistryInv /\ ObserverInv
  OBVIOUS
<1> USE DEF Init
<1>1. TypeOK
  <2>1. plan \in Plans /\ plan \in [Reqs -> Plan]
    BY AcpRegistryAssumption
  <2>2. Idle \in Handlers
    BY DEF Idle, Handlers, Points
  <2>3. <<>> \in Seq(Events)
    OBVIOUS
  <2>4. Unborn \in Watchers
    BY <2>3 DEF Unborn, Watchers
  <2>5. mode \in [HostSessions -> Modes \union {None}]
    BY DEF Modes
  <2> QED
    BY <2>1, <2>2, <2>4, <2>5 DEF TypeOK
<1>2. \A r \in Reqs : Reaches(r)
  BY DEF Reaches, Idle, Pulling
<1>3. \A s \in Sids : ~Open(s)
  BY DEF Open
<1>4. \A r \in Reqs : obs[r].at = "none" /\ req[r].at = "idle"
  BY DEF Unborn, Idle
<1> QED
  BY <1>1, <1>2, <1>3, <1>4 DEF RegistryInv, Backed, ObserverInv, Observed, SpawnedOnce, StaysKnown

(* Every step keeps the types.                                               *)
LEMMA TypeStep == RegistryInv /\ [Next]_vars => TypeOK'
<1> SUFFICES ASSUME RegistryInv, [Next]_vars PROVE TypeOK'
  OBVIOUS
<1>t. TypeOK
  BY DEF RegistryInv
<1> USE <1>t DEF host
<1>1. ASSUME NEW r \in Reqs, Enter(r) PROVE TypeOK'
  <2>1. req' \in [Reqs -> Handlers]
    <3>1. CASE Ends(r)
      BY <3>1, BecomesKeeps DEF Ends, Points
    <3>2. CASE ~Ends(r)
      <4> DEFINE m == IF plan[r].op = "new" THEN None
                      ELSE IF Open(plan[r].sid) THEN table[plan[r].sid].msp ELSE plan[r].msp
      <4>1. m \in HostSessions \union {None}
        BY DEF TypeOK, Plan, Open, Entry
      <4>2. req' = [req EXCEPT ![r].at = "entered", ![r].msp = m]
        BY <1>1, <3>2 DEF Enter
      <4> HIDE DEF m
      <4> QED
        BY <4>1, <4>2, LearnsType, ZenonT(30) DEF TypeOK, Points
    <3> QED
      BY <3>1, <3>2
  <2> QED
    BY <1>1, <2>1 DEF Enter, TypeOK
<1>2. ASSUME NEW r \in Reqs, Connect(r) PROVE TypeOK'
  <2>1. req' \in [Reqs -> Handlers]
    <3>1. CASE Ends(r)
      BY <3>1, BecomesKeeps DEF Ends, Points
    <3>2. CASE ~Ends(r)
      <4> DEFINE p == IF req[r].at = "entered" THEN "called" ELSE "listing"
      <4>1. p \in Points /\ gen \in Nat
        BY DEF Points, Pulling, TypeOK
      <4>2. req' = [req EXCEPT ![r].at = p, ![r].gen = gen]
        BY <1>2, <3>2 DEF Connect, TypeOK
      <4> HIDE DEF p
      <4> QED
        BY <4>1, <4>2, LearnsType DEF TypeOK
    <3> QED
      BY <3>1, <3>2
  <2> QED
    BY <1>2, <2>1 DEF Connect, TypeOK
<1>3. ASSUME NEW r \in Reqs, Execute(r) PROVE TypeOK'
  <2>0. req[r].at = "called" /\ UNCHANGED <<plan, table, up, gen, asked, raced>>
    BY <1>3 DEF Execute
  <2>1. CASE plan[r].op \in Creating /\ Creates(r)
    <3>1. PICK m \in IF plan[r].op = "new" THEN Folds(r) ELSE {mode[req[r].msp]} :
            /\ mode' = [mode EXCEPT ![r] = m]
            /\ req' = [req EXCEPT ![r].at = "answered", ![r].msp = r, ![r].folded = m]
            /\ UNCHANGED obs
      BY <2>1 DEF Creates
    <3>2. m \in Modes
      <4>1. CASE plan[r].op = "new"
        BY <3>1, <4>1, ModeTypes
      <4>2. CASE plan[r].op # "new"
        <5>1. req[r].msp \in HostSessions
          BY <2>0, <2>1, <4>2 DEF RegistryInv, Reaches, Creating
        <5>2. mode[req[r].msp] \in Modes
          <6>1. mode[req[r].msp] # None
            BY <1>3, <5>1, AcpRegistryAssumption DEF Execute, Exists, Sids
          <6> QED
            BY <5>1, <6>1 DEF TypeOK
        <5> QED
          BY <3>1, <4>2, <5>2
      <4> QED
        BY <4>1, <4>2
    <3>3. r \in HostSessions
      BY DEF HostSessions
    <3>4. req' \in [Reqs -> Handlers]
      <4>1. req[r] \in Handlers
        BY DEF TypeOK
      <4>2. [req[r] EXCEPT !.at = "answered", !.msp = r, !.folded = m] \in Handlers
        BY <3>2, <3>3, <4>1 DEF Handlers, Points
      <4>3. req' = [req EXCEPT ![r] = [req[r] EXCEPT !.at = "answered", !.msp = r, !.folded = m]]
        BY <3>1 DEF TypeOK
      <4> QED
        BY <4>2, <4>3 DEF TypeOK
    <3>5. mode' \in [HostSessions -> Modes \union {None}]
      BY <3>1, <3>2 DEF TypeOK
    <3> QED
      BY <2>0, <3>1, <3>4, <3>5 DEF TypeOK
  <2>2. CASE plan[r].op \in Setting /\ Sets(r)
    <3>1. PICK m \in Folds(r) :
            /\ mode' = [mode EXCEPT ![req[r].msp] = m]
            /\ req' = [req EXCEPT ![r].at = "answered", ![r].folded = m]
            /\ obs' = Post(ModeEvent(req[r].msp, m))
      BY <2>2 DEF Sets
    <3>2. m \in Modes
      BY <3>1, ModeTypes
    <3>3. req[r].msp \in HostSessions
      BY <2>0, <2>2 DEF RegistryInv, Reaches, Setting
    <3>4. ModeEvent(req[r].msp, m) \in Events
      BY <3>2, <3>3 DEF ModeEvent, Events
    <3>5. obs' \in [Reqs -> Watchers]
      BY <3>1, <3>4, PostType DEF TypeOK
    <3>6. req' \in [Reqs -> Handlers]
      BY <3>1, <3>2, LearnsType DEF TypeOK, Points
    <3>7. mode' \in [HostSessions -> Modes \union {None}]
      BY <3>1, <3>2 DEF TypeOK
    <3> QED
      BY <2>0, <3>5, <3>6, <3>7 DEF TypeOK
  <2>3. CASE plan[r].op = "resume" /\ Reads(r)
    <3>1. mode[req[r].msp] \in Modes \union {None}
      BY <2>0, <2>3 DEF TypeOK, RegistryInv, Reaches
    <3>2. req' = [req EXCEPT ![r].at = "answered", ![r].folded = mode[req[r].msp]]
      BY <2>3 DEF Reads
    <3>3. req' \in [Reqs -> Handlers]
      BY <3>1, <3>2, LearnsType DEF TypeOK, Points
    <3> QED
      BY <2>0, <2>3, <3>3 DEF Reads, TypeOK
  <2> QED
    BY <1>3, <2>1, <2>2, <2>3 DEF Execute
<1>4. ASSUME NEW r \in Reqs, Fail(r) PROVE TypeOK'
  <2>1. req' \in [Reqs -> Handlers]
    <3>1. Becomes(r, "done")
      BY <1>4 DEF Fail, Ends
    <3> QED
      BY <3>1, BecomesKeeps DEF Points
  <2> QED
    BY <1>4, <2>1 DEF Fail, TypeOK
<1>5. ASSUME NEW r \in Reqs, Insert(r) \/ Fork(r) PROVE TypeOK'
  <2>1. PICK label \in Label : Inserts(r, label)
    BY <1>5, ModeTypes DEF Insert, Fork
  <2>2. r \in HostSessions /\ r \in Sids
    BY DEF HostSessions, Sids
  <2>3. [msp |-> r, shown |-> {}, label |-> label] \in Entry
    BY <2>1, <2>2 DEF Entry
  <2>4. table' \in [Sids -> Entry \union {None}]
    BY <2>1, <2>3 DEF Inserts, TypeOK
  <2>5. obs' \in [Reqs -> Watchers]
    BY <2>1, <2>2, SpawnType DEF Inserts, TypeOK
  <2>6. req' \in [Reqs -> Handlers]
    BY <2>1, BecomesKeeps DEF Inserts, Ends, Points
  <2> QED
    BY <2>1, <2>4, <2>5, <2>6 DEF Inserts, TypeOK
<1>6. ASSUME NEW r \in Reqs, Check(r) PROVE TypeOK'
  <2>1. Fresh(plan[r].sid) \in BOOLEAN
    BY DEF Fresh
  <2>2. req' \in [Reqs -> Handlers]
    BY <1>6, <2>1, LearnsType DEF Check, TypeOK, Points
  <2> QED
    BY <1>6, <2>2 DEF Check, TypeOK
<1>7. ASSUME NEW r \in Reqs, Attach(r) PROVE TypeOK'
  <2> DEFINE s == plan[r].sid
             entry == IF Open(s) THEN table[s] ELSE [msp |-> None, label |-> "ask", shown |-> {}]
             new == [entry EXCEPT !.msp = req[r].msp, !.label = Adopted(@, req[r].folded)]
  <2>1. s \in Sids
    BY DEF TypeOK, Plan
  <2>2. req[r].at = "checked" /\ req[r].msp \in HostSessions
    BY <1>7 DEF Attach, RegistryInv, Reaches
  <2>3. new \in Entry
    <3>1. CASE Open(s)
      <4>1. table[s] \in Entry
        BY <2>1, <3>1 DEF Open, TypeOK
      <4>2. Adopted(table[s].label, req[r].folded) \in Label
        BY <4>1, ModeTypes DEF Entry
      <4> QED
        BY <2>2, <3>1, <4>1, <4>2 DEF Entry
    <3>2. CASE ~Open(s)
      <4>1. Adopted("ask", req[r].folded) \in Label
        BY ModeTypes DEF Label
      <4>2. new = [[msp |-> None, label |-> "ask", shown |-> {}]
                    EXCEPT !.msp = req[r].msp, !.label = Adopted("ask", req[r].folded)]
        BY <3>2
      <4> QED
        BY <2>2, <4>1, <4>2 DEF Entry
    <3> QED
      BY <3>1, <3>2
  <2>4. table' \in [Sids -> Entry \union {None}]
    BY <1>7, <2>1, <2>3 DEF Attach, TypeOK
  <2>5. obs' \in [Reqs -> Watchers]
    BY <1>7, <2>1, SpawnType DEF Attach, TypeOK
  <2>6. req' \in [Reqs -> Handlers]
    BY <1>7, BecomesKeeps DEF Attach, Points, Pulling
  <2> QED
    BY <1>7, <2>4, <2>5, <2>6 DEF Attach, TypeOK
<1>8. ASSUME NEW r \in Reqs, Pull(r) \/ Lists(r) PROVE TypeOK'
  <2>1. req' \in [Reqs -> Handlers]
    <3>1. CASE Ends(r)
      BY <3>1, BecomesKeeps DEF Ends, Points
    <3>2. CASE Pull(r) /\ ~Ends(r)
      <4>1. /\ Open(plan[r].sid)
            /\ req' = [req EXCEPT ![r].at = "pulling", ![r].msp = table[plan[r].sid].msp]
        BY <3>2 DEF Pull
      <4>2. table[plan[r].sid].msp \in HostSessions
        BY <4>1 DEF TypeOK, Plan, Open, Entry
      <4>3. "pulling" \in Points /\ req \in [Reqs -> Handlers]
        BY DEF TypeOK, Points, Pulling
      <4>4. \A m \in HostSessions \union {None} :
              [req EXCEPT ![r].at = "pulling", ![r].msp = m] \in [Reqs -> Handlers]
        BY <4>3, LearnsType
      <4> QED
        BY <4>1, <4>2, <4>4
    <3>3. CASE Lists(r)
      <4>1. req' = [req EXCEPT ![r].at = "presenting", ![r].pulled = AsksOf(req[r].msp)]
        BY <3>3 DEF Lists
      <4>2. AsksOf(req[r].msp) \in SUBSET Asks
        BY DEF AsksOf
      <4>3. "presenting" \in Points /\ req \in [Reqs -> Handlers]
        BY DEF TypeOK, Points, Pulling
      <4>4. \A l \in SUBSET Asks :
              [req EXCEPT ![r].at = "presenting", ![r].pulled = l] \in [Reqs -> Handlers]
        BY <4>3, LearnsType
      <4> QED
        BY <4>1, <4>2, <4>4
    <3> QED
      BY <1>8, <3>1, <3>2, <3>3
  <2> QED
    BY <1>8, <2>1 DEF Pull, Lists, TypeOK
<1>10. ASSUME NEW r \in Reqs, Present(r) PROVE TypeOK'
  <2>1. CASE Ends(r) /\ UNCHANGED table
    <3>1. req' \in [Reqs -> Handlers]
      BY <2>1, BecomesKeeps DEF Ends, Points
    <3> QED
      BY <1>10, <2>1, <3>1 DEF Present, TypeOK
  <2>2. CASE ~(Ends(r) /\ UNCHANGED table)
    <3> DEFINE s == plan[r].sid
    <3>1. PICK a \in req[r].pulled :
            /\ req' = [req EXCEPT ![r].pulled = @ \ {a}]
            /\ table' = IF Open(s) THEN [table EXCEPT ![s].shown = @ \union {a}] ELSE table
      BY <1>10, <2>2 DEF Present
    <3>2. s \in Sids /\ a \in Asks
      BY <3>1 DEF TypeOK, Plan, Handlers
    <3>3. req' \in [Reqs -> Handlers]
      <4>1. req[r] \in Handlers
        BY DEF TypeOK
      <4>2. [req[r] EXCEPT !.pulled = @ \ {a}] \in Handlers
        BY <4>1 DEF Handlers
      <4> QED
        BY <3>1, <4>2 DEF TypeOK
    <3>4. table' \in [Sids -> Entry \union {None}]
      <4>1. CASE Open(s)
        <5>1. table[s] \in Entry
          BY <3>2, <4>1 DEF Open, TypeOK
        <5>2. table' = [table EXCEPT ![s].shown = @ \union {a}]
          BY <3>1, <4>1
        <5> QED
          BY <3>2, <5>1, <5>2 DEF Entry, TypeOK
      <4>2. CASE ~Open(s)
        BY <3>1, <4>2 DEF TypeOK
      <4> QED
        BY <4>1, <4>2
    <3> QED
      BY <1>10, <3>3, <3>4 DEF Present, TypeOK
  <2> QED
    BY <2>1, <2>2
<1>9. ASSUME NEW r \in Reqs, Apply(r) PROVE TypeOK'
  <2>1. req' \in [Reqs -> Handlers]
    BY <1>9, BecomesKeeps DEF Apply, Ends, Points
  <2>2. Told(r) \in Label
    BY ModeTypes DEF Told, TypeOK, Plan
  <2>3. plan[r].sid \in Sids
    BY DEF TypeOK, Plan
  <2>4. table' \in [Sids -> Entry \union {None}]
    <3>1. CASE Open(plan[r].sid)
      <4>1. table[plan[r].sid] \in Entry
        BY <2>3, <3>1 DEF Open, TypeOK
      <4>2. table' = [table EXCEPT ![plan[r].sid].label = Told(r)]
        BY <1>9, <3>1 DEF Apply
      <4> QED
        BY <2>2, <2>3, <4>1, <4>2 DEF Entry, TypeOK
    <3>2. CASE ~Open(plan[r].sid)
      BY <1>9, <3>2 DEF Apply, TypeOK
    <3> QED
      BY <3>1, <3>2
  <2> QED
    BY <1>9, <2>1, <2>4 DEF Apply, TypeOK
<1>11. ASSUME NEW r \in Reqs, Close(r) PROVE TypeOK'
  <2>1. req' \in [Reqs -> Handlers]
    BY <1>11, BecomesKeeps DEF Close, Ends, Points
  <2> QED
    BY <1>11, <2>1 DEF Close, TypeOK
<1>12. ASSUME NEW r \in Reqs, Rival(r) PROVE TypeOK'
  <2>1. req' \in [Reqs -> Handlers]
    BY <1>12, BecomesKeeps DEF Rival, Ends, Points
  <2>2. plan[r].msp \in HostSessions /\ Resolve(plan[r].value) \in Modes
    BY ModeTypes DEF TypeOK, Plan
  <2>3. ModeEvent(plan[r].msp, Resolve(plan[r].value)) \in Events
    BY <2>2 DEF ModeEvent, Events
  <2>4. obs' \in [Reqs -> Watchers]
    BY <1>12, <2>3, PostType DEF Rival, TypeOK
  <2>5. mode' \in [HostSessions -> Modes \union {None}]
    BY <1>12, <2>2 DEF Rival, TypeOK
  <2>6. raced' \subseteq HostSessions
    BY <1>12, <2>2 DEF Rival, TypeOK
  <2> QED
    BY <1>12, <2>1, <2>4, <2>5, <2>6 DEF Rival, TypeOK
<1>13. ASSUME NEW o \in Reqs, Subscribe(o) \/ Resubscribe(o) PROVE TypeOK'
  <2>1. obs[o] \in Watchers /\ gen \in Nat
    BY DEF TypeOK
  <2>2. \/ obs' = [obs EXCEPT ![o].at = "watching", ![o].gen = gen]
        \/ obs' = [obs EXCEPT ![o].gen = gen] \/ obs' = [obs EXCEPT ![o].at = "retired"]
    BY <1>13 DEF Subscribe, Resubscribe
  <2>3. /\ [obs[o] EXCEPT !.at = "watching", !.gen = gen] \in Watchers
        /\ [obs[o] EXCEPT !.gen = gen] \in Watchers
        /\ [obs[o] EXCEPT !.at = "retired"] \in Watchers
    BY <2>1 DEF Watchers
  <2>4. [obs EXCEPT ![o].at = "watching", ![o].gen = gen]
          = [obs EXCEPT ![o] = [obs[o] EXCEPT !.at = "watching", !.gen = gen]]
    BY DEF TypeOK
  <2>5. obs' \in [Reqs -> Watchers]
    BY <2>2, <2>3, <2>4 DEF TypeOK
  <2> QED
    BY <1>13, <2>5 DEF Subscribe, Resubscribe, TypeOK
<1>14. ASSUME NEW o \in Reqs, Observe(o) PROVE TypeOK'
  <2> DEFINE e == Head(obs[o].feed)
             s == obs[o].sid
             mine == Open(s) /\ table[s].msp = e.msp
  <2>1. obs[o] \in Watchers /\ obs[o].feed \in Seq(Events) /\ obs[o].feed # <<>>
    BY <1>14 DEF Observe, TypeOK, Watchers
  <2>2. e \in Events /\ Tail(obs[o].feed) \in Seq(Events)
    BY <2>1, HeadTailProperties
  <2>3. obs' \in [Reqs -> Watchers]
    <3>1. obs' = [obs EXCEPT ![o].feed = Tail(@), ![o].at = IF Open(s) THEN @ ELSE "retired"]
      BY <1>14 DEF Observe
    <3> QED
      BY <2>1, <2>2, <3>1 DEF TypeOK, Watchers
  <2>4. table' \in [Sids -> Entry \union {None}]
    <3>1. table' = CASE mine /\ e.kind = "mode" -> [table EXCEPT ![s].label = LabelOf(e.value)]
                     [] mine /\ e.kind = "ask"  -> [table EXCEPT ![s].shown = @ \union {e.value}]
                     [] OTHER                   -> table
      BY <1>14 DEF Observe
    <3> HIDE DEF e
    <3>2. CASE mine /\ e.kind = "mode" /\ s \in Sids
      <4>1. table[s] \in Entry /\ LabelOf(e.value) \in Label
        BY <3>2, ModeTypes DEF Open, TypeOK
      <4>2. table' = [table EXCEPT ![s].label = LabelOf(e.value)]
        BY <3>1, <3>2
      <4> QED
        BY <4>1, <4>2 DEF TypeOK, Entry
    <3>3. CASE mine /\ e.kind = "ask" /\ s \in Sids
      <4>1. table[s] \in Entry
        BY <3>3 DEF Open, TypeOK
      <4>2. e.value \in Asks
        BY <2>2, <3>3 DEF Events
      <4>3. table' = [table EXCEPT ![s].shown = @ \union {e.value}]
        BY <3>1, <3>3
      <4> QED
        BY <4>1, <4>2, <4>3 DEF TypeOK, Entry
    <3>4. CASE s \notin Sids
      <4>1. \A x : [table EXCEPT ![s].label = x] = table /\ [table EXCEPT ![s].shown = x] = table
        BY <3>4 DEF TypeOK
      <4> QED
        BY <3>1, <3>4 DEF TypeOK
    <3>5. CASE ~mine
      BY <3>1, <3>5 DEF TypeOK
    <3>6. e.kind \in {"mode", "ask"}
      BY <2>2 DEF Events
    <3> QED
      BY <3>2, <3>3, <3>4, <3>5, <3>6
  <2> QED
    BY <1>14, <2>3, <2>4 DEF Observe, TypeOK
<1>15. ASSUME NEW a \in Asks, NEW h \in HostSessions, Ask(a, h) PROVE TypeOK'
  <2>1. AskEvent(h, a) \in Events
    BY DEF AskEvent, Events
  <2>2. obs' \in [Reqs -> Watchers]
    BY <1>15, <2>1, PostType DEF Ask, TypeOK
  <2> QED
    BY <1>15, <2>2 DEF Ask, TypeOK
<1>16. ASSUME Die \/ Restart PROVE TypeOK'
  BY <1>16 DEF Die, Restart, TypeOK
<1>17. CASE UNCHANGED vars
  BY <1>17 DEF vars, TypeOK
<1> QED
  BY <1>1, <1>2, <1>3, <1>4, <1>5, <1>6, <1>7, <1>8, <1>9, <1>10, <1>11, <1>12, <1>13,
     <1>14, <1>15, <1>16, <1>17 DEF Next, Handle, Watch

(* A session that exists on the host keeps existing.                         *)
ModesKept == \A h \in HostSessions : mode[h] \in Modes => mode'[h] \in Modes

(* A step of one request leaves what the others have reached alone.          *)
LEMMA OthersReach ==
  ASSUME RegistryInv, NEW r \in Reqs, plan' = plan, ModesKept,
         \A q \in Reqs \ {r} : req'[q] = req[q], Reaches(r)'
  PROVE  \A q \in Reqs : Reaches(q)'
BY DEF RegistryInv, Reaches, ModesKept, HostSessions

(* A step that opens no session leaves the others backed by the host.        *)
LEMMA BackedKept ==
  ASSUME RegistryInv, ModesKept,
         \A s \in Sids : table'[s] # None => table[s] # None /\ table'[s].msp = table[s].msp
  PROVE  Backed'
<1> SUFFICES ASSUME NEW s \in Sids, table'[s] # None PROVE mode'[table'[s].msp] \in Modes
  BY DEF Backed, Open
<1>1. Open(s) /\ table'[s].msp = table[s].msp
  BY DEF Open
<1>2. table[s].msp \in HostSessions /\ mode[table[s].msp] \in Modes
  BY <1>1 DEF RegistryInv, Backed, Open, TypeOK, Entry
<1> QED
  BY <1>1, <1>2 DEF ModesKept

(* Every step keeps requests to the steps of their operation, and open       *)
(* sessions backed by the host.                                              *)
LEMMA ReachStep ==
  RegistryInv /\ [Next]_vars => (\A r \in Reqs : Reaches(r)') /\ Backed'
<1> DEFINE Goal == (\A r \in Reqs : Reaches(r)') /\ Backed'
<1> SUFFICES ASSUME RegistryInv, [Next]_vars PROVE Goal
  OBVIOUS
<1>t. TypeOK /\ \A r \in Reqs : Reaches(r)
  BY DEF RegistryInv
<1>m. mode' = mode => ModesKept
  BY DEF ModesKept
<1>b. table' = table /\ ModesKept => Backed'
  BY BackedKept
<1> USE DEF host
<1> HIDE DEF Goal
<1>1. ASSUME NEW r \in Reqs, Enter(r) PROVE Goal
  <2>0. req[r].at = "idle" /\ UNCHANGED <<plan, table, mode>>
    BY <1>1 DEF Enter, Sendable
  <2>1. CASE Ends(r)
    <3>1. plan[r].op \in Setting \/ req'[r].at = "entered"
      BY <1>1, <1>t DEF Enter, TypeOK, Handlers
    <3>2. req'[r].at = "done" /\ \A q \in Reqs \ {r} : req'[q] = req[q]
      BY <2>1, <1>t, BecomesKeeps DEF Ends, Points
    <3>3. Reaches(r)'
      BY <2>0, <3>1, <3>2 DEF Reaches, Setting, Pulling
    <3> QED
      BY <2>0, <3>2, <3>3, <1>m, <1>b, OthersReach DEF Goal
  <2>2. CASE ~Ends(r)
    <3> DEFINE m == IF plan[r].op = "new" THEN None
                    ELSE IF Open(plan[r].sid) THEN table[plan[r].sid].msp ELSE plan[r].msp
    <3>1. plan[r].op # "new" => m \in HostSessions
      BY <1>t DEF TypeOK, Plan, Open, Entry
    <3>2. req' = [req EXCEPT ![r].at = "entered", ![r].msp = m]
      BY <1>1, <2>2 DEF Enter
    <3> HIDE DEF m
    <3>3. /\ req'[r].at = "entered" /\ req'[r].msp = m
          /\ \A q \in Reqs \ {r} : req'[q] = req[q]
      BY <3>2, <1>t DEF TypeOK, Handlers
    <3>4. Reaches(r)'
      BY <2>0, <3>1, <3>3 DEF Reaches, Pulling
    <3> QED
      BY <2>0, <3>3, <3>4, <1>m, <1>b, OthersReach DEF Goal
  <2> QED
    BY <2>1, <2>2
<1>2. ASSUME NEW r \in Reqs, Connect(r) PROVE Goal
  <2>0. req[r].at \in {"entered", "pulling"} /\ UNCHANGED <<plan, table, mode>>
    BY <1>2 DEF Connect
  <2>1. /\ \/ req'[r].at = "done"
           \/ req'[r].at = "called" /\ req[r].at = "entered"
           \/ req'[r].at = "listing" /\ req[r].at = "pulling"
        /\ req'[r].msp = req[r].msp
        /\ \A q \in Reqs \ {r} : req'[q] = req[q]
    <3>1. CASE Ends(r)
      BY <3>1, <1>t, BecomesKeeps DEF Ends, Points
    <3>2. CASE ~Ends(r)
      <4>1. req' = [req EXCEPT ![r].at = IF @ = "entered" THEN "called" ELSE "listing",
                               ![r].gen = gen]
        BY <1>2, <3>2 DEF Connect
      <4> QED
        BY <2>0, <4>1, <1>t DEF TypeOK, Handlers
    <3> QED
      BY <3>1, <3>2
  <2>2. Reaches(r)'
    BY <2>0, <2>1, <1>t DEF Reaches, Pulling
  <2> QED
    BY <2>0, <2>1, <2>2, <1>m, <1>b, OthersReach DEF Goal
<1>3. ASSUME NEW r \in Reqs, Execute(r) PROVE Goal
  <2>0. req[r].at = "called" /\ UNCHANGED <<plan, table>>
    BY <1>3 DEF Execute
  <2>1. CASE plan[r].op \in Creating /\ Creates(r)
    <3>1. PICK m \in IF plan[r].op = "new" THEN Folds(r) ELSE {mode[req[r].msp]} :
            /\ mode' = [mode EXCEPT ![r] = m]
            /\ req' = [req EXCEPT ![r].at = "answered", ![r].msp = r, ![r].folded = m]
      BY <2>1 DEF Creates
    <3>2. m \in Modes
      <4>1. CASE plan[r].op = "new"
        BY <3>1, <4>1, ModeTypes
      <4>2. CASE plan[r].op # "new"
        <5>1. req[r].msp \in HostSessions
          BY <2>0, <2>1, <4>2, <1>t DEF Reaches, Creating
        <5>2. mode[req[r].msp] # None
          BY <1>3, <5>1, AcpRegistryAssumption DEF Execute, Exists, Sids
        <5> QED
          BY <3>1, <4>2, <5>1, <5>2, <1>t DEF TypeOK
      <4> QED
        BY <4>1, <4>2
    <3>3. r \in HostSessions
      BY DEF HostSessions
    <3>4. ModesKept /\ mode'[r] \in Modes
      BY <3>1, <3>2, <3>3, <1>t DEF TypeOK, ModesKept
    <3>5. /\ req'[r].at = "answered" /\ req'[r].msp = r
          /\ \A q \in Reqs \ {r} : req'[q] = req[q]
      BY <3>1, <1>t DEF TypeOK, Handlers
    <3>6. Reaches(r)'
      BY <2>0, <2>1, <3>4, <3>5 DEF Reaches, Creating, Pulling
    <3> QED
      BY <2>0, <3>4, <3>5, <3>6, <1>b, OthersReach DEF Goal
  <2>2. CASE plan[r].op \in Setting /\ Sets(r)
    <3>1. PICK m \in Folds(r) :
            /\ mode' = [mode EXCEPT ![req[r].msp] = m]
            /\ req' = [req EXCEPT ![r].at = "answered", ![r].folded = m]
      BY <2>2 DEF Sets
    <3>2. ModesKept
      BY <3>1, ModeTypes, <1>t DEF ModesKept, TypeOK
    <3>3. /\ req'[r].at = "answered"
          /\ \A q \in Reqs \ {r} : req'[q] = req[q]
      BY <3>1, <1>t DEF TypeOK, Handlers
    <3>4. Reaches(r)'
      BY <2>0, <2>2, <3>3 DEF Reaches, Setting, Creating, Pulling
    <3> QED
      BY <2>0, <3>2, <3>3, <3>4, <1>b, OthersReach DEF Goal
  <2>3. CASE plan[r].op = "resume" /\ Reads(r)
    <3>1. req[r].msp \in HostSessions
      BY <2>0, <2>3, <1>t DEF Reaches
    <3>2. mode[req[r].msp] \in Modes
      <4>1. mode[req[r].msp] # None
        BY <1>3, <3>1, AcpRegistryAssumption DEF Execute, Exists, Sids
      <4> QED
        BY <3>1, <4>1, <1>t DEF TypeOK
    <3>3. /\ req' = [req EXCEPT ![r].at = "answered", ![r].folded = mode[req[r].msp]]
          /\ mode' = mode
      BY <2>3 DEF Reads
    <3>4. /\ req'[r].at = "answered" /\ req'[r].msp = req[r].msp
          /\ req'[r].folded = mode[req[r].msp]
          /\ \A q \in Reqs \ {r} : req'[q] = req[q]
      BY <3>3, <1>t DEF TypeOK, Handlers
    <3>5. Reaches(r)'
      BY <2>0, <2>3, <3>1, <3>2, <3>3, <3>4 DEF Reaches, Creating, Pulling
    <3> QED
      BY <2>0, <3>3, <3>4, <3>5, <1>m, <1>b, OthersReach DEF Goal
  <2> QED
    BY <1>3, <2>1, <2>2, <2>3 DEF Execute
<1>4. ASSUME NEW r \in Reqs, Ends(r), UNCHANGED <<plan, table, mode>> PROVE Goal
  <2>1. req'[r].at = "done" /\ \A q \in Reqs \ {r} : req'[q] = req[q]
    BY <1>4, <1>t, BecomesKeeps DEF Ends, Points
  <2>2. Reaches(r)'
    BY <2>1 DEF Reaches, Pulling
  <2> QED
    BY <1>4, <2>1, <2>2, <1>m, <1>b, OthersReach DEF Goal
<1>5. ASSUME NEW r \in Reqs, Insert(r) \/ Fork(r) PROVE Goal
  <2>1. PICK label \in Label : Inserts(r, label)
    BY <1>5, ModeTypes DEF Insert, Fork
  <2>2. r \in HostSessions /\ r \in Sids
    BY DEF HostSessions, Sids
  <2>3. req[r].at = "answered" /\ plan[r].op \in {"new", "fork"}
    BY <1>5 DEF Insert, Fork
  <2>4. /\ req'[r].at = "done" /\ \A q \in Reqs \ {r} : req'[q] = req[q]
        /\ UNCHANGED <<plan, mode>>
    BY <2>1, <1>t, BecomesKeeps DEF Inserts, Ends, Points
  <2>5. Reaches(r)'
    BY <2>3, <2>4 DEF Reaches, Pulling
  <2>6. Backed'
    <3>1. mode[r] \in Modes
      BY <2>3, <1>t DEF Reaches, Creating
    <3>2. table' = [table EXCEPT ![r] = [msp |-> r, shown |-> {}, label |-> label]]
      BY <2>1 DEF Inserts
    <3>3. table'[r].msp = r /\ \A s \in Sids \ {r} : table'[s] = table[s]
      BY <2>2, <3>2, <1>t DEF TypeOK
    <3> QED
      BY <2>4, <3>1, <3>3 DEF Backed, Open, RegistryInv
  <2> QED
    BY <2>4, <2>5, <2>6, <1>m, OthersReach DEF Goal
<1>6. ASSUME NEW r \in Reqs, Check(r) PROVE Goal
  <2>0. req[r].at = "answered" /\ plan[r].op = "resume" /\ UNCHANGED <<plan, table, mode>>
    BY <1>6 DEF Check
  <2>1. req' = [req EXCEPT ![r].at = "checked", ![r].fresh = Fresh(plan[r].sid)]
    BY <1>6 DEF Check
  <2>2. /\ req'[r].at = "checked" /\ req'[r].msp = req[r].msp /\ req'[r].folded = req[r].folded
        /\ \A q \in Reqs \ {r} : req'[q] = req[q]
    BY <2>1, <1>t DEF TypeOK, Handlers
  <2>3. Reaches(r)'
    BY <2>0, <2>2, <1>t DEF Reaches, Creating, Pulling
  <2> QED
    BY <2>0, <2>2, <2>3, <1>m, <1>b, OthersReach DEF Goal
<1>7. ASSUME NEW r \in Reqs, Attach(r) PROVE Goal
  <2> DEFINE s == plan[r].sid
             entry == IF Open(s) THEN table[s] ELSE [msp |-> None, label |-> "ask", shown |-> {}]
             new == [entry EXCEPT !.msp = req[r].msp, !.label = Adopted(@, req[r].folded)]
  <2>0. req[r].at = "checked" /\ UNCHANGED <<plan, mode>>
    BY <1>7 DEF Attach
  <2>1. s \in Sids
    BY <1>t DEF TypeOK, Plan
  <2>2. /\ plan[r].op = "resume" /\ req[r].msp \in HostSessions
        /\ mode[req[r].msp] \in Modes /\ req[r].folded \in Modes
    BY <2>0, <1>t DEF Reaches
  <2>3. /\ req'[r].at = "attached" /\ \A q \in Reqs \ {r} : req'[q] = req[q]
    BY <1>7, <1>t, BecomesKeeps DEF Attach, Points, Pulling
  <2>4. Reaches(r)'
    BY <2>0, <2>2, <2>3 DEF Reaches, Pulling
  <2>5. Backed'
    <3>1. table' = [table EXCEPT ![s] = new]
      BY <1>7 DEF Attach
    <3>2. new.msp = req[r].msp
      <4>1. CASE Open(s)
        <5>1. table[s] \in Entry
          BY <2>1, <4>1, <1>t DEF Open, TypeOK
        <5> QED
          BY <4>1, <5>1 DEF Entry
      <4>2. CASE ~Open(s)
        BY <4>2
      <4> QED
        BY <4>1, <4>2
    <3> HIDE DEF new
    <3>3. table'[s].msp = req[r].msp /\ \A x \in Sids \ {s} : table'[x] = table[x]
      BY <2>1, <3>1, <3>2, <1>t DEF TypeOK
    <3> QED
      BY <2>0, <2>2, <3>3 DEF Backed, Open, RegistryInv
  <2> QED
    BY <2>0, <2>3, <2>4, <2>5, <1>m, OthersReach DEF Goal
<1>8. ASSUME NEW r \in Reqs, Apply(r) PROVE Goal
  <2>0. UNCHANGED <<plan, mode>> /\ Ends(r) /\ plan[r].sid \in Sids
    BY <1>8, <1>t DEF Apply, TypeOK, Plan
  <2>1. /\ req'[r].at = "done" /\ \A q \in Reqs \ {r} : req'[q] = req[q]
    BY <2>0, <1>t, BecomesKeeps DEF Ends, Points
  <2>2. Reaches(r)'
    BY <2>1 DEF Reaches, Pulling
  <2>3. \A s \in Sids : table'[s] # None => table[s] # None /\ table'[s].msp = table[s].msp
    <3>1. CASE table' = table
      BY <3>1
    <3>2. CASE Open(plan[r].sid) /\ \E x : table' = [table EXCEPT ![plan[r].sid].label = x]
      <4>1. table[plan[r].sid] \in Entry
        BY <2>0, <3>2, <1>t DEF Open, TypeOK
      <4> QED
        BY <2>0, <3>2, <4>1, <1>t DEF Open, TypeOK, Entry
    <3> QED
      BY <1>8, <3>1, <3>2 DEF Apply
  <2> QED
    BY <2>0, <2>1, <2>2, <2>3, <1>m, BackedKept, OthersReach DEF Goal
<1>9. ASSUME NEW r \in Reqs, Pull(r) \/ Lists(r), ~Ends(r) PROVE Goal
  <2>0. UNCHANGED <<plan, table, mode>> /\ req[r].at \in Pulling
    BY <1>9 DEF Pull, Lists, Pulling
  <2>1. req'[r].at \in Pulling /\ \A q \in Reqs \ {r} : req'[q] = req[q]
    <3>1. CASE Pull(r)
      <4>1. req' = [req EXCEPT ![r].at = "pulling", ![r].msp = table[plan[r].sid].msp]
        BY <1>9, <3>1 DEF Pull
      <4> QED
        BY <4>1, <1>t DEF TypeOK, Handlers, Pulling
    <3>2. CASE Lists(r)
      <4>1. req' = [req EXCEPT ![r].at = "presenting", ![r].pulled = AsksOf(req[r].msp)]
        BY <3>2 DEF Lists
      <4> QED
        BY <4>1, <1>t DEF TypeOK, Handlers, Pulling
    <3> QED
      BY <1>9, <3>1, <3>2
  <2>2. Reaches(r)'
    BY <2>0, <2>1, <1>t DEF Reaches, Pulling
  <2> QED
    BY <2>0, <2>1, <2>2, <1>m, <1>b, OthersReach DEF Goal
<1>14. ASSUME NEW r \in Reqs, Present(r), ~(Ends(r) /\ UNCHANGED table) PROVE Goal
  <2>0. UNCHANGED <<plan, mode>> /\ req[r].at = "presenting" /\ plan[r].sid \in Sids
    BY <1>14, <1>t DEF Present, TypeOK, Plan
  <2>1. PICK a \in req[r].pulled :
          /\ req' = [req EXCEPT ![r].pulled = @ \ {a}]
          /\ table' = IF Open(plan[r].sid)
                      THEN [table EXCEPT ![plan[r].sid].shown = @ \union {a}] ELSE table
    BY <1>14 DEF Present
  <2>2. req'[r].at = req[r].at /\ \A q \in Reqs \ {r} : req'[q] = req[q]
    BY <2>1, <1>t DEF TypeOK, Handlers
  <2>3. Reaches(r)'
    BY <2>0, <2>2, <1>t DEF Reaches, Pulling
  <2>4. \A s \in Sids : table'[s] # None => table[s] # None /\ table'[s].msp = table[s].msp
    <3>1. CASE ~Open(plan[r].sid)
      BY <2>1, <3>1
    <3>2. CASE Open(plan[r].sid)
      <4>1. table[plan[r].sid] \in Entry
        BY <2>0, <3>2, <1>t DEF Open, TypeOK
      <4> QED
        BY <2>0, <2>1, <3>2, <4>1, <1>t DEF Open, TypeOK, Entry
    <3> QED
      BY <3>1, <3>2
  <2> QED
    BY <2>0, <2>2, <2>3, <2>4, <1>m, BackedKept, OthersReach DEF Goal
<1>10. ASSUME NEW r \in Reqs, Close(r) \/ Rival(r) PROVE Goal
  <2>1. UNCHANGED plan /\ Ends(r) /\ plan[r].op \in {"close", "rival"}
    BY <1>10 DEF Close, Rival
  <2>2. /\ req'[r].at = "done" /\ \A q \in Reqs \ {r} : req'[q] = req[q]
    BY <2>1, <1>t, BecomesKeeps DEF Ends, Points
  <2>3. Reaches(r)'
    BY <2>1, <2>2 DEF Reaches, Pulling
  <2>4. ModesKept
    BY <1>10, ModeTypes, <1>t DEF Close, Rival, ModesKept, TypeOK
  <2>5. \A s \in Sids : table'[s] # None => table'[s] = table[s]
    BY <1>10, <1>t DEF Close, Rival, TypeOK
  <2> QED
    BY <2>1, <2>2, <2>3, <2>4, <2>5, BackedKept, OthersReach DEF Goal
<1>11. ASSUME UNCHANGED <<plan, req, mode>>,
              \A s \in Sids : table'[s] # None => table[s] # None /\ table'[s].msp = table[s].msp
       PROVE Goal
  <2>1. \A r \in Reqs : Reaches(r)'
    BY <1>11, <1>t DEF Reaches, Pulling
  <2> QED
    BY <1>11, <2>1, <1>m, BackedKept DEF Goal
<1>12. ASSUME NEW o \in Reqs, Observe(o) PROVE Goal
  <2> DEFINE s == obs[o].sid
  <2>1. UNCHANGED <<plan, req, mode>>
    BY <1>12 DEF Observe
  <2>2. \/ table' = table
        \/ Open(s) /\ \E x : \/ table' = [table EXCEPT ![s].shown = x]
                            \/ table' = [table EXCEPT ![s].label = x]
    BY <1>12 DEF Observe
  <2>3. \A x \in Sids : table'[x] # None => table[x] # None /\ table'[x].msp = table[x].msp
    <3>1. CASE s \in Sids /\ Open(s)
      <4>1. table[s] \in Entry
        BY <3>1, <1>t DEF Open, TypeOK
      <4>2. ASSUME NEW x, \/ table' = [table EXCEPT ![s].shown = x]
                          \/ table' = [table EXCEPT ![s].label = x]
            PROVE  table'[s].msp = table[s].msp /\ \A y \in Sids \ {s} : table'[y] = table[y]
        BY <3>1, <4>1, <4>2, <1>t DEF TypeOK, Entry
      <4> QED
        BY <2>2, <3>1, <4>2 DEF Open
    <3>2. CASE s \notin Sids
      <4>1. \A x : [table EXCEPT ![s].label = x] = table /\ [table EXCEPT ![s].shown = x] = table
        BY <3>2, <1>t DEF TypeOK
      <4> QED
        BY <2>2, <4>1
    <3>3. CASE ~Open(s)
      BY <2>2, <3>3
    <3> QED
      BY <3>1, <3>2, <3>3
  <2> QED
    BY <1>11, <2>1, <2>3
<1>13. ASSUME \/ \E o \in Reqs : Subscribe(o) \/ Resubscribe(o)
              \/ \E a \in Asks, h \in HostSessions : Ask(a, h)
              \/ Die \/ Restart \/ UNCHANGED vars
       PROVE Goal
  <2>1. UNCHANGED <<plan, req, mode, table>>
    BY <1>13 DEF Subscribe, Resubscribe, Ask, Die, Restart, vars
  <2> QED
    BY <1>11, <2>1
<1> QED
  <2>1. ASSUME NEW r \in Reqs, Fail(r) \/ Pull(r) \/ Lists(r) \/ Present(r) PROVE Goal
    <3>1. UNCHANGED <<plan, mode>>
      BY <2>1 DEF Fail, Pull, Lists, Present
    <3>2. CASE Ends(r) /\ UNCHANGED table
      BY <1>4, <3>1, <3>2
    <3>3. CASE ~(Ends(r) /\ UNCHANGED table)
      <4>1. Fail(r) \/ Pull(r) \/ Lists(r) => UNCHANGED table
        BY DEF Fail, Pull, Lists
      <4>2. Fail(r) => Ends(r)
        BY DEF Fail
      <4> QED
        BY <1>9, <1>14, <2>1, <3>3, <4>1, <4>2
    <3> QED
      BY <3>2, <3>3
  <2> QED
    BY <1>1, <1>2, <1>3, <1>5, <1>6, <1>7, <1>8, <1>10, <1>12, <1>13, <2>1
       DEF Next, Handle, Watch

(* What an observer or a handler writes into an entry does not close it.     *)
LEMMA OpenKept ==
  ASSUME TypeOK, NEW s \in Sids,
         \/ table' = table
         \/ Open(s) /\ \E x \in SUBSET Asks : table' = [table EXCEPT ![s].shown = x]
         \/ Open(s) /\ \E x \in Label : table' = [table EXCEPT ![s].label = x]
  PROVE  \A y \in Sids : Open(y) <=> Open(y)'
<1>1. CASE table' = table
  BY <1>1 DEF Open
<1>2. ASSUME Open(s), NEW x \in SUBSET Asks, table' = [table EXCEPT ![s].shown = x]
      PROVE  \A y \in Sids : Open(y) <=> Open(y)'
  <2>1. table[s] \in Entry
    BY <1>2 DEF Open, TypeOK
  <2>2. table'[s] \in Entry
    BY <1>2, <2>1 DEF Entry, TypeOK
  <2> QED
    BY <1>2, <2>2, AcpRegistryAssumption DEF Open, TypeOK
<1>3. ASSUME Open(s), NEW x \in Label, table' = [table EXCEPT ![s].label = x]
      PROVE  \A y \in Sids : Open(y) <=> Open(y)'
  <2>1. table[s] \in Entry
    BY <1>3 DEF Open, TypeOK
  <2>2. table'[s] \in Entry
    BY <1>3, <2>1 DEF Entry, TypeOK
  <2> QED
    BY <1>3, <2>2, AcpRegistryAssumption DEF Open, TypeOK
<1> QED
  BY <1>1, <1>2, <1>3

(* A step of a request that neither opens nor closes a session, and leaves   *)
(* the observers where they are.                                             *)
LEMMA QuietStep ==
  ASSUME ObserverInv, NEW r \in Reqs, plan' = plan, up' = up, gen' = gen,
         \A q \in Reqs \ {r} : req'[q] = req[q],
         \A o \in Reqs : obs'[o].at = obs[o].at /\ obs'[o].sid = obs[o].sid,
         \A s \in Sids : Open(s) <=> Open(s)',
         \A q \in Reqs : plan[q].sid \in Sids,
         req[r].at \in After => req'[r].at \in After,
         req'[r].at # "checked"
  PROVE  ObserverInv'
<1>1. Observed'
  BY DEF ObserverInv, Observed, Attending, Served, Lives
<1>2. SpawnedOnce'
  BY DEF ObserverInv, SpawnedOnce
<1>3. StaysKnown'
  BY DEF ObserverInv, StaysKnown
<1> QED
  BY <1>1, <1>2, <1>3 DEF ObserverInv

(* Every step keeps an observer for the open sessions, if a restart does not *)
(* outlast ready's deadline and clients wait for the answer about a session  *)
(* before they send another request about it.                                *)
LEMMA ObserverStep ==
  ASSUME "overlap" \notin Faults, Consistent(Plans),
         RegistryInv, ObserverInv, [Next]_vars
  PROVE  ObserverInv'
<1>t. TypeOK /\ \A r \in Reqs : Reaches(r) /\ plan[r].sid \in Sids
  BY DEF RegistryInv, TypeOK, Plan
<1> USE DEF host
<1>1. ASSUME NEW r \in Reqs, Enter(r) \/ Connect(r) \/ Fail(r) \/ Pull(r) \/ Lists(r)
      PROVE  ObserverInv'
  <2>1. UNCHANGED <<plan, table, obs, up, gen>>
    BY <1>1 DEF Enter, Connect, Fail, Pull, Lists
  <2>2. /\ req'[r].at # "checked" /\ \A q \in Reqs \ {r} : req'[q] = req[q]
        /\ req[r].at \in After => req'[r].at \in After
    <3>1. CASE Ends(r)
      BY <3>1, <1>t, BecomesKeeps DEF Ends, Points, After
    <3>2. CASE Enter(r) /\ ~Ends(r)
      <4>1. req[r].at = "idle" /\ \E m : req' = [req EXCEPT ![r].at = "entered", ![r].msp = m]
        BY <3>2 DEF Enter, Sendable
      <4> QED
        BY <4>1, <1>t DEF TypeOK, Handlers, After, Pulling
    <3>3. CASE Connect(r) /\ ~Ends(r)
      <4>1. /\ req[r].at \in {"entered", "pulling"}
            /\ req' = [req EXCEPT ![r].at = IF @ = "entered" THEN "called" ELSE "listing",
                                  ![r].gen = gen]
        BY <3>3 DEF Connect
      <4> QED
        BY <4>1, <1>t DEF TypeOK, Handlers, After, Pulling
    <3>4. CASE Pull(r) /\ ~Ends(r)
      <4>1. \E m : req' = [req EXCEPT ![r].at = "pulling", ![r].msp = m]
        BY <3>4 DEF Pull
      <4> QED
        BY <4>1, <1>t DEF TypeOK, Handlers, After, Pulling
    <3>5. CASE Lists(r)
      <4>1. \E a : req' = [req EXCEPT ![r].at = "presenting", ![r].pulled = a]
        BY <3>5 DEF Lists
      <4> QED
        BY <4>1, <1>t DEF TypeOK, Handlers, After, Pulling
    <3> QED
      BY <1>1, <3>1, <3>2, <3>3, <3>4, <3>5 DEF Fail
  <2>3. \A s \in Sids : Open(s) <=> Open(s)'
    BY <2>1 DEF Open
  <2> QED
    BY <2>1, <2>2, <2>3, <1>t, QuietStep
<1>2. ASSUME NEW r \in Reqs, Execute(r) PROVE ObserverInv'
  <2>1. UNCHANGED <<plan, table, up, gen>> /\ req[r].at = "called"
    BY <1>2 DEF Execute
  <2>2. req'[r].at = "answered" /\ \A q \in Reqs \ {r} : req'[q] = req[q]
    <3>1. \E m, f : \/ req' = [req EXCEPT ![r].at = "answered", ![r].msp = m, ![r].folded = f]
                   \/ req' = [req EXCEPT ![r].at = "answered", ![r].folded = f]
      BY <1>2 DEF Execute, Creates, Sets, Reads
    <3> QED
      BY <3>1, <1>t DEF TypeOK, Handlers
  <2>3. \A o \in Reqs : obs'[o].at = obs[o].at /\ obs'[o].sid = obs[o].sid
    <3>1. CASE UNCHANGED obs
      BY <3>1
    <3>2. CASE plan[r].op \in Setting /\ Sets(r)
      <4>1. PICK m \in Folds(r) : obs' = Post(ModeEvent(req[r].msp, m))
        BY <3>2 DEF Sets
      <4>2. req[r].msp \in HostSessions /\ m \in Modes
        BY <2>1, <3>2, <4>1, <1>t, ModeTypes DEF Reaches, Setting
      <4>3. ModeEvent(req[r].msp, m) \in Events
        BY <4>2 DEF ModeEvent, Events
      <4> QED
        BY <4>1, <4>3, <1>t, PostType DEF TypeOK
    <3> QED
      BY <1>2, <3>1, <3>2 DEF Execute, Creates, Reads
  <2>4. \A s \in Sids : Open(s) <=> Open(s)'
    BY <2>1 DEF Open
  <2> QED
    BY <2>1, <2>2, <2>3, <2>4, <1>t, QuietStep DEF After, Pulling
<1>3. ASSUME NEW r \in Reqs, NEW s \in Sids, NEW new, plan' = plan, up' = up, gen' = gen,
             obs' = Spawned(r, s), table' = [table EXCEPT ![s] = new], new # None,
             Becomes(r, "done") \/ Becomes(r, "attached"), req[r].at \in {"answered", "checked"}
      PROVE ObserverInv'
  <2>1. /\ req'[r].at \in {"done", "attached"}
        /\ \A q \in Reqs \ {r} : req'[q] = req[q]
    BY <1>3, <1>t DEF Becomes, TypeOK, Handlers
  <2>a. req'[r].at \in After
    BY <2>1 DEF After, Pulling
  <2>2. /\ obs'[r].at = "born" /\ obs'[r].sid = s
        /\ \A o \in Reqs \ {r} : obs'[o] = obs[o]
    BY <1>3, <1>t, SpawnType DEF TypeOK
  <2>3. obs[r].at = "none"
    BY <1>3 DEF ObserverInv, SpawnedOnce, After, Pulling
  <2>4. table'[s] = new /\ \A x \in Sids \ {s} : table'[x] = table[x]
    BY <1>3, <1>t DEF TypeOK
  <2>5. Observed'
    BY <1>3, <2>2, <2>3, <2>4 DEF ObserverInv, Observed, Attending, Open, Served, Lives
  <2>6. SpawnedOnce'
    BY <2>1, <2>2, <2>a DEF ObserverInv, SpawnedOnce
  <2>7. StaysKnown'
    BY <1>3, <1>t, <2>1, <2>4 DEF ObserverInv, StaysKnown, Open
  <2> QED
    BY <2>5, <2>6, <2>7 DEF ObserverInv
<1>4. ASSUME NEW r \in Reqs, Insert(r) \/ Fork(r) PROVE ObserverInv'
  <2>1. PICK label \in Label : Inserts(r, label)
    BY <1>4, ModeTypes DEF Insert, Fork
  <2> DEFINE new == [msp |-> r, shown |-> {}, label |-> label]
  <2>2. r \in Sids /\ new \in Entry
    BY DEF HostSessions, Sids, Entry
  <2>3. new # None
    BY <2>2, AcpRegistryAssumption
  <2>4. req[r].at = "answered"
    BY <1>4 DEF Insert, Fork
  <2>5. /\ UNCHANGED <<plan, up, gen>> /\ obs' = Spawned(r, r) /\ table' = [table EXCEPT ![r] = new]
        /\ Becomes(r, "done")
    BY <2>1 DEF Inserts, Ends
  <2> QED
    BY <1>3, <2>2, <2>3, <2>4, <2>5
<1>5. ASSUME NEW r \in Reqs, Check(r) PROVE ObserverInv'
  <2>1. /\ UNCHANGED <<plan, table, obs, up, gen>> /\ req[r].at = "answered"
        /\ req' = [req EXCEPT ![r].at = "checked", ![r].fresh = Fresh(plan[r].sid)]
    BY <1>5 DEF Check
  <2>2. /\ req'[r].at = "checked" /\ req'[r].fresh = Fresh(plan[r].sid)
        /\ \A q \in Reqs \ {r} : req'[q] = req[q]
    BY <2>1, <1>t DEF TypeOK, Handlers
  <2>3. Observed'
    BY <2>1 DEF ObserverInv, Observed, Attending, Open, Served, Lives
  <2>4. SpawnedOnce'
    BY <2>1, <2>2 DEF ObserverInv, SpawnedOnce, After, Pulling
  <2>5. StaysKnown'
    BY <2>1, <2>2 DEF ObserverInv, StaysKnown, Open, Fresh
  <2> QED
    BY <2>3, <2>4, <2>5 DEF ObserverInv
<1>6. ASSUME NEW r \in Reqs, Attach(r) PROVE ObserverInv'
  <2> DEFINE s == plan[r].sid
             entry == IF Open(s) THEN table[s] ELSE [msp |-> None, label |-> "ask", shown |-> {}]
             new == [entry EXCEPT !.msp = req[r].msp, !.label = Adopted(@, req[r].folded)]
  <2>1. /\ UNCHANGED <<plan, up, gen>> /\ req[r].at = "checked" /\ Becomes(r, "attached")
        /\ table' = [table EXCEPT ![s] = new]
        /\ obs' = IF req[r].fresh THEN Spawned(r, s) ELSE obs
    BY <1>6 DEF Attach
  <2>2. s \in Sids /\ req[r].msp \in HostSessions
    BY <2>1, <1>t DEF Reaches
  <2>3. new \in Entry
    <3>1. CASE Open(s)
      <4>1. table[s] \in Entry
        BY <2>2, <3>1, <1>t DEF Open, TypeOK
      <4>2. Adopted(table[s].label, req[r].folded) \in Label
        BY <4>1, ModeTypes DEF Entry
      <4> QED
        BY <2>2, <3>1, <4>1, <4>2 DEF Entry
    <3>2. CASE ~Open(s)
      <4>1. Adopted("ask", req[r].folded) \in Label
        BY ModeTypes DEF Label
      <4>2. new = [[msp |-> None, label |-> "ask", shown |-> {}]
                    EXCEPT !.msp = req[r].msp, !.label = Adopted("ask", req[r].folded)]
        BY <3>2
      <4> QED
        BY <2>2, <4>1, <4>2 DEF Entry
    <3> QED
      BY <3>1, <3>2
  <2>4. new # None
    BY <2>3, AcpRegistryAssumption
  <2> HIDE DEF new
  <2>5. CASE req[r].fresh
    BY <1>3, <2>1, <2>2, <2>4, <2>5
  <2>6. CASE ~req[r].fresh
    <3>1. Open(s)
      BY <2>1, <2>6 DEF ObserverInv, StaysKnown
    <3>2. \A x \in Sids : Open(x) <=> Open(x)'
      BY <2>1, <2>2, <2>4, <3>1, <1>t DEF Open, TypeOK
    <3>3. req'[r].at = "attached" /\ \A q \in Reqs \ {r} : req'[q] = req[q]
      BY <2>1, <1>t DEF Becomes, TypeOK, Handlers
    <3> QED
      BY <2>1, <2>6, <3>2, <3>3, <1>t, QuietStep DEF After, Pulling
  <2> QED
    BY <2>5, <2>6
<1>7. ASSUME NEW r \in Reqs, Present(r) \/ Apply(r) PROVE ObserverInv'
  <2>1. UNCHANGED <<plan, obs, up, gen>> /\ plan[r].sid \in Sids
    BY <1>7, <1>t DEF Present, Apply
  <2>2. /\ req'[r].at # "checked" /\ \A q \in Reqs \ {r} : req'[q] = req[q]
        /\ req[r].at \in After => req'[r].at \in After
    <3>1. CASE Ends(r)
      BY <3>1, <1>t, BecomesKeeps DEF Ends, Points, After
    <3>2. CASE ~Ends(r)
      <4>1. req[r].at = "presenting" /\ \E a : req' = [req EXCEPT ![r].pulled = a]
        BY <1>7, <3>2 DEF Present, Apply
      <4> QED
        BY <4>1, <1>t DEF TypeOK, Handlers
    <3> QED
      BY <3>1, <3>2
  <2>3. \A y \in Sids : Open(y) <=> Open(y)'
    <3> DEFINE s == plan[r].sid
    <3>1. CASE Present(r) /\ table' # table
      <4>1. PICK a \in req[r].pulled :
              table' = IF Open(s) THEN [table EXCEPT ![s].shown = @ \union {a}] ELSE table
        BY <3>1 DEF Present
      <4>2. Open(s) /\ table' = [table EXCEPT ![s].shown = table[s].shown \union {a}]
        BY <3>1, <4>1
      <4>3. table[s].shown \union {a} \in SUBSET Asks
        <5>1. a \in Asks
          BY <4>1, <1>t DEF TypeOK, Handlers
        <5>2. table[s] \in Entry
          BY <2>1, <4>2, <1>t DEF Open, TypeOK
        <5> QED
          BY <5>1, <5>2 DEF Entry
      <4> QED
        BY <2>1, <4>2, <4>3, <1>t, OpenKept
    <3>2. CASE Open(s) /\ table' = [table EXCEPT ![s].label = Told(r)]
      <4>1. Told(r) \in Label
        BY ModeTypes DEF Told
      <4> QED
        BY <2>1, <3>2, <4>1, <1>t, OpenKept
    <3>3. CASE UNCHANGED table
      BY <3>3 DEF Open
    <3> QED
      BY <1>7, <3>1, <3>2, <3>3 DEF Apply
  <2> QED
    BY <2>1, <2>2, <2>3, <1>t, QuietStep
<1>8. ASSUME NEW r \in Reqs, Close(r) PROVE ObserverInv'
  <2>1. /\ UNCHANGED <<plan, obs, up, gen>> /\ Becomes(r, "done") /\ Sendable(r)
        /\ plan[r].op = "close" /\ table' = [table EXCEPT ![plan[r].sid] = None]
    BY <1>8 DEF Close, Ends
  <2>2. req'[r].at = "done" /\ \A q \in Reqs \ {r} : req'[q] = req[q]
    BY <2>1, <1>t DEF Becomes, TypeOK, Handlers
  <2>3. table'[plan[r].sid] = None /\ \A x \in Sids \ {plan[r].sid} : table'[x] = table[x]
    BY <2>1, <1>t DEF TypeOK
  <2>4. Observed'
    BY <2>1, <2>3 DEF ObserverInv, Observed, Attending, Open, Served, Lives
  <2>5. SpawnedOnce'
    BY <2>1, <2>2 DEF ObserverInv, SpawnedOnce, After
  <2>6. ASSUME NEW q \in Reqs \ {r}, req[q].at = "checked" PROVE plan[q].sid # plan[r].sid
    <3>1. plan[q].op = "resume" /\ Busy(q)
      BY <2>6, <1>t DEF Reaches, Busy
    <3>2. plan[q].msp # plan[r].msp
      BY <1>8, <2>1, <2>6, <3>1 DEF Sendable, Creating
    <3>3. plan \in Plans
      BY <1>t DEF TypeOK
    <3> QED
      BY <2>1, <3>1, <3>2, <3>3 DEF Consistent
  <2>7. StaysKnown'
    BY <2>1, <2>2, <2>3, <2>6, <1>t DEF ObserverInv, StaysKnown, Open
  <2> QED
    BY <2>4, <2>5, <2>7 DEF ObserverInv
<1>9. ASSUME NEW r \in Reqs, Rival(r) PROVE ObserverInv'
  <2>1. UNCHANGED <<plan, table, up, gen>> /\ Becomes(r, "done")
    BY <1>9 DEF Rival, Ends
  <2>2. req'[r].at = "done" /\ \A q \in Reqs \ {r} : req'[q] = req[q]
    BY <2>1, <1>t DEF Becomes, TypeOK, Handlers
  <2>3. ModeEvent(plan[r].msp, Resolve(plan[r].value)) \in Events
    BY ModeTypes, <1>t DEF TypeOK, Plan, ModeEvent, Events
  <2>4. \A o \in Reqs : obs'[o].at = obs[o].at /\ obs'[o].sid = obs[o].sid
    BY <1>9, <2>3, <1>t, PostType DEF Rival, TypeOK
  <2>5. \A s \in Sids : Open(s) <=> Open(s)'
    BY <2>1 DEF Open
  <2> QED
    BY <2>1, <2>2, <2>4, <2>5, <1>t, QuietStep DEF After
<1>10. ASSUME UNCHANGED <<plan, req>>, Served' => Served,
              \A s \in Sids : Open(s) <=> Open(s)',
              \A o \in Reqs : obs[o].at = "none" => obs'[o].at = "none",
              \A o \in Reqs, s \in Sids :
                Open(s) /\ Served' /\ Attending(o, s) => Attending(o, s)'
       PROVE ObserverInv'
  <2>1. Observed'
    BY <1>10 DEF ObserverInv, Observed
  <2>2. SpawnedOnce'
    BY <1>10 DEF ObserverInv, SpawnedOnce
  <2>3. StaysKnown'
    BY <1>10, <1>t DEF ObserverInv, StaysKnown
  <2> QED
    BY <2>1, <2>2, <2>3 DEF ObserverInv
<1>11. ASSUME NEW o \in Reqs, Subscribe(o) \/ Resubscribe(o) PROVE ObserverInv'
  <2>1. UNCHANGED <<plan, req, table, up, gen>> /\ obs[o].at \in {"born", "watching"}
    BY <1>11 DEF Subscribe, Resubscribe, Closed
  <2>2. \/ obs' = [obs EXCEPT ![o].at = "watching", ![o].gen = gen]
        \/ obs' = [obs EXCEPT ![o].gen = gen]
        \/ ~Served /\ obs' = [obs EXCEPT ![o].at = "retired"]
    BY <1>11 DEF Subscribe, Resubscribe, Served, Lives
  <2>3. /\ obs'[o].sid = obs[o].sid
        /\ Served => obs'[o].at \in {"born", "watching"}
        /\ \A x \in Reqs \ {o} : obs'[x] = obs[x]
    BY <2>1, <2>2, <1>t DEF TypeOK, Watchers
  <2>4. \A s \in Sids : Open(s) <=> Open(s)'
    BY <2>1 DEF Open
  <2> QED
    BY <1>10, <2>1, <2>3, <2>4 DEF Attending, Served, Lives
<1>12. ASSUME NEW o \in Reqs, Observe(o) PROVE ObserverInv'
  <2> DEFINE e == Head(obs[o].feed)
             s == obs[o].sid
             mine == Open(s) /\ table[s].msp = e.msp
  <2>1. /\ UNCHANGED <<plan, req, up, gen>> /\ obs[o].at = "watching"
        /\ obs' = [obs EXCEPT ![o].feed = Tail(@), ![o].at = IF Open(s) THEN @ ELSE "retired"]
    BY <1>12 DEF Observe
  <2>2. /\ obs'[o].sid = s /\ (Open(s) => obs'[o].at = "watching")
        /\ \A x \in Reqs \ {o} : obs'[x] = obs[x]
    BY <2>1, <1>t DEF TypeOK, Watchers
  <2>3. \A y \in Sids : Open(y) <=> Open(y)'
    <3>1. table' = CASE mine /\ e.kind = "mode" -> [table EXCEPT ![s].label = LabelOf(e.value)]
                     [] mine /\ e.kind = "ask"  -> [table EXCEPT ![s].shown = @ \union {e.value}]
                     [] OTHER                   -> table
      BY <1>12 DEF Observe
    <3>2. e \in Events
      <4>1. obs[o].feed \in Seq(Events) /\ obs[o].feed # <<>>
        BY <1>12, <1>t DEF Observe, TypeOK, Watchers
      <4> QED
        BY <4>1, HeadTailProperties
    <3> HIDE DEF e
    <3>3. CASE mine /\ e.kind = "mode" /\ s \in Sids
      <4>1. LabelOf(e.value) \in Label /\ table' = [table EXCEPT ![s].label = LabelOf(e.value)]
        BY <3>1, <3>3, ModeTypes
      <4> QED
        BY <3>3, <4>1, <1>t, OpenKept
    <3>4. CASE mine /\ e.kind = "ask" /\ s \in Sids
      <4>1. table[s].shown \union {e.value} \in SUBSET Asks
        BY <3>2, <3>4, <1>t DEF Events, Open, TypeOK, Entry
      <4>2. table' = [table EXCEPT ![s].shown = table[s].shown \union {e.value}]
        BY <3>1, <3>4
      <4> QED
        BY <3>4, <4>1, <4>2, <1>t, OpenKept
    <3>5. CASE s \notin Sids
      <4>1. \A x : [table EXCEPT ![s].label = x] = table /\ [table EXCEPT ![s].shown = x] = table
        BY <3>5, <1>t DEF TypeOK
      <4>2. table' = table
        BY <3>1, <4>1
      <4> QED
        BY <4>2 DEF Open
    <3>6. CASE ~mine
      BY <3>1, <3>6 DEF Open
    <3>7. e.kind \in {"mode", "ask"}
      BY <3>2 DEF Events
    <3> QED
      BY <3>3, <3>4, <3>5, <3>6, <3>7
  <2> QED
    BY <1>10, <2>1, <2>2, <2>3 DEF Attending, Served, Lives
<1>13. ASSUME NEW a \in Asks, NEW h \in HostSessions, Ask(a, h) PROVE ObserverInv'
  <2>1. UNCHANGED <<plan, req, table, up, gen>> /\ obs' = Post(AskEvent(h, a))
    BY <1>13 DEF Ask
  <2>2. AskEvent(h, a) \in Events
    BY DEF AskEvent, Events
  <2>3. \A o \in Reqs : obs'[o].at = obs[o].at /\ obs'[o].sid = obs[o].sid
    BY <2>1, <2>2, <1>t, PostType DEF TypeOK
  <2> QED
    BY <1>10, <2>1, <2>3 DEF Attending, Open, Served, Lives
<1>14. ASSUME Die \/ Restart \/ UNCHANGED vars PROVE ObserverInv'
  <2>1. UNCHANGED <<plan, req, table, obs>> /\ (Served' => Served)
    BY <1>14, <1>t DEF Die, Restart, vars, Served, Lives, TypeOK
  <2> QED
    BY <1>10, <2>1 DEF Attending, Open
<1> QED
  BY <1>1, <1>2, <1>4, <1>5, <1>6, <1>7, <1>8, <1>9, <1>11, <1>12, <1>13, <1>14
     DEF Next, Handle, Watch

-----------------------------------------------------------------------------
(* Which ids stand for which host sessions.                                  *)
LEMMA HostNames ==
  ASSUME NEW F \in [Stale -> Durable]
  PROVE  /\ \A s \in Sids : HostOf(F, s) \in HostSessions
         /\ \A s \in Sids, r \in Reqs : HostOf(F, s) = r => s = r
         /\ \A r \in Reqs : HostOf(F, r) = r /\ r \in Sids
BY AcpRegistryAssumption DEF HostOf, Sids, HostSessions

LEMMA WorkingNames ==
  ASSUME NEW F, NamedBy(F), TypeOK, NEW r \in Reqs, Working(r)
  PROVE  plan[r].msp = HostOf(F, plan[r].sid)
BY DEF NamedBy, TypeOK, Working

(* A label that was adopted or granted stands for the mode it was told.      *)
LEMMA LabelsStand ==
  ASSUME NEW m
  PROVE  /\ Stands(LabelOf(m), m)
         /\ \A l : Stands(Granted(l, m), m)
         /\ \A l \in Label : Stands(Adopted(l, m), m)
<1>1. Stands(LabelOf(m), m)
  BY DEF Stands
<1>2. \A l : Stands(Granted(l, m), m)
  BY <1>1 DEF Granted, HostMode, LabelOf, Stands
<1>3. \A l \in Label : Stands(Adopted(l, m), m)
  <2> SUFFICES ASSUME NEW l \in Label, HostMode(l) = m PROVE Stands(l, m)
    BY <1>1 DEF Adopted
  <2>1. HostMode(LabelOf(m)) = m
    BY DEF Label, HostMode, LabelOf
  <2> QED
    BY <2>1 DEF Stands
<1> QED
  BY <1>1, <1>2, <1>3

(* A send that pushes nothing out adds its event to the feed.                *)
ExtendedBy(feed, longer, e) ==
  /\ Len(longer) \in {Len(feed), Len(feed) + 1} /\ Len(longer) \in 1..Ring
  /\ longer[Len(longer)] = e
  /\ \A i \in 1..Len(feed) : longer[i] = feed[i]

LEMMA PushExtends ==
  ASSUME NEW feed \in Seq(Events), NEW e \in Events, Len(feed) <= Ring,
         Len(feed) = Ring => Push(feed, e) = feed \/ Len(Push(feed, e)) < Ring
  PROVE  ExtendedBy(feed, Push(feed, e), e)
<1> DEFINE longer == Append(feed, e)
<1>1. /\ longer \in Seq(Events) /\ longer # <<>> /\ Len(longer) = Len(feed) + 1
      /\ longer[Len(feed) + 1] = e /\ \A i \in 1..Len(feed) : longer[i] = feed[i]
  BY AppendProperties
<1>2. Push(feed, e) = IF Len(longer) > Ring THEN Tail(longer) ELSE longer
  BY DEF Push
<1>3. Len(feed) \in Nat /\ Ring \in Nat \ {0}
  BY AcpRegistryAssumption, LenProperties
<1> HIDE DEF longer
<1>4. CASE Len(feed) < Ring
  BY <1>1, <1>2, <1>3, <1>4 DEF ExtendedBy
<1>5. CASE Len(feed) = Ring
  <2>1. Push(feed, e) = Tail(longer)
    BY <1>1, <1>2, <1>3, <1>5
  <2>2. /\ Len(Tail(longer)) = Len(longer) - 1
        /\ \A i \in 1..Len(Tail(longer)) : Tail(longer)[i] = longer[i + 1]
    BY <1>1, HeadTailProperties
  <2>3. Push(feed, e) = feed
    BY <1>1, <1>3, <1>5, <2>1, <2>2
  <2>4. feed[Len(feed)] = e
    BY <1>1, <1>3, <1>5, <2>1, <2>2, <2>3
  <2> QED
    BY <1>3, <1>5, <2>3, <2>4 DEF ExtendedBy
<1> QED
  BY <1>3, <1>4, <1>5

(* A send reaches every receiver of the host in service, and no other.       *)
LEMMA PostExtends ==
  ASSUME TypeOK, FeedsInv, Unspilled, NEW e \in Events, obs' = Post(e), NEW o \in Reqs
  PROVE  /\ obs'[o].at = obs[o].at /\ obs'[o].sid = obs[o].sid /\ obs'[o].gen = obs[o].gen
         /\ obs[o].at = "watching" /\ obs[o].gen = gen =>
              ExtendedBy(obs[o].feed, obs'[o].feed, e)
         /\ ~(obs[o].at = "watching" /\ obs[o].gen = gen) => obs'[o] = obs[o]
<1>1. obs[o] \in Watchers /\ obs[o].feed \in Seq(Events)
  BY DEF TypeOK, Watchers
<1>2. obs'[o] = IF obs[o].at = "watching" /\ obs[o].gen = gen
                THEN [obs[o] EXCEPT !.feed = Push(@, e)] ELSE obs[o]
  BY DEF Post
<1>3. CASE obs[o].at = "watching" /\ obs[o].gen = gen
  <2>1. obs'[o].feed = Push(obs[o].feed, e)
    BY <1>1, <1>2, <1>3 DEF Watchers
  <2>2. Len(obs[o].feed) <= Ring
    BY DEF FeedsInv, Sound
  <2>3. ExtendedBy(obs[o].feed, Push(obs[o].feed, e), e)
    BY <1>1, <2>1, <2>2, PushExtends DEF Unspilled
  <2>4. obs'[o].at = obs[o].at /\ obs'[o].sid = obs[o].sid /\ obs'[o].gen = obs[o].gen
    BY <1>1, <1>2, <1>3 DEF Watchers
  <2> QED
    BY <1>3, <2>1, <2>3, <2>4
<1>4. CASE ~(obs[o].at = "watching" /\ obs[o].gen = gen)
  BY <1>2, <1>4
<1> QED
  BY <1>3, <1>4

(* A handler that goes on, or is done, with what it was told.                *)
LEMMA RequestsKept ==
  ASSUME NEW F, RequestsInv(F), TypeOK, plan' = plan, mode' = mode, raced' = raced,
         NEW r \in Reqs,
         \A q \in Reqs \ {r} : req'[q] = req[q],
         \/ req'[r].msp = req[r].msp
         \/ req'[r].at = "pulling" /\ req'[r].msp = HostOf(F, plan[r].sid),
         req'[r].folded = req[r].folded,
         Busy(r)' => Busy(r), req[r].at = "done" => req'[r].at = "done",
         req'[r].at \in Early => req[r].at \in Early,
         req'[r].at # "answered",
         req'[r].at = "checked" => plan[r].op = "resume" /\ req[r].at = "answered"
  PROVE  RequestsInv(F)'
<1>1. \A q \in Reqs : Working(q)' => Working(q)
  BY DEF Working, Busy
<1>2. \A q \in Reqs : plan[q].sid \in Reqs /\ req[plan[q].sid].at = "done" =>
                        req'[plan[q].sid].at = "done"
  OBVIOUS
<1>3. Named(F)'
  BY <1>1 DEF RequestsInv, Named, HostOf
<1>4. Alone'
  BY <1>1 DEF RequestsInv, Alone
<1>5. Introduced'
  BY <1>1, <1>2 DEF RequestsInv, Introduced
<1>6. \A q \in Reqs : Echoes(q)'
  <2>1. Echoes(r)'
    BY DEF RequestsInv, Echoes
  <2>2. \A q \in Reqs \ {r} : Echoes(q)'
    BY DEF RequestsInv, Echoes, Told
  <2> QED
    BY <2>1, <2>2
<1>7. Uncreated'
  BY DEF RequestsInv, Uncreated
<1> QED
  BY <1>3, <1>4, <1>5, <1>6, <1>7 DEF RequestsInv

(* A mode that changes in a session is no other request's.                   *)
LEMMA ModesApart ==
  ASSUME NEW F \in [Stale -> Durable], NamedBy(F), RequestsInv(F), RegistryInv,
         NEW s \in Sids, s \in Reqs => req[s].at = "done",
         NEW q \in Reqs, Working(q) => plan[q].msp # HostOf(F, s)
  PROVE  /\ Working(q) => req[q].msp # HostOf(F, s)
         /\ req[q].at # "done" => q # HostOf(F, s)
<1>1. Working(q) => req[q].msp = plan[q].msp
  BY WorkingNames DEF RequestsInv, Named, RegistryInv
<1>2. q = HostOf(F, s) => s = q
  BY HostNames
<1> QED
  BY <1>1, <1>2

(* A command changes the mode of one session, and of it only the request     *)
(* that did so knows.                                                        *)
LEMMA ModeSet ==
  ASSUME NEW F \in [Stale -> Durable], NamedBy(F), RequestsInv(F), RegistryInv,
         plan' = plan, raced' = raced, NEW r \in Reqs, NEW s \in Sids, NEW m,
         s \in Reqs => req[s].at = "done",
         \A q \in Reqs \ {r} : Working(q) => plan[q].msp # HostOf(F, s),
         mode' = [mode EXCEPT ![HostOf(F, s)] = m],
         \A q \in Reqs \ {r} : req'[q] = req[q],
         req[r].at \in Early, req'[r].at \notin Early, Echoes(r)',
         req'[r].msp = req[r].msp, Working(r)' => Working(r)
  PROVE  RequestsInv(F)'
<1>1. \A q \in Reqs : Working(q)' => Working(q)
  BY DEF Working, Busy
<1>2. \A q \in Reqs : req[q].at = "done" => req'[q].at = "done"
  BY DEF Early
<1>3. Named(F)'
  BY <1>1 DEF RequestsInv, Named
<1>4. Alone'
  BY <1>1 DEF RequestsInv, Alone
<1>5. Introduced'
  BY <1>1, <1>2 DEF RequestsInv, Introduced
<1>6. ASSUME NEW q \in Reqs \ {r} PROVE Echoes(q)'
  <2>1. Working(q) => req[q].msp # HostOf(F, s)
    BY <1>6, ModesApart
  <2>2. req[q].at # "done" => q # HostOf(F, s)
    BY <1>6, ModesApart
  <2>3. req[q].at \in {"answered", "checked"} => Busy(q)
    BY DEF Busy
  <2>4. plan[q].op = "resume" /\ req[q].at \in {"answered", "checked"} => Working(q)
    BY <2>3 DEF Working
  <2>5. plan[q].op \in Setting /\ req[q].at = "answered" => Working(q)
    BY <2>3 DEF Working
  <2>6. /\ req[q].at # "done" => mode'[q] = mode[q]
        /\ Working(q) => mode'[req[q].msp] = mode[req[q].msp]
    BY <2>1, <2>2 DEF RegistryInv, TypeOK
  <2> QED
    BY <2>4, <2>5, <2>6 DEF RequestsInv, Echoes, Told
<1>7. Uncreated'
  <2> SUFFICES ASSUME NEW q \in Reqs, req'[q].at \in Early PROVE mode'[q] = None
    BY DEF Uncreated
  <2>1. q # r /\ req[q].at \in Early /\ mode[q] = None
    BY DEF RequestsInv, Uncreated
  <2>2. q # HostOf(F, s)
    BY <2>1, ModesApart DEF Early
  <2> QED
    BY <2>1, <2>2 DEF RegistryInv, TypeOK
<1> QED
  BY <1>3, <1>4, <1>5, <1>6, <1>7 DEF RequestsInv

(* What a handler's step leaves: the other requests, and its own session.    *)
LEMMA HandlerMoves ==
  ASSUME RegistryInv, NEW r \in Reqs,
         Connect(r) \/ Fail(r) \/ Insert(r) \/ Fork(r) \/ Check(r) \/ Attach(r) \/ Pull(r)
           \/ Lists(r) \/ Present(r) \/ Apply(r) \/ Close(r)
  PROVE  /\ plan' = plan /\ mode' = mode /\ raced' = raced
         /\ \A q \in Reqs \ {r} : req'[q] = req[q]
         /\ \/ req'[r].msp = req[r].msp
            \/ /\ req'[r].at = "pulling" /\ req[r].at = "attached" /\ Open(plan[r].sid)
               /\ req'[r].msp = table[plan[r].sid].msp
         /\ req'[r].folded = req[r].folded
         /\ Busy(r)' => Busy(r)
         /\ req[r].at # "done"
         /\ req'[r].at \in Early => req[r].at \in Early
         /\ req'[r].at # "answered"
         /\ req'[r].at = "checked" => plan[r].op = "resume" /\ req[r].at = "answered"
<1> USE DEF host, Busy, Early
<1>t. TypeOK
  BY DEF RegistryInv
<1>1. plan' = plan /\ mode' = mode /\ raced' = raced
  BY DEF Connect, Fail, Insert, Fork, Inserts, Check, Attach, Pull, Lists, Present, Apply, Close
<1>2. CASE Ends(r)
  <2>1. (req[r].at # "done" /\ req[r].at # "idle") \/ Close(r)
    BY DEF Connect, Fail, Insert, Fork, Check, Attach, Pull, Lists, Present, Apply
  <2>2. req[r].at # "done"
    BY <2>1 DEF Close, Sendable
  <2> QED
    BY <1>1, <1>2, <1>t, <2>2, BecomesKeeps DEF Ends, Points
<1>3. CASE Connect(r) /\ ~Ends(r)
  <2>1. /\ req[r].at \in {"entered", "pulling"}
        /\ req' = [req EXCEPT ![r].at = IF @ = "entered" THEN "called" ELSE "listing",
                              ![r].gen = gen]
    BY <1>3 DEF Connect
  <2> QED
    BY <1>1, <1>t, <2>1 DEF TypeOK, Handlers
<1>4. CASE Check(r)
  <2>1. \E f : req' = [req EXCEPT ![r].at = "checked", ![r].fresh = f]
    BY <1>4 DEF Check
  <2>2. req[r].at = "answered" /\ plan[r].op = "resume"
    BY <1>4 DEF Check
  <2> QED
    BY <1>1, <1>t, <2>1, <2>2 DEF TypeOK, Handlers
<1>5. CASE Attach(r)
  <2>1. req[r].at = "checked" /\ Becomes(r, "attached")
    BY <1>5 DEF Attach
  <2> QED
    BY <1>1, <1>t, <2>1, BecomesKeeps DEF Points, Pulling
<1>6. CASE Pull(r) /\ ~Ends(r)
  <2>1. /\ req[r].at = "attached" /\ Open(plan[r].sid)
        /\ req' = [req EXCEPT ![r].at = "pulling", ![r].msp = table[plan[r].sid].msp]
    BY <1>6 DEF Pull
  <2> QED
    BY <1>1, <1>t, <2>1 DEF TypeOK, Handlers
<1>7. CASE Lists(r)
  <2>1. req[r].at = "listing" /\ \E a : req' = [req EXCEPT ![r].at = "presenting", ![r].pulled = a]
    BY <1>7 DEF Lists
  <2> QED
    BY <1>1, <1>t, <2>1 DEF TypeOK, Handlers
<1>8. CASE Present(r) /\ ~Ends(r)
  <2>1. req[r].at = "presenting" /\ \E a : req' = [req EXCEPT ![r].pulled = a]
    BY <1>8 DEF Present
  <2> QED
    BY <1>1, <1>t, <2>1 DEF TypeOK, Handlers
<1> QED
  BY <1>2, <1>3, <1>4, <1>5, <1>6, <1>7, <1>8 DEF Fail, Insert, Fork, Inserts, Apply, Close

(* A request that is sent is alone with its session, by the client's rule.   *)
LEMMA EnterStep ==
  ASSUME NEW F \in [Stale -> Durable], NamedBy(F), "overlap" \notin Faults,
         RequestsInv(F), TableNames(F), RegistryInv, NEW r \in Reqs, Enter(r)
  PROVE  RequestsInv(F)'
<1> USE DEF host
<1>t. TypeOK
  BY DEF RegistryInv
<1>1. /\ Sendable(r) /\ plan[r].op \notin {"close", "rival"} /\ req[r].at = "idle"
      /\ UNCHANGED <<plan, table, mode, raced>>
  BY DEF Enter, Sendable
<1>2. CASE Ends(r)
  BY <1>1, <1>2, <1>t, BecomesKeeps, RequestsKept DEF Ends, Points, Busy, Early
<1>3. CASE ~Ends(r)
  <2> DEFINE m == IF plan[r].op = "new" THEN None
                  ELSE IF Open(plan[r].sid) THEN table[plan[r].sid].msp ELSE plan[r].msp
  <2>1. req' = [req EXCEPT ![r].at = "entered", ![r].msp = m]
    BY <1>3 DEF Enter
  <2>2. plan[r].sid \in Sids /\ plan \in Plans
    BY <1>t DEF TypeOK, Plan
  <2>3. plan[r].op \in Setting \union {"resume"} => m = HostOf(F, plan[r].sid)
    BY <2>2 DEF TableNames, NamedBy, Setting
  <2> HIDE DEF m
  <2>4. /\ req'[r].at = "entered" /\ req'[r].msp = m
        /\ \A q \in Reqs \ {r} : req'[q] = req[q]
    BY <2>1, <1>t DEF TypeOK, Handlers
  <2>5. Named(F)'
    BY <1>1, <2>3, <2>4 DEF RequestsInv, Named, Working, Busy
  <2>6. ASSUME NEW q \in Reqs \ {r}, Working(q), Working(r)' PROVE plan[q].msp # plan[r].msp
    BY <1>1, <2>4, <2>6 DEF Working, Sendable, Setting, Creating
  <2>7. Alone'
    BY <1>1, <2>4, <2>6 DEF RequestsInv, Alone, Working, Busy
  <2>8. Introduced'
    <3>1. Working(r)' /\ plan[r].sid \in Reqs => req[plan[r].sid].at = "done"
      BY <1>1 DEF Working, Sendable, Setting
    <3> QED
      BY <1>1, <2>4, <3>1 DEF RequestsInv, Introduced, Working, Busy
  <2>9. \A q \in Reqs : Echoes(q)'
    BY <1>1, <2>4 DEF RequestsInv, Echoes, Told
  <2>10. Uncreated'
    BY <1>1, <2>4 DEF RequestsInv, Uncreated, Early
  <2> QED
    BY <2>5, <2>7, <2>8, <2>9, <2>10 DEF RequestsInv
<1> QED
  BY <1>2, <1>3

(* The host's answer is true when it is given.                               *)
LEMMA ExecuteStep ==
  ASSUME NEW F \in [Stale -> Durable], NamedBy(F), "forced" \notin Faults,
         RequestsInv(F), RegistryInv, NEW r \in Reqs, Execute(r)
  PROVE  RequestsInv(F)'
<1>t. TypeOK /\ Reaches(r)
  BY DEF RegistryInv
<1>0. req[r].at = "called" /\ plan' = plan /\ raced' = raced /\ plan[r].sid \in Sids
  BY <1>t DEF Execute, TypeOK, Plan
<1>1. CASE plan[r].op \in Creating /\ Creates(r)
  <2>1. PICK m \in IF plan[r].op = "new" THEN Folds(r) ELSE {mode[req[r].msp]} :
          /\ mode' = [mode EXCEPT ![r] = m]
          /\ req' = [req EXCEPT ![r].at = "answered", ![r].msp = r, ![r].folded = m]
    BY <1>1 DEF Creates
  <2>2. /\ req'[r].at = "answered" /\ req'[r].folded = m
        /\ \A q \in Reqs \ {r} : req'[q] = req[q]
    BY <2>1, <1>t DEF TypeOK, Handlers
  <2>3. ~Working(r) /\ ~Working(r)' /\ plan[r].op \notin Setting \union {"resume"}
    BY <1>0, <1>1 DEF Working, Creating, Setting
  <2>4. r \in HostSessions
    BY DEF HostSessions
  <2>5. mode'[r] = m /\ \A h \in HostSessions \ {r} : mode'[h] = mode[h]
    BY <2>1, <2>4, <1>t DEF TypeOK
  <2>6. ASSUME NEW q \in Reqs, Working(q) PROVE req[q].msp \in HostSessions \ {r}
    <3>1. plan[q].sid \in Sids /\ req[q].msp = HostOf(F, plan[q].sid)
      BY <2>6, <1>t DEF RequestsInv, Named, TypeOK, Plan
    <3>2. plan[q].sid = r => req[r].at = "done"
      BY <2>6 DEF RequestsInv, Introduced
    <3> QED
      BY <1>0, <3>1, <3>2, HostNames
  <2>7. Named(F)'
    BY <1>0, <2>2, <2>3 DEF RequestsInv, Named, Working, Busy
  <2>8. Alone'
    BY <1>0, <2>2, <2>3 DEF RequestsInv, Alone, Working, Busy
  <2>9. Introduced'
    BY <1>0, <2>2, <2>3 DEF RequestsInv, Introduced, Working, Busy
  <2>10. Echoes(r)'
    BY <1>0, <1>1, <2>2, <2>3, <2>5 DEF Echoes, Creating
  <2>11. ASSUME NEW q \in Reqs \ {r} PROVE Echoes(q)'
    <3>1. q \in HostSessions \ {r}
      BY <2>11 DEF HostSessions
    <3>2. req[q].at \in {"answered", "checked"} /\ plan[q].op \in Setting \union {"resume"} =>
            Working(q)
      BY DEF Working, Busy
    <3> QED
      BY <1>0, <2>2, <2>5, <2>6, <3>1, <3>2 DEF RequestsInv, Echoes, Told
  <2>12. Uncreated'
    BY <1>0, <2>2, <2>5 DEF RequestsInv, Uncreated, Early, HostSessions
  <2> QED
    BY <2>7, <2>8, <2>9, <2>10, <2>11, <2>12 DEF RequestsInv
<1>2. CASE plan[r].op \in Setting /\ Sets(r)
  <2>1. PICK m \in Folds(r) :
          /\ mode' = [mode EXCEPT ![req[r].msp] = m]
          /\ req' = [req EXCEPT ![r].at = "answered", ![r].folded = m]
    BY <1>2 DEF Sets
  <2>2. /\ req'[r].at = "answered" /\ req'[r].folded = m /\ req'[r].msp = req[r].msp
        /\ \A q \in Reqs \ {r} : req'[q] = req[q]
    BY <2>1, <1>t DEF TypeOK, Handlers
  <2>3. Working(r) /\ m \in Modes
    BY <1>0, <1>2, <2>1, ModeTypes DEF Working, Busy
  <2>4. req[r].msp = HostOf(F, plan[r].sid) /\ plan[r].msp = HostOf(F, plan[r].sid)
    BY <2>3, <1>t, WorkingNames DEF RequestsInv, Named
  <2>5. plan[r].sid \in Reqs => req[plan[r].sid].at = "done"
    BY <2>3 DEF RequestsInv, Introduced
  <2>6. \A q \in Reqs \ {r} : Working(q) => plan[q].msp # HostOf(F, plan[r].sid)
    BY <2>3, <2>4 DEF RequestsInv, Alone
  <2>7. Stands(Granted(plan[r].value, IF plan[r].op = "mode" THEN Resolve(plan[r].value)
                                      ELSE m), m)
    <3>1. plan[r].op = "mode" => m = Resolve(plan[r].value)
      BY <2>1 DEF Folds
    <3> QED
      BY <3>1, LabelsStand
  <2>8. req[r].msp \in HostSessions /\ mode'[req[r].msp] = m
    <3>1. req[r].msp \in HostSessions
      BY <1>0, <2>4, HostNames
    <3> QED
      BY <2>1, <3>1, <1>t DEF TypeOK
  <2>9. Echoes(r)'
    BY <1>0, <1>2, <2>2, <2>7, <2>8 DEF Echoes, Told, Creating, Setting
  <2> QED
    BY <1>0, <2>1, <2>2, <2>3, <2>4, <2>5, <2>6, <2>9, ModeSet DEF Early
<1>3. CASE plan[r].op = "resume" /\ Reads(r)
  <2>1. /\ req' = [req EXCEPT ![r].at = "answered", ![r].folded = mode[req[r].msp]]
        /\ mode' = mode
    BY <1>3 DEF Reads
  <2>3. /\ req'[r].at = "answered" /\ req'[r].folded = mode[req[r].msp]
        /\ req'[r].msp = req[r].msp
        /\ \A q \in Reqs \ {r} : req'[q] = req[q]
    BY <2>1, <1>t DEF TypeOK, Handlers
  <2>4. \A q \in Reqs : Working(q)' => Working(q)
    BY <1>0, <2>3 DEF Working, Busy
  <2>5. Named(F)'
    BY <1>0, <2>3, <2>4 DEF RequestsInv, Named
  <2>6. Alone'
    BY <1>0, <2>4 DEF RequestsInv, Alone
  <2>7. Introduced'
    BY <1>0, <2>3, <2>4 DEF RequestsInv, Introduced
  <2>8. Echoes(r)'
    BY <1>0, <1>3, <2>1, <2>3 DEF Echoes, Creating, Setting
  <2>9. ASSUME NEW q \in Reqs \ {r} PROVE Echoes(q)'
    <3>1. req'[q] = req[q] /\ plan' = plan /\ mode' = mode /\ raced' = raced
      BY <1>0, <2>1, <2>3
    <3>2. Echoes(q)
      BY DEF RequestsInv
    <3> QED
      BY <3>1, <3>2 DEF Echoes, Told
  <2>10. Uncreated'
    BY <1>0, <2>1, <2>3 DEF RequestsInv, Uncreated, Early
  <2> QED
    BY <2>5, <2>6, <2>7, <2>8, <2>9, <2>10 DEF RequestsInv
<1> QED
  BY <1>1, <1>2, <1>3 DEF Execute

(* A rival changes a mode: who holds an answer about the session, or has yet *)
(* to subscribe to it, is known.                                             *)
LEMMA RivalStep ==
  ASSUME NEW F \in [Stale -> Durable], RequestsInv(F), RegistryInv, NEW r \in Reqs, Rival(r)
  PROVE  RequestsInv(F)'
<1> DEFINE h == plan[r].msp
           m == Resolve(plan[r].value)
<1>t. TypeOK /\ \A q \in Reqs : Reaches(q)
  BY DEF RegistryInv
<1>1. /\ plan' = plan /\ req[r].at = "idle" /\ plan[r].op = "rival" /\ Ends(r)
      /\ mode[h] # None /\ mode' = [mode EXCEPT ![h] = m]
      /\ raced' = IF InHand(h) THEN raced \union {h} ELSE raced \ {h}
  BY DEF Rival, Exists
<1>2. h \in HostSessions
  BY <1>t DEF TypeOK, Plan
<1> HIDE DEF h, m
<1>3. /\ req'[r].at = "done" /\ \A q \in Reqs \ {r} : req'[q] = req[q]
  BY <1>1, <1>t, BecomesKeeps DEF Ends, Points
<1>4. \A q \in Reqs : Working(q)' => Working(q) /\ q # r
  BY <1>1, <1>3 DEF Working, Busy
<1>5. Named(F)'
  BY <1>1, <1>3, <1>4 DEF RequestsInv, Named, HostOf
<1>6. Alone'
  BY <1>1, <1>4 DEF RequestsInv, Alone
<1>7. Introduced'
  BY <1>1, <1>3, <1>4 DEF RequestsInv, Introduced
<1>8. \A x \in HostSessions \ {h} : mode'[x] = mode[x] /\ (x \in raced' <=> x \in raced)
  BY <1>1, <1>2, <1>t DEF TypeOK
<1>9. ASSUME NEW q \in Reqs PROVE Echoes(q)'
  <2>1. CASE q = r
    BY <1>3, <2>1 DEF Echoes
  <2>2. CASE q # r /\ req[q].at \notin {"answered", "checked"}
    BY <1>3, <2>2 DEF Echoes
  <2>3. CASE q # r /\ req[q].at \in {"answered", "checked"} /\ req[q].msp = h
    <3>1. InHand(h)
      BY <2>3 DEF InHand
    <3>2. req'[q].msp \in raced'
      BY <1>1, <1>3, <2>3, <3>1
    <3> QED
      BY <3>2 DEF Echoes
  <2>4. CASE q # r /\ req[q].at \in {"answered", "checked"} /\ req[q].msp # h
    <3>1. CASE req[q].at = "answered" /\ plan[q].op \in Creating
      <4>1. req[q].msp = q /\ q \in HostSessions \ {h}
        BY <1>t, <2>4, <3>1 DEF Reaches, HostSessions
      <4> QED
        BY <1>1, <1>3, <1>8, <2>4, <3>1, <4>1 DEF RequestsInv, Echoes, Creating, Setting
    <3>2. CASE plan[q].op \in Setting \union {"resume"}
      <4>1. Working(q)
        BY <2>4, <3>2 DEF Working, Busy
      <4>2. plan[q].sid \in Sids
        BY <1>t DEF TypeOK, Plan
      <4>3. req[q].msp \in HostSessions \ {h}
        BY <2>4, <4>1, <4>2, HostNames DEF RequestsInv, Named
      <4> QED
        BY <1>1, <1>3, <1>8, <2>4, <3>2, <4>3
           DEF RequestsInv, Echoes, Told, Creating, Setting
    <3>3. CASE ~(req[q].at = "answered" /\ plan[q].op \in Creating)
               /\ plan[q].op \notin Setting \union {"resume"}
      BY <1>1, <1>3, <2>4, <3>3 DEF Echoes
    <3> QED
      BY <3>1, <3>2, <3>3
  <2> QED
    BY <2>1, <2>2, <2>3, <2>4
<1>10. Uncreated'
  <2> SUFFICES ASSUME NEW q \in Reqs, req'[q].at \in Early PROVE mode'[q] = None
    BY DEF Uncreated
  <2>1. q # r /\ req[q].at \in Early
    BY <1>3 DEF Early
  <2>2. mode[q] = None /\ q # h /\ q \in HostSessions
    BY <1>1, <2>1 DEF RequestsInv, Uncreated, HostSessions
  <2> QED
    BY <1>8, <2>2
<1> QED
  BY <1>5, <1>6, <1>7, <1>9, <1>10 DEF RequestsInv

(* Every step keeps what the host answered true, and each session with one   *)
(* request.                                                                  *)
LEMMA RequestsStep ==
  ASSUME NEW F \in [Stale -> Durable], NamedBy(F), "overlap" \notin Faults,
         "forced" \notin Faults, RequestsInv(F), TableNames(F), RegistryInv, [Next]_vars
  PROVE  RequestsInv(F)'
<1>t. TypeOK
  BY DEF RegistryInv
<1>1. ASSUME NEW r \in Reqs,
             Connect(r) \/ Fail(r) \/ Insert(r) \/ Fork(r) \/ Check(r) \/ Attach(r) \/ Pull(r)
               \/ Lists(r) \/ Present(r) \/ Apply(r) \/ Close(r)
      PROVE  RequestsInv(F)'
  <2>1. \/ req'[r].msp = req[r].msp
        \/ req'[r].at = "pulling" /\ req'[r].msp = HostOf(F, plan[r].sid)
    <3>1. plan[r].sid \in Sids
      BY <1>t DEF TypeOK, Plan
    <3> QED
      BY <1>1, <3>1, HandlerMoves DEF TableNames
  <2> QED
    BY <1>1, <1>t, <2>1, HandlerMoves, RequestsKept
<1>3. ASSUME UNCHANGED <<plan, req, mode, raced>> PROVE RequestsInv(F)'
  BY <1>3 DEF RequestsInv, Named, Alone, Introduced, Echoes, Uncreated, Working, Busy, Told,
              HostOf
<1>4. ASSUME \/ \E o \in Reqs : Watch(o)
             \/ \E a \in Asks, h \in HostSessions : Ask(a, h)
             \/ Die \/ Restart \/ UNCHANGED vars
      PROVE  UNCHANGED <<plan, req, mode, raced>>
  BY <1>4 DEF Watch, Subscribe, Observe, Resubscribe, Ask, Die, Restart, vars, host
<1> QED
  BY <1>1, <1>3, <1>4, EnterStep, ExecuteStep, RivalStep DEF Next, Handle

(* What each writer of the table leaves of its entries.                      *)
LEMMA LabelWritten ==
  ASSUME TypeOK, NEW s \in Sids, Open(s), NEW x, table' = [table EXCEPT ![s].label = x]
  PROVE  /\ table'[s].msp = table[s].msp /\ table'[s].label = x
         /\ \A y \in Sids \ {s} : table'[y] = table[y]
<1>1. table[s] \in Entry
  BY DEF Open, TypeOK
<1> QED
  BY <1>1 DEF TypeOK, Entry

LEMMA ShownWritten ==
  ASSUME TypeOK, NEW s \in Sids, Open(s), NEW x, table' = [table EXCEPT ![s].shown = x]
  PROVE  /\ table'[s].msp = table[s].msp /\ table'[s].label = table[s].label
         /\ \A y \in Sids \ {s} : table'[y] = table[y]
<1>1. table[s] \in Entry
  BY DEF Open, TypeOK
<1> QED
  BY <1>1 DEF TypeOK, Entry

LEMMA PresentWrites ==
  ASSUME TypeOK, NEW r \in Reqs, Present(r), NEW y \in Sids, Open(y)'
  PROVE  Open(y) /\ table'[y].msp = table[y].msp /\ table'[y].label = table[y].label
<1>1. plan[r].sid \in Sids
  BY DEF TypeOK, Plan
<1>2. \/ table' = table
      \/ Open(plan[r].sid) /\ \E x : table' = [table EXCEPT ![plan[r].sid].shown = x]
  BY DEF Present
<1> QED
  BY <1>1, <1>2, ShownWritten DEF Open

LEMMA ApplyWrites ==
  ASSUME TypeOK, NEW r \in Reqs, Apply(r), NEW y \in Sids, Open(y)'
  PROVE  /\ Open(y) /\ table'[y].msp = table[y].msp
         /\ table'[y].label = IF y = plan[r].sid THEN Told(r) ELSE table[y].label
<1>1. plan[r].sid \in Sids
  BY DEF TypeOK, Plan
<1>2. table' = IF Open(plan[r].sid) THEN [table EXCEPT ![plan[r].sid].label = Told(r)] ELSE table
  BY DEF Apply
<1>3. CASE Open(plan[r].sid)
  <2>1. table' = [table EXCEPT ![plan[r].sid].label = Told(r)]
    BY <1>2, <1>3
  <2>2. /\ table'[plan[r].sid].msp = table[plan[r].sid].msp
        /\ table'[plan[r].sid].label = Told(r)
        /\ \A z \in Sids \ {plan[r].sid} : table'[z] = table[z]
    BY <1>1, <1>3, <2>1, LabelWritten
  <2> QED
    BY <1>3, <2>2 DEF Open
<1>4. CASE ~Open(plan[r].sid)
  BY <1>2, <1>4 DEF Open
<1> QED
  BY <1>3, <1>4

LEMMA CloseWrites ==
  ASSUME TypeOK, NEW r \in Reqs, Close(r), NEW y \in Sids, Open(y)'
  PROVE  Open(y) /\ table'[y] = table[y]
<1>1. plan[r].sid \in Sids /\ table' = [table EXCEPT ![plan[r].sid] = None]
  BY DEF Close, TypeOK, Plan
<1> QED
  BY <1>1 DEF TypeOK, Open

LEMMA InsertWrites ==
  ASSUME RegistryInv, NEW r \in Reqs, Insert(r) \/ Fork(r)
  PROVE  /\ req[r].at = "answered" /\ plan[r].op \in Creating
         /\ obs' = Spawned(r, r)
         /\ table'[r].msp = r
         /\ Stands(table'[r].label, req[r].folded)
         /\ \A y \in Sids \ {r} : table'[y] = table[y]
<1>t. TypeOK
  BY DEF RegistryInv
<1>1. r \in Sids
  BY DEF HostSessions, Sids
<1>2. ASSUME NEW label, Inserts(r, label), Stands(label, req[r].folded)
      PROVE  /\ obs' = Spawned(r, r)
             /\ table'[r].msp = r
             /\ Stands(table'[r].label, req[r].folded)
             /\ \A y \in Sids \ {r} : table'[y] = table[y]
  BY <1>1, <1>2, <1>t DEF Inserts, TypeOK
<1> QED
  BY <1>2, LabelsStand DEF Insert, Fork, Creating

LEMMA AttachWrites ==
  ASSUME RegistryInv, NEW r \in Reqs, Attach(r)
  PROVE  /\ req[r].at = "checked" /\ plan[r].op = "resume" /\ plan[r].sid \in Sids
         /\ obs' = IF req[r].fresh THEN Spawned(r, plan[r].sid) ELSE obs
         /\ table'[plan[r].sid].msp = req[r].msp
         /\ Stands(table'[plan[r].sid].label, req[r].folded)
         /\ \A y \in Sids \ {plan[r].sid} : table'[y] = table[y]
<1> DEFINE s == plan[r].sid
           entry == IF Open(s) THEN table[s] ELSE [msp |-> None, label |-> "ask", shown |-> {}]
           new == [entry EXCEPT !.msp = req[r].msp, !.label = Adopted(@, req[r].folded)]
<1>t. TypeOK
  BY DEF RegistryInv
<1>1. req[r].at = "checked" /\ plan[r].op = "resume" /\ s \in Sids
  BY <1>t DEF Attach, RegistryInv, Reaches, TypeOK, Plan
<1>2. table' = [table EXCEPT ![s] = new]
  BY DEF Attach
<1>3. new.msp = req[r].msp /\ Stands(new.label, req[r].folded)
  <2>1. CASE Open(s)
    <3>1. table[s] \in Entry
      BY <1>1, <2>1, <1>t DEF Open, TypeOK
    <3>2. new = [table[s] EXCEPT !.msp = req[r].msp, !.label = Adopted(@, req[r].folded)]
      BY <2>1
    <3> HIDE DEF new
    <3>3. /\ new.msp = req[r].msp /\ new.label = Adopted(table[s].label, req[r].folded)
          /\ table[s].label \in Label
      BY <3>1, <3>2 DEF Entry
    <3> QED
      BY <3>3, LabelsStand
  <2>2. CASE ~Open(s)
    BY <2>2, LabelsStand DEF Label
  <2> QED
    BY <2>1, <2>2
<1> HIDE DEF new
<1>4. table'[s] = new /\ \A y \in Sids \ {s} : table'[y] = table[y]
  BY <1>1, <1>2, <1>t DEF TypeOK
<1> QED
  BY <1>1, <1>3, <1>4 DEF Attach

LEMMA ObserveWrites ==
  ASSUME TypeOK, NEW o \in Reqs, Observe(o), NEW y \in Sids, Open(y)'
  PROVE  /\ Open(y) /\ table'[y].msp = table[y].msp
         /\ table'[y].label = IF y = obs[o].sid /\ Tells(Head(obs[o].feed), table[y].msp)
                              THEN LabelOf(Head(obs[o].feed).value) ELSE table[y].label
<1> DEFINE e == Head(obs[o].feed)
           s == obs[o].sid
           mine == Open(s) /\ table[s].msp = e.msp
<1>1. table' = CASE mine /\ e.kind = "mode" -> [table EXCEPT ![s].label = LabelOf(e.value)]
                 [] mine /\ e.kind = "ask"  -> [table EXCEPT ![s].shown = @ \union {e.value}]
                 [] OTHER                   -> table
  BY DEF Observe
<1> HIDE DEF e
<1>2. CASE s \notin Sids
  <2>1. \A x : [table EXCEPT ![s].label = x] = table /\ [table EXCEPT ![s].shown = x] = table
    BY <1>2 DEF TypeOK
  <2>2. table' = table
    BY <1>1, <2>1
  <2> QED
    BY <1>2, <2>2 DEF Open, e
<1>3. CASE s \in Sids /\ mine /\ e.kind = "mode"
  <2>1. table' = [table EXCEPT ![s].label = LabelOf(e.value)]
    BY <1>1, <1>3
  <2>2. /\ table'[s].msp = table[s].msp /\ table'[s].label = LabelOf(e.value)
        /\ \A z \in Sids \ {s} : table'[z] = table[z]
    BY <1>3, <2>1, LabelWritten
  <2> QED
    BY <1>3, <2>2 DEF Open, Tells, e
<1>4. CASE s \in Sids /\ mine /\ e.kind # "mode"
  <2>1. table' = table \/ \E x : table' = [table EXCEPT ![s].shown = x]
    BY <1>1, <1>4
  <2> QED
    BY <1>4, <2>1, ShownWritten DEF Open, Tells, e
<1>5. CASE ~mine
  BY <1>1, <1>5 DEF Open, Tells, e
<1> QED
  BY <1>2, <1>3, <1>4, <1>5

(* Every step leaves each open session with the name the client knows.       *)
LEMMA NamesStep ==
  ASSUME NEW F \in [Stale -> Durable], RequestsInv(F), TableNames(F), RegistryInv, [Next]_vars
  PROVE  TableNames(F)'
<1> SUFFICES ASSUME NEW s \in Sids, Open(s)' PROVE table'[s].msp = HostOf(F, s)
  BY DEF TableNames
<1>t. TypeOK
  BY DEF RegistryInv
<1>1. ASSUME Open(s), table'[s].msp = table[s].msp PROVE table'[s].msp = HostOf(F, s)
  BY <1>1 DEF TableNames
<1>2. ASSUME NEW r \in Reqs, Insert(r) \/ Fork(r) PROVE table'[s].msp = HostOf(F, s)
  <2>1. table'[r].msp = r /\ \A y \in Sids \ {r} : table'[y] = table[y]
    BY <1>2, InsertWrites
  <2>2. CASE s = r
    BY <2>1, <2>2, HostNames
  <2>3. CASE s # r
    BY <1>1, <2>1, <2>3 DEF Open
  <2> QED
    BY <2>2, <2>3
<1>3. ASSUME NEW r \in Reqs, Attach(r) PROVE table'[s].msp = HostOf(F, s)
  <2>1. req[r].at = "checked" /\ plan[r].op = "resume"
    BY <1>3, AttachWrites
  <2>2. req[r].msp = HostOf(F, plan[r].sid)
    BY <2>1 DEF RequestsInv, Named, Working, Busy
  <2> QED
    BY <1>1, <1>3, <2>2, AttachWrites DEF Open
<1>4. ASSUME NEW r \in Reqs, Present(r) \/ Apply(r) \/ Close(r)
      PROVE  table'[s].msp = HostOf(F, s)
  BY <1>1, <1>4, <1>t, PresentWrites, ApplyWrites, CloseWrites
<1>5. ASSUME NEW o \in Reqs, Observe(o) PROVE table'[s].msp = HostOf(F, s)
  BY <1>1, <1>5, <1>t, ObserveWrites
<1>6. ASSUME UNCHANGED table PROVE table'[s].msp = HostOf(F, s)
  BY <1>1, <1>6 DEF Open
<1> QED
  BY <1>2, <1>3, <1>4, <1>5, <1>6
     DEF Next, Handle, Watch, Enter, Connect, Execute, Fail, Check, Pull, Lists, Rival,
         Subscribe, Resubscribe, Ask, Die, Restart, vars

(* Every step leaves the observers of a session subscribed before a command  *)
(* about it reaches the host.                                                *)
LEMMA WaitsStep ==
  ASSUME NEW F \in [Stale -> Durable], NamedBy(F), "slow" \notin Faults,
         RequestsInv(F), NoneWaits(F), RegistryInv, [Next]_vars
  PROVE  NoneWaits(F)'
<1> SUFFICES ASSUME NEW q \in Reqs, NEW o \in Reqs, Working(q)', req'[q].at \in Early,
                    obs'[o].at = "born"
             PROVE  HostOf(F, obs'[o].sid) # HostOf(F, plan'[q].sid)
  BY DEF NoneWaits
<1> USE DEF host
<1>t. TypeOK
  BY DEF RegistryInv
<1>0. plan' = plan
  BY DEF Next, Handle, Watch, Enter, Connect, Execute, Fail, Insert, Fork, Inserts, Check,
         Attach, Pull, Lists, Present, Apply, Close, Rival, Subscribe, Observe, Resubscribe,
         Ask, Die, Restart, vars
<1>1. ASSUME Working(q), req[q].at \in Early, obs[o].at = "born", obs'[o].sid = obs[o].sid
      PROVE  HostOf(F, obs'[o].sid) # HostOf(F, plan'[q].sid)
  BY <1>0, <1>1 DEF NoneWaits
<1>2. ASSUME req'[q].at = req[q].at \/ (req[q].at = "entered" /\ req'[q].at = "called")
      PROVE  Working(q) /\ req[q].at \in Early
  BY <1>0, <1>2 DEF Working, Busy, Early
<1>3. ASSUME NEW r \in Reqs, Enter(r) PROVE HostOf(F, obs'[o].sid) # HostOf(F, plan'[q].sid)
  BY <1>3 DEF Enter, Sendable, Polled
<1>4. ASSUME NEW r \in Reqs, Execute(r) PROVE HostOf(F, obs'[o].sid) # HostOf(F, plan'[q].sid)
  <2>1. req[r].at = "called"
    BY <1>4 DEF Execute
  <2>2. req'[r].at = "answered" /\ \A x \in Reqs \ {r} : req'[x] = req[x]
    <3>1. ASSUME NEW m, NEW f,
                 req' = [req EXCEPT ![r].at = "answered", ![r].msp = m, ![r].folded = f]
          PROVE  req'[r].at = "answered" /\ \A x \in Reqs \ {r} : req'[x] = req[x]
      BY <3>1, <1>t DEF TypeOK, Handlers
    <3>2. ASSUME NEW f, req' = [req EXCEPT ![r].at = "answered", ![r].folded = f]
          PROVE  req'[r].at = "answered" /\ \A x \in Reqs \ {r} : req'[x] = req[x]
      BY <3>2, <1>t DEF TypeOK, Handlers
    <3>4. Creates(r) \/ Sets(r) \/ Reads(r)
      BY <1>4 DEF Execute
    <3> QED
      BY <3>1, <3>2, <3>4 DEF Creates, Sets, Reads
  <2>3. obs'[o].at = obs[o].at /\ obs'[o].sid = obs[o].sid
    <3>1. CASE UNCHANGED obs
      BY <3>1
    <3>2. CASE plan[r].op \in Setting /\ Sets(r)
      <4>1. PICK m \in Folds(r) : obs' = Post(ModeEvent(req[r].msp, m))
        BY <3>2 DEF Sets
      <4>2. req[r].msp \in HostSessions /\ m \in Modes
        BY <2>1, <3>2, <4>1, ModeTypes DEF RegistryInv, Reaches, Setting
      <4>3. ModeEvent(req[r].msp, m) \in Events
        BY <4>2 DEF ModeEvent, Events
      <4> QED
        BY <4>1, <4>3, <1>t, PostType DEF TypeOK
    <3> QED
      BY <1>4, <3>1, <3>2 DEF Execute, Creates, Reads
  <2>4. q # r
    BY <2>2 DEF Early
  <2> QED
    BY <1>1, <1>2, <2>2, <2>3, <2>4
<1>5. ASSUME NEW r \in Reqs, Insert(r) \/ Fork(r)
      PROVE  HostOf(F, obs'[o].sid) # HostOf(F, plan'[q].sid)
  <2>1. req[r].at = "answered" /\ obs' = Spawned(r, r) /\ r \in Sids /\ HostOf(F, r) = r
    BY <1>5, InsertWrites, HostNames
  <2>2. /\ \A x \in Reqs \ {r} : req'[x] = req[x]
        /\ req'[r].at \in Early => req[r].at \in Early
    BY <1>5, HandlerMoves
  <2>3. q # r /\ Working(q) /\ req[q].at \in Early
    BY <1>2, <2>1, <2>2 DEF Early
  <2>4. CASE o = r
    <3>1. obs'[o].sid = r
      BY <2>1, <2>4, <1>t, SpawnType DEF TypeOK
    <3>2. plan[q].sid # r
      BY <2>1, <2>3 DEF RequestsInv, Introduced
    <3>3. plan[q].sid \in Sids
      BY <1>t DEF TypeOK, Plan
    <3> QED
      BY <1>0, <2>1, <3>1, <3>2, <3>3, HostNames
  <2>5. CASE o # r
    BY <1>1, <2>1, <2>3, <2>5, <1>t, SpawnType DEF TypeOK
  <2> QED
    BY <2>4, <2>5
<1>6. ASSUME NEW r \in Reqs, Attach(r) PROVE HostOf(F, obs'[o].sid) # HostOf(F, plan'[q].sid)
  <2>1. /\ req[r].at = "checked" /\ plan[r].op = "resume" /\ plan[r].sid \in Sids
        /\ obs' = IF req[r].fresh THEN Spawned(r, plan[r].sid) ELSE obs
    BY <1>6, AttachWrites
  <2>2. /\ \A x \in Reqs \ {r} : req'[x] = req[x]
        /\ req'[r].at \in Early => req[r].at \in Early
    BY <1>6, HandlerMoves
  <2>3. q # r /\ Working(q) /\ req[q].at \in Early
    BY <1>2, <2>1, <2>2 DEF Early
  <2>4. CASE req[r].fresh /\ o = r
    <3>1. obs'[o].sid = plan[r].sid
      BY <2>1, <2>4, <1>t, SpawnType DEF TypeOK
    <3>2. Working(r)
      BY <2>1 DEF Working, Busy
    <3>3. plan[q].msp # plan[r].msp
      BY <2>3, <3>2 DEF RequestsInv, Alone
    <3> QED
      BY <1>0, <1>t, <2>3, <3>1, <3>2, <3>3, WorkingNames
  <2>5. CASE ~(req[r].fresh /\ o = r)
    BY <1>1, <2>1, <2>3, <2>5, <1>t, SpawnType DEF TypeOK
  <2> QED
    BY <2>4, <2>5
<1>7. ASSUME NEW r \in Reqs,
             Connect(r) \/ Fail(r) \/ Check(r) \/ Pull(r) \/ Lists(r) \/ Present(r)
               \/ Apply(r) \/ Close(r)
      PROVE  HostOf(F, obs'[o].sid) # HostOf(F, plan'[q].sid)
  <2>1. /\ \A x \in Reqs \ {r} : req'[x] = req[x]
        /\ Busy(r)' => Busy(r)
        /\ req'[r].at \in Early => req[r].at \in Early
    BY <1>7, HandlerMoves
  <2>2. obs' = obs
    BY <1>7 DEF Connect, Fail, Check, Pull, Lists, Present, Apply, Close
  <2>3. Working(q) /\ req[q].at \in Early
    BY <1>0, <2>1 DEF Working, Busy
  <2> QED
    BY <1>1, <2>2, <2>3
<1>8. ASSUME NEW r \in Reqs, Rival(r) PROVE HostOf(F, obs'[o].sid) # HostOf(F, plan'[q].sid)
  <2>1. Ends(r) /\ obs' = Post(ModeEvent(plan[r].msp, Resolve(plan[r].value)))
    BY <1>8 DEF Rival
  <2>2. ModeEvent(plan[r].msp, Resolve(plan[r].value)) \in Events
    BY ModeTypes, <1>t DEF TypeOK, Plan, ModeEvent, Events
  <2>3. obs'[o].at = obs[o].at /\ obs'[o].sid = obs[o].sid
    BY <2>1, <2>2, <1>t, PostType DEF TypeOK
  <2>4. req'[r].at = "done" /\ \A x \in Reqs \ {r} : req'[x] = req[x]
    BY <2>1, <1>t, BecomesKeeps DEF Ends, Points
  <2>5. Working(q) /\ req[q].at \in Early
    BY <1>0, <2>4 DEF Working, Busy, Early
  <2> QED
    BY <1>1, <2>3, <2>5
<1>9. ASSUME req' = req, obs[o].at = "born", obs'[o].sid = obs[o].sid
      PROVE  HostOf(F, obs'[o].sid) # HostOf(F, plan'[q].sid)
  BY <1>1, <1>2, <1>9
<1>10. ASSUME NEW w \in Reqs, Watch(w) PROVE HostOf(F, obs'[o].sid) # HostOf(F, plan'[q].sid)
  <2>1. req' = req
    BY <1>10 DEF Watch, Subscribe, Observe, Resubscribe
  <2>2. /\ obs'[w].at # "born"
        /\ \A x \in Reqs \ {w} : obs'[x] = obs[x]
    <3>1. CASE Subscribe(w)
      BY <3>1, <1>t DEF Subscribe, TypeOK, Watchers
    <3>2. CASE Observe(w)
      BY <3>2, <1>t DEF Observe, TypeOK, Watchers
    <3>3. CASE Resubscribe(w)
      BY <3>3, <1>t DEF Resubscribe, Closed, TypeOK, Watchers
    <3> QED
      BY <1>10, <3>1, <3>2, <3>3 DEF Watch
  <2> QED
    BY <1>9, <2>1, <2>2
<1>11. ASSUME NEW a \in Asks, NEW h \in HostSessions, Ask(a, h)
       PROVE  HostOf(F, obs'[o].sid) # HostOf(F, plan'[q].sid)
  <2>1. req' = req /\ obs' = Post(AskEvent(h, a)) /\ AskEvent(h, a) \in Events
    BY <1>11 DEF Ask, AskEvent, Events
  <2> QED
    BY <1>9, <2>1, <1>t, PostType DEF TypeOK
<1>12. ASSUME Die \/ Restart \/ UNCHANGED vars
       PROVE  HostOf(F, obs'[o].sid) # HostOf(F, plan'[q].sid)
  BY <1>9, <1>12 DEF Die, Restart, vars
<1> QED
  BY <1>3, <1>4, <1>5, <1>6, <1>7, <1>8, <1>10, <1>11, <1>12 DEF Next, Handle

(* A host that lives was alive before.                                       *)
LEMMA LivesBefore ==
  ASSUME TypeOK, [Next]_vars, Lives'
  PROVE  Lives /\ gen' = gen
<1>1. \/ up' = up /\ gen' = gen
      \/ Die \/ Restart
  <2>1. ASSUME NEW r \in Reqs, Enter(r) \/ Handle(r) \/ Close(r) \/ Rival(r)
        PROVE  up' = up /\ gen' = gen
    BY <2>1 DEF Handle, Enter, Connect, Execute, Fail, Insert, Fork, Inserts, Check, Attach,
                Pull, Lists, Present, Apply, Close, Rival, host
  <2>2. ASSUME NEW o \in Reqs, Watch(o) PROVE up' = up /\ gen' = gen
    BY <2>2 DEF Watch, Subscribe, Observe, Resubscribe, host
  <2>3. ASSUME NEW a \in Asks, NEW h \in HostSessions, Ask(a, h) PROVE up' = up /\ gen' = gen
    BY <2>3 DEF Ask
  <2> QED
    BY <2>1, <2>2, <2>3 DEF Next, vars
<1>2. CASE Die
  BY <1>2 DEF Die, Lives
<1>3. CASE Restart
  BY <1>3 DEF Restart, Lives, TypeOK
<1> QED
  BY <1>1, <1>2, <1>3 DEF Lives

(* A receiver that hears nothing new, while no mode it knows of changes.     *)
LEMMA SameFeed ==
  ASSUME TypeOK, FeedsInv, NEW o \in Reqs, obs'[o] = obs[o], Lives' => Lives /\ gen' = gen,
         \A h \in HostSessions : mode[h] \in Modes => mode'[h] = mode[h]
  PROVE  Sound(o)' /\ (Lives' => Heard(o)')
<1>1. \A i \in 1..Len(obs[o].feed) : obs[o].feed[i].msp \in HostSessions
  <2>1. obs[o].feed \in Seq(Events)
    BY DEF TypeOK, Watchers
  <2> QED
    BY <2>1, ElementOfSeq DEF Events
<1>2. Sound(o) /\ (Lives => Heard(o))
  BY DEF FeedsInv
<1>3. Sound(o)'
  BY <1>1, <1>2 DEF Sound
<1>4. ASSUME Lives' PROVE Heard(o)'
  BY <1>1, <1>2, <1>4 DEF Sound, Heard, LastOf
<1> QED
  BY <1>3, <1>4

(* A send leaves the receivers with the last of every mode, and with the one *)
(* it tells.                                                                 *)
LEMMA PostHeard ==
  ASSUME TypeOK, FeedsInv, Unspilled, NEW e \in Events, obs' = Post(e),
         Lives' => Lives /\ gen' = gen, mode'[e.msp] \in Modes,
         \A h \in HostSessions : mode'[h] = IF Tells(e, h) THEN e.value ELSE mode[h]
  PROVE  FeedsInv'
<1> SUFFICES ASSUME NEW o \in Reqs PROVE Sound(o)' /\ (Lives' => Heard(o)')
  BY DEF FeedsInv
<1> DEFINE feed == obs[o].feed
           longer == obs'[o].feed
<1>1. feed \in Seq(Events) /\ Len(feed) \in Nat
  BY LenProperties DEF TypeOK, Watchers
<1>2. \A i \in 1..Len(feed) : feed[i] \in Events /\ feed[i].msp \in HostSessions
  BY <1>1, ElementOfSeq DEF Events
<1>3. Sound(o) /\ (Lives => Heard(o))
  BY DEF FeedsInv
<1>4. e.msp \in HostSessions /\ e.kind \in {"mode", "ask"}
  BY DEF Events
<1>5. \A h \in HostSessions : mode[h] \in Modes => mode'[h] \in Modes
  BY DEF Tells
<1>6. CASE obs[o].at = "watching" /\ obs[o].gen = gen
  <2>1. /\ obs'[o].at = "watching" /\ obs'[o].gen = gen
        /\ ExtendedBy(feed, longer, e)
    BY <1>6, PostExtends
  <2> HIDE DEF feed, longer
  <2>2. \A i \in 1..Len(longer) : i = Len(longer) \/ (i \in 1..Len(feed) /\ i < Len(longer))
    BY <1>1, <2>1 DEF ExtendedBy
  <2>3. \A i \in 1..Len(longer) : mode'[longer[i].msp] \in Modes
    <3> SUFFICES ASSUME NEW i \in 1..Len(longer) PROVE mode'[longer[i].msp] \in Modes
      OBVIOUS
    <3>1. CASE i = Len(longer)
      BY <2>1, <3>1 DEF ExtendedBy
    <3>2. CASE i \in 1..Len(feed)
      BY <1>2, <1>3, <1>5, <2>1, <3>2 DEF ExtendedBy, Sound, feed
    <3> QED
      BY <2>2, <3>1, <3>2
  <2>4. Sound(o)'
    BY <1>1, <2>1, <2>3 DEF Sound, ExtendedBy, longer
  <2>5. ASSUME Lives', NEW i \in 1..Len(longer), LastOf(longer, i)
        PROVE  longer[i].value = mode'[longer[i].msp]
    <3>1. CASE i = Len(longer)
      BY <1>4, <2>1, <2>5, <3>1 DEF ExtendedBy, LastOf, Tells
    <3>2. CASE i \in 1..Len(feed) /\ i < Len(longer)
      <4>1. longer[i] = feed[i] /\ Len(longer) \in 1..Len(longer) /\ longer[Len(longer)] = e
        BY <1>1, <2>1, <3>2 DEF ExtendedBy
      <4>2. ~Tells(e, feed[i].msp)
        BY <2>5, <3>2, <4>1 DEF LastOf
      <4>3. \A j \in 1..Len(feed) : j \in 1..Len(longer) /\ longer[j] = feed[j]
        BY <1>1, <2>1 DEF ExtendedBy
      <4>4. LastOf(feed, i)
        BY <2>5, <3>2, <4>1, <4>3 DEF LastOf
      <4>5. feed[i].value = mode[feed[i].msp]
        BY <1>3, <1>6, <2>5, <3>2, <4>4 DEF Heard, feed
      <4> QED
        BY <1>2, <3>2, <4>1, <4>2, <4>5
    <3> QED
      BY <2>2, <3>1, <3>2
  <2>6. Lives' => Heard(o)'
    BY <2>1, <2>5 DEF Heard, longer
  <2> QED
    BY <2>4, <2>6
<1>7. CASE ~(obs[o].at = "watching" /\ obs[o].gen = gen)
  <2>1. obs'[o] = obs[o]
    BY <1>7, PostExtends
  <2>2. Sound(o)'
    BY <1>2, <1>3, <1>5, <2>1 DEF Sound
  <2>3. Lives' => Heard(o)'
    BY <1>3, <1>7, <2>1 DEF Heard
  <2> QED
    BY <2>2, <2>3
<1> QED
  BY <1>6, <1>7

(* An event that was taken leaves the rest in order.                         *)
LEMMA ObserveHeard ==
  ASSUME TypeOK, FeedsInv, NEW o \in Reqs, Observe(o), gen' = gen, up' = up, mode' = mode
  PROVE  FeedsInv'
<1> DEFINE feed == obs[o].feed
           rest == obs'[o].feed
<1>1. /\ obs[o].at = "watching" /\ feed \in Seq(Events) /\ feed # <<>>
      /\ obs' = [obs EXCEPT ![o].feed = Tail(@), ![o].at = IF Open(obs[o].sid) THEN @ ELSE "retired"]
  BY DEF Observe, TypeOK, Watchers
<1>2. /\ rest = Tail(feed) /\ obs'[o].at \in {"watching", "retired"} /\ obs'[o].gen = obs[o].gen
      /\ \A x \in Reqs \ {o} : obs'[x] = obs[x]
  BY <1>1 DEF TypeOK, Watchers
<1>3. /\ Len(feed) \in Nat \ {0} /\ Len(rest) = Len(feed) - 1
      /\ \A i \in 1..Len(rest) : rest[i] = feed[i + 1] /\ i + 1 \in 1..Len(feed)
  <2>1. /\ Tail(feed) \in Seq(Events) /\ Len(Tail(feed)) = Len(feed) - 1
        /\ \A i \in 1..Len(Tail(feed)) : Tail(feed)[i] = feed[i + 1]
    BY <1>1, HeadTailProperties
  <2>2. Len(feed) \in Nat /\ Len(feed) # 0
    BY <1>1, LenProperties, EmptySeq
  <2> HIDE DEF feed, rest
  <2> QED
    BY <1>2, <2>1, <2>2
<1>4. \A x \in Reqs \ {o} : Sound(x)' /\ (Lives' => Heard(x)')
  BY <1>2, SameFeed DEF Lives
<1>5. Sound(o) /\ (Lives => Heard(o))
  BY DEF FeedsInv
<1>6. Sound(o)'
  BY <1>2, <1>3, <1>5, AcpRegistryAssumption DEF Sound
<1>7. ASSUME Lives' PROVE Heard(o)'
  <2>1. Heard(o)
    BY <1>5, <1>7 DEF Lives
  <2> HIDE DEF feed, rest
  <2>2. ASSUME NEW i \in 1..Len(rest), LastOf(rest, i) PROVE rest[i].value = mode[rest[i].msp]
    <3>1. rest[i] = feed[i + 1] /\ i + 1 \in 1..Len(feed)
      BY <1>3
    <3>2. ASSUME NEW j \in 1..Len(feed), j > i + 1 PROVE ~Tells(feed[j], feed[i + 1].msp)
      <4>1. j - 1 \in 1..Len(rest) /\ j - 1 > i /\ feed[(j - 1) + 1] = feed[j]
        BY <1>3, <3>2
      <4>2. rest[j - 1] = feed[j]
        BY <1>3, <4>1
      <4> QED
        BY <2>2, <3>1, <4>1, <4>2 DEF LastOf
    <3>3. LastOf(feed, i + 1)
      BY <2>2, <3>1, <3>2 DEF LastOf
    <3> QED
      BY <1>1, <2>1, <3>1, <3>3 DEF Heard, feed
  <2> QED
    BY <1>1, <1>2, <2>1, <2>2 DEF Heard, rest
<1> QED
  BY <1>4, <1>6, <1>7 DEF FeedsInv

(* An observer that is spawned has heard nothing.                            *)
LEMMA SpawnHeard ==
  ASSUME TypeOK, FeedsInv, NEW r \in Reqs, NEW s \in Sids, obs' = Spawned(r, s),
         mode' = mode, Lives' => Lives /\ gen' = gen
  PROVE  FeedsInv'
<1>1. \A x \in Reqs \ {r} : Sound(x)' /\ (Lives' => Heard(x)')
  BY SpawnType, SameFeed DEF TypeOK
<1>2. obs'[r] = [Unborn EXCEPT !.at = "born", !.sid = s]
  BY DEF Spawned, TypeOK
<1>3. obs'[r].at = "born" /\ obs'[r].feed = <<>>
  BY <1>2 DEF Unborn
<1>4. Sound(r)' /\ Heard(r)'
  BY <1>3, AcpRegistryAssumption DEF Sound, Heard
<1> QED
  BY <1>1, <1>4 DEF FeedsInv

(* Every step keeps what observers hear to the last of the modes.            *)
LEMMA FeedsStep ==
  ASSUME NEW F \in [Stale -> Durable], RequestsInv(F), FeedsInv, RegistryInv, Unspilled,
         [Next]_vars
  PROVE  FeedsInv'
<1> USE DEF host
<1>t. TypeOK
  BY DEF RegistryInv
<1>l. Lives' => Lives /\ gen' = gen
  BY <1>t, LivesBefore
<1>1. ASSUME obs' = obs, mode' = mode PROVE FeedsInv'
  BY <1>1, <1>t, <1>l, SameFeed DEF FeedsInv
<1>2. ASSUME NEW r \in Reqs,
             Enter(r) \/ Connect(r) \/ Fail(r) \/ Check(r) \/ Pull(r) \/ Lists(r)
               \/ Present(r) \/ Apply(r) \/ Close(r)
      PROVE  FeedsInv'
  BY <1>1, <1>2 DEF Enter, Connect, Fail, Check, Pull, Lists, Present, Apply, Close
<1>3. ASSUME NEW r \in Reqs, NEW h \in HostSessions, NEW m \in Modes,
             obs' = Post(ModeEvent(h, m)), mode' = [mode EXCEPT ![h] = m]
      PROVE  FeedsInv'
  <2> DEFINE e == ModeEvent(h, m)
  <2>1. e \in Events /\ e.msp = h /\ e.value = m /\ \A x : Tells(e, x) <=> x = h
    BY DEF ModeEvent, Events, Tells
  <2>2. obs' = Post(e)
    BY <1>3
  <2> HIDE DEF e
  <2>3. mode'[e.msp] \in Modes /\ \A x \in HostSessions : mode'[x] = IF Tells(e, x) THEN e.value ELSE mode[x]
    BY <1>3, <1>t, <2>1 DEF TypeOK
  <2> QED
    BY <1>t, <1>l, <2>1, <2>2, <2>3, PostHeard
<1>4. ASSUME NEW r \in Reqs, Execute(r) PROVE FeedsInv'
  <2>1. CASE plan[r].op \in Creating /\ Creates(r)
    <3>1. PICK m : mode' = [mode EXCEPT ![r] = m] /\ obs' = obs
      BY <2>1 DEF Creates
    <3>2. mode[r] = None
      BY <1>4 DEF Execute, RequestsInv, Uncreated, Early
    <3>3. \A h \in HostSessions : mode[h] \in Modes => mode'[h] = mode[h]
      BY <3>1, <3>2, <1>t, AcpRegistryAssumption DEF TypeOK
    <3> QED
      BY <1>t, <1>l, <3>1, <3>3, SameFeed DEF FeedsInv
  <2>2. CASE plan[r].op \in Setting /\ Sets(r)
    <3>1. PICK m \in Folds(r) : /\ mode' = [mode EXCEPT ![req[r].msp] = m]
                               /\ obs' = Post(ModeEvent(req[r].msp, m))
      BY <2>2 DEF Sets
    <3>2. req[r].msp \in HostSessions /\ m \in Modes
      BY <1>4, <2>2, <3>1, ModeTypes DEF Execute, RegistryInv, Reaches, Setting
    <3> QED
      BY <1>3, <3>1, <3>2
  <2>3. CASE Reads(r)
    BY <1>1, <2>3 DEF Reads
  <2> QED
    BY <1>4, <2>1, <2>2, <2>3 DEF Execute
<1>5. ASSUME NEW r \in Reqs, Insert(r) \/ Fork(r) \/ Attach(r) PROVE FeedsInv'
  <2>1. mode' = mode
    BY <1>5, HandlerMoves
  <2>2. obs' = obs \/ \E s \in Sids : obs' = Spawned(r, s)
    <3>1. CASE Insert(r) \/ Fork(r)
      <4>1. obs' = Spawned(r, r) /\ r \in Sids
        BY <3>1, InsertWrites DEF HostSessions, Sids
      <4> QED
        BY <4>1
    <3>2. CASE Attach(r)
      BY <3>2, AttachWrites
    <3> QED
      BY <1>5, <3>1, <3>2
  <2> QED
    BY <1>1, <1>t, <1>l, <2>1, <2>2, SpawnHeard
<1>6. ASSUME NEW r \in Reqs, Rival(r) PROVE FeedsInv'
  <2>1. plan[r].msp \in HostSessions /\ Resolve(plan[r].value) \in Modes
    BY <1>t, ModeTypes DEF TypeOK, Plan
  <2> QED
    BY <1>3, <1>6, <2>1 DEF Rival
<1>7. ASSUME NEW a \in Asks, NEW h \in HostSessions, Ask(a, h) PROVE FeedsInv'
  <2> DEFINE e == AskEvent(h, a)
  <2>1. e \in Events /\ e.msp = h /\ \A x : ~Tells(e, x)
    BY DEF AskEvent, Events, Tells
  <2>2. obs' = Post(e) /\ mode' = mode /\ mode[h] # None
    BY <1>7 DEF Ask, Exists
  <2> HIDE DEF e
  <2>3. mode'[e.msp] \in Modes /\ \A x \in HostSessions : mode'[x] = IF Tells(e, x) THEN e.value ELSE mode[x]
    BY <1>t, <2>1, <2>2 DEF TypeOK
  <2> QED
    BY <1>t, <1>l, <2>1, <2>2, <2>3, PostHeard
<1>8. ASSUME NEW o \in Reqs, Subscribe(o) \/ Resubscribe(o) PROVE FeedsInv'
  <2>1. /\ UNCHANGED <<mode, gen, up>>
        /\ \/ obs' = [obs EXCEPT ![o].at = "watching", ![o].gen = gen] /\ obs[o].at = "born"
           \/ obs' = [obs EXCEPT ![o].gen = gen] /\ obs[o].at = "watching" /\ obs[o].gen < gen
           \/ obs' = [obs EXCEPT ![o].at = "retired"]
    BY <1>8 DEF Subscribe, Resubscribe, Closed
  <2>2. \A x \in Reqs \ {o} : obs'[x] = obs[x]
    BY <2>1, <1>t DEF TypeOK
  <2>3. \A x \in Reqs \ {o} : Sound(x)' /\ (Lives' => Heard(x)')
    BY <1>t, <1>l, <2>1, <2>2, SameFeed
  <2>4. Sound(o) /\ (Lives => Heard(o))
    BY DEF FeedsInv
  <2>5. /\ obs'[o].feed = obs[o].feed
        /\ \/ obs'[o].at = "watching" /\ obs'[o].gen = gen /\ obs[o].at = "born"
           \/ obs'[o].at = "watching" /\ obs[o].at = "watching" /\ obs[o].gen < gen
           \/ obs'[o].at = "retired"
    BY <2>1, <1>t DEF TypeOK, Watchers
  <2>6. Sound(o)'
    BY <2>1, <2>4, <2>5 DEF Sound
  <2>7. ASSUME Lives' PROVE Heard(o)'
    <3>1. Heard(o)
      BY <1>l, <2>4, <2>7
    <3>2. gen \in Nat /\ ~(gen < gen)
      BY <1>t DEF TypeOK
    <3>3. CASE obs'[o].at = "watching" /\ obs'[o].gen = gen /\ obs[o].at = "born"
      <4>1. obs'[o].feed = <<>>
        BY <2>4, <2>5, <3>3 DEF Sound
      <4>2. 1..Len(obs'[o].feed) = {}
        BY <4>1
      <4> QED
        BY <2>1, <3>3, <4>2 DEF Heard
    <3> QED
      BY <2>5, <3>1, <3>2, <3>3 DEF Heard
  <2> QED
    BY <2>3, <2>6, <2>7 DEF FeedsInv
<1>9. ASSUME NEW o \in Reqs, Observe(o) PROVE FeedsInv'
  BY <1>9, <1>t, ObserveHeard DEF Observe
<1>10. ASSUME Die \/ Restart \/ UNCHANGED vars PROVE FeedsInv'
  BY <1>1, <1>10 DEF Die, Restart, vars
<1> QED
  BY <1>2, <1>4, <1>5, <1>6, <1>7, <1>8, <1>9, <1>10 DEF Next, Handle, Watch

(* A label that a step does not write keeps what makes it right.             *)
LEMMA LabelKept ==
  ASSUME NEW F, NEW s \in Sids, LabelsInv(F), Lives, Open(s), HostOf(F, s) \notin raced,
         table'[s].label = table[s].label, mode'[HostOf(F, s)] = mode[HostOf(F, s)],
         \A o \in Reqs : Hears(F, o, s) => Hears(F, o, s)'
  PROVE  Right(F, s)' \/ \E o \in Reqs : Hears(F, o, s)'
BY DEF LabelsInv, Right, HostOf

(* A send is heard by every observer of the session, and silences nothing.   *)
LEMMA PostHears ==
  ASSUME NEW F, NEW s \in Sids, TypeOK, FeedsInv, Lives, Unspilled, NEW e \in Events,
         obs' = Post(e), NEW o \in Reqs
  PROVE  /\ Hears(F, o, s) => Hears(F, o, s)'
         /\ obs[o].at = "watching" /\ obs[o].sid = s /\ Tells(e, HostOf(F, s)) => Hears(F, o, s)'
<1> SUFFICES ASSUME obs[o].at = "watching", obs[o].sid = s,
                    Hears(F, o, s) \/ Tells(e, HostOf(F, s))
             PROVE  Hears(F, o, s)'
  BY DEF Hears
<1>1. obs[o].gen = gen
  BY DEF FeedsInv, Heard
<1>2. /\ obs'[o].at = "watching" /\ obs'[o].sid = s
      /\ ExtendedBy(obs[o].feed, obs'[o].feed, e)
  BY <1>1, PostExtends
<1>3. Len(obs[o].feed) \in Nat
  BY LenProperties DEF TypeOK, Watchers
<1> QED
  BY <1>2, <1>3 DEF Hears, ExtendedBy

(* A change of a mode is heard by an observer of every session it concerns.  *)
LEMMA ModePosted ==
  ASSUME NEW F \in [Stale -> Durable], RegistryInv, ObserverInv, TableNames(F), FeedsInv,
         LabelsInv(F), Lives, Unspilled, NEW s \in Sids, Open(s), table' = table,
         NEW h \in HostSessions, NEW m \in Modes,
         obs' = Post(ModeEvent(h, m)), mode' = [mode EXCEPT ![h] = m],
         HostOf(F, s) # h => HostOf(F, s) \notin raced,
         \A o \in Reqs : obs[o].at = "born" /\ obs[o].sid = s => HostOf(F, s) # h
  PROVE  Right(F, s)' \/ \E o \in Reqs : Hears(F, o, s)'
<1> DEFINE e == ModeEvent(h, m)
<1>t. TypeOK
  BY DEF RegistryInv
<1>1. e \in Events /\ Tells(e, h)
  BY DEF ModeEvent, Events, Tells
<1>2. obs' = Post(e)
  OBVIOUS
<1> HIDE DEF e
<1>3. CASE HostOf(F, s) = h
  <2>1. PICK o \in Reqs : Attending(o, s)
    BY DEF ObserverInv, Observed, Served, Lives
  <2>2. obs[o].at = "watching" /\ obs[o].sid = s
    BY <1>3, <2>1 DEF Attending
  <2> QED
    BY <1>1, <1>2, <1>3, <1>t, <2>2, PostHears
<1>4. CASE HostOf(F, s) # h
  <2>1. mode'[HostOf(F, s)] = mode[HostOf(F, s)]
    BY <1>4, <1>t, HostNames DEF TypeOK
  <2>3. table'[s].label = table[s].label /\ HostOf(F, s) \notin raced
    BY <1>4
  <2>2. \A o \in Reqs : Hears(F, o, s) => Hears(F, o, s)'
    BY <1>1, <1>2, <1>t, PostHears
  <2> QED
    BY <2>1, <2>2, <2>3, LabelKept
<1> QED
  BY <1>3, <1>4

(* An observer that was just spawned takes nothing from the others.          *)
LEMMA SpawnHears ==
  ASSUME NEW F, TypeOK, ObserverInv, NEW r \in Reqs, req[r].at \in {"answered", "checked"},
         NEW s \in Sids, obs' = Spawned(r, s), NEW y \in Sids, NEW o \in Reqs, Hears(F, o, y)
  PROVE  Hears(F, o, y)'
<1>1. obs[r].at = "none"
  BY DEF ObserverInv, SpawnedOnce, After, Pulling
<1>2. o # r
  BY <1>1 DEF Hears
<1> QED
  BY <1>2, SpawnType DEF Hears, TypeOK

(* What the observer takes off its feed is written down, or out of date.     *)
LEMMA ObserveLabels ==
  ASSUME NEW F \in [Stale -> Durable], RegistryInv, TableNames(F), FeedsInv, LabelsInv(F),
         Lives, NEW o \in Reqs, Observe(o), NEW s \in Sids, Open(s)',
         HostOf(F, s) \notin raced
  PROVE  Right(F, s)' \/ \E x \in Reqs : Hears(F, x, s)'
<1> DEFINE feed == obs[o].feed
           rest == obs'[o].feed
<1>t. TypeOK
  BY DEF RegistryInv
<1>1. /\ Open(s) /\ table[s].msp = HostOf(F, s) /\ mode' = mode
      /\ table'[s].label = IF s = obs[o].sid /\ Tells(Head(feed), HostOf(F, s))
                           THEN LabelOf(Head(feed).value) ELSE table[s].label
  <2>1. Open(s) /\ mode' = mode
    BY <1>t, ObserveWrites DEF Observe, host
  <2> QED
    BY <1>t, <2>1, ObserveWrites DEF TableNames
<1>2. /\ obs[o].at = "watching" /\ feed \in Seq(Events) /\ feed # <<>>
      /\ obs' = [obs EXCEPT ![o].feed = Tail(@), ![o].at = IF Open(obs[o].sid) THEN @ ELSE "retired"]
  BY <1>t DEF Observe, TypeOK, Watchers
<1>3. /\ rest = Tail(feed) /\ obs'[o].sid = obs[o].sid
      /\ s = obs[o].sid => obs'[o].at = "watching"
      /\ \A x \in Reqs \ {o} : obs'[x] = obs[x]
  BY <1>1, <1>2, <1>t DEF TypeOK, Watchers
<1> HIDE DEF feed, rest
<1>4. /\ Len(feed) \in Nat \ {0} /\ Len(rest) = Len(feed) - 1 /\ Head(feed) = feed[1]
      /\ \A i \in 1..Len(rest) : rest[i] = feed[i + 1]
  <2>1. /\ Tail(feed) \in Seq(Events) /\ Len(Tail(feed)) = Len(feed) - 1
        /\ \A i \in 1..Len(Tail(feed)) : Tail(feed)[i] = feed[i + 1]
    BY <1>2, HeadTailProperties
  <2>2. Len(feed) \in Nat /\ Len(feed) # 0 /\ Head(feed) = feed[1]
    BY <1>2, LenProperties, EmptySeq, HeadTailProperties
  <2> QED
    BY <1>3, <2>1, <2>2
<1>5. \A i \in 2..Len(feed) : i - 1 \in 1..Len(rest) /\ rest[i - 1] = feed[i]
  <2> SUFFICES ASSUME NEW i \in 2..Len(feed)
               PROVE  i - 1 \in 1..Len(rest) /\ rest[i - 1] = feed[i]
    OBVIOUS
  <2>1. i - 1 \in 1..Len(rest) /\ (i - 1) + 1 = i
    BY <1>4
  <2> QED
    BY <1>4, <2>1
<1>6. ASSUME s = obs[o].sid, NEW i \in 2..Len(feed), Tells(feed[i], HostOf(F, s))
      PROVE  Hears(F, o, s)'
  BY <1>3, <1>5, <1>6 DEF Hears, rest
<1>7. CASE s = obs[o].sid /\ Tells(Head(feed), HostOf(F, s))
  <2>1. CASE \E i \in 2..Len(feed) : Tells(feed[i], HostOf(F, s))
    BY <1>6, <1>7, <2>1
  <2>2. CASE ~\E i \in 2..Len(feed) : Tells(feed[i], HostOf(F, s))
    <3>1. 1 \in 1..Len(feed) /\ \A j \in 1..Len(feed) : j > 1 => j \in 2..Len(feed)
      BY <1>4
    <3>2. LastOf(feed, 1)
      BY <1>4, <1>7, <2>2, <3>1 DEF LastOf, Tells
    <3>3. feed[1].value = mode[HostOf(F, s)]
      BY <1>2, <1>4, <1>7, <3>1, <3>2 DEF FeedsInv, Heard, Tells, feed
    <3>4. Stands(LabelOf(mode[HostOf(F, s)]), mode[HostOf(F, s)])
      BY LabelsStand
    <3> QED
      BY <1>1, <1>4, <1>7, <3>3, <3>4 DEF Right, HostOf
  <2> QED
    BY <2>1, <2>2
<1>8. CASE ~(s = obs[o].sid /\ Tells(Head(feed), HostOf(F, s)))
  <2>1. ASSUME NEW x \in Reqs, Hears(F, x, s) PROVE Hears(F, x, s)'
    <3>1. CASE x # o
      BY <1>3, <2>1, <3>1 DEF Hears
    <3>2. CASE x = o
      <4>1. s = obs[o].sid /\ \E i \in 1..Len(feed) : Tells(feed[i], HostOf(F, s))
        BY <2>1, <3>2 DEF Hears, feed
      <4>2. \E i \in 2..Len(feed) : Tells(feed[i], HostOf(F, s))
        <5>1. \A i \in 1..Len(feed) : i = 1 \/ i \in 2..Len(feed)
          BY <1>4
        <5> QED
          BY <1>4, <1>8, <4>1, <5>1
      <4> QED
        BY <1>6, <3>2, <4>1, <4>2
    <3> QED
      BY <3>1, <3>2
  <2> QED
    BY <1>1, <1>8, <2>1, LabelKept
<1> QED
  BY <1>7, <1>8

(* Every step leaves a label right, or with the mode to come to an observer. *)
LEMMA LabelsStep ==
  ASSUME NEW F \in [Stale -> Durable], NamedBy(F), "slow" \notin Faults,
         ModesInv(F), RegistryInv, ObserverInv, Unspilled, [Next]_vars
  PROVE  LabelsInv(F)'
<1> SUFFICES ASSUME Lives', NEW s \in Sids, Open(s)', HostOf(F, s)' \notin raced'
             PROVE  Right(F, s)' \/ \E o \in Reqs : Hears(F, o, s)'
  BY DEF LabelsInv
<1> DEFINE Goal == Right(F, s)' \/ \E o \in Reqs : Hears(F, o, s)'
<1> USE DEF host
<1>t. TypeOK
  BY DEF RegistryInv
<1>i. RequestsInv(F) /\ TableNames(F) /\ NoneWaits(F) /\ FeedsInv /\ LabelsInv(F)
  BY DEF ModesInv
<1>l. Lives
  BY <1>t, LivesBefore
<1>h. HostOf(F, s) \in HostSessions /\ HostOf(F, s) \notin raced'
  BY HostNames DEF HostOf
<1> HIDE DEF Goal
<1>1. ASSUME Open(s), table'[s].label = table[s].label, mode' = mode, raced' = raced,
             \A o \in Reqs : Hears(F, o, s) => Hears(F, o, s)'
      PROVE  Goal
  BY <1>1, <1>h, <1>i, <1>l, LabelKept DEF Goal
<1>2. ASSUME UNCHANGED <<table, obs, mode, raced>> PROVE Goal
  BY <1>1, <1>2 DEF Open, Hears, HostOf
<1>3. ASSUME NEW r \in Reqs, Present(r) PROVE Goal
  <2>1. UNCHANGED <<obs, mode, raced>>
    BY <1>3 DEF Present
  <2> QED
    BY <1>1, <1>3, <1>t, <2>1, PresentWrites DEF Hears, HostOf
<1>4. ASSUME NEW r \in Reqs, Close(r) PROVE Goal
  <2>1. UNCHANGED <<obs, mode, raced>>
    BY <1>4 DEF Close
  <2> QED
    BY <1>1, <1>4, <1>t, <2>1, CloseWrites DEF Hears, HostOf
<1>5. ASSUME NEW r \in Reqs, Apply(r) PROVE Goal
  <2>1. UNCHANGED <<obs, mode, raced>> /\ req[r].at = "answered" /\ plan[r].op \in Setting
    BY <1>5 DEF Apply
  <2>2. CASE s = plan[r].sid
    <3>1. table'[s].label = Told(r)
      BY <1>5, <1>t, <2>2, ApplyWrites
    <3>2. req[r].msp = HostOf(F, s)
      BY <1>i, <2>1, <2>2 DEF RequestsInv, Named, Working, Busy
    <3>3. Stands(Told(r), mode[HostOf(F, s)])
      BY <1>h, <1>i, <2>1, <3>2 DEF RequestsInv, Echoes
    <3> QED
      BY <2>1, <3>1, <3>3 DEF Goal, Right, HostOf
  <2>3. CASE s # plan[r].sid
    BY <1>1, <1>5, <1>t, <2>1, <2>3, ApplyWrites DEF Hears, HostOf
  <2> QED
    BY <2>2, <2>3
<1>6. ASSUME NEW r \in Reqs, Insert(r) \/ Fork(r) PROVE Goal
  <2>1. /\ req[r].at = "answered" /\ plan[r].op \in Creating /\ obs' = Spawned(r, r)
        /\ Stands(table'[r].label, req[r].folded)
        /\ \A y \in Sids \ {r} : table'[y] = table[y]
        /\ r \in Sids /\ HostOf(F, r) = r
    BY <1>6, InsertWrites, HostNames
  <2>2. mode' = mode /\ raced' = raced
    BY <1>6, HandlerMoves
  <2>3. CASE s = r
    <3>1. req[r].msp = r
      BY <2>1 DEF RegistryInv, Reaches
    <3>2. req[r].folded = mode[r]
      BY <1>h, <1>i, <2>1, <2>2, <2>3, <3>1 DEF RequestsInv, Echoes
    <3> QED
      BY <2>1, <2>2, <2>3, <3>2 DEF Goal, Right, HostOf
  <2>4. CASE s # r
    BY <1>1, <1>t, <2>1, <2>2, <2>4, SpawnHears DEF Open
  <2> QED
    BY <2>3, <2>4
<1>7. ASSUME NEW r \in Reqs, Attach(r) PROVE Goal
  <2>1. /\ req[r].at = "checked" /\ plan[r].op = "resume" /\ plan[r].sid \in Sids
        /\ obs' = IF req[r].fresh THEN Spawned(r, plan[r].sid) ELSE obs
        /\ Stands(table'[plan[r].sid].label, req[r].folded)
        /\ \A y \in Sids \ {plan[r].sid} : table'[y] = table[y]
    BY <1>7, AttachWrites
  <2>2. mode' = mode /\ raced' = raced
    BY <1>7, HandlerMoves
  <2>3. CASE s = plan[r].sid
    <3>1. req[r].msp = HostOf(F, s)
      BY <1>i, <2>1, <2>3 DEF RequestsInv, Named, Working, Busy
    <3>2. req[r].folded = mode[req[r].msp]
      BY <1>h, <1>i, <2>1, <2>2, <3>1 DEF RequestsInv, Echoes
    <3> QED
      BY <2>1, <2>2, <2>3, <3>1, <3>2 DEF Goal, Right, HostOf
  <2>4. CASE s # plan[r].sid
    <3>1. \A o \in Reqs : Hears(F, o, s) => Hears(F, o, s)'
      <4>1. CASE req[r].fresh
        BY <1>t, <2>1, <4>1, SpawnHears
      <4>2. CASE ~req[r].fresh
        BY <2>1, <4>2 DEF Hears, HostOf
      <4> QED
        BY <4>1, <4>2
    <3> QED
      BY <1>1, <2>1, <2>2, <2>4, <3>1 DEF Open
  <2> QED
    BY <2>3, <2>4
<1>8. ASSUME NEW r \in Reqs, Execute(r) PROVE Goal
  <2>0. /\ req[r].at = "called" /\ table' = table /\ Open(s) /\ table[s].msp = HostOf(F, s)
        /\ raced' = raced
    BY <1>8, <1>i DEF Execute, Open, TableNames
  <2>1. CASE plan[r].op \in Creating /\ Creates(r)
    <3>1. PICK m : mode' = [mode EXCEPT ![r] = m] /\ obs' = obs
      BY <2>1 DEF Creates
    <3>2. mode[r] = None
      BY <1>i, <2>0 DEF RequestsInv, Uncreated, Early
    <3>3. mode[HostOf(F, s)] \in Modes
      BY <2>0 DEF RegistryInv, Backed
    <3>4. mode'[HostOf(F, s)] = mode[HostOf(F, s)]
      BY <1>t, <1>h, <3>1, <3>2, <3>3, AcpRegistryAssumption DEF TypeOK
    <3> QED
      BY <1>h, <1>i, <1>l, <2>0, <3>1, <3>4, LabelKept DEF Goal, Hears, HostOf
  <2>2. CASE plan[r].op \in Setting /\ Sets(r)
    <3>1. PICK m \in Folds(r) : /\ mode' = [mode EXCEPT ![req[r].msp] = m]
                               /\ obs' = Post(ModeEvent(req[r].msp, m))
      BY <2>2 DEF Sets
    <3>2. req[r].msp \in HostSessions /\ m \in Modes
      BY <2>0, <2>2, <3>1, ModeTypes DEF RegistryInv, Reaches, Setting
    <3>3. Working(r) /\ req[r].msp = HostOf(F, plan[r].sid)
      BY <1>i, <2>0, <2>2 DEF RequestsInv, Named, Working, Busy
    <3>4. \A o \in Reqs : obs[o].at = "born" => HostOf(F, obs[o].sid) # req[r].msp
      BY <1>i, <2>0, <3>3 DEF NoneWaits, Early
    <3> QED
      BY <1>h, <1>i, <1>l, <2>0, <3>1, <3>2, <3>4, ModePosted DEF Goal
  <2>3. CASE Reads(r)
    BY <1>2, <2>0, <2>3 DEF Reads
  <2> QED
    BY <1>8, <2>1, <2>2, <2>3 DEF Execute
<1>9. ASSUME NEW r \in Reqs, Rival(r) PROVE Goal
  <2> DEFINE h == plan[r].msp
             m == Resolve(plan[r].value)
  <2>1. /\ table' = table /\ Open(s)
        /\ mode' = [mode EXCEPT ![h] = m] /\ obs' = Post(ModeEvent(h, m))
        /\ raced' = IF InHand(h) THEN raced \union {h} ELSE raced \ {h}
    BY <1>9 DEF Rival, Open
  <2>2. h \in HostSessions /\ m \in Modes
    BY <1>t, ModeTypes DEF TypeOK, Plan
  <2> HIDE DEF h, m
  <2>3. HostOf(F, s) # h => HostOf(F, s) \notin raced
    BY <1>h, <2>1
  <2>4. \A o \in Reqs : obs[o].at = "born" /\ obs[o].sid = s => HostOf(F, s) # h
    <3> SUFFICES ASSUME NEW o \in Reqs, obs[o].at = "born", obs[o].sid = s, HostOf(F, s) = h
                 PROVE  FALSE
      OBVIOUS
    <3>1. table[s].msp = h
      BY <1>i, <2>1 DEF TableNames
    <3>2. InHand(h)
      BY <2>1, <3>1 DEF InHand
    <3> QED
      BY <1>h, <2>1, <3>2
  <2> QED
    BY <1>i, <1>l, <2>1, <2>2, <2>3, <2>4, ModePosted DEF Goal
<1>10. ASSUME NEW a \in Asks, NEW h \in HostSessions, Ask(a, h) PROVE Goal
  <2>1. UNCHANGED <<table, mode, raced>> /\ obs' = Post(AskEvent(h, a)) /\ AskEvent(h, a) \in Events
    BY <1>10 DEF Ask, AskEvent, Events
  <2> QED
    BY <1>1, <1>t, <1>i, <1>l, <2>1, PostHears DEF Open
<1>11. ASSUME NEW o \in Reqs, Observe(o) PROVE Goal
  <2>1. raced' = raced
    BY <1>11 DEF Observe
  <2> QED
    BY <1>11, <1>h, <1>i, <1>l, <2>1, ObserveLabels DEF Goal
<1>12. ASSUME NEW o \in Reqs, Subscribe(o) \/ Resubscribe(o) PROVE Goal
  <2>1. UNCHANGED <<table, mode, raced>>
    BY <1>12 DEF Subscribe, Resubscribe
  <2>2. ~Resubscribe(o)
    <3>1. obs[o].at = "watching" => obs[o].gen = gen
      BY <1>i, <1>l DEF FeedsInv, Heard
    <3>2. ~(gen < gen)
      BY <1>t DEF TypeOK
    <3> QED
      BY <3>1, <3>2 DEF Resubscribe, Closed
  <2>3. obs[o].at = "born" /\ \A x \in Reqs \ {o} : obs'[x] = obs[x]
    BY <1>12, <1>t, <2>2 DEF Subscribe, TypeOK
  <2>4. \A x \in Reqs : Hears(F, x, s) => Hears(F, x, s)'
    BY <2>3 DEF Hears, HostOf
  <2> QED
    BY <1>1, <2>1, <2>4 DEF Open
<1>13. ASSUME NEW r \in Reqs,
              Enter(r) \/ Connect(r) \/ Fail(r) \/ Check(r) \/ Pull(r) \/ Lists(r)
       PROVE  Goal
  BY <1>2, <1>13 DEF Enter, Connect, Fail, Check, Pull, Lists
<1>14. ASSUME Die \/ Restart \/ UNCHANGED vars PROVE Goal
  BY <1>2, <1>14 DEF Die, Restart, vars
<1> QED
  BY <1>3, <1>4, <1>5, <1>6, <1>7, <1>8, <1>9, <1>10, <1>11, <1>12, <1>13, <1>14
     DEF Next, Handle, Watch, Goal

-----------------------------------------------------------------------------
(* The invariant that the theorems below rest on.                            *)
THEOREM RegistryInvariant == SafeSpec => []RegistryInv
<1>1. RegistryInv /\ [Next]_vars => RegistryInv'
  BY TypeStep, ReachStep DEF RegistryInv
<1> QED
  BY InitRegistry, <1>1, PTL DEF SafeSpec

(* An open session names a session that exists on the host.                  *)
THEOREM SessionsBacked == SafeSpec => []Backed
<1>1. RegistryInv => Backed
  BY DEF RegistryInv
<1> QED
  BY RegistryInvariant, <1>1, PTL

(* Whatever is opened, closed and resumed, and however often the host is     *)
(* replaced, an open session has an observer that listens or is about to,    *)
(* until the supervisor gives up or a restart outlasts ready's deadline: if  *)
(* clients that name sessions alike wait for an answer about one before they *)
(* send another request about it.                                            *)
THEOREM SessionsObserved ==
  ASSUME "overlap" \notin Faults, Consistent(Plans)
  PROVE  SafeSpec => []Observed
<1>1. RegistryInv /\ ObserverInv /\ [Next]_vars => ObserverInv'
  BY ObserverStep
<1>2. ObserverInv => Observed
  BY DEF ObserverInv
<1> QED
  BY InitRegistry, RegistryInvariant, <1>1, <1>2, PTL DEF SafeSpec

(* Once all is quiet, and unless the host died, the label of an open session *)
(* is the one for the mode the host applies, whatever requests and rivals    *)
(* came before, in either vocabulary: if clients agree on what an id stands  *)
(* for, wait for an answer about a session before they send another request  *)
(* about it, observers are polled before their session is asked anything,    *)
(* the host folds the mode it is asked for, and no receiver overruns.  What  *)
(* is left out is a session whose last change of mode, by another client,    *)
(* met an answer in hand or an observer that had yet to subscribe.           *)
THEOREM LabelsTruthful ==
  ASSUME NEW F \in [Stale -> Durable], NamedBy(F),
         "overlap" \notin Faults, "slow" \notin Faults, "forced" \notin Faults
  PROVE  SafeSpec /\ [][Unspilled]_vars => []ModeTruthful
<1> DEFINE Inv == RegistryInv /\ ObserverInv /\ ModesInv(F)
<1>1. Init => Inv
  <2> SUFFICES ASSUME Init PROVE ModesInv(F)
    BY InitRegistry
  <2>1. /\ \A r \in Reqs : req[r].at = "idle" /\ obs[r].at = "none" /\ obs[r].feed = <<>>
        /\ \A s \in Sids : ~Open(s)
        /\ \A r \in Reqs : mode[r] = None
    BY AcpRegistryAssumption DEF Init, Idle, Unborn, Open, HostSessions
  <2>2. RequestsInv(F)
    BY <2>1 DEF RequestsInv, Named, Alone, Introduced, Echoes, Uncreated, Working, Busy
  <2>3. TableNames(F) /\ NoneWaits(F) /\ LabelsInv(F)
    BY <2>1 DEF TableNames, NoneWaits, LabelsInv
  <2>4. FeedsInv
    BY <2>1, AcpRegistryAssumption DEF FeedsInv, Sound, Heard
  <2> QED
    BY <2>2, <2>3, <2>4 DEF ModesInv
<1>2. ASSUME Inv, [Next]_vars, [Unspilled]_vars PROVE Inv'
  <2>1. Unspilled
    BY <1>2 DEF Unspilled, vars
  <2>2. Consistent(Plans)
    BY DEF Consistent, NamedBy
  <2>3. RegistryInv'
    BY <1>2, TypeStep, ReachStep DEF RegistryInv
  <2>4. ObserverInv'
    BY <1>2, <2>2, ObserverStep
  <2>5. RequestsInv(F)' /\ TableNames(F)'
    BY <1>2, RequestsStep, NamesStep DEF ModesInv
  <2>6. NoneWaits(F)'
    BY <1>2, WaitsStep DEF ModesInv
  <2>7. FeedsInv'
    BY <1>2, <2>1, FeedsStep DEF ModesInv
  <2>8. LabelsInv(F)'
    BY <1>2, <2>1, LabelsStep
  <2> QED
    BY <2>3, <2>4, <2>5, <2>6, <2>7, <2>8 DEF ModesInv
<1>3. Inv => ModeTruthful
  <2> SUFFICES ASSUME Inv, Calm, NEW s \in Sids, Open(s),
                      table[s].msp \notin raced
               PROVE  Stands(table[s].label, mode[table[s].msp])
    BY DEF ModeTruthful
  <2>1. Right(F, s) \/ \E o \in Reqs : Hears(F, o, s)
    BY DEF ModesInv, TableNames, LabelsInv, Lives, Calm
  <2>2. ASSUME NEW o \in Reqs PROVE ~Hears(F, o, s)
    <3>1. obs[o].at = "watching" => 1..Len(obs[o].feed) = {}
      BY DEF Calm
    <3> QED
      BY <3>1 DEF Hears
  <2> QED
    BY <2>1, <2>2 DEF ModesInv, TableNames, Right
<1> QED
  BY <1>1, <1>2, <1>3, PTL DEF SafeSpec
=============================================================================

----------------------------- MODULE HttpStream -----------------------------
(***************************************************************************)
(* How an HTTP endpoint renders a turn: the pump of src/src/http/sse.rs,   *)
(* the renderers of chat.rs and responses.rs, and the collected answer of  *)
(* both.  The turn's side is TurnDriver's: events sent into a bounded      *)
(* channel, a terminal at most once and last, and a sender that is dropped *)
(* in the end, without a terminal if the driver broke off.                 *)
(*                                                                         *)
(* An event's text is its position in the script, so that a frame says     *)
(* which events it carries.  "early" in Faults lets the client close the   *)
(* response before its end: the stream is dropped with the handle, which   *)
(* cancels the turn.                                                       *)
(*                                                                         *)
(* Unheard and Forgetful are mutants of the definitions that follow each.  *)
(***************************************************************************)
EXTENDS Naturals, Sequences, FiniteSets

CONSTANTS
  Scripts,    \* the turns' events
  Endpoints,  \* which renderers are used, with or without a stream
  Depth,      \* capacity of the event channel
  Faults

(* A text or status line, a delta of a reasoning part, or the terminal.      *)
Content  == [kind : {"text", "status"}, part : {0}]
Thinking == [kind : {"reasoning"}, part : Nat]
Terminal == [kind : {"completed", "cancelled", "failed"}, part : {0}]
Event    == Content \union Thinking \union Terminal

Ended(e) == e.kind \in {"completed", "cancelled", "failed"}

ASSUME HttpStreamAssumption ==
  /\ Scripts \subseteq Seq(Event)
  /\ \A s \in Scripts : \A k \in 1..(Len(s) - 1) : ~Ended(s[k])
  /\ Endpoints \subseteq {"chat", "chat+usage", "responses", "collected"}
  /\ Depth \in Nat \ {0} /\ Faults \subseteq {"early"}

VARIABLES
  script, endpoint,
  sent,     \* how many events the driver has sent
  driver,   \* "running", "stopped", or "cancelled" by the dropped handle
  taken,    \* how many the endpoint has received
  state,    \* what the renderer remembers
  queue,    \* frames rendered and not yet emitted
  out,      \* frames the client has
  done,     \* the last render was a terminal one
  client    \* "reading", "ended" or "gone"

vars == <<script, endpoint, sent, driver, taken, state, queue, out, done, client>>
turn == <<script, endpoint>>

(* A frame: its name, the part or output index and the event it is about,    *)
(* and the texts a final object carries.                                     *)
F(name, index, of) == [name |-> name, index |-> index, of |-> of, text |-> <<>>, sums |-> <<>>]
Final(name, text, sums) == [F(name, 0, 0) EXCEPT !.text = text, !.sums = sums]

(* stream_response: the frames that go out before the first event.           *)
Preface == CASE endpoint = "responses" -> << F("created", 0, 0), F("item.added", 0, 0) >>
             [] endpoint = "collected" -> <<>>
             [] OTHER                  -> << F("role", 0, 0) >>

Fresh == [text |-> <<>>, parts |-> <<>>, added |-> FALSE, current |-> {}, status |-> <<>>]

Init ==
  /\ script \in Scripts /\ endpoint \in Endpoints
  /\ sent = 0 /\ driver = "running" /\ taken = 0
  /\ state = Fresh
  /\ queue = Preface /\ out = <<>> /\ done = FALSE
  /\ client = "reading"

----------------------------------------------------------------------------
(* The driver waits for room, and drops its sender after its last event.     *)
Send ==
  /\ driver = "running" /\ sent < Len(script) /\ sent - taken < Depth
  /\ sent' = sent + 1
  /\ UNCHANGED <<turn, driver, taken, state, queue, out, done, client>>

Stop ==
  /\ driver = "running" /\ sent = Len(script)
  /\ driver' = "stopped"
  /\ UNCHANGED <<turn, sent, taken, state, queue, out, done, client>>

(* TurnHandle's drop cancels the turn and closes the channel.                *)
Unheard == FALSE
Dropped == client # "reading"
Cancel ==
  /\ driver = "running" /\ Dropped
  /\ driver' = "cancelled"
  /\ UNCHANGED <<turn, sent, taken, state, queue, out, done, client>>

----------------------------------------------------------------------------
(* ChatRender::poll.                                                         *)
ChatFrames(e, k) ==
  CASE e.kind \in {"text", "status"} -> << F("content", 0, k) >>
    [] e.kind = "reasoning"          -> << F("reasoning", 0, k) >>
    [] e.kind = "completed"          -> << F("stop", 0, 0) >>
                                        \o (IF endpoint = "chat+usage" THEN << F("usage", 0, 0) >>
                                                                       ELSE <<>>)
                                        \o << F("DONE", 0, 0) >>
    [] OTHER                         -> << F("error", 0, 0) >>

(* ResponsesRender::reasoning_delta adds the item and the part at first      *)
(* sight, and finishes the part before it turns to another.                  *)
Padded(parts, p) == [i \in 1..(IF Len(parts) > p THEN Len(parts) ELSE p + 1) |->
                       IF i <= Len(parts) THEN parts[i] ELSE <<>>]
Grown(parts, p, k) == [Padded(parts, p) EXCEPT ![p + 1] = Append(@, k)]
(* Parts without a text are left out of the final object, and the others     *)
(* numbered anew.                                                            *)
Kept(parts) ==
  LET told == {i \in DOMAIN parts : parts[i] # <<>>}
      nth(n) == CHOOSE i \in told : Cardinality({j \in told : j <= i}) = n
  IN [n \in 1..Cardinality(told) |-> parts[nth(n)]]
Turned(p) ==
  IF state.current = {p} THEN <<>>
  ELSE (IF state.current = {} THEN <<>>
        ELSE << F("part.done", CHOOSE q \in state.current : TRUE, 0) >>)
       \o << F("part.added", p, 0) >>
Thought(p, k) == (IF state.added THEN <<>> ELSE << F("item.added", 1, 0) >>)
                   \o Turned(p) \o << F("summary.delta", p, k) >>

(* ResponsesRender::terminal finishes what was added, the message last.      *)
Forgetful == <<>>
Thoughts ==
  IF ~state.added THEN <<>>
  ELSE << F("part.done", CHOOSE q \in state.current : TRUE, 0), F("item.done", 1, 0) >>
Finished ==
  Thoughts \o << F("item.done", 0, 0), Final("response.completed", state.text, Kept(state.parts)) >>

ResponsesFrames(e, k) ==
  CASE e.kind \in {"text", "status"} -> << F("text.delta", 0, k) >>
    [] e.kind = "reasoning"          -> Thought(e.part, k)
    [] e.kind = "completed"          -> Finished
    [] OTHER                         -> << F("response.failed", 0, 0) >>

(* collect: text and reasoning are joined, and the status lines follow.      *)
Collected(e) ==
  CASE e.kind = "completed"             -> << Final("body", state.text \o state.status,
                                                    Kept(state.parts)) >>
    [] e.kind \in {"cancelled", "failed"} -> << F("error", 0, 0) >>
    [] OTHER                            -> <<>>

Rendered(e, k) == CASE endpoint = "responses" -> ResponsesFrames(e, k)
                    [] endpoint = "collected" -> Collected(e)
                    [] OTHER                  -> ChatFrames(e, k)

Remembered(e, k) ==
  CASE e.kind = "text" \/ (e.kind = "status" /\ endpoint # "collected") ->
         [state EXCEPT !.text = Append(@, k)]
    [] e.kind = "status" /\ endpoint = "collected" -> [state EXCEPT !.status = Append(@, k)]
    [] e.kind = "reasoning" ->
         [state EXCEPT !.parts = IF endpoint = "collected" THEN Grown(@, 0, k) ELSE Grown(@, e.part, k),
                       !.added = TRUE, !.current = {e.part}]
    [] Ended(e) -> state

(* The pump emits what is queued before it looks for another event; the      *)
(* closed channel renders an error, and a beat of the clock (one is enough   *)
(* here) a comment.                                                          *)
Emit ==
  /\ client = "reading" /\ queue # <<>>
  /\ out' = Append(out, Head(queue)) /\ queue' = Tail(queue)
  /\ UNCHANGED <<turn, sent, driver, taken, state, done, client>>

Polling == client = "reading" /\ queue = <<>> /\ ~done

Poll ==
  /\ Polling /\ taken < sent
  /\ LET k == taken + 1
     IN /\ taken' = k
        /\ queue' = Rendered(script[k], k)
        /\ state' = Remembered(script[k], k)
        /\ done' = Ended(script[k])
  /\ UNCHANGED <<turn, sent, driver, out, client>>

Closed ==
  /\ Polling /\ taken = sent /\ driver # "running"
  /\ queue' = << F("error", 0, 0) >> /\ done' = TRUE
  /\ UNCHANGED <<turn, sent, driver, taken, state, out, client>>

KeepAlive ==
  /\ Polling /\ taken = sent /\ driver = "running" /\ endpoint # "collected"
  /\ \A k \in DOMAIN out : out[k].name # "ping"
  /\ queue' = << F("ping", 0, 0) >>
  /\ UNCHANGED <<turn, sent, driver, taken, state, out, done, client>>

End ==
  /\ client = "reading" /\ queue = <<>> /\ done
  /\ client' = "ended"
  /\ UNCHANGED <<turn, sent, driver, taken, state, queue, out, done>>

Leave ==
  /\ "early" \in Faults /\ client = "reading"
  /\ client' = "gone"
  /\ UNCHANGED <<turn, sent, driver, taken, state, queue, out, done>>

Pump == Emit \/ Poll \/ Closed \/ KeepAlive \/ End
Next == Send \/ Stop \/ Cancel \/ Pump \/ Leave

(* The turn goes on (TurnSettles of TurnDriver), and the client reads.       *)
Fairness == WF_vars(Send) /\ WF_vars(Stop) /\ WF_vars(Cancel) /\ WF_vars(Pump)

SafeSpec == Init /\ [][Next]_vars
Spec == SafeSpec /\ Fairness

----------------------------------------------------------------------------
Stream == out \o queue
Named(names) == {k \in DOMAIN Stream : Stream[k].name \in names}
Frames(name, index) == {k \in Named({name}) : Stream[k].index = index}
Told == IF taken > 0 /\ Ended(script[taken]) THEN taken - 1 ELSE taken

(* Streamed deltas are the turn's events, each once and in order.            *)
EachOnce ==
  endpoint # "collected" =>
    LET carriers == {k \in DOMAIN Stream : Stream[k].of # 0}
    IN /\ {Stream[k].of : k \in carriers} = 1..Told
       /\ \A j, k \in carriers : j < k => Stream[j].of < Stream[k].of

(* The response ends once, with its last frame, and as the turn did: it says *)
(* that the turn is complete only if it is.                                  *)
Enders == Named({"DONE", "error", "response.completed", "response.failed", "body"})
EndsOnce ==
  /\ Enders = IF done THEN {Len(Stream)} ELSE {}
  /\ Named({"stop", "usage", "body", "response.completed"}) # {} =>
       taken > 0 /\ script[taken].kind = "completed"

(* A delta comes while its part is open, a part and an item are opened and   *)
(* closed once, and a completed response leaves nothing open.                *)
Within(k, opener, closer) ==
  \E j \in Frames(opener, Stream[k].index) :
    j < k /\ \A c \in Frames(closer, Stream[k].index) : ~(j < c /\ c < k)
Closes(opener, closer) ==
  \A k \in Named({opener}) :
    /\ Frames(opener, Stream[k].index) = {k}
    /\ Cardinality(Frames(closer, Stream[k].index)) <= 1
    /\ Named({"response.completed"}) # {} => \E c \in Frames(closer, Stream[k].index) : c > k
Bracketed ==
  /\ \A k \in Named({"summary.delta"}) : Within(k, "part.added", "part.done")
  /\ \A k \in Named({"text.delta"}) : Within(k, "item.added", "item.done")
  /\ Closes("part.added", "part.done") /\ Closes("item.added", "item.done")

(* The final object restates what was streamed: no event is missing from it, *)
(* what is joined is joined in order, and each summary is what the deltas of *)
(* one part were, a later one of a later part.                               *)
Elements(seq) == {seq[i] : i \in DOMAIN seq}
Rising(seq) == \A i, j \in DOMAIN seq : i < j => seq[i] < seq[j]
Streamed == {Stream[j].index : j \in Named({"summary.delta"})}
Restated ==
  \A k \in Named({"response.completed", "body"}) :
    LET f == Stream[k]
    IN /\ Elements(f.text) \union UNION {Elements(f.sums[p]) : p \in DOMAIN f.sums} = 1..Told
       /\ \A p \in DOMAIN f.sums : Rising(f.sums[p])
       /\ endpoint = "responses" =>
            /\ Rising(f.text)
            /\ \E part \in [DOMAIN f.sums -> Streamed] :
                 /\ Rising(part)
                 /\ \A p \in DOMAIN f.sums :
                      Elements(f.sums[p]) = {Stream[j].of : j \in Frames("summary.delta", part[p])}

(* A response renders its turn: every event once, one truthful end, parts    *)
(* and items bracketed, and a final object that restates the deltas.         *)
TurnRendered == EachOnce /\ EndsOnce /\ Bracketed /\ Restated

(* A response ends, or its client leaves, and no turn runs on for nobody.    *)
ResponseEnds == []<>(client # "reading" /\ driver # "running")
=============================================================================

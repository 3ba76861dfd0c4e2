----------------------------- MODULE MCEndpoints ------------------------------
(* The two ends of the bridge at which clients wait: an HTTP response and the *)
(* ACP server's stdout.  They share no state but what TurnDriver and AcpTurns *)
(* are about, so a behaviour uses one of them while the other rests.  The     *)
(* server's state has names here that HttpStream does not use.                *)
EXTENDS HttpStream

CONSTANTS
  Clients,        \* Scripts, Depth and Faults of AcpServer
  OutboundDepth,
  ServerFaults

VARIABLES side, input, read, hungup, loop, tasks, version, agreed, live, inFlight, cut, flag,
          updates, outbound, writer, written

Server == INSTANCE AcpServer
            WITH Scripts <- Clients, Depth <- OutboundDepth, Faults <- ServerFaults,
                 script <- input, queue <- outbound
serving == <<input, read, hungup, loop, tasks, version, agreed, live, inFlight, cut, flag,
             updates, outbound, writer, written>>

ASSUME ServerAssumption ==
  /\ Clients \subseteq Seq(Server!Line) /\ Clients # {}
  /\ OutboundDepth \in Nat \ {0}
  /\ ServerFaults \subseteq {"hangup", "stdout", "oversize", "stall"}

(* The end that rests is in one of its initial states.                        *)
EitherInit ==
  /\ side \in {"http", "acp"} /\ Init /\ Server!Init
  /\ side # "http" => script = CHOOSE s \in Scripts : TRUE
  /\ side # "http" => endpoint = CHOOSE e \in Endpoints : TRUE
  /\ side # "acp" => input = CHOOSE s \in Clients : TRUE
OfHttp(A) == side = "http" /\ A /\ UNCHANGED <<side, serving>>
OfAcp(A)  == side = "acp" /\ A /\ UNCHANGED <<side, vars>>
both == <<vars, side, serving>>
EitherSpec ==
  /\ EitherInit /\ [][OfHttp(Next) \/ OfAcp(Server!Next)]_both
  \* A behaviour has finitely many steps, so what is fair to the actions of an
  \* end taken together is fair to each: see Fairness of HttpStream and AcpServer.
  /\ WF_both(OfHttp(Send \/ Stop \/ Cancel \/ Pump))
  /\ WF_both(OfAcp(Server!Loop \/ \E i \in Server!Lines : Server!Handle(i)))
  /\ "stall" \notin ServerFaults => WF_both(OfAcp(Server!Write))

(* A session's commands come after the reply that names it, and the reply to  *)
(* a close after those to the prompts it interrupts: RepliesFirst of          *)
(* AcpServer, about src/acp/server.rs.                                        *)
RepliesFirst == Server!RepliesFirst

(* A response that is streamed or collected ends: ResponseEnds of HttpStream, *)
(* about src/http/sse.rs.                                                     *)
ResponseLive == side = "http" => ResponseEnds

(* A request that waits for nothing is answered, and the server stops:        *)
(* ServerLive of AcpServer, about src/acp/server.rs.                          *)
ServerLive == side = "acp" => Server!ServerLive
-----------------------------------------------------------------------------
(* Turns whose reasoning parts come in order: parts between texts, a part     *)
(* that is never told, no text, and every way to end.                         *)
Say(kind)  == [kind |-> kind, part |-> 0]
Think(p)   == [kind |-> "reasoning", part |-> p]

MCBodies == {
  << Think(0), Say("text"), Think(0), Think(1), Say("status"), Say("text") >>,
  << Say("text"), Think(1), Say("text"), Think(2) >>,
  << Think(0), Think(1) >>,
  << Say("status"), Say("text") >>,
  << >> }
MCTerminals == {<<Say("completed")>>, <<Say("cancelled")>>, <<Say("failed")>>, << >>}
MCScripts   == {body \o terminal : body \in MCBodies, terminal \in MCTerminals}

(* A client that pipelines: two sessions at once, a cancel behind a request,  *)
(* a session closed over its prompts, a prompt whose session may be of the    *)
(* first or second version, lines to skip, and an end by shutdown, exit or    *)
(* end of file.                                                               *)
MCClients == {
  <<"open", "open">>,
  <<"garbage", "open", "cancel", "shutdown">>,
  <<"initialize", "open", "exit">>,
  <<"plain", "chatter", "shutdown", "plain">>,
  <<"open", "prompt", "shutdown">>,
  <<"open", "prompt", "prompt", "close">>,
  <<"initialize", "open", "prompt">> }
=============================================================================

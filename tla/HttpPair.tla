------------------------------ MODULE HttpPair ------------------------------
(***************************************************************************)
(* The two ends of a connection together: the client of libhttpd and its   *)
(* server, either one with a peer of another make, over a network that     *)
(* cuts messages into pieces and may lose the connection.                  *)
(***************************************************************************)
EXTENDS HttpClient

CONSTANTS
  Setups,      \* [peer, keeps, file, requests, asked, chunks, losses]: who is there
               \* ("pair", "client", "server"), the server's handler and files, what the
               \* client requests, what another client asks and sends; the bound on how
               \* often a connection is lost
  Replies      \* what another server answers: [status, length, connection, body]

VARIABLES
  setup,
  requests,    \* the requests still to be made
  chunks,      \* the chunks still to be sent
  reply,       \* the last answer of another server
  losses

peerVars == <<setup, requests, chunks, reply, losses>>
vars == <<wireVars, serverVars, keeps, fileVars, clientVars, peerVars>>

NoReply == [status |-> "", length |-> <<>>, connection |-> <<>>, body |-> 0]

Init ==
  /\ ConnInit /\ ClientInit
  /\ setup \in Setups
  /\ keeps = setup.keeps /\ file = setup.file
  /\ requests = setup.requests /\ chunks = setup.chunks /\ reply = NoReply /\ losses = 0

-----------------------------------------------------------------------------
NextRequestOfClient ==
  /\ requests # <<>>
  /\ request(Head(requests))
  /\ requests' = Tail(requests)
  /\ UNCHANGED <<wireVars, serverVars, keeps, fileVars, setup, chunks, reply, losses>>

ClientConnects ==
  /\ Connect
  /\ IF setup.peer = "pair" THEN ServerStarts ELSE UNCHANGED serverVars
  /\ UNCHANGED <<keeps, fileVars, peerVars>>

ClientStep ==
  \/ /\ \/ produce \/ (\E k \in 1 .. BufSize : ReadAnswer(k)) \/ AnswerEof \/ InvalidAnswer
        \/ ValidAnswer \/ (\E k \in 1 .. BufSize : consume(k)) \/ BodyEnds \/ Finish
     /\ UNCHANGED <<serverVars, keeps, fileVars, peerVars>>
  \/ ClientConnects
  \/ ConnectFails /\ UNCHANGED <<wireVars, serverVars, keeps, fileVars, peerVars>>
  \/ NextRequestOfClient
  \/ /\ Destroy /\ requests = <<>> /\ setup.peer # "server"
     /\ UNCHANGED <<serverVars, keeps, fileVars, peerVars>>

(* A client that does not wait for an answer before it sends on.           *)
OtherClient ==
  /\ setup.peer = "server"
  /\ \/ spc = "none" /\ ServerStarts /\ UNCHANGED <<up, upEnd, chunks>>
     \/ /\ spc # "none" /\ chunks # <<>> /\ ~upEnd
        /\ up' = up \o Head(chunks) /\ chunks' = Tail(chunks)
        /\ UNCHANGED <<upEnd, serverVars>>
     \/ /\ spc # "none" /\ chunks = <<>> /\ ~upEnd
        /\ upEnd' = TRUE /\ UNCHANGED <<up, chunks, serverVars>>
  /\ UNCHANGED <<down, downEnd, keeps, fileVars, clientVars, setup, requests, reply, losses>>

ReplyBytes(r, path) ==
  <<"HTTP/1.1", r.status, LF>>
  \o (IF r.connection = <<>> THEN <<>> ELSE <<"Connection">> \o r.connection \o <<LF>>)
  \o (IF r.length = <<>> THEN <<>> ELSE <<"Content-Length">> \o r.length \o <<LF>>)
  \o <<LF>> \o Content(path, r.body)

(* Another server answers, and may close the connection at any time.       *)
OtherServer ==
  /\ setup.peer = "client" /\ ~downEnd
  /\ \/ /\ up # <<>>
        /\ \E r \in Replies : down' = down \o ReplyBytes(r, creq.path) /\ reply' = r
        /\ up' = <<>> /\ UNCHANGED downEnd
     \/ downEnd' = TRUE /\ UNCHANGED <<up, down, reply>>
  /\ UNCHANGED <<upEnd, serverVars, keeps, fileVars, clientVars, setup, requests, chunks, losses>>

Lose ==
  /\ losses < setup.losses /\ losses' = losses + 1
  /\ ~(upEnd /\ downEnd)
  /\ \E i \in 0 .. Len(up), j \in 0 .. Len(down) : up' = SubSeq(up, 1, i) /\ down' = SubSeq(down, 1, j)
  /\ upEnd' = TRUE /\ downEnd' = TRUE
  /\ UNCHANGED <<serverVars, keeps, fileVars, clientVars, setup, requests, chunks, reply>>

ServerSide == ServerStep /\ UNCHANGED <<clientVars, peerVars>>
Edit == \E p \in Paths, n \in 0 .. 2 : FileChanges(p, n) /\ UNCHANGED <<clientVars, peerVars>>

Next == ClientStep \/ ServerSide \/ OtherClient \/ OtherServer \/ Lose \/ Edit

(* Each end runs; a peer of another make need not do anything.             *)
Spec == Init /\ [][Next]_vars /\ WF_vars(ClientStep) /\ WF_vars(ServerSide)

-----------------------------------------------------------------------------
(* A request that returns 0 gave the handler the body of the answer to     *)
(* this request, all of it and nothing else, even on a connection that was *)
(* used before, in whatever pieces it came; provided the head was whole,   *)
(* and the file did not get shorter under a handler that keeps the         *)
(* connection: then the 400 of the server that waits for the next request  *)
(* is taken for the rest of the body.                                      *)
AnswerIsOwn ==
  cpc = "idle" /\ result = 0 /\ ~chead.error /\ ~(keeps /\ changes > 0) =>
    got = Content(creq.path, IF StatusOK THEN contentLength ELSE 0)

(* A connection that is kept holds no byte of an answer that is over, if   *)
(* the server said how long it is.                                         *)
CleanReuse ==
  cpc = "idle" /\ connected /\ reply.body = atol(reply.length) =>
    down = <<>> /\ Len(chead.rest) <= contentLength

Asked == SelectSeq(setup.asked, LAMBDA a : a.whole)
Wanted == [i \in DOMAIN Asked |-> [method |-> Asked[i].method, path |-> Asked[i].path]]

(* The requests that may be read from what another client sends, in order: *)
(* those it sends whole, and what two words of a body look like.           *)
Readable ==
  FlattenSeq([i \in DOMAIN setup.asked |->
    LET a == setup.asked[i]
    IN (IF a.whole THEN <<[method |-> a.method, path |-> a.path]>> ELSE <<>>)
       \o [k \in 1 .. Len(a.body) - 1 |-> [method |-> a.body[k], path |-> a.body[k + 1]]]])


(* The status codes of the messages in bytes, taking each to be as long as *)
(* its head says.                                                          *)
RECURSIVE Frames(_)
Frames(bytes) ==
  IF bytes = <<>> THEN <<>>
  ELSE LET h == fill(reset, bytes)
           n == Smaller(atol(h.length), Len(h.rest))
       IN <<h.path>> \o Frames(SubSeq(h.rest, n + 1, Len(h.rest)))

StatusWord(s) == CASE s = 200 -> "200" [] s = 400 -> "400" [] s = 404 -> "404" [] OTHER -> "500"

(* The bytes the server sends are its answers, each with a body as long as *)
(* its head says, however the stream's buffer cuts them; unless a file     *)
(* changed after fstat.                                                    *)
AnswersFramed ==
  setup.peer = "server" /\ losses = 0 /\ changes = 0 /\ spc \in {"head", "close", "closed"} =>
    Frames(down) = [i \in DOMAIN answers |-> StatusWord(answers[i])]

(* A client that is silent in the middle of a head or a body, or gone,     *)
(* does not keep a worker: every connection is closed in the end.          *)
ServerCloses == spc # "none" ~> spc = "closed"

(* Against libhttpd's server no request waits for ever, even if the file   *)
(* gets shorter than the head says: the client has no timeout of its own,  *)
(* and it is the server's that ends the wait.                              *)
RequestReturns == setup.peer = "pair" /\ cpc # "idle" ~> cpc \in {"idle", "gone"}

(* httpd.h on HttpHandler::consume: "Consumes the body of request."        *)
ConsumesBody ==
  setup.peer = "server" /\ spc \in {"body", "produce"} =>
    \E i \in DOMAIN setup.asked :
      /\ handled = SubSeq(Wanted, 1, i)
      /\ IsPrefix(consumed, setup.asked[i].body)
=============================================================================

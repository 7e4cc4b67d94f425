------------------------------ MODULE HttpConn ------------------------------
(***************************************************************************)
(* One connection of the server: HttpDaemon::handleRequest, the body and   *)
(* response side of HttpHandler, and HttpUtil::renderFile as its handler.  *)
(*                                                                         *)
(* TCP delivers the bytes of each direction in order and in pieces of any  *)
(* size; a connection may be lost, and then a suffix of what was sent in   *)
(* either direction never arrives.  A failed write is such a loss.         *)
(***************************************************************************)
EXTENDS HttpHead

CONSTANTS
  Paths,        \* the files
  MaxChanges    \* bound: how often a file changes

VARIABLES
  up, down,           \* bytes on their way to the server, to the client
  upEnd, downEnd,     \* the sender closed its side
  spc,                \* "none", "head", "body", "produce", "forward", "close", "closed"
  shead,              \* the reader and parser
  remain,             \* of doConsume
  keeps,              \* the handler keeps the connection if asked to; else it
                      \* does not, the default of connectionClosed
  handled,            \* the requests given to the handler, [method, path]
  consumed,           \* what the handler was given as the body, last request
  answers,            \* the status codes
  file, changes       \* the size of each file, Missing or Unreadable

serverVars == <<spc, shead, remain, handled, consumed, answers>>
wireVars == <<up, down, upEnd, downEnd>>
fileVars == <<file, changes>>

Missing == -1
Unreadable == -2      \* a directory, or open or fstat fails
Methods == {"GET", "HEAD", "POST"}

ConnInit ==
  /\ up = <<>> /\ down = <<>> /\ upEnd = FALSE /\ downEnd = FALSE
  /\ spc = "none" /\ shead = reset /\ remain = 0
  /\ handled = <<>> /\ consumed = <<>> /\ answers = <<>> /\ changes = 0

(* A worker takes a new connection.                                        *)
ServerStarts ==
  /\ spc' = "head" /\ shead' = reset /\ remain' = 0
  /\ handled' = <<>> /\ consumed' = <<>> /\ answers' = <<>>

Send(bytes) == down' = IF downEnd THEN down ELSE down \o bytes

ReadHead(k) ==
  /\ spc = "head" /\ ~shead.end
  /\ k \in 1 .. Smaller(BufSize, Len(up))
  /\ shead' = fill(shead, SubSeq(up, 1, k))
  /\ up' = SubSeq(up, k + 1, Len(up))
  /\ UNCHANGED <<down, upEnd, downEnd, spc, remain, handled, consumed, answers>>

(* Mutant: there is no timeout.                                            *)
HeadEof_Closed ==
  /\ spc = "head" /\ ~shead.end /\ up = <<>> /\ upEnd
  /\ shead' = fillFails(shead)
  /\ UNCHANGED <<wireVars, spc, remain, handled, consumed, answers>>

(* The client closed its side, or the 30 seconds of SO_RCVTIMEO are over.  *)
HeadEof ==
  /\ spc = "head" /\ ~shead.end /\ up = <<>>
  /\ shead' = fillFails(shead)
  /\ UNCHANGED <<wireVars, spc, remain, handled, consumed, answers>>

onBadRequest == <<"HTTP/1.1", "400", LF, "Content-Length", "0", LF, "Conection", "close", LF, LF>>

Bad(h) == ~isValid(h) \/ h.error \/ h.method \notin Methods

BadRequest ==
  /\ spc = "head" /\ shead.end /\ Bad(shead)
  /\ Send(onBadRequest)
  /\ answers' = Append(answers, 400)
  /\ spc' = "close"
  /\ UNCHANGED <<up, upEnd, downEnd, shead, remain, handled, consumed>>

GoodRequest ==
  /\ spc = "head" /\ shead.end /\ ~Bad(shead)
  /\ handled' = Append(handled, [method |-> shead.method, path |-> shead.path])
  /\ consumed' = <<>>
  /\ remain' = atol(shead.length)
  /\ spc' = "body"
  /\ UNCHANGED <<wireVars, shead, answers>>

(* doConsume reads from the socket, whatever the buffer still holds; the   *)
(* handler takes a piece, or wants no more.                                *)
doConsume(k) ==
  /\ spc = "body" /\ remain > 0
  /\ k \in 1 .. Smaller(Smaller(remain, BufSize), Len(up))
  /\ consumed' = consumed \o SubSeq(up, 1, k)
  /\ up' = SubSeq(up, k + 1, Len(up))
  /\ \/ remain' = remain - k /\ UNCHANGED spc
     \/ spc' = "produce" /\ UNCHANGED remain
  /\ UNCHANGED <<down, upEnd, downEnd, shead, handled, answers>>

(* Mutant: a body that does not come is waited for.                        *)
Consumed_Whole ==
  /\ spc = "body" /\ remain = 0
  /\ spc' = "produce"
  /\ UNCHANGED <<wireVars, shead, remain, handled, consumed, answers>>

Consumed ==
  /\ spc = "body"
  /\ remain = 0 \/ up = <<>>
  /\ spc' = "produce"
  /\ UNCHANGED <<wireVars, shead, remain, handled, consumed, answers>>

(* connectionClosed, and the reset before the next head: the buffer and    *)
(* whatever is in it are gone.                                             *)
NextRequest ==
  IF keeps /\ connFromString(shead.connection) # "close"
  THEN spc' = "head" /\ shead' = reset
  ELSE spc' = "close" /\ UNCHANGED shead

Number(n) == CASE n = 0 -> "0" [] n = 1 -> "1" [] n = 2 -> "2" [] OTHER -> "3"
Content(path, n) == [i \in 1 .. n |-> path]

Head200(n) ==
  <<<<"HTTP/1.1", "200", LF, "Connection", "close", LF, "Content-Length">>, <<Number(n)>>, <<LF, LF>>>>

render404 ==
  Streamed(<<<<"HTTP/1.1", "404", LF, "Connection", "close", LF, "Content-Length", "2", LF, LF,
               "not", "found">>>>)
render500 ==
  Streamed(<<<<"HTTP/1.1", "500", LF, "Connection", "close", LF, "Content-Length">>, <<"3">>,
             <<LF, LF>>, <<"error">>, <<"h2">>, <<"message">>>>)

Path == handled[Len(handled)].path
Size == IF Path \in Paths THEN file[Path] ELSE Missing

renderError ==
  /\ spc = "produce" /\ Size < 0
  /\ Send(IF Size = Missing THEN render404 ELSE render500)
  /\ answers' = Append(answers, IF Size = Missing THEN 404 ELSE 500)
  /\ NextRequest
  /\ UNCHANGED <<up, upEnd, downEnd, remain, handled, consumed>>

(* The head says the size fstat found; forward begins with a flush.        *)
renderFile ==
  /\ spc = "produce" /\ Size >= 0
  /\ Send(Streamed(Head200(Size)))
  /\ answers' = Append(answers, 200)
  /\ spc' = "forward"
  /\ UNCHANGED <<up, upEnd, downEnd, shead, remain, handled, consumed>>

(* What the file has by now.                                               *)
forward ==
  /\ spc = "forward"
  /\ Send(Content(Path, Size))
  /\ NextRequest
  /\ UNCHANGED <<up, upEnd, downEnd, remain, handled, consumed, answers>>

CloseConnection ==
  /\ spc = "close"
  /\ spc' = "closed" /\ downEnd' = TRUE
  /\ UNCHANGED <<up, down, upEnd, shead, remain, handled, consumed, answers>>

ServerStep ==
  /\ \/ \E k \in 1 .. BufSize : ReadHead(k)
     \/ HeadEof \/ BadRequest \/ GoodRequest
     \/ \E k \in 1 .. BufSize : doConsume(k)
     \/ Consumed \/ renderError \/ renderFile \/ forward \/ CloseConnection
  /\ UNCHANGED <<keeps, fileVars>>

(* Someone writes the file while it is served.                             *)
FileChanges(p, n) ==
  /\ changes < MaxChanges /\ file[p] >= 0 /\ n # file[p]
  /\ file' = [file EXCEPT ![p] = n] /\ changes' = changes + 1
  /\ UNCHANGED <<wireVars, serverVars, keeps>>
=============================================================================

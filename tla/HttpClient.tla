----------------------------- MODULE HttpClient -----------------------------
(***************************************************************************)
(* HttpClient::request of src/apt/libhttpd/httpd.cpp, HttpClientProvider   *)
(* and the produce of HttpClientHandler, at the other end of a connection. *)
(***************************************************************************)
EXTENDS HttpConn

VARIABLES
  cpc,          \* "idle", "connect", "send", "head", "body", "finish", "gone"
  connected,
  creq,         \* the request: [method, path, isLast]
  chead,        \* the reader and parser
  contentLength, nr, success,
  got,          \* what the handler was given for this request
  result        \* what the last request returned: 0 or 1, -1 before the first

clientVars == <<cpc, connected, creq, chead, contentLength, nr, success, got, result>>

ClientInit ==
  /\ cpc = "idle" /\ connected = FALSE /\ creq = [method |-> "GET", path |-> "", isLast |-> FALSE]
  /\ chead = reset /\ contentLength = 0 /\ nr = 0 /\ success = FALSE /\ got = <<>> /\ result = -1

Connection(r) == IF r.isLast THEN "close" ELSE "keep-alive"

request(r) ==
  /\ cpc = "idle"
  /\ creq' = r /\ cpc' = IF connected THEN "send" ELSE "connect"
  /\ chead' = reset /\ contentLength' = 0 /\ nr' = 0 /\ success' = FALSE /\ got' = <<>>
  /\ UNCHANGED <<connected, result>>

(* No address answers, or the socket refuses the descriptor.               *)
ConnectFails ==
  /\ cpc = "connect"
  /\ cpc' = "idle" /\ result' = 1
  /\ UNCHANGED <<connected, creq, chead, contentLength, nr, success, got>>

Connect ==
  /\ cpc = "connect"
  /\ cpc' = "send" /\ connected' = TRUE
  /\ up' = <<>> /\ down' = <<>> /\ upEnd' = FALSE /\ downEnd' = FALSE
  /\ UNCHANGED <<creq, chead, contentLength, nr, success, got, result>>

(* produce, through the stream.                                            *)
Request(r) ==
  Streamed(<<<<r.method>>, <<r.path>>, <<"HTTP/1.1", LF>>, <<"Host">>, <<"host">>,
             <<LF, "Connection", Connection(r), LF>>, <<"Accept", "any", LF, LF>>>>)

produce ==
  /\ cpc = "send"
  /\ up' = IF upEnd THEN up ELSE up \o Request(creq)
  /\ chead' = reset /\ cpc' = "head"
  /\ UNCHANGED <<down, upEnd, downEnd, connected, creq, contentLength, nr, success, got, result>>

ReadAnswer(k) ==
  /\ cpc = "head" /\ ~chead.end
  /\ k \in 1 .. Smaller(BufSize, Len(down))
  /\ chead' = fill(chead, SubSeq(down, 1, k))
  /\ down' = SubSeq(down, k + 1, Len(down))
  /\ UNCHANGED <<up, upEnd, downEnd, cpc, connected, creq, contentLength, nr, success, got, result>>

AnswerEof ==
  /\ cpc = "head" /\ ~chead.end /\ down = <<>> /\ downEnd
  /\ chead' = fillFails(chead)
  /\ UNCHANGED <<wireVars, cpc, connected, creq, contentLength, nr, success, got, result>>

doClose == connected' = FALSE /\ upEnd' = TRUE

InvalidAnswer ==
  /\ cpc = "head" /\ chead.end /\ ~isValid(chead)
  /\ doClose
  /\ cpc' = "idle" /\ result' = 1
  /\ UNCHANGED <<up, down, downEnd, creq, chead, contentLength, nr, success, got>>

StatusOK == chead.path = "200"

Buffered == SubSeq(chead.rest, 1, Smaller(Len(chead.rest), atol(chead.length)))

(* What came with the head is the beginning of the body.                   *)
ValidAnswer ==
  /\ cpc = "head" /\ chead.end /\ isValid(chead)
  /\ contentLength' = atol(chead.length)
  /\ IF StatusOK /\ contentLength' > 0
     THEN /\ nr' = Len(Buffered) /\ got' = got \o Buffered
          /\ \E more \in BOOLEAN : cpc' = IF more THEN "body" ELSE "finish"
          /\ success' = (nr' = contentLength')
     ELSE success' = StatusOK /\ cpc' = "finish" /\ UNCHANGED <<nr, got>>
  /\ UNCHANGED <<wireVars, connected, creq, chead, result>>

(* A piece the handler does not want is not counted.                       *)
consume(k) ==
  /\ cpc = "body" /\ nr < contentLength
  /\ k \in 1 .. Smaller(Smaller(BufSize, contentLength - nr), Len(down))
  /\ got' = got \o SubSeq(down, 1, k)
  /\ down' = SubSeq(down, k + 1, Len(down))
  /\ \/ nr' = nr + k /\ success' = (nr' = contentLength) /\ UNCHANGED cpc
     \/ cpc' = "finish" /\ success' = FALSE /\ UNCHANGED nr
  /\ UNCHANGED <<up, upEnd, downEnd, connected, creq, chead, contentLength, result>>

(* Mutant: it counts when the body ends early.                             *)
BodyEnds_Early ==
  /\ cpc = "body"
  /\ nr = contentLength \/ (down = <<>> /\ downEnd)
  /\ cpc' = "finish" /\ success' = TRUE
  /\ UNCHANGED <<wireVars, connected, creq, chead, contentLength, nr, got, result>>

BodyEnds ==
  /\ cpc = "body"
  /\ nr = contentLength \/ (down = <<>> /\ downEnd)
  /\ cpc' = "finish"
  /\ UNCHANGED <<wireVars, connected, creq, chead, contentLength, nr, success, got, result>>

con == IF chead.connection = <<>> THEN Connection(creq) ELSE connFromString(chead.connection)

(* Mutant: a failed request keeps the connection, too.                     *)
MustClose_Asked == con = "close"
MustClose == con = "close" \/ ~success

Finish ==
  /\ cpc = "finish"
  /\ IF MustClose THEN doClose ELSE UNCHANGED <<connected, upEnd>>
  /\ cpc' = "idle" /\ result' = IF success THEN 0 ELSE 1
  /\ UNCHANGED <<up, down, downEnd, creq, chead, contentLength, nr, success, got>>

(* The destructor.                                                         *)
Destroy ==
  /\ cpc = "idle" /\ cpc' = "gone"
  /\ IF connected THEN doClose ELSE UNCHANGED <<connected, upEnd>>
  /\ UNCHANGED <<up, down, downEnd, creq, chead, contentLength, nr, success, got, result>>
=============================================================================

------------------------------- MODULE MCHttp -------------------------------
EXTENDS HttpPair

(* A message of another client: a head, cut short if it is not whole, and  *)
(* a body.                                                                 *)
Ask(method, path, length, connection, body) ==
  [method |-> method, path |-> path, whole |-> TRUE, body |-> body,
   head |-> <<method, path, LF>>
            \o (IF length = <<>> THEN <<>> ELSE <<"Content-Length">> \o length \o <<LF>>)
            \o <<"Connection", connection, LF, LF>>]
Get(path) == Ask("GET", path, <<>>, "keep-alive", <<>>)
Post(length, body) == Ask("POST", "/a", length, "keep-alive", body)
CutShort == [Get("/b") EXCEPT !.head = <<"GET", "/b", LF, "Connection">>, !.whole = FALSE]

Files == [p \in {"/a", "/b"} |-> IF p = "/a" THEN 2 ELSE Missing]

Script(asked, keep) ==
  [peer |-> "server", keeps |-> keep, file |-> [Files EXCEPT !["/b"] = Unreadable],
   requests |-> <<>>, asked |-> asked, losses |-> 0,
   chunks |-> SelectSeq(FlattenSeq([i \in DOMAIN asked |-> <<asked[i].head, asked[i].body>>]),
                        LAMBDA c : c # <<>>)]

Client(peer, keep, rs, loss) ==
  [peer |-> peer, keeps |-> keep, file |-> Files, requests |-> rs, chunks |-> <<>>, asked |-> <<>>,
   losses |-> loss]
R(path, last) == [method |-> "GET", path |-> path, isLast |-> last]

MCSetups ==
  {Script(a, keep) :
     a \in {<<Get("/a"), Get("/c")>>, <<Post(<<"2">>, <<"x", "y">>), Get("/b")>>,
            <<Post(<<"-1">>, <<"x", LF>>)>>, <<Get("/a"), CutShort>>,
            <<Ask("PUT", "/a", <<>>, "close", <<>>), Get("/a")>>, <<Ask("GET", "", <<>>, "close", <<>>)>>},
     keep \in BOOLEAN}
  \cup {Script(<<Post(<<"4">>, <<"GET", "/b", LF, LF>>), Get("/a")>>, TRUE)}
  \cup {Client("client", FALSE, <<R("/a", FALSE), R("/b", TRUE)>>, 1),
        Client("pair", TRUE, <<R("/a", FALSE)>>, 1)}
  \cup {Client("pair", keep, <<R("/a", FALSE), R("/b", FALSE)>>, 0) : keep \in BOOLEAN}

(* One request, with a body of two bytes.                                  *)
MCOnePost == {Script(<<Post(<<"2">>, <<"x", "y">>)>>, FALSE)}

MCReplies ==
  {[status |-> "200", length |-> <<"2">>, connection |-> <<"keep-alive">>, body |-> 2],
   [status |-> "200", length |-> <<"2">>, connection |-> <<>>, body |-> 2],
   [status |-> "200", length |-> <<"2">>, connection |-> <<"close">>, body |-> 1],
   [status |-> "200", length |-> <<>>, connection |-> <<"keep-alive">>, body |-> 1],
   [status |-> "200", length |-> <<"-1">>, connection |-> <<>>, body |-> 1],
   [status |-> "404", length |-> <<"1">>, connection |-> <<"keep-alive">>, body |-> 1]}
=============================================================================

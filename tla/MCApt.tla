------------------------------- MODULE MCApt --------------------------------
EXTENDS Apt

Line(uri, suite, comps) ==
  [type |-> "deb", options |-> "none", uri |-> <<"http://">> \o uri, suite |-> suite, components |-> comps]

Archive == Line(<<"archive", Slash, "ubuntu">>, "jammy", <<"main", "universe">>)
Updates == [Line(<<"archive", Slash, "ubuntu">>, "updates", <<"main">>) EXCEPT !.options = "closed"]
Mirror == Line(<<"my-", "archive", Slash, "ubuntu">>, "jammy", <<"main">>)
Sources == [Archive EXCEPT !.type = "deb-src"]
Unclosed == [Updates EXCEPT !.options = "open"]

(* URIs with two directories, one of them like another source's, and none. *)
Docker == Line(<<"docker", Slash, "linux", Slash, "ubuntu">>, "jammy", <<"stable">>)
Proxy == Line(<<"proxy", Slash, "archive", Slash, "ubuntu", Slash>>, "jammy", <<"main">>)
Bare == Line(<<"bare">>, "jammy", <<"main">>)

ListOf(dirs, suite, comp, records) ==
  [name |-> dirs \o <<<<"dists">>, <<suite>>, <<comp>>, <<"binary">>>>, records |-> records]
ListFile(host, suite, comp, records) == ListOf(<<host, <<"ubuntu">>>>, suite, comp, records)

Record(p, d, pre) == [package |-> p, size |-> 1, depends |-> d, predepends |-> pre]
NoSize == [Record(9, <<>>, <<>>) EXCEPT !.size = 0]

(* The field of package 1: lists, alternatives, versions, missing blanks,  *)
(* missing names.  Package 9 is not found.                                 *)
MCFields ==
  {<<>>, <<2>>, <<2, Comma, Blank, 3>>, <<9, Comma, Blank, 3>>, <<9, Blank, Bar, Blank, 3>>,
   <<2, Blank, Bar, Blank, 9, Comma, 3>>, <<3, Comma, 9, Blank, Bar, Blank, 2>>,
   <<3, Blank, LPar, 2, RPar, Comma, 2, Blank, Bar, Blank, 3, Blank, Bar, Blank, 2>>,
   <<2, Bar, 3>>, <<2, Blank, 3>>, <<Comma, 2>>, <<2, Comma, Comma, 3>>, <<2, Comma>>}

Dep(ps) == [op |-> "download-dep", args |-> ps]
Others ==
  {[op |-> "info", args |-> <<1, 9>>], [op |-> "update", args |-> <<>>],
   [op |-> "help", args |-> <<>>], [op |-> "debug", args |-> <<>>],
   [op |-> "debug", args |-> <<1>>], [op |-> "debug", args |-> <<3>>],
   [op |-> "install", args |-> <<1>>], Dep(<<>>), Dep(<<1>>)}
Fetch == {Dep(<<3>>), [op |-> "download", args |-> <<1, 2, 9>>]}

(* The list files in any order; universe ends early.                       *)
World(lines, field, second, third, commands) ==
  [lines |-> lines, commands |-> commands,
   lists |-> <<ListFile(<<"archive">>, "jammy", "main",
                        <<Record(1, field, <<>>), Record(4, <<>>, <<>>)>>),
               ListFile(<<"archive">>, "jammy", "universe",
                        <<Record(2, second, <<1>>), NoSize, Record(9, <<>>, <<>>)>>),
               ListFile(<<"archive">>, "updates", "main",
                        <<Record(3, third, <<>>), Record(2, <<>>, <<>>)>>)>>]

Deep ==
  [lines |-> <<Docker, Bare, Proxy, Archive>>, commands |-> {Dep(<<2>>)},
   lists |-> <<ListFile(<<"archive">>, "jammy", "main", <<Record(2, <<3, Comma, 4>>, <<>>)>>),
               ListOf(<<<<"docker">>, <<"linux">>, <<"ubuntu">>>>, "jammy", "stable", <<Record(3, <<>>, <<>>)>>),
               ListOf(<<<<"bare">>>>, "jammy", "main", <<Record(4, <<>>, <<>>)>>),
               ListOf(<<<<"proxy">>, <<"archive">>, <<"ubuntu">>>>, "jammy", "main", <<Record(1, <<>>, <<>>)>>)>>]

(* Every field; a cycle of dependencies, against the order of the names,   *)
(* that one order of the sources has and the other has not; a mirror whose *)
(* host ends like another's, and a list no source matches; options that    *)
(* are not closed; URIs with no directory, and with two.                   *)
MCWorlds ==
  {World(<<Archive, Updates>>, field, <<>>, <<>>, {Dep(<<1>>)}) : field \in MCFields}
  \cup {World(<<Archive, Updates>>, <<4>>, <<3>>, <<2>>, Fetch),
        World(<<Updates, Archive>>, <<4>>, <<3>>, <<2>>, Fetch),
        World(<<Sources, Mirror, Archive>>, <<2>>, <<>>, <<Comma, 2>>, Others),
        World(<<Archive, Unclosed>>, <<2>>, <<>>, <<>>, Others),
        Deep}
=============================================================================

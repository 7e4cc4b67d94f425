-------------------------------- MODULE Apt ---------------------------------
(***************************************************************************)
(* The program apt (src/apt/apt.cpp): main, the constructor that reads     *)
(* sources.list and the list files, and the operations.                    *)
(*                                                                         *)
(* Composes AptList (what is read), DepClosure (the loops of download-dep) *)
(* and Download (the downloads).  The process may be killed at any point   *)
(* and run again; the .deb files stay.                                     *)
(***************************************************************************)
EXTENDS AptList, DepClosure, Download

CONSTANTS
  Worlds,     \* [lines, lists, commands]: sources.list; the list files, each with
              \* its name, split at '_', and its records; the commands, [op, args]
  MaxRuns     \* bound: how often apt is run

VARIABLES
  world, cmd,
  apc,        \* "start", "lists", "deps", "download", "exit", "aborted", "hung"
  files,      \* the AptListFiles: uri, suite, component
  tables,     \* tables[i]: the records read into files[i], in order
  unread,     \* the list files readdir has not returned yet
  status,     \* the exit status
  runs

aptVars == <<world, cmd, apc, files, tables, unread, status, runs, depVars, downloadVars>>
readVars == <<files, tables, unread>>

Init ==
  /\ DepInit /\ DownloadInit /\ disk = [p \in Deb |-> "none"]
  /\ world \in Worlds /\ cmd \in world.commands
  /\ apc = "start" /\ files = <<>> /\ tables = <<>> /\ unread = {} /\ status = 0 /\ runs = 1

Operations == {"info", "download", "download-dep", "debug", "update", "help"}

Exit(s) == apc' = "exit" /\ status' = s

(* An unknown operation: help is printed, no list is read.                 *)
main_Unknown ==
  /\ apc = "start" /\ cmd.op \notin Operations
  /\ Exit(1)
  /\ UNCHANGED <<world, cmd, readVars, runs, depVars, downloadVars>>

(* The first half of Apt::Apt: sources.list and sources.list.d.            *)
ReadSources ==
  /\ apc = "start" /\ cmd.op \in Operations
  /\ IF \E i \in DOMAIN world.lines : Hangs(world.lines[i])
     THEN apc' = "hung" /\ UNCHANGED readVars
     ELSE /\ apc' = "lists"
          /\ files' = FlattenSeq([i \in DOMAIN world.lines |-> fromLine(world.lines[i])])
          /\ tables' = [i \in DOMAIN files' |-> <<>>]
          /\ unread' = DOMAIN world.lists
  /\ UNCHANGED <<world, cmd, status, runs, depVars, downloadVars>>

Fields(r) == {r.depends, r.predepends}
Records == UNION {UNION {ToSet(w.lists[f].records) : f \in DOMAIN w.lists} : w \in Worlds}

(* ParseDep of every field there is.                                       *)
Parsed == [text \in UNION {Fields(r) : r \in Records} |-> ParseDep(text)]
Details(f) == LET rs == AptParse(world.lists[f].records)
              IN [i \in DOMAIN rs |-> [record |-> rs[i], list |-> f]]
(* The record that ends the list is parsed, too.                           *)
ParseFails(f) ==
  \E i \in DOMAIN world.lists[f].records :
    /\ i <= Len(Details(f)) + 1
    /\ \E text \in Fields(world.lists[f].records[i]) : Parsed[text] = Aborted

(* The second half: readdir returns the list files in any order.           *)
ReadList(f) ==
  /\ apc = "lists" /\ f \in unread
  /\ unread' = unread \ {f}
  /\ LET i == searchByFileName(files, world.lists[f].name)
     IN IF i # 0 /\ ParseFails(f)
        THEN apc' = "aborted" /\ UNCHANGED tables
        ELSE /\ UNCHANGED apc
             /\ tables' = IF i = 0 THEN tables ELSE [tables EXCEPT ![i] = @ \o Details(f)]
  /\ UNCHANGED <<world, cmd, files, status, runs, depVars, downloadVars>>

(* Apt::find: the first file that has the package, and its records of it.  *)
Having(p) == {i \in DOMAIN tables : \E k \in DOMAIN tables[i] : tables[i][k].record.package = p}
Found(p) == Having(p) # {}
FoundIn(p) == CHOOSE i \in Having(p) : \A j \in Having(p) : i <= j
details(p) == SelectSeq(tables[FoundIn(p)], LAMBDA d : d.record.package = p)

Loaded == apc = "lists" /\ unread = {}
Known == {p \in Pkg : Found(p)}

info ==
  /\ Loaded /\ cmd.op = "info"
  /\ Exit(IF \A i \in DOMAIN cmd.args : Found(cmd.args[i]) THEN 0 ELSE 1)
  /\ UNCHANGED <<world, cmd, readVars, runs, depVars, downloadVars>>

(* help prints; update runs a script that leaves the lists alone.          *)
OtherOperation ==
  /\ Loaded /\ cmd.op \in {"help", "update"}
  /\ \E s \in (IF cmd.op = "help" THEN {0} ELSE {0, 1}) : Exit(s)
  /\ UNCHANGED <<world, cmd, readVars, runs, depVars, downloadVars>>

(* debug parses the list its argument names, matched by a source or not.   *)
debug ==
  /\ Loaded /\ cmd.op = "debug"
  /\ CASE cmd.args = <<>> -> Exit(1)
       [] cmd.args # <<>> /\ ParseFails(cmd.args[1]) -> apc' = "aborted" /\ UNCHANGED status
       [] OTHER -> Exit(0)
  /\ UNCHANGED <<world, cmd, readVars, runs, depVars, downloadVars>>

(* download: the first argument comes last.                                *)
download ==
  /\ Loaded /\ cmd.op = "download"
  /\ StartDownloads(IF cmd.args = <<>> THEN <<>> ELSE Append(Tail(cmd.args), Head(cmd.args)), Known)
  /\ apc' = "download"
  /\ UNCHANGED <<world, cmd, readVars, status, runs, depVars>>

(* What addDepsCallback inserts for p.                                     *)
Inserted(text) == satisfy(Parsed[text], {<<p>> : p \in Known}).packages
needsOf(p) ==
  IF ~Found(p) THEN {}
  ELSE {t[1] : t \in UNION {Inserted(text) : text \in Fields(details(p)[1].record)}}

NoArgument ==
  /\ Loaded /\ cmd.op = "download-dep" /\ cmd.args = <<>>
  /\ Exit(1)
  /\ UNCHANGED <<world, cmd, readVars, runs, depVars, downloadVars>>

BeginDeps ==
  /\ Loaded /\ cmd.op = "download-dep" /\ cmd.args # <<>>
  /\ downloadDeps([p \in Pkg |-> needsOf(p)], cmd.args)
  /\ apc' = "deps"
  /\ UNCHANGED <<world, cmd, readVars, status, runs, downloadVars>>

Deps ==
  /\ apc = "deps"
  /\ DepStep
  /\ UNCHANGED <<world, cmd, apc, readVars, status, runs, downloadVars>>

(* The set in order, its first element last.                               *)
InOrder(S) == LET s == SetToSortSeq(S, <) IN Append(Tail(s), Head(s))

DownloadRequired ==
  /\ apc = "deps" /\ dpc = "closed"
  /\ StartDownloads(InOrder(required), Known)
  /\ apc' = "download"
  /\ UNCHANGED <<world, cmd, readVars, status, runs, depVars>>

Downloads ==
  /\ apc = "download"
  /\ DownloadStep
  /\ UNCHANGED <<world, cmd, apc, readVars, status, runs, depVars>>

Downloaded ==
  /\ apc = "download" /\ dl = "done"
  /\ Exit(ret)
  /\ UNCHANGED <<world, cmd, readVars, runs, depVars, downloadVars>>

(* The process ended, or is killed here and now, and apt is run again.     *)
RunAgain(c) ==
  /\ runs < MaxRuns /\ apc # "hung"
  /\ runs' = runs + 1 /\ cmd' = c /\ apc' = "start" /\ status' = 0
  /\ files' = <<>> /\ tables' = <<>> /\ unread' = {}
  /\ dpc' = "idle" /\ needs' = [p \in Pkg |-> {}] /\ args' = <<>> /\ argi' = 0
  /\ required' = {} /\ at' = 0 /\ oldValue' = 0
  /\ Forget
  /\ UNCHANGED world

AptStep ==
  \/ main_Unknown \/ ReadSources \/ (\E f \in unread : ReadList(f))
  \/ info \/ OtherOperation \/ debug \/ download \/ NoArgument \/ BeginDeps \/ Deps
  \/ DownloadRequired \/ Downloads \/ Downloaded

Next == AptStep \/ \E c \in world.commands : RunAgain(c)

(* The process runs, and wget ends.                                        *)
Spec == Init /\ [][Next]_aptVars /\ WF_aptVars(AptStep)

-----------------------------------------------------------------------------
(* The name apt gives the list file of an entry: its URI without the       *)
(* scheme, "dists", the suite and the component, with '_' for each '/'.    *)
Host(entry) == SubSeq(entry.uri, 2, FirstOf({Slash}, entry.uri) - 1)
Dirs(entry) == SelectSeq(From(entry.uri, FirstOf({Slash}, entry.uri)), LAMBDA piece : piece # Slash)
ListName(entry) ==
  <<Host(entry)>> \o [i \in DOMAIN Dirs(entry) |-> <<Dirs(entry)[i]>>]
  \o <<<<"dists">>, <<entry.suite>>, <<entry.component>>, <<"binary">>>>

(* The name match() has in mind: of a URI with a host and one directory.   *)
OneDir(name) == Len(name) = 6
EndsAlike(entry, name) == IsSuffix(Append(name[1], Slash) \o Append(name[2], Slash), entry.uri)

(* In whatever order readdir returns the list files, every record before   *)
(* one without a size is found, and under the URI its list was fetched     *)
(* from, if that URI has one directory behind its host: match() attaches   *)
(* the list to the source it belongs to, unless the URI of another source  *)
(* of the same suite and component ends in this one's, as that of a mirror *)
(* or a proxy may.  The list of a source with no directory, or with two,   *)
(* is attached to none, and its records are lost: match() takes the fourth *)
(* and the fifth word for the suite and the component.                     *)
ListsAttached ==
  Loaded =>
    \A f \in DOMAIN world.lists :
      LET name == world.lists[f].name
          owners == {i \in DOMAIN files : ListName(files[i]) = name}
          holders == {i \in DOMAIN tables : \E k \in DOMAIN tables[i] : tables[i][k].list = f}
      IN IF OneDir(name)
         THEN /\ owners # {} => \A k \in DOMAIN Details(f) : Details(f)[k].record.package \in Known
              /\ \A i \in holders \ owners :
                   /\ EndsAlike(files[i], name)
                   /\ <<files[i].suite>> = name[4] /\ <<files[i].component>> = name[5]
         ELSE holders = {}

(* ParseDep loses no name of a well-formed field and fails none: apt       *)
(* aborts only on a field with a name or an operator missing.              *)
ParseKeepsNames ==
  /\ apc = "aborted" =>
       \E f \in DOMAIN world.lists : \E i \in DOMAIN world.lists[f].records :
         \E text \in Fields(world.lists[f].records[i]) : ~WellFormed(text)
  /\ Loaded =>
       \A i \in DOMAIN tables : \A k \in DOMAIN tables[i] :
         \A text \in Fields(tables[i][k].record) :
           WellFormed(text) => Leaves(Parsed[text]) = Names(text)

NamedIn(text) == {Names(text)[i] : i \in DOMAIN Names(text)}

(* The packages download-dep collects have their dependencies among them:  *)
(* a field whose packages all exist holds as the comments read it, and of  *)
(* a list joined by commas every package that exists is there, even if     *)
(* others do not exist.                                                    *)
DependenciesMet ==
  apc = "deps" /\ dpc = "closed" =>
    \A p \in required \cap Known : \A text \in Fields(details(p)[1].record) :
      LET exists == {<<q>> : q \in Known}
          have == {<<q>> : q \in required}
      IN WellFormed(text) =>
           /\ NamedIn(text) \subseteq exists => Means(text, have)
           /\ (\A i \in DOMAIN text : text[i] # Bar) => NamedIn(text) \cap exists \subseteq have

(* Every run of apt ends, except on a source whose options are not closed. *)
RunEnds ==
  apc = "start" ~> \/ apc \in {"exit", "aborted"}
                   \/ \E i \in DOMAIN world.lines : Hangs(world.lines[i])

(* aptlist.cpp: "Operator precedence |(or) > ,(and)".                      *)
BarBindsStronger ==
  \A i \in DOMAIN tables : \A k \in DOMAIN tables[i] :
    \A text \in Fields(tables[i][k].record) :
      LET s == satisfy(Parsed[text], {<<p>> : p \in Known})
      IN Loaded /\ WellFormed(text) /\ s.ret = 0 => Means(text, s.packages)
=============================================================================

------------------------------ MODULE Download ------------------------------
(***************************************************************************)
(* doDownload of src/apt/apt.cpp, for one package after the other: look at *)
(* the .deb that is there, run wget, look at what it left.                 *)
(*                                                                         *)
(* A .deb is what fileMatch tells apart: "part" has another size than the  *)
(* list says, "bad" the size but another sum, "good" both, "none" is not   *)
(* there.  The files outlive the process, which may be killed, with the    *)
(* wget it waits for, between any two steps.  md5sum is taken to print the *)
(* sum of the file whenever popen can start it.                            *)
(***************************************************************************)
EXTENDS Integers, Sequences

CONSTANT Deb        \* the packages there may be a .deb of

VARIABLES
  dl,      \* "idle", "look", "fork", "wget", "check", "done"
  todo,    \* the packages still to be downloaded, in order
  wanted,  \* all of this process
  known,   \* those a list has
  ret,     \* 0, or not 0: doDownload's results, or-ed
  disk     \* disk[p]: p.deb

downloadVars == <<dl, todo, wanted, known, ret, disk>>

Contents == {"none", "part", "bad", "good"}

DownloadInit ==
  /\ dl = "idle" /\ todo = <<>> /\ wanted = {} /\ known = {} /\ ret = 0
  /\ disk \in [Deb -> Contents]

sizeMatch(c) == c \in {"bad", "good"}
md5sumMatch(c) == c = "good"

(* Mutant: the sum is not compared.                                        *)
fileMatch_Size(c) == {sizeMatch(c)}

(* What fileMatch may return: false also when popen fails.                 *)
fileMatch(c) == {sizeMatch(c) /\ md5sumMatch(c)} \cup (IF sizeMatch(c) THEN {FALSE} ELSE {})

(* The downloads of one process: its arguments, or what it collected.      *)
StartDownloads(ps, k) ==
  /\ dl = "idle"
  /\ dl' = "look" /\ todo' = ps /\ known' = k /\ ret' = 0
  /\ wanted' = {ps[i] : i \in DOMAIN ps}
  /\ UNCHANGED disk

(* doDownload returns r for the package at the head.                       *)
Return(r) ==
  /\ ret' = IF r = 0 THEN ret ELSE 1
  /\ todo' = Tail(todo)
  /\ dl' = "look"
  /\ UNCHANGED <<wanted, known>>

NotFound ==
  /\ dl = "look" /\ todo # <<>> /\ Head(todo) \notin known
  /\ Return(1)
  /\ UNCHANGED disk

(* The user may have the .deb already.                                     *)
Look ==
  /\ dl = "look" /\ todo # <<>> /\ Head(todo) \in known
  /\ \E same \in fileMatch(disk[Head(todo)]) :
       IF same THEN Return(0) ELSE dl' = "fork" /\ UNCHANGED <<todo, wanted, known, ret>>
  /\ UNCHANGED disk

(* The child becomes wget, which opens and truncates the file.             *)
Fork ==
  /\ dl = "fork"
  /\ dl' = "wget" /\ disk' = [disk EXCEPT ![Head(todo)] = "part"]
  /\ UNCHANGED <<todo, wanted, known, ret>>

(* There is no child, and waitpid fails; or execlp fails, or wget before   *)
(* it opened the file.                                                     *)
ForkFails ==
  /\ dl = "fork"
  /\ Return(1)
  /\ UNCHANGED disk

(* wget fails half way and leaves what it has.                             *)
WgetFails ==
  /\ dl = "wget"
  /\ Return(1)
  /\ UNCHANGED disk

(* wget exits with 0, or a signal ended it: WEXITSTATUS is 0 then, too.    *)
WgetEnds(c) ==
  /\ dl = "wget"
  /\ disk' = [disk EXCEPT ![Head(todo)] = c]
  /\ dl' = "check"
  /\ UNCHANGED <<todo, wanted, known, ret>>

(* A file that does not match is deleted; unlink may fail.                 *)
Check ==
  /\ dl = "check"
  /\ \E same \in fileMatch(disk[Head(todo)]) :
       IF same
       THEN Return(0) /\ UNCHANGED disk
       ELSE /\ Return(1)
            /\ \E left \in {"none", disk[Head(todo)]} : disk' = [disk EXCEPT ![Head(todo)] = left]

AllTried ==
  /\ dl = "look" /\ todo = <<>>
  /\ dl' = "done"
  /\ UNCHANGED <<todo, wanted, known, ret, disk>>

(* The process is gone, or a new one begins.                               *)
Forget ==
  /\ dl' = "idle" /\ todo' = <<>> /\ wanted' = {} /\ known' = {} /\ ret' = 0
  /\ UNCHANGED disk

DownloadStep ==
  \/ NotFound \/ Look \/ Fork \/ ForkFails \/ WgetFails
  \/ \E c \in Contents \ {"none"} : WgetEnds(c)
  \/ Check \/ AllTried

DownloadNext ==
  \/ DownloadStep \/ Forget
  \/ \E ps \in Seq(Deb), k \in SUBSET Deb : StartDownloads(ps, k)

DownloadSpec == DownloadInit /\ [][DownloadNext]_downloadVars

-----------------------------------------------------------------------------
(* An apt that reports success has left a matching .deb of every package   *)
(* it was to download, whatever an earlier, interrupted apt left behind,   *)
(* and however wget ended.                                                 *)
SuccessMeansMatch ==
  dl = "done" /\ ret = 0 => \A p \in wanted : disk[p] = "good"
=============================================================================

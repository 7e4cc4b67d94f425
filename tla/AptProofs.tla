----------------------------- MODULE AptProofs ------------------------------
(***************************************************************************)
(* The packages downloadDeps collects are the least closure of its         *)
(* arguments, for every set of packages and every dependency relation; a   *)
(* successful apt leaves matching files, for any packages, any lists and   *)
(* any files there were before.                                            *)
(***************************************************************************)
EXTENDS DepClosure, Download, FiniteSetTheorems, TLAPS

(* The shape of the loops' state.                                          *)
DepTypeOK ==
  /\ dpc \in {"idle", "args", "pass", "closed"}
  /\ needs \in [Pkg -> SUBSET Pkg]
  /\ args \in Seq(Pkg) /\ argi \in 0 .. Len(args)
  /\ required \in SUBSET Pkg /\ at \in Nat /\ oldValue \in Nat

(* Nothing is in the set that a closed set with the arguments could lack.  *)
Minimal == \A S \in SUBSET Pkg : HasArgs(S) /\ ClosedSet(S) => required \subseteq S

ArgsSeen == \A i \in 1 .. argi : args[i] \in required

(* As long as the set has not grown in this pass, the iterator has seen    *)
(* every member up to where it is, and the set has what each one needs.    *)
PassInv ==
  dpc \in {"pass", "closed"} =>
    /\ argi = Len(args)
    /\ oldValue <= Cardinality(required)
    /\ Cardinality(required) = oldValue =>
         \A p \in required : p <= at => needs[p] \subseteq required

ClosedInv == dpc = "closed" => ClosedSet(required)

DepInv == DepTypeOK /\ Minimal /\ ArgsSeen /\ PassInv /\ ClosedInv

-----------------------------------------------------------------------------
(* A set of packages is finite, and one with more packages is larger.      *)
LEMMA Growth ==
  ASSUME NEW S \in SUBSET Pkg, NEW T \in SUBSET S
  PROVE  /\ Cardinality(S) \in Nat /\ Cardinality(T) \in Nat
         /\ Cardinality(T) <= Cardinality(S)
         /\ Cardinality(T) = Cardinality(S) => S = T
<1>1. IsFiniteSet(S)
  BY Zenon, PkgAssumption, FS_Subset
<1>2. QED
  BY Zenon, <1>1, FS_Subset, FS_CardinalityType

(* doSatisfy of a package any closed set with the arguments must have      *)
(* inserts only what such a set must have.                                 *)
LEMMA SatisfyKeepsMinimal ==
  ASSUME DepTypeOK, Minimal, NEW p \in Pkg, doSatisfy(p), UNCHANGED <<needs, args>>,
         \A S \in SUBSET Pkg : HasArgs(S) /\ ClosedSet(S) => p \in S
  PROVE  Minimal' /\ required' \in SUBSET Pkg /\ required \subseteq required'
<1>1. required' \in SUBSET Pkg /\ required \subseteq required'
  BY Zenon DEF DepTypeOK, doSatisfy
<1>2. ASSUME NEW S \in SUBSET Pkg, HasArgs(S)', ClosedSet(S)'
      PROVE  required' \subseteq S
  <2>1. HasArgs(S) /\ ClosedSet(S)
    BY Zenon, <1>2 DEF HasArgs, ClosedSet
  <2>2. required \subseteq S /\ p \in S
    BY Zenon, <2>1 DEF Minimal
  <2>3. QED
    BY Zenon, <2>1, <2>2 DEF doSatisfy, ClosedSet
<1>3. QED
  BY Zenon, <1>1, <1>2 DEF Minimal, HasArgs, ClosedSet

-----------------------------------------------------------------------------
LEMMA DepInitInv == DepInit => DepInv
  BY DEF DepInit, DepInv, DepTypeOK, Minimal, ArgsSeen, PassInv, ClosedInv, ClosedSet, HasArgs

LEMMA StartKeeps ==
  ASSUME DepInv, NEW n \in [Pkg -> SUBSET Pkg], NEW a \in Seq(Pkg), downloadDeps(n, a)
  PROVE  DepInv'
  BY DEF DepInv, DepTypeOK, Minimal, ArgsSeen, PassInv, ClosedInv, ClosedSet, HasArgs, downloadDeps

LEMMA SatisfyArgKeeps ==
  ASSUME DepInv, SatisfyArg
  PROVE  DepInv'
<1> DEFINE p == args[argi + 1]
<1>1. p \in Pkg /\ argi + 1 \in 1 .. Len(args) /\ argi \in Nat
  BY DEF DepInv, DepTypeOK, SatisfyArg
<1>2. Minimal' /\ required' \in SUBSET Pkg /\ required \subseteq required'
  <2>1. \A S \in SUBSET Pkg : HasArgs(S) /\ ClosedSet(S) => p \in S
    BY <1>1 DEF HasArgs, DepInv, DepTypeOK
  <2>2. QED
    BY Zenon, <1>1, <2>1, SatisfyKeepsMinimal DEF DepInv, SatisfyArg
<1>3. DepTypeOK'
  BY <1>1, <1>2 DEF DepInv, DepTypeOK, SatisfyArg
<1>4. ArgsSeen'
  <2>1. args' = args /\ argi' = argi + 1 /\ p \in required'
    BY Zenon DEF SatisfyArg, doSatisfy
  <2>2. ASSUME NEW i \in 1 .. argi' PROVE args'[i] \in required'
    <3>1. CASE i = argi + 1
      BY Zenon, <2>1, <3>1
    <3>2. CASE i # argi + 1
      <4>1. i \in 1 .. argi
        BY <1>1, <2>1, <3>2
      <4>2. QED
        BY Zenon, <1>2, <2>1, <4>1 DEF DepInv, ArgsSeen
    <3>3. QED
      BY Zenon, <3>1, <3>2
  <2>3. QED
    BY Zenon, <2>2 DEF ArgsSeen
<1>5. PassInv' /\ ClosedInv'
  BY Zenon DEF SatisfyArg, PassInv, ClosedInv
<1>6. QED
  BY Zenon, <1>2, <1>3, <1>4, <1>5 DEF DepInv

(* At the start of a pass the iterator has passed nothing: names are       *)
(* positive.                                                               *)
LEMMA FirstPassKeeps ==
  ASSUME DepInv, FirstPass
  PROVE  DepInv'
<1>1. Cardinality(required) \in Nat
  BY Zenon, Growth DEF DepInv, DepTypeOK
<1>2. \A p \in required : ~ p <= 0
  BY PkgAssumption DEF DepInv, DepTypeOK
<1>3. DepTypeOK' /\ Minimal' /\ ArgsSeen' /\ ClosedInv'
  BY Zenon, <1>1 DEF DepInv, FirstPass, DepTypeOK, Minimal, ArgsSeen, ClosedInv, HasArgs, ClosedSet
<1>4. PassInv'
  BY <1>1, <1>2 DEF FirstPass, PassInv
<1>5. QED
  BY Zenon, <1>3, <1>4 DEF DepInv

(* A visit either makes the set larger, or finds all its package needs     *)
(* there already; the members it passes over are none.                     *)
LEMMA SatisfyNextKeeps ==
  ASSUME DepInv, SatisfyNext
  PROVE  DepInv'
<1>1. PICK p \in Ahead : /\ \A q \in Ahead : p <= q
                         /\ doSatisfy(p)
                         /\ at' = p
  BY Zenon DEF SatisfyNext
<1>2. p \in Pkg /\ p \in Nat /\ p \in required /\ at \in Nat
  BY Zenon, PkgAssumption DEF Ahead, DepInv, DepTypeOK
<1>3. UNCHANGED <<dpc, needs, args, argi, oldValue>> /\ dpc = "pass"
  BY Zenon DEF SatisfyNext
<1>4. Minimal' /\ required' \in SUBSET Pkg /\ required \subseteq required'
  <2>1. \A S \in SUBSET Pkg : HasArgs(S) /\ ClosedSet(S) => p \in S
    BY Zenon, <1>2 DEF DepInv, Minimal
  <2>2. QED
    BY Zenon, <1>1, <1>2, <1>3, <2>1, SatisfyKeepsMinimal DEF DepInv
<1>5. DepTypeOK'
  BY Zenon, <1>1, <1>2, <1>3, <1>4 DEF DepInv, DepTypeOK
<1>6. ArgsSeen'
  BY Zenon, <1>3, <1>4 DEF DepInv, ArgsSeen
<1>7. ClosedInv'
  BY Zenon, <1>3 DEF ClosedInv
<1>8. PassInv'
  <2>1. /\ Cardinality(required) \in Nat /\ Cardinality(required') \in Nat
        /\ Cardinality(required) <= Cardinality(required')
        /\ Cardinality(required) = Cardinality(required') => required' = required
    BY Zenon, <1>4, Growth
  <2>2. oldValue \in Nat /\ oldValue <= Cardinality(required) /\ argi = Len(args)
    BY Zenon, <1>3 DEF DepInv, DepTypeOK, PassInv
  <2>3. oldValue' <= Cardinality(required')
    BY <1>3, <2>1, <2>2
  <2>4. ASSUME Cardinality(required') = oldValue', NEW q \in required', q <= at'
        PROVE  needs'[q] \subseteq required'
    <3>1. required' = required /\ Cardinality(required) = oldValue
      BY <1>3, <2>1, <2>2, <2>4
    <3>2. CASE q <= at
      BY Zenon, <1>3, <3>1, <3>2 DEF DepInv, PassInv
    <3>3. CASE ~ q <= at
      <4>1. q \in Ahead /\ q \in Nat
        BY <1>2, <3>1, <3>3, PkgAssumption DEF Ahead, DepInv, DepTypeOK
      <4>2. q = p
        BY <1>1, <1>2, <2>4, <4>1
      <4>3. QED
        BY Zenon, <1>1, <1>3, <4>2 DEF doSatisfy
    <3>4. QED
      BY Zenon, <3>2, <3>3
  <2>5. QED
    BY Zenon, <1>3, <2>2, <2>3, <2>4 DEF PassInv
<1>9. QED
  BY Zenon, <1>4, <1>5, <1>6, <1>7, <1>8 DEF DepInv

LEMMA EndPassKeeps ==
  ASSUME DepInv, EndPass
  PROVE  DepInv'
<1>1. Cardinality(required) \in Nat
  BY Zenon, Growth DEF DepInv, DepTypeOK
<1>2. UNCHANGED <<needs, args, argi, required>> /\ dpc = "pass"
  BY Zenon DEF EndPass
<1>3. Minimal' /\ ArgsSeen'
  BY Zenon, <1>2 DEF DepInv, Minimal, ArgsSeen, HasArgs, ClosedSet
<1>4. CASE Cardinality(required) = oldValue
  <2>1. dpc' = "closed" /\ UNCHANGED <<at, oldValue>>
    BY Zenon, <1>4 DEF EndPass
  <2>2. \A p \in required : p <= at
    BY PkgAssumption DEF EndPass, Ahead, DepInv, DepTypeOK
  <2>3. ClosedSet(required)
    BY Zenon, <1>2, <1>4, <2>2 DEF DepInv, PassInv, ClosedSet
  <2>4. QED
    BY Zenon, <1>2, <1>3, <2>1, <2>3 DEF DepInv, DepTypeOK, PassInv, ClosedInv, ClosedSet
<1>5. CASE Cardinality(required) # oldValue
  <2>1. UNCHANGED dpc /\ oldValue' = Cardinality(required) /\ at' = 0
    BY Zenon, <1>5 DEF EndPass
  <2>2. \A p \in required : ~ p <= 0
    BY PkgAssumption DEF DepInv, DepTypeOK
  <2>3. DepTypeOK' /\ ClosedInv'
    BY Zenon, <1>1, <1>2, <2>1 DEF DepInv, DepTypeOK, ClosedInv
  <2>4. PassInv'
    BY <1>1, <1>2, <2>1, <2>2 DEF DepInv, PassInv
  <2>5. QED
    BY Zenon, <1>3, <2>3, <2>4 DEF DepInv
<1>6. QED
  BY Zenon, <1>4, <1>5

LEMMA DepStutter ==
  ASSUME DepInv, UNCHANGED depVars
  PROVE  DepInv'
  BY Zenon DEF DepInv, DepTypeOK, Minimal, ArgsSeen, PassInv, ClosedInv, ClosedSet, HasArgs, depVars

LEMMA InvImpliesLeast == DepInv => LeastClosure
<1> SUFFICES ASSUME DepInv, dpc = "closed"
             PROVE  /\ HasArgs(required) /\ ClosedSet(required)
                    /\ \A S \in SUBSET Pkg : HasArgs(S) /\ ClosedSet(S) => required \subseteq S
  BY Zenon DEF LeastClosure
<1>1. HasArgs(required)
  BY DEF DepInv, DepTypeOK, PassInv, ArgsSeen, HasArgs
<1>2. ClosedSet(required)
  BY Zenon DEF DepInv, ClosedInv
<1>3. QED
  BY Zenon, <1>1, <1>2 DEF DepInv, Minimal

(* Whatever the packages, their dependencies and the arguments, the set    *)
(* downloadDeps ends with is their least closure, although it is walked    *)
(* while it grows.                                                         *)
THEOREM ClosureIsLeast == DepSpec => []LeastClosure
<1>1. DepInv /\ [DepNext]_depVars => DepInv'
  BY Zenon, StartKeeps, SatisfyArgKeeps, FirstPassKeeps, SatisfyNextKeeps, EndPassKeeps, DepStutter
     DEF DepNext, DepStep
<1>2. QED
  BY <1>1, DepInitInv, InvImpliesLeast, PTL DEF DepSpec

-----------------------------------------------------------------------------
(* The shape of the state of the downloads.                                *)
DownloadTypeOK ==
  /\ dl \in {"idle", "look", "fork", "wget", "check", "done"}
  /\ todo \in Seq(Deb) /\ wanted \in SUBSET Deb /\ known \in SUBSET Deb
  /\ ret \in {0, 1} /\ disk \in [Deb -> Contents]

(* A package is in hand while it is fetched.                               *)
InHand == dl \in {"fork", "wget", "check"} => todo # <<>>

(* No failure so far: what is wanted is still to do, or matches.           *)
Pending(p) == \E i \in DOMAIN todo : todo[i] = p
SoFar ==
  /\ ret = 0 => \A p \in wanted : Pending(p) \/ disk[p] = "good"
  /\ dl = "done" => todo = <<>>

DownloadInv == DownloadTypeOK /\ InHand /\ SoFar

-----------------------------------------------------------------------------
(* What is left of a sequence is its elements but for the head.            *)
LEMMA TailLemma ==
  ASSUME NEW S, NEW s \in Seq(S), s # <<>>
  PROVE  /\ Head(s) \in S /\ Tail(s) \in Seq(S) /\ 1 \in DOMAIN s /\ s[1] = Head(s)
         /\ \A i \in DOMAIN s : i = 1 \/ (i - 1 \in DOMAIN Tail(s) /\ Tail(s)[i - 1] = s[i])
  OBVIOUS

(* doDownload may return 0 only when the package's file matches.           *)
LEMMA ReturnKeeps ==
  ASSUME DownloadInv, todo # <<>>, dl # "done", NEW r \in {0, 1}, Return(r),
         disk' \in [Deb -> Contents],
         \A p \in Deb : p # Head(todo) => disk'[p] = disk[p],
         r = 0 => disk'[Head(todo)] = "good"
  PROVE  DownloadInv'
<1>1. Head(todo) \in Deb /\ todo' \in Seq(Deb)
  BY Zenon, TailLemma DEF DownloadInv, DownloadTypeOK, Return
<1>2. DownloadTypeOK' /\ InHand'
  BY Zenon, <1>1 DEF DownloadInv, DownloadTypeOK, InHand, Return
<1>3. ASSUME ret' = 0, NEW p \in wanted'
      PROVE  Pending(p)' \/ disk'[p] = "good"
  <2>1. r = 0 /\ ret = 0 /\ p \in wanted /\ p \in Deb
    BY Zenon, <1>3 DEF Return, DownloadInv, DownloadTypeOK
  <2>2. CASE p = Head(todo)
    BY Zenon, <2>1, <2>2
  <2>3. CASE p # Head(todo)
    <3>1. CASE disk[p] = "good"
      BY Zenon, <2>1, <2>3, <3>1
    <3>2. CASE Pending(p)
      <4>1. PICK i \in DOMAIN todo : todo[i] = p
        BY Zenon, <3>2 DEF Pending
      <4>2. i # 1
        BY Zenon, <2>3, <4>1, TailLemma DEF DownloadInv, DownloadTypeOK
      <4>3. i - 1 \in DOMAIN todo' /\ todo'[i - 1] = p
        BY Zenon, <4>1, <4>2, TailLemma DEF DownloadInv, DownloadTypeOK, Return
      <4>4. QED
        BY Zenon, <4>3 DEF Pending
    <3>3. QED
      BY Zenon, <2>1, <3>1, <3>2 DEF DownloadInv, SoFar
  <2>4. QED
    BY Zenon, <2>2, <2>3
<1>4. dl' # "done"
  BY Zenon DEF Return
<1>5. QED
  BY Zenon, <1>2, <1>3, <1>4 DEF DownloadInv, SoFar

(* Only the file of the package in hand changes.                           *)
LEMMA FetchKeeps ==
  ASSUME DownloadInv, todo # <<>>, NEW c \in Contents, NEW next \in {"fork", "wget", "check"},
         dl' = next, disk' = [disk EXCEPT ![Head(todo)] = c],
         UNCHANGED <<todo, wanted, known, ret>>
  PROVE  DownloadInv'
<1>1. Head(todo) \in Deb /\ Pending(Head(todo))
  BY Zenon, TailLemma DEF DownloadInv, DownloadTypeOK, Pending
<1>2. DownloadTypeOK' /\ InHand'
  BY Zenon, <1>1 DEF DownloadInv, DownloadTypeOK, InHand
<1>3. ASSUME ret' = 0, NEW p \in wanted'
      PROVE  Pending(p)' \/ disk'[p] = "good"
  BY Zenon, <1>1, <1>3 DEF DownloadInv, DownloadTypeOK, SoFar, Pending
<1>4. QED
  BY Zenon, <1>2, <1>3 DEF DownloadInv, SoFar

LEMMA StepKeeps ==
  ASSUME DownloadInv, DownloadStep
  PROVE  DownloadInv'
<1> USE DEF DownloadInv
<1>h. todo # <<>> => Head(todo) \in Deb
  BY Zenon, TailLemma DEF DownloadTypeOK
<1>1. CASE NotFound
  BY <1>1, ReturnKeeps DEF NotFound, DownloadTypeOK
<1>2. CASE Look
  <2>1. PICK same \in fileMatch(disk[Head(todo)]) :
          IF same THEN Return(0) ELSE dl' = "fork" /\ UNCHANGED <<todo, wanted, known, ret>>
    BY Zenon, <1>2 DEF Look
  <2>2. todo # <<>> /\ dl = "look" /\ disk' = disk
    BY Zenon, <1>2 DEF Look
  <2>3. CASE same
    <3>1. disk[Head(todo)] = "good"
      BY Zenon, <2>1, <2>3 DEF fileMatch, sizeMatch, md5sumMatch
    <3>2. QED
      BY Zenon, <2>1, <2>2, <2>3, <3>1, ReturnKeeps DEF DownloadTypeOK
  <2>4. CASE ~same
    BY Zenon, <2>1, <2>2, <2>4 DEF DownloadTypeOK, InHand, SoFar, Pending
  <2>5. QED
    BY Zenon, <2>1, <2>3, <2>4 DEF fileMatch
<1>3. CASE Fork
  BY Zenon, <1>3, FetchKeeps DEF Fork, InHand, Contents
<1>4. CASE ForkFails \/ WgetFails
  BY <1>4, ReturnKeeps DEF ForkFails, WgetFails, InHand, DownloadTypeOK
<1>5. CASE \E c \in Contents \ {"none"} : WgetEnds(c)
  BY Zenon, <1>5, FetchKeeps DEF WgetEnds, InHand
<1>6. CASE Check
  <2>1. PICK same \in fileMatch(disk[Head(todo)]) :
          IF same
          THEN Return(0) /\ UNCHANGED disk
          ELSE /\ Return(1)
               /\ \E left \in {"none", disk[Head(todo)]} :
                    disk' = [disk EXCEPT ![Head(todo)] = left]
    BY Zenon, <1>6 DEF Check
  <2>2. todo # <<>> /\ dl = "check" /\ Head(todo) \in Deb
    BY Zenon, <1>6, <1>h DEF Check, InHand
  <2>3. CASE same
    <3>1. disk[Head(todo)] = "good"
      BY Zenon, <2>1, <2>3 DEF fileMatch, sizeMatch, md5sumMatch
    <3>2. QED
      BY Zenon, <2>1, <2>2, <2>3, <3>1, ReturnKeeps DEF DownloadTypeOK
  <2>4. CASE ~same
    <3>1. Return(1) /\ disk' \in [Deb -> Contents]
      BY Zenon, <2>1, <2>2, <2>4 DEF DownloadTypeOK, Contents
    <3>2. \A p \in Deb : p # Head(todo) => disk'[p] = disk[p]
      BY Zenon, <2>1, <2>2, <2>4 DEF DownloadTypeOK
    <3>3. QED
      BY <2>2, <3>1, <3>2, ReturnKeeps
  <2>5. QED
    BY Zenon, <2>1, <2>3, <2>4 DEF fileMatch
<1>7. CASE AllTried
  BY Zenon, <1>7 DEF AllTried, DownloadTypeOK, InHand, SoFar, Pending
<1>8. QED
  BY Zenon, <1>1, <1>2, <1>3, <1>4, <1>5, <1>6, <1>7 DEF DownloadStep

LEMMA StartDownloadsKeeps ==
  ASSUME DownloadInv, NEW ps \in Seq(Deb), NEW k \in SUBSET Deb, StartDownloads(ps, k)
  PROVE  DownloadInv'
<1>1. DownloadTypeOK' /\ InHand' /\ dl' = "look"
  BY DEF StartDownloads, DownloadInv, DownloadTypeOK, InHand
<1>2. \A p \in wanted' : Pending(p)'
  BY Zenon DEF StartDownloads, Pending
<1>3. QED
  BY Zenon, <1>1, <1>2 DEF DownloadInv, SoFar

(* Exit status 0 means that every package wanted is there and matches the  *)
(* list, for every history of crashes, partial files and lost children.    *)
THEOREM SuccessIsReal == DownloadSpec => []SuccessMeansMatch
<1>1. DownloadInit => DownloadInv
  BY DEF DownloadInit, DownloadInv, DownloadTypeOK, InHand, SoFar, Pending
<1>2. DownloadInv /\ [DownloadNext]_downloadVars => DownloadInv'
  <2>1. ASSUME DownloadInv, Forget PROVE DownloadInv'
    BY <2>1 DEF Forget, DownloadInv, DownloadTypeOK, InHand, SoFar, Pending
  <2>2. ASSUME DownloadInv, UNCHANGED downloadVars PROVE DownloadInv'
    BY Zenon, <2>2 DEF downloadVars, DownloadInv, DownloadTypeOK, InHand, SoFar, Pending
  <2>3. QED
    BY Zenon, <2>1, <2>2, StepKeeps, StartDownloadsKeeps DEF DownloadNext
<1>3. DownloadInv => SuccessMeansMatch
  BY DEF DownloadInv, SoFar, Pending, SuccessMeansMatch
<1>4. QED
  BY <1>1, <1>2, <1>3, PTL DEF DownloadSpec
=============================================================================

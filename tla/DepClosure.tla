----------------------------- MODULE DepClosure -----------------------------
(***************************************************************************)
(* The loops of downloadDeps (src/apt/apt.cpp) that collect the packages   *)
(* to download: the arguments, and whatever they depend on.                *)
(*                                                                         *)
(* packagesRequired is a std::set and the loop inserts into it while an    *)
(* iterator walks it in order: what is inserted behind the iterator is not *)
(* visited before the next pass, what is inserted ahead of it is.  Names   *)
(* are numbers, their order that of the set.                               *)
(***************************************************************************)
EXTENDS Integers, Sequences, FiniteSets

CONSTANT Pkg        \* the names of packages

ASSUME PkgAssumption == Pkg \subseteq Nat \ {0} /\ IsFiniteSet(Pkg)

VARIABLES
  dpc,        \* "idle", "args", "pass", "closed"
  needs,      \* needs[p]: what satisfying the dependencies of p inserts
  args,       \* the arguments
  argi,       \* how many of them were looked at
  required,   \* packagesRequired
  at,         \* the package the iterator is at, 0 before the first
  oldValue    \* the size of the set when the pass began

depVars == <<dpc, needs, args, argi, required, at, oldValue>>

DepInit ==
  /\ dpc = "idle" /\ needs = [p \in Pkg |-> {}] /\ args = <<>> /\ argi = 0
  /\ required = {} /\ at = 0 /\ oldValue = 0

downloadDeps(n, a) ==
  /\ dpc = "idle" /\ a # <<>>
  /\ dpc' = "args" /\ needs' = n /\ args' = a /\ argi' = 0
  /\ required' = {} /\ at' = 0 /\ oldValue' = 0

doSatisfy(p) == required' = required \cup {p} \cup needs[p]

SatisfyArg ==
  /\ dpc = "args" /\ argi < Len(args)
  /\ doSatisfy(args[argi + 1])
  /\ argi' = argi + 1
  /\ UNCHANGED <<dpc, needs, args, at, oldValue>>

FirstPass ==
  /\ dpc = "args" /\ argi = Len(args)
  /\ dpc' = "pass" /\ oldValue' = Cardinality(required) /\ at' = 0
  /\ UNCHANGED <<needs, args, argi, required>>

Ahead == {p \in required : p > at}

SatisfyNext ==
  /\ dpc = "pass"
  /\ \E p \in Ahead :
       /\ \A q \in Ahead : p <= q
       /\ doSatisfy(p)
       /\ at' = p
  /\ UNCHANGED <<dpc, needs, args, argi, oldValue>>

(* Mutants: one pass is thought to be enough; the passes never stop.       *)
EndPass_Once ==
  /\ dpc = "pass" /\ Ahead = {}
  /\ dpc' = "closed"
  /\ UNCHANGED <<needs, args, argi, required, at, oldValue>>

EndPass_Forever ==
  /\ dpc = "pass" /\ Ahead = {}
  /\ oldValue' = Cardinality(required) /\ at' = 0
  /\ UNCHANGED <<dpc, needs, args, argi, required>>

(* A pass that left the size as it was is the last.                        *)
EndPass ==
  /\ dpc = "pass" /\ Ahead = {}
  /\ IF Cardinality(required) = oldValue
     THEN dpc' = "closed" /\ UNCHANGED <<at, oldValue>>
     ELSE UNCHANGED dpc /\ oldValue' = Cardinality(required) /\ at' = 0
  /\ UNCHANGED <<needs, args, argi, required>>

DepStep == SatisfyArg \/ FirstPass \/ SatisfyNext \/ EndPass

DepNext ==
  \/ DepStep
  \/ \E n \in [Pkg -> SUBSET Pkg], a \in Seq(Pkg) : downloadDeps(n, a)

DepSpec == DepInit /\ [][DepNext]_depVars

-----------------------------------------------------------------------------
ClosedSet(S) == \A p \in S : needs[p] \subseteq S
HasArgs(S) == \A i \in DOMAIN args : args[i] \in S

(* What is downloaded is what the arguments need, all of it and nothing    *)
(* else: the least set with the arguments in it that has the dependencies  *)
(* of each of its members, whatever order the set's iterator meets them    *)
(* in and however long a chain of dependencies runs against that order.    *)
LeastClosure ==
  dpc = "closed" =>
    /\ HasArgs(required) /\ ClosedSet(required)
    /\ \A S \in SUBSET Pkg : HasArgs(S) /\ ClosedSet(S) => required \subseteq S
=============================================================================

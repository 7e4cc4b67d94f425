------------------------------ MODULE AptList -------------------------------
(***************************************************************************)
(* What apt reads: the lines of sources.list, the names of the list files, *)
(* the records in them and their dependency fields (src/apt/aptlist.cpp,   *)
(* aptlist.h, and the constructor side of apt.cpp).                        *)
(*                                                                         *)
(* The text of a dependency field is a sequence of package names, each a   *)
(* number, and of the characters the scanner tells apart.  A token is a    *)
(* piece of it, so a name is <<n>>; "a|b" without blanks is one token, and *)
(* no package has that name.                                               *)
(***************************************************************************)
EXTENDS Integers, Sequences, SequencesExt

Value == 100
Comma == 101
Bar == 102
Blank == 103
LPar == 104
RPar == 105

(* The first place of a character of cs in text, or behind its end.        *)
FirstOf(cs, text) ==
  LET places == {i \in DOMAIN text : text[i] \in cs} \cup {Len(text) + 1}
  IN CHOOSE i \in places : \A j \in places : i <= j

From(text, i) == SubSeq(text, i, Len(text))

(* The scanner of ParseDep.                                                *)
RECURSIVE Tokens(_)
Tokens(text) ==
  IF text = <<>> THEN <<>>
  ELSE CASE Head(text) = Blank -> Tokens(Tail(text))
         [] Head(text) = Comma -> <<<<Comma>>>> \o Tokens(Tail(text))
         [] Head(text) = LPar  -> Tokens(From(text, FirstOf({RPar}, text) + 1))
         [] OTHER -> LET end == FirstOf({Blank, Comma}, text)
                     IN <<SubSeq(text, 1, end - 1)>> \o Tokens(From(text, end))

IsOperator(token) == token \in {<<Comma>>, <<Bar>>}
ValueNode(token) == [op |-> Value, package |-> token]
OperatorNode(op, left, right) == [op |-> op, left |-> left, right |-> right]
NoExpr == [op |-> 0]                  \* nullptr
Aborted == [op |-> -1]                \* APT_ASSERT failed
precedence(op) == IF op = Bar THEN 2 ELSE 1

(* The parser's stacks, their tops last; ok is false once pop_value failed.*)
Stacks(values, ops, ok) == [values |-> values, ops |-> ops, ok |-> ok]

(* The loop that reduces before an operator is pushed.                     *)
RECURSIVE Reduce(_, _)
Reduce(st, pred) ==
  IF ~st.ok \/ st.ops = <<>> THEN st
  ELSE IF precedence(Last(st.ops)) < pred THEN st
  ELSE IF Len(st.values) < 2 THEN [st EXCEPT !.ok = FALSE]
  ELSE LET left == Front(st.values)
       IN Reduce(Stacks(Append(Front(left), OperatorNode(Last(st.ops), Last(left), Last(st.values))),
                        Front(st.ops), TRUE), pred)

PushOperator(st, op) ==
  LET reduced == Reduce(st, precedence(op))
  IN [reduced EXCEPT !.ops = Append(@, op)]

(* Mutant: the operator stays on its stack.                                *)
PushValue_KeepOp(st, token) ==
  CASE st.ops = <<>>    -> [st EXCEPT !.values = Append(@, ValueNode(token))]
    [] st.values = <<>> -> [st EXCEPT !.ok = FALSE]
    [] OTHER -> Stacks(Append(Front(st.values),
                              OperatorNode(Last(st.ops), Last(st.values), ValueNode(token))),
                       st.ops, TRUE)

(* A value is joined at once to the value below it, if an operator waits.  *)
PushValue(st, token) ==
  CASE st.ops = <<>>    -> [st EXCEPT !.values = Append(@, ValueNode(token))]
    [] st.values = <<>> -> [st EXCEPT !.ok = FALSE]
    [] OTHER -> Stacks(Append(Front(st.values),
                              OperatorNode(Last(st.ops), Last(st.values), ValueNode(token))),
                       Front(st.ops), TRUE)

Shift(st, token) ==
  IF ~st.ok THEN st
  ELSE IF IsOperator(token) THEN PushOperator(st, token[1]) ELSE PushValue(st, token)

ParseDep(text) ==
  LET st == FoldLeft(Shift, Stacks(<<>>, <<>>, TRUE), Tokens(text))
  IN CASE ~st.ok           -> Aborted
       [] st.values = <<>> -> NoExpr
       [] OTHER            -> Last(st.values)

-----------------------------------------------------------------------------
(* Mutant: the right side of an "and" is left out when the left side fails.*)
Both_ShortCut(l, r) == IF l.ret # 0 THEN l ELSE [ret |-> r.ret, packages |-> l.packages \cup r.packages]
Both(l, r) == [ret |-> IF l.ret = 0 THEN r.ret ELSE 1, packages |-> l.packages \cup r.packages]

Either(l, r) ==
  CASE l.ret = 0 -> l
    [] l.ret # 0 /\ r.ret = 0 -> r
    [] OTHER -> [ret |-> 1, packages |-> {}]

(* satisfy: its result and what it inserts; exists is the set of names     *)
(* some list has.                                                          *)
RECURSIVE satisfy(_, _)
satisfy(e, exists) ==
  CASE e.op = Value -> IF e.package \in exists
                       THEN [ret |-> 0, packages |-> {e.package}]
                       ELSE [ret |-> 1, packages |-> {}]
    [] e.op = Bar   -> Either(satisfy(e.left, exists), satisfy(e.right, exists))
    [] e.op = Comma -> Both(satisfy(e.left, exists), satisfy(e.right, exists))
    [] OTHER        -> [ret |-> 0, packages |-> {}]

(* AptParse: a record of size 0, or without one, ends the list.            *)
AptParse(records) ==
  LET ends == {i \in DOMAIN records : records[i].size = 0} \cup {Len(records) + 1}
  IN SubSeq(records, 1, (CHOOSE i \in ends : \A j \in ends : i <= j) - 1)

-----------------------------------------------------------------------------
(* A line of sources.list: its first word, its options in brackets         *)
(* ("none", "closed" or "open", never closed), its URI in pieces, its      *)
(* suite and components.                                                   *)
Slash == "/"
Hangs(line) == line.type = "deb" /\ line.options = "open"

fromLine(line) ==
  LET uri == IF Last(line.uri) = Slash THEN line.uri ELSE Append(line.uri, Slash)
  IN IF line.type # "deb" THEN <<>>
     ELSE [i \in DOMAIN line.components |->
             [uri |-> uri, suite |-> line.suite, component |-> line.components[i]]]

(* The part of a list file's name that should end the URI.                 *)
actualUri(name) ==
  FlattenSeq([i \in 1 .. IF Len(name) < 2 THEN Len(name) ELSE 2 |-> Append(name[i], Slash)])

(* Mutant: the suites are not compared.                                    *)
match_AnySuite(entry, name) ==
  /\ Len(name) >= 5 => name[5] = <<entry.component>>
  /\ IsSuffix(actualUri(name), entry.uri)

match(entry, name) ==
  /\ Len(name) >= 4 => name[4] = <<entry.suite>>
  /\ Len(name) >= 5 => name[5] = <<entry.component>>
  /\ IsSuffix(actualUri(name), entry.uri)

(* searchByFileName: the first that matches, or 0.                         *)
searchByFileName(files, name) ==
  LET fits == {i \in DOMAIN files : match(files[i], name)}
  IN IF fits = {} THEN 0 ELSE CHOOSE i \in fits : \A j \in fits : i <= j

-----------------------------------------------------------------------------
(* What the comments say a field means: names separated by commas and      *)
(* bars, the bar binding stronger.                                         *)
WellFormed(text) ==
  LET ts == Tokens(text)
  IN (ts = <<>> \/ Len(ts) % 2 = 1) /\ \A i \in DOMAIN ts : IsOperator(ts[i]) <=> i % 2 = 0

(* The places of the commas around the i-th token, and its alternatives.   *)
Group(ts, i) ==
  {ts[j] : j \in {k \in DOMAIN ts : /\ ~IsOperator(ts[k])
                                    /\ \A c \in DOMAIN ts : (c - i) * (c - k) < 0 => ts[c] # <<Comma>>}}

Means(text, packages) ==
  LET ts == Tokens(text)
  IN \A i \in DOMAIN ts : ~IsOperator(ts[i]) => Group(ts, i) \cap packages # {}

RECURSIVE Leaves(_)
Leaves(e) == IF e.op = Value THEN <<e.package>>
             ELSE IF e.op \in {Comma, Bar} THEN Leaves(e.left) \o Leaves(e.right) ELSE <<>>
Names(text) == SelectSeq(Tokens(text), LAMBDA t : ~IsOperator(t))
=============================================================================

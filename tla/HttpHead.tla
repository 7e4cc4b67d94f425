------------------------------ MODULE HttpHead ------------------------------
(***************************************************************************)
(* What the server and the client of src/apt/libhttpd share: the reader    *)
(* and parser of a message head, and the buffered stream a message is      *)
(* written through.                                                        *)
(*                                                                         *)
(* The bytes of a message are words and newlines; a word of a line is cut  *)
(* by no property and is one symbol, so the first two words of the first   *)
(* line are its two tokens, and a header line is a key and its value.      *)
(***************************************************************************)
EXTENDS Integers, Sequences, SequencesExt

CONSTANT
  BufSize      \* the size of the buffer, which the reader and the stream share

ASSUME BufSizeAssumption == BufSize \in Nat \ {0}

LF == "\n"
Huge == 1000000          \* what a negative Content-Length is as a size_t

(* The reader's and the parser's state: the line so far, what was found,   *)
(* whether the head ended, the reader's error, and the bytes between       *)
(* offset and end of the buffer, behind the head.                          *)
reset == [line |-> <<>>, first |-> TRUE, method |-> "", path |-> "",
          length |-> <<>>, connection |-> <<>>, end |-> FALSE, error |-> FALSE, rest |-> <<>>]

(* A line ends: the first has the method and the path, an empty one ends   *)
(* the head, of the others the two keys of the table are kept.             *)
parse(h) ==
  LET l == h.line
      h1 == [h EXCEPT !.line = <<>>]
  IN CASE h.first -> [h1 EXCEPT !.first = FALSE,
                                !.method = IF Len(l) >= 1 THEN l[1] ELSE "",
                                !.path = IF Len(l) >= 2 THEN l[2] ELSE ""]
       [] ~h.first /\ l = <<>> -> [h1 EXCEPT !.end = TRUE]
       [] ~h.first /\ l # <<>> ->
            CASE Head(l) = "Content-Length" -> [h1 EXCEPT !.length = Tail(l)]
              [] Head(l) = "Connection"     -> [h1 EXCEPT !.connection = Tail(l)]
              [] OTHER                      -> h1

nextLine(h, ch) ==
  IF h.end THEN [h EXCEPT !.rest = Append(@, ch)]
  ELSE IF ch = LF THEN parse(h) ELSE [h EXCEPT !.line = Append(@, ch)]

(* fill() got a piece of the message, and the lines in it are parsed.  If  *)
(* there was an error before, getch returns it instead of the piece: the   *)
(* line is empty, and nobody looks at what the buffer holds.               *)
fill(h, piece) ==
  IF h.error THEN [h EXCEPT !.end = TRUE] ELSE FoldLeft(nextLine, h, piece)

(* It got nothing, or failed: the line is cleared, the error EINVAL.  In   *)
(* place of the first line that is a line without tokens, and parse asks   *)
(* for another; in place of a later one, it ends the head.                 *)
fillFails(h) == [h EXCEPT !.line = <<>>, !.first = FALSE, !.end = ~h.first, !.error = TRUE]

isValid(h) == h.method # "" /\ h.path # ""

connFromString(v) == IF v \in {<<>>, <<"close">>} THEN "close" ELSE "keep-alive"

atol(v) ==
  CASE v = <<"1">> -> 1
    [] v = <<"2">> -> 2
    [] v = <<"3">> -> 3
    [] v = <<"4">> -> 4
    [] v = <<"-1">> -> Huge
    [] OTHER -> 0

(* SocketStream: what is in the buffer, and what was written.              *)
flush_Keeps(s) == [s EXCEPT !.out = @ \o s.buf]     \* mutant: offset is not set to 0
flush(s) == [buf |-> <<>>, out |-> s.out \o s.buf]

write(s, src) ==
  LET f == IF Len(s.buf) + Len(src) > BufSize THEN flush(s) ELSE s
  IN IF Len(src) > BufSize THEN [f EXCEPT !.out = @ \o src] ELSE [f EXCEPT !.buf = @ \o src]

Streamed(pieces) == flush(FoldLeft(write, [buf |-> <<>>, out |-> <<>>], pieces)).out

Smaller(m, n) == IF m < n THEN m ELSE n
=============================================================================

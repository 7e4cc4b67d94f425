------------------------------ MODULE Dispatch ------------------------------
(***************************************************************************)
(* What HttpDaemon promises of a connection, whatever its threads do: it   *)
(* is accepted once, then served by one worker, then finished, and at most *)
(* one connection is in a worker's hands at a time.                        *)
(***************************************************************************)
EXTENDS Integers

CONSTANTS Conn, Worker

VARIABLES
  stage,   \* stage[c]: "none", "pending", "taken", "finished"
  holder   \* holder[w]: the connection worker w has, or NoConn

NoConn == 0

Init ==
  /\ stage = [c \in Conn |-> "none"]
  /\ holder = [w \in Worker |-> NoConn]

Accept(c) ==
  /\ stage[c] = "none"
  /\ stage' = [stage EXCEPT ![c] = "pending"]
  /\ UNCHANGED holder

Take(w, c) ==
  /\ stage[c] = "pending"
  /\ holder[w] = NoConn
  /\ stage' = [stage EXCEPT ![c] = "taken"]
  /\ holder' = [holder EXCEPT ![w] = c]

Finish(w, c) ==
  /\ stage[c] = "taken"
  /\ holder[w] = c
  /\ stage' = [stage EXCEPT ![c] = "finished"]
  /\ holder' = [holder EXCEPT ![w] = NoConn]

Next ==
  \/ \E c \in Conn : Accept(c)
  \/ \E w \in Worker, c \in Conn : Take(w, c) \/ Finish(w, c)

Spec == Init /\ [][Next]_<<stage, holder>>
=============================================================================

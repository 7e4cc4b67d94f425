-------------------------- MODULE HttpDaemonProofs --------------------------
(***************************************************************************)
(* Proofs about HttpDaemon, for any number of workers and requests.        *)
(***************************************************************************)
EXTENDS HttpDaemon, TLAPS

(* The thread of slot w has been created.                                  *)
Created(w) == master # "create" \/ w < step

(* Where the master is tells what step and item hold.                      *)
MasterInv ==
  /\ master = "create" => step \in Worker
  /\ master \in {"stop", "join", "done"} => step \in Worker
  /\ master = "push" => step \in Conn /\ item \in {step, Stop}
  /\ master # "push" => item = NoConn

(* A thread runs only once its identifier is in its own slot.              *)
SlotInv ==
  /\ \A w \in Worker : Created(w) => workers[w] = w
  /\ \A w \in Worker : wpc[w] # "unborn" => Created(w)
  /\ \A w \in Worker : tid[w] \in {NoThread, w}
  /\ \A w \in Worker : wpc[w] # "assert"

(* A worker holds a connection exactly while it connects or serves it.     *)
HoldInv == \A w \in Worker : cur[w] \in Conn <=> wpc[w] \in {"connect", "serve"}

(* Connections accept() has not returned yet.                              *)
Fresh(c) ==
  \/ master = "create"
  \/ master = "accept" /\ step <= c
  \/ master = "push" /\ step < c

(* One connection's part of OnePlace and NoneMislaid, and that nothing is  *)
(* known of a connection before accept() returns it.                       *)
ConnInv(c) ==
  /\ \A i, j \in Queued(c) : i = j
  /\ \A v, w \in Holders(c) : v = w
  /\ item = c => Queued(c) = {} /\ Holders(c) = {} /\ c \notin finished
  /\ Queued(c) # {} => Holders(c) = {} /\ c \notin finished
  /\ Holders(c) # {} => c \notin finished
  /\ c \in open /\ c \notin finished => item = c \/ Queued(c) # {} \/ Holders(c) # {}
  /\ ~Tls => c \notin open \/ c \notin finished
  /\ Fresh(c) => c \notin open /\ c \notin finished /\ Queued(c) = {} /\ Holders(c) = {}

IInv == TypeOK /\ MasterInv /\ SlotInv /\ HoldInv

-----------------------------------------------------------------------------
(* A thread that finds its own identifier finds it in its own slot first:  *)
(* the slots before it hold other threads.                                 *)
LEMMA LookupFindsOwn ==
  ASSUME TypeOK, SlotInv, NEW w \in Worker, wpc[w] = "lookup"
  PROVE  LET slots == {i \in Worker : workers[i] = w}
         IN slots # {} /\ (CHOOSE i \in slots : \A j \in slots : i <= j) = w
<1> DEFINE slots == {i \in Worker : workers[i] = w}
<1>1. w \in slots
  BY Zenon DEF SlotInv
<1>2. \A i \in slots : w <= i
  <2> SUFFICES ASSUME NEW i \in Worker, workers[i] = w, i < w PROVE FALSE
    BY DaemonAssumption DEF Worker
  <2>1. Created(w)
    BY Zenon DEF SlotInv
  <2>2. Created(i)
    BY <2>1, DaemonAssumption DEF Created, Worker, TypeOK
  <2> QED
    BY <2>2 DEF SlotInv, Worker
<1> HIDE DEF slots
<1>3. \A i \in slots : i \in Int
  BY DaemonAssumption DEF slots, Worker
<1>4. \A i \in slots : (\A j \in slots : i <= j) => i = w
  BY <1>1, <1>2, <1>3
<1>5. (CHOOSE i \in slots : \A j \in slots : i <= j) = w
  BY Zenon, <1>1, <1>2, <1>4
<1> QED
  BY Zenon, <1>1, <1>5 DEF slots

LEMMA InitIInv == Init => IInv
BY DaemonAssumption
   DEF Init, IInv, TypeOK, MasterInv, SlotInv, HoldInv, Created, Worker, Conn, NoConn, NoThread, Stop

(* Signal only moves a sleeping worker back to the mutex.                  *)
LEMMA SignalMoves ==
  ASSUME TypeOK, Signal
  PROVE  /\ wpc' \in [Worker -> {"unborn", "lookup", "assert", "lock", "wait", "connect",
                                 "serve", "exited"}]
         /\ \A w \in Worker : wpc'[w] = wpc[w] \/ (wpc[w] = "wait" /\ wpc'[w] = "lock")
BY Zenon DEF TypeOK, Signal

-----------------------------------------------------------------------------
LEMMA NextIInv == IInv /\ [Next]_vars => IInv'
<1> SUFFICES ASSUME IInv, [Next]_vars PROVE IInv'
  BY Zenon
<1> USE DaemonAssumption DEF IInv, NoConn, NoThread, Stop
<1>1. CASE initialize
  <2>1. step \in Worker
    BY Zenon, <1>1 DEF initialize, MasterInv
  <2>2. TypeOK' /\ MasterInv'
    BY <1>1, <2>1 DEF initialize, PthreadCreate, TypeOK, MasterInv, Worker, Conn
  <2>3. SlotInv'
    BY <1>1, <2>1 DEF initialize, PthreadCreate, TypeOK, SlotInv, Created, Worker
  <2>4. HoldInv'
    BY <1>1, <2>1 DEF initialize, PthreadCreate, TypeOK, SlotInv, Created, HoldInv, Worker
  <2> QED
    BY Zenon, <2>2, <2>3, <2>4
<1>2. CASE Accept
  <2>1. step \in Conn
    BY <1>2 DEF Accept, TypeOK, Conn
  <2>2. TypeOK'
    <3>1. CASE item' = step /\ open' = open \cup {step} /\ UNCHANGED failed
      BY Zenon, <1>2, <2>1, <3>1 DEF Accept, TypeOK
    <3>2. CASE item' = Stop /\ failed' = failed + 1 /\ UNCHANGED open
      BY <1>2, <3>2 DEF Accept, TypeOK
    <3> QED
      BY Zenon, <1>2, <3>1, <3>2 DEF Accept
  <2>3. MasterInv'
    BY Zenon, <1>2, <2>1 DEF Accept, MasterInv
  <2>4. SlotInv' /\ HoldInv'
    BY Zenon, <1>2 DEF Accept, TypeOK, SlotInv, Created, HoldInv
  <2> QED
    BY Zenon, <2>2, <2>3, <2>4
<1>3. CASE masterRoutine
  <2>1. TypeOK' /\ MasterInv'
    BY <1>3, SignalMoves DEF masterRoutine, TypeOK, MasterInv, Conn
  <2>2. SlotInv' /\ HoldInv'
    BY <1>3, SignalMoves DEF masterRoutine, TypeOK, SlotInv, Created, HoldInv
  <2> QED
    BY Zenon, <2>1, <2>2
<1>4. CASE LeaveLoop
  <2>1. TypeOK' /\ MasterInv'
    BY <1>4 DEF LeaveLoop, TypeOK, MasterInv, Worker
  <2>2. SlotInv' /\ HoldInv'
    BY Zenon, <1>4 DEF LeaveLoop, TypeOK, SlotInv, Created, HoldInv
  <2> QED
    BY Zenon, <2>1, <2>2
<1>5. CASE PushStop
  <2>1. TypeOK' /\ MasterInv'
    BY <1>5, SignalMoves DEF PushStop, TypeOK, MasterInv, Worker
  <2>2. SlotInv' /\ HoldInv'
    BY <1>5, SignalMoves DEF PushStop, TypeOK, SlotInv, Created, HoldInv
  <2> QED
    BY Zenon, <2>1, <2>2
<1>6. CASE Join
  <2>1. TypeOK' /\ MasterInv'
    BY <1>6 DEF Join, TypeOK, MasterInv, Worker
  <2>2. SlotInv' /\ HoldInv'
    BY Zenon, <1>6 DEF Join, TypeOK, SlotInv, Created, HoldInv
  <2> QED
    BY Zenon, <2>1, <2>2
<1>7. ASSUME NEW w \in Worker, Lookup(w) PROVE IInv'
  <2>1. wpc' = [wpc EXCEPT ![w] = "lock"] /\ tid' = [tid EXCEPT ![w] = w]
    BY Zenon, <1>7, LookupFindsOwn DEF Lookup
  <2>2. UNCHANGED <<master, step, item, queue, workers, cur, open, finished, failed>>
    BY Zenon, <1>7 DEF Lookup
  <2>3. TypeOK' /\ MasterInv'
    BY Zenon, <2>1, <2>2 DEF TypeOK, MasterInv
  <2>4. SlotInv' /\ HoldInv'
    BY <1>7, <2>1, <2>2 DEF Lookup, TypeOK, SlotInv, Created, HoldInv
  <2> QED
    BY Zenon, <2>3, <2>4
<1>8. ASSUME NEW w \in Worker, Wait(w) \/ SpuriousWakeup(w) PROVE IInv'
  <2>1. TypeOK' /\ MasterInv'
    BY Zenon, <1>8 DEF Wait, SpuriousWakeup, TypeOK, MasterInv
  <2>2. SlotInv' /\ HoldInv'
    BY <1>8 DEF Wait, SpuriousWakeup, TypeOK, SlotInv, Created, HoldInv
  <2> QED
    BY Zenon, <2>1, <2>2
<1>9. ASSUME NEW w \in Worker, Take(w) PROVE IInv'
  <2>1. Head(queue) \in Conn \cup {Stop} /\ Tail(queue) \in Seq(Conn \cup {Stop})
    BY <1>9 DEF Take, TypeOK
  <2>2. TypeOK' /\ MasterInv'
    BY Zenon, <1>9, <2>1 DEF Take, TypeOK, MasterInv
  <2>3. SlotInv' /\ HoldInv'
    BY <1>9, <2>1 DEF Take, TypeOK, SlotInv, Created, HoldInv, Conn
  <2> QED
    BY Zenon, <2>2, <2>3
<1>10. ASSUME NEW w \in Worker, Connect(w) \/ Serve(w) PROVE IInv'
  <2>1. cur[w] \in Conn
    BY Zenon, <1>10 DEF Connect, Serve, HoldInv
  <2>2. TypeOK' /\ MasterInv'
    BY Zenon, <1>10, <2>1 DEF Connect, Serve, Drop, Close, TypeOK, MasterInv
  <2>3. SlotInv' /\ HoldInv'
    BY <1>10 DEF Connect, Serve, Drop, Close, TypeOK, SlotInv, Created, HoldInv, Conn
  <2> QED
    BY Zenon, <2>2, <2>3
<1>11. CASE UNCHANGED vars
  BY Zenon, <1>11 DEF vars, TypeOK, MasterInv, SlotInv, Created, HoldInv
<1> QED
  BY Zenon, <1>1, <1>2, <1>3, <1>4, <1>5, <1>6, <1>7, <1>8, <1>9, <1>10, <1>11
     DEF Next, Master, WorkerStep, Quiet

(* The state of the daemon keeps its shape: in particular every descriptor *)
(* a worker closes is one accept() returned.                               *)
THEOREM TypeCorrect == Spec => []TypeOK
BY InitIInv, NextIInv, PTL DEF Spec, IInv

(* No worker fails http_assert(tid >= 0), and no two share a slot, however *)
(* the creation of threads interleaves with their look-up in workers[] and *)
(* whatever the array held before.                                         *)
THEOREM WorkersOwnTheirSlot == Spec => []OwnSlot
<1>1. IInv => OwnSlot
  BY Zenon, DaemonAssumption DEF IInv, SlotInv, OwnSlot, NoThread, Worker
<1> QED
  BY <1>1, InitIInv, NextIInv, PTL DEF Spec

-----------------------------------------------------------------------------
(* Pushing x adds one place to those of x and leaves the others alone.     *)
LEMMA QueuedPush ==
  ASSUME TypeOK, NEW x \in Conn \cup {Stop}, queue' = Append(queue, x), NEW c \in Conn
  PROVE  /\ x # c => Queued(c)' = Queued(c)
         /\ x = c => Queued(c)' = Queued(c) \cup {Len(queue) + 1}
BY DEF TypeOK, Queued

(* Popping removes the first place; c is gone if it was there, once.       *)
LEMMA QueuedPop ==
  ASSUME TypeOK, queue # <<>>, queue' = Tail(queue), NEW c \in Conn,
         \A i, j \in Queued(c) : i = j
  PROVE  /\ \A i, j \in Queued(c)' : i = j
         /\ Queued(c) = {} => Queued(c)' = {}
         /\ Head(queue) = c => Queued(c) # {} /\ Queued(c)' = {}
         /\ Head(queue) # c /\ Queued(c) # {} => Queued(c)' # {}
<1>1. /\ Len(queue) \in Nat \ {0} /\ DOMAIN queue = 1 .. Len(queue)
      /\ Head(queue) = queue[1]
      /\ DOMAIN queue' = 1 .. Len(queue) - 1
      /\ \A i \in 1 .. Len(queue) - 1 : queue'[i] = queue[i + 1]
  BY DEF TypeOK
<1>2. \A i \in Queued(c)' : i \in 1 .. Len(queue) - 1 /\ i + 1 \in Queued(c)
  BY <1>1 DEF Queued
<1>3. \A i \in Queued(c) : i = 1 \/ i - 1 \in Queued(c)'
  BY <1>1 DEF Queued
<1>4. Head(queue) = c <=> 1 \in Queued(c)
  BY <1>1 DEF Queued
<1>5. \A i, j \in Queued(c)' : i = j
  <2> SUFFICES ASSUME NEW i \in Queued(c)', NEW j \in Queued(c)' PROVE i = j
    BY Zenon
  <2>1. i + 1 = j + 1 /\ i \in Int /\ j \in Int
    BY <1>1, <1>2
  <2> QED
    BY <2>1
<1>6. Queued(c) = {} => Queued(c)' = {}
  BY Zenon, <1>2
<1>7. Head(queue) = c => Queued(c) # {} /\ Queued(c)' = {}
  <2> SUFFICES ASSUME 1 \in Queued(c), NEW i \in Queued(c)' PROVE FALSE
    BY Zenon, <1>4
  <2>1. i \in 1 .. Len(queue) - 1 /\ i + 1 = 1
    BY Zenon, <1>2
  <2> QED
    BY <1>1, <2>1
<1>8. Head(queue) # c /\ Queued(c) # {} => Queued(c)' # {}
  BY Zenon, <1>3, <1>4
<1> QED
  BY Zenon, <1>5, <1>6, <1>7, <1>8

-----------------------------------------------------------------------------
(* What a step does to a connection it does not deal with: nothing.        *)
Untouched(c) ==
  /\ Queued(c)' = Queued(c) /\ Holders(c)' = Holders(c)
  /\ item' = c <=> item = c
  /\ c \in open' <=> c \in open
  /\ c \in finished' <=> c \in finished

LEMMA UntouchedKeeps ==
  ASSUME NEW c \in Conn, ConnInv(c), Untouched(c), Fresh(c)' => Fresh(c)
  PROVE  ConnInv(c)' /\ StageOf(c)' = StageOf(c)
BY Zenon DEF ConnInv, Untouched, StageOf

LEMMA InitConnInv == Init => \A c \in Conn : ConnInv(c)
BY DaemonAssumption DEF Init, ConnInv, Fresh, Queued, Holders, Conn, NoConn

(* initialize, LeaveLoop, PushStop, Join, Lookup, Wait, SpuriousWakeup and *)
(* Quiet deal with no connection.                                          *)
Housekeeping ==
  \/ initialize \/ LeaveLoop \/ PushStop \/ Join
  \/ \E w \in Worker : Lookup(w) \/ Wait(w) \/ SpuriousWakeup(w)
  \/ UNCHANGED vars

LEMMA HousekeepingTouchesNone ==
  ASSUME IInv, Housekeeping, NEW c \in Conn
  PROVE  UNCHANGED cur /\ Untouched(c) /\ (Fresh(c)' => Fresh(c))
<1>1. UNCHANGED <<item, cur, open, finished>>
  BY Zenon DEF Housekeeping, initialize, LeaveLoop, PushStop, Join, Lookup, Wait, SpuriousWakeup, vars
<1>2. Queued(c)' = Queued(c)
  <2>1. CASE PushStop
    <3>1. queue' = Append(queue, Stop) /\ Stop # c
      BY <2>1, DaemonAssumption DEF PushStop, Conn, Stop
    <3> QED
      BY Zenon, <3>1, QueuedPush DEF IInv
  <2>2. CASE ~PushStop
    <3>1. UNCHANGED queue
      BY Zenon, <2>2 DEF Housekeeping, initialize, LeaveLoop, Join, Lookup, Wait, SpuriousWakeup, vars
    <3> QED
      BY Zenon, <3>1 DEF Queued
  <2> QED
    BY Zenon, <2>1, <2>2
<1>3. Holders(c)' = Holders(c)
  BY Zenon, <1>1 DEF Holders
<1>4. Fresh(c)' => Fresh(c)
  BY Zenon DEF Housekeeping, initialize, LeaveLoop, PushStop, Join, Lookup, Wait, SpuriousWakeup, vars,
         Fresh
<1> QED
  BY Zenon, <1>1, <1>2, <1>3, <1>4 DEF Untouched

(* A failed accept() concerns no connection, a successful one the fresh    *)
(* connection it returns, which becomes pending.                           *)
LEMMA AcceptStep ==
  ASSUME IInv, Accept, NEW c \in Conn, ConnInv(c)
  PROVE  /\ ConnInv(c)'
         /\ item' # c => StageOf(c)' = StageOf(c)
         /\ item' = c => StageOf(c) = "none" /\ StageOf(c)' = "pending"
         /\ item' \in Conn \/ item' = Stop
<1>1. /\ item = NoConn /\ item # c /\ step \in Conn /\ step \in Int /\ c \in Int /\ Stop # c
      /\ master = "accept" /\ master' = "push" /\ UNCHANGED <<step, queue, cur, finished>>
  BY DaemonAssumption DEF IInv, TypeOK, MasterInv, Accept, Conn, NoConn, Stop
<1>2. Queued(c)' = Queued(c) /\ Holders(c)' = Holders(c)
  BY Zenon, <1>1 DEF Queued, Holders
<1>3. Fresh(c)' => Fresh(c) /\ c # step
  BY <1>1 DEF Fresh
<1>4. (item' = step /\ open' = open \cup {step}) \/ (item' = Stop /\ open' = open)
  BY Zenon DEF Accept
<1>5. CASE item' = c
  <2>1. c = step /\ Fresh(c) /\ open' = open \cup {c} /\ ~Fresh(c)'
    BY <1>1, <1>3, <1>4, <1>5 DEF Fresh
  <2>2. c \notin finished /\ Queued(c) = {} /\ Holders(c) = {}
    BY Zenon, <2>1 DEF ConnInv
  <2>3. ConnInv(c)'
    BY Zenon, <1>1, <1>2, <1>5, <2>1, <2>2 DEF ConnInv
  <2>4. StageOf(c) = "none" /\ StageOf(c)' = "pending"
    BY Zenon, <1>1, <1>2, <1>5, <2>2 DEF StageOf
  <2> QED
    BY Zenon, <1>5, <2>1, <2>3, <2>4
<1>6. CASE item' # c
  <2>1. Untouched(c)
    BY Zenon, <1>1, <1>2, <1>4, <1>6 DEF Untouched
  <2> QED
    BY Zenon, <1>1, <1>3, <1>4, <1>6, <2>1, UntouchedKeeps
<1> QED
  BY Zenon, <1>5, <1>6

(* Queueing a connection leaves it pending.                                *)
LEMMA PushStep ==
  ASSUME IInv, masterRoutine, NEW c \in Conn, ConnInv(c)
  PROVE  ConnInv(c)' /\ StageOf(c)' = StageOf(c) /\ UNCHANGED cur
<1>1. /\ item \in Conn \cup {Stop} /\ item \in {step, Stop} /\ step \in Conn /\ step \in Int
      /\ master = "push" /\ master' = "accept" /\ step' = step + 1 /\ item' = NoConn
      /\ queue' = Append(queue, item) /\ UNCHANGED <<cur, open, finished>>
      /\ NoConn # c /\ Stop # c /\ c \in Int
  BY DaemonAssumption DEF IInv, TypeOK, MasterInv, masterRoutine, Conn, NoConn, Stop
<1>2. Holders(c)' = Holders(c)
  BY Zenon, <1>1 DEF Holders
<1>3. Fresh(c)' => Fresh(c) /\ c # item
  BY <1>1 DEF Fresh
<1>4. CASE item = c
  <2>1. Queued(c) = {} /\ Holders(c) = {} /\ c \notin finished
    BY Zenon, <1>4 DEF ConnInv
  <2>2. Queued(c)' = {Len(queue) + 1}
    BY Zenon, <1>1, <1>4, <2>1, QueuedPush DEF IInv
  <2>3. ConnInv(c)'
    BY Zenon, <1>1, <1>2, <1>3, <1>4, <2>1, <2>2 DEF ConnInv
  <2>4. StageOf(c)' = StageOf(c)
    BY Zenon, <1>1, <1>2, <1>4, <2>1, <2>2 DEF StageOf
  <2> QED
    BY Zenon, <1>1, <2>3, <2>4
<1>5. CASE item # c
  <2>1. Queued(c)' = Queued(c)
    BY Zenon, <1>1, <1>5, QueuedPush DEF IInv
  <2>2. Untouched(c)
    BY Zenon, <1>1, <1>2, <1>5, <2>1 DEF Untouched
  <2> QED
    BY Zenon, <1>1, <1>3, <2>2, UntouchedKeeps
<1> QED
  BY Zenon, <1>4, <1>5

(* A worker takes the connection at the front, and no other.               *)
LEMMA TakeStep ==
  ASSUME IInv, NEW w \in Worker, Take(w), NEW c \in Conn, ConnInv(c)
  PROVE  /\ ConnInv(c)'
         /\ cur[w] = NoConn
         /\ Head(queue) # c => StageOf(c)' = StageOf(c)
         /\ Head(queue) = c => /\ StageOf(c) = "pending" /\ StageOf(c)' = "taken"
                               /\ cur' = [cur EXCEPT ![w] = c]
         /\ Head(queue) = Stop => UNCHANGED cur
<1>1. /\ queue # <<>> /\ queue' = Tail(queue) /\ Head(queue) \in Conn \cup {Stop}
      /\ UNCHANGED <<master, step, item, open, finished>>
      /\ cur \in [Worker -> Conn \cup {NoConn}] /\ cur[w] \notin Conn /\ Stop \notin Conn
      /\ IF Head(queue) = Stop THEN UNCHANGED cur ELSE cur' = [cur EXCEPT ![w] = Head(queue)]
  BY DaemonAssumption DEF IInv, TypeOK, HoldInv, Take, Conn, Stop
<1>2. /\ \A i, j \in Queued(c)' : i = j
      /\ Queued(c) = {} => Queued(c)' = {}
      /\ Head(queue) = c => Queued(c) # {} /\ Queued(c)' = {}
      /\ Head(queue) # c /\ Queued(c) # {} => Queued(c)' # {}
  BY Zenon, <1>1, QueuedPop DEF IInv, ConnInv
<1>3. Fresh(c)' <=> Fresh(c)
  BY Zenon, <1>1 DEF Fresh
<1>4. CASE Head(queue) = c
  <2>1. Holders(c) = {} /\ c \notin finished /\ item # c /\ ~Fresh(c)
    BY Zenon, <1>2, <1>4 DEF ConnInv
  <2>2. Holders(c)' = {w} /\ cur' = [cur EXCEPT ![w] = c]
    BY Zenon, <1>1, <1>4, <2>1 DEF Holders
  <2>3. ConnInv(c)'
    BY Zenon, <1>1, <1>2, <1>3, <1>4, <2>1, <2>2 DEF ConnInv
  <2>4. StageOf(c) = "pending" /\ StageOf(c)' = "taken"
    BY Zenon, <1>1, <1>2, <1>4, <2>1, <2>2 DEF StageOf
  <2> QED
    BY Zenon, <1>1, <1>4, <2>2, <2>3, <2>4
<1>5. CASE Head(queue) # c
  <2>1. Holders(c)' = Holders(c)
    BY Zenon, <1>1, <1>5 DEF Holders
  <2>2. ConnInv(c)'
    BY Zenon, <1>1, <1>2, <1>3, <1>5, <2>1 DEF ConnInv
  <2>3. StageOf(c)' = StageOf(c)
    BY Zenon, <1>1, <1>2, <1>5, <2>1 DEF StageOf
  <2> QED
    BY Zenon, <1>1, <1>5, <2>2, <2>3
<1> QED
  BY Zenon, <1>4, <1>5

(* A worker is done with the connection it holds, and with no other.       *)
LEMMA DropStep ==
  ASSUME IInv, NEW w \in Worker, wpc[w] \in {"connect", "serve"}, Drop(w),
         UNCHANGED <<master, step, item, queue>>, NEW c \in Conn, ConnInv(c)
  PROVE  /\ ConnInv(c)'
         /\ cur[w] # c => StageOf(c)' = StageOf(c)
         /\ cur[w] = c => StageOf(c) = "taken" /\ StageOf(c)' = "finished"
         /\ cur' = [cur EXCEPT ![w] = NoConn] /\ cur[w] \in Conn
<1>1. /\ cur \in [Worker -> Conn \cup {NoConn}] /\ cur[w] \in Conn /\ NoConn \notin Conn
      /\ finished' = finished \cup {cur[w]} /\ cur' = [cur EXCEPT ![w] = NoConn]
      /\ open' = IF Tls THEN open ELSE open \ {cur[w]}
  BY DaemonAssumption DEF IInv, TypeOK, HoldInv, Drop, Close, Conn, NoConn
<1>2. Queued(c)' = Queued(c) /\ (Fresh(c)' <=> Fresh(c))
  BY Zenon DEF Queued, Fresh
<1>3. CASE cur[w] = c
  <2>1. w \in Holders(c)
    BY Zenon, <1>3 DEF Holders
  <2>2. /\ \A v \in Holders(c) : v = w
        /\ item # c /\ Queued(c) = {} /\ c \notin finished /\ ~Fresh(c)
    BY Zenon, <2>1 DEF ConnInv
  <2>3. Holders(c)' = {}
    BY Zenon, <1>1, <1>3, <2>2 DEF Holders
  <2>4. ConnInv(c)'
    BY Zenon, <1>1, <1>2, <1>3, <2>2, <2>3, DaemonAssumption DEF ConnInv
  <2>5. StageOf(c) = "taken" /\ StageOf(c)' = "finished"
    BY Zenon, <1>1, <1>3, <2>1, <2>2 DEF StageOf
  <2> QED
    BY Zenon, <1>1, <1>3, <2>4, <2>5
<1>4. CASE cur[w] # c
  <2>1. Holders(c)' = Holders(c)
    BY Zenon, <1>1, <1>4 DEF Holders
  <2>2. Untouched(c)
    BY Zenon, <1>1, <1>2, <1>4, <2>1 DEF Untouched
  <2> QED
    BY Zenon, <1>1, <1>2, <1>4, <2>2, UntouchedKeeps
<1> QED
  BY Zenon, <1>3, <1>4

-----------------------------------------------------------------------------
(* Every step either deals with no connection or is one of the four above. *)
LEMMA StepKinds ==
  ASSUME [Next]_vars
  PROVE  \/ Housekeeping
         \/ Accept
         \/ masterRoutine
         \/ \E w \in Worker : Take(w)
         \/ \E w \in Worker : /\ wpc[w] = "connect" /\ UNCHANGED <<item, queue, cur, open, finished>>
                              /\ UNCHANGED <<master, step>>
         \/ \E w \in Worker : /\ wpc[w] \in {"connect", "serve"} /\ Drop(w)
                              /\ UNCHANGED <<master, step, item, queue>>
BY Zenon DEF Next, Master, WorkerStep, Quiet, Housekeeping, Connect, Serve

AllConnInv == \A c \in Conn : ConnInv(c)

LEMMA NextConnInv == IInv /\ AllConnInv /\ [Next]_vars => AllConnInv'
<1> SUFFICES ASSUME IInv, AllConnInv, [Next]_vars, NEW c \in Conn PROVE ConnInv(c)'
  BY Zenon DEF AllConnInv
<1>0. ConnInv(c)
  BY Zenon DEF AllConnInv
<1>1. CASE Housekeeping
  BY Zenon, <1>0, <1>1, HousekeepingTouchesNone, UntouchedKeeps
<1>2. CASE Accept
  BY Zenon, <1>0, <1>2, AcceptStep
<1>3. CASE masterRoutine
  BY Zenon, <1>0, <1>3, PushStep
<1>4. CASE \E w \in Worker : Take(w)
  BY Zenon, <1>0, <1>4, TakeStep
<1>5. CASE UNCHANGED <<item, queue, cur, open, finished>> /\ UNCHANGED <<master, step>>
  BY Zenon, <1>0, <1>5 DEF ConnInv, Queued, Holders, Fresh
<1>6. ASSUME NEW w \in Worker, wpc[w] \in {"connect", "serve"}, Drop(w),
             UNCHANGED <<master, step, item, queue>>
      PROVE  ConnInv(c)'
  BY Zenon, <1>0, <1>6, DropStep
<1> QED
  BY Zenon, <1>1, <1>2, <1>3, <1>4, <1>5, <1>6, StepKinds

LEMMA SpecConnInv == Spec => [](IInv /\ AllConnInv)
<1>1. Init => IInv /\ AllConnInv
  BY Zenon, InitIInv, InitConnInv DEF AllConnInv
<1>2. IInv /\ AllConnInv /\ [Next]_vars => (IInv /\ AllConnInv)'
  BY Zenon, NextIInv, NextConnInv
<1> QED
  BY <1>1, <1>2, PTL DEF Spec

(* Two threads never hold the same descriptor, and a descriptor is queued  *)
(* at most once: masterRoutine and workerRoutine hand connections over     *)
(* without doubling one.                                                   *)
THEOREM OneHolder == Spec => []OnePlace
<1>1. IInv /\ AllConnInv => OnePlace
  BY Zenon DEF AllConnInv, ConnInv, OnePlace
<1> QED
  BY <1>1, SpecConnInv, PTL

(* An accepted connection is always with the master, in the queue or with  *)
(* a worker until it is finished, and without TLS its descriptor is then   *)
(* closed.                                                                 *)
THEOREM NoConnectionMislaid == Spec => []NoneMislaid
<1>1. IInv /\ AllConnInv => NoneMislaid
  <2> SUFFICES ASSUME IInv, AllConnInv PROVE NoneMislaid
    BY Zenon
  <2>1. open \subseteq Conn /\ finished \subseteq Conn
    BY Zenon DEF IInv, TypeOK
  <2> QED
    BY Zenon, <2>1 DEF AllConnInv, ConnInv, NoneMislaid
<1> QED
  BY <1>1, SpecConnInv, PTL

(* Every accepted connection is in exactly one place until it is finished, *)
(* for any number of workers and requests, over plain sockets and TLS.     *)
THEOREM AllAccounted == Spec => []Accounted
<1>1. OnePlace /\ NoneMislaid => Accounted
  BY Zenon DEF Accounted
<1> QED
  BY <1>1, OneHolder, NoConnectionMislaid, PTL

-----------------------------------------------------------------------------
Stage == [c \in Conn |-> StageOf(c)]

LEMMA InitDispatch == Init => D!Init
<1> SUFFICES ASSUME Init PROVE D!Init
  BY Zenon
<1>1. \A c \in Conn : StageOf(c) = "none"
  BY DaemonAssumption DEF Init, StageOf, Queued, Holders, Conn, NoConn
<1> QED
  BY Zenon, <1>1 DEF Init, D!Init, D!NoConn, NoConn

LEMMA NextDispatch ==
  ASSUME IInv, AllConnInv, [Next]_vars
  PROVE  [D!Next]_<<Stage, cur>>
<1> USE DEF AllConnInv
<1>1. CASE Housekeeping
  <2>2. UNCHANGED cur
    BY Zenon, <1>1 DEF Housekeeping, initialize, LeaveLoop, PushStop, Join, Lookup, Wait,
                SpuriousWakeup, vars
  <2>3. \A c \in Conn : StageOf(c)' = StageOf(c)
    BY Zenon, <1>1, HousekeepingTouchesNone, UntouchedKeeps
  <2> QED
    BY Zenon, <2>2, <2>3 DEF Stage
<1>2. CASE Accept
  <2>1. UNCHANGED cur
    BY Zenon, <1>2 DEF Accept
  <2>2. CASE item' \in Conn
    <3>1. D!Accept(item')
      BY Zenon, <1>2, <2>1, <2>2, AcceptStep DEF D!Accept
    <3> QED
      BY Zenon, <2>2, <3>1 DEF D!Next, Stage
  <2>3. CASE item' \notin Conn
    BY Zenon, <1>2, <2>1, <2>3, AcceptStep DEF Stage
  <2> QED
    BY Zenon, <2>2, <2>3
<1>3. CASE masterRoutine
  BY Zenon, <1>3, PushStep DEF Stage, masterRoutine
<1>4. ASSUME NEW w \in Worker, Take(w) PROVE [D!Next]_<<Stage, cur>>
  <2>1. Head(queue) \in Conn \/ Head(queue) = Stop
    BY <1>4 DEF IInv, TypeOK, Take
  <2>2. CASE Head(queue) \in Conn
    <3>1. D!Take(w, Head(queue))
      BY Zenon, <1>4, <2>2, TakeStep DEF D!Take, D!NoConn, NoConn
    <3> QED
      BY Zenon, <2>2, <3>1 DEF D!Next, Stage
  <2>3. CASE Head(queue) = Stop
    <3>1. UNCHANGED cur
      BY Zenon, <1>4, <2>3 DEF Take
    <3>2. \A c \in Conn : Head(queue) # c
      BY <2>3, DaemonAssumption DEF Conn, Stop
    <3> QED
      BY Zenon, <1>4, <3>1, <3>2, TakeStep DEF Stage
  <2> QED
    BY Zenon, <2>1, <2>2, <2>3
<1>5. CASE UNCHANGED <<item, queue, cur, open, finished>>
  BY Zenon, <1>5 DEF Stage, StageOf, Queued, Holders
<1>6. ASSUME NEW w \in Worker, wpc[w] \in {"connect", "serve"}, Drop(w),
             UNCHANGED <<master, step, item, queue>>
      PROVE  [D!Next]_<<Stage, cur>>
  <2>1. cur[w] \in Conn
    BY Zenon, <1>6 DEF IInv, HoldInv
  <2>2. D!Finish(w, cur[w])
    BY Zenon, <1>6, <2>1, DropStep DEF D!Finish, D!NoConn, NoConn
  <2> QED
    BY Zenon, <2>1, <2>2 DEF D!Next, Stage
<1> QED
  BY Zenon, <1>1, <1>2, <1>3, <1>4, <1>5, <1>6, StepKinds

(* Whatever the interleaving of the threads, the daemon takes each         *)
(* connection from accepted to taken to finished, once, through a worker   *)
(* that holds no other.                                                    *)
THEOREM DaemonImplementsDispatch == Spec => ImplementsDispatch
<1>1. IInv /\ AllConnInv /\ [Next]_vars => [D!Next]_<<Stage, cur>>
  BY Zenon, NextDispatch
<1> QED
  BY <1>1, InitDispatch, SpecConnInv, PTL DEF Spec, ImplementsDispatch, D!Spec, Stage

-----------------------------------------------------------------------------
INSTANCE FiniteSetTheorems

(* The threads that have ended, and the -1s before place i of the queue.   *)
Exited == {w \in Worker : wpc[w] = "exited"}
StopsBefore(i) == {j \in 1 .. i - 1 : queue[j] = Stop}

(* Until every request has been accepted, only the -1 of a failed accept() *)
(* ends a worker.  Later there are more, but behind every connection: one  *)
(* that is still queued has at most failed of them before it.              *)
FailInv ==
  /\ failed <= MaxFail
  /\ master \in {"create", "accept", "push"} =>
       Cardinality(Exited) + Cardinality(StopsBefore(Len(queue) + 1))
         + (IF item = Stop THEN 1 ELSE 0) <= failed
  /\ \A i \in DOMAIN queue : queue[i] \in Conn =>
       Cardinality(Exited) + Cardinality(StopsBefore(i)) <= failed

(* Those that have been joined have ended.                                 *)
JoinInv ==
  /\ master = "join" => \A w \in Worker : w < step => wpc[w] = "exited"
  /\ master = "done" => \A w \in Worker : wpc[w] = "exited"

(* There are finitely many threads.                                        *)
LEMMA ExitedFinite == IsFiniteSet(Exited) /\ Cardinality(Exited) \in Nat
<1>1. IsFiniteSet(Worker)
  BY DaemonAssumption, FS_Interval DEF Worker
<1>2. Exited \in SUBSET Worker
  BY Zenon DEF Exited
<1> QED BY Zenon, <1>1, <1>2, FS_Subset, FS_CardinalityType

(* The same for the -1s before a place.                                    *)
LEMMA StopsFinite ==
  ASSUME NEW i \in Nat
  PROVE  IsFiniteSet(StopsBefore(i)) /\ Cardinality(StopsBefore(i)) \in Nat
<1>1. IsFiniteSet(1 .. i - 1)
  BY FS_Interval
<1>2. StopsBefore(i) \in SUBSET (1 .. i - 1)
  BY Zenon DEF StopsBefore
<1> QED BY Zenon, <1>1, <1>2, FS_Subset, FS_CardinalityType

(* A -1 that is pushed lies behind everything.                             *)
LEMMA StopsPush ==
  ASSUME TypeOK, NEW x \in Conn \cup {Stop}, queue' = Append(queue, x)
  PROVE  /\ \A i \in 1 .. Len(queue) + 1 : StopsBefore(i)' = StopsBefore(i)
         /\ Len(queue') = Len(queue) + 1 /\ Len(queue) \in Nat
         /\ DOMAIN queue' = 1 .. Len(queue) + 1 /\ DOMAIN queue = 1 .. Len(queue)
         /\ \A i \in 1 .. Len(queue) : queue'[i] = queue[i]
         /\ queue'[Len(queue) + 1] = x
         /\ Cardinality(StopsBefore(Len(queue) + 1)')
              = Cardinality(StopsBefore(Len(queue) + 1)) + (IF x = Stop THEN 1 ELSE 0)
<1>1. /\ Len(queue) \in Nat /\ DOMAIN queue = 1 .. Len(queue)
      /\ Len(queue') = Len(queue) + 1 /\ DOMAIN queue' = 1 .. Len(queue) + 1
      /\ \A i \in 1 .. Len(queue) : queue'[i] = queue[i]
      /\ queue'[Len(queue) + 1] = x
  BY DEF TypeOK
<1>2. \A i \in 1 .. Len(queue) + 1 : StopsBefore(i)' = StopsBefore(i)
  BY <1>1 DEF StopsBefore
<1> DEFINE S == StopsBefore(Len(queue) + 1)
           T == StopsBefore(Len(queue) + 1)'
<1>3. T = IF x = Stop THEN S \cup {Len(queue) + 1} ELSE S
  <2>1. T = {j \in 1 .. Len(queue) + 1 : queue'[j] = Stop}
    <3>1. (Len(queue') + 1) - 1 = Len(queue) + 1
      BY <1>1
    <3> QED BY Zenon, <3>1 DEF StopsBefore
  <2>2. S = {j \in 1 .. Len(queue) : queue[j] = Stop}
    BY <1>1 DEF StopsBefore
  <2> HIDE DEF S, T
  <2> QED BY <1>1, <2>1, <2>2
<1>4. IsFiniteSet(S) /\ Cardinality(S) \in Nat
  BY <1>1, StopsFinite
<1>5. Len(queue) + 1 \notin S
  BY <1>1 DEF StopsBefore
<1>6. Cardinality(T) = Cardinality(S) + (IF x = Stop THEN 1 ELSE 0)
  <2> HIDE DEF S, T
  <2>1. Cardinality(S \cup {Len(queue) + 1}) = Cardinality(S) + 1
    BY Zenon, <1>4, <1>5, FS_AddElement
  <2> QED BY <1>3, <1>4, <2>1
<1> QED BY Zenon, <1>1, <1>2, <1>6

(* A -1 that is taken was before everything else.                          *)
LEMMA StopsPop ==
  ASSUME TypeOK, queue # <<>>, queue' = Tail(queue), NEW i \in 1 .. Len(queue)
  PROVE  Cardinality(StopsBefore(i)')
           <= Cardinality(StopsBefore(i + 1)) - (IF Head(queue) = Stop THEN 1 ELSE 0)
<1>1. /\ Len(queue) \in Nat \ {0} /\ Head(queue) = queue[1]
      /\ \A j \in 1 .. Len(queue) - 1 : queue'[j] = queue[j + 1]
  BY DEF TypeOK
<1> DEFINE S == StopsBefore(i + 1)
           T == StopsBefore(i)'
           f == [j \in T |-> j + 1]
<1>2. S = {j \in 1 .. i : queue[j] = Stop}
  BY DEF StopsBefore
<1>3. T = {j \in 1 .. i - 1 : queue[j + 1] = Stop}
  BY <1>1 DEF StopsBefore
<1>4. IsFiniteSet(S) /\ Cardinality(S) \in Nat
  <2>1. i + 1 \in Nat
    OBVIOUS
  <2> QED BY Zenon, <2>1, StopsFinite
<1>5. IsFiniteSet(S \ {1}) /\ Cardinality(S \ {1}) = IF 1 \in S THEN Cardinality(S) - 1 ELSE Cardinality(S)
  <2> HIDE DEF S
  <2> QED BY Zenon, <1>4, FS_RemoveElement
<1>6. 1 \in S <=> Head(queue) = Stop
  BY <1>1, <1>2
<1>7. f \in Injection(T, S \ {1})
  <2> HIDE DEF S, T
  <2>1. \A j \in T : j \in Int /\ j + 1 \in S \ {1}
    BY <1>2, <1>3
  <2> QED BY <2>1 DEF Injection, IsInjective
<1>8. Cardinality(T) <= Cardinality(S \ {1})
  <2> HIDE DEF S, T, f
  <2> QED BY Zenon, <1>5, <1>7, FS_Injection
<1> HIDE DEF S, T
<1> QED BY <1>4, <1>5, <1>6, <1>8 DEF S, T

(* Only Take ends a thread.                                                *)
LEMMA ExitedKept ==
  ASSUME IInv, [Next]_vars, \A w \in Worker : ~Take(w)
  PROVE  Exited' = Exited
<1> SUFFICES ASSUME NEW w \in Worker PROVE wpc'[w] = "exited" <=> wpc[w] = "exited"
  BY Zenon DEF Exited
<1> USE DEF IInv
<1>1. CASE initialize
  <2>1. step \in Worker /\ wpc[step] = "unborn"
    BY <1>1, DaemonAssumption DEF initialize, MasterInv, SlotInv, Created, Worker
  <2> QED BY Zenon, <1>1, <2>1 DEF initialize, PthreadCreate, TypeOK
<1>2. CASE masterRoutine \/ PushStop
  BY Zenon, <1>2, SignalMoves DEF masterRoutine, PushStop
<1>3. CASE Accept \/ LeaveLoop \/ Join \/ UNCHANGED vars
  BY Zenon, <1>3 DEF Accept, LeaveLoop, Join, vars
<1>4. ASSUME NEW v \in Worker, Lookup(v) \/ Wait(v) \/ SpuriousWakeup(v) \/ Connect(v) \/ Serve(v)
      PROVE  wpc'[w] = "exited" <=> wpc[w] = "exited"
  BY Zenon, <1>4 DEF Lookup, Wait, SpuriousWakeup, Connect, Serve, Drop, TypeOK
<1> QED BY Zenon, <1>1, <1>2, <1>3, <1>4 DEF Next, Master, WorkerStep, Quiet

(* A -1 that leaves the queue for an exit keeps the sum below its bound. *)
LEMMA ShiftSum ==
  ASSUME NEW e \in Nat, NEW x \in Int, NEW y \in Nat, NEW z \in {0, 1}, NEW m \in Nat, NEW f \in Nat,
         x <= y - m, e + y + z <= f
  PROVE  (e + m) + x + z <= f
OBVIOUS

(* Taking a -1 ends one thread, and nothing else is ended.                 *)
LEMMA TakeFail ==
  ASSUME IInv, FailInv, NEW w \in Worker, Take(w)
  PROVE  FailInv'
<1>1. /\ queue # <<>> /\ queue' = Tail(queue) /\ UNCHANGED <<master, item, failed>>
      /\ wpc[w] = "lock" /\ wpc \in [Worker -> {"unborn", "lookup", "assert", "lock", "wait",
                                               "connect", "serve", "exited"}]
      /\ wpc' = [wpc EXCEPT ![w] = IF Head(queue) = Stop THEN "exited" ELSE "connect"]
  BY Zenon DEF Take, IInv, TypeOK
<1>2. /\ Len(queue) \in Nat \ {0} /\ Len(queue') = Len(queue) - 1
      /\ DOMAIN queue = 1 .. Len(queue) /\ DOMAIN queue' = 1 .. Len(queue) - 1
      /\ \A j \in 1 .. Len(queue) - 1 : queue'[j] = queue[j + 1]
  BY <1>1 DEF IInv, TypeOK
<1> DEFINE d == IF Head(queue) = Stop THEN 1 ELSE 0
<1>3. Cardinality(Exited') = Cardinality(Exited) + d /\ Cardinality(Exited) \in Nat
  <2>1. Exited' = IF Head(queue) = Stop THEN Exited \cup {w} ELSE Exited
    BY Zenon, <1>1 DEF Exited
  <2>2. w \notin Exited
    BY Zenon, <1>1 DEF Exited
  <2>3. Cardinality(Exited \cup {w}) = Cardinality(Exited) + 1
    BY Zenon, <2>2, ExitedFinite, FS_AddElement
  <2> QED BY <2>1, <2>3, ExitedFinite
<1>4. d \in Nat /\ failed \in Nat
  BY Zenon DEF IInv, TypeOK
<1>5. ASSUME NEW i \in 1 .. Len(queue)
      PROVE  /\ Cardinality(StopsBefore(i)') <= Cardinality(StopsBefore(i + 1)) - d
             /\ Cardinality(StopsBefore(i)') \in Int /\ Cardinality(StopsBefore(i + 1)) \in Nat
  <2>1. Cardinality(StopsBefore(i)') <= Cardinality(StopsBefore(i + 1)) - d
    BY Zenon, <1>1, <1>5, StopsPop DEF IInv
  <2>2. i \in Nat /\ i + 1 \in Nat
    OBVIOUS
  <2>3. Cardinality(StopsBefore(i + 1)) \in Nat
    BY Zenon, <2>2, StopsFinite
  <2>4. Cardinality(StopsBefore(i)') \in Nat
    <3>1. IsFiniteSet(1 .. i - 1)
      BY FS_Interval
    <3>2. StopsBefore(i)' \in SUBSET (1 .. i - 1)
      BY Zenon DEF StopsBefore
    <3> QED BY Zenon, <3>1, <3>2, FS_Subset, FS_CardinalityType
  <2> QED BY <2>1, <2>3, <2>4
<1> HIDE DEF d
<1>6. ASSUME master \in {"create", "accept", "push"}
      PROVE  Cardinality(Exited') + Cardinality(StopsBefore(Len(queue) + 1)')
               + (IF item' = Stop THEN 1 ELSE 0) <= failed'
  <2>1. PICK n \in 1 .. Len(queue) : n = Len(queue)
    BY <1>2
  <2>2. Cardinality(StopsBefore(Len(queue) + 1)') = Cardinality(StopsBefore(n)')
    BY <1>2, <2>1 DEF StopsBefore
  <2>3. Cardinality(Exited) + Cardinality(StopsBefore(n + 1))
               + (IF item = Stop THEN 1 ELSE 0) <= failed
    BY Zenon, <1>6, <2>1 DEF FailInv
  <2>4. PICK e \in Nat, x \in Int, y \in Nat, z \in {0, 1} :
          /\ e = Cardinality(Exited) /\ x = Cardinality(StopsBefore(n)')
          /\ y = Cardinality(StopsBefore(n + 1)) /\ z = (IF item = Stop THEN 1 ELSE 0)
    BY Zenon, <1>3, <1>5
  <2>5. x <= y - d /\ e + y + z <= failed
    BY Zenon, <1>5, <2>3, <2>4
  <2>6. (e + d) + x + z <= failed
    BY Zenon, <1>4, <2>5, ShiftSum
  <2> QED BY Zenon, <1>1, <1>3, <2>2, <2>4, <2>6
<1>7. ASSUME NEW i \in DOMAIN queue', queue'[i] \in Conn
      PROVE  Cardinality(Exited') + Cardinality(StopsBefore(i)') <= failed'
  <2>1. i \in 1 .. Len(queue) /\ i + 1 \in DOMAIN queue /\ queue[i + 1] \in Conn
    BY <1>2, <1>7
  <2>2. Cardinality(Exited) + Cardinality(StopsBefore(i + 1)) <= failed
    BY Zenon, <2>1 DEF FailInv
  <2> QED BY <1>1, <1>3, <1>4, <1>5, <2>1, <2>2
<1>8. failed' <= MaxFail
  BY Zenon, <1>1 DEF FailInv
<1> QED BY Zenon, <1>1, <1>6, <1>7, <1>8 DEF FailInv

(* Every step keeps FailInv.                                               *)
LEMMA NextFailInv ==
  ASSUME IInv, FailInv, [Next]_vars
  PROVE  FailInv'
<1>1. CASE \E w \in Worker : Take(w)
  BY Zenon, <1>1, TakeFail
<1>2. CASE \A w \in Worker : ~Take(w)
  <2>1. Exited' = Exited /\ Cardinality(Exited) \in Nat /\ failed \in Nat
    BY Zenon, <1>2, ExitedKept, ExitedFinite DEF IInv, TypeOK
  <2>2. CASE masterRoutine
    <3>1. /\ master = "push" /\ queue' = Append(queue, item) /\ item' = NoConn /\ failed' = failed
          /\ item \in Conn \cup {Stop} /\ NoConn # Stop /\ Stop \notin Conn
      BY <2>2 DEF masterRoutine, IInv, MasterInv, TypeOK, NoConn, Stop, Conn
    <3>2. /\ \A i \in 1 .. Len(queue) + 1 : StopsBefore(i)' = StopsBefore(i)
          /\ Len(queue') = Len(queue) + 1 /\ Len(queue) \in Nat
          /\ DOMAIN queue' = 1 .. Len(queue) + 1 /\ DOMAIN queue = 1 .. Len(queue)
          /\ \A i \in 1 .. Len(queue) : queue'[i] = queue[i]
          /\ queue'[Len(queue) + 1] = item
          /\ Cardinality(StopsBefore(Len(queue) + 1)')
               = Cardinality(StopsBefore(Len(queue) + 1)) + (IF item = Stop THEN 1 ELSE 0)
      BY Zenon, <3>1, StopsPush DEF IInv
    <3>3. Cardinality(StopsBefore(Len(queue) + 1)) \in Nat
      BY <3>2, StopsFinite
    <3>4. Cardinality(Exited) + Cardinality(StopsBefore(Len(queue) + 1))
               + (IF item = Stop THEN 1 ELSE 0) <= failed
      BY Zenon, <3>1 DEF FailInv
    <3>5. Cardinality(Exited') + Cardinality(StopsBefore(Len(queue) + 1)')
               + (IF item' = Stop THEN 1 ELSE 0) <= failed'
      BY <2>1, <3>1, <3>2, <3>3, <3>4
    <3>6. ASSUME NEW i \in DOMAIN queue', queue'[i] \in Conn
          PROVE  Cardinality(Exited') + Cardinality(StopsBefore(i)') <= failed'
      <4>1. StopsBefore(i)' = StopsBefore(i)
        BY Zenon, <3>2, <3>6
      <4>2. CASE i \in DOMAIN queue
        BY Zenon, <2>1, <3>1, <3>2, <3>6, <4>1, <4>2 DEF FailInv
      <4>3. CASE i = Len(queue) + 1
        <5>1. item # Stop
          BY Zenon, <3>1, <3>2, <3>6, <4>3
        <5> QED BY <2>1, <3>1, <3>3, <3>4, <4>1, <4>3, <5>1
      <4> QED BY <3>2, <3>6, <4>2, <4>3
    <3>7. failed' <= MaxFail
      BY Zenon, <3>1 DEF FailInv
    <3> QED BY Zenon, <3>5, <3>6, <3>7 DEF FailInv
  <2>3. CASE PushStop
    <3>1. /\ master = "stop" /\ queue' = Append(queue, Stop) /\ failed' = failed
          /\ master' \in {"stop", "join"} /\ Stop \notin Conn
      BY <2>3 DEF PushStop, Stop, Conn
    <3>2. /\ \A i \in 1 .. Len(queue) + 1 : StopsBefore(i)' = StopsBefore(i)
          /\ DOMAIN queue' = 1 .. Len(queue) + 1 /\ DOMAIN queue = 1 .. Len(queue)
          /\ Len(queue) \in Nat
          /\ \A i \in 1 .. Len(queue) : queue'[i] = queue[i]
          /\ queue'[Len(queue) + 1] = Stop
      BY Zenon, <3>1, StopsPush DEF IInv
    <3>3. ASSUME NEW i \in DOMAIN queue', queue'[i] \in Conn
          PROVE  Cardinality(Exited') + Cardinality(StopsBefore(i)') <= failed'
      <4>1. i \in DOMAIN queue /\ StopsBefore(i)' = StopsBefore(i)
        BY <3>1, <3>2, <3>3
      <4> QED BY Zenon, <2>1, <3>1, <3>2, <3>3, <4>1 DEF FailInv
    <3>4. failed' <= MaxFail
      BY Zenon, <3>1 DEF FailInv
    <3> QED BY Zenon, <3>1, <3>3, <3>4 DEF FailInv
  <2>4. CASE Accept
    <3>1. /\ master = "accept" /\ queue' = queue
          /\ \/ item' \in Conn /\ failed' = failed
             \/ failed < MaxFail /\ item' = Stop /\ failed' = failed + 1
      BY <2>4 DEF Accept, IInv, TypeOK, Conn
    <3>2. /\ item = NoConn /\ NoConn # Stop /\ Stop \notin Conn
      BY <3>1 DEF IInv, MasterInv, NoConn, Stop, Conn
    <3>3. \A i : StopsBefore(i)' = StopsBefore(i)
      BY Zenon, <3>1 DEF StopsBefore
    <3>4. Len(queue) \in Nat /\ DOMAIN queue = 1 .. Len(queue)
      BY DEF IInv, TypeOK
    <3>5. Cardinality(StopsBefore(Len(queue) + 1)) \in Nat
      BY <3>4, StopsFinite
    <3>6. Cardinality(Exited) + Cardinality(StopsBefore(Len(queue) + 1)) <= failed
      BY <2>1, <3>1, <3>2, <3>5 DEF FailInv
    <3>7. Cardinality(Exited') + Cardinality(StopsBefore(Len(queue) + 1)')
               + (IF item' = Stop THEN 1 ELSE 0) <= failed'
      <4>1. StopsBefore(Len(queue) + 1)' = StopsBefore(Len(queue) + 1)
        BY Zenon, <3>1 DEF StopsBefore
      <4> QED BY <2>1, <3>1, <3>2, <3>5, <3>6, <4>1
    <3>8. ASSUME NEW i \in DOMAIN queue, queue[i] \in Conn
          PROVE  Cardinality(Exited') + Cardinality(StopsBefore(i)') <= failed'
      <4>1. Cardinality(Exited) + Cardinality(StopsBefore(i)) <= failed
        BY Zenon, <3>8 DEF FailInv
      <4>2. Cardinality(StopsBefore(i)) \in Nat
        BY <3>4, <3>8, StopsFinite
      <4> QED BY <2>1, <3>1, <3>3, <4>1, <4>2
    <3>9. failed' <= MaxFail
      BY <2>1, <3>1, DaemonAssumption DEF FailInv
    <3> QED BY Zenon, <3>1, <3>7, <3>8, <3>9 DEF FailInv
  <2>5. CASE /\ UNCHANGED <<item, queue, failed>>
             /\ master' \in {"create", "accept", "push"} => master \in {"create", "accept", "push"}
    BY Zenon, <2>1, <2>5 DEF FailInv, StopsBefore
  <2>6. CASE initialize \/ LeaveLoop \/ Join \/ UNCHANGED vars
    BY Zenon, <2>5, <2>6 DEF initialize, LeaveLoop, Join, vars
  <2>7. ASSUME NEW w \in Worker,
               Lookup(w) \/ Wait(w) \/ SpuriousWakeup(w) \/ Connect(w) \/ Serve(w)
        PROVE  FailInv'
    BY Zenon, <2>5, <2>7 DEF Lookup, Wait, SpuriousWakeup, Connect, Serve
  <2> QED BY Zenon, <1>2, <2>2, <2>3, <2>4, <2>6, <2>7 DEF Next, Master, WorkerStep, Quiet
<1> QED BY Zenon, <1>1, <1>2

(* Threads that have ended stay ended, and Join waits for them in order.   *)
LEMMA NextJoinInv ==
  ASSUME IInv, JoinInv, [Next]_vars
  PROVE  JoinInv'
<1>1. \A w \in Worker : wpc[w] = "exited" => wpc'[w] = "exited"
  <2>1. CASE \E w \in Worker : Take(w)
    BY Zenon, <2>1 DEF Take, IInv, TypeOK
  <2>2. CASE \A w \in Worker : ~Take(w)
    BY Zenon, <2>2, ExitedKept DEF Exited
  <2> QED BY Zenon, <2>1, <2>2
<1>2. CASE Join
  <2>1. /\ master = "join" /\ wpc' = wpc /\ step \in Worker /\ workers[step] = step
        /\ wpc[step] = "exited"
    BY Zenon, <1>2 DEF Join, IInv, MasterInv, SlotInv, Created
  <2>2. \A w \in Worker : w < step => wpc[w] = "exited"
    BY Zenon, <2>1 DEF JoinInv
  <2>3. CASE step < NumWorkers
    BY <1>2, <2>1, <2>2, <2>3, DaemonAssumption DEF Join, JoinInv, Worker
  <2>4. CASE ~(step < NumWorkers)
    BY <1>2, <2>1, <2>2, <2>4, DaemonAssumption DEF Join, JoinInv, Worker
  <2> QED BY Zenon, <2>3, <2>4
<1>3. CASE PushStop
  <2>1. master' = "stop" \/ (master' = "join" /\ step' = 1)
    BY Zenon, <1>3 DEF PushStop
  <2> QED BY <2>1, DaemonAssumption DEF JoinInv, Worker
<1>4. CASE master' \notin {"join", "done"} \/ UNCHANGED <<master, step>>
  BY Zenon, <1>1, <1>4 DEF JoinInv
<1>5. Join \/ PushStop \/ master' \notin {"join", "done"} \/ UNCHANGED <<master, step>>
  BY Zenon DEF Next, Master, WorkerStep, Quiet, initialize, Accept, masterRoutine, LeaveLoop, Lookup, Wait,
         SpuriousWakeup, Take, Connect, Serve, vars
<1> QED BY Zenon, <1>2, <1>3, <1>4, <1>5

(* Nothing has failed at first.                                            *)
LEMMA InitFailInv == Init => FailInv /\ JoinInv
<1> SUFFICES ASSUME Init PROVE FailInv /\ JoinInv
  BY Zenon
<1>1. Exited = {} /\ StopsBefore(Len(queue) + 1) = {} /\ item # Stop
  BY DEF Init, Exited, StopsBefore, NoConn, Stop
<1>2. Cardinality(Exited) = 0 /\ Cardinality(StopsBefore(Len(queue) + 1)) = 0
  BY Zenon, <1>1, FS_EmptySet
<1>3. failed = 0 /\ failed <= MaxFail /\ DOMAIN queue = {} /\ master = "create"
  BY DaemonAssumption DEF Init
<1> QED BY <1>1, <1>2, <1>3 DEF FailInv, JoinInv

(* As long as fewer accept() calls fail than there are workers, run()      *)
(* returns with every connection it accepted dealt with: no worker takes   *)
(* the -1 that is meant to stop it while a connection is queued, and a -1  *)
(* of a failed accept() leaves one worker to serve them.                   *)
THEOREM NoConnectionAbandoned ==
  ASSUME MaxFail < NumWorkers
  PROVE  Spec => []ServedBeforeReturn
<1>1. ASSUME IInv, AllConnInv, FailInv, JoinInv PROVE ServedBeforeReturn
  <2> SUFFICES ASSUME master = "done", NEW c \in open, c \notin finished PROVE FALSE
    BY Zenon DEF ServedBeforeReturn
  <2>1. \A w \in Worker : wpc[w] = "exited"
    BY Zenon, <1>1 DEF JoinInv
  <2>2. c \in Conn /\ item = NoConn
    BY Zenon, <1>1 DEF IInv, TypeOK, MasterInv
  <2>3. item # c /\ Holders(c) = {}
    BY <1>1, <2>1, <2>2 DEF IInv, HoldInv, Holders, Conn, NoConn
  <2>4. PICK i \in DOMAIN queue : queue[i] = c
    BY <1>1, <2>2, <2>3 DEF AllConnInv, ConnInv, Queued
  <2>5. Cardinality(Exited) + Cardinality(StopsBefore(i)) <= failed /\ failed <= MaxFail
    BY Zenon, <1>1, <2>2, <2>4 DEF FailInv
  <2>6. Exited = 1 .. NumWorkers
    BY Zenon, <2>1 DEF Exited, Worker
  <2>7. Cardinality(Exited) = NumWorkers
    BY <2>6, FS_Interval, DaemonAssumption
  <2>8. Cardinality(StopsBefore(i)) \in Nat /\ failed \in Nat
    BY <1>1, <2>4, StopsFinite DEF IInv, TypeOK
  <2> QED BY <2>5, <2>7, <2>8, DaemonAssumption
<1>2. Init => IInv /\ AllConnInv /\ FailInv /\ JoinInv
  BY Zenon, InitIInv, InitConnInv, InitFailInv DEF AllConnInv
<1>3. IInv /\ AllConnInv /\ FailInv /\ JoinInv /\ [Next]_vars
        => (IInv /\ AllConnInv /\ FailInv /\ JoinInv)'
  BY Zenon, NextIInv, NextConnInv, NextFailInv, NextJoinInv
<1> QED BY <1>1, <1>2, <1>3, PTL DEF Spec
=============================================================================

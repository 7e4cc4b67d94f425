----------------------------- MODULE HttpDaemon -----------------------------
(***************************************************************************)
(* The threads of HttpDaemon (src/apt/libhttpd/httpd.cpp): a master that   *)
(* accepts connections and queues them, and workers that serve them.       *)
(*                                                                         *)
(* pendingRequests is only touched with reqMutex held and each critical    *)
(* section is one step: nothing else can run between its lock and its      *)
(* unlock that would see it.  pthread_cond_wait releases the mutex, so it  *)
(* ends the step: a woken worker competes for the mutex again and checks   *)
(* the queue again.                                                        *)
(*                                                                         *)
(* A connection stands for the descriptor accept() returned; serving one   *)
(* (handleRequest) is one step here.                                       *)
(***************************************************************************)
EXTENDS Integers, Sequences, FiniteSets

CONSTANTS
  NumWorkers,    \* numWorkers
  NumRequests,   \* accept() calls the master makes: run(NumRequests), or the
                 \* bound on what start() gets to do
  MaxFail,       \* bound: how many of them fail
  Returns,       \* TRUE: run(), which stops the workers; FALSE: start()
  Tls            \* TRUE: sockets are SSLSocket; FALSE: HttpSocket

ASSUME DaemonAssumption ==
  /\ NumWorkers \in Nat \ {0}
  /\ NumRequests \in Nat
  /\ MaxFail \in Nat
  /\ Returns \in BOOLEAN
  /\ Tls \in BOOLEAN

Worker == 1 .. NumWorkers
Conn == 1 .. NumRequests
NoConn == 0
Stop == -1           \* a negative descriptor in the queue
NoThread == 0        \* no thread's pthread_t

VARIABLES
  master,    \* "create", "accept", "push", "stop", "join", "done"
  step,      \* loop counter of the master's current loop
  item,      \* what accept() returned, until it is pushed
  queue,     \* pendingRequests
  workers,   \* workers[]: the pthread_t stored in each slot
  wpc,       \* wpc[w]: where thread w is
  tid,       \* tid[w]: the slot thread w found itself in
  cur,       \* cur[w]: the connection in its hands
  open,      \* descriptors accepted and not closed
  finished,  \* connections the daemon is done with
  failed     \* how many accept() calls failed

vars == <<master, step, item, queue, workers, wpc, tid, cur, open, finished, failed>>

(* workers[] is not initialized: its slots may hold any value, an old      *)
(* thread's identifier included.                                           *)
Init ==
  /\ master = "create" /\ step = 1 /\ item = NoConn
  /\ queue = <<>>
  /\ workers \in [Worker -> Worker \cup {NoThread}]
  /\ wpc = [w \in Worker |-> "unborn"]
  /\ tid = [w \in Worker |-> NoThread]
  /\ cur = [w \in Worker |-> NoConn]
  /\ open = {} /\ finished = {} /\ failed = 0

-----------------------------------------------------------------------------
(* Mutant: every thread's identifier is stored in the first slot.          *)
PthreadCreate_OneSlot(i) ==
  /\ workers' = [workers EXCEPT ![1] = i]
  /\ wpc' = [wpc EXCEPT ![i] = "lookup"]

(* pthread_create stores the new thread's identifier before it lets the    *)
(* thread run, as glibc's does.                                            *)
PthreadCreate(i) ==
  /\ workers' = [workers EXCEPT ![i] = i]
  /\ wpc' = [wpc EXCEPT ![i] = "lookup"]

initialize ==
  /\ master = "create"
  /\ PthreadCreate(step)
  /\ IF step < NumWorkers
     THEN step' = step + 1 /\ UNCHANGED master
     ELSE step' = 1 /\ master' = "accept"
  /\ UNCHANGED <<item, queue, tid, cur, open, finished, failed>>

(* accept() returns a new descriptor or -1.                                *)
Accept ==
  /\ master = "accept"
  /\ step <= NumRequests
  /\ \/ item' = step /\ open' = open \cup {step} /\ UNCHANGED failed
     \/ failed < MaxFail /\ item' = Stop /\ failed' = failed + 1 /\ UNCHANGED open
  /\ master' = "push"
  /\ UNCHANGED <<step, queue, workers, wpc, tid, cur, finished>>

(* pthread_cond_signal wakes one waiter, if there is one.                  *)
Signal ==
  LET waiting == {w \in Worker : wpc[w] = "wait"}
  IN IF waiting = {} THEN UNCHANGED wpc
     ELSE \E w \in waiting : wpc' = [wpc EXCEPT ![w] = "lock"]

(* The rest of masterRoutine: whatever accept() returned is queued.        *)
masterRoutine ==
  /\ master = "push"
  /\ queue' = Append(queue, item)
  /\ Signal
  /\ item' = NoConn
  /\ step' = step + 1
  /\ master' = "accept"
  /\ UNCHANGED <<workers, tid, cur, open, finished, failed>>

(* run() leaves the accept loop; start() stays in accept().                *)
LeaveLoop ==
  /\ Returns
  /\ master = "accept"
  /\ step > NumRequests
  /\ master' = "stop" /\ step' = 1
  /\ UNCHANGED <<item, queue, workers, wpc, tid, cur, open, finished, failed>>

(* Mutant: a -1 overtakes the connections in the queue.                    *)
PushStop_Front ==
  /\ master = "stop"
  /\ queue' = <<Stop>> \o queue
  /\ Signal
  /\ IF step < NumWorkers
     THEN step' = step + 1 /\ UNCHANGED master
     ELSE step' = 1 /\ master' = "join"
  /\ UNCHANGED <<item, workers, tid, cur, open, finished, failed>>

(* Mutant: the workers are not woken up to stop.                           *)
PushStop_NoSignal ==
  /\ master = "stop"
  /\ queue' = Append(queue, Stop)
  /\ IF step < NumWorkers
     THEN step' = step + 1 /\ UNCHANGED master
     ELSE step' = 1 /\ master' = "join"
  /\ UNCHANGED <<item, workers, wpc, tid, cur, open, finished, failed>>

(* run(): one -1 for each worker, then join them in order.                 *)
PushStop ==
  /\ master = "stop"
  /\ queue' = Append(queue, Stop)
  /\ Signal
  /\ IF step < NumWorkers
     THEN step' = step + 1 /\ UNCHANGED master
     ELSE step' = 1 /\ master' = "join"
  /\ UNCHANGED <<item, workers, tid, cur, open, finished, failed>>

Join ==
  /\ master = "join"
  /\ wpc[workers[step]] = "exited"
  /\ IF step < NumWorkers
     THEN step' = step + 1 /\ UNCHANGED master
     ELSE UNCHANGED step /\ master' = "done"
  /\ UNCHANGED <<item, queue, workers, wpc, tid, cur, open, finished, failed>>

-----------------------------------------------------------------------------
(* The thread looks for its own identifier in workers[]; http_assert stops *)
(* the process if it is not there.                                         *)
Lookup(w) ==
  /\ wpc[w] = "lookup"
  /\ LET slots == {i \in Worker : workers[i] = w}
     IN IF slots = {}
        THEN wpc' = [wpc EXCEPT ![w] = "assert"] /\ UNCHANGED tid
        ELSE /\ tid' = [tid EXCEPT ![w] = CHOOSE i \in slots : \A j \in slots : i <= j]
             /\ wpc' = [wpc EXCEPT ![w] = "lock"]
  /\ UNCHANGED <<master, step, item, queue, workers, cur, open, finished, failed>>

Wait(w) ==
  /\ wpc[w] = "lock"
  /\ queue = <<>>
  /\ wpc' = [wpc EXCEPT ![w] = "wait"]
  /\ UNCHANGED <<master, step, item, queue, workers, tid, cur, open, finished, failed>>

(* pthread_cond_wait may return without a signal.                          *)
SpuriousWakeup(w) ==
  /\ wpc[w] = "wait"
  /\ wpc' = [wpc EXCEPT ![w] = "lock"]
  /\ UNCHANGED <<master, step, item, queue, workers, tid, cur, open, finished, failed>>

(* Mutant: pop_front is forgotten.                                         *)
Take_NoPop(w) ==
  /\ wpc[w] = "lock"
  /\ queue # <<>>
  /\ IF Head(queue) = Stop
     THEN wpc' = [wpc EXCEPT ![w] = "exited"] /\ UNCHANGED cur
     ELSE wpc' = [wpc EXCEPT ![w] = "connect"] /\ cur' = [cur EXCEPT ![w] = Head(queue)]
  /\ UNCHANGED <<master, step, item, queue, workers, tid, open, finished, failed>>

(* Take the front of the queue: a connection, or a -1 that ends the thread.*)
Take(w) ==
  /\ wpc[w] = "lock"
  /\ queue # <<>>
  /\ queue' = Tail(queue)
  /\ IF Head(queue) = Stop
     THEN wpc' = [wpc EXCEPT ![w] = "exited"] /\ UNCHANGED cur
     ELSE wpc' = [wpc EXCEPT ![w] = "connect"] /\ cur' = [cur EXCEPT ![w] = Head(queue)]
  /\ UNCHANGED <<master, step, item, workers, tid, open, finished, failed>>

(* Socket::close.  SSLSocket's frees the session and leaves the descriptor.*)
Close(w) == open' = IF Tls THEN open ELSE open \ {cur[w]}

(* Mutants: the thread ends with its connection; the socket object keeps   *)
(* its connection.                                                         *)
Drop_Exit(w) ==
  /\ Close(w)
  /\ finished' = finished \cup {cur[w]}
  /\ cur' = [cur EXCEPT ![w] = NoConn]
  /\ wpc' = [wpc EXCEPT ![w] = "exited"]

Drop_KeepConn(w) ==
  /\ Close(w)
  /\ finished' = finished \cup {cur[w]}
  /\ UNCHANGED cur
  /\ wpc' = [wpc EXCEPT ![w] = "lock"]

Drop(w) ==
  /\ Close(w)
  /\ finished' = finished \cup {cur[w]}
  /\ cur' = [cur EXCEPT ![w] = NoConn]
  /\ wpc' = [wpc EXCEPT ![w] = "lock"]

(* setConnectFd: an HttpSocket always connects, an SSLSocket performs the  *)
(* handshake, which may fail.                                              *)
Connect(w) ==
  /\ wpc[w] = "connect"
  /\ \/ wpc' = [wpc EXCEPT ![w] = "serve"] /\ UNCHANGED <<cur, open, finished>>
     \/ Tls /\ Drop(w)
  /\ UNCHANGED <<master, step, item, queue, workers, tid, failed>>

(* handleRequest ends in socket.close().                                   *)
Serve(w) ==
  /\ wpc[w] = "serve"
  /\ Drop(w)
  /\ UNCHANGED <<master, step, item, queue, workers, tid, failed>>

(* After run() returns, or with every thread asleep under start().         *)
Quiet ==
  /\ \/ master = "done"
     \/ ~Returns /\ master = "accept" /\ step > NumRequests
  /\ UNCHANGED vars

Master == initialize \/ Accept \/ masterRoutine \/ LeaveLoop \/ PushStop \/ Join
WorkerStep(w) == Lookup(w) \/ Wait(w) \/ Take(w) \/ Connect(w) \/ Serve(w)

Next == Master \/ (\E w \in Worker : WorkerStep(w) \/ SpuriousWakeup(w)) \/ Quiet

(* Threads are scheduled.  The handlers return; the 30 s socket timeouts   *)
(* bound handleRequest.  They are set after setConnectFd, so a TLS         *)
(* handshake has no bound.  A worker that keeps asking for the mutex gets  *)
(* it (the others sleep or are busy meanwhile).                            *)
Fairness ==
  /\ WF_vars(Master)
  /\ \A w \in Worker :
       /\ WF_vars(Lookup(w) \/ Wait(w) \/ Serve(w))
       /\ WF_vars(Take(w))
       /\ WF_vars(~Tls /\ Connect(w))

Spec == Init /\ [][Next]_vars
FairSpec == Spec /\ Fairness

-----------------------------------------------------------------------------
(* The shape of the daemon's state.                                        *)
TypeOK ==
  /\ master \in {"create", "accept", "push", "stop", "join", "done"}
  /\ step \in Nat \ {0}
  /\ item \in Conn \cup {NoConn, Stop}
  /\ queue \in Seq(Conn \cup {Stop})
  /\ workers \in [Worker -> Worker \cup {NoThread}]
  /\ wpc \in [Worker -> {"unborn", "lookup", "assert", "lock", "wait", "connect",
                         "serve", "exited"}]
  /\ tid \in [Worker -> Worker \cup {NoThread}]
  /\ cur \in [Worker -> Conn \cup {NoConn}]
  /\ open \subseteq Conn /\ finished \subseteq Conn /\ failed \in Nat

Queued(c) == {i \in DOMAIN queue : queue[i] = c}
Holders(c) == {w \in Worker : cur[w] = c}

(* A connection is in one place at a time: with the master, at one place   *)
(* of the queue, or with one worker, and in none of these once it is       *)
(* finished.  Two workers never serve the same descriptor.                 *)
OnePlace ==
  \A c \in Conn :
    /\ \A i, j \in Queued(c) : i = j
    /\ \A v, w \in Holders(c) : v = w
    /\ item = c => Queued(c) = {} /\ Holders(c) = {} /\ c \notin finished
    /\ Queued(c) # {} => Holders(c) = {} /\ c \notin finished
    /\ Holders(c) # {} => c \notin finished

(* No accepted connection is mislaid, and the daemon holds no descriptor   *)
(* of a connection it is done with (an HttpSocket's).                      *)
NoneMislaid ==
  /\ \A c \in open \ finished : item = c \/ Queued(c) # {} \/ Holders(c) # {}
  /\ ~Tls => open \cap finished = {}

(* Every accepted connection is in exactly one place until it is finished, *)
(* and in none after, whatever the interleaving of master and workers.     *)
Accounted == OnePlace /\ NoneMislaid

(* Every worker finds itself in workers[] and no two find the same slot,   *)
(* whatever the slots held before: readers[tid] and the socket object of   *)
(* tid are one thread's own.                                               *)
OwnSlot ==
  /\ \A w \in Worker : wpc[w] # "assert"
  /\ \A v, w \in Worker :
       v # w /\ tid[v] # NoThread => tid[v] # tid[w]

(* When run() returns, every connection it accepted has been dealt with:   *)
(* the -1 of a failed accept() ends a worker, but one worker is left as    *)
(* long as fewer than numWorkers accepts fail.                             *)
ServedBeforeReturn ==
  master = "done" => open \subseteq finished

(* run() returns: every worker gets a -1 and no wake-up is lost.           *)
RunReturns == Returns => <>(master = "done")

(* Every accepted connection is eventually dealt with.                     *)
EventuallyServed == \A c \in Conn : (c \in open) ~> (c \in finished)

(* The daemon implements Dispatch.                                         *)
StageOf(c) ==
  IF c \in finished THEN "finished"
  ELSE IF Holders(c) # {} THEN "taken"
  ELSE IF item = c \/ Queued(c) # {} THEN "pending"
  ELSE "none"

D == INSTANCE Dispatch WITH stage <- [c \in Conn |-> StageOf(c)], holder <- cur

(* Whatever the interleaving, a connection goes from accepted to taken to  *)
(* finished, once, and a worker has at most one.                           *)
ImplementsDispatch == D!Spec
=============================================================================

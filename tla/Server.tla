-------------------------------- MODULE Server --------------------------------
(***************************************************************************)
(* The threads of server.c: the connection handler around select, the      *)
(* workers around the queue clients_pending, and the main thread that waits *)
(* for a signal and then stops the others.                                 *)
(*                                                                         *)
(* Granularity.  A step is what a thread does between two accesses to data *)
(* it shares: quit_signal, clients_count, clients_pending with its         *)
(* condition variable, and the pipe.  clients_set_connected is touched by  *)
(* the connection handler only.  threads_must_close reads the signal and   *)
(* then the count; the signal changes once, so both reads are one step.    *)
(*                                                                         *)
(* Clients are numbered in the order they are accepted.  That is the order *)
(* of their fds, because the fd of a client that left is not closed.  What *)
(* a request does is the subject of FileStorage; here serving one ends.    *)
(***************************************************************************)
EXTENDS Integers, Sequences, FiniteSets

CONSTANTS
  NClients,   \* how many clients connect during a behaviour
  Workers     \* the worker threads

ASSUME ServerAssumption ==
  /\ NClients \in Nat
  /\ IsFiniteSet(Workers) /\ Workers # {}

Clients == 1 .. NClients
NoFd    == 0

VARIABLES
  quit,       \* quit_signal
  mainPc,     \* the main thread
  pipe,       \* what the connection handler has not read from its pipe
  count,      \* clients_count, as the int it is compared as
  pending,    \* clients_pending
  workerPc,   \* where each worker is; "asleep" is inside COND_WAIT
  workerFd,   \* client_pending of each worker
  handlerPc,  \* the connection handler, and its local variables:
  fdset,      \*   clients_set_connected, without the socket and the pipe
  ready,      \*   the fds of current_set the scan has not passed
  res,        \*   what is left of the result of select
  nClients,   \*   n_clients, -1 while not loaded
  nStart,     \*   n_clients_start
  soft,       \*   soft_close_in_progress
  conn        \* the connection of each client: see ConnStates

mainVars    == <<quit, mainPc>>
workerVars  == <<workerPc, workerFd>>
handlerVars == <<handlerPc, fdset, ready, res, nClients, nStart, soft>>
vars        == <<mainVars, pipe, count, pending, workerVars, handlerVars, conn>>

\* none, backlog: not yet accepted; idle: no request; request: a request was
\* sent; half: the client died after the first byte of one; eof: the client
\* closed and the server did not notice; left: the server noticed.
ConnStates == {"none", "backlog", "idle", "request", "half", "eof", "left"}
Connected  == {k \in Clients : conn[k] \in {"idle", "request", "half", "eof"}}

AddClient(k) == [type |-> "R_ADD_CLIENT", fd |-> k, sgn |-> "none"]
CheckFlag(s) == [type |-> "R_CHECK_FLAG", fd |-> NoFd, sgn |-> s]
Notifications == {AddClient(k) : k \in Clients} \cup {CheckFlag(s) : s \in {"soft", "fast"}}

\* threads_must_close
MustClose == quit = "fast" \/ (quit = "soft" /\ count <= 0)

-------------------------------------------------------------------------------
(* The workers: handle_client_requests.                                    *)

\* while(!threads_must_close())
WorkerCheck(w) ==
  /\ workerPc[w] = "check"
  /\ workerPc' = [workerPc EXCEPT ![w] = IF MustClose THEN "done" ELSE "lock"]
  /\ UNCHANGED <<mainVars, pipe, count, pending, workerFd, handlerVars, conn>>

\* Seeded fault: the fd is read but not taken off the queue.
TakesNotOff(w) ==
  IF pending = << >>
  THEN /\ workerPc' = [workerPc EXCEPT ![w] = "asleep"]
       /\ UNCHANGED <<pending, workerFd>>
  ELSE /\ workerPc' = [workerPc EXCEPT ![w] = "serve"]
       /\ workerFd' = [workerFd EXCEPT ![w] = Head(pending)]
       /\ UNCHANGED pending

\* Holding the mutex of the queue: take the first fd, or sleep.
Takes(w) ==
  IF pending = << >>
  THEN /\ workerPc' = [workerPc EXCEPT ![w] = "asleep"]
       /\ UNCHANGED <<pending, workerFd>>
  ELSE /\ workerPc' = [workerPc EXCEPT ![w] = "serve"]
       /\ workerFd' = [workerFd EXCEPT ![w] = Head(pending)]
       /\ pending' = Tail(pending)

WorkerLock(w) ==
  /\ workerPc[w] = "lock"
  /\ Takes(w)
  /\ UNCHANGED <<mainVars, pipe, count, handlerVars, conn>>

\* Back from COND_WAIT, with the mutex: quit, or look at the queue again.
WorkerWoken(w) ==
  /\ workerPc[w] = "woken"
  /\ \/ /\ MustClose
        /\ workerPc' = [workerPc EXCEPT ![w] = "done"]
        /\ UNCHANGED <<pending, workerFd>>
     \/ ~MustClose /\ Takes(w)
  /\ UNCHANGED <<mainVars, pipe, count, handlerVars, conn>>

\* A condition variable may wake a thread without a signal.
SpuriousWakeup(w) ==
  /\ workerPc[w] = "asleep"
  /\ workerPc' = [workerPc EXCEPT ![w] = "woken"]
  /\ UNCHANGED <<mainVars, pipe, count, pending, workerFd, handlerVars, conn>>

\* The request is handled, or its client turns out to be gone.  In that case
\* the worker takes the client off the count and the handler is not notified.
WorkerServe(w) ==
  LET k == workerFd[w] IN
  /\ workerPc[w] = "serve"
  /\ \/ /\ conn[k] = "request"
        /\ conn' = [conn EXCEPT ![k] = "idle"]
        /\ workerPc' = [workerPc EXCEPT ![w] = "notify"]
        /\ UNCHANGED <<count, workerFd>>
     \/ /\ conn[k] = "half"
        /\ conn' = [conn EXCEPT ![k] = "left"]
        /\ count' = count - 1
        /\ workerPc' = [workerPc EXCEPT ![w] = "check"]
        /\ workerFd' = [workerFd EXCEPT ![w] = NoFd]
  /\ UNCHANGED <<mainVars, pipe, pending, handlerVars>>

\* Seeded fault: after a request the fd is not given back.
WorkerNotifyNot(w) ==
  /\ workerPc[w] = "notify"
  /\ workerPc' = [workerPc EXCEPT ![w] = "check"]
  /\ workerFd' = [workerFd EXCEPT ![w] = NoFd]
  /\ UNCHANGED <<mainVars, pipe, count, pending, handlerVars, conn>>

\* The fd goes back to the connection handler.
WorkerNotify(w) ==
  /\ workerPc[w] = "notify"
  /\ pipe' = Append(pipe, AddClient(workerFd[w]))
  /\ workerPc' = [workerPc EXCEPT ![w] = "check"]
  /\ workerFd' = [workerFd EXCEPT ![w] = NoFd]
  /\ UNCHANGED <<mainVars, count, pending, handlerVars, conn>>

-------------------------------------------------------------------------------
(* The connection handler: handle_connections.                             *)

Readable(k) == conn[k] \in {"request", "half", "eof", "left"}
Backlog     == {k \in Clients : conn[k] = "backlog"}

HandlerCheck ==
  /\ handlerPc = "check"
  /\ handlerPc' = IF MustClose THEN "done" ELSE "select"
  /\ UNCHANGED <<mainVars, pipe, count, pending, workerVars,
                 fdset, ready, res, nClients, nStart, soft, conn>>

\* select returns, and if the pipe is among the ready fds one notification is
\* read from it; with nothing else ready the loop starts over.
HandlerSelect ==
  LET clients == {k \in fdset : Readable(k)}
      others  == Cardinality(clients) + (IF Backlog # {} THEN 1 ELSE 0)
  IN
  /\ handlerPc = "select"
  /\ pipe # << >> \/ others > 0
  /\ ready' = clients
  /\ res' = others
  /\ nClients' = -1 /\ nStart' = -1
  /\ IF pipe = << >>
     THEN handlerPc' = "accept" /\ UNCHANGED <<pipe, fdset, soft>>
     ELSE LET m == Head(pipe) IN
          /\ pipe' = Tail(pipe)
          /\ fdset' = IF m.type = "R_ADD_CLIENT" THEN fdset \cup {m.fd} ELSE fdset
          /\ soft' = (soft \/ m.sgn = "soft")
          /\ handlerPc' = IF m.sgn = "fast" THEN "done"
                          ELSE IF others = 0 THEN "check" ELSE "accept"
  /\ UNCHANGED <<mainVars, count, pending, workerVars, conn>>

\* The backlog was not empty when select returned.
ListenReady == res > Cardinality(ready)

\* The next client in the backlog is accepted, and the count is loaded; or,
\* once a soft close is in progress, it is turned away.
HandlerAccept ==
  /\ handlerPc = "accept"
  /\ handlerPc' = "scan"
  /\ IF ~ListenReady
     THEN UNCHANGED <<conn, fdset, res, nClients, nStart>>
     ELSE LET k == CHOOSE i \in Backlog : \A j \in Backlog : i <= j IN
          /\ res' = res - 1
          /\ IF soft
             THEN /\ conn' = [conn EXCEPT ![k] = "left"]
                  /\ UNCHANGED <<fdset, nClients, nStart>>
             ELSE /\ conn' = [conn EXCEPT ![k] = "idle"]
                  /\ fdset' = fdset \cup {k}
                  /\ nStart' = count
                  /\ nClients' = count + 1
  /\ UNCHANGED <<mainVars, pipe, count, pending, workerVars, ready, soft>>

\* The largest ready fd is looked at next.
Highest(S) == CHOOSE k \in S : \A j \in S : j <= k

\* The fd reads as closed.  The scan does not move on from it: while something
\* is left of res it is found closed, and taken off the count, again.
ScanDisconnected(k) ==
  LET start == IF nClients = -1 THEN count ELSE nStart
      n     == IF nClients = -1 THEN count ELSE nClients
  IN
  /\ conn[k] \in {"eof", "left"}
  /\ conn' = [conn EXCEPT ![k] = "left"]
  /\ nStart' = start
  /\ nClients' = n - 1
  /\ UNCHANGED <<ready, pending, workerPc>>

\* Seeded fault: the signal is sent when the queue was not empty.
EnqueuesLateSignal(k) ==
  /\ pending' = Append(pending, k)
  /\ LET asleep == {w \in Workers : workerPc[w] = "asleep"} IN
     IF pending # << >> /\ asleep # {}
     THEN \E w \in asleep : workerPc' = [workerPc EXCEPT ![w] = "woken"]
     ELSE UNCHANGED workerPc

\* enqueue, and COND_SIGNAL if the queue was empty: some sleeper wakes up.
Enqueues(k) ==
  /\ pending' = Append(pending, k)
  /\ LET asleep == {w \in Workers : workerPc[w] = "asleep"} IN
     IF pending = << >> /\ asleep # {}
     THEN \E w \in asleep : workerPc' = [workerPc EXCEPT ![w] = "woken"]
     ELSE UNCHANGED workerPc

ScanRequest(k) ==
  /\ conn[k] \in {"request", "half"}
  /\ Enqueues(k)
  /\ ready' = ready \ {k}
  /\ UNCHANGED <<conn, nClients, nStart>>

HandlerScan ==
  /\ handlerPc = "scan"
  /\ res > 0 /\ ready # {}
  /\ LET k == Highest(ready) IN
     /\ fdset' = fdset \ {k}
     /\ res' = res - 1
     /\ ScanDisconnected(k) \/ ScanRequest(k)
  /\ UNCHANGED <<mainVars, pipe, count, workerFd, handlerPc, soft>>

\* The end of the loop body, if the number of clients changed: what workers
\* took off the shared count since it was loaded comes off the local one, and
\* then, in a section of its own, the shared count is overwritten.
HandlerRecount ==
  /\ handlerPc = "scan"
  /\ res = 0 \/ ready = {}
  /\ IF nClients > -1
     THEN handlerPc' = "commit" /\ nClients' = nClients - (nStart - count)
     ELSE handlerPc' = "check" /\ UNCHANGED nClients
  /\ UNCHANGED <<mainVars, pipe, count, pending, workerVars,
                 fdset, ready, res, nStart, soft, conn>>

\* Seeded fault: the shared count is only ever raised.
HandlerCommitMore ==
  /\ handlerPc = "commit"
  /\ count' = IF nClients > count THEN nClients ELSE count
  /\ handlerPc' = "check"
  /\ UNCHANGED <<mainVars, pipe, pending, workerVars,
                 fdset, ready, res, nClients, nStart, soft, conn>>

HandlerCommit ==
  /\ handlerPc = "commit"
  /\ count' = nClients
  /\ handlerPc' = "check"
  /\ UNCHANGED <<mainVars, pipe, pending, workerVars,
                 fdset, ready, res, nClients, nStart, soft, conn>>

-------------------------------------------------------------------------------
(* The main thread: server_wait_end_signal and server_join_threads.        *)

\* Seeded fault: the signal stays in local_quit_signal.
MainSignalLocal(s) ==
  /\ mainPc = "wait"
  /\ mainPc' = "notify"
  /\ UNCHANGED <<quit, pipe, count, pending, workerVars, handlerVars, conn>>

\* SIGHUP is soft, SIGINT and SIGQUIT are fast.
MainSignal(s) ==
  /\ mainPc = "wait"
  /\ quit' = s
  /\ mainPc' = "notify"
  /\ UNCHANGED <<pipe, count, pending, workerVars, handlerVars, conn>>

\* Seeded fault: the handler is joined without a notification.
MainNotifyNot ==
  /\ mainPc = "notify"
  /\ mainPc' = "join"
  /\ UNCHANGED <<quit, pipe, count, pending, workerVars, handlerVars, conn>>

MainNotify ==
  /\ mainPc = "notify"
  /\ pipe' = Append(pipe, CheckFlag(quit))
  /\ mainPc' = "join"
  /\ UNCHANGED <<quit, count, pending, workerVars, handlerVars, conn>>

\* The handler is joined, then every worker asleep at that moment is woken.
MainBroadcast ==
  /\ mainPc = "join"
  /\ handlerPc = "done"
  /\ workerPc' = [w \in Workers |-> IF workerPc[w] = "asleep" THEN "woken" ELSE workerPc[w]]
  /\ mainPc' = "joinWorkers"
  /\ UNCHANGED <<quit, pipe, count, pending, workerFd, handlerVars, conn>>

MainEnd ==
  /\ mainPc = "joinWorkers"
  /\ \A w \in Workers : workerPc[w] = "done"
  /\ mainPc' = "done"
  /\ UNCHANGED <<quit, pipe, count, pending, workerVars, handlerVars, conn>>

-------------------------------------------------------------------------------
(* The clients.                                                            *)

ClientStep(k, from, to) ==
  /\ conn[k] = from
  /\ conn' = [conn EXCEPT ![k] = to]
  /\ UNCHANGED <<mainVars, pipe, count, pending, workerVars, handlerVars>>

Connect(k) ==
  /\ \A j \in 1 .. k - 1 : conn[j] # "none"
  /\ ClientStep(k, "none", "backlog")

SendRequest(k) == ClientStep(k, "idle", "request")
ClientExit(k)  == ClientStep(k, "idle", "eof")

\* The client is killed between the two writes that start a request.
ClientKilled(k) == ClientStep(k, "request", "half")

Init ==
  /\ quit = "none" /\ mainPc = "wait"
  /\ pipe = << >> /\ count = 0 /\ pending = << >>
  /\ workerPc = [w \in Workers |-> "check"]
  /\ workerFd = [w \in Workers |-> NoFd]
  /\ handlerPc = "check" /\ fdset = {} /\ ready = {} /\ res = 0
  /\ nClients = -1 /\ nStart = -1 /\ soft = FALSE
  /\ conn = [k \in Clients |-> "none"]

WorkerStep(w) == WorkerCheck(w) \/ WorkerLock(w) \/ WorkerWoken(w)
                   \/ WorkerServe(w) \/ WorkerNotify(w)

HandlerStep == HandlerCheck \/ HandlerSelect \/ HandlerAccept \/ HandlerScan
                 \/ HandlerRecount \/ HandlerCommit

MainStep == MainNotify \/ MainBroadcast \/ MainEnd

Next ==
  \/ \E w \in Workers : WorkerStep(w) \/ SpuriousWakeup(w)
  \/ HandlerStep
  \/ MainStep
  \/ \E s \in {"soft", "fast"} : MainSignal(s)
  \/ \E k \in Clients : Connect(k) \/ SendRequest(k) \/ ClientExit(k) \/ ClientKilled(k)

Spec == Init /\ [][Next]_vars

\* Every thread that can run does.  Nothing makes a client act, a signal come
\* or a condition variable wake a thread by itself.
Fairness ==
  /\ \A w \in Workers : WF_vars(WorkerStep(w))
  /\ WF_vars(HandlerStep) /\ WF_vars(MainStep)

FairSpec == Spec /\ Fairness

-------------------------------------------------------------------------------
(* Properties.                                                             *)

\* Every variable has its type.
TypeOK ==
  /\ quit \in {"none", "soft", "fast"}
  /\ mainPc \in {"wait", "notify", "join", "joinWorkers", "done"}
  /\ pipe \in Seq(Notifications)
  /\ count \in Int
  /\ pending \in Seq(Clients)
  /\ workerPc \in [Workers -> {"check", "lock", "asleep", "woken", "serve", "notify", "done"}]
  /\ workerFd \in [Workers -> Clients \cup {NoFd}]
  /\ handlerPc \in {"check", "select", "accept", "scan", "commit", "done"}
  /\ fdset \subseteq Clients /\ ready \subseteq Clients
  /\ res \in Nat /\ nClients \in Int /\ nStart \in Int
  /\ soft \in BOOLEAN
  /\ conn \in [Clients -> ConnStates]

\* How often client k is being looked after: by select, by the queue of
\* requests, by a worker, or on its way back through the pipe.
Holders(k) ==
  (IF k \in fdset THEN 1 ELSE 0)
    + Cardinality({i \in 1 .. Len(pending) : pending[i] = k})
    + Cardinality({w \in Workers : workerFd[w] = k})
    + Cardinality({i \in 1 .. Len(pipe) : pipe[i].fd = k})

\* The fd of a connected client is in exactly one place, so that no request is
\* read by two workers or by a worker and the handler, and no client is lost;
\* that of a client whose end was noticed is nowhere.
OneHolder ==
  \A k \in Clients : Holders(k) = IF k \in Connected THEN 1 ELSE 0

\* The handler signals only when the queue was empty, yet the requests behind
\* the first do not stay while all the workers sleep.
NoStrandedRequest ==
  pending # << >> /\ quit = "none"
    => \E w \in Workers : workerPc[w] \notin {"asleep", "done"}

\* The request of every client is served while nobody stops the server.
RequestServed ==
  \A k \in Clients : conn[k] = "request" ~> (conn[k] # "request" \/ quit # "none")

\* A fast close always gets through to the connection handler, also out of
\* select: that is what the notification in the pipe is for.
FastCloseStopsHandler == quit = "fast" ~> handlerPc = "done"

\* A soft close ends when the last client has left, also if it left before the
\* signal came, or while the handler was in select, or in the same round as
\* another.  This needs that no client is killed in the middle of a request:
\* the worker that finds out takes it off the count and nobody tells the
\* handler, which then sleeps in select (WorkerServe).
SoftCloseEnds ==
  [](\A k \in Clients : conn[k] # "half")
    => (quit = "soft" ~> (handlerPc = "done" \/ Connected # {}))

-------------------------------------------------------------------------------
(* Properties the source states and the code does not have.                *)

\* server.c, threads_must_close: a soft close ends with no clients connected.
SoftCloseWaits == handlerPc = "done" /\ quit = "soft" => Connected = {}

\* server.c, handle_client_requests: the workers stop once the signal is S_FAST.
FastCloseStopsWorkers ==
  \A w \in Workers : quit = "fast" ~> workerPc[w] = "done"

==============================================================================

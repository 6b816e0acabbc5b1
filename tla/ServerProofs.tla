----------------------------- MODULE ServerProofs -----------------------------
(***************************************************************************)
(* The path of an fd through server.c, for any number of clients and of    *)
(* workers: types, one holder for each fd, and no request left behind.     *)
(***************************************************************************)
EXTENDS Server, FiniteSetTheorems, SequenceTheorems, WellFoundedInduction,
        NaturalsInduction, TLAPS

-------------------------------------------------------------------------------
(* Counting.  Holders adds up four counts; each has a name here, so that   *)
(* what a step does to one of them can be said of its value.               *)

Selected(set, k) == IF k \in set THEN 1 ELSE 0
Places(s, k)     == {i \in 1 .. Len(s) : s[i] = k}
Times(s, k)      == Cardinality(Places(s, k))
Busy(fds, k)     == {w \in Workers : fds[w] = k}
Serving(fds, k)  == Cardinality(Busy(fds, k))
Fds(p)           == [i \in 1 .. Len(p) |-> p[i].fd]
Same(x, k)       == IF x = k THEN 1 ELSE 0

\* The places of k in a queue, and how many they are.
LEMMA TimesType ==
  ASSUME NEW S, NEW s \in Seq(S), NEW k
  PROVE  /\ IsFiniteSet(Places(s, k))
         /\ Times(s, k) \in Nat
         /\ Times(s, k) = 0 <=> \A i \in 1 .. Len(s) : s[i] # k
<1>1. IsFiniteSet(1 .. Len(s))
  BY FS_Interval
<1>2. Places(s, k) \in SUBSET (1 .. Len(s))
  BY DEF Places
<1>3. IsFiniteSet(Places(s, k))
  BY <1>1, <1>2, FS_Subset
<1>4. Times(s, k) = 0 <=> Places(s, k) = {}
  BY <1>3, FS_EmptySet DEF Times
<1> QED
  BY <1>3, <1>4, FS_CardinalityType DEF Times, Places

\* One more at the end.
LEMMA TimesAppend ==
  ASSUME NEW S, NEW s \in Seq(S), NEW x \in S, NEW k
  PROVE  Times(Append(s, x), k) = Times(s, k) + Same(x, k)
<1> DEFINE t == Append(s, x)
           n == Len(s) + 1
<1>1. /\ Len(t) = n /\ t[n] = x
      /\ \A i \in 1 .. Len(s) : t[i] = s[i]
  BY AppendProperties
<1>2. Len(s) \in Nat
  OBVIOUS
<1> HIDE DEF t
<1>3. n \notin Places(s, k)
  BY <1>2 DEF Places
<1>4. ASSUME x = k
      PROVE  Places(t, k) = Places(s, k) \cup {n}
  BY <1>1, <1>2, <1>4 DEF Places
<1>5. ASSUME x # k
      PROVE  Places(t, k) = Places(s, k)
  BY <1>1, <1>2, <1>5 DEF Places
<1> HIDE DEF n
<1>6. CASE x = k
  BY <1>3, <1>4, <1>6, TimesType, FS_AddElement DEF Times, Same, t
<1>7. CASE x # k
  BY <1>5, <1>7, TimesType DEF Times, Same, t
<1> QED
  BY <1>6, <1>7

\* One less at the front: the other places move up by one.
LEMMA TimesTail ==
  ASSUME NEW S, NEW s \in Seq(S), s # << >>, NEW k
  PROVE  Times(Tail(s), k) = Times(s, k) - Same(Head(s), k)
<1> DEFINE t == Tail(s)
           later == Places(s, k) \ {1}
<1>1. /\ t \in Seq(S) /\ Len(t) = Len(s) - 1
      /\ \A i \in 1 .. Len(t) : t[i] = s[i + 1]
  BY HeadTailProperties
<1>2. Len(s) \in Nat /\ Len(s) > 0 /\ Head(s) = s[1]
  BY EmptySeq
<1> HIDE DEF t
<1>3. IsFiniteSet(later) /\ Cardinality(later) = Times(s, k) - Same(Head(s), k)
  <2>1. 1 \in Places(s, k) <=> Head(s) = k
    BY <1>2 DEF Places
  <2>2. CASE Head(s) = k
    BY <2>1, <2>2, TimesType, FS_RemoveElement DEF Times, Same
  <2>3. CASE Head(s) # k
    BY <2>1, <2>3, TimesType, FS_RemoveElement DEF Times, Same
  <2> QED
    BY <2>2, <2>3
<1>4. Cardinality(later) = Cardinality(Places(t, k)) /\ IsFiniteSet(Places(t, k))
  <2> DEFINE f == [i \in later |-> i - 1]
  <2>1. \A i \in later : i \in Int /\ i - 1 \in Places(t, k)
    BY <1>1, <1>2 DEF Places
  <2>2. \A j \in Places(t, k) : j \in Int /\ j + 1 \in later
    BY <1>1, <1>2 DEF Places
  <2>3. f \in [later -> Places(t, k)]
    BY <2>1
  <2>4. \A i, j \in later : f[i] = f[j] => i = j
    BY <2>1
  <2>5. \A j \in Places(t, k) : \E i \in later : f[i] = j
    <3>1. SUFFICES ASSUME NEW j \in Places(t, k)
                   PROVE  j + 1 \in later /\ f[j + 1] = j
      OBVIOUS
    <3> QED
      BY <2>2
  <2> HIDE DEF f, later
  <2>6. f \in Bijection(later, Places(t, k))
    BY <2>3, <2>4, <2>5 DEF Bijection, Injection, Surjection, IsInjective
  <2> QED
    BY <1>3, <2>6, FS_Bijection DEF ExistsBijection
<1> QED
  BY <1>3, <1>4 DEF Times, t

\* A worker takes another client, or none.
LEMMA ServingStep ==
  ASSUME NEW fds \in [Workers -> Clients \cup {NoFd}],
         NEW new \in [Workers -> Clients \cup {NoFd}], NEW w \in Workers, NEW k,
         \A v \in Workers \ {w} : new[v] = fds[v]
  PROVE  /\ Serving(fds, k) \in Nat
         /\ Serving(fds, k) = 0 <=> \A v \in Workers : fds[v] # k
         /\ Serving(new, k) + Same(fds[w], k) = Serving(fds, k) + Same(new[w], k)
<1> DEFINE rest == Busy(fds, k) \ {w}
<1>1. IsFiniteSet(Busy(fds, k)) /\ IsFiniteSet(rest)
  <2>1. Busy(fds, k) \in SUBSET Workers /\ rest \in SUBSET Workers
    BY DEF Busy
  <2> QED
    BY <2>1, ServerAssumption, FS_Subset
<1>2. Cardinality(Busy(fds, k)) \in Nat /\ Cardinality(rest) \in Nat
  BY <1>1, FS_CardinalityType
<1>3. Cardinality(Busy(fds, k)) = Cardinality(rest) + Same(fds[w], k)
  <2>1. Busy(fds, k) = IF fds[w] = k THEN rest \cup {w} ELSE rest
    BY DEF Busy
  <2>2. w \notin rest
    OBVIOUS
  <2> HIDE DEF rest
  <2> QED
    BY <1>1, <1>2, <2>1, <2>2, FS_AddElement DEF Same
<1>4. Cardinality(Busy(new, k)) = Cardinality(rest) + Same(new[w], k)
  <2>1. Busy(new, k) = IF new[w] = k THEN rest \cup {w} ELSE rest
    BY DEF Busy
  <2>2. w \notin rest
    OBVIOUS
  <2> HIDE DEF rest
  <2>3. Cardinality(rest \cup {w}) = Cardinality(rest) + 1
    BY <1>1, <2>2, FS_AddElement
  <2> QED
    BY <1>2, <2>1, <2>3 DEF Same
<1>5. Cardinality(Busy(fds, k)) = 0 <=> Busy(fds, k) = {}
  BY <1>1, FS_EmptySet
<1>6. Same(new[w], k) \in Nat /\ Same(fds[w], k) \in Nat
  BY DEF Same
<1> HIDE DEF rest
<1>7. /\ Serving(fds, k) \in Nat
      /\ Serving(new, k) + Same(fds[w], k) = Serving(fds, k) + Same(new[w], k)
  BY <1>2, <1>3, <1>4, <1>6 DEF Serving
<1>8. Serving(fds, k) = 0 <=> \A v \in Workers : fds[v] # k
  BY <1>5 DEF Serving, Busy
<1> QED
  BY <1>7, <1>8

\* The fds of notifications are a queue like pending.
LEMMA FdsType ==
  ASSUME NEW p \in Seq(Notifications)
  PROVE  /\ Fds(p) \in Seq(Clients \cup {NoFd}) /\ Len(Fds(p)) = Len(p)
         /\ \A i \in 1 .. Len(p) : Fds(p)[i] = p[i].fd
<1>1. \A m \in Notifications : m.fd \in Clients \cup {NoFd}
  BY DEF Notifications, AddClient, CheckFlag
<1>2. Len(p) \in Nat /\ \A i \in 1 .. Len(p) : p[i] \in Notifications
  OBVIOUS
<1> HIDE DEF Notifications, Clients
<1> QED
  BY <1>1, <1>2 DEF Fds

LEMMA FdsAppend ==
  ASSUME NEW p \in Seq(Notifications), NEW m \in Notifications
  PROVE  Fds(Append(p, m)) = Append(Fds(p), m.fd)
<1> DEFINE q == Append(p, m)
<1>1. /\ q \in Seq(Notifications) /\ Len(q) = Len(p) + 1 /\ q[Len(p) + 1] = m
      /\ \A i \in 1 .. Len(p) : q[i] = p[i]
  BY AppendProperties
<1>2. Len(p) \in Nat
  OBVIOUS
<1> HIDE DEF q
<1>3. m.fd \in Clients \cup {NoFd}
  BY DEF Notifications, AddClient, CheckFlag
<1> DEFINE r == Append(Fds(p), m.fd)
<1>4. /\ r \in Seq(Clients \cup {NoFd}) /\ Len(r) = Len(p) + 1 /\ r[Len(p) + 1] = m.fd
      /\ \A i \in 1 .. Len(p) : r[i] = p[i].fd
  BY <1>3, FdsType, AppendProperties
<1> HIDE DEF r
<1>5. /\ Fds(q) \in Seq(Clients \cup {NoFd}) /\ Len(Fds(q)) = Len(q)
      /\ \A i \in 1 .. Len(q) : Fds(q)[i] = q[i].fd
  BY <1>1, FdsType
<1>6. \A i \in 1 .. Len(r) : Fds(q)[i] = r[i]
  BY <1>1, <1>2, <1>4, <1>5
<1>7. Fds(q) = r
  BY <1>1, <1>4, <1>5, <1>6, SeqEqual
<1> QED
  BY <1>7 DEF q, r

LEMMA FdsTail ==
  ASSUME NEW p \in Seq(Notifications), p # << >>
  PROVE  Fds(p) # << >> /\ Head(Fds(p)) = Head(p).fd /\ Fds(Tail(p)) = Tail(Fds(p))
<1> DEFINE q == Tail(p)
           r == Tail(Fds(p))
<1>1. /\ q \in Seq(Notifications) /\ Len(q) = Len(p) - 1
      /\ \A i \in 1 .. Len(q) : q[i] = p[i + 1]
  BY HeadTailProperties
<1>2. Len(p) \in Nat /\ Len(p) > 0 /\ Head(p) = p[1]
  BY EmptySeq
<1>3. Fds(p) # << >> /\ Head(Fds(p)) = Head(p).fd
  BY <1>2, FdsType, EmptySeq
<1>4. /\ r \in Seq(Clients \cup {NoFd}) /\ Len(r) = Len(p) - 1
      /\ \A i \in 1 .. Len(r) : r[i] = Fds(p)[i + 1]
  BY <1>3, FdsType, HeadTailProperties
<1> HIDE DEF q, r
<1>5. /\ Fds(q) \in Seq(Clients \cup {NoFd}) /\ Len(Fds(q)) = Len(q)
      /\ \A i \in 1 .. Len(q) : Fds(q)[i] = q[i].fd
  BY <1>1, FdsType
<1>6. \A i \in 1 .. Len(r) : Fds(q)[i] = r[i]
  <2> SUFFICES ASSUME NEW i \in 1 .. Len(r)
               PROVE  Fds(q)[i] = r[i]
    OBVIOUS
  <2>1. i \in 1 .. Len(q) /\ i + 1 \in 1 .. Len(p)
    BY <1>1, <1>2, <1>4
  <2>2. Fds(p)[i + 1] = p[i + 1].fd
    BY <2>1, FdsType
  <2> QED
    BY <1>1, <1>4, <1>5, <2>1, <2>2
<1>7. Fds(q) = r
  BY <1>1, <1>4, <1>5, <1>6, SeqEqual
<1> QED
  BY <1>3, <1>7 DEF q, r

LEMMA RealFds == \A k \in Clients : k \in Nat /\ k # NoFd
BY ServerAssumption DEF Clients, NoFd

LEMMA WorkerFdStep ==
  ASSUME TypeOK, NEW w \in Workers, NEW x \in Clients \cup {NoFd},
         workerFd' = [workerFd EXCEPT ![w] = x], NEW k
  PROVE  /\ Serving(workerFd, k) \in Nat /\ Serving(workerFd', k) \in Nat
         /\ Serving(workerFd', k) + Same(workerFd[w], k) = Serving(workerFd, k) + Same(x, k)
<1>1. workerFd \in [Workers -> Clients \cup {NoFd}]
  BY DEF TypeOK
<1>2. workerFd' \in [Workers -> Clients \cup {NoFd}]
  BY <1>1
<1>3. ASSUME NEW fds \in [Workers -> Clients \cup {NoFd}],
             NEW new \in [Workers -> Clients \cup {NoFd}], new = [fds EXCEPT ![w] = x]
      PROVE  /\ Serving(fds, k) \in Nat /\ Serving(new, k) \in Nat
             /\ Serving(new, k) + Same(fds[w], k) = Serving(fds, k) + Same(x, k)
  <2>1. new[w] = x /\ \A v \in Workers \ {w} : new[v] = fds[v]
    BY <1>3
  <2>2. Serving(new, k) + Same(fds[w], k) = Serving(fds, k) + Same(new[w], k)
    BY <2>1, ServingStep
  <2>3. Serving(fds, k) \in Nat /\ Serving(new, k) \in Nat
    BY ServingStep
  <2> QED
    BY <2>1, <2>2, <2>3
<1> QED
  BY <1>1, <1>2, <1>3

\* The four counts, before and after a step.
Held(set, s, fds, p, k) ==
  Selected(set, k) + Times(s, k) + Serving(fds, k) + Times(Fds(p), k)

LEMMA HoldersSum ==
  ASSUME pipe \in Seq(Notifications), pipe' \in Seq(Notifications), NEW k
  PROVE  /\ Holders(k) = Held(fdset, pending, workerFd, pipe, k)
         /\ Holders(k)' = Held(fdset', pending', workerFd', pipe', k)
<1>1. ASSUME NEW p \in Seq(Notifications)
      PROVE  {i \in 1 .. Len(p) : p[i].fd = k} = Places(Fds(p), k)
  BY FdsType DEF Places
<1> QED
  BY <1>1 DEF Holders, Held, Selected, Times, Places, Serving, Busy

-------------------------------------------------------------------------------
(* The invariant.                                                          *)

\* A worker has an fd while it serves it and until it gives it back.
WorkersHold == \A w \in Workers : workerFd[w] # NoFd <=> workerPc[w] \in {"serve", "notify"}

\* What the scan has before it is still the handler's, or was found closed.
ReadyHeld == \A k \in ready : k \in fdset \/ conn[k] = "left"

\* Nobody but the handler takes clients out of the backlog.
BacklogStays == handlerPc = "accept" /\ ListenReady => Backlog # {}

\* Nothing is stopped without a signal.
SignalFirst ==
  /\ mainPc = "notify" => quit # "none"
  /\ quit = "none" => \A w \in Workers : workerPc[w] # "done"

ServerInv ==
  /\ TypeOK /\ OneHolder /\ NoStrandedRequest
  /\ WorkersHold /\ ReadyHeld /\ BacklogStays /\ SignalFirst

-------------------------------------------------------------------------------
(* What the actions have in common.                                        *)

\* A set of clients has a first and a last one.
LEMMA FirstOf ==
  ASSUME NEW S \in SUBSET Clients, S # {}
  PROVE  (CHOOSE i \in S : \A j \in S : i <= j) \in S
<1> DEFINE Less == OpToRel(<, Nat)
<1>1. S \subseteq Nat
  BY ServerAssumption DEF Clients
<1>2. PICK i \in S : \A j \in S : <<j, i>> \notin Less
  BY <1>1, NatLessThanWellFounded, WFMin
<1>3. Less = {p \in Nat \X Nat : p[1] < p[2]}
  BY DEF OpToRel
<1> HIDE DEF Less
<1>4. \A j \in S : i <= j
  <2> SUFFICES ASSUME NEW j \in S, ~(i <= j)
               PROVE  FALSE
    OBVIOUS
  <2>1. i \in Nat /\ j \in Nat /\ j < i
    BY <1>1
  <2> QED
    BY <1>2, <1>3, <2>1
<1> QED
  BY <1>4

LEMMA LastOf ==
  ASSUME NEW S \in SUBSET Clients, S # {}
  PROVE  Highest(S) \in S
<1> DEFINE Less == OpToRel(<, Nat)
           T    == {NClients - k : k \in S}
<1>1. NClients \in Nat /\ \A k \in S : k \in Nat /\ k <= NClients
  BY ServerAssumption DEF Clients
<1>2. T \subseteq Nat /\ T # {}
  BY <1>1
<1>3. PICK i \in T : \A j \in T : <<j, i>> \notin Less
  BY <1>2, NatLessThanWellFounded, WFMin
<1>4. Less = {p \in Nat \X Nat : p[1] < p[2]}
  BY DEF OpToRel
<1> HIDE DEF Less
<1>5. PICK k \in S : i = NClients - k
  BY <1>3
<1>6. \A j \in S : j <= k
  <2> SUFFICES ASSUME NEW j \in S, ~(j <= k)
               PROVE  FALSE
    OBVIOUS
  <2>1. NClients - j \in T
    OBVIOUS
  <2>2. NClients - j \in Nat /\ i \in Nat /\ NClients - j < i
    BY <1>1, <1>2, <1>5, <2>1
  <2>3. <<NClients - j, i>> \in Less
    BY <1>4, <2>2
  <2> QED
    BY <1>3, <2>1, <2>3
<1> QED
  BY <1>6 DEF Highest

\* Where client k may be.
LEMMA OnePlace ==
  ASSUME ServerInv, NEW k \in Clients
  PROVE  /\ Times(pending, k) \in Nat /\ Serving(workerFd, k) \in Nat
         /\ Times(Fds(pipe), k) \in Nat
         /\ Held(fdset, pending, workerFd, pipe, k) = IF k \in Connected THEN 1 ELSE 0
         /\ Times(pending, k) = 0 <=> \A i \in 1 .. Len(pending) : pending[i] # k
         /\ Serving(workerFd, k) = 0 <=> \A w \in Workers : workerFd[w] # k
         /\ Times(Fds(pipe), k) = 0 <=> \A i \in 1 .. Len(pipe) : pipe[i].fd # k
<1>1. /\ pipe \in Seq(Notifications) /\ pending \in Seq(Clients)
      /\ workerFd \in [Workers -> Clients \cup {NoFd}]
  BY DEF ServerInv, TypeOK
<1>2. Holders(k) = Held(fdset, pending, workerFd, pipe, k)
  <2>1. {i \in 1 .. Len(pipe) : pipe[i].fd = k} = Places(Fds(pipe), k)
    BY <1>1, FdsType DEF Places
  <2> QED
    BY <2>1 DEF Holders, Held, Selected, Times, Places, Serving, Busy
<1>3. /\ Times(pending, k) \in Nat
      /\ Times(pending, k) = 0 <=> \A i \in 1 .. Len(pending) : pending[i] # k
  BY <1>1, TimesType
<1>4. /\ Times(Fds(pipe), k) \in Nat
      /\ Times(Fds(pipe), k) = 0 <=> \A i \in 1 .. Len(pipe) : pipe[i].fd # k
  <2>1. /\ Fds(pipe) \in Seq(Clients \cup {NoFd}) /\ Len(Fds(pipe)) = Len(pipe)
        /\ \A i \in 1 .. Len(pipe) : Fds(pipe)[i] = pipe[i].fd
    BY <1>1, FdsType
  <2> QED
    BY <2>1, TimesType
<1>5. PICK w \in Workers : TRUE
  BY ServerAssumption
<1>6. /\ Serving(workerFd, k) \in Nat
      /\ Serving(workerFd, k) = 0 <=> \A v \in Workers : workerFd[v] # k
  BY <1>1, <1>5, ServingStep
<1> QED
  BY <1>2, <1>3, <1>4, <1>6 DEF ServerInv, OneHolder

\* A step that moves client k from one count to another keeps the sum.
LEMMA HoldersStep ==
  ASSUME ServerInv, TypeOK',
         \A k \in Clients : Held(fdset', pending', workerFd', pipe', k)
                              = IF k \in Connected' THEN 1 ELSE 0
  PROVE  OneHolder'
<1>1. pipe \in Seq(Notifications) /\ pipe' \in Seq(Notifications)
  BY DEF ServerInv, TypeOK
<1> QED
  BY <1>1, HoldersSum DEF OneHolder

\* Steps in which no fd changes hands.
LEMMA NobodyMoves ==
  ASSUME ServerInv, TypeOK', UNCHANGED <<fdset, pending, workerFd, pipe>>,
         \A k \in Clients : k \in Connected' <=> k \in Connected
  PROVE  OneHolder'
<1>1. \A k \in Clients : Held(fdset', pending', workerFd', pipe', k)
                            = IF k \in Connected' THEN 1 ELSE 0
  BY OnePlace DEF Held
<1> QED
  BY <1>1, HoldersStep

-------------------------------------------------------------------------------
(* The workers.                                                            *)

LEMMA WorkerCheckKeeps ==
  ASSUME ServerInv, NEW w \in Workers, WorkerCheck(w)
  PROVE  ServerInv'
<1> USE DEF ServerInv
<1>1. TypeOK'
  BY DEF TypeOK, WorkerCheck, mainVars, handlerVars
<1>2. OneHolder'
  BY <1>1, NobodyMoves DEF WorkerCheck, handlerVars, Connected
<1>3. NoStrandedRequest'
  BY DEF TypeOK, WorkerCheck, NoStrandedRequest, MustClose, mainVars
<1>4. WorkersHold'
  BY DEF TypeOK, WorkerCheck, WorkersHold
<1>5. ReadyHeld' /\ BacklogStays'
  BY DEF WorkerCheck, ReadyHeld, BacklogStays, ListenReady, Backlog, handlerVars
<1>6. SignalFirst'
  BY DEF TypeOK, WorkerCheck, SignalFirst, MustClose, mainVars
<1> QED
  BY <1>1, <1>2, <1>3, <1>4, <1>5, <1>6

\* The fd moves from the queue to the worker.
LEMMA TakesKeeps ==
  ASSUME ServerInv, NEW w \in Workers, workerPc[w] \in {"lock", "woken"}, Takes(w),
         UNCHANGED <<mainVars, pipe, count, handlerVars, conn>>
  PROVE  ServerInv'
<1> USE DEF ServerInv
<1>1. CASE pending = << >>
  <2>0. workerPc' = [workerPc EXCEPT ![w] = "asleep"] /\ UNCHANGED <<pending, workerFd>>
    BY <1>1 DEF Takes
  <2>1. TypeOK'
    BY <2>0 DEF TypeOK, mainVars, handlerVars
  <2>2. OneHolder'
    BY <2>0, <2>1, NobodyMoves DEF handlerVars, Connected
  <2>3. NoStrandedRequest'
    BY <1>1, <2>0 DEF NoStrandedRequest
  <2>4. WorkersHold'
    BY <2>0 DEF TypeOK, WorkersHold
  <2>5. ReadyHeld' /\ BacklogStays'
    BY DEF ReadyHeld, BacklogStays, ListenReady, Backlog, handlerVars
  <2>6. SignalFirst'
    BY <2>0 DEF TypeOK, SignalFirst, mainVars
  <2> QED
    BY <2>1, <2>2, <2>3, <2>4, <2>5, <2>6
<1>2. CASE pending # << >>
  <2>0. /\ workerPc' = [workerPc EXCEPT ![w] = "serve"]
        /\ workerFd' = [workerFd EXCEPT ![w] = Head(pending)]
        /\ pending' = Tail(pending)
    BY <1>2 DEF Takes
  <2>1. /\ pending \in Seq(Clients) /\ Head(pending) \in Clients /\ Tail(pending) \in Seq(Clients)
        /\ workerFd[w] = NoFd /\ Head(pending) # NoFd
    <3>1. pending \in Seq(Clients)
      BY DEF TypeOK
    <3>2. Head(pending) \in Clients /\ Tail(pending) \in Seq(Clients)
      BY <1>2, <3>1, HeadTailProperties
    <3>3. workerFd[w] = NoFd
      BY DEF WorkersHold
    <3> QED
      BY <3>1, <3>2, <3>3, RealFds
  <2>2. TypeOK'
    BY <2>0, <2>1 DEF TypeOK, mainVars, handlerVars
  <2>3. OneHolder'
    <3>1. ASSUME NEW k \in Clients
          PROVE  Held(fdset', pending', workerFd', pipe', k) = IF k \in Connected' THEN 1 ELSE 0
      <4>1. Times(pending', k) = Times(pending, k) - Same(Head(pending), k)
        BY <1>2, <2>0, <2>1, TimesTail
      <4>2. Serving(workerFd', k) + Same(workerFd[w], k)
              = Serving(workerFd, k) + Same(Head(pending), k)
        <5>1. TypeOK /\ Head(pending) \in Clients \cup {NoFd}
          BY <2>1
        <5> QED
          BY <2>0, <5>1, WorkerFdStep, Zenon
      <4>3. Same(workerFd[w], k) = 0 /\ Same(Head(pending), k) \in Nat
        BY <2>1, ServerAssumption DEF Same, Clients, NoFd
      <4>4. Serving(workerFd', k) \in Nat
        BY <2>0, <2>1, WorkerFdStep
      <4>5. UNCHANGED <<fdset, pipe, Connected>>
        BY DEF handlerVars, Connected
      <4> QED
        BY <4>1, <4>2, <4>3, <4>4, <4>5, OnePlace DEF Held, Selected
    <3> QED
      BY <2>2, <3>1, HoldersStep
  <2>4. NoStrandedRequest'
    BY <2>0 DEF TypeOK, NoStrandedRequest
  <2>5. WorkersHold'
    BY <2>0, <2>1 DEF TypeOK, WorkersHold
  <2>6. ReadyHeld' /\ BacklogStays'
    BY DEF ReadyHeld, BacklogStays, ListenReady, Backlog, handlerVars
  <2>7. SignalFirst'
    BY <2>0 DEF TypeOK, SignalFirst, mainVars
  <2> QED
    BY <2>2, <2>3, <2>4, <2>5, <2>6, <2>7
<1> QED
  BY <1>1, <1>2

LEMMA WorkerWokenKeeps ==
  ASSUME ServerInv, NEW w \in Workers, WorkerWoken(w)
  PROVE  ServerInv'
<1>1. CASE ~MustClose /\ Takes(w)
  BY <1>1, TakesKeeps DEF WorkerWoken
<1>2. CASE MustClose /\ workerPc' = [workerPc EXCEPT ![w] = "done"] /\ UNCHANGED <<pending, workerFd>>
  <2> USE DEF ServerInv
  <2>0. quit # "none" /\ UNCHANGED <<mainVars, pipe, count, handlerVars, conn>>
    BY <1>2 DEF MustClose, WorkerWoken
  <2>1. TypeOK'
    BY <1>2, <2>0 DEF TypeOK, mainVars, handlerVars
  <2>2. OneHolder'
    BY <1>2, <2>0, <2>1, NobodyMoves DEF handlerVars, Connected
  <2>3. NoStrandedRequest' /\ SignalFirst'
    BY <2>0 DEF NoStrandedRequest, SignalFirst, mainVars
  <2>4. WorkersHold'
    BY <1>2 DEF TypeOK, WorkersHold, WorkerWoken
  <2>5. ReadyHeld' /\ BacklogStays'
    BY <2>0 DEF ReadyHeld, BacklogStays, ListenReady, Backlog, handlerVars
  <2> QED
    BY <2>1, <2>2, <2>3, <2>4, <2>5
<1> QED
  BY <1>1, <1>2 DEF WorkerWoken

LEMMA SpuriousWakeupKeeps ==
  ASSUME ServerInv, NEW w \in Workers, SpuriousWakeup(w)
  PROVE  ServerInv'
<1> USE DEF ServerInv
<1>1. TypeOK'
  BY DEF TypeOK, SpuriousWakeup, mainVars, handlerVars
<1>2. OneHolder'
  BY <1>1, NobodyMoves DEF SpuriousWakeup, handlerVars, Connected
<1>3. NoStrandedRequest' /\ SignalFirst'
  BY DEF TypeOK, SpuriousWakeup, NoStrandedRequest, SignalFirst, mainVars
<1>4. WorkersHold'
  BY DEF TypeOK, SpuriousWakeup, WorkersHold
<1>5. ReadyHeld' /\ BacklogStays'
  BY DEF SpuriousWakeup, ReadyHeld, BacklogStays, ListenReady, Backlog, handlerVars
<1> QED
  BY <1>1, <1>2, <1>3, <1>4, <1>5

\* A request is handled, or the worker is the one that notices the end.
LEMMA WorkerServeKeeps ==
  ASSUME ServerInv, NEW w \in Workers, WorkerServe(w)
  PROVE  ServerInv'
<1> DEFINE c == workerFd[w]
<1> USE DEF ServerInv
<1>0. UNCHANGED <<mainVars, pipe, pending, handlerVars>> /\ workerPc[w] = "serve"
  BY DEF WorkerServe
<1>1. c \in Clients /\ c # NoFd
  BY <1>0 DEF TypeOK, WorkersHold
<1>2. CASE /\ conn[c] = "request"
           /\ conn' = [conn EXCEPT ![c] = "idle"]
           /\ workerPc' = [workerPc EXCEPT ![w] = "notify"]
           /\ UNCHANGED <<count, workerFd>>
  <2>1. TypeOK'
    BY <1>0, <1>1, <1>2 DEF TypeOK, ConnStates, mainVars, handlerVars
  <2>2. OneHolder'
    <3>1. \A k \in Clients : k \in Connected' <=> k \in Connected
      BY <1>1, <1>2 DEF Connected, TypeOK
    <3> QED
      BY <1>0, <1>2, <2>1, <3>1, NobodyMoves DEF handlerVars
  <2>3. NoStrandedRequest'
    BY <1>0, <1>2 DEF TypeOK, NoStrandedRequest
  <2>4. WorkersHold'
    BY <1>0, <1>1, <1>2 DEF TypeOK, WorkersHold
  <2>5. ReadyHeld' /\ BacklogStays'
    BY <1>0, <1>1, <1>2 DEF TypeOK, ReadyHeld, BacklogStays, ListenReady, Backlog, handlerVars
  <2>6. SignalFirst'
    BY <1>0, <1>2 DEF TypeOK, SignalFirst, mainVars
  <2> QED
    BY <2>1, <2>2, <2>3, <2>4, <2>5, <2>6
<1>3. CASE /\ conn[c] = "half"
           /\ conn' = [conn EXCEPT ![c] = "left"]
           /\ count' = count - 1
           /\ workerPc' = [workerPc EXCEPT ![w] = "check"]
           /\ workerFd' = [workerFd EXCEPT ![w] = NoFd]
  <2>1. TypeOK'
    BY <1>0, <1>1, <1>3 DEF TypeOK, ConnStates, mainVars, handlerVars
  <2>2. OneHolder'
    <3>1. ASSUME NEW k \in Clients
          PROVE  Held(fdset', pending', workerFd', pipe', k) = IF k \in Connected' THEN 1 ELSE 0
      <4>1. /\ Serving(workerFd', k) \in Nat /\ Serving(workerFd, k) \in Nat
            /\ Serving(workerFd', k) + Same(c, k) = Serving(workerFd, k) + Same(NoFd, k)
        BY <1>3, WorkerFdStep, Zenon
      <4>2. Same(NoFd, k) = 0
        BY RealFds DEF Same
      <4>3. k \in Connected' <=> k \in Connected /\ k # c
        BY <1>1, <1>3 DEF Connected, TypeOK
      <4>4. c \in Connected
        BY <1>1, <1>3 DEF Connected
      <4>5. UNCHANGED <<fdset, pending, pipe>>
        BY <1>0 DEF handlerVars
      <4> QED
        BY <4>1, <4>2, <4>3, <4>4, <4>5, OnePlace DEF Held, Selected, Same
    <3> QED
      BY <2>1, <3>1, HoldersStep
  <2>3. NoStrandedRequest'
    BY <1>0, <1>3 DEF TypeOK, NoStrandedRequest
  <2>4. WorkersHold'
    BY <1>0, <1>1, <1>3 DEF TypeOK, WorkersHold
  <2>5. ReadyHeld' /\ BacklogStays'
    BY <1>0, <1>1, <1>3 DEF TypeOK, ReadyHeld, BacklogStays, ListenReady, Backlog, handlerVars
  <2>6. SignalFirst'
    BY <1>0, <1>3 DEF TypeOK, SignalFirst, mainVars
  <2> QED
    BY <2>1, <2>2, <2>3, <2>4, <2>5, <2>6
<1> QED
  BY <1>2, <1>3 DEF WorkerServe

\* The fd moves from the worker into the pipe.
LEMMA WorkerNotifyKeeps ==
  ASSUME ServerInv, NEW w \in Workers, WorkerNotify(w)
  PROVE  ServerInv'
<1> DEFINE c == workerFd[w]
<1> USE DEF ServerInv
<1>0. /\ UNCHANGED <<mainVars, count, pending, handlerVars, conn>> /\ workerPc[w] = "notify"
      /\ pipe' = Append(pipe, AddClient(c))
      /\ workerPc' = [workerPc EXCEPT ![w] = "check"]
      /\ workerFd' = [workerFd EXCEPT ![w] = NoFd]
  BY DEF WorkerNotify
<1>1. c \in Clients /\ c # NoFd
  BY <1>0 DEF TypeOK, WorkersHold
<1>2. AddClient(c) \in Notifications /\ AddClient(c).fd = c
  BY <1>1 DEF Notifications, AddClient
<1>3. TypeOK'
  <2>1. pipe' \in Seq(Notifications)
    BY <1>0, <1>2, AppendProperties DEF TypeOK
  <2> QED
    BY <1>0, <2>1 DEF TypeOK, mainVars, handlerVars
<1>4. OneHolder'
  <2>1. ASSUME NEW k \in Clients
        PROVE  Held(fdset', pending', workerFd', pipe', k) = IF k \in Connected' THEN 1 ELSE 0
    <3>1. /\ Serving(workerFd', k) \in Nat /\ Serving(workerFd, k) \in Nat
          /\ Serving(workerFd', k) + Same(c, k) = Serving(workerFd, k) + Same(NoFd, k)
      BY <1>0, WorkerFdStep, Zenon
    <3>2. Same(NoFd, k) = 0 /\ Same(c, k) \in Nat
      BY RealFds DEF Same
    <3>3. Times(Fds(pipe'), k) = Times(Fds(pipe), k) + Same(c, k)
      <4>1. pipe \in Seq(Notifications) /\ Fds(pipe) \in Seq(Clients \cup {NoFd})
        BY FdsType DEF TypeOK
      <4>2. Fds(pipe') = Append(Fds(pipe), c)
        BY <1>0, <1>2, <4>1, FdsAppend
      <4> QED
        BY <1>1, <4>1, <4>2, TimesAppend
    <3>4. UNCHANGED <<fdset, pending, Connected>>
      BY <1>0 DEF handlerVars, Connected
    <3> QED
      BY <3>1, <3>2, <3>3, <3>4, OnePlace DEF Held, Selected
  <2> QED
    BY <1>3, <2>1, HoldersStep
<1>5. NoStrandedRequest'
  BY <1>0 DEF TypeOK, NoStrandedRequest
<1>6. WorkersHold'
  BY <1>0, <1>1 DEF TypeOK, WorkersHold
<1>7. ReadyHeld' /\ BacklogStays'
  BY <1>0 DEF ReadyHeld, BacklogStays, ListenReady, Backlog, handlerVars
<1>8. SignalFirst'
  BY <1>0 DEF TypeOK, SignalFirst, mainVars
<1> QED
  BY <1>3, <1>4, <1>5, <1>6, <1>7, <1>8

-------------------------------------------------------------------------------
(* The connection handler.                                                 *)

LEMMA HandlerCheckKeeps ==
  ASSUME ServerInv, HandlerCheck
  PROVE  ServerInv'
<1> USE DEF ServerInv
<1>0. /\ UNCHANGED <<mainVars, pipe, count, pending, workerVars,
                     fdset, ready, res, nClients, nStart, soft, conn>>
      /\ handlerPc' \in {"done", "select"}
  BY DEF HandlerCheck
<1>1. TypeOK'
  BY <1>0 DEF TypeOK, mainVars, workerVars
<1>2. OneHolder'
  BY <1>0, <1>1, NobodyMoves DEF Connected, workerVars
<1>3. NoStrandedRequest' /\ SignalFirst' /\ WorkersHold'
  BY <1>0 DEF NoStrandedRequest, SignalFirst, WorkersHold, mainVars, workerVars
<1>4. ReadyHeld' /\ BacklogStays'
  BY <1>0 DEF ReadyHeld, BacklogStays
<1> QED
  BY <1>1, <1>2, <1>3, <1>4

\* The fd moves from the pipe to select.
LEMMA HandlerSelectKeeps ==
  ASSUME ServerInv, HandlerSelect
  PROVE  ServerInv'
<1> DEFINE m == Head(pipe)
           clients == {k \in fdset : Readable(k)}
<1> USE DEF ServerInv
<1>0. /\ UNCHANGED <<mainVars, count, pending, workerVars, conn>>
      /\ ready' = clients /\ nClients' = -1 /\ nStart' = -1
      /\ res' = Cardinality(clients) + (IF Backlog # {} THEN 1 ELSE 0)
      /\ handlerPc' \in {"accept", "done", "check"}
  BY DEF HandlerSelect
<1>1. /\ clients \subseteq Clients /\ clients \subseteq fdset
      /\ Cardinality(clients) \in Nat
  <2>1. clients \in SUBSET Clients /\ clients \subseteq fdset
    BY DEF TypeOK
  <2>2. IsFiniteSet(Clients)
    BY ServerAssumption, FS_Interval DEF Clients
  <2> QED
    BY <2>1, <2>2, FS_Subset, FS_CardinalityType
<1>2. \/ UNCHANGED <<pipe, fdset, soft>>
      \/ /\ pipe # << >> /\ pipe' = Tail(pipe)
         /\ fdset' = IF m.type = "R_ADD_CLIENT" THEN fdset \cup {m.fd} ELSE fdset
         /\ soft' \in BOOLEAN
  BY DEF HandlerSelect, TypeOK
<1> HIDE DEF clients
<1>3. pipe \in Seq(Notifications)
  BY DEF TypeOK
<1>4. ASSUME pipe # << >>
      PROVE  /\ m \in Notifications /\ Tail(pipe) \in Seq(Notifications)
             /\ m.type = "R_ADD_CLIENT" => m.fd \in Clients
             /\ m.type # "R_ADD_CLIENT" => m.fd = NoFd
  <2>1. m \in Notifications /\ Tail(pipe) \in Seq(Notifications)
    BY <1>3, <1>4, HeadTailProperties
  <2> HIDE DEF m
  <2> QED
    BY <2>1 DEF Notifications, AddClient, CheckFlag
<1> HIDE DEF m
<1>5. TypeOK'
  <2>1. pipe' \in Seq(Notifications) /\ fdset' \subseteq Clients /\ soft' \in BOOLEAN
    BY <1>2, <1>4 DEF TypeOK
  <2>2. res' \in Nat
    BY <1>0, <1>1
  <2> QED
    BY <1>0, <1>1, <2>1, <2>2 DEF TypeOK, mainVars, workerVars
<1>6. OneHolder'
  <2>1. ASSUME NEW k \in Clients
        PROVE  Held(fdset', pending', workerFd', pipe', k) = IF k \in Connected' THEN 1 ELSE 0
    <3>0. UNCHANGED <<pending, workerFd, Connected>>
      BY <1>0 DEF Connected, workerVars
    <3>1. CASE UNCHANGED <<pipe, fdset, soft>>
      BY <3>0, <3>1, OnePlace DEF Held
    <3>2. CASE /\ pipe # << >> /\ pipe' = Tail(pipe)
               /\ fdset' = IF m.type = "R_ADD_CLIENT" THEN fdset \cup {m.fd} ELSE fdset
      <4>1. Fds(pipe) \in Seq(Clients \cup {NoFd}) /\ Fds(pipe) # << >>
            /\ Head(Fds(pipe)) = m.fd /\ Fds(pipe') = Tail(Fds(pipe))
        BY <1>3, <3>2, FdsType, FdsTail DEF m
      <4>2. Times(Fds(pipe'), k) = Times(Fds(pipe), k) - Same(m.fd, k)
        BY <4>1, TimesTail
      <4>3. Times(Fds(pipe'), k) \in Nat
        <5>1. pipe' \in Seq(Notifications)
          BY <1>4, <3>2
        <5> QED
          BY <5>1, FdsType, TimesType
      <4>4. CASE m.fd = k
        <5>1. m.type = "R_ADD_CLIENT"
          BY <1>4, <3>2, <4>4, RealFds
        <5>2. Times(Fds(pipe'), k) = Times(Fds(pipe), k) - 1 /\ Selected(fdset', k) = 1
          BY <3>2, <4>2, <4>4, <5>1 DEF Same, Selected
        <5>3. /\ k \in Connected /\ Selected(fdset, k) = 0
              /\ Times(pending, k) + Serving(workerFd, k) + Times(Fds(pipe), k) = 1
          BY <4>3, <5>2, OnePlace DEF Held, Selected
        <5>4. /\ Times(pending, k) \in Nat /\ Serving(workerFd, k) \in Nat
              /\ Times(Fds(pipe), k) \in Nat
          BY OnePlace
        <5> QED
          BY <3>0, <4>3, <5>2, <5>3, <5>4 DEF Held
      <4>5. CASE m.fd # k
        <5>1. Selected(fdset', k) = Selected(fdset, k)
          BY <3>2, <4>5 DEF Selected
        <5> QED
          BY <3>0, <4>2, <4>3, <4>5, <5>1, OnePlace DEF Held, Same
      <4> QED
        BY <4>4, <4>5
    <3> QED
      BY <1>2, <3>1, <3>2
  <2> QED
    BY <1>5, <2>1, HoldersStep
<1>7. NoStrandedRequest' /\ SignalFirst' /\ WorkersHold'
  BY <1>0 DEF NoStrandedRequest, SignalFirst, WorkersHold, mainVars, workerVars
<1>8. ReadyHeld'
  BY <1>0, <1>1, <1>2 DEF ReadyHeld
<1>9. BacklogStays'
  BY <1>0, <1>1 DEF BacklogStays, ListenReady, Backlog
<1> QED
  BY <1>5, <1>6, <1>7, <1>8, <1>9

\* A new client, or one that is turned away.
LEMMA HandlerAcceptKeeps ==
  ASSUME ServerInv, HandlerAccept
  PROVE  ServerInv'
<1> DEFINE k == CHOOSE i \in Backlog : \A j \in Backlog : i <= j
<1> USE DEF ServerInv
<1>0. /\ UNCHANGED <<mainVars, pipe, count, pending, workerVars, ready, soft>>
      /\ handlerPc = "accept" /\ handlerPc' = "scan"
  BY DEF HandlerAccept
<1>1. NoStrandedRequest' /\ SignalFirst' /\ WorkersHold' /\ BacklogStays'
  BY <1>0 DEF NoStrandedRequest, SignalFirst, WorkersHold, BacklogStays, mainVars, workerVars
<1>2. CASE ~ListenReady
  <2>0. UNCHANGED <<conn, fdset, res, nClients, nStart>>
    BY <1>2 DEF HandlerAccept
  <2>1. TypeOK'
    BY <1>0, <2>0 DEF TypeOK, mainVars, workerVars
  <2>2. OneHolder'
    BY <1>0, <2>0, <2>1, NobodyMoves DEF Connected, workerVars
  <2>3. ReadyHeld'
    BY <1>0, <2>0 DEF ReadyHeld
  <2> QED
    BY <1>1, <2>1, <2>2, <2>3
<1>3. CASE ListenReady
  <2>1. k \in Clients /\ conn[k] = "backlog" /\ res - 1 \in Nat
    <3>1. Backlog # {} /\ Backlog \in SUBSET Clients
      BY <1>0, <1>3 DEF BacklogStays, Backlog
    <3>2. k \in Backlog
      BY <3>1, FirstOf
    <3>3. res \in Nat /\ res > 0
      <4>1. IsFiniteSet(Clients) /\ ready \in SUBSET Clients
        BY ServerAssumption, FS_Interval DEF Clients, TypeOK
      <4>2. Cardinality(ready) \in Nat
        BY <4>1, FS_Subset, FS_CardinalityType
      <4> QED
        BY <1>3, <4>2 DEF ListenReady, TypeOK
    <3> HIDE DEF k
    <3> QED
      BY <3>2, <3>3 DEF Backlog
  <2>2. /\ res' = res - 1
        /\ \/ /\ conn' = [conn EXCEPT ![k] = "left"]
              /\ UNCHANGED <<fdset, nClients, nStart>>
           \/ /\ conn' = [conn EXCEPT ![k] = "idle"]
              /\ fdset' = fdset \cup {k} /\ nStart' = count /\ nClients' = count + 1
    BY <1>3 DEF HandlerAccept
  <2> HIDE DEF k
  <2>3. TypeOK'
    BY <1>0, <2>1, <2>2 DEF TypeOK, ConnStates, mainVars, workerVars
  <2>4. OneHolder'
    <3>0. UNCHANGED <<pending, workerFd, pipe>>
      BY <1>0 DEF workerVars
    <3>1. ASSUME NEW j \in Clients
          PROVE  Held(fdset', pending', workerFd', pipe', j) = IF j \in Connected' THEN 1 ELSE 0
      <4>1. CASE j # k
        <5>1. j \in Connected' <=> j \in Connected
          BY <2>1, <2>2, <4>1 DEF Connected, TypeOK
        <5>2. Selected(fdset', j) = Selected(fdset, j)
          BY <2>2, <4>1 DEF Selected
        <5> QED
          BY <3>0, <5>1, <5>2, OnePlace DEF Held
      <4>2. CASE j = k
        <5>1. k \notin Connected
          BY <2>1 DEF Connected
        <5>2. k \in Connected' <=> k \in fdset'
          <6>1. k \notin fdset
            BY <2>1, <5>1, OnePlace DEF Held, Selected
          <6> QED
            BY <2>1, <2>2, <6>1 DEF Connected, TypeOK
        <5>3. Times(pending, k) = 0 /\ Serving(workerFd, k) = 0 /\ Times(Fds(pipe), k) = 0
          BY <2>1, <5>1, OnePlace DEF Held, Selected
        <5> QED
          BY <3>0, <4>2, <5>2, <5>3 DEF Held, Selected
      <4> QED
        BY <4>1, <4>2
    <3> QED
      BY <2>3, <3>1, HoldersStep
  <2>5. ReadyHeld'
    BY <1>0, <2>1, <2>2 DEF TypeOK, ReadyHeld
  <2> QED
    BY <1>1, <2>3, <2>4, <2>5
<1> QED
  BY <1>2, <1>3

\* The largest fd is found closed, or goes into the queue.
LEMMA HandlerScanKeeps ==
  ASSUME ServerInv, HandlerScan
  PROVE  ServerInv'
<1> DEFINE k == Highest(ready)
<1> USE DEF ServerInv
<1>0. /\ UNCHANGED <<mainVars, pipe, count, workerFd, handlerPc, soft>>
      /\ handlerPc = "scan" /\ res > 0 /\ res' = res - 1 /\ fdset' = fdset \ {k}
      /\ ScanDisconnected(k) \/ ScanRequest(k)
  BY DEF HandlerScan
<1>1. k \in ready /\ k \in Clients
  <2>1. ready \in SUBSET Clients /\ ready # {}
    BY DEF HandlerScan, TypeOK
  <2> QED
    BY <2>1, LastOf
<1> HIDE DEF k
<1>2. BacklogStays'
  BY <1>0 DEF BacklogStays
<1>3. CASE ScanDisconnected(k)
  <2>0. /\ conn[k] \in {"eof", "left"} /\ conn' = [conn EXCEPT ![k] = "left"]
        /\ UNCHANGED <<ready, pending, workerPc>>
        /\ nStart' \in Int /\ nClients' \in Int
    BY <1>3 DEF ScanDisconnected, TypeOK
  <2>1. TypeOK'
    BY <1>0, <1>1, <2>0 DEF TypeOK, ConnStates, mainVars
  <2>2. OneHolder'
    <3>1. ASSUME NEW j \in Clients
          PROVE  Held(fdset', pending', workerFd', pipe', j) = IF j \in Connected' THEN 1 ELSE 0
      <4>1. CASE j # k
        <5>1. j \in Connected' <=> j \in Connected
          BY <1>1, <2>0, <4>1 DEF Connected, TypeOK
        <5>2. Selected(fdset', j) = Selected(fdset, j)
          BY <1>0, <4>1 DEF Selected
        <5> QED
          BY <1>0, <2>0, <5>1, <5>2, OnePlace DEF Held
      <4>2. CASE j = k
        <5>1. k \notin Connected' /\ Selected(fdset', k) = 0
          BY <1>0, <1>1, <2>0 DEF Connected, Selected, TypeOK
        <5>2. k \in fdset \/ k \notin Connected
          BY <1>1 DEF ReadyHeld, Connected
        <5>3. Times(pending, k) = 0 /\ Serving(workerFd, k) = 0 /\ Times(Fds(pipe), k) = 0
          BY <1>1, <5>2, OnePlace DEF Held, Selected
        <5> QED
          BY <1>0, <2>0, <4>2, <5>1, <5>3 DEF Held
      <4> QED
        BY <4>1, <4>2
    <3> QED
      BY <2>1, <3>1, HoldersStep
  <2>3. NoStrandedRequest' /\ SignalFirst' /\ WorkersHold'
    BY <1>0, <2>0 DEF NoStrandedRequest, SignalFirst, WorkersHold, mainVars
  <2>4. ReadyHeld'
    BY <1>0, <1>1, <2>0 DEF ReadyHeld, TypeOK
  <2> QED
    BY <1>2, <2>1, <2>2, <2>3, <2>4
<1>4. CASE ScanRequest(k)
  <2>0. /\ conn[k] \in {"request", "half"} /\ ready' = ready \ {k}
        /\ UNCHANGED <<conn, nClients, nStart>> /\ pending' = Append(pending, k)
    BY <1>4 DEF ScanRequest, Enqueues
  <2>1. \/ UNCHANGED workerPc /\ (pending # << >> \/ \A w \in Workers : workerPc[w] # "asleep")
        \/ \E w \in Workers : /\ workerPc[w] = "asleep"
                              /\ workerPc' = [workerPc EXCEPT ![w] = "woken"]
    BY <1>4 DEF ScanRequest, Enqueues
  <2>2. pending \in Seq(Clients) /\ pending' \in Seq(Clients)
    BY <1>1, <2>0, AppendProperties DEF TypeOK
  <2>3. TypeOK'
    <3>1. workerPc' \in [Workers -> {"check", "lock", "asleep", "woken", "serve", "notify", "done"}]
      BY <2>1 DEF TypeOK
    <3> QED
      BY <1>0, <2>0, <2>2, <3>1 DEF TypeOK, mainVars
  <2>4. OneHolder'
    <3>1. k \in fdset
      BY <1>1, <2>0 DEF ReadyHeld
    <3>2. ASSUME NEW j \in Clients
          PROVE  Held(fdset', pending', workerFd', pipe', j) = IF j \in Connected' THEN 1 ELSE 0
      <4>1. Times(pending', j) = Times(pending, j) + Same(k, j)
        BY <1>1, <2>0, <2>2, TimesAppend
      <4>2. Selected(fdset', j) = Selected(fdset, j) - Same(k, j)
        BY <1>0, <3>1 DEF Selected, Same
      <4>3. UNCHANGED <<workerFd, pipe, Connected>>
        BY <1>0, <2>0 DEF Connected
      <4>4. Same(k, j) \in Nat /\ Selected(fdset, j) \in Nat
        BY DEF Same, Selected
      <4> QED
        BY <4>1, <4>2, <4>3, <4>4, OnePlace DEF Held
    <3> QED
      BY <2>3, <3>2, HoldersStep
  <2>5. NoStrandedRequest'
    <3>1. CASE quit # "none"
      BY <1>0, <3>1 DEF NoStrandedRequest, mainVars
    <3>2. CASE quit = "none"
      <4>1. \A w \in Workers : workerPc[w] # "done"
        BY <3>2 DEF SignalFirst
      <4>2. PICK v \in Workers : TRUE
        BY ServerAssumption
      <4>3. \E w \in Workers : workerPc'[w] \notin {"asleep", "done"}
        BY <2>1, <3>2, <4>1, <4>2 DEF NoStrandedRequest, TypeOK
      <4> QED
        BY <4>3 DEF NoStrandedRequest
    <3> QED
      BY <3>1, <3>2
  <2>6. SignalFirst' /\ WorkersHold'
    BY <1>0, <2>1 DEF SignalFirst, WorkersHold, TypeOK, mainVars
  <2>7. ReadyHeld'
    BY <1>0, <2>0 DEF ReadyHeld
  <2> QED
    BY <1>2, <2>3, <2>4, <2>5, <2>6, <2>7
<1> QED
  BY <1>0, <1>3, <1>4

LEMMA HandlerRecountKeeps ==
  ASSUME ServerInv, HandlerRecount
  PROVE  ServerInv'
<1> USE DEF ServerInv
<1>0. /\ UNCHANGED <<mainVars, pipe, count, pending, workerVars,
                     fdset, ready, res, nStart, soft, conn>>
      /\ handlerPc' \in {"commit", "check"} /\ nClients' \in Int
  BY DEF HandlerRecount, TypeOK
<1>1. TypeOK'
  BY <1>0 DEF TypeOK, mainVars, workerVars
<1>2. OneHolder'
  BY <1>0, <1>1, NobodyMoves DEF Connected, workerVars
<1>3. NoStrandedRequest' /\ SignalFirst' /\ WorkersHold'
  BY <1>0 DEF NoStrandedRequest, SignalFirst, WorkersHold, mainVars, workerVars
<1>4. ReadyHeld' /\ BacklogStays'
  BY <1>0 DEF ReadyHeld, BacklogStays
<1> QED
  BY <1>1, <1>2, <1>3, <1>4

LEMMA HandlerCommitKeeps ==
  ASSUME ServerInv, HandlerCommit
  PROVE  ServerInv'
<1> USE DEF ServerInv
<1>0. /\ UNCHANGED <<mainVars, pipe, pending, workerVars,
                     fdset, ready, res, nClients, nStart, soft, conn>>
      /\ handlerPc' = "check" /\ count' \in Int
  BY DEF HandlerCommit, TypeOK
<1>1. TypeOK'
  BY <1>0 DEF TypeOK, mainVars, workerVars
<1>2. OneHolder'
  BY <1>0, <1>1, NobodyMoves DEF Connected, workerVars
<1>3. NoStrandedRequest' /\ SignalFirst' /\ WorkersHold'
  BY <1>0 DEF NoStrandedRequest, SignalFirst, WorkersHold, mainVars, workerVars
<1>4. ReadyHeld' /\ BacklogStays'
  BY <1>0 DEF ReadyHeld, BacklogStays
<1> QED
  BY <1>1, <1>2, <1>3, <1>4

-------------------------------------------------------------------------------
(* The main thread and the clients.                                        *)

LEMMA MainSignalKeeps ==
  ASSUME ServerInv, NEW s \in {"soft", "fast"}, MainSignal(s)
  PROVE  ServerInv'
<1> USE DEF ServerInv
<1>0. /\ UNCHANGED <<pipe, count, pending, workerVars, handlerVars, conn>>
      /\ quit' = s /\ mainPc' = "notify"
  BY DEF MainSignal
<1>1. TypeOK'
  BY <1>0 DEF TypeOK, workerVars, handlerVars
<1>2. OneHolder'
  BY <1>0, <1>1, NobodyMoves DEF Connected, workerVars, handlerVars
<1>3. NoStrandedRequest' /\ SignalFirst'
  BY <1>0 DEF NoStrandedRequest, SignalFirst
<1>4. WorkersHold' /\ ReadyHeld' /\ BacklogStays'
  BY <1>0 DEF WorkersHold, ReadyHeld, BacklogStays, ListenReady, Backlog, workerVars, handlerVars
<1> QED
  BY <1>1, <1>2, <1>3, <1>4

\* The notification is about no client.
LEMMA MainNotifyKeeps ==
  ASSUME ServerInv, MainNotify
  PROVE  ServerInv'
<1> USE DEF ServerInv
<1>0. /\ UNCHANGED <<quit, count, pending, workerVars, handlerVars, conn>>
      /\ mainPc = "notify" /\ mainPc' = "join" /\ pipe' = Append(pipe, CheckFlag(quit))
  BY DEF MainNotify
<1>1. CheckFlag(quit) \in Notifications /\ CheckFlag(quit).fd = NoFd
  BY <1>0 DEF SignalFirst, TypeOK, Notifications, CheckFlag
<1>2. pipe \in Seq(Notifications) /\ pipe' \in Seq(Notifications)
  BY <1>0, <1>1, AppendProperties DEF TypeOK
<1>3. TypeOK'
  BY <1>0, <1>2 DEF TypeOK, workerVars, handlerVars
<1>4. OneHolder'
  <2>1. ASSUME NEW k \in Clients
        PROVE  Held(fdset', pending', workerFd', pipe', k) = IF k \in Connected' THEN 1 ELSE 0
    <3>1. Times(Fds(pipe'), k) = Times(Fds(pipe), k) + Same(NoFd, k)
      <4>1. Fds(pipe) \in Seq(Clients \cup {NoFd})
        BY <1>2, FdsType
      <4>2. Fds(pipe') = Append(Fds(pipe), NoFd)
        BY <1>0, <1>1, <1>2, FdsAppend
      <4> QED
        BY <4>1, <4>2, TimesAppend
    <3>2. Same(NoFd, k) = 0
      BY RealFds DEF Same
    <3>3. UNCHANGED <<fdset, pending, workerFd, Connected>>
      BY <1>0 DEF workerVars, handlerVars, Connected
    <3> QED
      BY <3>1, <3>2, <3>3, OnePlace DEF Held
  <2> QED
    BY <1>3, <2>1, HoldersStep
<1>5. NoStrandedRequest' /\ SignalFirst'
  BY <1>0 DEF NoStrandedRequest, SignalFirst, workerVars
<1>6. WorkersHold' /\ ReadyHeld' /\ BacklogStays'
  BY <1>0 DEF WorkersHold, ReadyHeld, BacklogStays, ListenReady, Backlog, workerVars, handlerVars
<1> QED
  BY <1>3, <1>4, <1>5, <1>6

LEMMA MainBroadcastKeeps ==
  ASSUME ServerInv, MainBroadcast
  PROVE  ServerInv'
<1> USE DEF ServerInv
<1>0. /\ UNCHANGED <<quit, pipe, count, pending, workerFd, handlerVars, conn>>
      /\ mainPc' = "joinWorkers"
      /\ workerPc' = [w \in Workers |-> IF workerPc[w] = "asleep" THEN "woken" ELSE workerPc[w]]
  BY DEF MainBroadcast
<1>1. TypeOK'
  BY <1>0 DEF TypeOK, handlerVars
<1>2. OneHolder'
  BY <1>0, <1>1, NobodyMoves DEF Connected, handlerVars
<1>3. NoStrandedRequest' /\ SignalFirst' /\ WorkersHold'
  BY <1>0 DEF NoStrandedRequest, SignalFirst, WorkersHold, TypeOK
<1>4. ReadyHeld' /\ BacklogStays'
  BY <1>0 DEF ReadyHeld, BacklogStays, ListenReady, Backlog, handlerVars
<1> QED
  BY <1>1, <1>2, <1>3, <1>4

LEMMA MainEndKeeps ==
  ASSUME ServerInv, MainEnd
  PROVE  ServerInv'
<1> USE DEF ServerInv
<1>0. /\ UNCHANGED <<quit, pipe, count, pending, workerVars, handlerVars, conn>>
      /\ mainPc' = "done"
  BY DEF MainEnd
<1>1. TypeOK'
  BY <1>0 DEF TypeOK, workerVars, handlerVars
<1>2. OneHolder'
  BY <1>0, <1>1, NobodyMoves DEF Connected, workerVars, handlerVars
<1>3. NoStrandedRequest' /\ SignalFirst' /\ WorkersHold'
  BY <1>0 DEF NoStrandedRequest, SignalFirst, WorkersHold, workerVars
<1>4. ReadyHeld' /\ BacklogStays'
  BY <1>0 DEF ReadyHeld, BacklogStays, ListenReady, Backlog, handlerVars
<1> QED
  BY <1>1, <1>2, <1>3, <1>4

\* What a client does changes neither who holds its fd nor whether anybody does.
LEMMA ClientStepKeeps ==
  ASSUME ServerInv, NEW k \in Clients, NEW from, NEW to, ClientStep(k, from, to),
         \/ from = "none" /\ to = "backlog"
         \/ from \in {"idle", "request"} /\ to \in {"request", "half", "eof"}
  PROVE  ServerInv'
<1> USE DEF ServerInv, ConnStates
<1>0. /\ UNCHANGED <<mainVars, pipe, count, pending, workerVars, handlerVars>>
      /\ conn[k] = from /\ conn' = [conn EXCEPT ![k] = to]
  BY DEF ClientStep
<1>1. TypeOK'
  BY <1>0 DEF TypeOK, mainVars, workerVars, handlerVars
<1>2. OneHolder'
  <2>1. \A j \in Clients : j \in Connected' <=> j \in Connected
    BY <1>0 DEF Connected, TypeOK
  <2> QED
    BY <1>0, <1>1, <2>1, NobodyMoves DEF workerVars, handlerVars
<1>3. NoStrandedRequest' /\ SignalFirst' /\ WorkersHold'
  BY <1>0 DEF NoStrandedRequest, SignalFirst, WorkersHold, mainVars, workerVars
<1>4. ReadyHeld'
  BY <1>0 DEF ReadyHeld, TypeOK, handlerVars
<1>5. BacklogStays'
  <2>1. Backlog \subseteq Backlog'
    BY <1>0 DEF Backlog, TypeOK
  <2>2. handlerPc' = handlerPc /\ (ListenReady' <=> ListenReady)
    BY <1>0 DEF ListenReady, handlerVars
  <2> QED
    BY <2>1, <2>2 DEF BacklogStays
<1> QED
  BY <1>1, <1>2, <1>3, <1>4, <1>5

-------------------------------------------------------------------------------
(* Theorems.                                                               *)

LEMMA ServerInvInit == Init => ServerInv
<1> SUFFICES ASSUME Init
             PROVE  ServerInv
  OBVIOUS
<1>1. TypeOK
  <2>1. pipe \in Seq(Notifications) /\ pending \in Seq(Clients)
    BY DEF Init
  <2>2. nClients \in Int /\ nStart \in Int /\ count \in Int /\ res \in Nat
    BY DEF Init
  <2>3. /\ workerPc \in [Workers -> {"check", "lock", "asleep", "woken", "serve", "notify", "done"}]
        /\ workerFd \in [Workers -> Clients \cup {NoFd}]
        /\ conn \in [Clients -> ConnStates]
    BY DEF Init, ConnStates
  <2> QED
    BY <2>1, <2>2, <2>3 DEF Init, TypeOK
<1>2. OneHolder
  <2> SUFFICES ASSUME NEW k \in Clients
               PROVE  Holders(k) = IF k \in Connected THEN 1 ELSE 0
    BY DEF OneHolder
  <2>1. k \notin Connected /\ k \notin fdset
    BY DEF Init, Connected
  <2>2. /\ {i \in 1 .. Len(pending) : pending[i] = k} = {}
        /\ {i \in 1 .. Len(pipe) : pipe[i].fd = k} = {}
    BY DEF Init
  <2>3. {w \in Workers : workerFd[w] = k} = {}
    BY RealFds DEF Init
  <2>4. Holders(k) = 0 + Cardinality({}) + Cardinality({}) + Cardinality({})
    BY <2>1, <2>2, <2>3, Zenon DEF Holders
  <2>5. Cardinality({}) = 0
    BY FS_EmptySet
  <2>6. Holders(k) = 0
    BY <2>4, <2>5
  <2> QED
    BY <2>1, <2>6
<1>3. NoStrandedRequest /\ WorkersHold /\ ReadyHeld /\ BacklogStays /\ SignalFirst
  BY DEF Init, NoStrandedRequest, WorkersHold, ReadyHeld, BacklogStays, SignalFirst
<1> QED
  BY <1>1, <1>2, <1>3 DEF ServerInv

LEMMA ServerInvNext == ServerInv /\ [Next]_vars => ServerInv'
<1> SUFFICES ASSUME ServerInv, [Next]_vars
             PROVE  ServerInv'
  OBVIOUS
<1>1. CASE UNCHANGED vars
  <2>1. /\ UNCHANGED <<quit, mainPc, pipe, count, pending, workerPc, workerFd, handlerPc,
                       fdset, ready, res, nClients, nStart, soft, conn>>
    BY <1>1 DEF vars, mainVars, workerVars, handlerVars
  <2>2. TypeOK'
    BY <2>1 DEF ServerInv, TypeOK
  <2>3. OneHolder'
    BY <2>1, <2>2, NobodyMoves DEF Connected
  <2>4. NoStrandedRequest' /\ WorkersHold' /\ ReadyHeld' /\ BacklogStays' /\ SignalFirst'
    BY <2>1 DEF ServerInv, NoStrandedRequest, WorkersHold, ReadyHeld, BacklogStays, SignalFirst,
                ListenReady, Backlog
  <2> QED
    BY <2>2, <2>3, <2>4 DEF ServerInv
<1>2. ASSUME NEW w \in Workers, WorkerStep(w) \/ SpuriousWakeup(w)
      PROVE  ServerInv'
  <2>1. CASE WorkerLock(w)
    BY <2>1, TakesKeeps DEF WorkerLock
  <2> QED
    BY <1>2, <2>1, WorkerCheckKeeps, WorkerWokenKeeps, WorkerServeKeeps, WorkerNotifyKeeps,
       SpuriousWakeupKeeps DEF WorkerStep
<1>3. CASE HandlerStep
  BY <1>3, HandlerCheckKeeps, HandlerSelectKeeps, HandlerAcceptKeeps, HandlerScanKeeps,
     HandlerRecountKeeps, HandlerCommitKeeps DEF HandlerStep
<1>4. CASE MainStep
  BY <1>4, MainNotifyKeeps, MainBroadcastKeeps, MainEndKeeps DEF MainStep
<1>5. ASSUME NEW s \in {"soft", "fast"}, MainSignal(s)
      PROVE  ServerInv'
  BY <1>5, MainSignalKeeps
<1>6. ASSUME NEW k \in Clients, Connect(k) \/ SendRequest(k) \/ ClientExit(k) \/ ClientKilled(k)
      PROVE  ServerInv'
  <2>1. CASE ClientStep(k, "none", "backlog")
    BY <2>1, ClientStepKeeps
  <2>2. CASE ClientStep(k, "idle", "request")
    BY <2>2, ClientStepKeeps
  <2>3. CASE ClientStep(k, "idle", "eof")
    BY <2>3, ClientStepKeeps
  <2>4. CASE ClientStep(k, "request", "half")
    BY <2>4, ClientStepKeeps
  <2> QED
    BY <1>6, <2>1, <2>2, <2>3, <2>4 DEF Connect, SendRequest, ClientExit, ClientKilled
<1> QED
  BY <1>1, <1>2, <1>3, <1>4, <1>5, <1>6 DEF Next

LEMMA ServerInvAlways == Spec => []ServerInv
BY ServerInvInit, ServerInvNext, PTL DEF Spec

\* Every variable of the server keeps its type, for any number of clients and
\* workers; the scan never counts the result of select down below zero.
THEOREM ServerTypes == Spec => []TypeOK
<1>1. ServerInv => TypeOK
  BY DEF ServerInv
<1> QED
  BY <1>1, ServerInvAlways, PTL

\* An fd is in one place: in select, in the queue, with one worker or in the
\* pipe.  So a client is served by one worker at a time, and none is lost.
THEOREM EveryFdHasOneHolder == Spec => []OneHolder
<1>1. ServerInv => OneHolder
  BY DEF ServerInv
<1> QED
  BY <1>1, ServerInvAlways, PTL

\* One signal for a queue that was empty is enough, however many requests
\* follow the first before a worker wakes up.
THEOREM NoRequestIsStranded == Spec => []NoStrandedRequest
<1>1. ServerInv => NoStrandedRequest
  BY DEF ServerInv
<1> QED
  BY <1>1, ServerInvAlways, PTL

===============================================================================

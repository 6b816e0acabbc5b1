----------------------------- MODULE ServiceProofs -----------------------------
(***************************************************************************)
(* The server implements LockService for every file: each step of it is a  *)
(* step of the lock of every file, or leaves that lock alone.              *)
(*                                                                         *)
(* A handler is a step of the lock of the file it is about, whose client   *)
(* is not busy because of Sessions; a write is at the same time the        *)
(* eviction of other files, and a disconnection a step of all locks.       *)
(***************************************************************************)
EXTENDS LockProofs, LockServices

\* Whom msgs tells something about f.
ToldOf(msgs, f) ==
  {x \in Clients : \E i \in 1 .. Len(msgs) : msgs[i].about = f /\ x \in Range(msgs[i].to)}

Line(f) == file[f].lock_queue.items

ServiceStep(f) == [Service(f)!Next]_(Service(f)!serviceVars)

-------------------------------------------------------------------------------
(* Steps of the abstract lock.                                             *)

LEMMA LockAlone ==
  ASSUME NEW f \in Files, file'[f].locked_by = file[f].locked_by, Line(f)' = Line(f),
         Owed(f)' = Owed(f)
  PROVE  ServiceStep(f)
BY DEF ServiceStep, Service!serviceVars, Line

\* A client that waits for nothing is free to ask for the lock.
LEMMA NotBusy ==
  ASSUME NEW f \in Files, NEW c, c \notin Owed(f), c \notin Waiting(f)
  PROVE  ~ Service(f)!Busy(c)
BY DEF Service!Busy, Service!Range, Range, Waiting, Waits, Values

LEMMA Asks ==
  ASSUME NEW f \in Files, NEW c \in Clients, c \notin Owed(f), c \notin Waiting(f),
         file'[f].locked_by = file[f].locked_by, Line(f)' = Line(f),
         Owed(f)' = Owed(f) \cup {c}
  PROVE  ServiceStep(f)
<1>1. Service(f)!Ask(c)
  BY NotBusy DEF Service!Ask, Line
<1> QED
  BY <1>1 DEF ServiceStep, Service!Next

LEMMA Takes ==
  ASSUME NEW f \in Files, NEW c \in Clients, c \notin Owed(f), c \notin Waiting(f),
         file[f].locked_by = NoClient, file'[f].locked_by = c, Line(f)' = Line(f),
         Owed(f)' = Owed(f) \cup {c}
  PROVE  ServiceStep(f)
<1>1. Service(f)!Take(c)
  BY NotBusy DEF Service!Take, Line
<1> QED
  BY <1>1 DEF ServiceStep, Service!Next

LEMMA Joins ==
  ASSUME NEW f \in Files, NEW c \in Clients, c \notin Owed(f), c \notin Waiting(f),
         file[f].locked_by \notin {NoClient, c}, file'[f].locked_by = file[f].locked_by,
         Line(f)' = Append(Line(f), c), Owed(f)' = Owed(f)
  PROVE  ServiceStep(f)
<1>1. Service(f)!Join(c)
  BY NotBusy DEF Service!Join, Line
<1> QED
  BY <1>1 DEF ServiceStep, Service!Next

\* What HandOver does to the lock is what PassOn does.
LEMMA PassesOn ==
  ASSUME NEW f \in Files, NEW T, NEW q, q = HandOver(file[f]), file[f] \in FileRecords,
         file'[f].locked_by = q.locked_by, Line(f)' = q.lock_queue.items,
         Owed(f)' = Owed(f) \cup T
  PROVE  Service(f)!PassOn(T) /\ NextOwner(file[f]) = Service(f)!First
<1>1. NextOwner(file[f]) = Service(f)!First
  BY DEF NextOwner, Service!First
<1>2. /\ q.locked_by = NextOwner(file[f])
      /\ q.lock_queue.items = IF Line(f) = << >> THEN Line(f) ELSE Tail(Line(f))
  BY DEF HandOver, FileRecords, Line, ll_remove_first
<1> QED
  BY <1>1, <1>2 DEF Service!PassOn, Line

LEMMA Releases ==
  ASSUME NEW f \in Files, NEW c \in Clients, c \notin Owed(f), c \notin Waiting(f),
         NEW q, q = HandOver(file[f]), file[f] \in FileRecords, file[f].locked_by = c,
         file'[f].locked_by = q.locked_by, Line(f)' = q.lock_queue.items,
         Owed(f)' = Owed(f) \cup ({c} \cup ({NextOwner(file[f])} \ {NoClient}))
  PROVE  ServiceStep(f)
<1> DEFINE T == {c} \cup ({NextOwner(file[f])} \ {NoClient})
<1>1. Service(f)!PassOn(T) /\ NextOwner(file[f]) = Service(f)!First
  BY PassesOn
<1>2. Service(f)!Release(c)
  BY <1>1, NotBusy DEF Service!Release
<1> QED
  BY <1>2 DEF ServiceStep, Service!Next

LEMMA Removes ==
  ASSUME NEW f \in Files, NEW c \in Clients, c \notin Owed(f), c \notin Waiting(f),
         file[f].locked_by = c, file'[f] = Absent, Owed(f)' = Owed(f) \cup {c}
  PROVE  ServiceStep(f)
<1>1. Service(f)!Remove(c)
  BY NotBusy DEF Service!Remove, Absent, EmptyList
<1> QED
  BY <1>1 DEF ServiceStep, Service!Next

LEMMA Evicts ==
  ASSUME NEW f \in Files, file'[f] = Absent, Owed(f)' = Owed(f) \cup Waiting(f)
  PROVE  ServiceStep(f)
<1>1. Service(f)!Evict
  BY DEF Service!Evict, Service!Range, Range, Waiting, Waits, Values, Absent, EmptyList
<1> QED
  BY <1>1 DEF ServiceStep, Service!Next

LEMMA IsAnswered ==
  ASSUME NEW f \in Files, NEW c \in Owed(f),
         file' = file, Owed(f)' = Owed(f) \ {c}
  PROVE  ServiceStep(f)
<1>1. c \in Clients
  BY DEF Owed
<1>2. Service(f)!Answer(c)
  BY DEF Service!Answer
<1> QED
  BY <1>1, <1>2 DEF ServiceStep, Service!Next

\* A dead owner passes the lock on; a dead client that waits leaves the line.
LEMMA OwnerVanishes ==
  ASSUME NEW f \in Files, NEW c \in Clients, file[f].locked_by = c,
         NEW q, q = HandOver(file[f]), file[f] \in FileRecords,
         file'[f].locked_by = q.locked_by, Line(f)' = q.lock_queue.items, Owed(f)' = Owed(f)
  PROVE  ServiceStep(f)
<1>1. Owed(f)' = Owed(f) \cup {}
  OBVIOUS
<1>2. Service(f)!PassOn({})
  BY <1>1, PassesOn
<1>3. Service(f)!Vanish(c)
  BY <1>2 DEF Service!Vanish
<1> QED
  BY <1>3 DEF ServiceStep, Service!Next

LEMMA WaiterVanishes ==
  ASSUME NEW f \in Files, NEW c \in Clients,
         NEW i \in DOMAIN Line(f), Line(f)[i] = c, Line(f)' = Without(Line(f), i),
         file'[f].locked_by = file[f].locked_by, Owed(f)' = Owed(f)
  PROVE  ServiceStep(f)
<1>1. Service(f)!Vanish(c)
  BY DEF Service!Vanish, Line, Without
<1> QED
  BY <1>1 DEF ServiceStep, Service!Next

-------------------------------------------------------------------------------
(* Who is owed something.                                                  *)

LEMMA ToldOfOne ==
  ASSUME NEW m \in Messages, NEW f
  PROVE  /\ ToldOf(<< >>, f) = {}
         /\ ToldOf(<< m >>, f) = IF m.about = f THEN Range(m.to) ELSE {}
<1>1. Range(m.to) \subseteq Clients
  BY DEF Messages, Range
<1>2. Len(<< m >>) = 1 /\ << m >>[1] = m /\ 1 .. 1 = {1} /\ Len(<< >>) = 0
  OBVIOUS
<1> QED
  BY <1>1, <1>2 DEF ToldOf

LEMMA ToldOfAnswer ==
  ASSUME NEW m \in Messages, NEW c, m.to = << c >>, NEW f
  PROVE  ToldOf(<< m >>, f) = IF m.about = f THEN {c} ELSE {}
<1>1. Range(m.to) = {c}
  BY DEF Range
<1> QED
  BY <1>1, ToldOfOne

LEMMA OkTells ==
  ASSUME NEW c \in Clients, NEW g \in Files, NEW f
  PROVE  /\ << Ok(c, g) >> \in Seq(Messages)
         /\ ToldOf(<< Ok(c, g) >>, f) = IF f = g THEN {c} ELSE {}
<1> DEFINE m == Ok(c, g)
<1>1. m \in Messages /\ m.to = << c >> /\ m.about = g
  BY OkAnswer
<1> HIDE DEF m
<1>2. << m >> \in Seq(Messages) /\ ToldOf(<< m >>, f) = IF m.about = f THEN {c} ELSE {}
  BY <1>1, ToldOfAnswer
<1> QED
  BY <1>1, <1>2 DEF m

LEMMA ToldOfMore ==
  ASSUME NEW a \in Seq(Messages), NEW b \in Seq(Messages), NEW f
  PROVE  ToldOf(a \o b, f) = ToldOf(a, f) \cup ToldOf(b, f)
<1> DEFINE s == a \o b
           n == Len(a) + Len(b)
<1>1. /\ Len(s) = n /\ Len(a) \in Nat /\ Len(b) \in Nat
      /\ \A i \in 1 .. n : s[i] = IF i <= Len(a) THEN a[i] ELSE b[i - Len(a)]
  BY ConcatProperties
<1> HIDE DEF s
<1>2. \A i \in 1 .. Len(a) : i \in 1 .. n /\ s[i] = a[i]
  BY <1>1
<1>3. \A i \in 1 .. Len(b) : Len(a) + i \in 1 .. n /\ s[Len(a) + i] = b[i]
  BY <1>1
<1>4. \A i \in 1 .. n : \/ i \in 1 .. Len(a) /\ s[i] = a[i]
                        \/ i - Len(a) \in 1 .. Len(b) /\ s[i] = b[i - Len(a)]
  BY <1>1
<1>5. ToldOf(s, f) = ToldOf(a, f) \cup ToldOf(b, f)
  BY <1>1, <1>2, <1>3, <1>4, ZenonT(60) DEF ToldOf
<1> QED
  BY <1>5 DEF s

\* Owed are those whom somebody's sends tell something.
LEMMA OwedByAll ==
  ASSUME out \in [Clients -> Seq(Messages)], NEW f
  PROVE  \A x : x \in Owed(f) <=> \E d \in Clients : x \in ToldOf(out[d], f)
<1>1. \A d \in Clients : DOMAIN out[d] = 1 .. Len(out[d])
  OBVIOUS
<1> QED
  BY <1>1 DEF Owed, ToldOf

LEMMA OwedAfterReplies ==
  ASSUME out \in [Clients -> Seq(Messages)], NEW c \in Clients, out[c] = << >>,
         NEW msgs \in Seq(Messages), out' = [out EXCEPT ![c] = msgs], NEW f
  PROVE  Owed(f)' = Owed(f) \cup ToldOf(msgs, f)
<1>1. out' \in [Clients -> Seq(Messages)]
  OBVIOUS
<1>2. \A x : x \in Owed(f)' <=> \E d \in Clients : x \in ToldOf(out'[d], f)
  <2>1. \A d \in Clients : DOMAIN out'[d] = 1 .. Len(out'[d])
    BY <1>1
  <2> QED
    BY <2>1 DEF Owed, ToldOf
<1>3. /\ out'[c] = msgs /\ \A d \in Clients \ {c} : out'[d] = out[d]
      /\ ToldOf(out[c], f) = {}
  BY DEF ToldOf
<1> QED
  BY <1>2, <1>3, OwedByAll

\* A client whose request is handled is owed nothing and waits for nothing.
LEMMA HandlesFreely ==
  ASSUME LockInv, NEW c \in Clients, Handles(c), NEW f \in Files
  PROVE  c \notin Owed(f) /\ c \notin Waiting(f)
<1>1. out \in [Clients -> Seq(Messages)]
  BY DEF LockInv, Inv, SessionType
<1>2. \A d \in Clients : c \notin DueFrom(d)
  BY DEF LockInv, Sessions, Handles
<1>3. \A d \in Clients : ToldOf(out[d], f) \subseteq DueFrom(d)
  BY DEF ToldOf, DueFrom, Recipients
<1> QED
  BY <1>1, <1>2, <1>3, OwedByAll, HandlesFree

-------------------------------------------------------------------------------
(* The handlers.                                                           *)

OutType == out \in [Clients -> Seq(Messages)]

LEMMA TypesHold ==
  ASSUME LockInv
  PROVE  OutType /\ \A f \in Files : file[f] \in FileRecords /\ FileLocks(file[f])
BY FilesType DEF LockInv, Inv, SessionType, OutType

\* The locks of the other files are left alone by a handler that only changes g
\* and only sends something about g.
LEMMA OthersAlone ==
  ASSUME LockInv, NEW c \in Clients, Handles(c), NEW msgs \in Seq(Messages),
         out' = [out EXCEPT ![c] = msgs],
         NEW f \in Files, file'[f] = file[f], ToldOf(msgs, f) = {}
  PROVE  ServiceStep(f)
<1>1. Owed(f)' = Owed(f)
  BY TypesHold, OwedAfterReplies DEF OutType, Handles
<1> QED
  BY <1>1, LockAlone DEF Line

\* c is answered and no lock changes.
LEMMA AnswerService ==
  ASSUME LockInv, NEW c \in Clients, Handles(c), NEW m \in Messages, m.to = << c >>,
         out' = [out EXCEPT ![c] = << m >>],
         NEW f \in Files, file'[f].locked_by = file[f].locked_by, Line(f)' = Line(f)
  PROVE  ServiceStep(f)
<1>1. << m >> \in Seq(Messages)
  OBVIOUS
<1>2. Owed(f)' = Owed(f) \cup ToldOf(<< m >>, f)
  BY <1>1, TypesHold, OwedAfterReplies DEF OutType, Handles
<1>3. ToldOf(<< m >>, f) = IF m.about = f THEN {c} ELSE {}
  BY ToldOfAnswer
<1> HIDE DEF ServiceStep
<1>4. CASE m.about = f
  BY <1>2, <1>3, <1>4, HandlesFreely, Asks
<1>5. CASE m.about # f
  BY <1>2, <1>3, <1>5, LockAlone
<1> QED
  BY <1>4, <1>5

LEMMA CorruptsService ==
  ASSUME Corrupts, NEW f \in Files
  PROVE  ServiceStep(f)
<1>1. file' = file /\ out' = out
  BY DEF Corrupts, storeVars, sessionVars
<1> QED
  BY <1>1, LockAlone DEF Line, Owed

LEMMA FailsService ==
  ASSUME LockInv, NEW c \in Clients, Handles(c), NEW g \in Files, NEW e \in Errors,
         Fails(c, g, e), NEW f \in Files
  PROVE  ServiceStep(f)
<1> DEFINE m == Answer(c, g, e, {})
<1>1. m \in Messages
  BY AnswerType DEF Answers
<1>2. m.to = << c >>
  BY DEF Answer
<1>3. file' = file /\ out' = [out EXCEPT ![c] = << m >>]
  BY DEF Fails, Replies, storeVars
<1> HIDE DEF m
<1> QED
  BY <1>1, <1>2, <1>3, AnswerService DEF Line

\* The only change to the lock of g is that c takes it.
LEMMA TakeService ==
  ASSUME LockInv, NEW c \in Clients, Handles(c), NEW g \in Files, NEW r,
         file' = [file EXCEPT ![g] = r], out' = [out EXCEPT ![c] = << Ok(c, g) >>],
         file[g].locked_by \in {NoClient, c}, r.locked_by = c,
         r.lock_queue = file[g].lock_queue, NEW f \in Files
  PROVE  ServiceStep(f)
<1>1. /\ Ok(c, g) \in Messages /\ Ok(c, g).to = << c >> /\ Ok(c, g).about = g
      /\ << Ok(c, g) >> \in Seq(Messages)
  BY OkAnswer
<1>2. file'[g] = r /\ \A h \in Files \ {g} : file'[h] = file[h]
  BY FilesType
<1>3. CASE f # g \/ file[g].locked_by = c
  BY <1>1, <1>2, <1>3, AnswerService DEF Line
<1>4. CASE f = g /\ file[g].locked_by = NoClient
  <2>1. Owed(f)' = Owed(f) \cup {c}
    <3>1. ToldOf(<< Ok(c, g) >>, f) = {c}
      BY <1>1, <1>4, ToldOfAnswer
    <3> QED
      BY <1>1, <3>1, TypesHold, OwedAfterReplies DEF OutType, Handles
  <2> QED
    BY <1>2, <1>4, <2>1, HandlesFreely, Takes DEF Line
<1> QED
  BY <1>3, <1>4

LEMMA OpenCreateService ==
  ASSUME LockInv, NEW c \in Clients, NEW g \in Files, NEW lock \in BOOLEAN,
         OpenCreate(c, g, lock), NEW f \in Files
  PROVE  ServiceStep(f)
<1>0. Handles(c)
  BY DEF OpenCreate, InWriteSection
<1>1. CASE OpenCreateRefusal(g) # "OK" /\ Fails(c, g, OpenCreateRefusal(g))
  <2>1. OpenCreateRefusal(g) \in Errors
    BY <1>1 DEF OpenCreateRefusal, Errors
  <2> QED
    BY <1>0, <1>1, <2>1, FailsService
<1>2. CASE /\ OpenCreateRefusal(g) = "OK"
           /\ file' = [file EXCEPT ![g] = NewFile(c, lock)]
           /\ Replies(c, << Ok(c, g) >>)
  <2> DEFINE r == NewFile(c, lock)
  <2>1. file[g] = Absent
    BY <1>2, FilesType DEF OpenCreateRefusal, Present
  <2>2. /\ r.lock_queue = Absent.lock_queue
        /\ r.locked_by = IF lock THEN c ELSE Absent.locked_by
    BY DEF NewFile, file_add_client, create_file, Absent
  <2>3. out' = [out EXCEPT ![c] = << Ok(c, g) >>]
    BY <1>2 DEF Replies
  <2> HIDE DEF r
  <2>4. file' = [file EXCEPT ![g] = r]
    BY <1>2 DEF r
  <2>5. CASE lock
    BY <1>0, <2>1, <2>2, <2>3, <2>4, <2>5, AbsentLocks, TakeService
  <2>6. CASE ~ lock
    <3>1. file'[f].locked_by = file[f].locked_by /\ Line(f)' = Line(f)
      <4>1. file'[f] = IF f = g THEN r ELSE file[f]
        BY <2>4, FilesType
      <4> QED
        BY <2>1, <2>2, <2>6, <4>1 DEF Line
    <3> QED
      BY <1>0, <2>3, <3>1, OkAnswer, AnswerService
  <2> QED
    BY <2>5, <2>6
<1> QED
  BY <1>1, <1>2 DEF OpenCreate

\* r is the file with c among its openers.
LEMMA TakesLockService ==
  ASSUME LockInv, NEW c \in Clients, Handles(c), NEW g \in Files, NEW r \in FileRecords,
         r.lock_queue = file[g].lock_queue, r.locked_by = file[g].locked_by,
         TakesLock(c, g, r), NEW f \in Files
  PROVE  ServiceStep(f)
<1>1. CASE /\ r.locked_by \in {NoClient, c}
           /\ Updates(g, [r EXCEPT !.locked_by = c])
           /\ Replies(c, << Ok(c, g) >>)
  <2> DEFINE q == [r EXCEPT !.locked_by = c]
  <2>1. q.locked_by = c /\ q.lock_queue = file[g].lock_queue
    BY DEF FileRecords
  <2>2. file' = [file EXCEPT ![g] = q] /\ out' = [out EXCEPT ![c] = << Ok(c, g) >>]
    BY <1>1 DEF Updates, Replies
  <2> HIDE DEF q
  <2> QED
    BY <1>1, <2>1, <2>2, TakeService
<1>2. CASE /\ r.locked_by \notin {NoClient, c}
           /\ Updates(g, file_enqueue_lock(r, c))
           /\ Replies(c, << >>)
  <2> DEFINE q == file_enqueue_lock(r, c)
  <2>1. q.locked_by = file[g].locked_by /\ q.lock_queue.items = Append(Line(g), c)
    <3>1. r.lock_queue \in List(Clients)
      BY RecordLists
    <3> QED
      BY <3>1 DEF file_enqueue_lock, ll_add_tail, FileRecords, Line, List
  <2>2. file' = [file EXCEPT ![g] = q] /\ out' = [out EXCEPT ![c] = << >>]
    BY <1>2 DEF Updates, Replies
  <2> HIDE DEF q
  <2>3. file'[g] = q /\ \A h \in Files \ {g} : file'[h] = file[h]
    BY <2>2, FilesType
  <2>4. << >> \in Seq(Messages) /\ ToldOf(<< >>, f) = {}
    BY DEF ToldOf
  <2>5. CASE f # g
    BY <2>2, <2>3, <2>4, <2>5, OthersAlone
  <2>6. CASE f = g
    <3>1. Owed(f)' = Owed(f)
      BY <2>2, <2>4, TypesHold, OwedAfterReplies DEF OutType, Handles
    <3>2. Line(f)' = Append(Line(f), c) /\ file'[f].locked_by = file[f].locked_by
      BY <2>1, <2>3, <2>6 DEF Line
    <3> QED
      BY <1>2, <2>6, <3>1, <3>2, HandlesFreely, Joins
  <2> QED
    BY <2>5, <2>6
<1>3. CASE Corrupts
  BY <1>3, CorruptsService
<1> QED
  BY <1>1, <1>2, <1>3 DEF TakesLock

\* A change of g that leaves its lock alone, and an answer.
LEMMA SameLockService ==
  ASSUME LockInv, NEW c \in Clients, Handles(c), NEW g \in Files, NEW r,
         Updates(g, r), Replies(c, << Ok(c, g) >>),
         r.lock_queue = file[g].lock_queue, r.locked_by = file[g].locked_by,
         NEW f \in Files
  PROVE  ServiceStep(f)
<1>1. file'[f] = IF f = g THEN r ELSE file[f]
  BY FilesType DEF Updates
<1>2. file'[f].locked_by = file[f].locked_by /\ Line(f)' = Line(f)
  BY <1>1 DEF Line
<1>3. out' = [out EXCEPT ![c] = << Ok(c, g) >>]
  BY DEF Replies
<1> QED
  BY <1>2, <1>3, OkAnswer, AnswerService

LEMMA OpenedKeepsLock ==
  ASSUME NEW r \in FileRecords, NEW c \in Clients
  PROVE  /\ Opened(r, c).lock_queue = r.lock_queue
         /\ Opened(r, c).locked_by = r.locked_by
BY DEF Opened, file_add_client, FileRecords

LEMMA OpenService ==
  ASSUME LockInv, NEW c \in Clients, NEW g \in Files, NEW lock \in BOOLEAN,
         Open(c, g, lock), NEW f \in Files
  PROVE  ServiceStep(f)
<1> DEFINE r == Opened(file[g], c)
<1>0. Handles(c)
  BY DEF Open, InWriteSection
<1>1. /\ r \in FileRecords /\ r.lock_queue = file[g].lock_queue
      /\ r.locked_by = file[g].locked_by
  BY FilesType, OpenedLocks, OpenedKeepsLock
<1>2. \/ Fails(c, g, "ENOENT")
      \/ Updates(g, r) /\ Replies(c, << Ok(c, g) >>)
      \/ TakesLock(c, g, r)
  BY DEF Open
<1>3. "ENOENT" \in Errors
  BY DEF Errors
<1> HIDE DEF r
<1> QED
  BY <1>0, <1>1, <1>2, <1>3, FailsService, SameLockService, TakesLockService

LEMMA LockLockService ==
  ASSUME LockInv, NEW c \in Clients, NEW g \in Files, Lock(c, g), NEW f \in Files
  PROVE  ServiceStep(f)
<1>0. Handles(c) /\ file[g] \in FileRecords
  BY FilesType DEF Lock, InWriteSection
<1>1. \/ LockRefusal(c, g) # "OK" /\ Fails(c, g, LockRefusal(c, g))
      \/ TakesLock(c, g, file[g])
  BY DEF Lock
<1>2. LockRefusal(c, g) # "OK" => LockRefusal(c, g) \in Errors
  BY DEF LockRefusal, Errors
<1> QED
  BY <1>0, <1>1, <1>2, FailsService, TakesLockService

\* c gives the lock up; r is the file after HandOver, its openers aside.
LEMMA ReleaseService ==
  ASSUME LockInv, NEW c \in Clients, Handles(c), NEW g \in Files, file[g].locked_by = c,
         NEW r, r.locked_by = HandOver(file[g]).locked_by,
         r.lock_queue = HandOver(file[g]).lock_queue,
         Updates(g, r), Replies(c, Grant(NextOwner(file[g]), g) \o << Ok(c, g) >>),
         NEW f \in Files
  PROVE  ServiceStep(f)
<1> DEFINE w    == NextOwner(file[g])
           msgs == Grant(w, g) \o << Ok(c, g) >>
<1>1. /\ w \in Clients \cup {NoClient} /\ Grant(w, g) \in Seq(Messages)
      /\ << Ok(c, g) >> \in Seq(Messages)
  BY FilesType, NextOwnerType, GrantType, OkType
<1>2. file'[g] = r /\ \A h \in Files \ {g} : file'[h] = file[h]
  BY FilesType DEF Updates
<1>3. ToldOf(Grant(w, g), f) = IF f = g THEN {w} \ {NoClient} ELSE {}
  <2>1. CASE w = NoClient
    BY <2>1 DEF Grant, ToldOf
  <2>2. CASE w # NoClient
    <3>1. w \in Clients
      BY <1>1, <2>2
    <3>2. Ok(w, g) \in Messages /\ Ok(w, g).to = << w >> /\ Ok(w, g).about = g
      BY <3>1, OkAnswer
    <3>3. Grant(w, g) = << Ok(w, g) >>
      BY <2>2 DEF Grant
    <3> HIDE DEF w
    <3>4. ToldOf(<< Ok(w, g) >>, f) = IF f = g THEN {w} ELSE {}
      BY <3>2, ToldOfAnswer
    <3> QED
      BY <2>2, <3>3, <3>4
  <2> QED
    BY <2>1, <2>2
<1>4. ToldOf(<< Ok(c, g) >>, f) = IF f = g THEN {c} ELSE {}
  BY OkTells
<1> HIDE DEF w
<1>5. msgs \in Seq(Messages) /\ ToldOf(msgs, f) = IF f = g THEN {c} \cup ({w} \ {NoClient}) ELSE {}
  <2> DEFINE a == Grant(w, g)
             b == << Ok(c, g) >>
  <2>1. a \in Seq(Messages) /\ b \in Seq(Messages)
    BY <1>1
  <2>2. /\ ToldOf(a, f) = IF f = g THEN {w} \ {NoClient} ELSE {}
        /\ ToldOf(b, f) = IF f = g THEN {c} ELSE {}
    BY <1>3, <1>4
  <2> HIDE DEF a, b
  <2>3. a \o b \in Seq(Messages) /\ ToldOf(a \o b, f) = ToldOf(a, f) \cup ToldOf(b, f)
    BY <2>1, ToldOfMore
  <2>4. msgs = a \o b
    BY DEF a, b
  <2> QED
    BY <2>2, <2>3, <2>4
<1>6. out' = [out EXCEPT ![c] = msgs]
  BY DEF Replies, w
<1> HIDE DEF msgs
<1>7. CASE f # g
  BY <1>2, <1>5, <1>6, <1>7, OthersAlone
<1>8. CASE f = g
  <2>1. Owed(f)' = Owed(f) \cup ({c} \cup ({w} \ {NoClient}))
    BY <1>5, <1>6, <1>8, TypesHold, OwedAfterReplies DEF OutType, Handles
  <2> DEFINE q == HandOver(file[f])
  <2>2. /\ q = HandOver(file[f]) /\ file[f] \in FileRecords
        /\ file'[f].locked_by = q.locked_by /\ Line(f)' = q.lock_queue.items
    BY <1>2, <1>8, FilesType DEF Line
  <2> HIDE DEF q
  <2> QED
    BY <1>8, <2>1, <2>2, HandlesFreely, Releases DEF w
<1> QED
  BY <1>7, <1>8

LEMMA UnlockService ==
  ASSUME LockInv, NEW c \in Clients, NEW g \in Files, Unlock(c, g), NEW f \in Files
  PROVE  ServiceStep(f)
<1>0. Handles(c)
  BY DEF Unlock, InWriteSection
<1>1. CASE UnlockRefusal(c, g) # "OK" /\ Fails(c, g, UnlockRefusal(c, g))
  <2>1. UnlockRefusal(c, g) \in Errors
    BY <1>1 DEF UnlockRefusal, Errors
  <2> QED
    BY <1>0, <1>1, <2>1, FailsService
<1>2. CASE /\ UnlockRefusal(c, g) = "OK"
           /\ Updates(g, HandOver(file[g]))
           /\ Replies(c, Grant(NextOwner(file[g]), g) \o << Ok(c, g) >>)
  <2>1. file[g].locked_by = c
    BY <1>2 DEF UnlockRefusal
  <2> QED
    BY <1>0, <1>2, <2>1, ReleaseService
<1> QED
  BY <1>1, <1>2 DEF Unlock

LEMMA CloseService ==
  ASSUME LockInv, NEW c \in Clients, NEW g \in Files, Close(c, g), NEW f \in Files
  PROVE  ServiceStep(f)
<1>0. Handles(c) /\ file[g] \in FileRecords /\ FileLocks(file[g])
  BY FilesType DEF Close, InWriteSection
<1>1. CASE Fails(c, g, "ENOENT")
  BY <1>0, <1>1, FailsService DEF Errors
<1>2. CASE /\ file[g].locked_by = c
           /\ Updates(g, file_close_client(HandOver(file[g]), c))
           /\ Replies(c, Grant(NextOwner(file[g]), g) \o << Ok(c, g) >>)
  <2> DEFINE q == HandOver(file[g])
             r == file_close_client(q, c)
  <2>1. q \in FileRecords /\ Distinct(q.opened_by)
    BY <1>0, HandOverQueue DEF FileLocks
  <2> HIDE DEF q
  <2>2. r.lock_queue = q.lock_queue /\ r.locked_by = q.locked_by
    BY <2>1, CloseClientQueue
  <2> HIDE DEF r
  <2> QED
    BY <1>0, <1>2, <2>2, ReleaseService DEF q, r
<1>3. CASE Updates(g, file_close_client(file[g], c)) /\ Replies(c, << Ok(c, g) >>)
  <2> DEFINE r == file_close_client(file[g], c)
  <2>1. r.lock_queue = file[g].lock_queue /\ r.locked_by = file[g].locked_by
    BY <1>0, CloseClientQueue DEF FileLocks
  <2>2. Updates(g, r)
    BY <1>3
  <2> HIDE DEF r
  <2> QED
    BY <1>0, <1>3, <2>1, <2>2, SameLockService
<1> QED
  BY <1>1, <1>2, <1>3 DEF Close

LEMMA RemoveService ==
  ASSUME LockInv, NEW c \in Clients, NEW g \in Files, Remove(c, g), NEW f \in Files
  PROVE  ServiceStep(f)
<1>0. Handles(c)
  BY DEF Remove, InWriteSection
<1>1. CASE RemoveRefusal(c, g) # "OK" /\ Fails(c, g, RemoveRefusal(c, g))
  <2>1. RemoveRefusal(c, g) \in Errors
    BY <1>1 DEF RemoveRefusal, Errors
  <2> QED
    BY <1>0, <1>1, <2>1, FailsService
<1>2. CASE /\ RemoveRefusal(c, g) = "OK"
           /\ file' = [file EXCEPT ![g] = Absent]
           /\ out' = [out EXCEPT ![c] = << Ok(c, g) >>]
  <2>1. file'[g] = Absent /\ \A h \in Files \ {g} : file'[h] = file[h]
    BY <1>2, FilesType
  <2>2. /\ << Ok(c, g) >> \in Seq(Messages)
        /\ ToldOf(<< Ok(c, g) >>, f) = IF f = g THEN {c} ELSE {}
    BY OkTells
  <2>3. CASE f # g
    BY <1>0, <1>2, <2>1, <2>2, <2>3, OthersAlone
  <2>4. CASE f = g
    <3>1. Owed(f)' = Owed(f) \cup {c}
      BY <1>0, <1>2, <2>2, <2>4, TypesHold, OwedAfterReplies DEF OutType, Handles
    <3>2. file[f].locked_by = c
      BY <1>2, <2>4 DEF RemoveRefusal
    <3> QED
      BY <1>0, <2>1, <2>4, <3>1, <3>2, HandlesFreely, Removes
  <2> QED
    BY <2>3, <2>4
<1>3. CASE Corrupts
  BY <1>3, CorruptsService
<1> QED
  BY <1>1, <1>2, <1>3 DEF Remove

\* The content of g goes out, or that of several files, with an answer.
LEMMA SendsService ==
  ASSUME LockInv, NEW c \in Clients, Handles(c), NEW m \in Messages, m.to = << c >>,
         Sends(c, m), NEW f \in Files
  PROVE  ServiceStep(f)
<1>1. file' = file /\ out' = [out EXCEPT ![c] = << m >>]
  BY DEF Sends, storeVars
<1> QED
  BY <1>1, AnswerService DEF Line

LEMMA ReadService ==
  ASSUME LockInv, NEW c \in Clients, NEW g \in Files, Read(c, g), NEW f \in Files
  PROVE  ServiceStep(f)
<1> DEFINE m == Answer(c, g, "OK", {g})
<1>0. Handles(c)
  BY DEF Read
<1>1. \/ ReadRefusal(c, g) # "OK" /\ Fails(c, g, ReadRefusal(c, g))
      \/ Sends(c, m)
  BY DEF Read
<1>2. ReadRefusal(c, g) # "OK" => ReadRefusal(c, g) \in Errors
  BY DEF ReadRefusal, Errors
<1>3. m \in Messages
  BY AnswerType DEF Answers
<1>4. m.to = << c >>
  BY DEF Answer
<1> HIDE DEF m
<1> QED
  BY <1>0, <1>1, <1>2, <1>3, <1>4, FailsService, SendsService

LEMMA ReadNService ==
  ASSUME LockInv, NEW c \in Clients, NEW n, ReadN(c, n), NEW f \in Files
  PROVE  ServiceStep(f)
<1>1. PICK D \in SUBSET filenames : Sends(c, Answer(c, NoFile, "OK", D))
  BY DEF ReadN
<1> DEFINE m == Answer(c, NoFile, "OK", D)
<1>2. D \in SUBSET Files
  BY FilesType DEF Present
<1>3. m \in Messages
  BY <1>2, AnswerType DEF Answers
<1>4. m.to = << c >>
  BY DEF Answer
<1>5. Sends(c, m) /\ Handles(c)
  BY <1>1 DEF ReadN
<1> HIDE DEF m
<1> QED
  BY <1>3, <1>4, <1>5, SendsService

-------------------------------------------------------------------------------
(* Write and append.                                                       *)

\* The waiters of the evicted files are told, and nobody else but c.
LEMMA WriteAnswersTell ==
  ASSUME LockInv, NEW c \in Clients, NEW g \in Files, NEW vs \in Seq(Files),
         Range(vs) \subseteq Present \ {g}, IsInjective(vs),
         NEW sendBack \in BOOLEAN, NEW f \in Files
  PROVE  ToldOf(WriteAnswers(c, g, vs, sendBack), f) =
           IF f = g THEN {c} ELSE IF f \in Range(vs) THEN Waiting(f) ELSE {}
<1> DEFINE removals == [i \in 1 .. Len(vs) |-> Removed(vs[i])]
           back == << Answer(c, g, "OK", Range(vs)) >>
           ok   == << Ok(c, g) >>
<1>1. WriteAnswers(c, g, vs, sendBack) = IF sendBack THEN removals \o back ELSE ok \o removals
  BY DEF WriteAnswers
<1>2. /\ removals \in Seq(Messages) /\ Len(removals) = Len(vs)
      /\ \A i \in 1 .. Len(vs) : removals[i] = Removed(vs[i])
  BY RemovalsType DEF LockInv
<1> HIDE DEF removals
<1>3. ToldOf(removals, f) = IF f \in Range(vs) THEN Waiting(f) ELSE {}
  <2>1. ASSUME NEW i \in 1 .. Len(vs)
        PROVE  removals[i].about = vs[i] /\ Range(removals[i].to) = Waiting(vs[i])
    <3>1. /\ Removed(vs[i]).about = vs[i]
          /\ Removed(vs[i]).to = file[vs[i]].lock_queue.items
      BY DEF Removed
    <3> QED
      BY <1>2, <3>1 DEF Waiting, Waits, Values
  <2>2. \A h : h \in Range(vs) <=> \E i \in 1 .. Len(vs) : h = vs[i]
    BY DEF Range
  <2>3. Waiting(f) \subseteq Clients
    BY WaitingType DEF LockInv
  <2> QED
    BY <1>2, <2>1, <2>2, <2>3 DEF ToldOf
<1>4. /\ back \in Seq(Messages) /\ ToldOf(back, f) = IF f = g THEN {c} ELSE {}
  <2> DEFINE m == Answer(c, g, "OK", Range(vs))
  <2>1. Range(vs) \in SUBSET Files
    BY DEF Present
  <2>2. m \in Messages /\ << m >> \in Seq(Messages)
    BY <2>1, AnswerType DEF Answers
  <2>3. m.to = << c >> /\ m.about = g
    BY DEF Answer
  <2> HIDE DEF m
  <2>4. ToldOf(<< m >>, f) = IF m.about = f THEN {c} ELSE {}
    BY <2>2, <2>3, ToldOfAnswer
  <2> QED
    BY <2>2, <2>3, <2>4 DEF m
<1>5. /\ ok \in Seq(Messages) /\ ToldOf(ok, f) = IF f = g THEN {c} ELSE {}
  BY OkTells
<1> HIDE DEF back, ok
<1>6. /\ ToldOf(removals \o back, f) = ToldOf(removals, f) \cup ToldOf(back, f)
      /\ ToldOf(ok \o removals, f) = ToldOf(ok, f) \cup ToldOf(removals, f)
  BY <1>2, <1>4, <1>5, ToldOfMore
<1> QED
  BY <1>1, <1>3, <1>4, <1>5, <1>6

\* r is g with its new content.
LEMMA StoreDataService ==
  ASSUME LockInv, NEW c \in Clients, Handles(c), NEW g \in Files,
         NEW n \in Nat, NEW sendBack \in BOOLEAN,
         NEW r, r.locked_by = file[g].locked_by, r.lock_queue = file[g].lock_queue,
         StoreData(c, g, r, n, sendBack), NEW f \in Files
  PROVE  ServiceStep(f)
<1>1. CASE Fails(c, g, "EFBIG")
  BY <1>1, FailsService DEF Errors
<1>2. CASE Corrupts
  BY <1>2, CorruptsService
<1>3. ASSUME NEW vs \in Evictions(g, n),
             file' = [h \in Files |-> IF h \in Range(vs) THEN Absent
                                      ELSE IF h = g THEN r ELSE file[h]],
             Replies(c, WriteAnswers(c, g, vs, sendBack))
      PROVE  ServiceStep(f)
  <2> DEFINE msgs == WriteAnswers(c, g, vs, sendBack)
  <2>1. vs \in Seq(Files) /\ Range(vs) \subseteq Present \ {g} /\ IsInjective(vs)
    BY EvictionsProperties DEF LockInv
  <2>2. /\ msgs \in Seq(Messages)
        /\ ToldOf(msgs, f) = IF f = g THEN {c} ELSE IF f \in Range(vs) THEN Waiting(f) ELSE {}
    BY <2>1, WriteAnswersType, WriteAnswersTell DEF LockInv
  <2>3. out' = [out EXCEPT ![c] = msgs]
    BY <1>3 DEF Replies
  <2> HIDE DEF msgs
  <2>4. Owed(f)' = Owed(f) \cup ToldOf(msgs, f)
    BY <2>2, <2>3, TypesHold, OwedAfterReplies DEF OutType, Handles
  <2>5. file'[f] = IF f \in Range(vs) THEN Absent ELSE IF f = g THEN r ELSE file[f]
    BY <1>3
  <2>6. CASE f = g
    <3>1. Owed(f)' = Owed(f) \cup {c}
      BY <2>2, <2>4, <2>6
    <3>2. file'[f].locked_by = file[f].locked_by /\ Line(f)' = Line(f)
      BY <2>1, <2>5, <2>6 DEF Line
    <3> QED
      BY <3>1, <3>2, HandlesFreely, Asks
  <2>7. CASE f \in Range(vs)
    <3>1. f # g
      BY <2>1, <2>7
    <3> QED
      BY <2>2, <2>4, <2>5, <2>7, <3>1, Evicts
  <2>8. CASE f # g /\ f \notin Range(vs)
    BY <2>2, <2>3, <2>5, <2>8, OthersAlone
  <2> QED
    BY <2>6, <2>7, <2>8
<1> QED
  BY <1>1, <1>2, <1>3 DEF StoreData

LEMMA NewContentKeepsLock ==
  ASSUME NEW r \in FileRecords, NEW n \in Nat
  PROVE  /\ file_replace_content(r, n).locked_by = r.locked_by
         /\ file_replace_content(r, n).lock_queue = r.lock_queue
         /\ file_append_content(r, n).locked_by = r.locked_by
         /\ file_append_content(r, n).lock_queue = r.lock_queue
         /\ [r EXCEPT !.write_enabled = FALSE].locked_by = r.locked_by
         /\ [r EXCEPT !.write_enabled = FALSE].lock_queue = r.lock_queue
BY DEF file_replace_content, file_append_content, FileRecords

LEMMA ResetWriteModeService ==
  ASSUME LockInv, NEW c \in Clients, Handles(c), NEW g \in Files, ResetWriteMode(c, g),
         NEW f \in Files
  PROVE  ServiceStep(f)
<1> DEFINE r == [file[g] EXCEPT !.write_enabled = FALSE]
<1>1. r.locked_by = file[g].locked_by /\ r.lock_queue = file[g].lock_queue
  BY FilesType, NewContentKeepsLock
<1>2. Updates(g, r) /\ Replies(c, << Ok(c, g) >>)
  BY DEF ResetWriteMode
<1> HIDE DEF r
<1> QED
  BY <1>1, <1>2, SameLockService

LEMMA WriteService ==
  ASSUME LockInv, NEW c \in Clients, NEW g \in Files, NEW n \in Sizes,
         NEW sendBack \in BOOLEAN, Write(c, g, n, sendBack), NEW f \in Files
  PROVE  ServiceStep(f)
<1> DEFINE r == file_replace_content(file[g], n)
           e == WriteRefusal(c, g, n)
<1>0. Handles(c) /\ n \in Nat
  BY ConstantsAssumption DEF Write, InWriteSection
<1>1. \/ e # "OK" /\ Fails(c, g, e)
      \/ ResetWriteMode(c, g)
      \/ StoreData(c, g, r, n, sendBack)
  BY DEF Write
<1>2. e # "OK" => e \in Errors
  BY DEF WriteRefusal, Errors
<1>3. r.locked_by = file[g].locked_by /\ r.lock_queue = file[g].lock_queue
  BY <1>0, FilesType, NewContentKeepsLock
<1> HIDE DEF r, e
<1> QED
  BY <1>0, <1>1, <1>2, <1>3, FailsService, ResetWriteModeService, StoreDataService

LEMMA AppendToService ==
  ASSUME LockInv, NEW c \in Clients, NEW g \in Files, NEW n \in Sizes,
         NEW sendBack \in BOOLEAN, AppendTo(c, g, n, sendBack), NEW f \in Files
  PROVE  ServiceStep(f)
<1> DEFINE r == file_append_content(file[g], n)
           e == AppendRefusal(c, g, n)
<1>0. Handles(c) /\ n \in Nat
  BY ConstantsAssumption DEF AppendTo, InWriteSection
<1>1. \/ e # "OK" /\ Fails(c, g, e)
      \/ ResetWriteMode(c, g)
      \/ StoreData(c, g, r, n, sendBack)
  BY DEF AppendTo
<1>2. e # "OK" => e \in Errors
  BY DEF AppendRefusal, Errors
<1>3. r.locked_by = file[g].locked_by /\ r.lock_queue = file[g].lock_queue
  BY <1>0, FilesType, NewContentKeepsLock
<1> HIDE DEF r, e
<1> QED
  BY <1>0, <1>1, <1>2, <1>3, FailsService, ResetWriteModeService, StoreDataService

-------------------------------------------------------------------------------
(* Sends, clients that leave, and the theorem.                             *)

LEMMA HeadAndTail ==
  ASSUME NEW s \in Seq(Clients), s # << >>
  PROVE  Range(s) = Range(Tail(s)) \cup {Head(s)} /\ Tail(s) \in Seq(Clients)
<1> DEFINE l == [items |-> s, dangling |-> FALSE]
           t == ll_remove_first(l)
<1>1. l \in List(Clients) /\ l.items = s /\ t.items = Tail(s)
  BY DEF List, ll_remove_first
<1> HIDE DEF l
<1>2. Values(l) = Values(t) \cup {Head(s)} /\ t \in List(Clients)
  BY <1>1, RemoveFirstProperties
<1> HIDE DEF t
<1> QED
  BY <1>1, <1>2 DEF Values, List

\* The next send is what the first of msgs tells its first recipient.
LEMMA NextSendTells ==
  ASSUME NEW msgs \in Seq(Messages), msgs # << >>, NEW f
  PROVE  LET m    == Head(msgs)
             rest == IF Len(m.to) <= 1 THEN Tail(msgs)
                     ELSE << [m EXCEPT !.to = Tail(@)] >> \o Tail(msgs)
             S    == IF m.to = << >> THEN {} ELSE {Head(m.to)}
         IN  ToldOf(msgs, f) = ToldOf(rest, f) \cup IF m.about = f THEN S ELSE {}
<1> DEFINE m    == Head(msgs)
           t    == Tail(msgs)
           left == [m EXCEPT !.to = Tail(@)]
           rest == IF Len(m.to) <= 1 THEN t ELSE << left >> \o t
           S    == IF m.to = << >> THEN {} ELSE {Head(m.to)}
<1>1. /\ m \in Messages /\ t \in Seq(Messages)
      /\ << m >> \in Seq(Messages) /\ msgs = << m >> \o t
  <2>1. m \in Messages /\ t \in Seq(Messages) /\ << m >> \in Seq(Messages)
    OBVIOUS
  <2>2. msgs = << m >> \o t
    OBVIOUS
  <2> QED
    BY <2>1, <2>2
<1>2. m.to \in Seq(Clients)
  BY <1>1 DEF Messages
<1> HIDE DEF m, t
<1>3. ToldOf(msgs, f) = ToldOf(t, f) \cup IF m.about = f THEN Range(m.to) ELSE {}
  <2> DEFINE h == << m >>
  <2>1. h \in Seq(Messages) /\ msgs = h \o t
    BY <1>1
  <2>2. ToldOf(h, f) = IF m.about = f THEN Range(m.to) ELSE {}
    BY <1>1, ToldOfOne
  <2> HIDE DEF h
  <2>3. ToldOf(h \o t, f) = ToldOf(h, f) \cup ToldOf(t, f)
    BY <1>1, <2>1, ToldOfMore
  <2> QED
    BY <2>1, <2>2, <2>3
<1>4. CASE m.to = << >>
  <2>1. rest = t /\ S = {} /\ Range(m.to) = {}
    BY <1>4 DEF Range
  <2> QED
    BY <1>3, <2>1 DEF m, t
<1>5. CASE m.to # << >> /\ Len(m.to) <= 1
  <2>1. Tail(m.to) = << >>
    BY <1>2, <1>5
  <2>2. Range(Tail(m.to)) = {}
    BY <2>1 DEF Range
  <2>3. rest = t /\ S = {Head(m.to)} /\ Range(m.to) = S
    BY <1>2, <1>5, <2>2, HeadAndTail
  <2> HIDE DEF rest, S
  <2>4. ToldOf(msgs, f) = ToldOf(rest, f) \cup IF m.about = f THEN S ELSE {}
    BY <1>3, <2>3
  <2> QED
    BY <2>4 DEF m, t, rest, S, left
<1>6. CASE m.to # << >> /\ ~(Len(m.to) <= 1)
  <2>1. Range(m.to) = Range(Tail(m.to)) \cup S /\ Tail(m.to) \in Seq(Clients)
    BY <1>2, <1>6, HeadAndTail
  <2>2. left \in Messages /\ left.to = Tail(m.to) /\ left.about = m.about
    BY <1>1, <2>1 DEF Messages
  <2>3. rest = << left >> \o t
    BY <1>6
  <2> HIDE DEF left, rest, S
  <2>4. /\ << left >> \in Seq(Messages)
        /\ ToldOf(<< left >>, f) = IF m.about = f THEN Range(Tail(m.to)) ELSE {}
    BY <2>2, ToldOfOne
  <2>5. ToldOf(rest, f) = ToldOf(<< left >>, f) \cup ToldOf(t, f)
    BY <1>1, <2>3, <2>4, ToldOfMore
  <2>6. ToldOf(msgs, f) = ToldOf(rest, f) \cup IF m.about = f THEN S ELSE {}
    BY <1>3, <2>1, <2>4, <2>5
  <2> QED
    BY <2>6 DEF m, t, rest, S, left
<1> QED
  BY <1>4, <1>5, <1>6

LEMMA DeliverService ==
  ASSUME LockInv, NEW c \in Clients, Deliver(c), NEW f \in Files
  PROVE  ServiceStep(f)
<1> DEFINE msgs == out[c]
           m    == Head(msgs)
           rest == IF Len(m.to) <= 1 THEN Tail(msgs)
                   ELSE << [m EXCEPT !.to = Tail(@)] >> \o Tail(msgs)
           S    == IF m.to = << >> THEN {} ELSE {Head(m.to)}
           T    == IF m.about = f THEN S ELSE {}
<1>1. /\ out \in [Clients -> Seq(Messages)] /\ msgs \in Seq(Messages) /\ msgs # << >>
      /\ Once(msgs)
  BY TypesHold DEF OutType, Deliver, LockInv, Sessions
<1>2. file' = file /\ out' = [out EXCEPT ![c] = rest]
  BY DEF Deliver, storeVars
<1>3. /\ rest \in Seq(Messages) /\ Recipients(msgs) = Recipients(rest) \cup S
      /\ S \cap Recipients(rest) = {}
  BY <1>1, NextSend
<1>4. ToldOf(msgs, f) = ToldOf(rest, f) \cup T
  BY <1>1, NextSendTells
<1>5. T = {} \/ \E x : T = {x}
  OBVIOUS
<1>6. T \subseteq S
  OBVIOUS
<1> HIDE DEF rest, S, T
<1>7. \A d \in Clients \ {c} : out'[d] = out[d] /\ T \cap ToldOf(out[d], f) = {}
  <2>1. \A d \in Clients \ {c} : Recipients(out[d]) \cap Recipients(msgs) = {}
    BY DEF LockInv, Sessions, DueFrom
  <2>2. \A d \in Clients : ToldOf(out[d], f) \subseteq Recipients(out[d])
    BY DEF ToldOf, Recipients
  <2> QED
    BY <1>1, <1>2, <1>3, <1>6, <2>1, <2>2
<1>8. out'[c] = rest /\ T \cap ToldOf(rest, f) = {}
  BY <1>1, <1>2, <1>3, <1>6 DEF ToldOf, Recipients
<1>9. \A x : x \in Owed(f)' <=> \E d \in Clients : x \in ToldOf(out'[d], f)
  <2>1. \A d \in Clients : DOMAIN out'[d] = 1 .. Len(out'[d])
    BY <1>1, <1>3, <1>7, <1>8
  <2> QED
    BY <2>1 DEF Owed, ToldOf
<1>10. Owed(f)' = Owed(f) \ T /\ T \subseteq Owed(f)
  <2>1. \A x : x \in Owed(f) <=> \E d \in Clients : x \in ToldOf(out[d], f)
    BY <1>1, OwedByAll
  <2> HIDE DEF msgs
  <2>2. out[c] = msgs
    BY DEF msgs
  <2> QED
    BY <1>4, <1>7, <1>8, <1>9, <2>1, <2>2
<1>11. CASE T = {}
  BY <1>2, <1>10, <1>11, LockAlone DEF Line
<1>12. ASSUME NEW x, T = {x}
       PROVE  ServiceStep(f)
  BY <1>2, <1>10, <1>12, IsAnswered
<1> QED
  BY <1>5, <1>11, <1>12

LEMMA LeavesService ==
  ASSUME NEW c, Exit(c) \/ Die(c), NEW f \in Files
  PROVE  ServiceStep(f)
<1>1. file' = file /\ out' = out
  BY DEF Exit, Die, storeVars
<1> QED
  BY <1>1, LockAlone DEF Line, Owed

\* What a disconnection does to the lock of one file.
LEMMA DepartedLock ==
  ASSUME NEW r \in FileRecords, FileLocks(r), NEW c \in Clients
  PROVE  LET p == Departed(r, c) IN
         /\ r.locked_by = c => /\ p.locked_by = HandOver(r).locked_by
                               /\ p.lock_queue = HandOver(r).lock_queue
         /\ r.locked_by # c /\ c \in Waits(r) =>
              /\ p.locked_by = r.locked_by
              /\ p.lock_queue.items = Without(r.lock_queue.items, Position(r.lock_queue, c))
         /\ r.locked_by # c /\ c \notin Waits(r) =>
              p.locked_by = r.locked_by /\ p.lock_queue = r.lock_queue
<1> DEFINE s == file_close_client(r, c)
           p == Departed(r, c)
<1>1. s \in FileRecords /\ s.lock_queue = r.lock_queue /\ s.locked_by = r.locked_by
  BY CloseClientQueue DEF FileLocks
<1>2. p = file_delete_lock_client(s, c)
  BY DEF Departed
<1> HIDE DEF s, p
<1>3. CASE r.locked_by = c
  <2>1. c \notin Values(s.lock_queue)
    BY <1>1, <1>3 DEF FileLocks, Waits
  <2>2. p = HandOver(s)
    BY <1>1, <1>2, <1>3, <2>1 DEF file_delete_lock_client
  <2>3. p.locked_by = HandOver(r).locked_by /\ p.lock_queue = HandOver(r).lock_queue
    BY <1>1, <2>2 DEF HandOver, NextOwner, FileRecords
  <2> QED
    BY <1>3, <2>3 DEF p
<1>4. CASE r.locked_by # c /\ c \in Waits(r)
  <2> DEFINE q == [s EXCEPT !.lock_queue = ll_remove_node(@, c)]
  <2>1. q.locked_by = r.locked_by /\ q.lock_queue = ll_remove_node(r.lock_queue, c)
    BY <1>1 DEF FileRecords
  <2>2. p = q
    BY <1>1, <1>2, <1>4, <2>1 DEF file_delete_lock_client, Waits
  <2> HIDE DEF q
  <2>3. q.lock_queue.items = Without(r.lock_queue.items, Position(r.lock_queue, c))
    BY <2>1 DEF ll_remove_node
  <2> QED
    BY <1>4, <2>1, <2>2, <2>3 DEF p
<1>5. CASE r.locked_by # c /\ c \notin Waits(r)
  <2>1. p = s
    BY <1>1, <1>2, <1>5 DEF file_delete_lock_client, Waits
  <2> QED
    BY <1>1, <1>5, <2>1 DEF p
<1> QED
  BY <1>3, <1>4, <1>5

LEMMA DisconnectService ==
  ASSUME LockInv, NEW c \in Clients, Disconnect(c), NEW f \in Files
  PROVE  ServiceStep(f)
<1> DEFINE r == file[f]
           p == Departed(r, c)
<1>1. /\ out' = out
      /\ file' = [g \in Files |-> IF g \in filenames THEN Departed(file[g], c) ELSE file[g]]
  BY DEF Disconnect, notify_client_disconnected_fs, Departed
<1>2. Owed(f)' = Owed(f)
  BY <1>1 DEF Owed
<1>3. r \in FileRecords /\ FileLocks(r)
  BY FilesType
<1>4. CASE f \notin filenames
  BY <1>1, <1>2, <1>4, LockAlone DEF Line
<1>5. CASE f \in filenames
  <2>1. file'[f] = p
    BY <1>1, <1>5
  <2>2. CASE r.locked_by = c
    <3> DEFINE q == HandOver(r)
    <3>1. file'[f].locked_by = q.locked_by /\ Line(f)' = q.lock_queue.items
      BY <1>3, <2>1, <2>2, DepartedLock DEF Line
    <3> HIDE DEF q
    <3> QED
      BY <1>2, <1>3, <2>2, <3>1, OwnerVanishes DEF q
  <2>3. CASE r.locked_by # c /\ c \in Waits(r)
    <3> DEFINE i == Position(r.lock_queue, c)
    <3>1. /\ file'[f].locked_by = r.locked_by
          /\ Line(f)' = Without(Line(f), i)
      BY <1>3, <2>1, <2>3, DepartedLock DEF Line
    <3>2. i \in 1 .. Len(Line(f)) /\ Line(f)[i] = c
      BY <1>3, <2>3, RecordLists, FirstPosition DEF Waits, Line
    <3>3. DOMAIN Line(f) = 1 .. Len(Line(f))
      BY <1>3, RecordLists DEF Line, List
    <3> HIDE DEF i
    <3> QED
      BY <1>2, <3>1, <3>2, <3>3, WaiterVanishes
  <2>4. CASE r.locked_by # c /\ c \notin Waits(r)
    <3>1. file'[f].locked_by = r.locked_by /\ Line(f)' = Line(f)
      BY <1>3, <2>1, <2>4, DepartedLock DEF Line
    <3> QED
      BY <1>2, <3>1, LockAlone
  <2> QED
    BY <2>2, <2>3, <2>4
<1> QED
  BY <1>4, <1>5

LEMMA ServiceInit == Init => \A f \in Files : Service(f)!Init
<1> SUFFICES ASSUME Init, NEW f \in Files PROVE Service(f)!Init
  OBVIOUS
<1>1. file[f].locked_by = NoClient /\ file[f].lock_queue.items = << >>
  BY DEF Init, Absent, EmptyList
<1>2. Owed(f) = {}
  BY DEF Init, Owed
<1> QED
  BY <1>1, <1>2 DEF Service!Init

LEMMA ServiceNext == LockInv /\ [Next]_vars => \A f \in Files : ServiceStep(f)
<1> SUFFICES ASSUME LockInv, [Next]_vars, NEW f \in Files
             PROVE  ServiceStep(f)
  OBVIOUS
<1> HIDE DEF ServiceStep
<1>1. CASE UNCHANGED vars
  <2>1. file' = file /\ out' = out
    BY <1>1 DEF vars, storeVars, sessionVars
  <2> QED
    BY <2>1, LockAlone DEF Line, Owed
<1>2. ASSUME NEW c \in Clients, Request(c)
      PROVE  ServiceStep(f)
  <2>1. CASE \E g \in Files, lock \in BOOLEAN : OpenCreate(c, g, lock)
    BY <2>1, OpenCreateService
  <2>2. CASE \E g \in Files, lock \in BOOLEAN : Open(c, g, lock)
    BY <2>2, OpenService
  <2>3. CASE \E g \in Files, n \in Sizes, sendBack \in BOOLEAN : Write(c, g, n, sendBack)
    BY <2>3, WriteService
  <2>4. CASE \E g \in Files, n \in Sizes, sendBack \in BOOLEAN : AppendTo(c, g, n, sendBack)
    BY <2>4, AppendToService
  <2>5. CASE \E g \in Files : Read(c, g)
    BY <2>5, ReadService
  <2>6. CASE \E n \in 0 .. MaxFiles : ReadN(c, n)
    BY <2>6, ReadNService
  <2>7. CASE \E g \in Files : Remove(c, g)
    BY <2>7, RemoveService
  <2>8. CASE \E g \in Files : Lock(c, g)
    BY <2>8, LockLockService
  <2>9. CASE \E g \in Files : Unlock(c, g)
    BY <2>9, UnlockService
  <2>10. CASE \E g \in Files : Close(c, g)
    BY <2>10, CloseService
  <2> QED
    BY <1>2, <2>1, <2>2, <2>3, <2>4, <2>5, <2>6, <2>7, <2>8, <2>9, <2>10 DEF Request
<1>3. ASSUME NEW c \in Clients, Deliver(c)
      PROVE  ServiceStep(f)
  BY <1>3, DeliverService
<1>4. ASSUME NEW c \in Clients, Exit(c) \/ Die(c)
      PROVE  ServiceStep(f)
  BY <1>4, LeavesService
<1>5. ASSUME NEW c \in Clients, Disconnect(c)
      PROVE  ServiceStep(f)
  BY <1>5, DisconnectService
<1> QED
  BY <1>1, <1>2, <1>3, <1>4, <1>5 DEF Next

\* The server implements the lock of every file: one owner, a line in the order
\* of the requests, an answer for each, whatever handlers, evictions, late sends
\* and disconnections are interleaved.
THEOREM LocksAreServedAlways == Spec => LocksAreServed
<1>1. LockInv /\ [Next]_vars =>
        [\A f \in Files : [Service(f)!Next]_(Service(f)!serviceVars)]_vars
  BY ServiceNext DEF ServiceStep
<1> QED
  BY <1>1, ServiceInit, LockInvAlways, PTL DEF Spec, LocksAreServed

================================================================================

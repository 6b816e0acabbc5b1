------------------------------ MODULE LockProofs ------------------------------
(***************************************************************************)
(* Locks, queues and answers: the owner of a lock and its queue agree, a   *)
(* client that waits is owed exactly one answer, and nothing is promised   *)
(* to a client that does not hold.                                         *)
(*                                                                         *)
(* The queue of one file is right only because a client waits for one      *)
(* thing at a time: nobody who is in a queue or is still to be sent an     *)
(* answer makes a request.  So the invariant ties the queues of all files  *)
(* to the sends of all workers and to the status of the clients (Sessions).*)
(***************************************************************************)
EXTENDS FileStorageProofs

Waits(r) == Values(r.lock_queue)
Opens(r) == Values(r.opened_by)

\* LockDiscipline, of one file_stored.
FileLocks(r) ==
  /\ r.locked_by = NoClient => r.lock_queue.items = << >>
  /\ r.locked_by \notin Waits(r)
  /\ Distinct(r.lock_queue) /\ Distinct(r.opened_by)
  /\ Waits(r) \subseteq Opens(r)
  /\ r.locked_by # NoClient => r.locked_by \in Opens(r)

-------------------------------------------------------------------------------
(* What the operations on one file_stored do to its lock.                  *)

LEMMA RecordLists ==
  ASSUME NEW r \in FileRecords
  PROVE  /\ r.lock_queue \in List(Clients) /\ r.opened_by \in List(Clients)
         /\ Waits(r) \subseteq Clients /\ Opens(r) \subseteq Clients
         /\ r.lock_queue.items = << >> <=> Waits(r) = {}
<1>1. r.lock_queue \in List(Clients) /\ r.opened_by \in List(Clients)
  BY DEF FileRecords
<1> QED
  BY <1>1, NoValues DEF Waits, Opens

LEMMA AbsentLocks ==
  /\ FileLocks(Absent) /\ FileLocks(create_file)
  /\ Waits(Absent) = {} /\ Opens(Absent) = {} /\ Absent.locked_by = NoClient
  /\ Waits(create_file) = {} /\ Opens(create_file) = {}
  /\ create_file.locked_by = NoClient /\ create_file.present
<1>1. /\ Absent.lock_queue = EmptyList /\ Absent.opened_by = EmptyList
      /\ Absent.locked_by = NoClient
      /\ create_file.lock_queue = EmptyList /\ create_file.opened_by = EmptyList
      /\ create_file.locked_by = NoClient /\ create_file.present
  BY DEF Absent, create_file
<1>2. Values(EmptyList) = {} /\ Distinct(EmptyList) /\ EmptyList.items = << >>
  BY EmptyListProperties DEF EmptyList
<1> QED
  BY <1>1, <1>2 DEF FileLocks, Waits, Opens

LEMMA OpenedLocks ==
  ASSUME NEW r \in FileRecords, FileLocks(r), NEW c \in Clients
  PROVE  /\ Opened(r, c) \in FileRecords
         /\ FileLocks(Opened(r, c))
         /\ Waits(Opened(r, c)) = Waits(r)
         /\ Opens(Opened(r, c)) = Opens(r) \cup {c}
         /\ Opened(r, c).locked_by = r.locked_by
         /\ Opened(r, c).present = r.present
<1>1. CASE c \in Opens(r)
  BY <1>1 DEF Opened, file_is_opened_by, Opens
<1>2. CASE c \notin Opens(r)
  <2> DEFINE q == file_add_client(r, c)
  <2>1. Opened(r, c) = q
    BY <1>2 DEF Opened, file_is_opened_by, Opens
  <2>2. /\ q \in FileRecords /\ q.lock_queue = r.lock_queue /\ q.locked_by = r.locked_by
        /\ q.opened_by = ll_add_head(r.opened_by, c) /\ q.present = r.present
    BY AddClientContent DEF SameContent, file_add_client, FileRecords
  <2>3. /\ Values(q.opened_by) = Opens(r) \cup {c} /\ Distinct(q.opened_by)
    BY <1>2, <2>2, RecordLists, AddHeadProperties DEF Opens, FileLocks
  <2> HIDE DEF q
  <2> QED
    BY <2>1, <2>2, <2>3 DEF FileLocks, Waits, Opens
<1> QED
  BY <1>1, <1>2

LEMMA TakeLocks ==
  ASSUME NEW r \in FileRecords, FileLocks(r), NEW c \in Opens(r),
         r.locked_by \in {NoClient, c}
  PROVE  LET q == [r EXCEPT !.locked_by = c] IN
         /\ q \in FileRecords /\ FileLocks(q)
         /\ Waits(q) = Waits(r) /\ Opens(q) = Opens(r)
         /\ q.locked_by = c /\ q.present = r.present
<1> DEFINE q == [r EXCEPT !.locked_by = c]
<1>1. c \in Clients /\ c # NoClient
  BY RecordLists, ConstantsAssumption
<1>2. /\ q \in FileRecords /\ q.lock_queue = r.lock_queue /\ q.opened_by = r.opened_by
      /\ q.locked_by = c /\ q.present = r.present
  BY <1>1 DEF FileRecords
<1>3. c \notin Waits(r)
  BY RecordLists DEF FileLocks
<1> HIDE DEF q
<1>4. FileLocks(q) /\ Waits(q) = Waits(r) /\ Opens(q) = Opens(r)
  BY <1>1, <1>2, <1>3 DEF FileLocks, Waits, Opens
<1> QED
  BY <1>2, <1>4 DEF q

LEMMA EnqueueLocks ==
  ASSUME NEW r \in FileRecords, FileLocks(r), NEW c \in Opens(r),
         r.locked_by \notin {NoClient, c}, c \notin Waits(r)
  PROVE  LET q == file_enqueue_lock(r, c) IN
         /\ q \in FileRecords /\ FileLocks(q)
         /\ Waits(q) = Waits(r) \cup {c} /\ Opens(q) = Opens(r)
         /\ q.locked_by = r.locked_by /\ q.present = r.present
<1> DEFINE q == file_enqueue_lock(r, c)
<1>1. c \in Clients
  BY RecordLists
<1>2. /\ q \in FileRecords /\ q.lock_queue = ll_add_tail(r.lock_queue, c)
      /\ q.opened_by = r.opened_by /\ q.locked_by = r.locked_by /\ q.present = r.present
  BY <1>1, EnqueueLockContent DEF SameContent, file_enqueue_lock, FileRecords
<1>3. Values(q.lock_queue) = Waits(r) \cup {c} /\ Distinct(q.lock_queue)
  BY <1>1, <1>2, RecordLists, AddTailProperties DEF Waits, FileLocks
<1> HIDE DEF q
<1>4. FileLocks(q) /\ Waits(q) = Waits(r) \cup {c} /\ Opens(q) = Opens(r)
  BY <1>2, <1>3 DEF FileLocks, Waits, Opens
<1> QED
  BY <1>2, <1>4 DEF q

\* The next owner leaves the queue; with nobody waiting the lock is free.
LEMMA HandOverQueue ==
  ASSUME NEW r \in FileRecords, Distinct(r.lock_queue)
  PROVE  LET q == HandOver(r) w == NextOwner(r) IN
         /\ q \in FileRecords /\ q.opened_by = r.opened_by /\ q.present = r.present
         /\ q.locked_by = w /\ Distinct(q.lock_queue)
         /\ w \notin Waits(q)
         /\ Waits(r) = {} => w = NoClient /\ Waits(q) = {}
         /\ Waits(r) # {} => w \in Clients /\ w # NoClient /\ Waits(r) = Waits(q) \cup {w}
<1> DEFINE q == HandOver(r)
           w == NextOwner(r)
<1>1. /\ q \in FileRecords /\ q.opened_by = r.opened_by /\ q.present = r.present
      /\ q.locked_by = w
      /\ q.lock_queue = IF r.lock_queue.items = << >> THEN r.lock_queue
                        ELSE ll_remove_first(r.lock_queue)
  BY HandOverContent DEF SameContent, HandOver, FileRecords
<1>2. w = IF r.lock_queue.items = << >> THEN NoClient ELSE Head(r.lock_queue.items)
  BY DEF NextOwner
<1> HIDE DEF q, w
<1>3. CASE r.lock_queue.items = << >>
  <2>1. Waits(r) = {} /\ Waits(q) = {} /\ w = NoClient /\ Distinct(q.lock_queue)
    BY <1>1, <1>2, <1>3, RecordLists DEF Waits
  <2> QED
    BY <1>1, <2>1 DEF q, w
<1>4. CASE r.lock_queue.items # << >>
  <2>1. q.lock_queue = ll_remove_first(r.lock_queue) /\ w = Head(r.lock_queue.items)
    BY <1>1, <1>2, <1>4
  <2>2. /\ w \in Clients /\ Waits(r) = Waits(q) \cup {w}
        /\ Distinct(q.lock_queue) /\ w \notin Waits(q)
    BY <1>4, <2>1, RecordLists, RemoveFirstProperties DEF Waits
  <2>3. w # NoClient
    BY <2>2, ConstantsAssumption
  <2> QED
    BY <1>1, <2>2, <2>3 DEF q, w
<1> QED
  BY <1>3, <1>4

LEMMA HandOverLocks ==
  ASSUME NEW r \in FileRecords, FileLocks(r)
  PROVE  FileLocks(HandOver(r))
<1> DEFINE q == HandOver(r)
           w == NextOwner(r)
<1>1. /\ q \in FileRecords /\ q.opened_by = r.opened_by
      /\ q.locked_by = w /\ Distinct(q.lock_queue) /\ w \notin Waits(q)
      /\ Waits(r) = {} => w = NoClient /\ Waits(q) = {}
      /\ Waits(r) # {} => w \in Clients /\ w # NoClient /\ Waits(r) = Waits(q) \cup {w}
  BY HandOverQueue DEF FileLocks
<1> HIDE DEF q, w
<1>2. q.lock_queue.items = << >> <=> Waits(q) = {}
  BY <1>1, RecordLists
<1>3. Opens(q) = Opens(r) /\ Waits(q) \subseteq Waits(r)
  BY <1>1 DEF Opens
<1>4. FileLocks(q)
  BY <1>1, <1>2, <1>3 DEF FileLocks, Opens
<1> QED
  BY <1>4 DEF q

\* A client that neither owns the lock nor waits for it leaves the openers.
LEMMA CloseClientQueue ==
  ASSUME NEW r \in FileRecords, Distinct(r.opened_by), NEW c \in Clients
  PROVE  LET q == file_close_client(r, c) IN
         /\ q \in FileRecords /\ q.lock_queue = r.lock_queue
         /\ q.locked_by = r.locked_by /\ q.present = r.present
         /\ Distinct(q.opened_by) /\ Opens(q) = Opens(r) \ {c}
<1> DEFINE q == file_close_client(r, c)
<1>1. q \in FileRecords
  BY CloseClientContent DEF SameContent
<1>2. CASE c \in Opens(r)
  <2>1. /\ q.lock_queue = r.lock_queue /\ q.locked_by = r.locked_by /\ q.present = r.present
        /\ q.opened_by = ll_remove_node(r.opened_by, c)
    BY <1>2 DEF file_close_client, file_is_opened_by, Opens, FileRecords
  <2>2. Distinct(q.opened_by) /\ Opens(q) = Opens(r) \ {c}
    BY <1>2, <2>1, RecordLists, RemoveNodeProperties DEF Opens
  <2> QED
    BY <1>1, <2>1, <2>2
<1>3. CASE c \notin Opens(r)
  <2>1. q = r
    BY <1>3 DEF file_close_client, file_is_opened_by, Opens
  <2> QED
    BY <1>1, <1>3, <2>1
<1> QED
  BY <1>2, <1>3

LEMMA CloseClientLocks ==
  ASSUME NEW r \in FileRecords, FileLocks(r), NEW c \in Clients,
         r.locked_by # c, c \notin Waits(r)
  PROVE  FileLocks(file_close_client(r, c))
<1> DEFINE q == file_close_client(r, c)
<1>1. /\ q.lock_queue = r.lock_queue /\ q.locked_by = r.locked_by
      /\ Distinct(q.opened_by) /\ Opens(q) = Opens(r) \ {c}
  BY CloseClientQueue DEF FileLocks
<1> HIDE DEF q
<1>2. FileLocks(q)
  BY <1>1 DEF FileLocks, Waits
<1> QED
  BY <1>2 DEF q

\* What a disconnection leaves of one file: the client is in neither list, and
\* if it was the owner the first in line, if any, owns the lock.
Departed(r, c) == file_delete_lock_client(file_close_client(r, c), c)

LEMMA DepartedLocks ==
  ASSUME NEW r \in FileRecords, FileLocks(r), NEW c \in Clients
  PROVE  LET p == Departed(r, c) IN
         /\ p \in FileRecords /\ FileLocks(p) /\ p.present = r.present
         /\ Opens(p) = Opens(r) \ {c} /\ p.locked_by # c
         /\ r.locked_by # c => p.locked_by = r.locked_by /\ Waits(p) = Waits(r) \ {c}
         /\ r.locked_by = c =>
              /\ p.locked_by \notin Waits(p)
              /\ \/ Waits(r) = {} /\ Waits(p) = {} /\ p.locked_by = NoClient
                 \/ p.locked_by \in Clients /\ Waits(r) = Waits(p) \cup {p.locked_by}
<1> DEFINE s == file_close_client(r, c)
           q == IF c \in Values(s.lock_queue)
                THEN [s EXCEPT !.lock_queue = ll_remove_node(@, c)]
                ELSE s
           p == Departed(r, c)
<1>1. /\ s \in FileRecords /\ s.lock_queue = r.lock_queue
      /\ s.locked_by = r.locked_by /\ s.present = r.present
      /\ Distinct(s.opened_by) /\ Opens(s) = Opens(r) \ {c}
      /\ Distinct(s.lock_queue) /\ Waits(s) = Waits(r)
  BY CloseClientQueue DEF FileLocks, Waits
<1> HIDE DEF s
<1>2. /\ q \in FileRecords /\ q.opened_by = s.opened_by
      /\ q.locked_by = s.locked_by /\ q.present = s.present
      /\ Distinct(q.lock_queue) /\ Waits(q) = Waits(s) \ {c}
  <2>1. CASE c \in Waits(s)
    <3>1. /\ ll_remove_node(s.lock_queue, c) \in List(Clients)
          /\ Distinct(ll_remove_node(s.lock_queue, c))
          /\ Values(ll_remove_node(s.lock_queue, c)) = Waits(s) \ {c}
      BY <1>1, <2>1, RecordLists, RemoveNodeProperties DEF Waits
    <3>2. q = [s EXCEPT !.lock_queue = ll_remove_node(s.lock_queue, c)]
      BY <2>1 DEF Waits
    <3>3. /\ q \in FileRecords /\ q.opened_by = s.opened_by
          /\ q.locked_by = s.locked_by /\ q.present = s.present
          /\ q.lock_queue = ll_remove_node(s.lock_queue, c)
      BY <1>1, <3>1, <3>2 DEF FileRecords
    <3> HIDE DEF q
    <3> QED
      BY <3>1, <3>3 DEF Waits
  <2>2. CASE c \notin Waits(s)
    BY <1>1, <2>2 DEF Waits
  <2> QED
    BY <2>1, <2>2
<1>3. p = IF q.locked_by = c THEN HandOver(q) ELSE q
  BY DEF Departed, file_delete_lock_client, s
<1> HIDE DEF q, p
<1>4. Opens(q) = Opens(r) \ {c} /\ Waits(q) = Waits(r) \ {c}
  BY <1>1, <1>2 DEF Opens
<1>5. CASE r.locked_by # c
  <2>1. p = q /\ q.locked_by = r.locked_by
    BY <1>1, <1>2, <1>3, <1>5
  <2>2. q.lock_queue.items = << >> <=> Waits(q) = {}
    BY <1>2, RecordLists
  <2>3. r.lock_queue.items = << >> <=> Waits(r) = {}
    BY RecordLists
  <2>4. Distinct(q.opened_by) /\ Distinct(q.lock_queue)
    BY <1>1, <1>2
  <2>5. FileLocks(q)
    BY <1>4, <1>5, <2>1, <2>2, <2>3, <2>4 DEF FileLocks
  <2> QED
    BY <1>1, <1>2, <1>4, <1>5, <2>1, <2>5 DEF p
<1>6. CASE r.locked_by = c
  <2> DEFINE w == NextOwner(q)
  <2>1. p = HandOver(q) /\ Waits(q) = Waits(r)
    BY <1>1, <1>2, <1>3, <1>4, <1>6 DEF FileLocks
  <2>2. /\ p \in FileRecords /\ p.opened_by = q.opened_by /\ p.present = q.present
        /\ p.locked_by = w /\ Distinct(p.lock_queue) /\ w \notin Waits(p)
        /\ Waits(q) = {} => w = NoClient /\ Waits(p) = {}
        /\ Waits(q) # {} => w \in Clients /\ w # NoClient /\ Waits(q) = Waits(p) \cup {w}
    BY <1>2, <2>1, HandOverQueue
  <2> HIDE DEF w
  <2>3. p.lock_queue.items = << >> <=> Waits(p) = {}
    BY <2>2, RecordLists
  <2>4. Opens(p) = Opens(r) \ {c} /\ Distinct(p.opened_by)
    BY <1>1, <1>2, <1>4, <2>2 DEF Opens
  <2>5. p.locked_by # c /\ c # NoClient
    BY <1>6, <2>1, <2>2, ConstantsAssumption DEF FileLocks
  <2>6. Waits(p) \subseteq Opens(p) /\ (w # NoClient => w \in Opens(p))
    BY <1>6, <2>1, <2>2, <2>4 DEF FileLocks
  <2>7. FileLocks(p)
    BY <2>2, <2>3, <2>4, <2>6 DEF FileLocks
  <2> QED
    BY <1>1, <1>2, <1>6, <2>1, <2>2, <2>4, <2>5, <2>7 DEF p
<1> QED
  BY <1>5, <1>6

-------------------------------------------------------------------------------
(* Who is sent something.                                                  *)

\* The clients msgs is for.
Recipients(msgs) == UNION {Range(msgs[i].to) : i \in 1 .. Len(msgs)}

\* Nobody is sent two of msgs.
Once(msgs) ==
  /\ \A i \in 1 .. Len(msgs) : IsInjective(msgs[i].to)
  /\ \A i, j \in 1 .. Len(msgs) :
       i # j => Range(msgs[i].to) \cap Range(msgs[j].to) = {}

LEMMA NoMessages ==
  Recipients(<< >>) = {} /\ Once(<< >>)
BY DEF Recipients, Once

LEMMA OneMessage ==
  ASSUME NEW m \in Messages, NEW c, m.to = << c >>
  PROVE  /\ << m >> \in Seq(Messages) /\ Recipients(<< m >>) = {c} /\ Once(<< m >>)
<1>1. Range(m.to) = {c} /\ IsInjective(m.to)
  BY DEF Range, IsInjective
<1>2. << m >> \in Seq(Messages) /\ Len(<< m >>) = 1 /\ << m >>[1] = m
  OBVIOUS
<1>3. 1 .. 1 = {1}
  OBVIOUS
<1>4. Recipients(<< m >>) = Range(m.to)
  BY <1>2, <1>3 DEF Recipients
<1>5. Once(<< m >>)
  BY <1>1, <1>2, <1>3 DEF Once
<1> QED
  BY <1>1, <1>2, <1>4, <1>5

LEMMA MoreMessages ==
  ASSUME NEW a \in Seq(Messages), NEW b \in Seq(Messages)
  PROVE  /\ a \o b \in Seq(Messages)
         /\ Recipients(a \o b) = Recipients(a) \cup Recipients(b)
         /\ Once(a) /\ Once(b) /\ Recipients(a) \cap Recipients(b) = {} => Once(a \o b)
<1> DEFINE s == a \o b
           n == Len(a) + Len(b)
<1>1. /\ s \in Seq(Messages) /\ Len(s) = n /\ Len(a) \in Nat /\ Len(b) \in Nat
      /\ \A i \in 1 .. n : s[i] = IF i <= Len(a) THEN a[i] ELSE b[i - Len(a)]
  BY ConcatProperties
<1> HIDE DEF s
<1>2. \A i \in 1 .. Len(a) : i \in 1 .. n /\ s[i] = a[i]
  BY <1>1
<1>3. \A i \in 1 .. Len(b) : Len(a) + i \in 1 .. n /\ s[Len(a) + i] = b[i]
  BY <1>1
<1>4. \A i \in 1 .. n : \/ i \in 1 .. Len(a) /\ s[i] = a[i]
                        \/ i - Len(a) \in 1 .. Len(b) /\ s[i] = b[i - Len(a)]
  BY <1>1
<1>5. Recipients(s) = Recipients(a) \cup Recipients(b)
  BY <1>1, <1>2, <1>3, <1>4, ZenonT(60) DEF Recipients
<1>6. ASSUME Once(a), Once(b), Recipients(a) \cap Recipients(b) = {}
      PROVE  Once(s)
  <2>1. \A i \in 1 .. n : IsInjective(s[i].to)
    BY <1>4, <1>6 DEF Once
  <2>2. ASSUME NEW i \in 1 .. n, NEW j \in 1 .. n, i # j
        PROVE  Range(s[i].to) \cap Range(s[j].to) = {}
    <3>1. CASE i \in 1 .. Len(a) /\ j \in 1 .. Len(a)
      BY <1>2, <1>6, <2>2, <3>1 DEF Once
    <3>2. CASE i - Len(a) \in 1 .. Len(b) /\ j - Len(a) \in 1 .. Len(b)
      <4>1. s[i] = b[i - Len(a)] /\ s[j] = b[j - Len(a)]
        BY <1>1, <3>2
      <4>2. i - Len(a) # j - Len(a)
        BY <1>1, <2>2
      <4> QED
        BY <1>6, <3>2, <4>1, <4>2 DEF Once
    <3>3. ASSUME NEW k \in 1 .. Len(a), NEW l \in 1 .. Len(b)
          PROVE  Range(a[k].to) \cap Range(b[l].to) = {}
      BY <1>6 DEF Recipients
    <3> QED
      BY <1>4, <3>1, <3>2, <3>3
  <2> QED
    BY <1>1, <2>1, <2>2 DEF Once
<1> QED
  BY <1>1, <1>5, <1>6 DEF s

\* The next send has at most one recipient, who is then sent nothing more.
LEMMA NextSend ==
  ASSUME NEW msgs \in Seq(Messages), msgs # << >>, Once(msgs)
  PROVE  LET m    == Head(msgs)
             rest == IF Len(m.to) <= 1 THEN Tail(msgs)
                     ELSE << [m EXCEPT !.to = Tail(@)] >> \o Tail(msgs)
             S    == IF m.to = << >> THEN {} ELSE {Head(m.to)}
         IN  /\ rest \in Seq(Messages) /\ Once(rest)
             /\ Recipients(msgs) = Recipients(rest) \cup S
             /\ S \cap Recipients(rest) = {}
<1> DEFINE m    == Head(msgs)
           t    == Tail(msgs)
           left == [m EXCEPT !.to = Tail(@)]
           rest == IF Len(m.to) <= 1 THEN t ELSE << left >> \o t
           S    == IF m.to = << >> THEN {} ELSE {Head(m.to)}
<1>1. /\ m \in Messages /\ t \in Seq(Messages) /\ m = msgs[1] /\ Len(msgs) \in Nat
      /\ Len(msgs) > 0 /\ Len(t) = Len(msgs) - 1
      /\ \A i \in 1 .. Len(t) : t[i] = msgs[i + 1]
  OBVIOUS
<1>2. m.to \in Seq(Clients)
  BY <1>1 DEF Messages
<1> HIDE DEF m, t
<1>3. Recipients(msgs) = Range(m.to) \cup Recipients(t)
  <2>1. \A i \in 1 .. Len(msgs) :
           i = 1 \/ (i - 1 \in 1 .. Len(t) /\ msgs[i] = t[i - 1])
    BY <1>1
  <2>2. \A i \in 1 .. Len(t) : i + 1 \in 1 .. Len(msgs)
    BY <1>1
  <2>3. 1 \in 1 .. Len(msgs)
    BY <1>1
  <2>4. ASSUME NEW x
        PROVE  x \in Recipients(msgs) <=> x \in Range(m.to) \/ x \in Recipients(t)
    <3>1. x \in Recipients(msgs) <=> \E i \in 1 .. Len(msgs) : x \in Range(msgs[i].to)
      BY DEF Recipients
    <3>2. x \in Recipients(t) <=> \E i \in 1 .. Len(t) : x \in Range(t[i].to)
      BY DEF Recipients
    <3>3. x \in Recipients(msgs) => x \in Range(m.to) \/ x \in Recipients(t)
      BY <1>1, <2>1, <3>1, <3>2
    <3>4. x \in Range(m.to) \/ x \in Recipients(t) => x \in Recipients(msgs)
      BY <1>1, <2>2, <2>3, <3>1, <3>2
    <3> QED
      BY <3>3, <3>4
  <2> QED
    BY <2>4
<1>4. Once(t) /\ Range(m.to) \cap Recipients(t) = {} /\ IsInjective(m.to)
  <2>1. \A i \in 1 .. Len(t) : i + 1 \in 1 .. Len(msgs) /\ i + 1 # 1
    BY <1>1
  <2>2. 1 \in 1 .. Len(msgs)
    BY <1>1
  <2>3. \A i, j \in 1 .. Len(t) : i # j => i + 1 # j + 1
    BY <1>1
  <2>4. Once(t)
    BY <1>1, <2>1, <2>3 DEF Once
  <2>5. \A i \in 1 .. Len(t) : Range(m.to) \cap Range(t[i].to) = {}
    BY <1>1, <2>1, <2>2 DEF Once
  <2>6. Range(m.to) \cap Recipients(t) = {}
    BY <2>5 DEF Recipients
  <2>7. IsInjective(m.to)
    BY <1>1, <2>2 DEF Once
  <2> QED
    BY <2>4, <2>6, <2>7
<1>5. CASE Len(m.to) <= 1
  <2>1. rest = t
    BY <1>5
  <2>2. Range(m.to) = S
    <3>1. DOMAIN m.to = 1 .. Len(m.to) /\ Len(m.to) \in Nat
      BY <1>2
    <3>2. CASE m.to = << >>
      BY <3>2 DEF Range
    <3>3. CASE m.to # << >>
      <4>1. Len(m.to) = 1 /\ Head(m.to) = m.to[1]
        <5>1. Len(m.to) \in Nat /\ Len(m.to) # 0
          BY <1>2, <3>3, EmptySeq
        <5>2. Head(m.to) = m.to[1]
          BY <1>2, <3>3
        <5>3. ASSUME NEW k \in Nat, k # 0, k <= 1
              PROVE  k = 1
          BY <5>3
        <5>4. Len(m.to) = 1
          BY <1>5, <5>1, <5>3
        <5> QED
          BY <5>2, <5>4
      <4>2. DOMAIN m.to = {1}
        BY <3>1, <4>1
      <4> QED
        BY <3>3, <4>1, <4>2 DEF Range
    <3> QED
      BY <3>2, <3>3
  <2> HIDE DEF rest, S
  <2> QED
    BY <1>1, <1>3, <1>4, <2>1, <2>2 DEF rest, S, m, t
<1>6. CASE ~(Len(m.to) <= 1)
  <2>1. rest = << left >> \o t /\ S = {Head(m.to)}
    BY <1>2, <1>6
  <2>2. /\ Tail(m.to) \in Seq(Clients) /\ Len(Tail(m.to)) = Len(m.to) - 1
        /\ Len(m.to) \in Nat /\ Head(m.to) = m.to[1]
        /\ \A i \in 1 .. Len(m.to) - 1 : Tail(m.to)[i] = m.to[i + 1]
    BY <1>2, <1>6
  <2>3. left \in Messages /\ left.to = Tail(m.to)
    BY <1>1, <2>2 DEF Messages
  <2> HIDE DEF left
  <2>4. /\ Range(m.to) = Range(Tail(m.to)) \cup S /\ S \cap Range(Tail(m.to)) = {}
        /\ IsInjective(Tail(m.to))
    <3> DEFINE q == [items |-> m.to, dangling |-> FALSE]
               p == ll_remove_first(q)
    <3>1. q \in List(Clients) /\ q.items = m.to /\ Distinct(q) /\ q.items # << >>
      BY <1>2, <1>4, <1>6 DEF List, Distinct
    <3>2. p.items = Tail(m.to)
      BY <3>1 DEF ll_remove_first
    <3>3. /\ Values(q) = Values(p) \cup {Head(q.items)}
          /\ Distinct(p) /\ Head(q.items) \notin Values(p)
      BY <3>1, RemoveFirstProperties
    <3> HIDE DEF p, q
    <3> QED
      BY <2>1, <3>1, <3>2, <3>3 DEF Values, Distinct
  <2>5. /\ << left >> \in Seq(Messages)
        /\ Recipients(<< left >>) = Range(Tail(m.to)) /\ Once(<< left >>)
    <3>1. << left >> \in Seq(Messages) /\ Len(<< left >>) = 1 /\ << left >>[1] = left
      BY <2>3
    <3>2. 1 .. 1 = {1}
      OBVIOUS
    <3> QED
      BY <2>3, <2>4, <3>1, <3>2 DEF Recipients, Once
  <2>6. /\ rest \in Seq(Messages)
        /\ Recipients(rest) = Range(Tail(m.to)) \cup Recipients(t)
        /\ Once(rest)
    <3>1. Recipients(<< left >>) \cap Recipients(t) = {}
      BY <1>4, <2>4, <2>5
    <3> HIDE DEF rest
    <3> QED
      BY <1>1, <1>4, <2>1, <2>5, <3>1, MoreMessages
  <2> HIDE DEF rest, S
  <2>7. Recipients(msgs) = Recipients(rest) \cup S /\ S \cap Recipients(rest) = {}
    BY <1>3, <1>4, <2>4, <2>6
  <2> QED
    BY <2>6, <2>7 DEF rest, S, left, m, t
<1> QED
  BY <1>5, <1>6

-------------------------------------------------------------------------------
(* The invariant.                                                          *)

Waiting(f) == Waits(file[f])
DueFrom(d) == Recipients(out[d])

\* A client waits in one place or is sent one answer by one worker.
Sessions ==
  /\ \A d \in Clients : Once(out[d])
  /\ \A d, e \in Clients : d # e => DueFrom(d) \cap DueFrom(e) = {}
  /\ \A d \in Clients : \A x \in DueFrom(d) :
       /\ x \in Clients /\ status[x] # "idle"
       /\ \A f \in Files : x \notin Waiting(f)
  /\ \A f \in Files : \A x \in Waiting(f) : status[x] \in {"await", "gone"}
  /\ \A f, g \in Files : f # g => Waiting(f) \cap Waiting(g) = {}
  /\ \A x \in Clients : status[x] = "await" =>
       \/ \E f \in Files : x \in Waiting(f)
       \/ \E d \in Clients : x \in DueFrom(d)

\* The locks of all files, the closed clients, and GrantsAreTrue.
Locks ==
  /\ \A f \in Files : FileLocks(file[f]) /\ (~ file[f].present => file[f] = Absent)
  /\ \A c \in Clients, f \in Files : status[c] = "closed" => c \notin Opens(file[f])

Grants ==
  \A d \in Clients : \A i \in 1 .. Len(out[d]) :
    out[d][i].ans = "OK" =>
      \A w \in Range(out[d][i].to) \ {d} :
        LET f == out[d][i].about IN
        f \in Files /\ (w \in Opens(file[f]) => file[f].locked_by = w)

Reads ==
  \A c \in rlock :
    /\ Len(out[c]) = 1 /\ Head(out[c]).to = << c >>
    /\ Head(out[c]).data \subseteq Present
    /\ Head(out[c]).about \in Files =>
         /\ c \in Opens(file[Head(out[c]).about])
         /\ file[Head(out[c]).about].locked_by \in {NoClient, c}

LockInv == Inv /\ Sessions /\ Locks /\ Grants /\ Reads

LEMMA WaitingType ==
  ASSUME Inv, NEW f \in Files
  PROVE  Waiting(f) \subseteq Clients /\ Opens(file[f]) \subseteq Clients
BY FileType, RecordLists DEF Waiting

\* A step of c gives it the status st; msgs are to be sent, the clients of K are
\* woken, the others keep waiting.
QueuesMove(c, st, msgs, K) ==
  /\ st = "await" => status[c] = "idle"
  /\ \A f \in Files : Waiting(f)' \subseteq Waiting(f) \cup {c}
  /\ \A f \in Files : \A x \in Waiting(f) \ Waiting(f)' :
       x \in Recipients(msgs) \/ x \in K \/ x = c
  /\ \A x \in Recipients(msgs) \ {c} :
       x \notin K /\ \E f \in Files : x \in Waiting(f)
  /\ \A x \in Recipients(msgs) \cup K : \A f \in Files : x \notin Waiting(f)'
  /\ \A x \in K \cap Clients : \E f \in Files : x \in Waiting(f)
  /\ st = "await" => \/ c \in Recipients(msgs)
                     \/ \E f \in Files : c \in Waiting(f)'
  /\ \A f, g \in Files : c \in Waiting(f)' /\ c \in Waiting(g)' => f = g
  /\ st = "closed" => c \notin Recipients(msgs) /\ \A f \in Files : c \notin Waiting(f)'

\* A step of c, whose worker had nothing to send.
LEMMA SessionsStep ==
  ASSUME Inv, Inv', Sessions, NEW c \in Clients, out[c] = << >>,
         NEW st \in {"await", "closed"}, NEW msgs \in Seq(Messages), Once(msgs), NEW K,
         out' = [out EXCEPT ![c] = msgs],
         status' = [Wake(K) EXCEPT ![c] = st],
         QueuesMove(c, st, msgs, K)
  PROVE  Sessions'
<1> USE DEF QueuesMove
<1>0. /\ out \in [Clients -> Seq(Messages)] /\ status \in [Clients -> Statuses]
      /\ \A f \in Files : Waiting(f) \subseteq Clients /\ Waiting(f)' \subseteq Clients
  BY WaitingType DEF Inv, SessionType
<1>1. /\ out'[c] = msgs /\ \A d \in Clients \ {c} : out'[d] = out[d]
      /\ DueFrom(c)' = Recipients(msgs) /\ DueFrom(c) = {}
      /\ \A d \in Clients \ {c} : DueFrom(d)' = DueFrom(d)
  BY <1>0, NoMessages DEF DueFrom
<1>2. /\ status'[c] = st
      /\ \A x \in Clients \ {c} :
           status'[x] = IF x \in K /\ status[x] = "await" THEN "idle" ELSE status[x]
  BY <1>0 DEF Wake
<1>3. \A f \in Files : c \in Waiting(f) => st = "closed"
  BY DEF Sessions
<1>4. \A d \in Clients : c \in DueFrom(d) => st = "closed"
  BY DEF Sessions
<1>5. \A x \in Recipients(msgs) : x \in Clients
  BY <1>0
<1>6. \A x \in (Recipients(msgs) \cup (K \cap Clients)) \ {c} :
        /\ \E f \in Files : x \in Waiting(f)
        /\ status[x] \in {"await", "gone"}
        /\ \A d \in Clients : x \notin DueFrom(d)
  BY DEF Sessions
<1>7. \A d \in Clients : Once(out'[d])
  BY <1>1 DEF Sessions
<1>8. ASSUME NEW d \in Clients, NEW e \in Clients, d # e
      PROVE  DueFrom(d)' \cap DueFrom(e)' = {}
  <2>1. ASSUME NEW g \in Clients \ {c}
        PROVE  Recipients(msgs) \cap DueFrom(g) = {}
    BY <1>4, <1>6
  <2> QED
    BY <1>1, <1>8, <2>1 DEF Sessions
<1>9. ASSUME NEW d \in Clients, NEW x \in DueFrom(d)'
      PROVE  /\ x \in Clients /\ status'[x] # "idle"
             /\ \A f \in Files : x \notin Waiting(f)'
  <2>1. CASE d = c
    <3>1. x \in Recipients(msgs)
      BY <1>1, <1>9, <2>1
    <3>2. status'[x] # "idle"
      BY <1>2, <1>5, <1>6, <3>1
    <3> QED
      BY <1>5, <3>1, <3>2
  <2>2. CASE d # c
    <3>1. x \in DueFrom(d) /\ x \in Clients /\ status[x] # "idle"
          /\ \A f \in Files : x \notin Waiting(f)
      BY <1>1, <1>9, <2>2 DEF Sessions
    <3>2. x = c => st = "closed"
      BY <1>4, <3>1
    <3>3. x \notin K
      BY <3>1
    <3>4. status'[x] # "idle"
      BY <1>2, <3>1, <3>2, <3>3
    <3>5. \A f \in Files : x \notin Waiting(f)'
      BY <3>1, <3>2
    <3> QED
      BY <3>1, <3>4, <3>5
  <2> QED
    BY <2>1, <2>2
<1>10. ASSUME NEW f \in Files, NEW x \in Waiting(f)'
       PROVE  status'[x] \in {"await", "gone"}
  <2>1. CASE x = c
    BY <1>2, <1>10, <2>1
  <2>2. CASE x # c
    <3>1. x \in Waiting(f) /\ x \in Clients /\ x \notin K
      BY <1>0, <1>10, <2>2
    <3> QED
      BY <1>2, <2>2, <3>1 DEF Sessions
  <2> QED
    BY <2>1, <2>2
<1>11. ASSUME NEW f \in Files, NEW g \in Files, f # g
       PROVE  Waiting(f)' \cap Waiting(g)' = {}
  BY <1>11 DEF Sessions
<1>12. ASSUME NEW x \in Clients, status'[x] = "await"
       PROVE  \/ \E f \in Files : x \in Waiting(f)'
              \/ \E d \in Clients : x \in DueFrom(d)'
  <2>1. CASE x = c
    BY <1>1, <1>2, <1>12, <2>1
  <2>2. CASE x # c
    <3>1. status[x] = "await" /\ x \notin K
      BY <1>2, <1>12, <2>2
    <3>2. \/ \E f \in Files : x \in Waiting(f)
          \/ \E d \in Clients : x \in DueFrom(d)
      BY <3>1 DEF Sessions
    <3>3. ASSUME NEW f \in Files, x \in Waiting(f)
          PROVE  x \in Waiting(f)' \/ x \in DueFrom(c)'
      BY <1>1, <2>2, <3>1, <3>3
    <3>4. ASSUME NEW d \in Clients, x \in DueFrom(d)
          PROVE  x \in DueFrom(d)'
      BY <1>1, <3>4
    <3> QED
      BY <3>2, <3>3, <3>4
  <2> QED
    BY <2>1, <2>2
<1> QED
  BY <1>7, <1>8, <1>9, <1>10, <1>11, <1>12 DEF Sessions

\* What a step of c keeps of the files: their locks are in order, only c gets
\* to be an opener, and other owners stay owners as long as they are openers.
FilesStep(c) ==
  /\ \A f \in Files : /\ FileLocks(file'[f])
                      /\ ~ file'[f].present => file'[f] = Absent
                      /\ Opens(file'[f]) \subseteq Opens(file[f]) \cup {c}
  /\ \A f \in Files, x \in Clients \ {c} :
       x \in Opens(file'[f]) /\ file[f].locked_by = x => file'[f].locked_by = x

\* What msgs promises to others than c is true after the step.
Promises(c, msgs) ==
  \A i \in 1 .. Len(msgs) : msgs[i].ans = "OK" =>
    \A w \in Range(msgs[i].to) \ {c} :
      LET f == msgs[i].about IN
      f \in Files /\ (w \in Opens(file'[f]) => file'[f].locked_by = w)

LEMMA MorePromises ==
  ASSUME NEW c, NEW a \in Seq(Messages), NEW b \in Seq(Messages),
         Promises(c, a), Promises(c, b)
  PROVE  Promises(c, a \o b)
<1> DEFINE s == a \o b
<1>1. /\ Len(s) = Len(a) + Len(b) /\ Len(a) \in Nat /\ Len(b) \in Nat
      /\ \A i \in 1 .. Len(a) + Len(b) : s[i] = IF i <= Len(a) THEN a[i] ELSE b[i - Len(a)]
  BY ConcatProperties
<1> HIDE DEF s
<1>2. \A i \in 1 .. Len(s) : \/ i \in 1 .. Len(a) /\ s[i] = a[i]
                             \/ i - Len(a) \in 1 .. Len(b) /\ s[i] = b[i - Len(a)]
  BY <1>1
<1>3. Promises(c, s)
  BY <1>2, ZenonT(60) DEF Promises
<1> QED
  BY <1>3 DEF s

\* Who leaves a queue is sent one of msgs or woken, and waits no more; c is
\* answered or joins one queue.
QueuesStep(c, msgs, K) ==
  /\ \A f \in Files : Waiting(f)' \subseteq Waiting(f) \cup {c}
  /\ \A f \in Files : \A x \in Waiting(f) \ Waiting(f)' :
       x \in Recipients(msgs) \/ x \in K
  /\ \A x \in Recipients(msgs) \ {c} :
       x \notin K /\ \E f \in Files : x \in Waiting(f)
  /\ \A x \in Recipients(msgs) \cup K : \A f \in Files : x \notin Waiting(f)'
  /\ \A x \in K \cap Clients : \E f \in Files : x \in Waiting(f)
  /\ c \in Recipients(msgs) \/ \E f \in Files : c \in Waiting(f)'
  /\ \A f, g \in Files : c \in Waiting(f)' /\ c \in Waiting(g)' => f = g

LEMMA AwaitStep ==
  ASSUME Inv, Inv', Sessions, NEW c \in Clients, status[c] = "idle", out[c] = << >>,
         NEW msgs \in Seq(Messages), Once(msgs), NEW K,
         out' = [out EXCEPT ![c] = msgs],
         status' = [Wake(K) EXCEPT ![c] = "await"],
         QueuesStep(c, msgs, K)
  PROVE  Sessions'
<1>1. QueuesMove(c, "await", msgs, K)
  BY DEF QueuesStep, QueuesMove
<1> QED
  BY <1>1, SessionsStep

\* The connection thread is done with c, which is in no queue any more.
LEMMA ClosedStep ==
  ASSUME Inv, Inv', Sessions, NEW c \in Clients, out[c] = << >>,
         NEW msgs \in Seq(Messages), Once(msgs), Recipients(msgs) = {}, NEW K,
         out' = [out EXCEPT ![c] = msgs],
         status' = [Wake(K) EXCEPT ![c] = "closed"],
         \A f \in Files : Waiting(f)' \subseteq Waiting(f),
         \A f \in Files : \A x \in Waiting(f) \ Waiting(f)' : x \in K \/ x = c,
         \A x \in K : \A f \in Files : x \notin Waiting(f)',
         \A x \in K \cap Clients : \E f \in Files : x \in Waiting(f),
         \A f \in Files : c \notin Waiting(f)'
  PROVE  Sessions'
<1>1. QueuesMove(c, "closed", msgs, K)
  BY DEF QueuesMove
<1> QED
  BY <1>1, SessionsStep

\* The common end of the handlers: c is answered or joins one queue.
LEMMA HandlerEnd ==
  ASSUME LockInv, Inv', NEW c \in Clients, status[c] = "idle", out[c] = << >>,
         NEW msgs \in Seq(Messages), Once(msgs), NEW K,
         out' = [out EXCEPT ![c] = msgs],
         status' = [Wake(K) EXCEPT ![c] = "await"],
         rlock' = rlock, rlock = {} \/ file' = file,
         FilesStep(c), Promises(c, msgs), QueuesStep(c, msgs, K)
  PROVE  LockInv'
<1>0. /\ Inv /\ Sessions
      /\ out \in [Clients -> Seq(Messages)] /\ status \in [Clients -> Statuses]
      /\ rlock \subseteq Clients
      /\ out'[c] = msgs /\ \A d \in Clients \ {c} : out'[d] = out[d]
  BY DEF LockInv, Inv, SessionType
<1>1. Sessions'
  BY <1>0, AwaitStep
<1>2. Locks'
  <2>1. \A x \in Clients : status'[x] = "closed" => x # c /\ status[x] = "closed"
    BY <1>0 DEF Wake
  <2> QED
    BY <2>1 DEF Locks, LockInv, FilesStep
<1>3. Grants'
  <2> SUFFICES ASSUME NEW d \in Clients, NEW i \in 1 .. Len(out'[d]),
                      out'[d][i].ans = "OK",
                      NEW w \in Range(out'[d][i].to) \ {d}
               PROVE  LET f == out'[d][i].about IN
                      f \in Files /\ (w \in Opens(file'[f]) => file'[f].locked_by = w)
    BY DEF Grants
  <2>1. CASE d = c
    BY <1>0, <2>1 DEF Promises
  <2>2. CASE d # c
    <3>1. out'[d] = out[d]
      BY <1>0, <2>2
    <3>2. out[d][i].about \in Files
          /\ (w \in Opens(file[out[d][i].about]) => file[out[d][i].about].locked_by = w)
      BY <3>1 DEF LockInv, Grants
    <3>3. w \in DueFrom(d)
      BY <3>1 DEF DueFrom, Recipients
    <3>4. w \in Clients \ {c}
      BY <1>0, <3>3 DEF Sessions
    <3> QED
      BY <3>1, <3>2, <3>4 DEF FilesStep
  <2> QED
    BY <2>1, <2>2
<1>4. Reads'
  <2> SUFFICES ASSUME NEW d \in rlock, file' = file
               PROVE  /\ Len(out'[d]) = 1 /\ Head(out'[d]).to = << d >>
                      /\ Head(out'[d]).data \subseteq Present'
                      /\ Head(out'[d]).about \in Files =>
                           /\ d \in Opens(file'[Head(out'[d]).about])
                           /\ file'[Head(out'[d]).about].locked_by \in {NoClient, d}
    BY DEF Reads
  <2>1. Present' = Present
    BY DEF Present
  <2>2. d # c
    <3>1. Len(out[d]) = 1
      BY DEF LockInv, Reads
    <3>2. Len(<< >>) # 1
      OBVIOUS
    <3> QED
      BY <3>1, <3>2, Zenon
  <2>3. out'[d] = out[d]
    BY <1>0, <2>2
  <2> QED
    BY <2>1, <2>3 DEF LockInv, Reads
<1> QED
  BY <1>1, <1>2, <1>3, <1>4 DEF LockInv

LEMMA WakeNobody ==
  ASSUME SessionType
  PROVE  Wake({}) = status
BY DEF SessionType, Wake

\* A handler that leaves with the sends msgs and wakes nobody itself.
LEMMA RepliesEnd ==
  ASSUME LockInv, Inv', NEW c \in Clients, Handles(c),
         NEW msgs \in Seq(Messages), Once(msgs), Replies(c, msgs),
         rlock = {} \/ file' = file,
         FilesStep(c), Promises(c, msgs), QueuesStep(c, msgs, {})
  PROVE  LockInv'
<1>1. /\ out' = [out EXCEPT ![c] = msgs]
      /\ status' = [Wake({}) EXCEPT ![c] = "await"]
      /\ rlock' = rlock
  BY WakeNobody DEF Replies, LockInv, Inv
<1>2. status[c] = "idle" /\ out[c] = << >>
  BY DEF Handles
<1> QED
  BY <1>1, <1>2, HandlerEnd

\* c makes a request, so it waits for nothing and is sent nothing.
LEMMA HandlesFree ==
  ASSUME LockInv, NEW c \in Clients, Handles(c)
  PROVE  \A f \in Files : c \notin Waiting(f)
BY DEF LockInv, Sessions, Handles

\* c is answered and nothing happens to the queues.
LEMMA AnswerEnd ==
  ASSUME LockInv, Inv', NEW c \in Clients, Handles(c),
         NEW m \in Messages, m.to = << c >>, Replies(c, << m >>),
         rlock = {} \/ file' = file,
         FilesStep(c), \A f \in Files : Waiting(f)' = Waiting(f)
  PROVE  LockInv'
<1>1. /\ << m >> \in Seq(Messages) /\ Recipients(<< m >>) = {c} /\ Once(<< m >>)
  BY OneMessage
<1>2. Promises(c, << m >>)
  BY <1>1 DEF Promises, Recipients
<1>3. QueuesStep(c, << m >>, {})
  BY <1>1, HandlesFree DEF QueuesStep
<1> QED
  BY <1>1, <1>2, <1>3, RepliesEnd

LEMMA FilesType ==
  ASSUME LockInv
  PROVE  /\ file \in [Files -> FileRecords] /\ filenames = Present
         /\ \A f \in Files : file[f] \in FileRecords /\ FileLocks(file[f])
         /\ \A f \in Files \ Present : file[f] = Absent
         /\ \A f \in Files : Opens(file[f]) \subseteq Clients
BY WaitingType DEF LockInv, Inv, StoreInv, StoreType, Accounting, Locks, Present

LEMMA SameFilesStep ==
  ASSUME LockInv, file' = file, NEW c \in Clients
  PROVE  FilesStep(c) /\ \A f \in Files : Waiting(f)' = Waiting(f)
BY DEF LockInv, Locks, FilesStep, Waiting

\* Only the file_stored of f changes.
LEMMA OneFileStep ==
  ASSUME LockInv, NEW c \in Clients, NEW f \in Files,
         NEW r \in FileRecords, FileLocks(r), r.present,
         Opens(r) \subseteq Opens(file[f]) \cup {c},
         \A x \in Clients \ {c} :
           x \in Opens(r) /\ file[f].locked_by = x => r.locked_by = x,
         file' = [file EXCEPT ![f] = r]
  PROVE  /\ FilesStep(c) /\ file'[f] = r
         /\ Waiting(f)' = Waits(r)
         /\ \A g \in Files \ {f} : Waiting(g)' = Waiting(g)
<1>1. file'[f] = r /\ \A g \in Files \ {f} : file'[g] = file[g]
  BY FilesType
<1>2. \A g \in Files : FileLocks(file[g]) /\ (~ file[g].present => file[g] = Absent)
  BY DEF LockInv, Locks
<1>3. \A g \in Files : /\ FileLocks(file'[g])
                       /\ ~ file'[g].present => file'[g] = Absent
                       /\ Opens(file'[g]) \subseteq Opens(file[g]) \cup {c}
  BY <1>1, <1>2
<1>4. \A g \in Files, x \in Clients \ {c} :
        x \in Opens(file'[g]) /\ file[g].locked_by = x => file'[g].locked_by = x
  BY <1>1
<1> QED
  BY <1>1, <1>3, <1>4 DEF FilesStep, Waiting

-------------------------------------------------------------------------------
(* The handlers.                                                           *)

LEMMA CorruptsLocks ==
  ASSUME LockInv, Inv', Corrupts
  PROVE  LockInv'
<1>1. UNCHANGED <<file, status, out, rlock>>
  BY DEF Corrupts, storeVars, sessionVars
<1> QED
  BY <1>1 DEF LockInv, Sessions, Locks, Grants, Reads, DueFrom, Waiting, Present

LEMMA FailsLocks ==
  ASSUME LockInv, Inv', NEW c \in Clients, NEW f \in Files, NEW e \in Errors,
         Handles(c), Fails(c, f, e)
  PROVE  LockInv'
<1>1. Answer(c, f, e, {}) \in Messages /\ Answer(c, f, e, {}).to = << c >>
  <2>1. Answer(c, f, e, {}) \in Messages
    BY AnswerType DEF Answers
  <2> QED
    BY <2>1 DEF Answer
<1>2. file' = file /\ Replies(c, << Answer(c, f, e, {}) >>)
  BY DEF Fails, storeVars
<1> QED
  BY <1>1, <1>2, SameFilesStep, AnswerEnd

LEMMA OkAnswer ==
  ASSUME NEW c \in Clients, NEW f \in Files
  PROVE  Ok(c, f) \in Messages /\ Ok(c, f).to = << c >> /\ Ok(c, f).about = f
BY OkType DEF Ok, Answer

\* c is answered after a change of f that leaves its queue alone.
LEMMA OneFileAnswer ==
  ASSUME LockInv, Inv', NEW c \in Clients, InWriteSection(c), NEW f \in Files,
         NEW r \in FileRecords, FileLocks(r), r.present,
         Opens(r) \subseteq Opens(file[f]) \cup {c},
         \A x \in Clients \ {c} :
           x \in Opens(r) /\ file[f].locked_by = x => r.locked_by = x,
         Waits(r) = Waiting(f),
         file' = [file EXCEPT ![f] = r], Replies(c, << Ok(c, f) >>)
  PROVE  LockInv'
<1>1. FilesStep(c) /\ \A g \in Files : Waiting(g)' = Waiting(g)
  BY OneFileStep, ZenonT(60)
<1>2. Handles(c) /\ rlock = {}
  BY DEF InWriteSection
<1> QED
  BY <1>1, <1>2, OkAnswer, AnswerEnd

LEMMA OpenCreateLocks ==
  ASSUME LockInv, Inv', NEW c \in Clients, NEW f \in Files, NEW lock \in BOOLEAN,
         OpenCreate(c, f, lock)
  PROVE  LockInv'
<1>0. InWriteSection(c) /\ Handles(c)
  BY DEF OpenCreate, InWriteSection
<1>1. CASE OpenCreateRefusal(f) # "OK" /\ Fails(c, f, OpenCreateRefusal(f))
  <2>1. OpenCreateRefusal(f) \in Errors
    BY <1>1 DEF OpenCreateRefusal, Errors
  <2> QED
    BY <1>0, <1>1, <2>1, FailsLocks
<1>2. CASE /\ OpenCreateRefusal(f) = "OK"
           /\ file' = [file EXCEPT ![f] = NewFile(c, lock)]
           /\ Replies(c, << Ok(c, f) >>)
  <2> DEFINE q == file_add_client(create_file, c)
             r == NewFile(c, lock)
  <2>1. file[f] = Absent
    BY <1>2, FilesType DEF OpenCreateRefusal, Present
  <2>2. /\ q \in FileRecords /\ FileLocks(q) /\ q.present /\ Waits(q) = {}
        /\ Opens(q) = {c} /\ q.locked_by = NoClient
    <3>1. Opened(create_file, c) = q
      BY AbsentLocks DEF Opened, file_is_opened_by, Opens
    <3> QED
      BY <3>1, AbsentType, AbsentLocks, OpenedLocks
  <2> HIDE DEF q
  <2>3. /\ r \in FileRecords /\ FileLocks(r) /\ r.present /\ Waits(r) = {} /\ Opens(r) = {c}
    <3>1. r = IF lock THEN [q EXCEPT !.locked_by = c, !.write_enabled = TRUE] ELSE q
      BY DEF NewFile, q
    <3> HIDE DEF r
    <3>2. CASE ~ lock
      BY <2>2, <3>1, <3>2
    <3>3. CASE lock
      <4> DEFINE p == [q EXCEPT !.locked_by = c]
      <4>1. p \in FileRecords /\ FileLocks(p) /\ Waits(p) = Waits(q) /\ Opens(p) = Opens(q)
            /\ p.present = q.present
        BY <2>2, TakeLocks
      <4>2. r = [p EXCEPT !.write_enabled = TRUE]
        BY <3>1, <3>3, <2>2 DEF FileRecords
      <4> HIDE DEF p
      <4>3. /\ r \in FileRecords /\ r.locked_by = p.locked_by /\ r.present = p.present
            /\ r.lock_queue = p.lock_queue /\ r.opened_by = p.opened_by
        BY <4>1, <4>2 DEF FileRecords
      <4> QED
        BY <2>2, <4>1, <4>3 DEF FileLocks, Waits, Opens
    <3> QED
      BY <3>2, <3>3
  <2>4. /\ Waits(r) = Waiting(f) /\ Opens(r) \subseteq Opens(file[f]) \cup {c}
        /\ \A x \in Clients \ {c} :
             x \in Opens(r) /\ file[f].locked_by = x => r.locked_by = x
    BY <2>1, <2>3, AbsentLocks DEF Waiting
  <2> HIDE DEF r
  <2>5. file' = [file EXCEPT ![f] = r] /\ Replies(c, << Ok(c, f) >>)
    BY <1>2 DEF r
  <2> QED
    BY <1>0, <2>3, <2>4, <2>5, OneFileAnswer
<1> QED
  BY <1>1, <1>2 DEF OpenCreate

\* r is file[f] with c among its openers.
LEMMA TakesLockLocks ==
  ASSUME LockInv, Inv', NEW c \in Clients, InWriteSection(c), NEW f \in Files,
         NEW r \in FileRecords, FileLocks(r), r.present,
         c \in Opens(r), Opens(r) \subseteq Opens(file[f]) \cup {c},
         Waits(r) = Waiting(f), r.locked_by = file[f].locked_by,
         TakesLock(c, f, r)
  PROVE  LockInv'
<1>0. Handles(c) /\ rlock = {}
  BY DEF InWriteSection
<1>1. CASE /\ r.locked_by \in {NoClient, c}
           /\ Updates(f, [r EXCEPT !.locked_by = c])
           /\ Replies(c, << Ok(c, f) >>)
  <2> DEFINE q == [r EXCEPT !.locked_by = c]
  <2>1. /\ q \in FileRecords /\ FileLocks(q) /\ q.present
        /\ Waits(q) = Waits(r) /\ Opens(q) = Opens(r) /\ q.locked_by = c
    BY <1>1, TakeLocks
  <2> HIDE DEF q
  <2>2. \A x \in Clients \ {c} :
          x \in Opens(q) /\ file[f].locked_by = x => q.locked_by = x
    BY <1>1, ConstantsAssumption
  <2>3. file' = [file EXCEPT ![f] = q] /\ Replies(c, << Ok(c, f) >>)
    BY <1>1 DEF Updates, q
  <2> QED
    BY <2>1, <2>2, <2>3, OneFileAnswer
<1>2. CASE /\ r.locked_by \notin {NoClient, c}
           /\ Updates(f, file_enqueue_lock(r, c))
           /\ Replies(c, << >>)
  <2> DEFINE q == file_enqueue_lock(r, c)
  <2>0. c \notin Waits(r)
    BY <1>0, HandlesFree
  <2>1. /\ q \in FileRecords /\ FileLocks(q) /\ q.present
        /\ Waits(q) = Waits(r) \cup {c} /\ Opens(q) = Opens(r)
        /\ q.locked_by = r.locked_by
    BY <1>2, <2>0, EnqueueLocks
  <2> HIDE DEF q
  <2>2. file' = [file EXCEPT ![f] = q] /\ Replies(c, << >>)
    BY <1>2 DEF Updates, q
  <2>3. /\ FilesStep(c) /\ Waiting(f)' = Waiting(f) \cup {c}
        /\ \A g \in Files \ {f} : Waiting(g)' = Waiting(g)
    <3>1. Opens(q) \subseteq Opens(file[f]) \cup {c}
      BY <2>1
    <3>2. \A x \in Clients \ {c} :
            x \in Opens(q) /\ file[f].locked_by = x => q.locked_by = x
      BY <2>1
    <3>3. /\ FilesStep(c) /\ Waiting(f)' = Waits(q)
          /\ \A g \in Files \ {f} : Waiting(g)' = Waiting(g)
      BY <2>1, <2>2, <3>1, <3>2, OneFileStep
    <3> QED
      BY <2>1, <3>3
  <2>4. << >> \in Seq(Messages) /\ Recipients(<< >>) = {} /\ Once(<< >>)
    BY NoMessages
  <2>5. Promises(c, << >>)
    BY DEF Promises
  <2>6. QueuesStep(c, << >>, {})
    BY <1>0, <2>3, <2>4, HandlesFree DEF QueuesStep
  <2> QED
    BY <1>0, <2>2, <2>3, <2>4, <2>5, <2>6, RepliesEnd
<1>3. CASE Corrupts
  BY <1>3, CorruptsLocks
<1> QED
  BY <1>1, <1>2, <1>3 DEF TakesLock

LEMMA OpenLocks ==
  ASSUME LockInv, Inv', NEW c \in Clients, NEW f \in Files, NEW lock \in BOOLEAN,
         Open(c, f, lock)
  PROVE  LockInv'
<1> DEFINE r == Opened(file[f], c)
<1>0. InWriteSection(c) /\ Handles(c)
  BY DEF Open, InWriteSection
<1>1. CASE Fails(c, f, "ENOENT")
  BY <1>0, <1>1, FailsLocks DEF Errors
<1>2. CASE file[f].present /\ (\/ Updates(f, r) /\ Replies(c, << Ok(c, f) >>)
                               \/ TakesLock(c, f, r))
  <2>1. /\ r \in FileRecords /\ FileLocks(r) /\ r.present
        /\ c \in Opens(r) /\ Opens(r) \subseteq Opens(file[f]) \cup {c}
        /\ Waits(r) = Waiting(f) /\ r.locked_by = file[f].locked_by
    BY <1>2, FilesType, OpenedLocks DEF Waiting
  <2> HIDE DEF r
  <2>2. CASE Updates(f, r) /\ Replies(c, << Ok(c, f) >>)
    <3>1. file' = [file EXCEPT ![f] = r]
      BY <2>2 DEF Updates
    <3> QED
      BY <1>0, <2>1, <2>2, <3>1, OneFileAnswer
  <2>3. CASE TakesLock(c, f, r)
    BY <1>0, <2>1, <2>3, TakesLockLocks
  <2> QED
    BY <1>2, <2>2, <2>3
<1> QED
  BY <1>1, <1>2 DEF Open

LEMMA LockLocks ==
  ASSUME LockInv, Inv', NEW c \in Clients, NEW f \in Files, Lock(c, f)
  PROVE  LockInv'
<1>0. InWriteSection(c) /\ Handles(c)
  BY DEF Lock, InWriteSection
<1>1. CASE LockRefusal(c, f) # "OK" /\ Fails(c, f, LockRefusal(c, f))
  <2>1. LockRefusal(c, f) \in Errors
    BY <1>1 DEF LockRefusal, Errors
  <2> QED
    BY <1>0, <1>1, <2>1, FailsLocks
<1>2. CASE LockRefusal(c, f) = "OK" /\ TakesLock(c, f, file[f])
  <2>1. file[f].present /\ c \in Opens(file[f])
    BY <1>2 DEF LockRefusal, file_is_opened_by, Opens
  <2>2. Waits(file[f]) = Waiting(f)
    BY DEF Waiting
  <2> QED
    BY <1>0, <1>2, <2>1, <2>2, FilesType, TakesLockLocks
<1> QED
  BY <1>1, <1>2 DEF Lock

\* The owner c gives the lock up: r is file[f] handed over, c perhaps no longer
\* among its openers, and the next owner, if any, is told before c is answered.
LEMMA HandOverEnd ==
  ASSUME LockInv, Inv', NEW c \in Clients, InWriteSection(c),
         NEW f \in Present, file[f].locked_by = c,
         NEW r \in FileRecords, FileLocks(r), r.present,
         Opens(r) \subseteq Opens(file[f]),
         r.lock_queue = HandOver(file[f]).lock_queue,
         r.locked_by = NextOwner(file[f]),
         Updates(f, r),
         Replies(c, Grant(NextOwner(file[f]), f) \o << Ok(c, f) >>)
  PROVE  LockInv'
<1> DEFINE w == NextOwner(file[f])
           q == HandOver(file[f])
           g == Grant(w, f)
           msgs == g \o << Ok(c, f) >>
<1>0. Handles(c) /\ rlock = {} /\ f \in Files /\ file[f] \in FileRecords
  BY FilesType DEF InWriteSection, Present
<1>1. /\ w \notin Waits(q)
      /\ Waits(file[f]) = {} => w = NoClient /\ Waits(q) = {}
      /\ Waits(file[f]) # {} =>
           w \in Clients /\ w # NoClient /\ Waits(file[f]) = Waits(q) \cup {w}
  BY <1>0, FilesType, HandOverQueue DEF FileLocks
<1>2. Waits(r) = Waits(q) /\ r.locked_by = w
  BY DEF Waits
<1> HIDE DEF q, w
<1>3. file' = [file EXCEPT ![f] = r]
  BY DEF Updates
<1>4. /\ FilesStep(c) /\ file'[f] = r /\ Waiting(f)' = Waits(q)
      /\ \A h \in Files \ {f} : Waiting(h)' = Waiting(h)
  <2>1. \A x \in Clients \ {c} :
          x \in Opens(r) /\ file[f].locked_by = x => r.locked_by = x
    OBVIOUS
  <2> QED
    BY <1>0, <1>2, <1>3, <2>1, OneFileStep
<1>5. \A h \in Files : c \notin Waiting(h)
  BY <1>0, HandlesFree
<1>6. /\ << Ok(c, f) >> \in Seq(Messages) /\ Recipients(<< Ok(c, f) >>) = {c}
      /\ Once(<< Ok(c, f) >>) /\ Promises(c, << Ok(c, f) >>)
  <2>1. /\ << Ok(c, f) >> \in Seq(Messages) /\ Recipients(<< Ok(c, f) >>) = {c}
        /\ Once(<< Ok(c, f) >>)
    BY <1>0, OkAnswer, OneMessage
  <2> QED
    BY <2>1 DEF Promises, Recipients
<1>7. CASE Waits(file[f]) = {}
  <2>1. g = << >>
    BY <1>1, <1>7 DEF Grant
  <2>2. msgs = << Ok(c, f) >>
    BY <1>6, <2>1
  <2> HIDE DEF msgs, g
  <2>3. Replies(c, << Ok(c, f) >>)
    BY <2>2 DEF msgs, g, w
  <2>4. QueuesStep(c, << Ok(c, f) >>, {})
    BY <1>1, <1>4, <1>5, <1>6, <1>7 DEF QueuesStep, Waiting
  <2> QED
    BY <1>0, <1>4, <1>6, <2>3, <2>4, RepliesEnd
<1>8. CASE Waits(file[f]) # {}
  <2>0. w \in Clients /\ w # NoClient /\ w \in Waiting(f) /\ w # c
        /\ Waiting(f) = Waits(q) \cup {w}
    BY <1>0, <1>1, <1>5, <1>8 DEF Waiting
  <2>1. g = << Ok(w, f) >>
    BY <2>0 DEF Grant
  <2>2. /\ Ok(w, f) \in Messages /\ Ok(w, f).to = << w >> /\ Ok(w, f).about = f
    BY <1>0, <2>0, OkAnswer
  <2>3. g \in Seq(Messages) /\ Recipients(g) = {w} /\ Once(g)
    BY <2>1, <2>2, OneMessage
  <2>4. /\ msgs \in Seq(Messages) /\ Recipients(msgs) = {w, c} /\ Once(msgs)
    <3>1. Recipients(g) \cap Recipients(<< Ok(c, f) >>) = {}
      BY <1>6, <2>0, <2>3
    <3> HIDE DEF g
    <3>2. /\ msgs \in Seq(Messages) /\ Once(msgs)
          /\ Recipients(msgs) = Recipients(g) \cup Recipients(<< Ok(c, f) >>)
      BY <1>6, <2>3, <3>1, MoreMessages
    <3> QED
      BY <1>6, <2>3, <3>2
  <2>5. Promises(c, msgs)
    <3>1. /\ Len(g) = 1 /\ g[1].about = f /\ Range(g[1].to) = {w} /\ 1 .. 1 = {1}
      <4>1. Range(<< w >>) = {w}
        BY DEF Range
      <4> QED
        BY <2>1, <2>2, <4>1
    <3>2. file'[f].locked_by = w
      BY <1>2, <1>4
    <3> HIDE DEF g
    <3>3. Promises(c, g)
      BY <1>0, <3>1, <3>2 DEF Promises
    <3> QED
      BY <1>6, <2>3, <3>3, MorePromises
  <2>6. \A h \in Files \ {f} : w \notin Waiting(h)
    BY <1>0, <2>0 DEF LockInv, Sessions
  <2> HIDE DEF msgs
  <2>7. QueuesStep(c, msgs, {})
    BY <1>0, <1>1, <1>4, <1>5, <2>0, <2>4, <2>6 DEF QueuesStep
  <2>8. Replies(c, msgs)
    BY DEF msgs, g, w
  <2> QED
    BY <1>0, <1>4, <2>4, <2>5, <2>7, <2>8, RepliesEnd
<1> QED
  BY <1>7, <1>8

LEMMA UnlockLocks ==
  ASSUME LockInv, Inv', NEW c \in Clients, NEW f \in Files, Unlock(c, f)
  PROVE  LockInv'
<1>0. InWriteSection(c) /\ Handles(c)
  BY DEF Unlock, InWriteSection
<1>1. CASE UnlockRefusal(c, f) # "OK" /\ Fails(c, f, UnlockRefusal(c, f))
  <2>1. UnlockRefusal(c, f) \in Errors
    BY <1>1 DEF UnlockRefusal, Errors
  <2> QED
    BY <1>0, <1>1, <2>1, FailsLocks
<1>2. CASE /\ UnlockRefusal(c, f) = "OK"
           /\ Updates(f, HandOver(file[f]))
           /\ Replies(c, Grant(NextOwner(file[f]), f) \o << Ok(c, f) >>)
  <2> DEFINE r == HandOver(file[f])
  <2>1. f \in Present /\ file[f].present /\ file[f].locked_by = c
    BY <1>2 DEF UnlockRefusal, Present
  <2>2. /\ r \in FileRecords /\ FileLocks(r) /\ r.present
        /\ r.opened_by = file[f].opened_by /\ r.locked_by = NextOwner(file[f])
    BY <2>1, FilesType, HandOverQueue, HandOverLocks DEF FileLocks
  <2>3. Opens(r) \subseteq Opens(file[f])
    BY <2>2 DEF Opens
  <2> QED
    BY <1>0, <1>2, <2>1, <2>2, <2>3, HandOverEnd
<1> QED
  BY <1>1, <1>2 DEF Unlock

LEMMA CloseLocks ==
  ASSUME LockInv, Inv', NEW c \in Clients, NEW f \in Files, Close(c, f)
  PROVE  LockInv'
<1>0. InWriteSection(c) /\ Handles(c)
  BY DEF Close, InWriteSection
<1>1. CASE Fails(c, f, "ENOENT")
  BY <1>0, <1>1, FailsLocks DEF Errors
<1>2. CASE /\ file[f].present /\ file[f].locked_by = c
           /\ Updates(f, file_close_client(HandOver(file[f]), c))
           /\ Replies(c, Grant(NextOwner(file[f]), f) \o << Ok(c, f) >>)
  <2> DEFINE h == HandOver(file[f])
             r == file_close_client(h, c)
  <2>1. f \in Present
    BY <1>2 DEF Present
  <2>2. /\ h \in FileRecords /\ FileLocks(h) /\ h.present
        /\ h.opened_by = file[f].opened_by /\ h.locked_by = NextOwner(file[f])
        /\ Waits(h) \subseteq Waits(file[f])
        /\ NextOwner(file[f]) \in Waits(file[f]) \cup {NoClient}
    BY <1>2, FilesType, HandOverQueue, HandOverLocks DEF FileLocks
  <2>3. h.locked_by # c /\ c \notin Waits(h)
    BY <1>0, <2>2, HandlesFree, ConstantsAssumption DEF Waiting
  <2>4. /\ r \in FileRecords /\ FileLocks(r) /\ r.present
        /\ r.lock_queue = h.lock_queue /\ r.locked_by = h.locked_by
        /\ Opens(r) = Opens(h) \ {c}
    <3> HIDE DEF h
    <3> QED
      BY <2>2, <2>3, CloseClientQueue, CloseClientLocks DEF FileLocks
  <2>5. Opens(r) \subseteq Opens(file[f])
    BY <2>2, <2>4 DEF Opens
  <2>6. Updates(f, r)
    BY <1>2
  <2> HIDE DEF r
  <2> QED
    BY <1>0, <1>2, <2>1, <2>2, <2>4, <2>5, <2>6, HandOverEnd
<1>3. CASE /\ file[f].present /\ file[f].locked_by # c
           /\ Updates(f, file_close_client(file[f], c))
           /\ Replies(c, << Ok(c, f) >>)
  <2> DEFINE r == file_close_client(file[f], c)
  <2>1. c \notin Waits(file[f])
    BY <1>0, HandlesFree DEF Waiting
  <2>2. /\ r \in FileRecords /\ FileLocks(r) /\ r.present
        /\ r.lock_queue = file[f].lock_queue /\ r.locked_by = file[f].locked_by
        /\ Opens(r) = Opens(file[f]) \ {c}
    BY <1>3, <2>1, FilesType, CloseClientQueue, CloseClientLocks DEF FileLocks
  <2>3. Waits(r) = Waiting(f)
    BY <2>2 DEF Waits, Waiting
  <2>4. file' = [file EXCEPT ![f] = r]
    BY <1>3 DEF Updates
  <2> HIDE DEF r
  <2> QED
    BY <1>0, <1>3, <2>2, <2>3, <2>4, OneFileAnswer
<1> QED
  BY <1>1, <1>2, <1>3 DEF Close

-------------------------------------------------------------------------------
(* Write and append.                                                       *)

\* The waiters of every evicted file are sent one EIDRM each.
LEMMA RemovalsSends ==
  ASSUME LockInv, NEW vs \in Seq(Files), IsInjective(vs)
  PROVE  LET removals == [i \in 1 .. Len(vs) |-> Removed(vs[i])] IN
         /\ removals \in Seq(Messages) /\ Once(removals)
         /\ Recipients(removals) = UNION {Waiting(g) : g \in Range(vs)}
         /\ \A i \in 1 .. Len(removals) : removals[i].ans = "EIDRM"
<1> DEFINE removals == [i \in 1 .. Len(vs) |-> Removed(vs[i])]
<1>1. /\ removals \in Seq(Messages) /\ Len(removals) = Len(vs)
      /\ \A i \in 1 .. Len(vs) : removals[i] = Removed(vs[i])
  BY RemovalsType DEF LockInv
<1> HIDE DEF removals
<1>2. ASSUME NEW i \in 1 .. Len(vs)
      PROVE  /\ vs[i] \in Files /\ vs[i] \in Range(vs)
             /\ Range(removals[i].to) = Waiting(vs[i])
             /\ IsInjective(removals[i].to) /\ removals[i].ans = "EIDRM"
  <2>1. vs[i] \in Files /\ DOMAIN vs = 1 .. Len(vs)
    OBVIOUS
  <2>2. Distinct(file[vs[i]].lock_queue)
    BY <2>1, FilesType DEF FileLocks
  <2>3. removals[i] = Removed(vs[i])
    BY <1>1
  <2>4. removals[i].to = file[vs[i]].lock_queue.items /\ removals[i].ans = "EIDRM"
    BY <2>3 DEF Removed
  <2> QED
    BY <2>1, <2>2, <2>4 DEF Range, Waiting, Waits, Values, Distinct
<1>3. \A g \in Range(vs) : \E i \in 1 .. Len(vs) : g = vs[i]
  BY DEF Range
<1>4. Recipients(removals) = UNION {Waiting(g) : g \in Range(vs)}
  BY <1>1, <1>2, <1>3 DEF Recipients
<1>5. Once(removals)
  <2>1. \A i, j \in 1 .. Len(vs) : i # j => vs[i] # vs[j]
    BY DEF IsInjective
  <2>2. \A i, j \in 1 .. Len(vs) : i # j => Waiting(vs[i]) \cap Waiting(vs[j]) = {}
    BY <1>2, <2>1 DEF LockInv, Sessions
  <2> QED
    BY <1>1, <1>2, <2>2 DEF Once
<1> QED
  BY <1>1, <1>2, <1>4, <1>5 DEF removals

LEMMA WriteAnswersSends ==
  ASSUME LockInv, NEW c \in Clients, Handles(c), NEW f \in Files,
         NEW vs \in Seq(Files), IsInjective(vs), NEW sendBack \in BOOLEAN
  PROVE  LET msgs == WriteAnswers(c, f, vs, sendBack) IN
         /\ msgs \in Seq(Messages) /\ Once(msgs) /\ Promises(c, msgs)
         /\ Recipients(msgs) = {c} \cup UNION {Waiting(g) : g \in Range(vs)}
<1> DEFINE removals == [i \in 1 .. Len(vs) |-> Removed(vs[i])]
           back == << Answer(c, f, "OK", Range(vs)) >>
           ok   == << Ok(c, f) >>
           msgs == WriteAnswers(c, f, vs, sendBack)
           U    == UNION {Waiting(g) : g \in Range(vs)}
<1>1. msgs = IF sendBack THEN removals \o back ELSE ok \o removals
  BY DEF WriteAnswers
<1>2. /\ removals \in Seq(Messages) /\ Once(removals) /\ Recipients(removals) = U
      /\ \A i \in 1 .. Len(removals) : removals[i].ans = "EIDRM"
  BY RemovalsSends
<1> HIDE DEF removals, msgs
<1>3. Promises(c, removals)
  BY <1>2 DEF Promises
<1>4. c \notin U
  BY HandlesFree DEF Range
<1>5. /\ back \in Seq(Messages) /\ Recipients(back) = {c} /\ Once(back)
      /\ ok \in Seq(Messages) /\ Recipients(ok) = {c} /\ Once(ok)
  <2>1. Range(vs) \in SUBSET Files
    BY DEF Range
  <2>2. /\ Answer(c, f, "OK", Range(vs)) \in Messages
        /\ Answer(c, f, "OK", Range(vs)).to = << c >>
    <3>1. Answer(c, f, "OK", Range(vs)) \in Messages
      BY <2>1, AnswerType DEF Answers
    <3> QED
      BY <3>1 DEF Answer
  <2> QED
    BY <2>2, OkAnswer, OneMessage
<1> HIDE DEF U, back, ok
<1>6. Promises(c, back) /\ Promises(c, ok)
  BY <1>5 DEF Promises, Recipients
<1>7. {c} \cap U = {}
  BY <1>4
<1>8. CASE sendBack
  <2>1. msgs = removals \o back
    BY <1>1, <1>8
  <2> QED
    BY <1>2, <1>3, <1>5, <1>6, <1>7, <2>1, MoreMessages, MorePromises DEF msgs, U
<1>9. CASE ~ sendBack
  <2>1. msgs = ok \o removals
    BY <1>1, <1>9
  <2>2. /\ msgs \in Seq(Messages) /\ Once(msgs)
        /\ Recipients(msgs) = {c} \cup U
    BY <1>2, <1>5, <1>7, <2>1, MoreMessages
  <2>3. Promises(c, msgs)
    BY <1>2, <1>3, <1>5, <1>6, <2>1, MorePromises
  <2> QED
    BY <2>2, <2>3 DEF msgs, U
<1> QED
  BY <1>8, <1>9

\* The common end of write and append, r the file with its new content: the
\* waiters of the evicted files are the ones that are sent EIDRM.
LEMMA StoreDataLocks ==
  ASSUME LockInv, Inv', NEW c \in Clients, InWriteSection(c), NEW f \in Present,
         NEW n \in Nat, NEW sendBack \in BOOLEAN,
         NEW r \in FileRecords, r.present, r.locked_by = file[f].locked_by,
         r.opened_by = file[f].opened_by, r.lock_queue = file[f].lock_queue,
         StoreData(c, f, r, n, sendBack)
  PROVE  LockInv'
<1>0. Handles(c) /\ rlock = {} /\ f \in Files
  BY DEF InWriteSection, Present
<1>1. CASE Fails(c, f, "EFBIG")
  BY <1>0, <1>1, FailsLocks DEF Errors
<1>2. CASE Corrupts
  BY <1>2, CorruptsLocks
<1>3. ASSUME NEW vs \in Evictions(f, n),
             file' = [g \in Files |-> IF g \in Range(vs) THEN Absent
                                      ELSE IF g = f THEN r ELSE file[g]],
             Replies(c, WriteAnswers(c, f, vs, sendBack))
      PROVE  LockInv'
  <2> DEFINE R    == Range(vs)
             msgs == WriteAnswers(c, f, vs, sendBack)
             U    == UNION {Waiting(g) : g \in R}
  <2>1. vs \in Seq(Files) /\ R \subseteq Present \ {f} /\ IsInjective(vs)
    BY <1>0, EvictionsProperties DEF LockInv
  <2>2. /\ msgs \in Seq(Messages) /\ Once(msgs) /\ Promises(c, msgs)
        /\ Recipients(msgs) = {c} \cup U
    BY <1>0, <2>1, WriteAnswersSends
  <2> HIDE DEF R, msgs
  <2>3. /\ \A g \in R : g \in Files /\ file'[g] = Absent
        /\ f \notin R /\ file'[f] = r
        /\ \A g \in Files \ R : g # f => file'[g] = file[g]
    BY <1>0, <1>3, <2>1 DEF R, Present
  <2>4. /\ \A g \in R : Waiting(g)' = {} /\ Opens(file'[g]) = {} /\ FileLocks(file'[g])
        /\ \A g \in Files \ R :
             /\ Waiting(g)' = Waiting(g) /\ Opens(file'[g]) = Opens(file[g])
             /\ file'[g].locked_by = file[g].locked_by
             /\ file'[g].present = file[g].present
             /\ FileLocks(file'[g])
    <3>1. ASSUME NEW g \in R
          PROVE  Waiting(g)' = {} /\ Opens(file'[g]) = {} /\ FileLocks(file'[g])
      BY <2>3, AbsentLocks DEF Waiting
    <3>2. ASSUME NEW g \in Files \ R
          PROVE  /\ Waiting(g)' = Waiting(g) /\ Opens(file'[g]) = Opens(file[g])
                 /\ file'[g].locked_by = file[g].locked_by
                 /\ file'[g].present = file[g].present
                 /\ FileLocks(file'[g])
      <4>1. FileLocks(file[g])
        BY FilesType
      <4>2. CASE g = f
        <5>1. file'[g] = r /\ file[g].present
          BY <2>3, <4>2 DEF Present
        <5> QED
          BY <4>1, <4>2, <5>1 DEF FileLocks, Waiting, Waits, Opens
      <4>3. CASE g # f
        BY <2>3, <4>1, <4>3 DEF Waiting
      <4> QED
        BY <4>2, <4>3
    <3> QED
      BY <3>1, <3>2
  <2>5. FilesStep(c)
    <3>1. \A g \in Files \ R : file'[g].present \/ file'[g] = Absent
      BY <2>3, <2>4, FilesType DEF Present
    <3>2. \A g \in Files :
            /\ FileLocks(file'[g]) /\ (~ file'[g].present => file'[g] = Absent)
            /\ Opens(file'[g]) \subseteq Opens(file[g]) \cup {c}
      BY <2>3, <2>4, <3>1
    <3>3. \A g \in Files, x \in Clients \ {c} :
            x \in Opens(file'[g]) /\ file[g].locked_by = x => file'[g].locked_by = x
      BY <2>3, <2>4
    <3> QED
      BY <3>2, <3>3 DEF FilesStep
  <2>6. QueuesStep(c, msgs, {})
    <3>1. \A g \in Files : c \notin Waiting(g)
      BY <1>0, HandlesFree
    <3>2. \A g, h \in Files : g # h => Waiting(g) \cap Waiting(h) = {}
      BY DEF LockInv, Sessions
    <3>3. \A g \in Files : Waiting(g)' = IF g \in R THEN {} ELSE Waiting(g)
      BY <2>4
    <3>4. R \subseteq Files
      BY <2>3
    <3>5. \A x \in U : \A g \in Files : x \notin Waiting(g)'
      BY <3>2, <3>3, <3>4
    <3>6. \A x \in U : \E g \in Files : x \in Waiting(g)
      BY <3>4
    <3>7. \A g \in Files : \A x \in Waiting(g) \ Waiting(g)' : x \in U
      BY <3>3
    <3> HIDE DEF U
    <3> QED
      BY <2>2, <3>1, <3>3, <3>5, <3>6, <3>7 DEF QueuesStep
  <2>7. Replies(c, msgs)
    BY <1>3 DEF msgs
  <2> QED
    BY <1>0, <2>2, <2>5, <2>6, <2>7, RepliesEnd
<1> QED
  BY <1>1, <1>2, <1>3 DEF StoreData

LEMMA ResetWriteModeLocks ==
  ASSUME LockInv, Inv', NEW c \in Clients, InWriteSection(c), NEW f \in Present,
         ResetWriteMode(c, f)
  PROVE  LockInv'
<1> DEFINE r == [file[f] EXCEPT !.write_enabled = FALSE]
<1>1. f \in Files /\ file[f].present /\ file[f] \in FileRecords /\ FileLocks(file[f])
  BY FilesType DEF Present
<1>2. /\ r \in FileRecords /\ r.present /\ r.locked_by = file[f].locked_by
      /\ r.opened_by = file[f].opened_by /\ r.lock_queue = file[f].lock_queue
  BY <1>1 DEF FileRecords
<1>3. file' = [file EXCEPT ![f] = r] /\ Replies(c, << Ok(c, f) >>)
  BY DEF ResetWriteMode, Updates
<1> HIDE DEF r
<1>4. FileLocks(r) /\ Waits(r) = Waiting(f) /\ Opens(r) = Opens(file[f])
  BY <1>1, <1>2 DEF FileLocks, Waiting, Waits, Opens
<1> QED
  BY <1>1, <1>2, <1>3, <1>4, OneFileAnswer

LEMMA WriteLocks ==
  ASSUME LockInv, Inv', NEW c \in Clients, NEW f \in Files, NEW n \in Sizes,
         NEW sendBack \in BOOLEAN, Write(c, f, n, sendBack)
  PROVE  LockInv'
<1> DEFINE e == WriteRefusal(c, f, n)
           r == file_replace_content(file[f], n)
<1>0. InWriteSection(c) /\ Handles(c) /\ n \in Nat
  BY ConstantsAssumption DEF Write, InWriteSection
<1>1. CASE e # "OK" /\ Fails(c, f, e)
  <2>1. e \in Errors
    BY <1>1 DEF WriteRefusal, Errors
  <2> QED
    BY <1>0, <1>1, <2>1, FailsLocks
<1>2. CASE e = "OK" /\ (ResetWriteMode(c, f) \/ StoreData(c, f, r, n, sendBack))
  <2>1. f \in Present /\ file[f].present /\ file[f] \in FileRecords
    BY <1>2, FilesType DEF WriteRefusal, Present
  <2>2. /\ r \in FileRecords /\ r.present /\ r.locked_by = file[f].locked_by
        /\ r.opened_by = file[f].opened_by /\ r.lock_queue = file[f].lock_queue
    BY <1>0, <2>1 DEF file_replace_content, FileRecords
  <2> HIDE DEF r
  <2> QED
    BY <1>0, <1>2, <2>1, <2>2, ResetWriteModeLocks, StoreDataLocks
<1> QED
  BY <1>1, <1>2 DEF Write

LEMMA AppendToLocks ==
  ASSUME LockInv, Inv', NEW c \in Clients, NEW f \in Files, NEW n \in Sizes,
         NEW sendBack \in BOOLEAN, AppendTo(c, f, n, sendBack)
  PROVE  LockInv'
<1> DEFINE e == AppendRefusal(c, f, n)
           r == file_append_content(file[f], n)
<1>0. InWriteSection(c) /\ Handles(c) /\ n \in Nat
  BY ConstantsAssumption DEF AppendTo, InWriteSection
<1>1. CASE e # "OK" /\ Fails(c, f, e)
  <2>1. e \in Errors
    BY <1>1 DEF AppendRefusal, Errors
  <2> QED
    BY <1>0, <1>1, <2>1, FailsLocks
<1>2. CASE e = "OK" /\ (ResetWriteMode(c, f) \/ StoreData(c, f, r, n, sendBack))
  <2>1. f \in Present /\ file[f].present /\ file[f] \in FileRecords
    BY <1>2, FilesType DEF AppendRefusal, Present
  <2>2. /\ r \in FileRecords /\ r.present /\ r.locked_by = file[f].locked_by
        /\ r.opened_by = file[f].opened_by /\ r.lock_queue = file[f].lock_queue
    BY <1>0, <2>1 DEF file_append_content, FileRecords
  <2> HIDE DEF r
  <2> QED
    BY <1>0, <1>2, <2>1, <2>2, ResetWriteModeLocks, StoreDataLocks
<1> QED
  BY <1>1, <1>2 DEF AppendTo

-------------------------------------------------------------------------------
(* Remove.                                                                 *)

\* The waiters of the removed file are woken inside the section.
LEMMA RemoveLocks ==
  ASSUME LockInv, Inv', NEW c \in Clients, NEW f \in Files, Remove(c, f)
  PROVE  LockInv'
<1> DEFINE K == Values(file[f].lock_queue)
<1>0. InWriteSection(c) /\ Handles(c) /\ rlock = {} /\ status[c] = "idle" /\ out[c] = << >>
  BY DEF Remove, InWriteSection, Handles
<1>1. CASE RemoveRefusal(c, f) # "OK" /\ Fails(c, f, RemoveRefusal(c, f))
  <2>1. RemoveRefusal(c, f) \in Errors
    BY <1>1 DEF RemoveRefusal, Errors
  <2> QED
    BY <1>0, <1>1, <2>1, FailsLocks
<1>2. CASE Corrupts
  BY <1>2, CorruptsLocks
<1>3. CASE /\ file' = [file EXCEPT ![f] = Absent]
           /\ status' = [Wake(K) EXCEPT ![c] = "await"]
           /\ out' = [out EXCEPT ![c] = << Ok(c, f) >>]
           /\ UNCHANGED <<rlock, heap>>
  <2>1. K = Waiting(f)
    BY DEF Waiting, Waits
  <2> HIDE DEF K
  <2>2. /\ file'[f] = Absent /\ \A g \in Files \ {f} : file'[g] = file[g]
        /\ Waiting(f)' = {} /\ \A g \in Files \ {f} : Waiting(g)' = Waiting(g)
    BY <1>3, FilesType, AbsentLocks DEF Waiting
  <2>3. FilesStep(c)
    <3>1. \A g \in Files : FileLocks(file[g]) /\ (~ file[g].present => file[g] = Absent)
      BY DEF LockInv, Locks
    <3> QED
      BY <2>2, <3>1, AbsentLocks DEF FilesStep
  <2>4. /\ << Ok(c, f) >> \in Seq(Messages) /\ Recipients(<< Ok(c, f) >>) = {c}
        /\ Once(<< Ok(c, f) >>)
    BY OkAnswer, OneMessage
  <2>5. Promises(c, << Ok(c, f) >>)
    BY <2>4 DEF Promises, Recipients
  <2>6. \A g \in Files : c \notin Waiting(g)
    BY <1>0, HandlesFree
  <2>7. \A g \in Files : g # f => Waiting(f) \cap Waiting(g) = {}
    BY DEF LockInv, Sessions
  <2>8. QueuesStep(c, << Ok(c, f) >>, K)
    BY <2>1, <2>2, <2>4, <2>6, <2>7 DEF QueuesStep
  <2> QED
    BY <1>0, <1>3, <2>3, <2>4, <2>5, <2>8, HandlerEnd
<1> QED
  BY <1>1, <1>2, <1>3 DEF Remove

-------------------------------------------------------------------------------
(* Reads and sends.                                                        *)

\* The answer to a read is sent under the read lock.
LEMMA SendsLocks ==
  ASSUME LockInv, Inv', NEW c \in Clients, Handles(c),
         NEW m \in Messages, m.to = << c >>, m.data \subseteq Present,
         m.about \in Files => /\ c \in Opens(file[m.about])
                              /\ file[m.about].locked_by \in {NoClient, c},
         Sends(c, m)
  PROVE  LockInv'
<1> DEFINE msgs == << m >>
<1>0. /\ Inv /\ Sessions /\ status[c] = "idle" /\ out[c] = << >>
      /\ out \in [Clients -> Seq(Messages)] /\ status \in [Clients -> Statuses]
      /\ file' = file /\ rlock' = rlock \cup {c} /\ out' = [out EXCEPT ![c] = msgs]
      /\ status' = [Wake({}) EXCEPT ![c] = "await"]
  BY WakeNobody DEF Handles, LockInv, Inv, SessionType, Sends, storeVars
<1>1. /\ msgs \in Seq(Messages) /\ Recipients(msgs) = {c} /\ Once(msgs)
      /\ Len(msgs) = 1 /\ Head(msgs) = m
  BY OneMessage
<1>2. Promises(c, msgs)
  BY <1>1 DEF Promises, Recipients
<1> HIDE DEF msgs
<1>3. /\ out'[c] = msgs /\ \A d \in Clients \ {c} : out'[d] = out[d]
      /\ Present' = Present
  BY <1>0 DEF Present
<1>4. \A f \in Files : Waiting(f)' = Waiting(f) /\ c \notin Waiting(f)
  BY <1>0, SameFilesStep, HandlesFree
<1>5. Sessions'
  <2>1. QueuesStep(c, msgs, {})
    BY <1>1, <1>4 DEF QueuesStep
  <2> QED
    BY <1>0, <1>1, <2>1, AwaitStep
<1>6. Locks'
  <2>1. \A x \in Clients : status'[x] = "closed" => status[x] = "closed"
    BY <1>0 DEF Wake
  <2> QED
    BY <1>0, <2>1 DEF Locks, LockInv
<1>7. Grants'
  <2> SUFFICES ASSUME NEW d \in Clients, NEW i \in 1 .. Len(out'[d]),
                      out'[d][i].ans = "OK",
                      NEW w \in Range(out'[d][i].to) \ {d}
               PROVE  LET f == out'[d][i].about IN
                      f \in Files /\ (w \in Opens(file'[f]) => file'[f].locked_by = w)
    BY DEF Grants
  <2>1. CASE d = c
    BY <1>2, <1>3, <2>1 DEF Promises
  <2>2. CASE d # c
    BY <1>0, <1>3, <2>2 DEF LockInv, Grants
  <2> QED
    BY <2>1, <2>2
<1>8. Reads'
  <2> SUFFICES ASSUME NEW d \in rlock \cup {c}
               PROVE  /\ Len(out'[d]) = 1 /\ Head(out'[d]).to = << d >>
                      /\ Head(out'[d]).data \subseteq Present
                      /\ Head(out'[d]).about \in Files =>
                           /\ d \in Opens(file[Head(out'[d]).about])
                           /\ file[Head(out'[d]).about].locked_by \in {NoClient, d}
    BY <1>0, <1>3 DEF Reads
  <2>1. CASE d = c
    BY <1>1, <1>3, <2>1
  <2>2. CASE d # c
    <3>1. d \in rlock /\ d \in Clients /\ out'[d] = out[d]
      BY <1>3, <2>2 DEF LockInv, Inv, SessionType
    <3> QED
      BY <3>1 DEF LockInv, Reads
  <2> QED
    BY <2>1, <2>2
<1> QED
  BY <1>5, <1>6, <1>7, <1>8 DEF LockInv

LEMMA ReadLocks ==
  ASSUME LockInv, Inv', NEW c \in Clients, NEW f \in Files, Read(c, f)
  PROVE  LockInv'
<1>0. Handles(c)
  BY DEF Read
<1>1. CASE ReadRefusal(c, f) # "OK" /\ Fails(c, f, ReadRefusal(c, f))
  <2>1. ReadRefusal(c, f) \in Errors
    BY <1>1 DEF ReadRefusal, Errors
  <2> QED
    BY <1>0, <1>1, <2>1, FailsLocks
<1>2. CASE ReadRefusal(c, f) = "OK" /\ Sends(c, Answer(c, f, "OK", {f}))
  <2> DEFINE m == Answer(c, f, "OK", {f})
  <2>1. m \in Messages
    BY AnswerType DEF Answers
  <2>2. m.to = << c >> /\ m.data = {f} /\ m.about = f
    BY <2>1 DEF Answer
  <2>3. /\ f \in Present /\ c \in Opens(file[f])
        /\ file[f].locked_by \in {NoClient, c}
    BY <1>2 DEF ReadRefusal, Present, file_is_opened_by, Opens
  <2> HIDE DEF m
  <2>4. Sends(c, m)
    BY <1>2 DEF m
  <2> QED
    BY <1>0, <2>1, <2>2, <2>3, <2>4, SendsLocks
<1> QED
  BY <1>1, <1>2 DEF Read

LEMMA ReadNLocks ==
  ASSUME LockInv, Inv', NEW c \in Clients, NEW n, ReadN(c, n)
  PROVE  LockInv'
<1>1. PICK D \in SUBSET filenames : Sends(c, Answer(c, NoFile, "OK", D))
  BY DEF ReadN
<1> DEFINE m == Answer(c, NoFile, "OK", D)
<1>2. Handles(c) /\ D \subseteq Present /\ D \in SUBSET Files
  BY FilesType DEF ReadN, Present
<1>3. m \in Messages
  BY <1>2, AnswerType DEF Answers
<1>4. m.to = << c >> /\ m.data = D /\ m.about \notin Files
  BY <1>3, ConstantsAssumption DEF Answer
<1>5. Sends(c, m)
  BY <1>1
<1> HIDE DEF m
<1> QED
  BY <1>2, <1>3, <1>4, <1>5, SendsLocks

\* What is left to send are the same messages, for no more clients.
LEMMA NextSendKeeps ==
  ASSUME NEW msgs \in Seq(Messages), msgs # << >>
  PROVE  LET m    == Head(msgs)
             rest == IF Len(m.to) <= 1 THEN Tail(msgs)
                     ELSE << [m EXCEPT !.to = Tail(@)] >> \o Tail(msgs)
         IN  \A i \in 1 .. Len(rest) : \E j \in 1 .. Len(msgs) :
               /\ rest[i].ans = msgs[j].ans /\ rest[i].about = msgs[j].about
               /\ Range(rest[i].to) \subseteq Range(msgs[j].to)
<1> DEFINE m    == Head(msgs)
           t    == Tail(msgs)
           left == [m EXCEPT !.to = Tail(@)]
           rest == IF Len(m.to) <= 1 THEN t ELSE << left >> \o t
           Kept(x) == \E j \in 1 .. Len(msgs) :
                        /\ x.ans = msgs[j].ans /\ x.about = msgs[j].about
                        /\ Range(x.to) \subseteq Range(msgs[j].to)
<1>1. /\ m \in Messages /\ t \in Seq(Messages) /\ m = msgs[1] /\ Len(msgs) \in Nat
      /\ Len(msgs) > 0 /\ Len(t) = Len(msgs) - 1
      /\ \A i \in 1 .. Len(t) : t[i] = msgs[i + 1]
  OBVIOUS
<1>2. m.to \in Seq(Clients)
  BY <1>1 DEF Messages
<1> HIDE DEF m, t
<1>3. ASSUME NEW i \in 1 .. Len(t)
      PROVE  Kept(t[i])
  <2>1. i + 1 \in 1 .. Len(msgs) /\ t[i] = msgs[i + 1]
    BY <1>1
  <2> QED
    BY <2>1
<1>4. CASE Len(m.to) <= 1
  <2>1. rest = t
    BY <1>4
  <2>2. \A i \in 1 .. Len(rest) : Kept(rest[i])
    BY <1>3, <2>1
  <2> QED
    BY <2>2 DEF m, t
<1>5. CASE ~(Len(m.to) <= 1)
  <2>1. /\ Tail(m.to) \in Seq(Clients) /\ Len(m.to) \in Nat
        /\ Len(Tail(m.to)) = Len(m.to) - 1
        /\ \A i \in 1 .. Len(m.to) - 1 : Tail(m.to)[i] = m.to[i + 1]
    BY <1>2, <1>5
  <2>2. left \in Messages /\ left.to = Tail(m.to) /\ left.ans = m.ans /\ left.about = m.about
    BY <1>1, <2>1 DEF Messages
  <2>3. Range(Tail(m.to)) \subseteq Range(m.to)
    <3>1. ASSUME NEW i \in DOMAIN Tail(m.to)
          PROVE  i + 1 \in DOMAIN m.to /\ Tail(m.to)[i] = m.to[i + 1]
      BY <1>2, <2>1
    <3> QED
      BY <3>1 DEF Range
  <2> HIDE DEF left
  <2>4. Kept(left)
    <3>1. 1 \in 1 .. Len(msgs)
      BY <1>1
    <3> QED
      BY <1>1, <2>2, <2>3, <3>1
  <2>5. << left >> \in Seq(Messages) /\ Len(<< left >>) = 1 /\ << left >>[1] = left
    BY <2>2
  <2>6. rest = << left >> \o t
    BY <1>5
  <2>7. /\ Len(rest) = 1 + Len(t) /\ Len(t) \in Nat
        /\ \A i \in 1 .. 1 + Len(t) : rest[i] = IF i <= 1 THEN << left >>[i] ELSE t[i - 1]
    BY <1>1, <2>5, <2>6, ConcatProperties
  <2> HIDE DEF rest, Kept
  <2>8. ASSUME NEW i \in 1 .. Len(rest)
        PROVE  Kept(rest[i])
    <3>1. CASE i = 1
      BY <2>4, <2>5, <2>7, <3>1
    <3>2. CASE i # 1
      <4>1. i - 1 \in 1 .. Len(t) /\ rest[i] = t[i - 1]
        BY <2>7, <3>2
      <4> QED
        BY <1>3, <4>1
    <3> QED
      BY <3>1, <3>2
  <2> QED
    BY <2>8 DEF rest, left, Kept, m, t
<1> QED
  BY <1>4, <1>5

LEMMA DeliverLocks ==
  ASSUME LockInv, Inv', NEW c \in Clients, Deliver(c)
  PROVE  LockInv'
<1> DEFINE m    == Head(out[c])
           rest == IF Len(m.to) <= 1 THEN Tail(out[c])
                   ELSE << [m EXCEPT !.to = Tail(@)] >> \o Tail(out[c])
           S    == IF m.to = << >> THEN {} ELSE {Head(m.to)}
<1>1. /\ status' = Wake(S) /\ out' = [out EXCEPT ![c] = rest]
      /\ rlock' = IF rest = << >> THEN rlock \ {c} ELSE rlock
      /\ UNCHANGED <<storeVars, heap>> /\ out[c] # << >>
  BY Zenon DEF Deliver
<1>2. /\ out \in [Clients -> Seq(Messages)] /\ status \in [Clients -> Statuses]
      /\ Sessions /\ Once(out[c]) /\ file' = file /\ rlock \subseteq Clients
  BY <1>1 DEF LockInv, Inv, SessionType, Sessions, storeVars
<1>3. /\ rest \in Seq(Messages) /\ Once(rest)
      /\ Recipients(out[c]) = Recipients(rest) \cup S
      /\ S \cap Recipients(rest) = {}
  BY <1>1, <1>2, NextSend
<1>4. \A i \in 1 .. Len(rest) : \E j \in 1 .. Len(out[c]) :
        /\ rest[i].ans = out[c][j].ans /\ rest[i].about = out[c][j].about
        /\ Range(rest[i].to) \subseteq Range(out[c][j].to)
  BY <1>1, <1>2, NextSendKeeps
<1>5. c \in rlock => rest = << >>
  <2> SUFFICES ASSUME c \in rlock
               PROVE  rest = << >>
    OBVIOUS
  <2>1. Len(out[c]) = 1 /\ m.to = << c >>
    BY DEF LockInv, Reads
  <2>2. Tail(out[c]) = << >>
    <3>1. out[c] \in Seq(Messages)
      BY <1>2
    <3>2. Tail(out[c]) \in Seq(Messages) /\ Len(Tail(out[c])) = 0
      BY <2>1, <3>1
    <3> QED
      BY <3>2, EmptySeq
  <2>3. Len(m.to) = 1 /\ 1 <= 1
    BY <2>1
  <2> QED
    BY <2>2, <2>3
<1> HIDE DEF m, rest, S
<1>6. /\ out'[c] = rest /\ \A d \in Clients \ {c} : out'[d] = out[d]
      /\ DueFrom(c)' = Recipients(rest) /\ DueFrom(c) = Recipients(rest) \cup S
      /\ \A d \in Clients \ {c} : DueFrom(d)' = DueFrom(d)
      /\ \A f \in Files : Waiting(f)' = Waiting(f)
  BY <1>1, <1>2, <1>3 DEF DueFrom, Waiting
<1>7. /\ \A x \in Clients \ S : status'[x] = status[x]
      /\ \A x \in S : x \in Clients => status'[x] # "await"
      /\ \A x \in Clients : status'[x] = "closed" => status[x] = "closed"
  BY <1>1, <1>2 DEF Wake
<1>8. Sessions'
  <2>1. \A d \in Clients : Once(out'[d])
    BY <1>3, <1>6 DEF LockInv, Sessions
  <2>2. \A d, e \in Clients : d # e => DueFrom(d)' \cap DueFrom(e)' = {}
    BY <1>6 DEF LockInv, Sessions
  <2>3. ASSUME NEW d \in Clients, NEW x \in DueFrom(d)'
        PROVE  /\ x \in Clients /\ status'[x] # "idle"
               /\ \A f \in Files : x \notin Waiting(f)'
    <3>1. x \in DueFrom(d) /\ x \notin S
      BY <1>2, <1>3, <1>6 DEF Sessions
    <3> QED
      BY <1>2, <1>6, <1>7, <3>1 DEF Sessions
  <2>4. ASSUME NEW f \in Files, NEW x \in Waiting(f)'
        PROVE  status'[x] \in {"await", "gone"}
    <3>1. x \in Waiting(f) /\ x \in Clients
      BY <1>6, WaitingType DEF LockInv
    <3>2. x \notin S
      BY <1>2, <1>6, <3>1 DEF Sessions
    <3> QED
      BY <1>2, <1>7, <3>1, <3>2 DEF Sessions
  <2>5. \A f, g \in Files : f # g => Waiting(f)' \cap Waiting(g)' = {}
    BY <1>6 DEF LockInv, Sessions
  <2>6. ASSUME NEW x \in Clients, status'[x] = "await"
        PROVE  \/ \E f \in Files : x \in Waiting(f)'
               \/ \E d \in Clients : x \in DueFrom(d)'
    <3>1. x \notin S /\ status[x] = "await"
      BY <1>7, <2>6
    <3>2. \/ \E f \in Files : x \in Waiting(f)
          \/ \E d \in Clients : x \in DueFrom(d)
      BY <1>2, <3>1 DEF Sessions
    <3>3. \A d \in Clients : x \in DueFrom(d) => x \in DueFrom(d)'
      BY <1>6, <3>1
    <3> QED
      BY <1>6, <3>2, <3>3
  <2> QED
    BY <2>1, <2>2, <2>3, <2>4, <2>5, <2>6 DEF Sessions
<1>9. Locks'
  BY <1>2, <1>7 DEF LockInv, Locks
<1>10. Grants'
  <2> SUFFICES ASSUME NEW d \in Clients, NEW i \in 1 .. Len(out'[d]),
                      out'[d][i].ans = "OK",
                      NEW w \in Range(out'[d][i].to) \ {d}
               PROVE  LET f == out'[d][i].about IN
                      f \in Files /\ (w \in Opens(file[f]) => file[f].locked_by = w)
    BY <1>2 DEF Grants
  <2>1. CASE d = c
    <3>1. PICK j \in 1 .. Len(out[c]) :
            /\ rest[i].ans = out[c][j].ans /\ rest[i].about = out[c][j].about
            /\ Range(rest[i].to) \subseteq Range(out[c][j].to)
      BY <1>4, <1>6, <2>1
    <3> QED
      BY <1>6, <2>1, <3>1, ZenonT(60) DEF LockInv, Grants
  <2>2. CASE d # c
    BY <1>6, <2>2 DEF LockInv, Grants
  <2> QED
    BY <2>1, <2>2
<1>11. Reads'
  <2>1. Present' = Present
    BY <1>2 DEF Present
  <2>2. \A d \in rlock' : d \in rlock /\ d # c /\ d \in Clients
    BY <1>1, <1>2, <1>5
  <2>3. \A d \in rlock' : out'[d] = out[d]
    BY <1>6, <2>2
  <2> QED
    BY <1>2, <2>1, <2>2, <2>3 DEF LockInv, Reads
<1> QED
  BY <1>8, <1>9, <1>10, <1>11 DEF LockInv

-------------------------------------------------------------------------------
(* Clients that leave.                                                     *)

LEMMA LeavesLocks ==
  ASSUME LockInv, Inv', NEW c \in Clients, Exit(c) \/ Die(c)
  PROVE  LockInv'
<1>1. /\ status' = [status EXCEPT ![c] = "gone"] /\ status[c] \in {"idle", "await"}
      /\ file' = file /\ out' = out /\ rlock' = rlock
  BY DEF Exit, Die, storeVars
<1>2. /\ status \in [Clients -> Statuses] /\ Present' = Present
      /\ \A f \in Files : Waiting(f)' = Waiting(f)
      /\ \A d \in Clients : DueFrom(d)' = DueFrom(d)
  BY <1>1 DEF LockInv, Inv, SessionType, Present, Waiting, DueFrom
<1>3. /\ status'[c] = "gone"
      /\ \A x \in Clients \ {c} : status'[x] = status[x]
  BY <1>1, <1>2
<1>4. Sessions'
  <2>1. \A f \in Files : \A x \in Waiting(f) : x \in Clients
    BY WaitingType DEF LockInv
  <2> QED
    BY <1>1, <1>2, <1>3, <2>1 DEF LockInv, Sessions
<1>5. Locks'
  BY <1>1, <1>3 DEF LockInv, Locks
<1>6. Grants' /\ Reads'
  BY <1>1, <1>2 DEF LockInv, Grants, Reads
<1> QED
  BY <1>4, <1>5, <1>6 DEF LockInv

LEMMA DisconnectLocks ==
  ASSUME LockInv, Inv', NEW c \in Clients, Disconnect(c)
  PROVE  LockInv'
<1> DEFINE K == {file'[f].locked_by : f \in {g \in filenames : file[g].locked_by = c}}
<1>0. /\ status[c] = "gone" /\ out[c] = << >> /\ rlock = {} /\ rlock' = {} /\ out' = out
      /\ file' = [f \in Files |-> IF f \in filenames THEN Departed(file[f], c)
                                  ELSE file[f]]
      /\ status' = [Wake(K) EXCEPT ![c] = "closed"]
  BY DEF Disconnect, notify_client_disconnected_fs, Departed
<1>1. /\ out \in [Clients -> Seq(Messages)] /\ status \in [Clients -> Statuses]
      /\ filenames = Present /\ Inv /\ Sessions
  BY FilesType DEF LockInv, Inv, SessionType
<1>2. ASSUME NEW f \in Files
      PROVE  LET p == file'[f] r == file[f] IN
             /\ FileLocks(p) /\ p.present = r.present
             /\ Opens(p) = Opens(r) \ {c} /\ p.locked_by # c
             /\ r.locked_by # c => p.locked_by = r.locked_by /\ Waits(p) = Waits(r) \ {c}
             /\ r.locked_by = c =>
                  /\ f \in filenames /\ p.locked_by \notin Waits(p)
                  /\ \/ Waits(r) = {} /\ Waits(p) = {} /\ p.locked_by = NoClient
                     \/ p.locked_by \in Clients /\ Waits(r) = Waits(p) \cup {p.locked_by}
  <2>1. CASE f \in Present
    <3>1. file'[f] = Departed(file[f], c)
      BY <1>0, <1>1, <2>1
    <3>2. file[f] \in FileRecords /\ FileLocks(file[f])
      BY FilesType
    <3> QED
      BY <1>1, <2>1, <3>1, <3>2, DepartedLocks
  <2>2. CASE f \notin Present
    <3>1. file'[f] = Absent /\ file[f] = Absent
      BY <1>0, <1>1, <2>2, FilesType
    <3>2. c # NoClient
      BY ConstantsAssumption
    <3> QED
      BY <3>1, <3>2, AbsentLocks
  <2> QED
    BY <2>1, <2>2
<1>3. \A f \in Files : ~ file'[f].present => file'[f] = Absent
  <2> SUFFICES ASSUME NEW f \in Files, ~ file'[f].present
               PROVE  file'[f] = Absent
    OBVIOUS
  <2>1. ~ file[f].present
    BY <1>2
  <2> QED
    BY <1>0, <1>1, <2>1, FilesType DEF Present
<1>4. \A f \in Files : c \notin Waits(file'[f])
  <2>1. \A f \in Files : file[f].locked_by = c => c \notin Waits(file[f])
    BY FilesType DEF FileLocks
  <2> QED
    BY <1>2, <2>1
<1>5. \A x \in K : \E g \in Files :
         /\ file[g].locked_by = c /\ x = file'[g].locked_by
         /\ x \in Clients => x \in Waiting(g) /\ x \notin Waiting(g)'
  <2> SUFFICES ASSUME NEW g \in filenames, file[g].locked_by = c
               PROVE  file'[g].locked_by \in Clients =>
                        /\ file'[g].locked_by \in Waiting(g)
                        /\ file'[g].locked_by \notin Waiting(g)'
    BY <1>1 DEF Present
  <2>1. g \in Files /\ NoClient \notin Clients
    BY <1>1, ConstantsAssumption DEF Present
  <2> QED
    BY <1>2, <2>1 DEF Waiting
<1>6. \A f \in Files : Waiting(f)' \subseteq Waiting(f)
  BY <1>2 DEF Waiting
<1>7. \A f \in Files : \A x \in Waiting(f) \ Waiting(f)' : x \in K \/ x = c
  <2> SUFFICES ASSUME NEW f \in Files, NEW x \in Waiting(f) \ Waiting(f)', x # c
               PROVE  x \in K
    OBVIOUS
  <2>1. file[f].locked_by = c /\ f \in filenames /\ x = file'[f].locked_by
    BY <1>2 DEF Waiting
  <2> QED
    BY <2>1
<1>8. \A f \in Files : Waiting(f)' \subseteq Clients /\ Waiting(f) \subseteq Clients
  BY <1>1, <1>6, WaitingType
<1> HIDE DEF K
<1>9. \A x \in K : \A f \in Files : x \notin Waiting(f)'
  <2> SUFFICES ASSUME NEW x \in K, x \in Clients, NEW f \in Files
               PROVE  x \notin Waiting(f)'
    BY <1>8
  <2>1. PICK g \in Files : x \in Waiting(g) /\ x \notin Waiting(g)'
    BY <1>5
  <2>2. f # g => x \notin Waiting(f)
    BY <1>1, <2>1 DEF Sessions
  <2> QED
    BY <1>6, <2>1, <2>2
<1>10. Sessions'
  <2>2. out' = [out EXCEPT ![c] = << >>]
    BY <1>0, <1>1
  <2>3. \A f \in Files : c \notin Waiting(f)'
    BY <1>4 DEF Waiting
  <2>4. \A x \in K \cap Clients : \E f \in Files : x \in Waiting(f)
    BY <1>5
  <2> QED
    BY <1>0, <1>1, <1>6, <1>7, <1>9, <2>2, <2>3, <2>4, NoMessages, ClosedStep, ZenonT(60)
<1>11. Locks'
  <2>1. \A x \in Clients : status'[x] = "closed" => x = c \/ status[x] = "closed"
    BY <1>0, <1>1 DEF Wake
  <2>2. \A x \in Clients, f \in Files : status'[x] = "closed" => x \notin Opens(file'[f])
    BY <1>2, <2>1 DEF LockInv, Locks
  <2> QED
    BY <1>2, <1>3, <2>2 DEF Locks
<1>12. Grants'
  <2> SUFFICES ASSUME NEW d \in Clients, NEW i \in 1 .. Len(out[d]),
                      out[d][i].ans = "OK",
                      NEW w \in Range(out[d][i].to) \ {d}
               PROVE  LET f == out[d][i].about IN
                      f \in Files /\ (w \in Opens(file'[f]) => file'[f].locked_by = w)
    BY <1>0 DEF Grants
  <2> DEFINE f == out[d][i].about
  <2>1. f \in Files /\ (w \in Opens(file[f]) => file[f].locked_by = w)
    BY DEF LockInv, Grants
  <2> HIDE DEF f
  <2>2. w \in Opens(file'[f]) => w # c /\ file[f].locked_by = w
    BY <1>2, <2>1
  <2>3. w \in Opens(file'[f]) => file'[f].locked_by = w
    BY <1>2, <2>1, <2>2
  <2> QED
    BY <2>1, <2>3 DEF f
<1>13. Reads'
  BY <1>0 DEF Reads
<1> QED
  BY <1>10, <1>11, <1>12, <1>13 DEF LockInv

-------------------------------------------------------------------------------
(* The invariant holds, and the properties it gives.                       *)

LEMMA LockInvInit == Init => LockInv
<1> SUFFICES ASSUME Init
             PROVE  LockInv
  OBVIOUS
<1>1. Inv
  BY InvInit
<1>2. \A f \in Files : file[f] = Absent /\ Waiting(f) = {}
  BY AbsentLocks DEF Init, Waiting
<1>3. \A d \in Clients : out[d] = << >> /\ DueFrom(d) = {} /\ status[d] = "idle"
  BY NoMessages DEF Init, DueFrom
<1>4. Sessions
  BY <1>2, <1>3, NoMessages DEF Sessions
<1>5. Locks
  BY <1>2, <1>3, AbsentLocks DEF Locks
<1>6. Grants
  BY <1>3 DEF Grants
<1>7. Reads
  BY DEF Init, Reads
<1> QED
  BY <1>1, <1>4, <1>5, <1>6, <1>7 DEF LockInv

LEMMA LockInvNext == LockInv /\ [Next]_vars => LockInv'
<1> SUFFICES ASSUME LockInv, [Next]_vars
             PROVE  LockInv'
  OBVIOUS
<1>0. Inv'
  BY InvNext DEF LockInv
<1>1. CASE UNCHANGED vars
  <2>1. UNCHANGED <<file, status, out, rlock>>
    BY <1>1 DEF vars, storeVars, sessionVars
  <2> QED
    BY <1>0, <2>1 DEF LockInv, Sessions, Locks, Grants, Reads, DueFrom, Waiting, Present
<1>2. ASSUME NEW c \in Clients, Request(c)
      PROVE  LockInv'
  <2>1. CASE \E f \in Files, lock \in BOOLEAN : OpenCreate(c, f, lock)
    BY <1>0, <2>1, OpenCreateLocks
  <2>2. CASE \E f \in Files, lock \in BOOLEAN : Open(c, f, lock)
    BY <1>0, <2>2, OpenLocks
  <2>3. CASE \E f \in Files, n \in Sizes, sendBack \in BOOLEAN : Write(c, f, n, sendBack)
    BY <1>0, <2>3, WriteLocks
  <2>4. CASE \E f \in Files, n \in Sizes, sendBack \in BOOLEAN : AppendTo(c, f, n, sendBack)
    BY <1>0, <2>4, AppendToLocks
  <2>5. CASE \E f \in Files : Read(c, f)
    BY <1>0, <2>5, ReadLocks
  <2>6. CASE \E n \in 0 .. MaxFiles : ReadN(c, n)
    BY <1>0, <2>6, ReadNLocks
  <2>7. CASE \E f \in Files : Remove(c, f)
    BY <1>0, <2>7, RemoveLocks
  <2>8. CASE \E f \in Files : Lock(c, f)
    BY <1>0, <2>8, LockLocks
  <2>9. CASE \E f \in Files : Unlock(c, f)
    BY <1>0, <2>9, UnlockLocks
  <2>10. CASE \E f \in Files : Close(c, f)
    BY <1>0, <2>10, CloseLocks
  <2> QED
    BY <1>2, <2>1, <2>2, <2>3, <2>4, <2>5, <2>6, <2>7, <2>8, <2>9, <2>10 DEF Request
<1>3. ASSUME NEW c \in Clients, Deliver(c)
      PROVE  LockInv'
  BY <1>0, <1>3, DeliverLocks
<1>4. ASSUME NEW c \in Clients, Exit(c) \/ Die(c)
      PROVE  LockInv'
  BY <1>0, <1>4, LeavesLocks
<1>5. ASSUME NEW c \in Clients, Disconnect(c)
      PROVE  LockInv'
  BY <1>0, <1>5, DisconnectLocks
<1> QED
  BY <1>1, <1>2, <1>3, <1>4, <1>5 DEF Next

LEMMA LockInvAlways == Spec => []LockInv
BY LockInvInit, LockInvNext, PTL DEF Spec

\* The owner of every stored file and its queue agree: nobody waits for a free
\* lock, for its own, or twice, and owner and waiters have the file open.
THEOREM LocksAreDisciplined == Spec => []LockDiscipline
<1>1. LockInv => LockDiscipline
  <2> SUFFICES ASSUME LockInv, NEW f \in Present
               PROVE  LET r == file[f] IN
                      /\ r.locked_by = NoClient => r.lock_queue.items = << >>
                      /\ r.locked_by \notin Values(r.lock_queue)
                      /\ Distinct(r.lock_queue) /\ Distinct(r.opened_by)
                      /\ Values(r.lock_queue) \subseteq Values(r.opened_by)
                      /\ r.locked_by # NoClient => file_is_opened_by(r, r.locked_by)
    BY DEF LockDiscipline
  <2>1. FileLocks(file[f])
    BY FilesType DEF Present
  <2> QED
    BY <2>1 DEF FileLocks, Waits, Opens, file_is_opened_by
<1> QED
  BY <1>1, LockInvAlways, PTL

\* A client that waits has exactly one place in one queue or one send on its way,
\* and a client that does not wait has neither.
THEOREM EveryWaiterIsOwedOneAnswer == Spec => []OneAnswerEach
<1>1. LockInv => OneAnswerEach
  <2> SUFFICES ASSUME LockInv, NEW c \in Clients
               PROVE  /\ status[c] = "await" =>
                           Cardinality(WaitsFor(c)) + Cardinality(Due(c)) = 1
                      /\ status[c] = "idle" => WaitsFor(c) = {} /\ Due(c) = {}
    BY DEF OneAnswerEach
  <2>1. /\ Sessions
        /\ WaitsFor(c) = {f \in Files : c \in Waiting(f)}
    BY DEF LockInv, WaitsFor, Waiting, Waits
  <2>2. \A x : x \in Due(c) <=>
          \E d \in Clients : \E i \in 1 .. Len(out[d]) :
            c \in Range(out[d][i].to) /\ x = <<d, i>>
    BY DEF Due
  <2>3. \A d \in Clients : c \in DueFrom(d) <=>
          \E i \in 1 .. Len(out[d]) : c \in Range(out[d][i].to)
    BY DEF DueFrom, Recipients
  <2>4. (\A d \in Clients : c \notin DueFrom(d)) => Due(c) = {}
    BY <2>2, <2>3
  <2>5. Cardinality({}) = 0
    BY FS_EmptySet
  <2>6. ASSUME NEW f \in Files, c \in Waiting(f)
        PROVE  Cardinality(WaitsFor(c)) + Cardinality(Due(c)) = 1
    <3>1. WaitsFor(c) = {f}
      BY <2>1, <2>6 DEF Sessions
    <3>2. Due(c) = {}
      BY <2>1, <2>4, <2>6 DEF Sessions
    <3>3. Cardinality({f}) = 1
      BY FS_Singleton
    <3> QED
      BY <2>5, <3>1, <3>2, <3>3
  <2>7. ASSUME NEW d \in Clients, c \in DueFrom(d)
        PROVE  Cardinality(WaitsFor(c)) + Cardinality(Due(c)) = 1
    <3>1. WaitsFor(c) = {}
      BY <2>1, <2>7 DEF Sessions
    <3>2. PICK i \in 1 .. Len(out[d]) : c \in Range(out[d][i].to)
      BY <2>3, <2>7
    <3>3. \A e \in Clients : c \in DueFrom(e) => e = d
      BY <2>1, <2>7 DEF Sessions
    <3>4. \A j \in 1 .. Len(out[d]) : c \in Range(out[d][j].to) => j = i
      BY <2>1, <3>2 DEF Sessions, Once
    <3>5. \A x : x \in Due(c) <=> x = <<d, i>>
      BY <2>2, <2>3, <3>2, <3>3, <3>4
    <3>6. Due(c) = {<<d, i>>}
      BY <3>5
    <3>7. Cardinality({<<d, i>>}) = 1
      BY FS_Singleton
    <3> QED
      BY <2>5, <3>1, <3>6, <3>7
  <2>8. CASE status[c] = "await"
    BY <2>1, <2>6, <2>7, <2>8 DEF Sessions
  <2>9. CASE status[c] = "idle"
    <3>1. \A d \in Clients : c \notin DueFrom(d)
      BY <2>1, <2>9 DEF Sessions
    <3>2. \A f \in Files : c \notin Waiting(f)
      BY <2>1, <2>9 DEF Sessions
    <3> QED
      BY <2>1, <2>4, <2>9, <3>1, <3>2
  <2> QED
    BY <2>8, <2>9
<1> QED
  BY <1>1, LockInvAlways, PTL

\* After notify_client_disconnected_fs a client is the owner of nothing, waits for
\* nothing and has nothing open, and it never gets anything again.
THEOREM TheDepartedHoldNothing == Spec => []DepartedHoldNothing
<1>1. LockInv => DepartedHoldNothing
  <2> SUFFICES ASSUME LockInv, NEW c \in Clients, NEW f \in Files, status[c] = "closed"
               PROVE  /\ file[f].locked_by # c
                      /\ c \notin Values(file[f].lock_queue)
                      /\ ~ file_is_opened_by(file[f], c)
    BY DEF DepartedHoldNothing
  <2>1. FileLocks(file[f]) /\ c \notin Opens(file[f]) /\ c # NoClient
    BY FilesType, ConstantsAssumption DEF LockInv, Locks
  <2> QED
    BY <2>1 DEF FileLocks, Waits, Opens, file_is_opened_by
<1> QED
  BY <1>1, LockInvAlways, PTL

\* An OK that notify_given_lock has not sent yet is still true when it is sent, as
\* long as its receiver has the file open.
THEOREM GrantsStayTrue == Spec => []GrantsAreTrue
<1>1. LockInv => GrantsAreTrue
  BY DEF LockInv, Grants, GrantsAreTrue, Opens, file_is_opened_by
<1> QED
  BY <1>1, LockInvAlways, PTL

\* Nothing that is being read is removed, and no other client becomes the owner
\* of a file whose content is being sent.
THEOREM ReadersAreIsolated == Spec => []ReadsAreIsolated
<1>1. LockInv => ReadsAreIsolated
  BY DEF LockInv, Reads, ReadsAreIsolated, Opens, file_is_opened_by
<1> QED
  BY <1>1, LockInvAlways, PTL

===============================================================================

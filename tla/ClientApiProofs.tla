---------------------------- MODULE ClientApiProofs ----------------------------
(***************************************************************************)
(* One connection, for any sizes of data, any number of files sent back    *)
(* and any room in the socket.  Until writeFile gives a request up half    *)
(* way, both ends agree on every field, nothing is left over between two   *)
(* calls, and a call returns what the store decided.  After that only the  *)
(* types are left (ClientInv).                                             *)
(***************************************************************************)
EXTENDS ClientApi, SequenceTheorems, TLAPS

-------------------------------------------------------------------------------
(* What the client does with the fields to come.                           *)

Field  == UNION {[kind : {k}, val : Values(k)] : k \in Kinds}
Payload == UNION {Values(k) : k \in Kinds}
Wanted == {"op", "errno", "size", "data", "count", "len", "str", "fileSize", "fileData"}

\* Where a call is in an answer: the field it wants and the files it expects.
Stage(w, n) == [want |-> w, left |-> n]
Done        == Stage("done", 0)
FileFields  == {"len", "str", "fileSize", "fileData"}
Stages      == [want : Wanted, left : 0 .. MaxBack] \cup {Done}

\* One more file to come, or none.
FilesToCome(n) == IF n = 0 THEN Done ELSE Stage("len", n)

\* Call c, at stage s, reads f and is at stage t.  A field of another kind
\* than the one it wants has no t.
Reads(c, s, f, t) ==
  /\ s.want \in Wanted
  /\ f.kind = KindOf(s.want)
  /\ CASE s.want = "op" ->
            t = (IF f.val = "ERROR" THEN Stage("errno", 0)
                 ELSE IF c.op = "READ" THEN Stage("size", 0)
                 ELSE IF c.op = "READN" \/ c.dir THEN Stage("count", 0)
                 ELSE Done)
       [] s.want = "size"  -> t = (IF f.val > 0 THEN Stage("data", 0) ELSE Done)
       [] s.want = "count" -> t = FilesToCome(f.val)
       [] s.want = "len"   -> t = Stage("str", s.left)
       [] s.want = "str"   -> t = Stage("fileSize", s.left)
       [] s.want = "fileSize" /\ f.val > 0 -> t = Stage("fileData", s.left)
       [] (s.want = "fileSize" /\ f.val = 0) \/ s.want = "fileData" ->
            t = FilesToCome(s.left - 1)
       [] OTHER -> t = Done

\* path is the stages of c while it reads the fields q, from s to e.
IsPath(path, c, q, s, e) ==
  /\ path \in Seq(Stages)
  /\ Len(path) = Len(q) + 1
  /\ path[1] = s
  /\ \A i \in 1 .. Len(q) : Reads(c, path[i], q[i], path[i + 1])
  /\ path[Len(q) + 1] = e

\* c can read all of q from stage s on, and is then at stage e.
Understands(c, q, s, e) == \E path \in Seq(Stages) : IsPath(path, c, q, s, e)

-------------------------------------------------------------------------------
(* The inductive invariant.                                                *)

\* What will reach the client before any further file.
ToCome == down \o (IF late # << >> THEN late ELSE swr)

CallType == [op : Ops, n : Nat, dir : BOOLEAN]

Types ==
  /\ up \in Seq(Field) /\ Len(up) <= Room
  /\ down \in Seq(Field) /\ Len(down) <= Room
  /\ wr \in Seq(Field) /\ swr \in Seq(Field) /\ late \in Seq(Field)
  /\ got \in Seq(Payload)
  /\ cpc \in ClientStates /\ (cpc = "write" => wr # << >>)
  /\ spc \in ServerStates /\ (spc = "answer" => swr # << >>)
  /\ remaining \in Int
  /\ task \in Tasks \cup {"none"}
  /\ call \in CallType /\ (call.dir => call.op \in {"WRITE", "APPEND", "READN"})
  /\ want \in Wanted
  /\ left \in Nat
  /\ want \in FileFields => left > 0
  /\ files \in 0 .. MaxBack
  /\ result \in {"none", "OK", "ERROR"} /\ verdict \in {"none", "OK", "ERROR"}
  /\ owed \in BOOLEAN /\ torn \in 0 .. MaxTorn + 1
  /\ mine \in {"closed", "open", "locked"}

\* No more files are expected than are ever sent.
Bounded == spc # "ended" => left <= MaxBack

\* The request from its field k on is what is on its way and what the client
\* still has to write.
Ahead(k) ==
  /\ Len(up) + Len(wr) = Len(Request(call)) - k + 1
  /\ \A i \in 1 .. Len(up) : up[i] = Request(call)[k - 1 + i]
  /\ \A i \in 1 .. Len(wr) : wr[i] = Request(call)[k - 1 + Len(up) + i]

\* The worker has read the first fields of the request.
HasRead ==
  /\ Len(got) \in 1 .. Len(Request(call)) - 1
  /\ \A i \in 1 .. Len(got) : got[i] = Request(call)[i + 1].val

\* The server is at the field of the request it takes next.  Nothing more comes
\* from a client that is gone.
Requested ==
  /\ spc = "select" => Ahead(1) \/ (up = << >> /\ (wr = << >> \/ Gone))
  /\ spc = "op"     => Ahead(2)
  /\ spc = "params" => (HasRead /\ Ahead(Len(got) + 2)) \/ (up = << >> /\ Gone)
  /\ spc \in {"answer", "left"} => up = << >> /\ (wr = << >> \/ Gone)

\* Who writes to the client, and when.
Answering ==
  /\ spc = "answer" <=> swr # << >>
  /\ files > 0 => spc = "answer"
  /\ owed \/ late # << >> =>
       /\ spc \in {"select", "left"} /\ up = << >>
       /\ cpc = "read" \/ Gone
  /\ owed => late = << >> /\ spc = "select"

\* No call is in progress, or one is being written, or was given up.
Quiet ==
  /\ cpc \in {"connecting", "refused", "idle", "returned"} =>
       /\ down = << >> /\ wr = << >>
       /\ spc \in {"select", "ended"}
       /\ spc = "select" => up = << >>
  /\ cpc = "write" =>
       /\ down = << >> /\ wr # << >>
       /\ want = "op" /\ left = 0
       /\ spc \in {"select", "op", "params", "ended"}

\* The request is on its way, being read, or put off.
Unanswered ==
  /\ want = "op" /\ left = 0
  /\ down = << >> /\ late = << >>
  /\ \/ spc \in {"op", "params"}
     \/ spc = "select" /\ up # << >>
     \/ spc = "select" /\ owed /\ call.op \in {"OPEN", "LOCK"}

\* The call will understand its answer up to the files that follow.
Answered ==
  /\ up = << >> /\ ~owed
  /\ spc \in {"select", "answer", "ended"}
  /\ ToCome # << >>
  /\ Understands(call, ToCome, Stage(want, left), FilesToCome(files))
  /\ verdict = IF want = "op" THEN ToCome[1].val
               ELSE IF want = "errno" THEN "ERROR" ELSE "OK"

Reading ==
  cpc = "read" =>
    /\ wr = << >>
    /\ \/ Unanswered
       \/ spc = "ended" /\ down = << >>
       \/ Answered

\* After the call that runs, or ran last, the file is m: another has to follow.
Unfinished(m) == m = "open" \/ call.op \in {"WRITE", "READ"}

\* A call that may leave the file open is followed by another.
WillClose ==
  /\ cpc \in {"connecting", "refused", "idle"} => ~Unfinished(mine)
  /\ cpc = "returned" /\ Unfinished(mine) => Follows(task, call.op, result) # {}
  /\ cpc \in {"write", "read"} =>
       \A r \in {"OK", "ERROR"} : Unfinished(Owned(r)) => Follows(task, call.op, r) # {}

Verdicts == cpc = "returned" /\ spc # "ended" => result = verdict

\* What holds until a request is given up half way.
WholeInv ==
  /\ Types
  /\ Bounded
  /\ Requested
  /\ Answering
  /\ Quiet
  /\ Reading
  /\ Verdicts
  /\ WillClose

ClientInv == Types /\ (Torn \/ WholeInv)

-------------------------------------------------------------------------------
(* Sequences.                                                              *)

\* p followed by q is the sequence that has the elements of p, then those of q.
LEMMA Joined ==
  ASSUME NEW T, NEW p \in Seq(T), NEW q \in Seq(T), NEW r \in Seq(T),
         Len(r) = Len(p) + Len(q),
         \A i \in 1 .. Len(p) : r[i] = p[i],
         \A i \in 1 .. Len(q) : r[Len(p) + i] = q[i]
  PROVE  p \o q = r
<1>1. /\ p \o q \in Seq(T)
      /\ Len(p \o q) = Len(p) + Len(q)
      /\ \A i \in 1 .. Len(p) + Len(q) : (p \o q)[i] = IF i <= Len(p) THEN p[i] ELSE q[i - Len(p)]
  BY ConcatProperties
<1>2. Len(p) \in Nat /\ Len(q) \in Nat
  OBVIOUS
<1>3. \A i \in 1 .. Len(r) : r[i] = (p \o q)[i]
  <2> SUFFICES ASSUME NEW i \in 1 .. Len(r)
               PROVE  r[i] = (p \o q)[i]
    OBVIOUS
  <2>1. CASE i <= Len(p)
    BY <1>1, <1>2, <2>1
  <2>2. CASE ~(i <= Len(p))
    <3>1. i - Len(p) \in 1 .. Len(q) /\ i = Len(p) + (i - Len(p))
      BY <1>2, <2>2
    <3>2. r[i] = q[i - Len(p)]
      BY <3>1
    <3> QED
      BY <1>1, <1>2, <2>2, <3>2
  <2> QED
    BY <2>1, <2>2
<1> QED
  BY <1>1, <1>3, SeqEqual

\* One element and the rest.
LEMMA OnePlus ==
  ASSUME NEW T, NEW a \in T, NEW s \in Seq(T)
  PROVE  /\ << a >> \o s \in Seq(T)
         /\ Len(<< a >> \o s) = Len(s) + 1
         /\ (<< a >> \o s)[1] = a
         /\ \A i \in 1 .. Len(s) : (<< a >> \o s)[i + 1] = s[i]
<1> DEFINE o == << a >>
<1>1. o \in Seq(T) /\ Len(o) = 1 /\ o[1] = a
  OBVIOUS
<1>2. Len(s) \in Nat
  OBVIOUS
<1> HIDE DEF o
<1>3. /\ o \o s \in Seq(T)
      /\ Len(o \o s) = Len(o) + Len(s)
      /\ \A i \in 1 .. Len(o) + Len(s) : (o \o s)[i] = IF i <= Len(o) THEN o[i] ELSE s[i - Len(o)]
  BY <1>1, ConcatProperties
<1>4. (o \o s)[1] = a /\ \A i \in 1 .. Len(s) : (o \o s)[i + 1] = s[i]
  BY <1>1, <1>2, <1>3
<1> QED
  BY <1>1, <1>3, <1>4 DEF o

\* Short sequences joined.
LEMMA OneOne ==
  ASSUME NEW a, NEW b
  PROVE  << a >> \o << b >> = << a, b >>
<1> DEFINE T == {a, b}  p == << a >>  q == << b >>  r == << a, b >>
<1>1. p \in Seq(T) /\ Len(p) = 1 /\ p[1] = a
  OBVIOUS
<1>2. q \in Seq(T) /\ Len(q) = 1 /\ q[1] = b
  OBVIOUS
<1>3. r \in Seq(T) /\ Len(r) = 2 /\ r[1] = a /\ r[2] = b
  OBVIOUS
<1> HIDE DEF p, q, r, T
<1>4. /\ Len(r) = Len(p) + Len(q)
      /\ \A i \in 1 .. Len(p) : r[i] = p[i]
      /\ \A i \in 1 .. Len(q) : r[Len(p) + i] = q[i]
  BY <1>1, <1>2, <1>3
<1>5. p \o q = r
  BY <1>1, <1>2, <1>3, <1>4, Joined, Zenon
<1> QED
  BY <1>5 DEF p, q, r

\* Written out, two sequences joined are one, as above.
LEMMA OneTwo ==
  ASSUME NEW a, NEW b, NEW d
  PROVE  << a >> \o << b, d >> = << a, b, d >>
<1> DEFINE T == {a, b, d}  p == << a >>  q == << b, d >>  r == << a, b, d >>
<1>1. /\ p \in Seq(T) /\ q \in Seq(T) /\ r \in Seq(T) /\ Len(r) = Len(p) + Len(q)
      /\ \A i \in 1 .. Len(p) : r[i] = p[i]
      /\ \A i \in 1 .. Len(q) : r[Len(p) + i] = q[i]
  OBVIOUS
<1> QED
  BY <1>1, Joined, Zenon

LEMMA TwoOne ==
  ASSUME NEW a, NEW b, NEW d
  PROVE  << a, b >> \o << d >> = << a, b, d >>
<1> DEFINE T == {a, b, d}  p == << a, b >>  q == << d >>  r == << a, b, d >>
<1>1. /\ p \in Seq(T) /\ q \in Seq(T) /\ r \in Seq(T) /\ Len(r) = Len(p) + Len(q)
      /\ \A i \in 1 .. Len(p) : r[i] = p[i]
      /\ \A i \in 1 .. Len(q) : r[Len(p) + i] = q[i]
  OBVIOUS
<1> QED
  BY <1>1, Joined, Zenon

LEMMA TwoTwo ==
  ASSUME NEW a, NEW b, NEW d, NEW e
  PROVE  << a, b >> \o << d, e >> = << a, b, d, e >>
<1> DEFINE T == {a, b, d, e}  p == << a, b >>  q == << d, e >>  r == << a, b, d, e >>
<1>1. /\ p \in Seq(T) /\ q \in Seq(T) /\ r \in Seq(T) /\ Len(r) = Len(p) + Len(q)
      /\ \A i \in 1 .. Len(p) : r[i] = p[i]
      /\ \A i \in 1 .. Len(q) : r[Len(p) + i] = q[i]
  OBVIOUS
<1> QED
  BY <1>1, Joined, Zenon

LEMMA TwoThree ==
  ASSUME NEW a, NEW b, NEW d, NEW e, NEW f
  PROVE  << a, b >> \o << d, e, f >> = << a, b, d, e, f >>
<1> DEFINE T == {a, b, d, e, f}  p == << a, b >>  q == << d, e, f >>  r == << a, b, d, e, f >>
<1>1. /\ p \in Seq(T) /\ q \in Seq(T) /\ r \in Seq(T) /\ Len(r) = Len(p) + Len(q)
      /\ \A i \in 1 .. Len(p) : r[i] = p[i]
      /\ \A i \in 1 .. Len(q) : r[Len(p) + i] = q[i]
  OBVIOUS
<1> QED
  BY <1>1, Joined, Zenon

LEMMA ThreeOne ==
  ASSUME NEW a, NEW b, NEW d, NEW e
  PROVE  << a, b, d >> \o << e >> = << a, b, d, e >>
<1> DEFINE T == {a, b, d, e}  p == << a, b, d >>  q == << e >>  r == << a, b, d, e >>
<1>1. /\ p \in Seq(T) /\ q \in Seq(T) /\ r \in Seq(T) /\ Len(r) = Len(p) + Len(q)
      /\ \A i \in 1 .. Len(p) : r[i] = p[i]
      /\ \A i \in 1 .. Len(q) : r[Len(p) + i] = q[i]
  OBVIOUS
<1> QED
  BY <1>1, Joined, Zenon

LEMMA ThreeTwo ==
  ASSUME NEW a, NEW b, NEW d, NEW e, NEW f
  PROVE  << a, b, d >> \o << e, f >> = << a, b, d, e, f >>
<1> DEFINE T == {a, b, d, e, f}  p == << a, b, d >>  q == << e, f >>  r == << a, b, d, e, f >>
<1>1. /\ p \in Seq(T) /\ q \in Seq(T) /\ r \in Seq(T) /\ Len(r) = Len(p) + Len(q)
      /\ \A i \in 1 .. Len(p) : r[i] = p[i]
      /\ \A i \in 1 .. Len(q) : r[Len(p) + i] = q[i]
  OBVIOUS
<1> QED
  BY <1>1, Joined, Zenon

LEMMA TwoFour ==
  ASSUME NEW a, NEW b, NEW d, NEW e, NEW f, NEW g
  PROVE  << a, b >> \o << d, e, f, g >> = << a, b, d, e, f, g >>
<1> DEFINE T == {a, b, d, e, f, g}  p == << a, b >>  q == << d, e, f, g >>  r == << a, b, d, e, f, g >>
<1>1. /\ p \in Seq(T) /\ q \in Seq(T) /\ r \in Seq(T) /\ Len(r) = Len(p) + Len(q)
      /\ \A i \in 1 .. Len(p) : r[i] = p[i]
      /\ \A i \in 1 .. Len(q) : r[Len(p) + i] = q[i]
  OBVIOUS
<1> QED
  BY <1>1, Joined, Zenon

LEMMA TwoFive ==
  ASSUME NEW a, NEW b, NEW d, NEW e, NEW f, NEW g, NEW h
  PROVE  << a, b >> \o << d, e, f, g, h >> = << a, b, d, e, f, g, h >>
<1> DEFINE T == {a, b, d, e, f, g, h}  p == << a, b >>  q == << d, e, f, g, h >>
           r == << a, b, d, e, f, g, h >>
<1>1. /\ p \in Seq(T) /\ q \in Seq(T) /\ r \in Seq(T) /\ Len(r) = Len(p) + Len(q)
      /\ \A i \in 1 .. Len(p) : r[i] = p[i]
      /\ \A i \in 1 .. Len(q) : r[Len(p) + i] = q[i]
  OBVIOUS
<1> QED
  BY <1>1, Joined, Zenon

\* Both ends of two sequences joined.
LEMMA JoinedTail ==
  ASSUME NEW T, NEW p \in Seq(T), NEW q \in Seq(T), p # << >>
  PROVE  /\ Head(p \o q) = Head(p) /\ Head(p) \in T
         /\ Tail(p \o q) = Tail(p) \o q /\ Tail(p) \in Seq(T)
         /\ p \o q # << >> /\ p \o q \in Seq(T)
<1> DEFINE s == p \o q
           r == Tail(s)
<1>1. /\ s \in Seq(T) /\ Len(s) = Len(p) + Len(q)
      /\ Len(p) \in Nat /\ Len(q) \in Nat /\ Len(p) >= 1
      /\ \A i \in 1 .. Len(p) : s[i] = p[i]
      /\ \A i \in 1 .. Len(q) : s[Len(p) + i] = q[i]
  <2>1. Len(p) \in Nat /\ Len(q) \in Nat /\ Len(p) >= 1
    BY EmptySeq
  <2>2. s \in Seq(T) /\ Len(s) = Len(p) + Len(q)
    BY ConcatProperties
  <2>3. \A i \in 1 .. Len(p) : s[i] = p[i]
    BY <2>1, ConcatProperties
  <2>4. \A i \in 1 .. Len(q) : s[Len(p) + i] = q[i]
    BY <2>1
  <2> QED
    BY <2>1, <2>2, <2>3, <2>4
<1> HIDE DEF s
<1>2. s # << >> /\ Head(s) = s[1] /\ Head(p) = p[1] /\ p[1] \in T
  BY <1>1
<1>3. Head(s) = Head(p) /\ Head(p) \in T
  <2>1. 1 \in 1 .. Len(p)
    BY <1>1
  <2> QED
    BY <1>1, <1>2, <2>1
<1>4. /\ r \in Seq(T) /\ Len(r) = Len(s) - 1
      /\ \A i \in 1 .. Len(s) - 1 : r[i] = s[i + 1]
  BY <1>1, <1>2
<1>5. /\ Tail(p) \in Seq(T) /\ Len(Tail(p)) = Len(p) - 1
      /\ \A i \in 1 .. Len(p) - 1 : Tail(p)[i] = p[i + 1]
  BY <1>1
<1>6. r = Tail(p) \o q
  <2> DEFINE t == Tail(p)
  <2>1. t \in Seq(T) /\ Len(t) = Len(p) - 1 /\ Len(r) = Len(t) + Len(q)
    BY <1>1, <1>4, <1>5
  <2>2. ASSUME NEW i \in 1 .. Len(t)
        PROVE  r[i] = t[i]
    <3>1. i \in 1 .. Len(p) - 1 /\ i \in 1 .. Len(s) - 1 /\ i + 1 \in 1 .. Len(p)
      BY <1>1, <2>1
    <3> QED
      BY <1>1, <1>4, <1>5, <3>1
  <2>3. ASSUME NEW i \in 1 .. Len(q)
        PROVE  r[Len(t) + i] = q[i]
    <3>1. Len(t) + i \in 1 .. Len(s) - 1 /\ Len(t) + i + 1 = Len(p) + i
      BY <1>1, <2>1
    <3>2. r[Len(t) + i] = s[Len(t) + i + 1]
      BY <1>4, <3>1
    <3> QED
      BY <1>1, <3>1, <3>2
  <2> HIDE DEF r, t
  <2>4. t \o q = r
    BY <1>4, <2>1, <2>2, <2>3, Joined
  <2> QED
    BY <2>4 DEF t
<1> QED
  BY <1>1, <1>2, <1>3, <1>5, <1>6 DEF s

\* What moves from the head of one to the end of the other stays in place.
LEMMA JoinedMoves ==
  ASSUME NEW T, NEW p \in Seq(T), NEW q \in Seq(T), q # << >>
  PROVE  Append(p, Head(q)) \o Tail(q) = p \o q
<1> DEFINE h == << Head(q) >>
<1>1. h \in Seq(T) /\ Tail(q) \in Seq(T) /\ Head(q) \in T
  OBVIOUS
<1>2. q = h \o Tail(q)
  <2>1. /\ Len(q) \in Nat /\ Len(q) >= 1 /\ Len(h) = 1 /\ h[1] = q[1]
        /\ Len(Tail(q)) = Len(q) - 1
        /\ \A i \in 1 .. Len(q) - 1 : Tail(q)[i] = q[i + 1]
    BY EmptySeq
  <2>2. \A i \in 1 .. Len(h) : q[i] = h[i]
    BY <2>1
  <2>3. \A i \in 1 .. Len(Tail(q)) : q[Len(h) + i] = Tail(q)[i]
    BY <2>1
  <2>4. Len(q) = Len(h) + Len(Tail(q))
    BY <2>1
  <2> HIDE DEF h
  <2> QED
    BY <1>1, <2>2, <2>3, <2>4, Joined
<1>3. Append(p, Head(q)) = p \o h
  BY <1>1, AppendIsConcat
<1> HIDE DEF h
<1>4. (p \o h) \o Tail(q) = p \o (h \o Tail(q))
  BY <1>1, ConcatAssociative
<1> QED
  BY <1>2, <1>3, <1>4

-------------------------------------------------------------------------------
(* Requests, as fields in a row.                                           *)

\* Some data, written out.
LEMMA SizedForms ==
  ASSUME NEW n \in Nat
  PROVE  Sized(n) = IF n > 0 THEN << F("size", n), F("data", n) >> ELSE << F("size", n) >>
<1>1. CASE n > 0
  <2>1. Sized(n) = << F("size", n) >> \o << F("data", n) >>
    BY <1>1 DEF Sized
  <2>2. << F("size", n) >> \o << F("data", n) >> = << F("size", n), F("data", n) >>
    BY OneOne, Zenon
  <2> QED
    BY <1>1, <2>1, <2>2
<1>2. CASE ~(n > 0)
  <2>1. Sized(n) = << F("size", n) >> \o << >>
    BY <1>2 DEF Sized
  <2>2. << F("size", n) >> \o << >> = << F("size", n) >>
    OBVIOUS
  <2> QED
    BY <1>2, <2>1, <2>2
<1> QED
  BY <1>1, <1>2

\* What each function writes, by its operation.
OpenRequest(c)  == << F("first", 0), F("op", c.op), F("int", c.n), F("len", 1), F("str", 0) >>
CountRequest(c) == << F("first", 0), F("op", c.op), F("int", c.n) >>
EmptyRequest(c) == << F("first", 0), F("op", c.op), F("len", 1), F("str", 0),
                      F("bool", c.dir), F("size", c.n) >>
DataRequest(c)  == << F("first", 0), F("op", c.op), F("len", 1), F("str", 0),
                      F("bool", c.dir), F("size", c.n), F("data", c.n) >>
NameRequest(c)  == << F("first", 0), F("op", c.op), F("len", 1), F("str", 0) >>

\* The request of each kind of call, written out.
LEMMA RequestForms ==
  ASSUME NEW c \in CallType
  PROVE  Request(c) = IF c.op = "OPEN" THEN OpenRequest(c)
                      ELSE IF c.op = "READN" THEN CountRequest(c)
                      ELSE IF c.op \notin {"WRITE", "APPEND"} THEN NameRequest(c)
                      ELSE IF c.n > 0 THEN DataRequest(c) ELSE EmptyRequest(c)
<1> DEFINE two  == << F("first", 0), F("op", c.op) >>
           bool == << F("bool", c.dir) >>
           size == << F("size", c.n) >>
           full == << F("size", c.n), F("data", c.n) >>
<1>0. c.n \in Nat /\ String = << F("len", 1), F("str", 0) >>
  BY DEF CallType, String
<1>1. CASE c.op = "OPEN"
  <2>1. Request(c) = two \o (<< F("int", c.n) >> \o String)
    BY <1>1 DEF Request
  <2>2. << F("int", c.n) >> \o String = << F("int", c.n), F("len", 1), F("str", 0) >>
    BY <1>0, OneTwo
  <2>3. two \o << F("int", c.n), F("len", 1), F("str", 0) >> = OpenRequest(c)
    BY TwoThree DEF OpenRequest
  <2> QED
    BY <1>1, <2>1, <2>2, <2>3, Zenon
<1>2. CASE c.op = "READN"
  <2>1. Request(c) = two \o << F("int", c.n) >> /\ c.op # "OPEN"
    BY <1>2 DEF Request
  <2> QED
    BY <1>2, <2>1, TwoOne, Zenon DEF CountRequest
<1>3. CASE c.op \in {"WRITE", "APPEND"}
  <2>1. Request(c) = two \o (String \o bool \o Sized(c.n)) /\ c.op \notin {"OPEN", "READN"}
    BY <1>3 DEF Request
  <2>2. Sized(c.n) = IF c.n > 0 THEN full ELSE size
    BY <1>0, SizedForms
  <2>3. String \o bool = << F("len", 1), F("str", 0), F("bool", c.dir) >>
    BY <1>0, TwoOne, Zenon
  <2>4. CASE c.n > 0
    <3>1. << F("len", 1), F("str", 0), F("bool", c.dir) >> \o full
            = << F("len", 1), F("str", 0), F("bool", c.dir), F("size", c.n), F("data", c.n) >>
      BY ThreeTwo
    <3>2. two \o << F("len", 1), F("str", 0), F("bool", c.dir), F("size", c.n), F("data", c.n) >>
            = DataRequest(c)
      BY TwoFive DEF DataRequest
    <3>3. two \o (String \o bool \o full) = DataRequest(c)
      BY <2>3, <3>1, <3>2, Zenon
    <3> QED
      BY <1>3, <2>1, <2>2, <2>4, <3>3, Zenon
  <2>5. CASE ~(c.n > 0)
    <3>1. << F("len", 1), F("str", 0), F("bool", c.dir) >> \o size
            = << F("len", 1), F("str", 0), F("bool", c.dir), F("size", c.n) >>
      BY ThreeOne
    <3>2. two \o << F("len", 1), F("str", 0), F("bool", c.dir), F("size", c.n) >> = EmptyRequest(c)
      BY TwoFour DEF EmptyRequest
    <3>3. two \o (String \o bool \o size) = EmptyRequest(c)
      BY <2>3, <3>1, <3>2, Zenon
    <3> QED
      BY <1>3, <2>1, <2>2, <2>5, <3>3, Zenon
  <2> QED
    BY <2>4, <2>5
<1>4. CASE c.op \notin {"OPEN", "READN", "WRITE", "APPEND"}
  <2>1. Request(c) = two \o String
    BY <1>4 DEF Request
  <2> QED
    BY <1>0, <1>4, <2>1, TwoTwo, Zenon DEF NameRequest
<1> QED
  BY <1>1, <1>2, <1>3, <1>4, Zenon

\* A field of kind k with a value of its kind.
LEMMA FieldType ==
  ASSUME NEW k \in Kinds, NEW v \in Values(k)
  PROVE  F(k, v) \in Field /\ F(k, v).kind = k /\ F(k, v).val = v
BY DEF Field, F

\* A field holds a value of its kind.
LEMMA FieldProperties ==
  ASSUME NEW f \in Field
  PROVE  f.kind \in Kinds /\ f.val \in Values(f.kind)
BY DEF Field

\* The fields of a request after the operation.
LEMMA RequestFields ==
  ASSUME NEW c \in CallType
  PROVE  LET r == Request(c) IN
         /\ c.op = "OPEN" =>
              /\ Len(r) = 5 /\ r[3].kind = "int" /\ r[4].kind = "len" /\ r[5].kind = "str"
              /\ r[3].val = c.n
         /\ c.op = "READN" => Len(r) = 3 /\ r[3].kind = "int"
         /\ c.op \in {"WRITE", "APPEND"} =>
              /\ r[3].kind = "len" /\ r[4].kind = "str" /\ r[5].kind = "bool" /\ r[6].kind = "size"
              /\ Len(r) = IF c.n > 0 THEN 7 ELSE 6
              /\ c.n > 0 => r[7].kind = "data"
              /\ r[5].val = c.dir /\ r[6].val = c.n
         /\ c.op \notin {"OPEN", "READN", "WRITE", "APPEND"} =>
              Len(r) = 4 /\ r[3].kind = "len" /\ r[4].kind = "str"
<1> DEFINE r == Request(c)
<1>1. r = IF c.op = "OPEN" THEN OpenRequest(c)
          ELSE IF c.op = "READN" THEN CountRequest(c)
          ELSE IF c.op \notin {"WRITE", "APPEND"} THEN NameRequest(c)
          ELSE IF c.n > 0 THEN DataRequest(c) ELSE EmptyRequest(c)
  BY RequestForms
<1> HIDE DEF r
<1>2. ASSUME c.op = "OPEN"
      PROVE  /\ Len(r) = 5 /\ r[3].kind = "int" /\ r[4].kind = "len" /\ r[5].kind = "str"
             /\ r[3].val = c.n
  BY <1>1, <1>2 DEF OpenRequest, F
<1>3. ASSUME c.op = "READN"
      PROVE  Len(r) = 3 /\ r[3].kind = "int"
  BY <1>1, <1>3 DEF CountRequest, F
<1>4. ASSUME c.op \in {"WRITE", "APPEND"}
      PROVE  /\ r[3].kind = "len" /\ r[4].kind = "str" /\ r[5].kind = "bool" /\ r[6].kind = "size"
             /\ Len(r) = IF c.n > 0 THEN 7 ELSE 6
             /\ c.n > 0 => r[7].kind = "data"
             /\ r[5].val = c.dir /\ r[6].val = c.n
  BY <1>1, <1>4 DEF DataRequest, EmptyRequest, F
<1>5. ASSUME c.op \notin {"OPEN", "READN", "WRITE", "APPEND"}
      PROVE  Len(r) = 4 /\ r[3].kind = "len" /\ r[4].kind = "str"
  BY <1>1, <1>5 DEF NameRequest, F
<1> QED
  BY <1>2, <1>3, <1>4, <1>5 DEF r

\* Every request begins with the unused byte and the operation.
LEMMA RequestShape ==
  ASSUME NEW c \in CallType
  PROVE  /\ Request(c) \in Seq(Field)
         /\ Len(Request(c)) \in 3 .. 7
         /\ Request(c)[1].kind = "first"
         /\ Request(c)[2].kind = "op" /\ Request(c)[2].val = c.op
<1>1. /\ F("first", 0) \in Field /\ F("len", 1) \in Field /\ F("str", 0) \in Field
      /\ F("op", c.op) \in Field /\ F("bool", c.dir) \in Field
      /\ F("int", c.n) \in Field /\ F("size", c.n) \in Field /\ F("data", c.n) \in Field
  BY DEF CallType, Field, F, Kinds, Values
<1>2. /\ F("first", 0).kind = "first"
      /\ F("op", c.op).kind = "op" /\ F("op", c.op).val = c.op
  BY DEF F
<1> DEFINE r == Request(c)
           Right == /\ r \in Seq(Field) /\ Len(r) \in 3 .. 7
                    /\ r[1].kind = "first" /\ r[2].kind = "op" /\ r[2].val = c.op
<1>3. r = IF c.op = "OPEN" THEN OpenRequest(c)
          ELSE IF c.op = "READN" THEN CountRequest(c)
          ELSE IF c.op \notin {"WRITE", "APPEND"} THEN NameRequest(c)
          ELSE IF c.n > 0 THEN DataRequest(c) ELSE EmptyRequest(c)
  BY RequestForms
<1> HIDE DEF r
<1> SUFFICES Right
  BY DEF r
<1>4. CASE r = OpenRequest(c)
  BY <1>1, <1>2, <1>4 DEF OpenRequest
<1>5. CASE r = CountRequest(c)
  BY <1>1, <1>2, <1>5 DEF CountRequest
<1>6. CASE r = NameRequest(c)
  BY <1>1, <1>2, <1>6 DEF NameRequest
<1>7. CASE r = DataRequest(c)
  BY <1>1, <1>2, <1>7 DEF DataRequest
<1>8. CASE r = EmptyRequest(c)
  BY <1>1, <1>2, <1>8 DEF EmptyRequest
<1> QED
  BY <1>3, <1>4, <1>5, <1>6, <1>7, <1>8 DEF r

\* What a handler reads next is what the function wrote there: the parameters of
\* both ends are the same, also when there is no data.
LEMMA ExpectsNext ==
  ASSUME call \in CallType, HasRead, got \in Seq(Payload)
  PROVE  /\ Op = call.op
         /\ Expects = IF Len(got) = Len(Request(call)) - 1 THEN "none"
                      ELSE Request(call)[Len(got) + 2].kind
<1> DEFINE r == Request(call)
           m == Len(got)
           p == Params(Op)
<1>1. /\ m \in 1 .. Len(r) - 1
      /\ \A i \in 1 .. m : got[i] = r[i + 1].val
  BY DEF HasRead
<1>2. Len(r) \in 3 .. 7 /\ r[2].val = call.op
  BY RequestShape
<1>3. Op = call.op
  BY <1>1, <1>2 DEF Op
<1>4. Expects = IF m > Len(p) \/ (m = 5 /\ got[5] = 0) THEN "none" ELSE p[m]
  BY DEF Expects
<1>5. call.op \in {"OPEN", "LOCK", "UNLOCK", "READ", "READN", "WRITE", "APPEND", "CLOSE", "REMOVE"}
      /\ call.n \in Nat
  BY DEF CallType, Ops
<1> DEFINE Right == Expects = IF m = Len(r) - 1 THEN "none" ELSE r[m + 2].kind
<1> SUFFICES Right
  BY <1>3
<1>6. CASE call.op = "OPEN"
  <2>1. Len(r) = 5 /\ r[3].kind = "int" /\ r[4].kind = "len" /\ r[5].kind = "str"
    BY <1>6, RequestFields
  <2>2. Len(p) = 3 /\ p[1] = "int" /\ p[2] = "len" /\ p[3] = "str"
    BY <1>3, <1>6 DEF Params
  <2> HIDE DEF r, p, m
  <2>3. m \in 1 .. 4
    BY <1>1, <2>1
  <2> QED
    BY <1>4, <2>1, <2>2, <2>3
<1>7. CASE call.op = "READN"
  <2>1. Len(r) = 3 /\ r[3].kind = "int"
    BY <1>7, RequestFields
  <2>2. Len(p) = 1 /\ p[1] = "int"
    BY <1>3, <1>7 DEF Params
  <2> HIDE DEF r, p, m
  <2>3. m \in 1 .. 2
    BY <1>1, <2>1
  <2> QED
    BY <1>4, <2>1, <2>2, <2>3
<1>8. CASE call.op \in {"WRITE", "APPEND"}
  <2>1. Len(p) = 5 /\ p[1] = "len" /\ p[2] = "str" /\ p[3] = "bool" /\ p[4] = "size" /\ p[5] = "data"
    BY <1>3, <1>8 DEF Params
  <2>2. /\ Len(r) = IF call.n > 0 THEN 7 ELSE 6
        /\ r[3].kind = "len" /\ r[4].kind = "str" /\ r[5].kind = "bool" /\ r[6].kind = "size"
        /\ call.n > 0 => r[7].kind = "data"
        /\ r[6].val = call.n
    BY <1>8, RequestFields
  <2> HIDE DEF r, p, m
  <2>3. m \in 1 .. 6 /\ (m = 5 => got[5] = call.n) /\ (m = 6 => call.n > 0)
    BY <1>1, <1>5, <2>2
  <2> QED
    BY <1>4, <1>5, <2>1, <2>2, <2>3
<1>9. CASE call.op \notin {"OPEN", "READN", "WRITE", "APPEND"}
  <2>1. Len(r) = 4 /\ r[3].kind = "len" /\ r[4].kind = "str"
    BY <1>9, RequestFields
  <2>2. Len(p) = 2 /\ p[1] = "len" /\ p[2] = "str"
    BY <1>3, <1>9 DEF Params
  <2> HIDE DEF r, p, m
  <2>3. m \in 1 .. 3
    BY <1>1, <2>1
  <2> QED
    BY <1>4, <2>1, <2>2, <2>3
<1> QED
  BY <1>6, <1>7, <1>8, <1>9

\* The parameters the store decides on.
LEMMA ParamsRead ==
  ASSUME call \in CallType, HasRead, Len(got) = Len(Request(call)) - 1
  PROVE  /\ call.op = "OPEN" => got[2] = call.n
         /\ call.op \in {"WRITE", "APPEND"} => got[4] = call.dir /\ got[5] = call.n
<1> DEFINE r == Request(call)
<1>1. \A i \in 1 .. Len(got) : got[i] = r[i + 1].val
  BY DEF HasRead
<1>2. call.op = "OPEN" => Len(r) = 5 /\ r[3].val = call.n
  BY RequestFields
<1>3. call.op \in {"WRITE", "APPEND"} =>
        Len(r) \in {6, 7} /\ r[5].val = call.dir /\ r[6].val = call.n
  BY RequestFields
<1> HIDE DEF r
<1> QED
  BY <1>1, <1>2, <1>3 DEF r

-------------------------------------------------------------------------------
(* Understanding an answer.                                                *)

\* Nothing to read.
LEMMA UnderstandsNothing ==
  ASSUME NEW c, NEW s \in Stages
  PROVE  Understands(c, << >>, s, s)
<1> DEFINE p == << s >>
<1>1. p \in Seq(Stages) /\ Len(p) = 1 /\ p[1] = s
  OBVIOUS
<1> HIDE DEF p
<1>2. IsPath(p, c, << >>, s, s)
  BY <1>1 DEF IsPath
<1> QED
  BY <1>1, <1>2 DEF Understands

\* With nothing to read a call stays where it is.
LEMMA NothingIsUnderstood ==
  ASSUME NEW c, NEW s, NEW e, Understands(c, << >>, s, e)
  PROVE  s = e
<1>1. PICK p : IsPath(p, c, << >>, s, e)
  BY DEF Understands
<1> QED
  BY <1>1 DEF IsPath

\* The first field is read; from there on the call understands the rest.
LEMMA UnderstandsTail ==
  ASSUME NEW c, NEW q \in Seq(Field), q # << >>, NEW s, NEW e, Understands(c, q, s, e)
  PROVE  \E t \in Stages : Reads(c, s, Head(q), t) /\ Understands(c, Tail(q), t, e)
<1>1. PICK p \in Seq(Stages) : IsPath(p, c, q, s, e)
  BY DEF Understands
<1>2. /\ Len(p) = Len(q) + 1 /\ p[1] = s /\ p[Len(q) + 1] = e
      /\ \A i \in 1 .. Len(q) : Reads(c, p[i], q[i], p[i + 1])
  BY <1>1 DEF IsPath
<1>3. Len(q) \in Nat /\ Len(q) > 0 /\ Head(q) = q[1]
  BY EmptySeq
<1>4. /\ Tail(q) \in Seq(Field) /\ Len(Tail(q)) = Len(q) - 1
      /\ \A i \in 1 .. Len(Tail(q)) : Tail(q)[i] = q[i + 1]
  BY HeadTailProperties
<1>5. /\ Tail(p) \in Seq(Stages) /\ Len(Tail(p)) = Len(p) - 1
      /\ \A i \in 1 .. Len(Tail(p)) : Tail(p)[i] = p[i + 1]
  <2>1. p # << >>
    BY <1>2, <1>3
  <2> QED
    BY <2>1, HeadTailProperties
<1>6. p[2] \in Stages
  BY <1>2, <1>3
<1>7. Reads(c, s, Head(q), p[2])
  BY <1>2, <1>3
<1> DEFINE u == Tail(p)
           r == Tail(q)
<1> HIDE DEF u, r
<1>8. /\ Len(u) = Len(r) + 1
      /\ u[1] = p[2]
      /\ u[Len(r) + 1] = e
  BY <1>2, <1>3, <1>4, <1>5 DEF u, r
<1>9. \A i \in 1 .. Len(r) : Reads(c, u[i], r[i], u[i + 1])
  <2> SUFFICES ASSUME NEW i \in 1 .. Len(r)
               PROVE  Reads(c, u[i], r[i], u[i + 1])
    OBVIOUS
  <2>1. i \in Nat /\ i + 1 \in 1 .. Len(q) /\ i \in 1 .. Len(u) /\ i + 1 \in 1 .. Len(u)
    BY <1>2, <1>3, <1>4, <1>5 DEF u, r
  <2>2. Reads(c, p[i + 1], q[i + 1], p[(i + 1) + 1])
    BY <1>2, <2>1
  <2>3. u[i] = p[i + 1] /\ r[i] = q[i + 1] /\ u[i + 1] = p[(i + 1) + 1]
    BY <1>4, <1>5, <2>1 DEF u, r
  <2> QED
    BY <2>2, <2>3
<1>10. IsPath(u, c, r, p[2], e)
  BY <1>5, <1>8, <1>9 DEF IsPath, u
<1>11. Understands(c, Tail(q), p[2], e)
  BY <1>5, <1>10 DEF Understands, u, r
<1> QED
  BY <1>6, <1>7, <1>11

\* One field.
LEMMA UnderstandsOne ==
  ASSUME NEW c, NEW f, NEW s \in Stages, NEW t \in Stages, Reads(c, s, f, t)
  PROVE  Understands(c, << f >>, s, t)
<1> DEFINE p == << s, t >>
           q == << f >>
<1>1. p \in Seq(Stages) /\ Len(p) = 2 /\ p[1] = s /\ p[2] = t
  OBVIOUS
<1>2. Len(q) = 1 /\ q[1] = f
  OBVIOUS
<1> HIDE DEF p, q
<1>3. IsPath(p, c, q, s, t)
  BY <1>1, <1>2 DEF IsPath
<1> QED
  BY <1>1, <1>3 DEF Understands, q

\* What comes after the fields q is read from where q ends.
LEMMA UnderstandsBoth ==
  ASSUME NEW c, NEW q \in Seq(Field), NEW r \in Seq(Field), NEW s, NEW t, NEW e,
         Understands(c, q, s, t), Understands(c, r, t, e)
  PROVE  Understands(c, q \o r, s, e)
<1>1. PICK p \in Seq(Stages) : IsPath(p, c, q, s, t)
  BY DEF Understands
<1>2. PICK v \in Seq(Stages) : IsPath(v, c, r, t, e)
  BY DEF Understands
<1>3. /\ Len(p) = Len(q) + 1 /\ p[1] = s /\ p[Len(q) + 1] = t
      /\ \A i \in 1 .. Len(q) : Reads(c, p[i], q[i], p[i + 1])
  BY <1>1 DEF IsPath
<1>4. /\ Len(v) = Len(r) + 1 /\ v[1] = t /\ v[Len(r) + 1] = e
      /\ \A i \in 1 .. Len(r) : Reads(c, v[i], r[i], v[i + 1])
  BY <1>2 DEF IsPath
<1>5. Len(q) \in Nat /\ Len(r) \in Nat
  OBVIOUS
<1> DEFINE w == Tail(v)
           u == p \o w
           a == q \o r
<1>6. /\ w \in Seq(Stages) /\ Len(w) = Len(r)
      /\ \A i \in 1 .. Len(r) : w[i] = v[i + 1]
  <2>1. v # << >>
    BY <1>4, <1>5
  <2> QED
    BY <1>4, <1>5, <2>1, HeadTailProperties
<1> HIDE DEF w
<1>7. /\ u \in Seq(Stages) /\ Len(u) = Len(p) + Len(w)
      /\ \A i \in 1 .. Len(p) + Len(w) : u[i] = IF i <= Len(p) THEN p[i] ELSE w[i - Len(p)]
  <2>1. p \in Seq(Stages) /\ w \in Seq(Stages)
    BY <1>6
  <2> HIDE DEF a
  <2> QED
    BY <2>1, ConcatProperties
<1>8. /\ a \in Seq(Field) /\ Len(a) = Len(q) + Len(r)
      /\ \A i \in 1 .. Len(q) + Len(r) : a[i] = IF i <= Len(q) THEN q[i] ELSE r[i - Len(q)]
  BY ConcatProperties
<1> HIDE DEF u, a
<1>9. \A i \in 1 .. Len(q) + 1 : u[i] = p[i]
  BY <1>3, <1>5, <1>6, <1>7
<1>10. \A j \in 1 .. Len(r) + 1 : u[Len(q) + j] = v[j]
  <2> SUFFICES ASSUME NEW j \in 1 .. Len(r) + 1
               PROVE  u[Len(q) + j] = v[j]
    OBVIOUS
  <2>1. CASE j = 1
    BY <1>3, <1>4, <1>5, <1>9, <2>1
  <2>2. CASE j # 1
    <3>1. PICK k \in 1 .. Len(r) : j = k + 1
      <4>1. j - 1 \in 1 .. Len(r) /\ j = (j - 1) + 1
        BY <1>5, <2>2
      <4> QED
        BY <4>1
    <3>2. /\ Len(q) + j \in 1 .. Len(p) + Len(w)
          /\ ~(Len(q) + j <= Len(p))
          /\ (Len(q) + j) - Len(p) = k
      BY <1>3, <1>5, <1>6, <3>1
    <3>3. u[Len(q) + j] = w[k]
      BY <1>7, <3>2
    <3> QED
      BY <1>6, <3>1, <3>3
  <2> QED
    BY <2>1, <2>2
<1>11. \A i \in 1 .. Len(a) : Reads(c, u[i], a[i], u[i + 1])
  <2> SUFFICES ASSUME NEW i \in 1 .. Len(a)
               PROVE  Reads(c, u[i], a[i], u[i + 1])
    OBVIOUS
  <2>1. CASE i <= Len(q)
    <3>1. i \in 1 .. Len(q) /\ i \in 1 .. Len(q) + 1 /\ i + 1 \in 1 .. Len(q) + 1
      BY <1>5, <2>1
    <3>2. a[i] = q[i]
      BY <1>5, <1>8, <2>1
    <3>3. u[i] = p[i] /\ u[i + 1] = p[i + 1]
      BY <1>9, <3>1
    <3> QED
      BY <1>3, <3>1, <3>2, <3>3
  <2>2. CASE ~(i <= Len(q))
    <3>1. PICK k \in 1 .. Len(r) : i = Len(q) + k
      <4>1. i - Len(q) \in 1 .. Len(r) /\ i = Len(q) + (i - Len(q))
        BY <1>5, <1>8, <2>2
      <4> QED
        BY <4>1
    <3>2. a[i] = r[k]
      <4>1. i - Len(q) = k
        BY <1>5, <3>1
      <4> QED
        BY <1>5, <1>8, <2>2, <4>1
    <3>3. u[i] = v[k] /\ u[i + 1] = v[k + 1]
      <4>1. k \in 1 .. Len(r) + 1 /\ k + 1 \in 1 .. Len(r) + 1 /\ i + 1 = Len(q) + (k + 1)
        BY <1>5, <3>1
      <4> QED
        BY <1>10, <3>1, <4>1
    <3> QED
      BY <1>4, <3>2, <3>3
  <2> QED
    BY <2>1, <2>2
<1>12. /\ Len(u) = Len(a) + 1 /\ u[1] = s
       /\ u[Len(a) + 1] = e
  <2>1. Len(u) = Len(a) + 1 /\ u[1] = s
    BY <1>3, <1>5, <1>6, <1>7, <1>8, <1>9
  <2>2. Len(a) + 1 = Len(q) + (Len(r) + 1) /\ Len(r) + 1 \in 1 .. Len(r) + 1
    BY <1>5, <1>8
  <2> QED
    BY <1>4, <1>10, <2>1, <2>2
<1>13. IsPath(u, c, a, s, e)
  BY <1>7, <1>11, <1>12 DEF IsPath
<1> QED
  BY <1>7, <1>13 DEF Understands, a

\* One more field in front.
LEMMA UnderstandsMore ==
  ASSUME NEW c, NEW f \in Field, NEW q \in Seq(Field), NEW s \in Stages, NEW t \in Stages,
         NEW e, Reads(c, s, f, t), Understands(c, q, t, e)
  PROVE  Understands(c, << f >> \o q, s, e)
<1>1. Understands(c, << f >>, s, t)
  BY UnderstandsOne
<1>2. << f >> \in Seq(Field)
  OBVIOUS
<1> QED
  BY <1>1, <1>2, UnderstandsBoth

-------------------------------------------------------------------------------
(* Every answer of the server is understood to its end.                    *)

\* The stages that occur are stages.
LEMMA StageType ==
  /\ \A w \in {"op", "errno", "size", "data", "count"} : Stage(w, 0) \in Stages
  /\ \A w \in Wanted : \A n \in 0 .. MaxBack : Stage(w, n) \in Stages
  /\ \A n \in 0 .. MaxBack : FilesToCome(n) \in Stages
  /\ Done \in Stages
BY ClientAssumption DEF Stage, Stages, Wanted, Done, FilesToCome

\* The fields every answer is made of.
LEMMA OkField ==
  /\ F("op", "OK") \in Field /\ F("op", "OK").kind = "op" /\ F("op", "OK").val = "OK"
  /\ F("op", "ERROR") \in Field /\ F("op", "ERROR").kind = "op" /\ F("op", "ERROR").val = "ERROR"
  /\ F("int", 1) \in Field /\ F("int", 1).kind = "int"
  /\ F("len", 1) \in Field /\ F("len", 1).kind = "len"
  /\ F("str", 0) \in Field /\ F("str", 0).kind = "str"
BY DEF F, Field, Kinds, Values

\* A size and the data of that size are fields.
LEMMA SizeFields ==
  ASSUME NEW n \in Nat
  PROVE  /\ F("size", n) \in Field /\ F("size", n).kind = "size" /\ F("size", n).val = n
         /\ F("data", n) \in Field /\ F("data", n).kind = "data"
BY DEF F, Field, Kinds, Values

\* A refusal is read to its end.
LEMMA RefusalUnderstood ==
  ASSUME NEW c
  PROVE  /\ Refusal \in Seq(Field) /\ Refusal # << >> /\ Refusal[1].val = "ERROR"
         /\ Understands(c, Refusal, Stage("op", 0), Done)
<1>1. Refusal = << F("op", "ERROR") >> \o << F("int", 1) >>
  BY OneOne, Zenon DEF Refusal
<1>2. /\ Refusal \in Seq(Field) /\ Refusal # << >>
      /\ Refusal[1].val = "ERROR" /\ << F("int", 1) >> \in Seq(Field)
  BY OkField DEF Refusal
<1>3. Reads(c, Stage("op", 0), F("op", "ERROR"), Stage("errno", 0))
  BY OkField DEF Reads, Stage, Wanted, KindOf
<1>4. Reads(c, Stage("errno", 0), F("int", 1), Done)
  BY OkField DEF Reads, Stage, Wanted, KindOf
<1>5. Stage("op", 0) \in Stages /\ Stage("errno", 0) \in Stages /\ Done \in Stages
  BY StageType
<1>6. Understands(c, << F("int", 1) >>, Stage("errno", 0), Done)
  BY <1>4, <1>5, UnderstandsOne
<1>7. Understands(c, << F("op", "ERROR") >> \o << F("int", 1) >>, Stage("op", 0), Done)
  BY <1>2, <1>3, <1>5, <1>6, OkField, UnderstandsMore
<1> QED
  BY <1>1, <1>2, <1>7

\* So is OP_OK by itself.
LEMMA OkUnderstood ==
  ASSUME NEW c, c.op \notin {"READ", "READN"}, ~c.dir
  PROVE  /\ << F("op", "OK") >> \in Seq(Field) /\ << F("op", "OK") >> # << >>
         /\ << F("op", "OK") >>[1].val = "OK"
         /\ Understands(c, << F("op", "OK") >>, Stage("op", 0), Done)
<1>1. Reads(c, Stage("op", 0), F("op", "OK"), Done)
  BY OkField DEF Reads, Stage, Wanted, KindOf
<1>2. Stage("op", 0) \in Stages /\ Done \in Stages
  BY StageType
<1>3. Understands(c, << F("op", "OK") >>, Stage("op", 0), Done)
  BY <1>1, <1>2, UnderstandsOne
<1> QED
  BY <1>3, OkField

\* A size, and data if it is not 0.
LEMMA SizedType ==
  ASSUME NEW n \in Nat
  PROVE  Sized(n) \in Seq(Field) /\ Sized(n) # << >>
<1>1. Sized(n) = IF n > 0 THEN << F("size", n), F("data", n) >> ELSE << F("size", n) >>
  BY SizedForms
<1> QED
  BY <1>1, SizeFields

\* Data of size 0 is its size only, to the reader as well.
LEMMA SizedUnderstood ==
  ASSUME NEW c, NEW n \in Nat, NEW s \in Stages, NEW t \in Stages, NEW e \in Stages,
         n > 0 => Reads(c, s, F("size", n), t) /\ Reads(c, t, F("data", n), e),
         n = 0 => Reads(c, s, F("size", n), e)
  PROVE  Understands(c, Sized(n), s, e)
<1>1. Sized(n) = IF n > 0 THEN << F("size", n), F("data", n) >> ELSE << F("size", n) >>
  BY SizedForms
<1>2. F("size", n) \in Field /\ F("data", n) \in Field /\ << F("data", n) >> \in Seq(Field)
  BY SizeFields
<1>3. CASE n > 0
  <2>1. Understands(c, << F("data", n) >>, t, e)
    BY <1>3, UnderstandsOne
  <2>2. Understands(c, << F("size", n) >> \o << F("data", n) >>, s, e)
    BY <1>2, <1>3, <2>1, UnderstandsMore
  <2>3. << F("size", n) >> \o << F("data", n) >> = << F("size", n), F("data", n) >>
    BY OneOne, Zenon
  <2> QED
    BY <1>1, <1>3, <2>2, <2>3
<1>4. CASE n = 0
  <2>1. Understands(c, << F("size", n) >>, s, e)
    BY <1>4, UnderstandsOne
  <2> QED
    BY <1>1, <1>4, <2>1
<1> QED
  BY <1>3, <1>4

\* A file that is sent back: its name, and its content if it has any.
LEMMA FileUnderstood ==
  ASSUME NEW c, NEW n \in Nat, NEW k \in 1 .. MaxBack
  PROVE  /\ String \o Sized(n) \in Seq(Field) /\ String \o Sized(n) # << >>
         /\ Understands(c, String \o Sized(n), Stage("len", k), FilesToCome(k - 1))
<1>0. /\ k \in Nat /\ k - 1 \in 0 .. MaxBack /\ k \in 0 .. MaxBack /\ MaxBack \in Nat
  BY ClientAssumption
<1>1. /\ Stage("len", k) \in Stages /\ Stage("str", k) \in Stages
      /\ Stage("fileSize", k) \in Stages /\ Stage("fileData", k) \in Stages
      /\ FilesToCome(k - 1) \in Stages
  BY <1>0, StageType DEF Wanted
<1>2. /\ Reads(c, Stage("len", k), F("len", 1), Stage("str", k))
      /\ Reads(c, Stage("str", k), F("str", 0), Stage("fileSize", k))
  BY OkField DEF Reads, Stage, Wanted, KindOf
<1>3. /\ n > 0 => /\ Reads(c, Stage("fileSize", k), F("size", n), Stage("fileData", k))
                  /\ Reads(c, Stage("fileData", k), F("data", n), FilesToCome(k - 1))
      /\ n = 0 => Reads(c, Stage("fileSize", k), F("size", n), FilesToCome(k - 1))
  BY SizeFields DEF Reads, Stage, Wanted, KindOf
<1>4. Understands(c, Sized(n), Stage("fileSize", k), FilesToCome(k - 1))
  BY <1>1, <1>3, SizedUnderstood
<1>5. /\ << F("str", 0) >> \in Seq(Field) /\ << F("len", 1) >> \in Seq(Field)
      /\ Sized(n) \in Seq(Field) /\ Sized(n) # << >>
  BY OkField, SizedType
<1>6. Understands(c, << F("str", 0) >>, Stage("str", k), Stage("fileSize", k))
  BY <1>1, <1>2, UnderstandsOne
<1>7. Understands(c, << F("len", 1) >> \o << F("str", 0) >>, Stage("len", k), Stage("fileSize", k))
  BY <1>1, <1>2, <1>5, <1>6, OkField, UnderstandsMore
<1>8. String = << F("len", 1) >> \o << F("str", 0) >>
  BY OneOne, Zenon DEF String
<1>9. String \in Seq(Field) /\ Len(String) = 2
  BY OkField DEF String
<1>10. Understands(c, String, Stage("len", k), Stage("fileSize", k))
  BY <1>7, <1>8
<1>11. Understands(c, String \o Sized(n), Stage("len", k), FilesToCome(k - 1))
  BY <1>4, <1>5, <1>9, <1>10, UnderstandsBoth
<1>12. String \o Sized(n) \in Seq(Field) /\ Len(String \o Sized(n)) = 2 + Len(Sized(n))
  <2>1. Len(String \o Sized(n)) = Len(String) + Len(Sized(n)) /\ String \o Sized(n) \in Seq(Field)
    BY <1>5, <1>9, ConcatProperties
  <2> QED
    BY <1>9, <2>1
<1>13. Len(Sized(n)) \in Nat
  BY <1>5
<1> QED
  BY <1>11, <1>12, <1>13, EmptySeq

\* What the store may accept with, for the parameters g of call c: content for a
\* read, a number of files where the call expects one, and nothing else.
LEMMA AcceptanceUnderstood ==
  ASSUME NEW c \in CallType, NEW g, NEW a \in Acceptance(g),
         g[1] = c.op,
         c.op \in {"WRITE", "APPEND"} => g[4] = c.dir,
         c.dir => c.op \in {"WRITE", "APPEND", "READN"}
  PROVE  LET q == << F("op", "OK") >> \o a.fields IN
         /\ q \in Seq(Field) /\ q # << >> /\ q[1].val = "OK"
         /\ a.files \in 0 .. MaxBack
         /\ Understands(c, q, Stage("op", 0), FilesToCome(a.files))
<1> DEFINE ok == F("op", "OK")
           q == << ok >> \o a.fields
<1>0. /\ ok \in Field /\ ok.val = "OK" /\ ok.kind = "op"
      /\ Stage("op", 0) \in Stages
  BY OkField, StageType
<1>1. ASSUME a.fields \in Seq(Field)
      PROVE  q \in Seq(Field) /\ q # << >> /\ q[1].val = "OK"
  <2>1. q \in Seq(Field) /\ Len(q) = Len(a.fields) + 1 /\ q[1] = ok
    BY <1>0, <1>1, OnePlus
  <2>2. Len(a.fields) \in Nat
    BY <1>1
  <2> HIDE DEF q, ok
  <2> QED
    BY <1>0, <2>1, <2>2
<1>2. CASE g[1] = "READ"
  <2>1. PICK n \in Sizes : a = [fields |-> Sized(n), files |-> 0]
    BY <1>2 DEF Acceptance
  <2>2. n \in Nat /\ a.fields = Sized(n) /\ a.files = 0 /\ 0 \in 0 .. MaxBack
    BY <2>1, ClientAssumption
  <2>3. /\ Stage("size", 0) \in Stages /\ Stage("data", 0) \in Stages /\ Done \in Stages
    BY StageType
  <2>4. /\ n > 0 => /\ Reads(c, Stage("size", 0), F("size", n), Stage("data", 0))
                    /\ Reads(c, Stage("data", 0), F("data", n), Done)
        /\ n = 0 => Reads(c, Stage("size", 0), F("size", n), Done)
    BY <2>2, SizeFields DEF Reads, Stage, Wanted, KindOf
  <2>5. Understands(c, Sized(n), Stage("size", 0), Done)
    BY <2>2, <2>3, <2>4, SizedUnderstood
  <2>6. Reads(c, Stage("op", 0), ok, Stage("size", 0))
    BY <1>0, <1>2 DEF Reads, Stage, Wanted, KindOf
  <2>7. Sized(n) \in Seq(Field)
    BY <2>2, SizedType
  <2>8. Understands(c, << ok >> \o Sized(n), Stage("op", 0), Done)
    BY <1>0, <2>3, <2>5, <2>6, <2>7, UnderstandsMore
  <2>9. FilesToCome(a.files) = Done
    BY <2>2 DEF FilesToCome
  <2> QED
    BY <1>1, <2>2, <2>7, <2>8, <2>9
<1>3. CASE g[1] # "READ" /\ ~SendsBack(g)
  <2>1. a.fields = << >> /\ a.files = 0
    BY <1>3 DEF Acceptance
  <2>2. c.op \notin {"READ", "READN"} /\ ~c.dir
    BY <1>3 DEF SendsBack, CallType
  <2>3. Understands(c, << ok >>, Stage("op", 0), Done)
    BY <2>2, OkUnderstood
  <2>4. q = << ok >>
    BY <1>0, <2>1, OkField
  <2>5. FilesToCome(a.files) = Done /\ a.files \in 0 .. MaxBack
    BY <2>1, ClientAssumption DEF FilesToCome
  <2> QED
    BY <1>1, <2>1, <2>3, <2>4, <2>5
<1>4. CASE g[1] # "READ" /\ SendsBack(g)
  <2>1. PICK k \in 0 .. MaxBack : a = [fields |-> << F("size", k) >>, files |-> k]
    BY <1>4 DEF Acceptance
  <2>2. k \in Nat /\ a.fields = << F("size", k) >> /\ a.files = k
    BY <2>1, ClientAssumption
  <2>3. Stage("count", 0) \in Stages /\ FilesToCome(k) \in Stages
    BY StageType
  <2>4. Reads(c, Stage("count", 0), F("size", k), FilesToCome(k))
    BY <2>2, SizeFields DEF Reads, Stage, Wanted, KindOf
  <2>5. Understands(c, << F("size", k) >>, Stage("count", 0), FilesToCome(k))
    BY <2>3, <2>4, UnderstandsOne
  <2>6. c.op # "READ" /\ (c.op = "READN" \/ c.dir)
    BY <1>4 DEF SendsBack, CallType
  <2>7. Reads(c, Stage("op", 0), ok, Stage("count", 0))
    BY <1>0, <2>6 DEF Reads, Stage, Wanted, KindOf
  <2>8. << F("size", k) >> \in Seq(Field)
    BY <2>2, SizeFields
  <2>9. Understands(c, << ok >> \o << F("size", k) >>, Stage("op", 0), FilesToCome(k))
    BY <1>0, <2>3, <2>5, <2>7, <2>8, UnderstandsMore
  <2> QED
    BY <1>1, <2>1, <2>2, <2>8, <2>9
<1> QED
  BY <1>2, <1>3, <1>4

-------------------------------------------------------------------------------
(* A whole connection.                                                      *)

\* Whoever reads from a whole connection finds a field of the kind it reads.
LEMMA HeadsFit ==
  ASSUME WholeInv
  PROVE  /\ cpc = "read" /\ down # << >> => Head(down).kind = KindOf(want)
         /\ up # << >> /\ spc = "select" => Head(up).kind = "first"
         /\ up # << >> /\ spc = "op" => Head(up).kind = "op"
         /\ up # << >> /\ spc = "params" => Head(up).kind = Expects
<1>1. up \in Seq(Field) /\ down \in Seq(Field) /\ call \in CallType /\ got \in Seq(Payload)
  BY DEF WholeInv, Types
<1>2. ASSUME cpc = "read", down # << >>
      PROVE  Head(down).kind = KindOf(want)
  <2> DEFINE R == IF late # << >> THEN late ELSE swr
  <2>1. Answered
    BY <1>2 DEF WholeInv, Reading, Unanswered
  <2>2. R \in Seq(Field) /\ ToCome = down \o R
    BY DEF WholeInv, Types, ToCome
  <2> HIDE DEF R
  <2>3. ToCome \in Seq(Field) /\ ToCome # << >> /\ Head(ToCome) = Head(down)
    BY <1>1, <1>2, <2>2, JoinedTail
  <2>4. Understands(call, ToCome, Stage(want, left), FilesToCome(files))
    BY <2>1 DEF Answered
  <2>5. PICK t \in Stages : Reads(call, Stage(want, left), Head(ToCome), t)
    BY <2>3, <2>4, UnderstandsTail
  <2> QED
    BY <2>3, <2>5 DEF Reads, Stage
<1>3. ASSUME NEW k \in Nat, Ahead(k), up # << >>
      PROVE  Head(up) = Request(call)[k] /\ k <= Len(Request(call))
  <2>1. /\ Len(up) \in Nat /\ Len(up) >= 1 /\ Head(up) = up[1] /\ Len(wr) \in Nat
        /\ Len(Request(call)) \in Nat
    BY <1>1, <1>3, EmptySeq, RequestShape DEF WholeInv, Types
  <2>2. 1 \in 1 .. Len(up) /\ k - 1 + 1 = k
    BY <2>1
  <2>3. up[1] = Request(call)[k - 1 + 1]
    BY <1>3, <2>2 DEF Ahead
  <2>4. Len(up) + Len(wr) = Len(Request(call)) - k + 1
    BY <1>3 DEF Ahead
  <2>5. k <= Len(Request(call))
    <3> DEFINE a == Len(up)
               b == Len(wr)
               n == Len(Request(call))
    <3>1. a \in Nat /\ a >= 1 /\ b \in Nat /\ n \in Nat /\ a + b = n - k + 1
      BY <2>1, <2>4
    <3> HIDE DEF a, b, n
    <3>2. k <= n
      BY <3>1
    <3> QED
      BY <3>2 DEF n
  <2> QED
    BY <2>1, <2>2, <2>3, <2>5
<1>4. ASSUME up # << >>, spc = "select"
      PROVE  Head(up).kind = "first"
  <2>1. Ahead(1)
    BY <1>4 DEF WholeInv, Requested
  <2> QED
    BY <1>1, <1>3, <1>4, <2>1, RequestShape
<1>5. ASSUME up # << >>, spc = "op"
      PROVE  Head(up).kind = "op"
  <2>1. Ahead(2)
    BY <1>5 DEF WholeInv, Requested
  <2> QED
    BY <1>1, <1>3, <1>5, <2>1, RequestShape
<1>6. ASSUME up # << >>, spc = "params"
      PROVE  Head(up).kind = Expects
  <2>1. HasRead /\ Ahead(Len(got) + 2) /\ Len(got) \in Nat
    BY <1>1, <1>6 DEF WholeInv, Requested
  <2>2. Head(up) = Request(call)[Len(got) + 2] /\ Len(got) + 2 <= Len(Request(call))
    BY <1>3, <1>6, <2>1
  <2>3. Len(got) # Len(Request(call)) - 1
    <3>1. Len(Request(call)) \in Nat
      BY <1>1, RequestShape
    <3> QED
      BY <2>1, <2>2, <3>1
  <2> QED
    BY <1>1, <2>1, <2>2, <2>3, ExpectsNext
<1> QED
  BY <1>2, <1>4, <1>5, <1>6

\* What is read is then the field that was written.
LEMMA ReadSame ==
  ASSUME ~Torn, NEW q, NEW kind, Head(q).kind = kind, NEW r \in ReadFrom(q, kind)
  PROVE  r.done /\ r.val = Head(q).val /\ r.rest = Tail(q)
<1>1. r \in {[done |-> TRUE, val |-> Head(q).val, rest |-> Tail(q)]}
  BY DEF ReadFrom
<1> QED
  BY <1>1

-------------------------------------------------------------------------------
(* Types, also on a torn connection.                                       *)

\* A call of an operation has its type; only some take a directory.
LEMMA CallsType ==
  ASSUME NEW t \in Tasks, NEW op \in Ops, NEW c \in Calls(t, op)
  PROVE  /\ c \in CallType /\ c.op = op
         /\ c.dir => c.op \in {"WRITE", "APPEND", "READN"}
<1> DEFINE N == CASE op = "OPEN" -> {IF t = "send_file" THEN O_CREATE + O_LOCK
                                     ELSE IF t = "openLocked" THEN O_LOCK ELSE 0}
                  [] op \in {"WRITE", "APPEND"} -> Sizes
                  [] OTHER -> {0}
           D == IF op \in {"WRITE", "APPEND", "READN"} THEN BOOLEAN ELSE {FALSE}
<1>1. N \subseteq Nat
  <2>1. CASE op = "OPEN"
    BY <2>1 DEF O_CREATE, O_LOCK
  <2>2. CASE op \in {"WRITE", "APPEND"}
    BY <2>2, ClientAssumption
  <2>3. CASE op \notin {"OPEN", "WRITE", "APPEND"}
    BY <2>3
  <2> QED
    BY <2>1, <2>2, <2>3
<1>2. D \subseteq BOOLEAN /\ (TRUE \in D => op \in {"WRITE", "APPEND", "READN"})
  OBVIOUS
<1>3. c \in [op : {op}, n : N, dir : D]
  BY DEF Calls
<1> HIDE DEF N, D
<1>4. /\ c = [op |-> c.op, n |-> c.n, dir |-> c.dir]
      /\ c.op = op /\ c.n \in N /\ c.dir \in D
  BY <1>3
<1>5. c.n \in Nat /\ c.dir \in BOOLEAN
  BY <1>1, <1>2, <1>4
<1>6. c \in CallType
  BY <1>4, <1>5 DEF CallType
<1>7. c.dir => c.op \in {"WRITE", "APPEND", "READN"}
  BY <1>2, <1>4, <1>5
<1> QED
  BY <1>4, <1>6, <1>7

\* Whatever is taken for a field of its answer, a call goes on, returns or
\* fails; it never counts the files below 0.
LEMMA AfterFieldTypes ==
  ASSUME want \in Wanted, left \in Nat, want \in FileFields => left > 0,
         NEW v, want # "op" => v \in Nat, AfterField(v)
  PROVE  \/ cpc' = "dead" /\ UNCHANGED <<want, left, result, mine>>
         \/ \E r \in {"OK", "ERROR"} : Returns(r)
         \/ /\ want' \in Wanted /\ left' \in Nat
            /\ want' \in FileFields => left' > 0
            /\ UNCHANGED <<cpc, result, mine>>
<1> DEFINE Fails   == cpc' = "dead" /\ UNCHANGED <<want, left, result, mine>>
           Over    == \E r \in {"OK", "ERROR"} : Returns(r)
           Further == /\ want' \in Wanted /\ left' \in Nat
                      /\ want' \in FileFields => left' > 0
                      /\ UNCHANGED <<cpc, result, mine>>
<1>1. ASSUME NEW w \in Wanted, NEW n \in Nat, w \in FileFields => n > 0, Wants(w, n)
      PROVE  Further
  BY <1>1 DEF Wants
<1>2. CASE want = "op"
  BY <1>1, <1>2 DEF AfterField, Wanted, FileFields
<1>3. CASE want \in {"errno", "data"}
  BY <1>3 DEF AfterField
<1>4. CASE want = "size"
  BY <1>1, <1>4 DEF AfterField, Content, Wanted, FileFields
<1>5. CASE want = "count"
  BY <1>1, <1>5 DEF AfterField, FirstFile, Wanted, FileFields
<1>6. CASE want \in {"len", "str"}
  BY <1>1, <1>6 DEF AfterField, Wanted, FileFields
<1>7. ASSUME want \in FileFields, FileDone
      PROVE  Fails \/ Over \/ Further
  <2>1. CASE Fails
    BY <2>1
  <2>2. CASE Returns("OK")
    BY <2>2
  <2>3. CASE left # 1 /\ Wants("len", left - 1)
    <3>1. left - 1 \in Nat /\ left - 1 > 0
      BY <1>7, <2>3
    <3> QED
      BY <1>1, <2>3, <3>1 DEF Wanted
  <2> QED
    BY <1>7, <2>1, <2>2, <2>3 DEF FileDone
<1>8. CASE want = "fileSize"
  <2>1. FileDone \/ Wants("fileData", left)
    BY <1>8 DEF AfterField
  <2> QED
    BY <1>1, <1>7, <1>8, <2>1 DEF Wanted, FileFields
<1>9. CASE want = "fileData"
  <2>1. FileDone
    BY <1>9 DEF AfterField
  <2> QED
    BY <1>7, <1>9, <2>1 DEF FileFields
<1> QED
  BY <1>2, <1>3, <1>4, <1>5, <1>6, <1>8, <1>9 DEF Wanted

\* Whatever was asked, an answer is made of fields.
LEMMA AcceptanceType ==
  ASSUME NEW g, NEW a \in Acceptance(g)
  PROVE  /\ << F("op", "OK") >> \o a.fields \in Seq(Field)
         /\ << F("op", "OK") >> \o a.fields # << >>
         /\ a.files \in 0 .. MaxBack
<1> DEFINE o == << F("op", "OK") >>
<1>1. o \in Seq(Field) /\ o # << >>
  BY OkField
<1>2. a.fields \in Seq(Field) /\ a.files \in 0 .. MaxBack
  <2>1. CASE g[1] = "READ"
    <3>1. PICK n \in Sizes : a = [fields |-> Sized(n), files |-> 0]
      BY <2>1 DEF Acceptance
    <3>2. n \in Nat
      BY ClientAssumption
    <3> QED
      BY <3>1, <3>2, SizedType, ClientAssumption
  <2>2. CASE g[1] # "READ" /\ ~SendsBack(g)
    <3>1. a = [fields |-> << >>, files |-> 0]
      BY <2>2 DEF Acceptance
    <3> QED
      BY <3>1, ClientAssumption
  <2>3. CASE g[1] # "READ" /\ SendsBack(g)
    <3>1. PICK k \in 0 .. MaxBack : a = [fields |-> << F("size", k) >>, files |-> k]
      BY <2>3 DEF Acceptance
    <3>2. k \in Nat
      OBVIOUS
    <3>3. << F("size", k) >> \in Seq(Field)
      BY <3>2, SizeFields
    <3> QED
      BY <3>1, <3>3
  <2> QED
    BY <2>1, <2>2, <2>3
<1> HIDE DEF o
<1>3. o \o a.fields \in Seq(Field) /\ o \o a.fields # << >>
  BY <1>1, <1>2, ConcatProperties, ConcatEqualIffEmpty
<1> QED
  BY <1>2, <1>3 DEF o

\* What is read has the type of what the reader reads, whatever was written.
LEMMA ReadTypes ==
  ASSUME NEW q \in Seq(Field), q # << >>, NEW kind, NEW r \in ReadFrom(q, kind)
  PROVE  /\ r.val \in Payload /\ (r.done => r.val \in Values(kind))
         /\ r.rest \in Seq(Field) /\ Len(r.rest) <= Len(q)
<1> DEFINE same == Head(q).kind = kind /\ ~(Torn /\ kind \in {"str", "data"})
           cut  == IF Head(q).kind \in {"first", "rest"} THEN {} ELSE {<< F("rest", 0) >> \o Tail(q)}
           some == IF kind = "first" THEN {} ELSE {FALSE}
           left_over == {Tail(q)} \cup cut
<1>1. /\ Head(q) \in Field /\ Tail(q) \in Seq(Field)
      /\ Len(Tail(q)) = Len(q) - 1 /\ Len(q) \in Nat
  OBVIOUS
<1>2. /\ Head(q).kind \in Kinds /\ Head(q).val \in Values(Head(q).kind)
      /\ Head(q).val \in Payload
  BY <1>1, FieldProperties DEF Payload
<1>3. Mistaken(kind) \subseteq Values(kind) /\ Mistaken(kind) \subseteq Payload
  <2>1. 0 .. O_CREATE + O_LOCK \subseteq Nat /\ Sizes \subseteq Nat /\ {0} \subseteq Nat
    BY ClientAssumption
  <2>2. Nat \subseteq Payload /\ Values("op") \subseteq Payload /\ BOOLEAN \subseteq Payload
    BY DEF Payload, Values, Kinds
  <2>3. CASE kind = "op"
    BY <2>2, <2>3 DEF Mistaken, Values
  <2>4. CASE kind = "bool"
    BY <2>2, <2>4 DEF Mistaken, Values
  <2>5. CASE kind \notin {"op", "bool"}
    <3>1. Mistaken(kind) \subseteq Nat
      BY <2>1, <2>5 DEF Mistaken
    <3> QED
      BY <2>2, <2>5, <3>1 DEF Values
  <2> QED
    BY <2>3, <2>4, <2>5
<1>4. \A s \in left_over : s \in Seq(Field) /\ Len(s) <= Len(q)
  <2>1. F("rest", 0) \in Field
    BY FieldType DEF Kinds, Values
  <2>2. /\ << F("rest", 0) >> \o Tail(q) \in Seq(Field)
        /\ Len(<< F("rest", 0) >> \o Tail(q)) = Len(Tail(q)) + 1
    BY <1>1, <2>1, OnePlus
  <2> QED
    BY <1>1, <2>2
<1>5. CASE same
  <2>1. r \in {[done |-> TRUE, val |-> Head(q).val, rest |-> Tail(q)]}
    BY <1>5 DEF ReadFrom
  <2> QED
    BY <1>1, <1>2, <1>5, <2>1
<1>6. CASE ~same
  <2>1. r \in [done : {TRUE}, val : Mistaken(kind), rest : left_over]
                \cup [done : some, val : {0}, rest : {Tail(q)}]
    BY <1>6 DEF ReadFrom
  <2>2. 0 \in Payload
    BY DEF Payload, Values, Kinds
  <2>3. some \subseteq {FALSE}
    OBVIOUS
  <2>4. Tail(q) \in left_over
    OBVIOUS
  <2> HIDE DEF left_over, some, same
  <2>5. CASE r \in [done : {TRUE}, val : Mistaken(kind), rest : left_over]
    <3>1. r.val \in Mistaken(kind) /\ r.rest \in left_over
      BY <2>5
    <3> QED
      BY <1>3, <1>4, <3>1
  <2>6. CASE r \in [done : some, val : {0}, rest : {Tail(q)}]
    <3>1. r.done = FALSE /\ r.val = 0 /\ r.rest = Tail(q)
      BY <2>3, <2>6
    <3> QED
      BY <1>4, <2>2, <2>4, <3>1
  <2> QED
    BY <2>1, <2>5, <2>6
<1> QED
  BY <1>5, <1>6

\* The steps of the client that say nothing on the connection.
LEMMA SilentTypes ==
  ASSUME Types, Connect \/ closeConnection \/ Die
  PROVE  Types'
<1>1. /\ cpc' \in ClientStates /\ cpc' # "write" /\ remaining' \in Int
      /\ UNCHANGED <<up, down, task, call, wr, want, left, result, mine, torn>>
      /\ UNCHANGED <<spc, got, swr, files, owed, late, verdict>>
  BY ClientAssumption DEF Connect, closeConnection, Die, Types, ClientStates, serverVars
<1> QED
  BY <1>1 DEF Types

\* A call begins.
LEMMA BeginsTypes ==
  ASSUME Types, NEW t \in Tasks, NEW op \in Ops, NEW c \in Calls(t, op), Begins(c),
         task' = t, torn' \in 0 .. MaxTorn + 1
  PROVE  Types'
<1>1. /\ call' = c /\ wr' = Request(c) /\ cpc' = "write" /\ want' = "op" /\ left' = 0
      /\ UNCHANGED <<up, down, remaining, result, mine>>
      /\ UNCHANGED <<spc, got, swr, files, owed, late, verdict>>
  BY DEF Begins, serverVars
<1>2. /\ c \in CallType
      /\ c.dir => c.op \in {"WRITE", "APPEND", "READN"}
  BY CallsType
<1>3. Request(c) \in Seq(Field) /\ Request(c) # << >>
  BY <1>2, RequestShape
<1> QED
  BY <1>1, <1>2, <1>3 DEF Types, ClientStates, Wanted, FileFields

\* An operation begins with a call of it.
LEMMA BeginTaskTypes ==
  ASSUME Types, BeginTask
  PROVE  Types'
<1>1. PICK t \in Tasks : task' = t /\ \E c \in Calls(t, FirstOp[t]) : Begins(c)
  BY DEF BeginTask
<1>2. PICK c \in Calls(t, FirstOp[t]) : Begins(c)
  BY <1>1
<1>3. FirstOp[t] \in Ops
  BY DEF FirstOp, Tasks, Ops
<1>4. torn' \in 0 .. MaxTorn + 1
  BY ClientAssumption DEF BeginTask, Types, Torn
<1> QED
  BY <1>1, <1>2, <1>3, <1>4, BeginsTypes

\* It goes on with one, or is over.
LEMMA ProceedTypes ==
  ASSUME Types, Proceed
  PROVE  Types'
<1> DEFINE next == Follows(task, call.op, result)
<1>1. CASE \E op \in next : \E c \in Calls(task, op) : Begins(c) /\ UNCHANGED <<task, torn>>
  <2>1. PICK op \in next : \E c \in Calls(task, op) : Begins(c) /\ UNCHANGED <<task, torn>>
    BY <1>1
  <2>2. task \in Tasks /\ op \in Ops
    BY <2>1 DEF Follows, AfterLock, Tasks, Ops
  <2>3. torn' \in 0 .. MaxTorn + 1
    BY <2>1 DEF Types
  <2> QED
    BY <2>1, <2>2, <2>3, BeginsTypes
<1>2. CASE /\ cpc' = "idle" /\ task' = "none"
           /\ UNCHANGED <<up, down, remaining, call, wr, want, left, result, mine, torn, serverVars>>
  BY <1>2 DEF Types, ClientStates, serverVars
<1> QED
  BY <1>1, <1>2 DEF Proceed

\* A field is written, or the client dies of writing it.
LEMMA ClientWritesTypes ==
  ASSUME Types, ClientWrites
  PROVE  Types'
<1>1. /\ UNCHANGED <<down, remaining, task, call, want, left, result, mine, torn>>
      /\ UNCHANGED <<spc, got, swr, files, owed, late, verdict>>
      /\ cpc' \in {"dead", "write", "read"}
      /\ cpc' = "write" => wr' # << >>
      /\ wr # << >>
  BY DEF ClientWrites, serverVars, Types
<1>2. up' \in Seq(Field) /\ wr' \in Seq(Field) /\ Len(up') <= Room
  <2>1. CASE UNCHANGED <<up, wr>>
    BY <2>1 DEF Types
  <2>2. CASE Len(up) < Room /\ up' = Append(up, Head(wr)) /\ wr' = Tail(wr)
    <3>1. /\ Len(up) \in Nat /\ Room \in Nat /\ up \in Seq(Field)
          /\ Head(wr) \in Field /\ Tail(wr) \in Seq(Field)
      BY <1>1, ClientAssumption DEF Types
    <3>2. up' \in Seq(Field) /\ Len(up') = Len(up) + 1
      BY <2>2, <3>1, AppendProperties
    <3> QED
      BY <2>2, <3>1, <3>2
  <2> QED
    BY <2>1, <2>2 DEF ClientWrites
<1> QED
  BY <1>1, <1>2 DEF Types, ClientStates

\* writeFile returns half way.
LEMMA WriteUnreadableTypes ==
  ASSUME Types, WriteUnreadable
  PROVE  Types'
<1>1. /\ wr' = << >> /\ wr' \in Seq(Field) /\ cpc' = "returned" /\ result' = "ERROR"
      /\ UNCHANGED <<up, down, remaining, task, call, want, left>>
      /\ UNCHANGED <<spc, got, swr, files, owed, late, verdict>>
      /\ torn' = IF Torn THEN torn ELSE 1
      /\ mine' = Owned("ERROR")
  BY DEF WriteUnreadable, Returns, serverVars
<1>2. mine' \in {"closed", "open", "locked"}
  BY <1>1 DEF Owned, Types
<1>3. torn' \in 0 .. MaxTorn + 1
  BY <1>1, ClientAssumption DEF Types
<1> QED
  BY <1>1, <1>2, <1>3 DEF Types, ClientStates

\* What a call makes of a field leaves the client well typed.
LEMMA AfterFieldKept ==
  ASSUME Types, NEW v, want # "op" => v \in Nat, AfterField(v), cpc = "read"
  PROVE  /\ cpc' \in ClientStates /\ cpc' # "write" /\ want' \in Wanted /\ left' \in Nat
         /\ want' \in FileFields => left' > 0
         /\ result' \in {"none", "OK", "ERROR"} /\ mine' \in {"closed", "open", "locked"}
<1>1. want \in Wanted /\ left \in Nat /\ (want \in FileFields => left > 0)
  BY DEF Types
<1>2. \/ cpc' = "dead" /\ UNCHANGED <<want, left, result, mine>>
      \/ \E r \in {"OK", "ERROR"} : Returns(r)
      \/ /\ want' \in Wanted /\ left' \in Nat
         /\ want' \in FileFields => left' > 0
         /\ UNCHANGED <<cpc, result, mine>>
  BY <1>1, AfterFieldTypes
<1>3. CASE \E r \in {"OK", "ERROR"} : Returns(r)
  <2>1. PICK r \in {"OK", "ERROR"} : Returns(r)
    BY <1>3
  <2>2. mine' \in {"closed", "open", "locked"}
    BY <2>1 DEF Returns, Owned, Types
  <2> QED
    BY <1>1, <2>1, <2>2 DEF Returns, ClientStates
<1> QED
  BY <1>2, <1>3 DEF Types, ClientStates

\* A call reads a field, or takes something for one.
LEMMA ClientReadsTypes ==
  ASSUME Types, ClientReads
  PROVE  Types'
<1>1. PICK r \in ReadFrom(down, KindOf(want)) :
        /\ down' = r.rest
        /\ IF r.done THEN AfterField(r.val) ELSE UNCHANGED <<cpc, want, left, result, mine>>
  BY DEF ClientReads
<1>2. /\ cpc = "read" /\ down # << >>
      /\ UNCHANGED <<up, remaining, task, call, wr, torn>>
      /\ UNCHANGED <<spc, got, swr, files, owed, late, verdict>>
  BY DEF ClientReads, serverVars
<1>3. down \in Seq(Field) /\ Len(down) <= Room /\ Len(down) \in Nat /\ want \in Wanted
  BY DEF Types
<1>4. /\ r.done => r.val \in Values(KindOf(want))
      /\ down' \in Seq(Field) /\ Len(down') <= Len(down)
  BY <1>1, <1>2, <1>3, ReadTypes
<1>5. Len(down') <= Room
  BY <1>3, <1>4, ClientAssumption
<1>6. /\ cpc' \in ClientStates /\ cpc' # "write" /\ want' \in Wanted /\ left' \in Nat
      /\ want' \in FileFields => left' > 0
      /\ result' \in {"none", "OK", "ERROR"} /\ mine' \in {"closed", "open", "locked"}
  <2>1. CASE r.done
    <3>1. want # "op" => r.val \in Nat
      BY <1>3, <1>4, <2>1 DEF KindOf, Values, Wanted
    <3> QED
      BY <1>1, <1>2, <2>1, <3>1, AfterFieldKept
  <2>2. CASE ~r.done
    BY <1>1, <1>2, <2>2 DEF Types
  <2> QED
    BY <2>1, <2>2
<1> QED
  BY <1>2, <1>4, <1>5, <1>6 DEF Types

\* It goes on with what its variables hold.
LEMMA ClientReadsEndTypes ==
  ASSUME Types, ClientReadsEnd
  PROVE  Types'
<1>1. /\ cpc = "read" /\ UNCHANGED <<up, down, remaining, task, call, wr, torn>>
      /\ UNCHANGED <<spc, got, swr, files, owed, late, verdict>>
  BY DEF ClientReadsEnd, serverVars
<1>2. /\ cpc' \in ClientStates /\ cpc' # "write" /\ want' \in Wanted /\ left' \in Nat
      /\ want' \in FileFields => left' > 0
      /\ result' \in {"none", "OK", "ERROR"} /\ mine' \in {"closed", "open", "locked"}
  <2>1. CASE Returns("ERROR")
    BY <2>1 DEF Returns, Owned, Types, ClientStates
  <2>2. CASE \E v \in Garbage : AfterField(v)
    <3>1. PICK v \in Garbage : AfterField(v)
      BY <2>2
    <3>2. want # "op" => v \in Nat
      BY <3>1, ClientAssumption DEF Garbage
    <3> QED
      BY <1>1, <3>1, <3>2, AfterFieldKept
  <2> QED
    BY <2>1, <2>2 DEF ClientReadsEnd
<1> QED
  BY <1>1, <1>2 DEF Types

\* What the server takes off the connection, whatever it takes it for.
LEMMA TakesTypes ==
  ASSUME Types, up # << >>, NEW kind, NEW r \in ReadFrom(up, kind), Takes(r)
  PROVE  /\ up' \in Seq(Field) /\ Len(up') <= Room /\ r.val \in Payload
         /\ UNCHANGED <<down, cpc, remaining, task, call, wr, want, left, result, mine, torn>>
<1>1. up \in Seq(Field) /\ Len(up) <= Room /\ Len(up) \in Nat
  BY DEF Types
<1>2. up' = r.rest /\ UNCHANGED <<down, clientVars>>
  BY DEF Takes
<1>3. r.val \in Payload /\ up' \in Seq(Field) /\ Len(up') <= Len(up)
  BY <1>1, <1>2, ReadTypes
<1> QED
  BY <1>1, <1>2, <1>3, ClientAssumption DEF clientVars

\* The first byte of a request, or what is taken for it.
LEMMA HandlerByteTypes ==
  ASSUME Types, HandlerByte
  PROVE  Types'
<1>1. UNCHANGED <<got, swr, files, late, verdict>>
  BY DEF HandlerByte
<1>2. CASE up # << >> /\ (\E r \in ReadFrom(up, "first") : Takes(r)) /\ spc' = "op" /\ UNCHANGED owed
  <2>1. /\ up' \in Seq(Field) /\ Len(up') <= Room
        /\ UNCHANGED <<down, cpc, remaining, task, call, wr, want, left, result, mine, torn>>
    BY <1>2, TakesTypes
  <2> QED
    BY <1>1, <1>2, <2>1 DEF Types, ServerStates
<1>3. CASE EndOfFile /\ Leaves
  BY <1>1, <1>3 DEF Leaves, clientVars, Types, ServerStates
<1> QED
  BY <1>2, <1>3 DEF HandlerByte

\* An operation, or what is taken for it.
LEMMA WorkerOpTypes ==
  ASSUME Types, WorkerOp
  PROVE  Types'
<1>1. UNCHANGED <<swr, files, late, verdict>>
  BY DEF WorkerOp
<1>2. CASE /\ up # << >>
           /\ \E r \in ReadFrom(up, "op") :
                Takes(r) /\ IF r.done THEN Dispatch(r.val) ELSE UNCHANGED <<spc, got, owed>>
  <2>1. PICK r \in ReadFrom(up, "op") :
          Takes(r) /\ IF r.done THEN Dispatch(r.val) ELSE UNCHANGED <<spc, got, owed>>
    BY <1>2
  <2>2. /\ up' \in Seq(Field) /\ Len(up') <= Room /\ r.val \in Payload
        /\ UNCHANGED <<down, cpc, remaining, task, call, wr, want, left, result, mine, torn>>
    BY <1>2, <2>1, TakesTypes
  <2>3. /\ spc' \in {"op", "params", "select", "ended"} /\ owed' \in BOOLEAN
        /\ got' = got \/ got' = << r.val >>
    BY <2>1 DEF Dispatch, Types, WorkerOp
  <2>4. got' \in Seq(Payload)
    <3>1. << r.val >> \in Seq(Payload)
      BY <2>2
    <3> QED
      BY <2>3, <3>1 DEF Types
  <2> QED
    BY <1>1, <2>2, <2>3, <2>4 DEF Types, ServerStates
<1>3. CASE EndOfFile /\ Leaves /\ UNCHANGED got
  BY <1>1, <1>3 DEF Leaves, clientVars, Types, ServerStates
<1> QED
  BY <1>2, <1>3 DEF WorkerOp

\* A parameter, or what is taken for it.
LEMMA WorkerParamTypes ==
  ASSUME Types, WorkerParam
  PROVE  Types'
<1>1. UNCHANGED <<files, owed, late, verdict>> /\ got \in Seq(Payload)
  BY DEF WorkerParam, Types
<1>2. CASE /\ up # << >>
           /\ \E r \in ReadFrom(up, Expects) :
                Takes(r) /\ got' = IF r.done THEN Append(got, r.val) ELSE got
           /\ UNCHANGED <<spc, swr>>
  <2>1. PICK r \in ReadFrom(up, Expects) :
          Takes(r) /\ got' = IF r.done THEN Append(got, r.val) ELSE got
    BY <1>2
  <2>2. /\ up' \in Seq(Field) /\ Len(up') <= Room /\ r.val \in Payload
        /\ UNCHANGED <<down, cpc, remaining, task, call, wr, want, left, result, mine, torn>>
    BY <1>2, <2>1, TakesTypes
  <2>3. got' \in Seq(Payload)
    BY <1>1, <2>1, <2>2, AppendProperties
  <2> QED
    BY <1>1, <1>2, <2>2, <2>3 DEF Types
<1>3. CASE /\ EndOfFile /\ Expects = "str"
           /\ got' = Append(got, 0)
           /\ UNCHANGED <<up, down, spc, swr, clientVars>>
  <2>1. 0 \in Payload
    BY DEF Payload, Values, Kinds
  <2>2. got' \in Seq(Payload)
    BY <1>1, <1>3, <2>1, AppendProperties
  <2> QED
    BY <1>1, <1>3, <2>2 DEF Types, clientVars
<1>4. CASE /\ EndOfFile /\ Expects # "str"
           /\ spc' = "answer" /\ swr' = Refusal
           /\ UNCHANGED <<up, down, got, clientVars>>
  <2>1. swr' \in Seq(Field) /\ swr' # << >>
    BY <1>4, RefusalUnderstood DEF Refusal
  <2> QED
    BY <1>1, <1>4, <2>1 DEF Types, clientVars, ServerStates
<1> QED
  BY <1>2, <1>3, <1>4 DEF WorkerParam

\* The store decides, whatever it was asked.
LEMMA WorkerStoreTypes ==
  ASSUME Types, WorkerStore
  PROVE  Types'
<1>1. /\ UNCHANGED <<up, down, cpc, remaining, task, call, wr, want, left, result, mine, torn>>
      /\ UNCHANGED <<got, late>>
  BY DEF WorkerStore, clientVars
<1>2. CASE \E a \in Acceptance(got) :
             swr' = << F("op", "OK") >> \o a.fields /\ files' = a.files
               /\ spc' = "answer" /\ verdict' = "OK" /\ UNCHANGED owed
  <2>1. swr' \in Seq(Field) /\ swr' # << >> /\ files' \in 0 .. MaxBack
    BY <1>2, AcceptanceType
  <2> QED
    BY <1>1, <1>2, <2>1 DEF Types, ServerStates
<1>3. CASE /\ swr' = Refusal /\ spc' = "answer" /\ verdict' = "ERROR"
           /\ UNCHANGED <<files, owed>>
  <2>1. swr' \in Seq(Field) /\ swr' # << >>
    BY <1>3, RefusalUnderstood DEF Refusal
  <2> QED
    BY <1>1, <1>3, <2>1 DEF Types, ServerStates
<1>4. CASE /\ owed' = TRUE /\ spc' = "select" /\ verdict' = "none"
           /\ UNCHANGED <<swr, files>>
  BY <1>1, <1>4 DEF Types, ServerStates
<1> QED
  BY <1>2, <1>3, <1>4 DEF WorkerStore

\* One field is written, to a client that is there.
LEMMA Sent ==
  ASSUME Types, NEW f \in Field, Sends(f)
  PROVE  /\ UNCHANGED <<up, cpc, remaining, task, call, wr, want, left, result, mine, torn>>
         /\ down' \in Seq(Field) /\ Len(down') <= Room
         /\ ~Gone /\ spc # "ended" => down' = Append(down, f)
<1>1. down \in Seq(Field) /\ Len(down) <= Room /\ Len(down) \in Nat /\ Room \in Nat
  BY ClientAssumption DEF Types
<1>2. CASE (Gone \/ spc = "ended") /\ UNCHANGED down
  BY <1>1, <1>2 DEF Sends, clientVars
<1>3. CASE ~Gone /\ spc # "ended" /\ Len(down) < Room /\ down' = Append(down, f)
  <2>1. down' \in Seq(Field) /\ Len(down') = Len(down) + 1
    BY <1>1, <1>3, AppendProperties
  <2>2. Len(down') <= Room
    BY <1>1, <1>3, <2>1
  <2> QED
    BY <1>3, <2>1, <2>2 DEF Sends, clientVars
<1> QED
  BY <1>2, <1>3 DEF Sends

\* An answer is written, field by field.
LEMMA WorkerAnswersTypes ==
  ASSUME Types, WorkerAnswers
  PROVE  Types'
<1>1. /\ swr \in Seq(Field) /\ Head(swr) \in Field /\ Tail(swr) \in Seq(Field)
      /\ files \in 0 .. MaxBack
  BY DEF Types, WorkerAnswers
<1>2. /\ UNCHANGED <<up, cpc, remaining, task, call, wr, want, left, result, mine, torn>>
      /\ down' \in Seq(Field) /\ Len(down') <= Room
  BY <1>1, Sent DEF WorkerAnswers
<1>3. /\ spc' \in {"select", "answer"}
      /\ spc' = "answer" => swr' # << >>
      /\ UNCHANGED <<got, owed, late, verdict>>
  BY DEF WorkerAnswers
<1>4. CASE swr' = Tail(swr) /\ UNCHANGED files
  BY <1>1, <1>2, <1>3, <1>4 DEF Types, ServerStates
<1>5. CASE files > 0 /\ files' = files - 1 /\ \E n \in Sizes : swr' = String \o Sized(n)
  <2>1. PICK n \in Sizes : swr' = String \o Sized(n)
    BY <1>5
  <2>2. String \in Seq(Field) /\ Sized(n) \in Seq(Field)
    <3>1. F("len", 1) \in Field /\ F("str", 0) \in Field
      BY FieldType DEF Kinds, Values
    <3>2. n \in Nat
      BY ClientAssumption
    <3> QED
      BY <3>1, <3>2, SizedType DEF String
  <2>3. swr' \in Seq(Field)
    BY <2>1, <2>2, ConcatProperties
  <2>4. files' \in 0 .. MaxBack
    BY <1>1, <1>5, ClientAssumption
  <2> QED
    BY <1>2, <1>3, <2>3, <2>4 DEF Types, ServerStates
<1> QED
  BY <1>4, <1>5 DEF WorkerAnswers, GoesOn

\* An answer that was put off is added.
LEMMA DecideLateTypes ==
  ASSUME Types, DecideLate
  PROVE  Types'
<1>1. /\ UNCHANGED <<up, down, cpc, remaining, task, call, wr, want, left, result, mine, torn>>
      /\ UNCHANGED <<spc, got, swr, files>>
      /\ owed' = FALSE /\ verdict' \in {"OK", "ERROR"}
  BY DEF DecideLate, clientVars
<1>2. late' = Append(late, F("op", "OK")) \/ late' = late \o Refusal
  BY DEF DecideLate
<1>3. late' \in Seq(Field)
  <2>1. late \in Seq(Field) /\ Refusal \in Seq(Field)
    BY RefusalUnderstood DEF Types
  <2>2. F("op", "OK") \in Field
    BY FieldType DEF Kinds, Values
  <2>3. CASE late' = Append(late, F("op", "OK"))
    BY <2>1, <2>2, <2>3, AppendProperties
  <2>4. CASE late' = late \o Refusal
    BY <2>1, <2>4, ConcatProperties
  <2> QED
    BY <1>2, <2>3, <2>4
<1> QED
  BY <1>1, <1>3 DEF Types

\* It is written by another worker.
LEMMA LateAnswerTypes ==
  ASSUME Types, LateAnswer
  PROVE  Types'
<1>1. /\ late # << >> /\ late' = Tail(late)
      /\ UNCHANGED <<spc, got, swr, files, owed, verdict>>
  BY DEF LateAnswer
<1>2. late \in Seq(Field) /\ Head(late) \in Field /\ Tail(late) \in Seq(Field)
  BY <1>1 DEF Types
<1>3. /\ UNCHANGED <<up, cpc, remaining, task, call, wr, want, left, result, mine, torn>>
      /\ down' \in Seq(Field) /\ Len(down') <= Room
  BY <1>2, Sent DEF LateAnswer
<1> QED
  BY <1>1, <1>2, <1>3 DEF Types

\* The server ends.
LEMMA ServerEndsTypes ==
  ASSUME Types, ServerEnds
  PROVE  Types'
  BY DEF ServerEnds, clientVars, Types, ServerStates

-------------------------------------------------------------------------------
(* The client.                                                             *)

\* Nothing has happened yet on the connection.
LEMMA ConnectKeeps ==
  ASSUME WholeInv, Types', Connect
  PROVE  WholeInv'
<1>1. /\ cpc = "connecting" /\ cpc' \in {"idle", "connecting", "refused"}
      /\ remaining' \in Int
      /\ UNCHANGED <<up, down, task, call, wr, want, left, result, mine, torn>>
      /\ UNCHANGED <<spc, got, swr, files, owed, late, verdict>>
  BY ClientAssumption DEF Connect, WholeInv, Types, serverVars
<1>2. Bounded'
  BY <1>1 DEF WholeInv, Bounded
<1>3. Requested'
  BY <1>1 DEF WholeInv, Requested, Ahead, HasRead, Gone
<1>4. Answering'
  BY <1>1 DEF WholeInv, Answering, Gone
<1>5. Quiet' /\ Reading' /\ Verdicts' /\ WillClose'
  BY <1>1 DEF WholeInv, Quiet, Reading, Verdicts, WillClose, Unfinished
<1> QED
  BY <1>2, <1>3, <1>4, <1>5 DEF WholeInv

\* A connection is closed only between two operations.
LEMMA closeConnectionKeeps ==
  ASSUME WholeInv, Types', closeConnection
  PROVE  WholeInv'
<1>1. /\ cpc = "idle" /\ cpc' = "closed"
      /\ UNCHANGED <<up, down, remaining, task, call, wr, want, left, result, mine, torn>>
      /\ UNCHANGED <<spc, got, swr, files, owed, late, verdict>>
  BY DEF closeConnection, serverVars
<1>2. Bounded'
  BY <1>1 DEF WholeInv, Bounded
<1>3. Requested'
  BY <1>1 DEF WholeInv, Requested, Ahead, HasRead, Gone
<1>4. Answering'
  BY <1>1 DEF WholeInv, Answering, Gone
<1>5. Quiet' /\ Reading' /\ Verdicts' /\ WillClose'
  BY <1>1 DEF WholeInv, Quiet, Reading, Verdicts, WillClose, Unfinished
<1> QED
  BY <1>2, <1>3, <1>4, <1>5 DEF WholeInv

\* Of a client that is gone nothing more is said than what it sent.
LEMMA DieKeeps ==
  ASSUME WholeInv, Types', Die
  PROVE  WholeInv'
<1>1. /\ cpc \in {"idle", "write", "read", "returned"} /\ cpc' = "dead"
      /\ UNCHANGED <<up, down, remaining, task, call, wr, want, left, result, mine, torn>>
      /\ UNCHANGED <<spc, got, swr, files, owed, late, verdict>>
  BY DEF Die, serverVars
<1>2. Bounded'
  BY <1>1 DEF WholeInv, Bounded
<1>3. Requested'
  BY <1>1 DEF WholeInv, Requested, Ahead, HasRead, Gone
<1>4. Answering'
  BY <1>1 DEF WholeInv, Answering, Gone
<1>5. Quiet' /\ Reading' /\ Verdicts' /\ WillClose'
  BY <1>1 DEF WholeInv, Quiet, Reading, Verdicts, WillClose, Unfinished
<1> QED
  BY <1>2, <1>3, <1>4, <1>5 DEF WholeInv

\* A call begins: nothing is on its way, all of its request is still to come.
LEMMA BeginsKeeps ==
  ASSUME WholeInv, Types', NEW t \in Tasks, NEW op \in Ops, NEW c \in Calls(t, op), Begins(c),
         cpc \in {"idle", "returned"}, task' = t,
         \A r \in {"OK", "ERROR"} : Unfinished(Owned(r))' => Follows(t, op, r) # {}
  PROVE  WholeInv'
<1>1. /\ call' = c /\ wr' = Request(c) /\ cpc' = "write" /\ want' = "op" /\ left' = 0
      /\ UNCHANGED <<up, down, remaining, result, mine>>
      /\ UNCHANGED <<spc, got, swr, files, owed, late, verdict>>
  BY DEF Begins, serverVars
<1>2. /\ c \in CallType /\ c.op = op
      /\ c.dir => c.op \in {"WRITE", "APPEND", "READN"}
  BY CallsType
<1>3. wr' \in Seq(Field) /\ Len(wr') \in 3 .. 7 /\ wr' # << >>
  <2> DEFINE r == Request(c)
  <2>1. r \in Seq(Field) /\ Len(r) \in 3 .. 7
    BY <1>2, RequestShape
  <2>2. wr' = r
    BY <1>1
  <2> HIDE DEF r
  <2>3. r # << >>
    <3>1. SUFFICES ASSUME r = << >> PROVE FALSE
      OBVIOUS
    <3>2. Len(r) = 0
      BY <3>1
    <3> QED
      BY <2>1, <3>2
  <2> QED
    BY <2>1, <2>2, <2>3
<1>4. down = << >> /\ wr = << >> /\ spc \in {"select", "ended"} /\ (spc = "select" => up = << >>)
  BY DEF WholeInv, Quiet
<1>5. Bounded'
  BY <1>1, <1>2, <1>3, ClientAssumption DEF WholeInv, Bounded
<1>6. Requested'
  <2>1. CASE spc = "select"
    <3>1. Len(up') = 0 /\ Len(Request(c)) \in Nat
      BY <1>1, <1>3, <1>4, <2>1
    <3>2. Ahead(1)'
      BY <1>1, <1>4, <2>1, <3>1 DEF Ahead
    <3> QED
      BY <1>1, <2>1, <3>2 DEF Requested
  <2>2. CASE spc = "ended"
    BY <1>1, <2>2 DEF Requested
  <2> QED
    BY <1>4, <2>1, <2>2
<1>7. ~owed /\ late = << >>
  BY DEF WholeInv, Answering, Gone
<1>8. Answering'
  BY <1>1, <1>7 DEF WholeInv, Answering
<1>9. Quiet' /\ Reading' /\ Verdicts'
  BY <1>1, <1>3, <1>4 DEF Quiet, Reading, Verdicts
<1>10. WillClose'
  BY <1>1, <1>2 DEF WillClose, Unfinished
<1> QED
  BY <1>5, <1>6, <1>8, <1>9, <1>10 DEF WholeInv

\* The flags of the calls of openFile that an operation makes.
LEMMA OpenFlags ==
  ASSUME NEW t \in Tasks, NEW c \in Calls(t, "OPEN"), t \in {"send_file", "openLocked"}
  PROVE  c.n >= O_LOCK
<1> DEFINE D == IF "OPEN" \in {"WRITE", "APPEND", "READN"} THEN BOOLEAN ELSE {FALSE}
           N == {IF t = "send_file" THEN O_CREATE + O_LOCK
                 ELSE IF t = "openLocked" THEN O_LOCK ELSE 0}
<1>1. c \in [op : {"OPEN"}, n : N, dir : D]
  BY DEF Calls
<1>2. \A n \in N : n >= O_LOCK
  BY DEF O_LOCK, O_CREATE
<1> HIDE DEF D, N
<1>3. c.n \in N
  BY <1>1
<1> QED
  BY <1>2, <1>3

\* The first call of an operation leaves a file open, and not locked, only if
\* another call follows.
LEMMA BeginTaskKeeps ==
  ASSUME WholeInv, Types', BeginTask
  PROVE  WholeInv'
<1>1. PICK t \in Tasks : task' = t /\ \E c \in Calls(t, FirstOp[t]) : Begins(c)
  BY DEF BeginTask
<1> DEFINE op == FirstOp[t]
<1>2. PICK c \in Calls(t, op) : Begins(c)
  BY <1>1
<1>3. /\ t \in {"lock_file", "send_file", "read_file", "openLocked"} => op = "OPEN"
      /\ t = "unlock_file" => op = "UNLOCK"
      /\ t = "remove_file" => op = "REMOVE"
      /\ t = "read_n_files" => op = "READN"
      /\ t = "appendToFile" => op = "APPEND"
      /\ op \in Ops \ {"WRITE", "READ"}
  BY DEF FirstOp, Tasks, Ops
<1> HIDE DEF op
<1>4. cpc = "idle" /\ mine # "open" /\ mine' = mine /\ call' = c
  BY <1>2 DEF BeginTask, WholeInv, WillClose, Unfinished, Begins
<1>5. c.op = op
  BY <1>2, <1>3, CallsType
<1>6. t \in {"send_file", "openLocked"} => c.n >= O_LOCK
  BY <1>2, <1>3, OpenFlags
<1>7. ASSUME NEW r \in {"OK", "ERROR"}, Unfinished(Owned(r))'
      PROVE  Follows(t, op, r) # {}
  <2>1. \/ op = "OPEN" /\ r = "OK" /\ ~(c.n >= O_LOCK)
        \/ op = "UNLOCK" /\ r = "OK"
    BY <1>3, <1>4, <1>5, <1>7 DEF Owned, Unfinished
  <2>2. CASE op = "UNLOCK" /\ r = "OK"
    <3>1. t = "unlock_file"
      BY <1>3, <2>2 DEF Tasks
    <3> QED
      BY <2>2, <3>1 DEF Follows
  <2>3. CASE op = "OPEN" /\ r = "OK" /\ ~(c.n >= O_LOCK)
    <3>1. t \in {"lock_file", "read_file"}
      BY <1>3, <1>6, <2>3 DEF Tasks
    <3> QED
      BY <2>3, <3>1 DEF Follows
  <2> QED
    BY <2>1, <2>2, <2>3
<1> QED
  BY <1>1, <1>2, <1>3, <1>4, <1>7, BeginsKeeps

\* Between two calls of an operation: what the first left open, the second or
\* one after it closes.
LEMMA ProceedKeeps ==
  ASSUME WholeInv, Types', Proceed
  PROVE  WholeInv'
<1> DEFINE next == Follows(task, call.op, result)
<1>1. cpc = "returned" /\ (Unfinished(mine) => next # {})
  BY DEF Proceed, WholeInv, WillClose, Unfinished
<1>2. CASE \E op \in next : \E c \in Calls(task, op) : Begins(c) /\ UNCHANGED <<task, torn>>
  <2>0. PICK op \in next : \E c \in Calls(task, op) : Begins(c) /\ task' = task
    BY <1>2
  <2>1. PICK c \in Calls(task, op) : Begins(c) /\ task' = task
    BY <2>0
  <2>2. /\ task \in Tasks /\ op \in {"LOCK", "CLOSE", "WRITE", "READ"}
        /\ op = "LOCK" => task = "lock_file"
        /\ op = "WRITE" => task = "send_file"
        /\ op = "READ" => task = "read_file"
    BY <2>0 DEF Follows, AfterLock, Tasks
  <2>3. op \in Ops
    BY <2>2 DEF Ops
  <2>4. call'.op = op /\ mine' = mine
    BY <2>1, <2>2, <2>3, CallsType DEF Begins
  <2>5. ASSUME NEW r \in {"OK", "ERROR"}, Unfinished(Owned(r))'
        PROVE  Follows(task, op, r) # {}
    <3>1. op # "CLOSE" /\ ~(op = "LOCK" /\ r = "OK")
      BY <2>4, <2>5 DEF Owned, Unfinished
    <3> QED
      BY <2>2, <3>1 DEF Follows, AfterLock
  <2> QED
    BY <1>1, <2>1, <2>2, <2>3, <2>5, BeginsKeeps
<1>3. CASE /\ next = {}
           /\ cpc' = "idle" /\ task' = "none"
           /\ UNCHANGED <<up, down, remaining, call, wr, want, left, result, mine, torn, serverVars>>
  <2>1. /\ cpc' = "idle" /\ task' = "none" /\ ~Unfinished(mine)
        /\ UNCHANGED <<up, down, remaining, call, wr, want, left, result, mine, torn>>
        /\ UNCHANGED <<spc, got, swr, files, owed, late, verdict>>
    BY <1>1, <1>3 DEF serverVars
  <2>2. Bounded'
    BY <2>1 DEF WholeInv, Bounded
  <2>3. Requested'
    BY <1>1, <2>1 DEF WholeInv, Requested, Ahead, HasRead, Gone
  <2>4. Answering'
    BY <1>1, <2>1 DEF WholeInv, Answering, Gone
  <2>5. Quiet' /\ Reading' /\ Verdicts' /\ WillClose'
    BY <1>1, <2>1 DEF WholeInv, Quiet, Reading, Verdicts, WillClose, Unfinished
  <2> QED
    BY <2>2, <2>3, <2>4, <2>5 DEF WholeInv
<1> QED
  BY <1>2, <1>3 DEF Proceed

\* The first of what is left to write becomes the last of what is on its way.
LEMMA AheadWritten ==
  ASSUME up \in Seq(Field), wr \in Seq(Field), wr # << >>, NEW k \in Nat, Ahead(k),
         up' = Append(up, Head(wr)), wr' = Tail(wr), call' = call,
         Len(Request(call)) \in Nat
  PROVE  Ahead(k)'
<1> DEFINE r == Request(call)
<1>1. Request(call)' = r
  OBVIOUS
<1>2. /\ Len(up') = Len(up) + 1 /\ up'[Len(up) + 1] = wr[1]
      /\ \A i \in 1 .. Len(up) : up'[i] = up[i]
      /\ Len(wr') = Len(wr) - 1 /\ Len(wr) \in Nat /\ Len(wr) >= 1 /\ Len(up) \in Nat
      /\ \A i \in 1 .. Len(wr) - 1 : wr'[i] = wr[i + 1]
  BY EmptySeq
<1>3. /\ Len(up) + Len(wr) = Len(r) - k + 1 /\ Len(r) \in Nat
      /\ \A i \in 1 .. Len(up) : up[i] = r[k - 1 + i]
      /\ \A i \in 1 .. Len(wr) : wr[i] = r[k - 1 + Len(up) + i]
  BY DEF Ahead
<1> HIDE DEF r
<1>4. Len(up') + Len(wr') = Len(r) - k + 1
  <2>1. Len(up') + Len(wr') = Len(up) + Len(wr)
    BY <1>2
  <2> QED
    BY <1>3, <2>1
<1>5. ASSUME NEW i \in 1 .. Len(up')
      PROVE  up'[i] = r[k - 1 + i]
  <2>1. CASE i = Len(up) + 1
    <3>1. 1 \in 1 .. Len(wr) /\ k - 1 + Len(up) + 1 = k - 1 + i
      BY <1>2, <2>1
    <3>2. wr[1] = r[k - 1 + Len(up) + 1]
      BY <1>3, <3>1
    <3> QED
      BY <1>2, <2>1, <3>1, <3>2
  <2>2. CASE i # Len(up) + 1
    <3>1. i \in 1 .. Len(up)
      BY <1>2, <2>2
    <3> QED
      BY <1>2, <1>3, <3>1
  <2> QED
    BY <2>1, <2>2
<1>6. ASSUME NEW i \in 1 .. Len(wr')
      PROVE  wr'[i] = r[k - 1 + Len(up') + i]
  <2>1. /\ i \in 1 .. Len(wr) - 1 /\ i + 1 \in 1 .. Len(wr)
        /\ k - 1 + Len(up) + (i + 1) = k - 1 + Len(up') + i
    BY <1>2
  <2>2. wr[i + 1] = r[k - 1 + Len(up) + (i + 1)]
    BY <1>3, <2>1
  <2> QED
    BY <1>2, <2>1, <2>2
<1> QED
  BY <1>1, <1>4, <1>5, <1>6 DEF Ahead

\* The client writes the next field of its request.
LEMMA ClientWritesKeeps ==
  ASSUME WholeInv, Types', ClientWrites
  PROVE  WholeInv'
<1>1. /\ cpc = "write" /\ wr # << >> /\ down = << >> /\ want = "op" /\ left = 0
      /\ UNCHANGED <<down, remaining, task, call, want, left, result, mine, torn>>
      /\ UNCHANGED <<spc, got, swr, files, owed, late, verdict>>
  BY DEF ClientWrites, WholeInv, Quiet, serverVars
<1>2. CASE spc = "ended" /\ cpc' = "dead" /\ UNCHANGED <<up, wr>>
  <2>1. Bounded'
    BY <1>1, <1>2 DEF WholeInv, Bounded
  <2>2. Requested' /\ Answering'
    BY <1>1, <1>2 DEF WholeInv, Requested, Answering
  <2>3. Quiet' /\ Reading' /\ Verdicts' /\ WillClose'
    BY <1>1, <1>2 DEF Quiet, Reading, Verdicts, WillClose, Unfinished
  <2> QED
    BY <2>1, <2>2, <2>3 DEF WholeInv
<1>3. CASE /\ spc # "ended"
           /\ Len(up) < Room
           /\ up' = Append(up, Head(wr))
           /\ wr' = Tail(wr)
           /\ cpc' = IF wr' = << >> THEN "read" ELSE "write"
  <2>1. /\ spc \in {"select", "op", "params"} /\ ~Gone /\ cpc' \in {"read", "write"}
        /\ ~owed /\ late = << >> /\ files = 0 /\ swr = << >>
    <3>1. spc \in {"select", "op", "params"} /\ cpc' \in {"read", "write"} /\ ~Gone
      BY <1>1, <1>3 DEF WholeInv, Quiet, Gone
    <3>2. files \in 0 .. MaxBack
      BY DEF WholeInv, Types
    <3> QED
      BY <1>1, <3>1, <3>2 DEF WholeInv, Answering
  <2>2. /\ up' \in Seq(Field) /\ wr' \in Seq(Field) /\ up' # << >>
        /\ Len(up') <= Room
    <3>1. up \in Seq(Field) /\ wr \in Seq(Field) /\ Room \in Nat
      BY ClientAssumption DEF WholeInv, Types
    <3>2. Head(wr) \in Field /\ wr' \in Seq(Field)
      BY <1>1, <1>3, <3>1
    <3>3. up' \in Seq(Field) /\ Len(up') = Len(up) + 1 /\ Len(up) \in Nat
      BY <1>3, <3>1, <3>2
    <3>4. up' # << >>
      BY <1>3, <3>1, <3>2, AppendProperties
    <3> QED
      BY <1>3, <3>1, <3>2, <3>3, <3>4
  <2>3. Bounded'
    BY <1>1, <2>1, <2>2 DEF WholeInv, Bounded
  <2>4. ASSUME NEW k \in Nat, Ahead(k)
        PROVE  Ahead(k)'
    <3>1. call \in CallType /\ Len(Request(call)) \in Nat
      BY RequestShape DEF WholeInv, Types
    <3> QED
      BY <1>1, <1>3, <2>4, <3>1, AheadWritten DEF WholeInv, Types
  <2>5. Requested'
    <3>1. CASE spc = "select"
      <4>1. Ahead(1)
        BY <1>1, <2>1, <3>1 DEF WholeInv, Requested
      <4> QED
        BY <1>1, <2>4, <3>1, <4>1 DEF Requested
    <3>2. CASE spc = "op"
      <4>1. Ahead(2)
        BY <1>1, <2>1, <3>2 DEF WholeInv, Requested
      <4> QED
        BY <1>1, <2>4, <3>2, <4>1 DEF Requested
    <3>3. CASE spc = "params"
      <4>1. HasRead /\ Ahead(Len(got) + 2) /\ Len(got) + 2 \in Nat
        BY <2>1, <3>3 DEF WholeInv, Requested, Types
      <4>2. Ahead(Len(got) + 2)' /\ HasRead'
        <5> DEFINE k == Len(got) + 2
        <5>1. Ahead(k) /\ k \in Nat /\ k' = k
          BY <1>1, <4>1
        <5> HIDE DEF k
        <5>2. Ahead(k)'
          BY <5>1, <2>4
        <5>3. HasRead'
          BY <1>1, <4>1 DEF HasRead
        <5> QED
          BY <5>1, <5>2, <5>3 DEF k
      <4> QED
        BY <1>1, <3>3, <4>2 DEF Requested
    <3> QED
      BY <2>1, <3>1, <3>2, <3>3
  <2>6. Answering'
    BY <1>1, <2>1 DEF WholeInv, Answering
  <2>7. Quiet'
    BY <1>1, <1>3, <2>1 DEF Quiet
  <2>8. Reading'
    BY <1>1, <1>3, <2>1, <2>2 DEF Reading, Unanswered
  <2>9. Verdicts' /\ WillClose'
    BY <1>1, <2>1 DEF WholeInv, Verdicts, WillClose, Unfinished, Owned
  <2> QED
    BY <2>3, <2>5, <2>6, <2>7, <2>8, <2>9 DEF WholeInv
<1> QED
  BY <1>2, <1>3 DEF ClientWrites

\* What a call does with a field it can read: it fails for want of a directory,
\* it returns, or it wants the next field.
LEMMA AfterFieldReads ==
  ASSUME NEW f \in Field, NEW t \in Stages, Reads(call, Stage(want, left), f, t),
         want \in Wanted, left \in Nat,
         want = "op" => f.val \in {"OK", "ERROR"},
         AfterField(f.val)
  PROVE  \/ cpc' = "dead" /\ UNCHANGED <<want, left, result, mine>>
         \/ /\ t = Done /\ (want = "op" => f.val = "OK")
            /\ Returns(IF want = "errno" THEN "ERROR" ELSE "OK")
         \/ /\ t = Stage(want', left') /\ want' \in Wanted \ {"op"}
            /\ want # "errno"
            /\ want' = "errno" <=> want = "op" /\ f.val = "ERROR"
            /\ UNCHANGED <<cpc, result, mine>>
<1> DEFINE Fails   == cpc' = "dead" /\ UNCHANGED <<want, left, result, mine>>
           Over    == /\ t = Done /\ (want = "op" => f.val = "OK")
                      /\ Returns(IF want = "errno" THEN "ERROR" ELSE "OK")
           GoesOnTo(w, n) == t = Stage(w, n) /\ Wants(w, n)
           Further == /\ t = Stage(want', left') /\ want' \in Wanted \ {"op"}
                      /\ want # "errno"
                      /\ want' = "errno" <=> want = "op" /\ f.val = "ERROR"
                      /\ UNCHANGED <<cpc, result, mine>>
<1>1. Stage(want, left).want = want /\ Stage(want, left).left = left
  BY DEF Stage
<1>2. f.kind = KindOf(want) /\ f.val \in Values(f.kind)
  BY <1>1, FieldProperties DEF Reads
<1>3. ASSUME NEW w \in Wanted \ {"op"}, NEW n, GoesOnTo(w, n), want # "errno",
             w = "errno" <=> want = "op" /\ f.val = "ERROR"
      PROVE  Further
  BY <1>3 DEF Wants
<1>4. CASE want = "op"
  <2>1. CASE f.val = "ERROR"
    <3>1. t = Stage("errno", 0) /\ Wants("errno", 0)
      BY <1>1, <1>4, <2>1 DEF Reads, AfterField
    <3> QED
      BY <1>3, <1>4, <2>1, <3>1 DEF Wanted
  <2>2. CASE f.val = "OK"
    <3>1. CASE call.op = "READ"
      <4>1. GoesOnTo("size", 0)
        BY <1>1, <1>4, <2>2, <3>1 DEF Reads, AfterField
      <4> QED
        BY <1>3, <1>4, <2>2, <4>1 DEF Wanted
    <3>2. CASE call.op # "READ" /\ (call.op = "READN" \/ call.dir)
      <4>1. GoesOnTo("count", 0)
        BY <1>1, <1>4, <2>2, <3>2 DEF Reads, AfterField
      <4> QED
        BY <1>3, <1>4, <2>2, <4>1 DEF Wanted
    <3>3. CASE call.op # "READ" /\ ~(call.op = "READN" \/ call.dir)
      <4>1. t = Done /\ Returns("OK")
        BY <1>1, <1>4, <2>2, <3>3 DEF Reads, AfterField
      <4> QED
        BY <1>4, <2>2, <4>1
    <3> QED
      BY <3>1, <3>2, <3>3
  <2> QED
    BY <1>4, <2>1, <2>2
<1>5. CASE want = "errno"
  <2>1. t = Done /\ Returns("ERROR")
    BY <1>1, <1>5 DEF Reads, AfterField
  <2> QED
    BY <1>5, <2>1
<1>6. CASE want = "size"
  <2>1. t = (IF f.val > 0 THEN Stage("data", 0) ELSE Done) /\ Content(f.val)
    BY <1>1, <1>6 DEF Reads, AfterField
  <2>2. GoesOnTo("data", 0) \/ Over
    BY <1>6, <2>1 DEF Content
  <2> QED
    BY <1>3, <1>6, <2>2 DEF Wanted
<1>7. CASE want = "data"
  <2>1. t = Done /\ Returns("OK")
    BY <1>1, <1>7 DEF Reads, AfterField
  <2> QED
    BY <1>7, <2>1
<1>8. CASE want = "count"
  <2>1. t = FilesToCome(f.val) /\ FirstFile(f.val)
    BY <1>1, <1>8 DEF Reads, AfterField
  <2>2. f.val \in Nat
    BY <1>2, <1>8 DEF KindOf, Values
  <2>3. GoesOnTo("len", f.val) \/ Over
    BY <1>8, <2>1, <2>2 DEF FirstFile, FilesToCome
  <2> QED
    BY <1>3, <1>8, <2>3 DEF Wanted
<1>9. CASE want = "len"
  <2>1. GoesOnTo("str", left)
    BY <1>1, <1>9 DEF Reads, AfterField
  <2> QED
    BY <1>3, <1>9, <2>1 DEF Wanted
<1>10. CASE want = "str"
  <2>1. GoesOnTo("fileSize", left)
    BY <1>1, <1>10 DEF Reads, AfterField
  <2> QED
    BY <1>3, <1>10, <2>1 DEF Wanted
<1>11. ASSUME want \in {"fileSize", "fileData"}, FileDone, t = FilesToCome(left - 1)
       PROVE  Fails \/ Over \/ Further
  <2>1. Fails \/ GoesOnTo("len", left - 1) \/ Over
    BY <1>11 DEF FileDone, FilesToCome
  <2> QED
    BY <1>3, <1>11, <2>1 DEF Wanted
<1>12. CASE want = "fileSize"
  <2>1. f.val \in Nat
    BY <1>2, <1>12 DEF KindOf, Values
  <2>2. CASE f.val > 0
    <3>1. GoesOnTo("fileData", left)
      BY <1>1, <1>12, <2>2 DEF Reads, AfterField
    <3> QED
      BY <1>3, <1>12, <3>1 DEF Wanted
  <2>3. CASE f.val = 0
    <3>1. FileDone /\ t = FilesToCome(left - 1)
      BY <1>1, <1>12, <2>3 DEF Reads, AfterField
    <3> QED
      BY <1>11, <1>12, <3>1
  <2> QED
    BY <2>1, <2>2, <2>3
<1>13. CASE want = "fileData"
  <2>1. FileDone /\ t = FilesToCome(left - 1)
    BY <1>1, <1>13 DEF Reads, AfterField
  <2> QED
    BY <1>11, <1>13, <2>1
<1> QED
  BY <1>4, <1>5, <1>6, <1>7, <1>8, <1>9, <1>10, <1>12, <1>13 DEF Wanted

\* A call that finds the connection closed goes on with anything.
LEMMA ClientReadsEndKeeps ==
  ASSUME WholeInv, Types', ClientReadsEnd
  PROVE  WholeInv'
<1>1. /\ cpc = "read" /\ down = << >> /\ spc = "ended"
      /\ UNCHANGED <<up, down, remaining, task, call, wr>>
      /\ UNCHANGED <<spc, got, swr, files, owed, late, verdict>>
  BY DEF ClientReadsEnd, serverVars
<1>2. /\ want \in Wanted /\ left \in Nat /\ (want \in FileFields => left > 0)
      /\ wr = << >> /\ ~owed /\ late = << >>
  BY <1>1 DEF WholeInv, Types, Reading, Answering
<1>3. \/ cpc' = "dead" /\ UNCHANGED <<want, left, result, mine>>
      \/ \E r \in {"OK", "ERROR"} : Returns(r)
      \/ /\ want' \in Wanted /\ left' \in Nat
         /\ want' \in FileFields => left' > 0
         /\ UNCHANGED <<cpc, result, mine>>
  <2>1. CASE Returns("ERROR")
    BY <2>1
  <2>2. CASE \E v \in Garbage : AfterField(v)
    <3>1. PICK v \in Garbage : AfterField(v)
      BY <2>2
    <3>2. want # "op" => v \in Nat
      BY <3>1, ClientAssumption DEF Garbage
    <3> QED
      BY <1>2, <3>1, <3>2, AfterFieldTypes
  <2> QED
    BY <2>1, <2>2 DEF ClientReadsEnd
<1>4. /\ cpc' \in {"dead", "returned", "read"}
      /\ result' \in {"none", "OK", "ERROR"}
      /\ want' \in Wanted /\ left' \in Nat /\ (want' \in FileFields => left' > 0)
  BY <1>1, <1>2, <1>3 DEF Returns, WholeInv, Types
<1>5. mine' \in {"closed", "open", "locked"}
  BY <1>1, <1>2, <1>3 DEF Returns, WholeInv, Types, Owned
<1>6. Bounded'
  BY <1>1, <1>4, <1>5 DEF WholeInv, Bounded
<1>7. Requested' /\ Answering' /\ Quiet' /\ Reading' /\ Verdicts'
  BY <1>1, <1>2, <1>4 DEF WholeInv, Requested, Answering, Quiet, Reading, Verdicts
<1>8. WillClose'
  <2>1. \A r \in {"OK", "ERROR"} : Unfinished(Owned(r)) => Follows(task, call.op, r) # {}
    BY <1>1 DEF WholeInv, WillClose, Unfinished
  <2>2. CASE cpc' = "returned"
    <3>1. PICK r \in {"OK", "ERROR"} : result' = r /\ mine' = Owned(r)
      BY <1>1, <1>3, <2>2 DEF Returns
    <3>2. Unfinished(mine)' => Follows(task, call.op, r) # {}
      BY <1>1, <2>1, <3>1 DEF Unfinished
    <3> QED
      BY <1>1, <2>2, <3>1, <3>2 DEF WillClose, Unfinished
  <2>3. CASE cpc' = "read"
    <3>1. mine' = mine
      BY <1>1, <1>3, <2>3 DEF Returns
    <3> QED
      BY <1>1, <2>1, <2>3, <3>1 DEF WillClose, Unfinished, Owned
  <2>4. CASE cpc' = "dead"
    BY <2>4 DEF WillClose, Unfinished
  <2> QED
    BY <1>4, <2>2, <2>3, <2>4
<1> QED
  BY <1>6, <1>7, <1>8 DEF WholeInv

\* A call that has returned understands nothing more.
LEMMA NothingAfterDone ==
  ASSUME NEW c, NEW q \in Seq(Field), NEW e, Understands(c, q, Done, e)
  PROVE  q = << >> /\ e = Done
<1>1. ASSUME NEW f, NEW t, Reads(c, Done, f, t)
      PROVE  FALSE
  BY <1>1 DEF Reads, Done, Stage, Wanted
<1>2. q = << >>
  BY <1>1, UnderstandsTail
<1> QED
  BY <1>2, NothingIsUnderstood

\* The call reads the next field of its answer.
LEMMA ClientReadsKeeps ==
  ASSUME WholeInv, Types', ~Torn, ClientReads
  PROVE  WholeInv'
<1> DEFINE R    == IF late # << >> THEN late ELSE swr
           here == Stage(want, left)
           end  == FilesToCome(files)
           rest == Tail(down) \o R
           f    == Head(down)
<1>1. /\ cpc = "read" /\ down # << >> /\ down' = Tail(down) /\ AfterField(f.val)
      /\ UNCHANGED <<up, remaining, task, call, wr>>
      /\ UNCHANGED <<spc, got, swr, files, owed, late, verdict>>
  <2>1. PICK r \in ReadFrom(down, KindOf(want)) :
          /\ down' = r.rest
          /\ IF r.done THEN AfterField(r.val) ELSE UNCHANGED <<cpc, want, left, result, mine>>
    BY DEF ClientReads
  <2>2. cpc = "read" /\ down # << >> /\ Head(down).kind = KindOf(want)
    BY HeadsFit DEF ClientReads
  <2>3. r.done /\ r.val = Head(down).val /\ r.rest = Tail(down)
    BY <2>1, <2>2, ReadSame
  <2> QED
    BY <2>1, <2>2, <2>3 DEF ClientReads, serverVars
<1>2. wr = << >> /\ Answered
  BY <1>1 DEF WholeInv, Reading, Unanswered
<1>3. down \in Seq(Field) /\ Len(down) <= Room /\ R \in Seq(Field) /\ ToCome = down \o R
  BY DEF WholeInv, Types, ToCome
<1>4. /\ ToCome # << >> /\ ToCome \in Seq(Field) /\ Head(ToCome) = f /\ f \in Field
      /\ Tail(ToCome) = rest /\ down' \in Seq(Field) /\ rest \in Seq(Field)
  <2> HIDE DEF R
  <2>1. /\ Head(down \o R) = Head(down) /\ Head(down) \in Field
        /\ Tail(down \o R) = Tail(down) \o R /\ Tail(down) \in Seq(Field)
        /\ down \o R # << >> /\ down \o R \in Seq(Field)
    BY <1>1, <1>3, JoinedTail
  <2>2. rest \in Seq(Field)
    BY <1>3, <2>1, ConcatProperties
  <2> QED
    BY <1>1, <1>3, <2>1, <2>2
<1>5. ToCome' = rest
  BY <1>1 DEF ToCome
<1>6. R # << >> => rest # << >>
  BY <1>3, <1>4, <1>1, ConcatEqualIffEmpty
<1>7. rest = << >> => down' = << >> /\ R = << >>
  BY <1>3, <1>4, <1>1, ConcatEqualIffEmpty
<1> HIDE DEF R, rest, f, here, end
<1>8. Understands(call, ToCome, here, end) /\ ToCome[1] = f
  BY <1>2, <1>4 DEF Answered, here, end
<1>9. PICK t \in Stages : Reads(call, here, f, t) /\ Understands(call, rest, t, end)
  BY <1>4, <1>8, UnderstandsTail
<1>10. /\ want \in Wanted /\ left \in Nat /\ (want \in FileFields => left > 0)
       /\ verdict \in {"none", "OK", "ERROR"}
  BY DEF WholeInv, Types
<1>11. /\ want = "op" => f.val = verdict
       /\ want = "errno" => verdict = "ERROR"
       /\ want \notin {"op", "errno"} => verdict = "OK"
  BY <1>2, <1>8 DEF Answered
<1>12. f.val \in Values(f.kind) /\ f.kind = KindOf(want)
  BY <1>4, <1>9, FieldProperties DEF Reads, here, Stage
<1>13. want = "op" => f.val \in {"OK", "ERROR"}
  <2>1. want = "op" => f.val \in Ops \cup {"OK", "ERROR", "invalid"}
    BY <1>12 DEF KindOf, Values
  <2> QED
    BY <1>10, <1>11, <2>1 DEF Ops
<1>14. want # "op" => f.val \in Nat
  BY <1>10, <1>12 DEF KindOf, Values, Wanted
<1>15. \/ cpc' = "dead" /\ UNCHANGED <<want, left, result, mine>>
       \/ \E r \in {"OK", "ERROR"} : Returns(r)
       \/ /\ want' \in Wanted /\ left' \in Nat
          /\ want' \in FileFields => left' > 0
          /\ UNCHANGED <<cpc, result, mine>>
  BY <1>1, <1>10, <1>14, AfterFieldTypes
<1>16. \/ cpc' = "dead" /\ UNCHANGED <<want, left, result, mine>>
       \/ /\ t = Done /\ (want = "op" => f.val = "OK")
          /\ Returns(IF want = "errno" THEN "ERROR" ELSE "OK")
       \/ /\ t = Stage(want', left') /\ want' \in Wanted \ {"op"}
          /\ want # "errno"
          /\ want' = "errno" <=> want = "op" /\ f.val = "ERROR"
          /\ UNCHANGED <<cpc, result, mine>>
  BY <1>1, <1>4, <1>9, <1>10, <1>13, AfterFieldReads DEF here
<1>17. /\ cpc' \in {"dead", "returned", "read"}
       /\ result' \in {"none", "OK", "ERROR"}
       /\ want' \in Wanted /\ left' \in Nat /\ (want' \in FileFields => left' > 0)
  BY <1>1, <1>10, <1>15 DEF Returns, WholeInv, Types
<1>18. mine' \in {"closed", "open", "locked"}
  BY <1>1, <1>15 DEF Returns, WholeInv, Types, Owned
<1>19. spc # "ended" => left' <= MaxBack
  <2>1. left <= MaxBack \/ spc = "ended"
    BY DEF WholeInv, Bounded
  <2>2. CASE t = Stage(want', left') /\ want' \in Wanted
    <3>1. t.left \in 0 .. MaxBack
      BY <1>9, ClientAssumption DEF Stages, Done, Stage
    <3>2. t.left = left'
      BY <2>2 DEF Stage
    <3> QED
      BY <3>1, <3>2, ClientAssumption
  <2> QED
    BY <1>16, <2>1, <2>2 DEF Returns
<1>20. Len(down') <= Room
  <2>1. Len(down') = Len(down) - 1 /\ Len(down) \in Nat
    BY <1>1, <1>3
  <2> QED
    BY <1>3, <2>1, ClientAssumption
<1>21. Bounded'
  BY <1>1, <1>19 DEF Bounded
<1>22. up = << >> /\ ~owed /\ spc \in {"select", "answer", "ended"}
  BY <1>2 DEF Answered
<1>23. Requested'
  BY <1>1, <1>2, <1>22 DEF Requested
<1>24. cpc' = "returned" => R = << >> /\ files = 0 /\ down' = << >>
  <2>1. CASE cpc' = "returned"
    <3>1. t = Done
      BY <1>1, <1>16, <2>1
    <3>2. rest = << >> /\ end = Done
      BY <1>4, <1>9, <3>1, NothingAfterDone
    <3>3. files = 0
      BY <3>2 DEF end, FilesToCome, Done, Stage
    <3> QED
      BY <1>7, <3>2, <3>3
  <2> QED
    BY <2>1
<1>25. Answering'
  BY <1>1, <1>17, <1>22, <1>24 DEF WholeInv, Answering, Gone, R
<1>26. Quiet'
  BY <1>1, <1>2, <1>17, <1>22, <1>24 DEF WholeInv, Quiet, Answering, R
<1>27. Reading'
  <2> SUFFICES ASSUME cpc' = "read"
               PROVE  wr' = << >> /\ Answered'
    BY DEF Reading
  <2>1. /\ t = Stage(want', left') /\ want' \in Wanted \ {"op"}
        /\ want # "errno"
        /\ want' = "errno" <=> want = "op" /\ f.val = "ERROR"
    BY <1>16 DEF Returns
  <2>2. rest # << >>
    <3>1. CASE files = 0
      <4>1. t # end
        BY <2>1, <3>1 DEF end, FilesToCome, Done, Stage, Wanted
      <4> QED
        BY <1>9, <4>1, NothingIsUnderstood
    <3>2. CASE files # 0
      <4>1. files > 0
        BY <3>2 DEF WholeInv, Types
      <4>2. R # << >>
        BY <1>2, <4>1 DEF WholeInv, Answering, R
      <4> QED
        BY <1>6, <4>2
    <3> QED
      BY <3>1, <3>2
  <2>3. Understands(call, ToCome, Stage(want, left), FilesToCome(files))'
    <3>1. Understands(call, rest, Stage(want', left'), end)
      BY <1>9, <2>1
    <3> QED
      BY <1>1, <1>5, <3>1 DEF end
  <2>4. verdict' = IF want' = "op" THEN ToCome'[1].val
                   ELSE IF want' = "errno" THEN "ERROR" ELSE "OK"
    BY <1>1, <1>11, <1>13, <2>1
  <2> QED
    BY <1>1, <1>2, <1>5, <1>22, <2>2, <2>3, <2>4 DEF Answered
<1>28. Verdicts'
  <2>1. CASE cpc' = "returned"
    <3>1. /\ result' = IF want = "errno" THEN "ERROR" ELSE "OK"
          /\ want = "op" => f.val = "OK"
      BY <1>1, <1>16, <2>1 DEF Returns
    <3> QED
      BY <1>1, <1>11, <3>1 DEF Verdicts
  <2> QED
    BY <2>1 DEF Verdicts
<1>29. WillClose'
  <2>1. \A r \in {"OK", "ERROR"} : Unfinished(Owned(r)) => Follows(task, call.op, r) # {}
    BY <1>1 DEF WholeInv, WillClose, Unfinished
  <2>2. CASE cpc' = "returned"
    <3>1. PICK r \in {"OK", "ERROR"} : result' = r /\ mine' = Owned(r)
      BY <1>1, <1>15, <2>2 DEF Returns
    <3>2. Unfinished(mine)' => Follows(task, call.op, r) # {}
      BY <1>1, <2>1, <3>1 DEF Unfinished
    <3> QED
      BY <1>1, <2>2, <3>1, <3>2 DEF WillClose, Unfinished
  <2>3. CASE cpc' = "read"
    <3>1. mine' = mine
      BY <1>1, <1>15, <2>3 DEF Returns
    <3> QED
      BY <1>1, <2>1, <2>3, <3>1 DEF WillClose, Unfinished, Owned
  <2>4. CASE cpc' = "dead"
    BY <2>4 DEF WillClose, Unfinished
  <2> QED
    BY <1>17, <2>2, <2>3, <2>4
<1> QED
  BY <1>21, <1>23, <1>25, <1>26, <1>27, <1>28, <1>29 DEF WholeInv

-------------------------------------------------------------------------------
(* The server reads.                                                       *)

\* Whoever reads from the connection takes the field its side is at.
LEMMA AheadTaken ==
  ASSUME up \in Seq(Field), wr \in Seq(Field), up # << >>, NEW k \in Nat, Ahead(k),
         up' = Tail(up), wr' = wr, call' = call,
         Len(Request(call)) \in Nat
  PROVE  /\ Head(up) = Request(call)[k] /\ Ahead(k + 1)'
         /\ up' \in Seq(Field) /\ (Len(up) <= Room => Len(up') <= Room)
<1> DEFINE r == Request(call)
<1>1. Request(call)' = r
  OBVIOUS
<1>2. /\ Len(up') = Len(up) - 1 /\ Len(up) \in Nat /\ Len(up) >= 1 /\ Len(wr) \in Nat
      /\ \A i \in 1 .. Len(up) - 1 : up'[i] = up[i + 1]
      /\ Head(up) = up[1] /\ up' \in Seq(Field)
  BY EmptySeq
<1>3. /\ Len(up) + Len(wr) = Len(r) - k + 1 /\ Len(r) \in Nat
      /\ \A i \in 1 .. Len(up) : up[i] = r[k - 1 + i]
      /\ \A i \in 1 .. Len(wr) : wr[i] = r[k - 1 + Len(up) + i]
  BY DEF Ahead
<1> HIDE DEF r
<1>4. Head(up) = r[k]
  <2>1. 1 \in 1 .. Len(up) /\ k - 1 + 1 = k
    BY <1>2
  <2>2. up[1] = r[k - 1 + 1]
    BY <1>3, <2>1
  <2> QED
    BY <1>2, <2>1, <2>2
<1>5. Len(up') + Len(wr') = Len(r) - (k + 1) + 1
  <2>1. Len(up') + Len(wr') = Len(up) + Len(wr) - 1
    BY <1>2
  <2> QED
    BY <1>3, <2>1
<1>6. ASSUME NEW i \in 1 .. Len(up')
      PROVE  up'[i] = r[(k + 1) - 1 + i]
  <2>1. i \in 1 .. Len(up) - 1 /\ i + 1 \in 1 .. Len(up) /\ k - 1 + (i + 1) = (k + 1) - 1 + i
    BY <1>2
  <2>2. up[i + 1] = r[k - 1 + (i + 1)]
    BY <1>3, <2>1
  <2> QED
    BY <1>2, <2>1, <2>2
<1>7. ASSUME NEW i \in 1 .. Len(wr')
      PROVE  wr'[i] = r[(k + 1) - 1 + Len(up') + i]
  <2>1. i \in 1 .. Len(wr) /\ k - 1 + Len(up) + i = (k + 1) - 1 + Len(up') + i
    BY <1>2
  <2>2. wr[i] = r[k - 1 + Len(up) + i]
    BY <1>3, <2>1
  <2> QED
    BY <2>1, <2>2
<1>8. Len(up) <= Room => Len(up') <= Room
  BY <1>2, ClientAssumption
<1>9. Ahead(k + 1)'
  BY <1>1, <1>5, <1>6, <1>7 DEF Ahead
<1> QED
  BY <1>2, <1>4, <1>8, <1>9 DEF r

\* The connection handler reads the first byte, of a new request only.
LEMMA HandlerByteKeeps ==
  ASSUME WholeInv, Types', ~Torn, HandlerByte
  PROVE  WholeInv'
<1>1. /\ spc = "select" /\ swr = << >> /\ files = 0
      /\ UNCHANGED <<down, cpc, remaining, task, call, wr, want, left, result, mine, torn>>
      /\ UNCHANGED <<got, swr, files, late, verdict>>
  BY DEF HandlerByte, Takes, Leaves, clientVars, WholeInv, Answering, Types
<1>2. CASE /\ up # << >>
           /\ \E r \in ReadFrom(up, "first") : Takes(r)
           /\ spc' = "op" /\ UNCHANGED owed
  <2>0. PICK r \in ReadFrom(up, "first") : Takes(r)
    BY <1>2
  <2>1. up' = Tail(up) /\ ~owed /\ late = << >>
    <3>1. Head(up).kind = "first"
      BY <1>1, <1>2, HeadsFit
    <3>2. r.rest = Tail(up)
      BY <2>0, <3>1, ReadSame
    <3> QED
      BY <1>2, <2>0, <3>2 DEF Takes, WholeInv, Answering
  <2>2. /\ up \in Seq(Field) /\ wr \in Seq(Field) /\ Len(up) <= Room
        /\ call \in CallType /\ Len(Request(call)) \in Nat
    BY RequestShape DEF WholeInv, Types
  <2>3. Ahead(1)
    BY <1>1, <1>2 DEF WholeInv, Requested
  <2>4. Ahead(1 + 1)' /\ up' \in Seq(Field) /\ Len(up') <= Room
    BY <1>1, <1>2, <2>1, <2>2, <2>3, AheadTaken
  <2>5. Bounded'
    BY <1>1, <1>2, <2>4 DEF WholeInv, Bounded
  <2>6. Requested'
    BY <1>2, <2>4 DEF Requested
  <2>7. Answering'
    BY <1>1, <1>2, <2>1 DEF Answering
  <2>8. Quiet' /\ Reading' /\ Verdicts' /\ WillClose'
    BY <1>1, <1>2, <2>1 DEF WholeInv, Quiet, Reading, Unanswered, Answered, Verdicts,
       WillClose, Unfinished, Owned
  <2> QED
    BY <2>5, <2>6, <2>7, <2>8 DEF WholeInv
<1>3. CASE EndOfFile /\ Leaves
  <2>1. up = << >> /\ Gone /\ spc' = "left" /\ owed' = FALSE /\ up' = up
    BY <1>3 DEF EndOfFile, Leaves
  <2>2. Bounded'
    BY <1>1, <2>1 DEF WholeInv, Bounded
  <2>3. Requested' /\ Answering' /\ Quiet' /\ Reading' /\ Verdicts' /\ WillClose'
    BY <1>1, <2>1 DEF Gone, Requested, Answering, Quiet, Reading, Verdicts, WillClose, Unfinished
  <2> QED
    BY <2>2, <2>3 DEF WholeInv
<1> QED
  BY <1>2, <1>3 DEF HandlerByte

\* A worker reads the operation.
LEMMA WorkerOpKeeps ==
  ASSUME WholeInv, Types', ~Torn, WorkerOp
  PROVE  WholeInv'
<1>1. /\ spc = "op" /\ swr = << >> /\ files = 0 /\ ~owed /\ late = << >>
      /\ UNCHANGED <<down, cpc, remaining, task, call, wr, want, left, result, mine, torn>>
      /\ UNCHANGED <<swr, files, late, verdict>>
  BY DEF WorkerOp, Takes, Leaves, clientVars, WholeInv, Answering, Types
<1>2. CASE /\ up # << >>
           /\ \E r \in ReadFrom(up, "op") :
                Takes(r) /\ IF r.done THEN Dispatch(r.val) ELSE UNCHANGED <<spc, got, owed>>
  <2>0. PICK r \in ReadFrom(up, "op") :
          Takes(r) /\ IF r.done THEN Dispatch(r.val) ELSE UNCHANGED <<spc, got, owed>>
    BY <1>2
  <2>1. up' = Tail(up) /\ Dispatch(Head(up).val)
    <3>1. Head(up).kind = "op"
      BY <1>1, <1>2, HeadsFit
    <3>2. r.done /\ r.val = Head(up).val /\ r.rest = Tail(up)
      BY <2>0, <3>1, ReadSame
    <3> QED
      BY <2>0, <3>2 DEF Takes
  <2>2. /\ up \in Seq(Field) /\ wr \in Seq(Field) /\ Len(up) <= Room /\ call \in CallType
    BY DEF WholeInv, Types
  <2>3. Len(Request(call)) \in 3 .. 7 /\ Request(call)[2].val = call.op /\ Request(call)' = Request(call)
    BY <1>1, <2>2, RequestShape
  <2>4. Ahead(2)
    BY <1>1 DEF WholeInv, Requested
  <2>5. Ahead(2 + 1)' /\ up' \in Seq(Field) /\ Len(up') <= Room /\ Head(up) = Request(call)[2]
    BY <1>1, <1>2, <2>1, <2>2, <2>3, <2>4, AheadTaken
  <2>6. /\ got' = << call.op >> /\ Len(got') = 1 /\ got'[1] = call.op
        /\ spc' = "params" /\ UNCHANGED owed
    <3>1. call.op \in Ops
      BY <2>2 DEF CallType
    <3>2. call.op \notin {"OK", "ERROR", "invalid"}
      BY <3>1 DEF Ops
    <3> QED
      BY <2>1, <2>3, <2>5, <3>1, <3>2 DEF Dispatch
  <2>8. Bounded'
    BY <1>1, <2>6 DEF WholeInv, Bounded
  <2>9. HasRead'
    <3>1. Len(got') \in 1 .. Len(Request(call)) - 1
      BY <2>3, <2>6
    <3>2. \A i \in 1 .. Len(got') : got'[i] = Request(call)[i + 1].val
      BY <2>3, <2>6
    <3> QED
      BY <2>3, <3>1, <3>2 DEF HasRead
  <2>10. Ahead(Len(got) + 2)'
    <3>1. Len(got') + 2 = 2 + 1
      BY <2>6
    <3> QED
      BY <2>5, <3>1
  <2>11. Requested'
    BY <2>6, <2>9, <2>10 DEF Requested
  <2>12. Answering'
    BY <1>1, <2>6 DEF Answering
  <2>13. Quiet' /\ Reading' /\ Verdicts' /\ WillClose'
    BY <1>1, <2>6 DEF WholeInv, Quiet, Reading, Unanswered, Answered, Verdicts,
       WillClose, Unfinished, Owned
  <2> QED
    BY <2>8, <2>11, <2>12, <2>13 DEF WholeInv
<1>3. CASE EndOfFile /\ Leaves /\ UNCHANGED got
  <2>1. up = << >> /\ Gone /\ spc' = "left" /\ owed' = FALSE /\ up' = up /\ got' = got
    BY <1>3 DEF EndOfFile, Leaves
  <2>2. Bounded'
    BY <1>1, <2>1 DEF WholeInv, Bounded
  <2>3. Requested' /\ Answering' /\ Quiet' /\ Reading' /\ Verdicts' /\ WillClose'
    BY <1>1, <2>1 DEF Gone, Requested, Answering, Quiet, Reading, Verdicts, WillClose, Unfinished
  <2> QED
    BY <2>2, <2>3 DEF WholeInv
<1> QED
  BY <1>2, <1>3 DEF WorkerOp

\* A worker reads the next parameter; after the last it expects no more.
LEMMA WorkerParamKeeps ==
  ASSUME WholeInv, Types', ~Torn, WorkerParam
  PROVE  WholeInv'
<1>1. /\ spc = "params" /\ swr = << >> /\ files = 0 /\ ~owed /\ late = << >> /\ Expects # "none"
      /\ UNCHANGED <<down, cpc, remaining, task, call, wr, want, left, result, mine, torn>>
      /\ UNCHANGED <<files, owed, late, verdict>>
  BY DEF WorkerParam, Takes, clientVars, WholeInv, Answering, Types
<1>2. /\ up \in Seq(Field) /\ wr \in Seq(Field) /\ Len(up) <= Room /\ call \in CallType
      /\ got \in Seq(Payload) /\ Len(got) \in Nat
  BY DEF WholeInv, Types
<1>3. CASE /\ up # << >>
           /\ \E f \in ReadFrom(up, Expects) :
                Takes(f) /\ got' = IF f.done THEN Append(got, f.val) ELSE got
           /\ UNCHANGED <<spc, swr>>
  <2> DEFINE r == Request(call)
  <2>21. PICK f \in ReadFrom(up, Expects) :
          Takes(f) /\ got' = IF f.done THEN Append(got, f.val) ELSE got
    BY <1>3
  <2>22. f.done /\ f.val = Head(up).val /\ f.rest = Tail(up)
    <3>1. Head(up).kind = Expects
      BY <1>1, <1>3, HeadsFit
    <3> QED
      BY <2>21, <3>1, ReadSame
  <2>23. up' = Tail(up) /\ got' = Append(got, Head(up).val)
    BY <2>21, <2>22 DEF Takes
  <2>0. PICK n \in Nat : n = Len(got)
    BY <1>2
  <2>1. up' = Tail(up) /\ spc' = spc /\ swr' = swr /\ r' = r
    BY <1>1, <1>3, <2>23
  <2>2. HasRead /\ Ahead(n + 2) /\ n + 2 \in Nat
    BY <1>1, <1>2, <1>3, <2>0 DEF WholeInv, Requested
  <2>3. Len(r) \in 3 .. 7
    BY <1>2, RequestShape
  <2>4. n # Len(r) - 1
    BY <1>1, <1>2, <2>0, <2>2, ExpectsNext
  <2>5. n \in 1 .. Len(r) - 2
    BY <2>0, <2>2, <2>3, <2>4 DEF HasRead
  <2>6. /\ Head(up) = r[n + 2] /\ Ahead(n + 2 + 1)'
        /\ up' \in Seq(Field) /\ Len(up') <= Room
    <3>1. Len(r) \in Nat /\ wr' = wr /\ call' = call
      BY <1>1, <2>3
    <3> QED
      BY <1>2, <1>3, <2>1, <2>2, <3>1, AheadTaken
  <2>7. Head(up).val \in Payload
    <3>1. Head(up) \in Field
      BY <1>2, <1>3
    <3> QED
      BY <3>1, FieldProperties DEF Payload
  <2>8. /\ got' \in Seq(Payload) /\ Len(got') = n + 1
        /\ \A i \in 1 .. n : got'[i] = got[i]
        /\ got'[n + 1] = Head(up).val
    BY <1>2, <2>23, <2>0, <2>7, AppendProperties
  <2>9. HasRead'
    <3>1. Len(got') \in 1 .. Len(r) - 1
      BY <2>3, <2>5, <2>8
    <3>2. ASSUME NEW i \in 1 .. Len(got')
          PROVE  got'[i] = r[i + 1].val
      <4>1. CASE i \in 1 .. n
        BY <2>0, <2>2, <2>8, <4>1 DEF HasRead
      <4>2. CASE i = n + 1
        <5>1. i + 1 = n + 2
          BY <4>2, <2>5
        <5> QED
          BY <2>6, <2>8, <4>2, <5>1
      <4> QED
        BY <2>5, <2>8, <4>1, <4>2
    <3> QED
      BY <2>1, <3>1, <3>2 DEF HasRead
  <2>10. Ahead(Len(got) + 2)'
    <3>1. Len(got') + 2 = n + 2 + 1
      BY <2>5, <2>8
    <3> QED
      BY <2>6, <3>1
  <2>11. Bounded'
    BY <1>1, <2>1 DEF WholeInv, Bounded
  <2>12. Requested'
    BY <1>1, <2>1, <2>9, <2>10 DEF Requested
  <2>13. Answering'
    BY <1>1, <2>1 DEF Answering
  <2>14. Quiet' /\ Reading' /\ Verdicts' /\ WillClose'
    BY <1>1, <2>1 DEF WholeInv, Quiet, Reading, Unanswered, Answered, Verdicts,
       WillClose, Unfinished, Owned
  <2> QED
    BY <2>11, <2>12, <2>13, <2>14 DEF WholeInv
<1>4. CASE /\ EndOfFile /\ Expects = "str"
           /\ got' = Append(got, 0)
           /\ UNCHANGED <<up, down, spc, swr, clientVars>>
  <2>1. up = << >> /\ Gone /\ UNCHANGED <<up, spc, swr>>
    BY <1>4 DEF EndOfFile
  <2>2. got' \in Seq(Payload)
    <3>1. 0 \in Payload
      BY DEF Payload, Values, Kinds
    <3> QED
      BY <1>2, <1>4, <3>1, AppendProperties
  <2>3. Bounded'
    BY <1>1, <2>1, <2>2 DEF WholeInv, Bounded
  <2>4. Requested' /\ Answering' /\ Quiet' /\ Reading' /\ Verdicts' /\ WillClose'
    BY <1>1, <2>1 DEF Gone, Requested, Answering, Quiet, Reading, Verdicts, WillClose, Unfinished
  <2> QED
    BY <2>3, <2>4 DEF WholeInv
<1>5. CASE /\ EndOfFile /\ Expects # "str"
           /\ spc' = "answer" /\ swr' = Refusal
           /\ UNCHANGED <<up, down, got, clientVars>>
  <2>1. up = << >> /\ Gone /\ UNCHANGED <<up, got>>
    BY <1>5 DEF EndOfFile
  <2>2. swr' \in Seq(Field) /\ swr' # << >>
    BY <1>5, RefusalUnderstood
  <2>3. Bounded'
    BY <1>1, <1>5, <2>1, <2>2 DEF WholeInv, Bounded
  <2>4. Requested' /\ Answering' /\ Quiet' /\ Reading' /\ Verdicts' /\ WillClose'
    BY <1>1, <1>5, <2>1, <2>2 DEF Gone, Requested, Answering, Quiet, Reading, Verdicts, WillClose, Unfinished
  <2> QED
    BY <2>3, <2>4 DEF WholeInv
<1> QED
  BY <1>3, <1>4, <1>5 DEF WorkerParam

-------------------------------------------------------------------------------
(* The server answers.                                                     *)

\* A worker that expects no more has read all of the request.
LEMMA AllRead ==
  ASSUME WholeInv, spc = "params", Expects = "none", HasRead, Ahead(Len(got) + 2)
  PROVE  /\ up = << >> /\ wr = << >> /\ (cpc = "read" \/ Gone)
         /\ Len(got) = Len(Request(call)) - 1 /\ Op = call.op
<1>1. got \in Seq(Payload) /\ up \in Seq(Field) /\ wr \in Seq(Field) /\ call \in CallType
  BY DEF WholeInv, Types
<1> DEFINE r == Request(call)
<1>2. r \in Seq(Field) /\ Len(r) \in 3 .. 7
  BY <1>1, RequestShape
<1>3. /\ Op = call.op
      /\ Expects = IF Len(got) = Len(r) - 1 THEN "none" ELSE r[Len(got) + 2].kind
  BY <1>1, ExpectsNext
<1>4. Len(got) = Len(r) - 1
  <2>1. SUFFICES ASSUME Len(got) # Len(r) - 1 PROVE FALSE
    OBVIOUS
  <2>2. Len(got) + 2 \in 1 .. Len(r)
    BY <1>1, <1>2, <2>1 DEF HasRead
  <2>3. r[Len(got) + 2].kind \in Kinds
    <3> HIDE DEF r
    <3>1. r[Len(got) + 2] \in Field
      BY <1>2, <2>2
    <3> QED
      BY <3>1, FieldProperties
  <2> QED
    BY <1>3, <2>1, <2>3 DEF Kinds
<1>5. up = << >> /\ wr = << >>
  <2>1. Len(up) + Len(wr) = 0
    BY <1>1, <1>2, <1>4 DEF Ahead
  <2>2. Len(up) = 0 /\ Len(wr) = 0
    BY <1>1, <2>1
  <2> QED
    BY <1>1, <2>2, EmptySeq
<1>6. cpc = "read" \/ Gone
  BY <1>5 DEF WholeInv, Quiet, Types, ClientStates, Gone
<1> QED
  BY <1>1, <1>3, <1>4, <1>5, <1>6

\* The store decides on the call whose request was read, and on no other.
LEMMA WorkerStoreKeeps ==
  ASSUME WholeInv, Types', WorkerStore
  PROVE  WholeInv'
<1>1. /\ spc = "params" /\ swr = << >> /\ files = 0 /\ ~owed /\ late = << >> /\ Expects = "none"
      /\ UNCHANGED <<up, down, cpc, remaining, task, call, wr, want, left, result, mine, torn>>
      /\ UNCHANGED <<got, late>>
  BY DEF WorkerStore, clientVars, WholeInv, Answering, Types
<1>2. up = << >> /\ (wr = << >> \/ Gone) /\ (cpc = "read" \/ Gone)
  <2>1. (HasRead /\ Ahead(Len(got) + 2)) \/ (up = << >> /\ Gone)
    BY <1>1 DEF WholeInv, Requested
  <2> QED
    BY <1>1, <2>1, AllRead
<1>3. cpc = "read" =>
        /\ want = "op" /\ left = 0 /\ down = << >> /\ wr = << >>
        /\ call \in CallType /\ Op = call.op
        /\ call.op \in {"WRITE", "APPEND"} => got[4] = call.dir
        /\ call.dir => call.op \in {"WRITE", "APPEND", "READN"}
  <2> SUFFICES ASSUME cpc = "read"
               PROVE  /\ want = "op" /\ left = 0 /\ down = << >> /\ wr = << >>
                      /\ call \in CallType /\ Op = call.op
                      /\ call.op \in {"WRITE", "APPEND"} => got[4] = call.dir
                      /\ call.dir => call.op \in {"WRITE", "APPEND", "READN"}
    OBVIOUS
  <2>1. want = "op" /\ left = 0 /\ down = << >>
    BY <1>1 DEF WholeInv, Reading, Unanswered, Answered
  <2>2. call \in CallType /\ (call.dir => call.op \in {"WRITE", "APPEND", "READN"})
    BY DEF WholeInv, Types
  <2>3. HasRead /\ Ahead(Len(got) + 2)
    BY <1>1 DEF WholeInv, Requested, Gone
  <2>4. wr = << >> /\ Len(got) = Len(Request(call)) - 1 /\ Op = call.op
    BY <1>1, <2>3, AllRead
  <2> QED
    BY <2>1, <2>2, <2>3, <2>4, ParamsRead
<1>4. WillClose' /\ Quiet' /\ Verdicts'
  BY <1>1, <1>2 DEF WholeInv, WillClose, Unfinished, Owned, Quiet, Verdicts, Gone
<1>5. CASE \E a \in Acceptance(got) :
             swr' = << F("op", "OK") >> \o a.fields /\ files' = a.files
               /\ spc' = "answer" /\ verdict' = "OK" /\ UNCHANGED owed
  <2>1. PICK a \in Acceptance(got) :
          swr' = << F("op", "OK") >> \o a.fields /\ files' = a.files
            /\ spc' = "answer" /\ verdict' = "OK" /\ UNCHANGED owed
    BY <1>5
  <2>2. swr' \in Seq(Field) /\ swr' # << >> /\ files' \in 0 .. MaxBack
    BY <2>1, AcceptanceType
  <2>3. Bounded'
    BY <1>1, <2>1, <2>2 DEF WholeInv, Bounded
  <2>4. Requested' /\ Answering'
    BY <1>1, <1>2, <2>1, <2>2 DEF Requested, Answering, Gone
  <2>5. Reading'
    <3> SUFFICES ASSUME cpc = "read"
                 PROVE  wr' = << >> /\ Answered'
      BY <1>1 DEF Reading
    <3>1. ToCome' = swr'
      <4>1. ToCome' = << >> \o swr'
        BY <1>1, <1>3 DEF ToCome
      <4> QED
        BY <2>2, <4>1, ConcatEmptySeq
    <3>2. /\ swr'[1].val = "OK"
          /\ Understands(call, swr', Stage("op", 0), FilesToCome(files'))
      <4>1. got[1] = call.op
        BY <1>3 DEF Op
      <4> QED
        BY <1>3, <2>1, <4>1, AcceptanceUnderstood
    <3>3. Understands(call, ToCome, Stage(want, left), FilesToCome(files))'
      BY <1>1, <1>3, <3>1, <3>2
    <3> QED
      BY <1>1, <1>2, <1>3, <2>1, <2>2, <3>1, <3>2, <3>3 DEF Answered
  <2> QED
    BY <1>4, <2>3, <2>4, <2>5 DEF WholeInv
<1>6. CASE /\ swr' = Refusal /\ spc' = "answer" /\ verdict' = "ERROR"
           /\ UNCHANGED <<files, owed>>
  <2>1. swr' \in Seq(Field) /\ swr' # << >>
    BY <1>6, RefusalUnderstood
  <2>2. Bounded'
    BY <1>1, <1>6, <2>1 DEF WholeInv, Bounded
  <2>3. Requested' /\ Answering'
    BY <1>1, <1>2, <1>6, <2>1 DEF Requested, Answering, Gone
  <2>4. Reading'
    <3> SUFFICES ASSUME cpc = "read"
                 PROVE  wr' = << >> /\ Answered'
      BY <1>1 DEF Reading
    <3>1. ToCome' = swr'
      <4>1. ToCome' = << >> \o swr'
        BY <1>1, <1>3 DEF ToCome
      <4> QED
        BY <2>1, <4>1, ConcatEmptySeq
    <3>2. /\ swr'[1].val = "ERROR"
          /\ Understands(call, swr', Stage("op", 0), Done)
      BY <1>6, RefusalUnderstood
    <3>3. FilesToCome(files') = Done
      BY <1>1, <1>6 DEF FilesToCome
    <3>4. Understands(call, ToCome, Stage(want, left), FilesToCome(files))'
      BY <1>1, <1>3, <3>1, <3>2, <3>3
    <3> QED
      BY <1>1, <1>2, <1>3, <1>6, <2>1, <3>1, <3>2, <3>4 DEF Answered
  <2> QED
    BY <1>4, <2>2, <2>3, <2>4 DEF WholeInv
<1>7. CASE MayWait /\ owed' = TRUE /\ spc' = "select" /\ verdict' = "none"
           /\ UNCHANGED <<swr, files>>
  <2>1. Bounded'
    BY <1>1, <1>7 DEF WholeInv, Bounded
  <2>2. Requested' /\ Answering'
    BY <1>1, <1>2, <1>7 DEF Requested, Answering, Gone
  <2>3. cpc = "read" => call.op \in {"OPEN", "LOCK"}
    BY <1>3, <1>7 DEF MayWait
  <2>4. Reading'
    BY <1>1, <1>3, <1>7, <2>3 DEF Reading, Unanswered
  <2> QED
    BY <1>4, <2>1, <2>2, <2>4 DEF WholeInv
<1> QED
  BY <1>5, <1>6, <1>7 DEF WorkerStore

\* A worker writes the next field of an answer, or the next file.
LEMMA WorkerAnswersKeeps ==
  ASSUME WholeInv, Types', WorkerAnswers
  PROVE  WholeInv'
<1>1. /\ spc = "answer" /\ swr # << >> /\ late = << >> /\ ~owed
      /\ up = << >> /\ (wr = << >> \/ Gone)
      /\ spc' = IF swr' = << >> THEN "select" ELSE "answer"
      /\ UNCHANGED <<got, owed, late, verdict>>
  BY DEF WorkerAnswers, WholeInv, Answering, Requested
<1>2. cpc = "read" \/ Gone
  BY <1>1 DEF WholeInv, Quiet, Types, ClientStates, Gone
<1>3. /\ swr \in Seq(Field) /\ down \in Seq(Field) /\ files \in 0 .. MaxBack
      /\ files \in Nat /\ MaxBack \in Nat
  BY ClientAssumption DEF WholeInv, Types
<1>4. Head(swr) \in Field /\ Tail(swr) \in Seq(Field)
  BY <1>1, <1>3
<1>5. /\ UNCHANGED <<up, cpc, remaining, task, call, wr, want, left, result, mine, torn>>
      /\ down' \in Seq(Field) /\ Len(down') <= Room
      /\ ~Gone => down' = Append(down, Head(swr))
  BY <1>1, <1>4, Sent DEF WorkerAnswers, WholeInv
<1>6. cpc = "read" =>
        /\ wr = << >> /\ ToCome = down \o swr /\ ToCome # << >> /\ ToCome \in Seq(Field)
        /\ Understands(call, ToCome, Stage(want, left), FilesToCome(files))
        /\ verdict = IF want = "op" THEN ToCome[1].val
                     ELSE IF want = "errno" THEN "ERROR" ELSE "OK"
        /\ down' \o Tail(swr) = ToCome
  <2> SUFFICES ASSUME cpc = "read"
               PROVE  /\ wr = << >> /\ ToCome = down \o swr /\ ToCome # << >> /\ ToCome \in Seq(Field)
                      /\ Understands(call, ToCome, Stage(want, left), FilesToCome(files))
                      /\ verdict = IF want = "op" THEN ToCome[1].val
                                   ELSE IF want = "errno" THEN "ERROR" ELSE "OK"
                      /\ down' \o Tail(swr) = ToCome
    OBVIOUS
  <2>1. wr = << >> /\ Answered
    BY <1>1 DEF WholeInv, Reading, Unanswered
  <2>2. ToCome = down \o swr
    BY <1>1 DEF ToCome
  <2>3. ToCome \in Seq(Field)
    BY <1>3, <2>2, ConcatProperties
  <2>4. down' \o Tail(swr) = ToCome
    <3>1. down' = Append(down, Head(swr))
      BY <1>5 DEF Gone
    <3> QED
      BY <1>1, <1>3, <2>2, <3>1, JoinedMoves
  <2> QED
    BY <2>1, <2>2, <2>3, <2>4 DEF Answered
<1>7. Quiet' /\ WillClose' /\ Verdicts'
  BY <1>1, <1>2, <1>5 DEF WholeInv, Quiet, WillClose, Unfinished, Owned, Verdicts, Gone
<1>8. CASE (Tail(swr) # << >> \/ files = 0) /\ swr' = Tail(swr) /\ UNCHANGED files
  <2>1. Bounded'
    BY <1>1, <1>4, <1>5, <1>8 DEF WholeInv, Bounded
  <2>2. Requested' /\ Answering'
    BY <1>1, <1>3, <1>5, <1>8 DEF Requested, Answering, Gone
  <2>3. Reading'
    <3> SUFFICES ASSUME cpc = "read"
                 PROVE  wr' = << >> /\ Answered'
      BY <1>5 DEF Reading
    <3>1. ToCome' = ToCome
      <4>1. ToCome' = down' \o Tail(swr)
        BY <1>1, <1>8 DEF ToCome
      <4> QED
        BY <1>6, <4>1
    <3> QED
      BY <1>1, <1>5, <1>6, <1>8, <3>1 DEF Answered
  <2> QED
    BY <1>7, <2>1, <2>2, <2>3 DEF WholeInv
<1>9. CASE /\ Tail(swr) = << >> /\ files > 0
           /\ files' = files - 1
           /\ \E n \in Sizes : swr' = String \o Sized(n)
  <2>1. PICK n \in Nat : swr' = String \o Sized(n)
    BY <1>9, ClientAssumption
  <2>2. files \in 1 .. MaxBack /\ files - 1 \in 0 .. MaxBack
    BY <1>3, <1>9
  <2>3. /\ swr' \in Seq(Field) /\ swr' # << >>
        /\ Understands(call, swr', Stage("len", files), FilesToCome(files - 1))
    BY <2>1, <2>2, FileUnderstood
  <2>4. Bounded'
    BY <1>1, <1>5, <1>9, <2>2, <2>3 DEF WholeInv, Bounded
  <2>5. Requested' /\ Answering'
    BY <1>1, <1>5, <2>3 DEF Requested, Answering, Gone
  <2>6. Reading'
    <3> SUFFICES ASSUME cpc = "read"
                 PROVE  wr' = << >> /\ Answered'
      BY <1>5 DEF Reading
    <3>1. down' = ToCome
      BY <1>5, <1>6, <1>9, ConcatEmptySeq
    <3>2. ToCome' = ToCome \o swr'
      BY <1>1, <3>1 DEF ToCome
    <3>3. /\ ToCome' # << >> /\ ToCome'[1] = ToCome[1]
      <4>1. /\ ToCome \o swr' # << >> /\ Head(ToCome \o swr') = Head(ToCome)
            /\ ToCome \o swr' \in Seq(Field)
        BY <1>6, <2>3, JoinedTail
      <4> QED
        BY <1>6, <3>2, <4>1
    <3>4. FilesToCome(files) = Stage("len", files)
      BY <1>9 DEF FilesToCome
    <3>5. Understands(call, ToCome \o swr', Stage(want, left), FilesToCome(files - 1))
      BY <1>6, <2>3, <3>4, UnderstandsBoth
    <3>6. Understands(call, ToCome, Stage(want, left), FilesToCome(files))'
      BY <1>5, <1>9, <3>2, <3>5
    <3> QED
      BY <1>1, <1>5, <1>6, <2>3, <3>3, <3>6 DEF Answered
  <2> QED
    BY <1>7, <2>4, <2>5, <2>6 DEF WholeInv
<1> QED
  BY <1>8, <1>9 DEF WorkerAnswers, GoesOn

\* The answer that was put off is decided by what another client did.
LEMMA DecideLateKeeps ==
  ASSUME WholeInv, Types', DecideLate
  PROVE  WholeInv'
<1>1. /\ owed /\ owed' = FALSE /\ spc = "select" /\ up = << >> /\ swr = << >> /\ files = 0
      /\ late = << >> /\ (cpc = "read" \/ Gone)
      /\ UNCHANGED <<up, down, cpc, remaining, task, call, wr, want, left, result, mine, torn>>
      /\ UNCHANGED <<spc, got, swr, files>>
  BY DEF DecideLate, clientVars, WholeInv, Answering, Types
<1>2. \/ late' = << F("op", "OK") >> /\ verdict' = "OK"
      \/ late' = Refusal /\ verdict' = "ERROR"
  <2>1. << >> \o Refusal = Refusal /\ Append(<< >>, F("op", "OK")) = << F("op", "OK") >>
    BY RefusalUnderstood, ConcatEmptySeq
  <2> QED
    BY <1>1, <2>1 DEF DecideLate
<1>3. late' \in Seq(Field) /\ late' # << >>
  <2>1. << F("op", "OK") >> \in Seq(Field) /\ << F("op", "OK") >> # << >>
    BY OkField
  <2> QED
    BY <1>2, <2>1, RefusalUnderstood
<1>4. Bounded'
  BY <1>1, <1>2, <1>3 DEF WholeInv, Bounded
<1>5. Requested'
  BY <1>1 DEF WholeInv, Requested, Ahead, Gone
<1>6. Answering'
  BY <1>1, <1>3 DEF Answering, Gone
<1>7. Quiet' /\ Verdicts' /\ WillClose'
  BY <1>1 DEF WholeInv, Quiet, Verdicts, WillClose, Unfinished, Owned, Gone
<1>8. Reading'
  <2> SUFFICES ASSUME cpc = "read"
               PROVE  wr' = << >> /\ Answered'
    BY <1>1 DEF Reading
  <2>1. /\ wr = << >> /\ want = "op" /\ left = 0 /\ down = << >>
        /\ call.op \in {"OPEN", "LOCK"}
    BY <1>1 DEF WholeInv, Reading, Unanswered, Answered
  <2>2. ~call.dir
    BY <2>1 DEF WholeInv, Types, CallType
  <2>3. ToCome' = late'
    <3>1. ToCome' = << >> \o late'
      BY <1>1, <1>3, <2>1 DEF ToCome
    <3> QED
      BY <1>3, <3>1, ConcatEmptySeq
  <2>4. Understands(call, late', Stage("op", 0), Done) /\ late'[1].val = verdict'
    <3>1. CASE late' = << F("op", "OK") >> /\ verdict' = "OK"
      BY <2>1, <2>2, <3>1, OkUnderstood
    <3>2. CASE late' = Refusal /\ verdict' = "ERROR"
      BY <3>2, RefusalUnderstood
    <3> QED
      BY <1>2, <3>1, <3>2
  <2>5. Understands(call, ToCome, Stage(want, left), FilesToCome(files))'
    <3>1. FilesToCome(files') = Done
      BY <1>1 DEF FilesToCome
    <3> QED
      BY <1>1, <2>1, <2>3, <2>4, <3>1
  <2> QED
    BY <1>1, <1>3, <2>1, <2>3, <2>4, <2>5 DEF Answered
<1> QED
  BY <1>4, <1>5, <1>6, <1>7, <1>8 DEF WholeInv

\* Another worker writes the answer that was put off.
LEMMA LateAnswerKeeps ==
  ASSUME WholeInv, Types', LateAnswer
  PROVE  WholeInv'
<1>1. /\ late # << >> /\ late' = Tail(late) /\ ~owed
      /\ spc \in {"select", "left"} /\ up = << >> /\ swr = << >> /\ files = 0
      /\ cpc = "read" \/ Gone
      /\ UNCHANGED <<spc, got, swr, files, owed, verdict>>
  BY DEF LateAnswer, WholeInv, Answering, Types
<1>2. late \in Seq(Field) /\ down \in Seq(Field)
  BY DEF WholeInv, Types
<1>3. Head(late) \in Field /\ Tail(late) \in Seq(Field)
  BY <1>1, <1>2
<1>4. /\ UNCHANGED <<up, cpc, remaining, task, call, wr, want, left, result, mine, torn>>
      /\ down' \in Seq(Field) /\ Len(down') <= Room
      /\ ~Gone => down' = Append(down, Head(late))
  BY <1>1, <1>3, Sent DEF LateAnswer, WholeInv
<1>5. Bounded'
  BY <1>1, <1>3, <1>4 DEF WholeInv, Bounded
<1>6. Requested'
  BY <1>1, <1>4 DEF WholeInv, Requested, Ahead, Gone
<1>7. Answering' /\ Quiet' /\ Verdicts' /\ WillClose'
  BY <1>1, <1>4 DEF WholeInv, Answering, Quiet, Verdicts, WillClose, Unfinished, Owned, Gone
<1>8. Reading'
  <2> SUFFICES ASSUME cpc = "read"
               PROVE  wr' = << >> /\ Answered'
    BY <1>4 DEF Reading
  <2>1. wr = << >> /\ Answered
    BY <1>1 DEF WholeInv, Reading, Unanswered
  <2>2. down' \o Tail(late) = down \o late
    <3>1. down' = Append(down, Head(late))
      BY <1>4 DEF Gone
    <3> QED
      BY <1>1, <1>2, <3>1, JoinedMoves
  <2>3. ToCome' = ToCome
    <3>1. ToCome = down \o late
      BY <1>1 DEF ToCome
    <3>2. ToCome' = down' \o Tail(late)
      BY <1>1 DEF ToCome
    <3> QED
      BY <2>2, <3>1, <3>2
  <2> QED
    BY <1>1, <1>4, <2>1, <2>3 DEF Answered
<1> QED
  BY <1>5, <1>6, <1>7, <1>8 DEF WholeInv

\* The server ends between two answers.
LEMMA ServerEndsKeeps ==
  ASSUME WholeInv, Types', ServerEnds
  PROVE  WholeInv'
<1>1. /\ spc \in {"select", "op"} /\ late = << >> /\ swr = << >> /\ files = 0
      /\ spc' = "ended" /\ owed' = FALSE
      /\ UNCHANGED <<up, down, cpc, remaining, task, call, wr, want, left, result, mine, torn>>
      /\ UNCHANGED <<got, swr, files, late, verdict>>
  BY DEF ServerEnds, clientVars, WholeInv, Answering, Types
<1>2. Bounded'
  BY <1>1 DEF WholeInv, Bounded
<1>3. Requested' /\ Answering'
  BY <1>1 DEF Requested, Answering
<1>4. Quiet' /\ Verdicts' /\ WillClose'
  BY <1>1 DEF WholeInv, Quiet, Verdicts, WillClose, Unfinished, Owned
<1>5. Reading'
  <2> SUFFICES ASSUME cpc = "read"
               PROVE  wr' = << >> /\ (down' = << >> \/ Answered')
    BY <1>1 DEF Reading
  <2>1. wr = << >> /\ (down = << >> \/ Answered)
    BY DEF WholeInv, Reading, Unanswered
  <2>2. ToCome' = ToCome
    BY <1>1 DEF ToCome
  <2> QED
    BY <1>1, <2>1, <2>2 DEF Answered
<1> QED
  BY <1>2, <1>3, <1>4, <1>5 DEF WholeInv

-------------------------------------------------------------------------------
(* The invariant and what follows from it.                                 *)

\* Init establishes what holds of a whole connection.
LEMMA InitWhole ==
  ASSUME Init
  PROVE  WholeInv
<1>1. Types
  <2>1. << >> \in Seq(Field) /\ << >> \in Seq(Payload) /\ Len(<< >>) = 0
    OBVIOUS
  <2>2. [op |-> "CLOSE", n |-> 0, dir |-> FALSE] \in CallType
    BY DEF CallType, Ops
  <2>3. 0 <= Room /\ 0 <= MaxBack /\ 0 \in 0 .. MaxBack /\ Timeout \in Int /\ 0 \in 0 .. MaxTorn + 1
    BY ClientAssumption
  <2>4. call \in CallType /\ ~call.dir
    BY <2>2 DEF Init
  <2> QED
    BY <2>1, <2>3, <2>4 DEF Init, Types, ClientStates, ServerStates, Wanted, FileFields
<1>2. /\ Bounded /\ Requested /\ Answering /\ Quiet /\ Reading /\ Verdicts /\ WillClose
  BY ClientAssumption DEF Init, Bounded, Requested, Answering, Quiet, Reading, Verdicts, WillClose,
     Unfinished
<1> QED
  BY <1>1, <1>2 DEF WholeInv

\* A step that changes nothing.
LEMMA StutterKeeps ==
  ASSUME UNCHANGED vars
  PROVE  /\ Types => Types'
         /\ WholeInv => WholeInv'
<1>1. /\ UNCHANGED <<up, down, cpc, remaining, task, call, wr, want, left, result, mine, torn>>
      /\ UNCHANGED <<spc, got, swr, files, owed, late, verdict>>
  BY DEF vars, clientVars, serverVars
<1>2. Types => Types'
  BY <1>1 DEF Types
<1>3. ASSUME WholeInv PROVE WholeInv'
  <2>1. Bounded'
    BY <1>1, <1>3 DEF WholeInv, Bounded
  <2>2. Requested'
    BY <1>1, <1>3 DEF WholeInv, Requested, Ahead, HasRead, Gone
  <2>3. Answering' /\ Quiet' /\ Verdicts' /\ WillClose'
    BY <1>1, <1>3 DEF WholeInv, Answering, Quiet, Verdicts, WillClose, Unfinished, Owned, Gone
  <2>4. Reading'
    BY <1>1, <1>3 DEF WholeInv, Reading, Unanswered, Answered, ToCome
  <2> QED
    BY <1>2, <1>3, <2>1, <2>2, <2>3, <2>4 DEF WholeInv
<1> QED
  BY <1>2, <1>3

\* Every step keeps the types, also of a torn connection.
LEMMA NextTypes ==
  ASSUME Types, Next
  PROVE  Types'
<1>1. CASE ClientStep
  BY <1>1, SilentTypes, BeginTaskTypes, ProceedTypes, ClientWritesTypes, ClientReadsTypes,
     ClientReadsEndTypes DEF ClientStep
<1>2. CASE closeConnection \/ WriteUnreadable \/ Die
  BY <1>2, SilentTypes, WriteUnreadableTypes
<1>3. CASE ServerStep
  BY <1>3, HandlerByteTypes, WorkerOpTypes, WorkerParamTypes, WorkerStoreTypes,
     WorkerAnswersTypes DEF ServerStep
<1>4. CASE DecideLate \/ LateAnswer \/ ServerEnds
  BY <1>4, DecideLateTypes, LateAnswerTypes, ServerEndsTypes
<1> QED
  BY <1>1, <1>2, <1>3, <1>4 DEF Next

\* A whole connection stays whole until writeFile gives a request up half way.
LEMMA WholeKeeps ==
  ASSUME WholeInv, ~Torn, Types', Next
  PROVE  Torn' \/ WholeInv'
<1>1. CASE ClientStep
  BY <1>1, ConnectKeeps, BeginTaskKeeps, ProceedKeeps, ClientWritesKeeps, ClientReadsKeeps,
     ClientReadsEndKeeps DEF ClientStep
<1>2. CASE WriteUnreadable
  <2>1. torn' = 1
    BY <1>2 DEF WriteUnreadable
  <2> QED
    BY <2>1 DEF Torn
<1>3. CASE closeConnection \/ Die
  BY <1>3, closeConnectionKeeps, DieKeeps
<1>4. CASE ServerStep
  BY <1>4, HandlerByteKeeps, WorkerOpKeeps, WorkerParamKeeps, WorkerStoreKeeps,
     WorkerAnswersKeeps DEF ServerStep
<1>5. CASE DecideLate \/ LateAnswer \/ ServerEnds
  BY <1>5, DecideLateKeeps, LateAnswerKeeps, ServerEndsKeeps
<1> QED
  BY <1>1, <1>2, <1>3, <1>4, <1>5 DEF Next

\* A torn connection stays torn.
LEMMA TornStays ==
  ASSUME Types, Torn, [Next]_vars
  PROVE  Torn'
<1>1. torn \in Int
  BY ClientAssumption DEF Types
<1>2. torn' = torn \/ torn' = torn + 1
  BY DEF Next, vars, ClientStep, ServerStep, clientVars, Connect, BeginTask, Proceed, ClientWrites,
     ClientReads, ClientReadsEnd, closeConnection, WriteUnreadable, Die, HandlerByte, WorkerOp,
     WorkerParam, WorkerStore, WorkerAnswers, DecideLate, LateAnswer, ServerEnds, Takes, Leaves, Sends
<1> QED
  BY <1>1, <1>2 DEF Torn

\* Every step keeps the invariant: a connection is whole, or torn and well typed.
LEMMA ClientInvHolds == Spec => []ClientInv
<1>1. Init => ClientInv
  BY InitWhole DEF ClientInv, WholeInv
<1>2. ASSUME ClientInv, [Next]_vars PROVE ClientInv'
  <2>1. Types'
    BY <1>2, NextTypes, StutterKeeps DEF ClientInv
  <2>2. CASE Torn
    BY <1>2, <2>1, <2>2, TornStays DEF ClientInv
  <2>3. CASE ~Torn
    <3>1. Torn' \/ WholeInv'
      BY <1>2, <2>1, <2>3, WholeKeeps, StutterKeeps DEF ClientInv
    <3> QED
      BY <2>1, <3>1 DEF ClientInv
  <2> QED
    BY <2>2, <2>3
<1> QED
  BY <1>1, <1>2, PTL DEF Spec

\* Every variable of the connection has its type; the sockets never hold more
\* than Room fields.
THEOREM ClientTypes == Spec => []TypeOK
<1>1. ASSUME ClientInv PROVE TypeOK
  <2>1. ASSUME NEW s \in {up, down, wr, swr, late}, NEW i \in DOMAIN s
        PROVE  s[i].kind \in Kinds /\ s[i].val \in Values(s[i].kind)
    <3>1. s \in Seq(Field)
      BY <1>1 DEF ClientInv, Types
    <3>2. s[i] \in Field
      BY <3>1
    <3> QED
      BY <3>2, FieldProperties
  <2>2. call \in [op : Ops, n : Nat, dir : BOOLEAN]
    BY <1>1 DEF ClientInv, Types, CallType
  <2> QED
    BY <1>1, <2>1, <2>2 DEF ClientInv, WholeInv, Bounded, Types, TypeOK
<1> QED
  BY <1>1, ClientInvHolds, PTL

\* Until a request is given up half way, whoever reads from the connection finds
\* a field of the kind it reads, in requests and in answers, whatever the sizes
\* and the number of files.
THEOREM BothSidesAgree == Spec => []FramesAligned
<1>1. ClientInv => FramesAligned
  BY HeadsFit DEF ClientInv, FramesAligned
<1> QED
  BY <1>1, ClientInvHolds, PTL

\* Until a request is given up half way, nothing of the last call is left between
\* two calls of a client, neither on its way nor still to be sent.
THEOREM NothingLeftOver == Spec => []QuietBetweenCalls
<1>1. ClientInv => QuietBetweenCalls
  BY DEF ClientInv, WholeInv, Quiet, Answering, QuietBetweenCalls, Gone
<1> QED
  BY <1>1, ClientInvHolds, PTL

\* Until a request is given up half way, what a call returns is what the store
\* decided on it, at once or later.
THEOREM CallsReturnVerdicts == Spec => []ResultIsVerdict
<1>1. ClientInv => ResultIsVerdict
  BY DEF ClientInv, WholeInv, Verdicts, ResultIsVerdict
<1> QED
  BY <1>1, ClientInvHolds, PTL

\* Until a request is given up half way, no operation of main.c leaves open what
\* it did not lock, nor ends with the write or the read of a file.
THEOREM OperationsClose == Spec => []NothingLeftOpen
<1>1. ClientInv => NothingLeftOpen
  BY DEF ClientInv, WholeInv, WillClose, Unfinished, NothingLeftOpen
<1> QED
  BY <1>1, ClientInvHolds, PTL

===============================================================================

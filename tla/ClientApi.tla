------------------------------- MODULE ClientApi -------------------------------
(***************************************************************************)
(* One connection from both ends: the functions of file_storage_api.c and   *)
(* the operations client main.c puts together from them; and what server.c  *)
(* and the handlers read from the socket and write to it.                  *)
(*                                                                         *)
(* Granularity.  A step reads or writes one field: one readn or writen.    *)
(* A socket holds Room fields in each direction, a writer blocks when it is *)
(* full.  What the store decides is any decision of the handler; that each  *)
(* client is sent one answer is FileStorage!OneAnswerEach.  All calls are   *)
(* about one pathname, of which only its being sent matters.               *)
(***************************************************************************)
EXTENDS Integers, Sequences

CONSTANTS
  Sizes,       \* the sizes of data, 0 among them
  MaxBack,     \* the most files that are sent back in one answer
  Room,        \* the fields a socket holds in each direction
  MaxTorn,     \* the operations begun on a torn connection, at most
  Timeout,     \* what is left of the time to connect, in milliseconds
  Interval     \* the pause between two attempts

ASSUME ClientAssumption ==
  /\ Sizes \subseteq Nat /\ 0 \in Sizes
  /\ MaxBack \in Nat /\ MaxTorn \in Nat
  /\ Room \in Nat \ {0}
  /\ Timeout \in Nat \ {0} /\ Interval \in Nat \ {0}

VARIABLES
  up, down,    \* the fields on their way to the server and to the client
  cpc,         \* the client: see ClientStates
  remaining,   \* remaining_msec of openConnection
  task,        \* the operation of main.c in progress
  call,        \* the API function that runs, or ran last
  wr,          \* what it still has to write
  want,        \* the field it reads next
  left,        \* the files it still has to read
  result,      \* what it returned: "OK" for 0 and more, "ERROR" for -1
  spc,         \* the server: see ServerStates
  got,         \* what the worker has read of the request
  swr,         \* what the worker still has to write
  files,       \* the files it sends after that
  owed,        \* the answer was put off: the client is in a lock queue
  late,        \* what another worker still has to write to this client
  verdict,     \* what the store decided on the last request
  mine,        \* the file: "closed", "open", or "locked" for this client
  torn         \* 0 until a request is given up half way (WriteUnreadable), then one
               \* more than the operations begun since

clientVars == <<cpc, remaining, task, call, wr, want, left, result, mine, torn>>
serverVars == <<spc, got, swr, files, owed, late, verdict>>
vars       == <<up, down, clientVars, serverVars>>

\* refused: openConnection gave up; returned: a call returned and the operation
\* goes on; closed: closeConnection.
ClientStates == {"connecting", "refused", "idle", "write", "read", "returned", "closed", "dead"}

\* select: the fd is in the set of the connection handler; op: its first byte
\* was read; params, answer: a worker; left: disconnected; ended: the server
\* closed the connection, or is over.
ServerStates == {"select", "op", "params", "answer", "left", "ended"}

Gone == cpc \in {"closed", "dead"}
Torn == torn > 0

\* rest: the bytes of a field whose first ones were taken for something else.
F(kind, val) == [kind |-> kind, val |-> val]
Kinds == {"first", "op", "int", "len", "str", "bool", "size", "data", "rest"}

-------------------------------------------------------------------------------
(* What a call writes, and what a handler reads.                           *)

O_CREATE == 1
O_LOCK   == 2

Ops == {"OPEN", "LOCK", "UNLOCK", "READ", "READN", "WRITE", "APPEND", "CLOSE", "REMOVE"}

\* writen_string: the length, then the characters.
String == << F("len", 1), F("str", 0) >>

\* Seeded fault: the size is not written when there is no data.
SizedOnlyFull(n) == IF n > 0 THEN << F("size", n), F("data", n) >> ELSE << >>

\* The size of some data, and the data.
Sized(n) == << F("size", n) >> \o (IF n > 0 THEN << F("data", n) >> ELSE << >>)

\* The fields openFile, readFile, ... write, in order.  n is flags, the number
\* of files, or the size of the data.
Request(c) ==
  << F("first", 0), F("op", c.op) >> \o
  CASE c.op = "OPEN"  -> << F("int", c.n) >> \o String
    [] c.op = "READN" -> << F("int", c.n) >>
    [] c.op \in {"WRITE", "APPEND"} ->
         String \o << F("bool", c.dir) >> \o Sized(c.n)
    [] OTHER -> String

\* The parameters a handler reads; data follows a size that is not 0.
Params(op) ==
  CASE op = "OPEN"  -> << "int", "len", "str" >>
    [] op = "READN" -> << "int" >>
    [] op \in {"WRITE", "APPEND"} -> << "len", "str", "bool", "size", "data" >>
    [] OTHER -> << "len", "str" >>

\* got is the op and the values of the parameters read.
Op      == got[1]
Expects == IF Len(got) > Len(Params(Op)) \/ (Len(got) = 5 /\ got[5] = 0)
           THEN "none" ELSE Params(Op)[Len(got)]

\* What a field of some kind may hold.
Values(kind) == CASE kind = "op" -> Ops \cup {"OK", "ERROR", "invalid"}
                  [] kind = "bool" -> BOOLEAN
                  [] OTHER -> Nat

\* What a reader makes of bytes that were written as something else.  A length
\* that does not fit the buffer is left out.
Mistaken(kind) == CASE kind = "op" -> Ops \cup {"OK", "ERROR", "invalid"}
                    [] kind = "bool" -> BOOLEAN
                    [] kind = "int" -> 0 .. O_CREATE + O_LOCK
                    [] kind = "size" -> Sizes
                    [] OTHER -> {0}

\* The outcomes of reading a field of some kind from q: its value and what is
\* left of q.  Nothing on the wire says what it is: if the next field is another
\* one, or may have another length, the reader takes all of it, part of it, or all
\* of it without being done.  A field is cut once at most.
ReadFrom(q, kind) ==
  LET found == Head(q).kind
      cut   == IF found \in {"first", "rest"} THEN {} ELSE {<< F("rest", 0) >> \o Tail(q)}
      same  == found = kind /\ ~(Torn /\ kind \in {"str", "data"})
  IN IF same THEN {[done |-> TRUE, val |-> Head(q).val, rest |-> Tail(q)]}
     ELSE [done : {TRUE}, val : Mistaken(kind), rest : {Tail(q)} \cup cut]
            \cup [done : IF kind = "first" THEN {} ELSE {FALSE}, val : {0}, rest : {Tail(q)}]

-------------------------------------------------------------------------------
(* What a handler writes, and what a call reads.                           *)

\* Every answer that tells an error: the operation, then the errno.
Refusal == << F("op", "ERROR"), F("int", 1) >>

\* Seeded fault: the files are sent back whether they were asked for or not.
SendsAlways(g) == g[1] \in {"READN", "WRITE", "APPEND"}

\* on_files_replaced: the files evicted go back if the write asked for them.
SendsBack(g) == g[1] = "READN" \/ (g[1] \in {"WRITE", "APPEND"} /\ g[4])

\* What may follow OP_OK: content, or a number of files, and the files after
\* it.  For a write without data no file is evicted.
Acceptance(g) ==
  IF g[1] = "READ" THEN {[fields |-> Sized(n), files |-> 0] : n \in Sizes}
  ELSE IF ~SendsBack(g) THEN {[fields |-> << >>, files |-> 0]}
  ELSE {[fields |-> << F("size", k) >>, files |-> k] :
          k \in {j \in 0 .. MaxBack : g[1] = "READN" \/ g[5] > 0 \/ j = 0}}

\* The kind of the field a call wants, by its place in the answer.
KindOf(w) == CASE w = "op" -> "op" [] w = "errno" -> "int"
               [] w \in {"size", "count", "fileSize"} -> "size"
               [] w \in {"data", "fileData"} -> "data"
               [] OTHER -> w

-------------------------------------------------------------------------------
(* The client: main.c over file_storage_api.c.                             *)

Tasks == {"lock_file", "unlock_file", "send_file", "read_file", "remove_file",
          "read_n_files", "openLocked", "appendToFile"}

\* The first call of an operation.  The last two are no operations of main.c
\* but the calls of the API that it does not make.
FirstOp == [lock_file |-> "OPEN", unlock_file |-> "UNLOCK", send_file |-> "OPEN",
            read_file |-> "OPEN", remove_file |-> "REMOVE", read_n_files |-> "READN",
            openLocked |-> "OPEN", appendToFile |-> "APPEND"]

\* Seeded fault: lock_file returns without closing what it opened.
AfterLockNothing(r) == {}

AfterLock(r) == IF r = "ERROR" THEN {"CLOSE"} ELSE {}

\* The call of operation t that follows one of kind op that returned r.
Follows(t, op, r) ==
  CASE t = "lock_file" /\ op = "OPEN" /\ r = "OK"         -> {"LOCK"}
    [] t = "lock_file" /\ op = "LOCK"                     -> AfterLock(r)
    [] t = "unlock_file" /\ op = "UNLOCK" /\ r = "OK"     -> {"CLOSE"}
    [] t = "send_file" /\ op = "OPEN" /\ r = "OK"         -> {"WRITE"}
    [] t = "read_file" /\ op = "OPEN" /\ r = "OK"         -> {"READ"}
    [] t \in {"send_file", "read_file"} /\ op \in {"WRITE", "READ"} -> {"CLOSE"}
    [] OTHER -> {}

\* The calls of kind op in operation t: flags, count or size; with or without
\* a directory for the files that come back.
Calls(t, op) ==
  [op : {op},
   n  : CASE op = "OPEN" -> {IF t = "send_file" THEN O_CREATE + O_LOCK
                             ELSE IF t = "openLocked" THEN O_LOCK ELSE 0}
          [] op \in {"WRITE", "APPEND"} -> Sizes
          [] OTHER -> {0},
   dir : IF op \in {"WRITE", "APPEND", "READN"} THEN BOOLEAN ELSE {FALSE}]

\* openConnection tries until it succeeds or the time is over.
Connect ==
  /\ cpc = "connecting"
  /\ \/ cpc' = "idle" /\ UNCHANGED remaining
     \/ /\ remaining' = remaining - Interval
        /\ cpc' = IF remaining' > 0 THEN "connecting" ELSE "refused"
  /\ UNCHANGED <<up, down, task, call, wr, want, left, result, mine, torn, serverVars>>

Begins(c) ==
  /\ call' = c
  /\ wr' = Request(c)
  /\ cpc' = "write"
  /\ want' = "op" /\ left' = 0
  /\ UNCHANGED <<up, down, remaining, result, mine, serverVars>>

BeginTask ==
  /\ cpc = "idle" /\ torn <= MaxTorn
  /\ torn' = IF Torn THEN torn + 1 ELSE 0
  /\ \E t \in Tasks : task' = t /\ \E c \in Calls(t, FirstOp[t]) : Begins(c)

\* A call returned: the operation goes on with the next, or is over.
Proceed ==
  LET next == Follows(task, call.op, result) IN
  /\ cpc = "returned"
  /\ \/ \E op \in next : \E c \in Calls(task, op) : Begins(c) /\ UNCHANGED <<task, torn>>
     \/ /\ next = {}
        /\ cpc' = "idle" /\ task' = "none"
        /\ UNCHANGED <<up, down, remaining, call, wr, want, left, result, mine, torn, serverVars>>

closeConnection ==
  /\ cpc = "idle"
  /\ cpc' = "closed"
  /\ UNCHANGED <<up, down, remaining, task, call, wr, want, left, result, mine, torn, serverVars>>

\* WRITE_PACKET.  Writing to a connection the server closed kills the client,
\* which does not ignore SIGPIPE.
ClientWrites ==
  /\ cpc = "write"
  /\ \/ /\ spc = "ended"
        /\ cpc' = "dead"
        /\ UNCHANGED <<up, wr>>
     \/ /\ spc # "ended"
        /\ Len(up) < Room
        /\ up' = Append(up, Head(wr))
        /\ wr' = Tail(wr)
        /\ cpc' = IF wr' = << >> THEN "read" ELSE "write"
  /\ UNCHANGED <<down, remaining, task, call, want, left, result, mine, torn, serverVars>>

\* What becomes of the file when a call on it returns r: what the client may
\* take for granted, whatever others do to the file.
Owned(r) ==
  CASE call.op = "OPEN" /\ r = "OK" ->
         (IF call.n >= O_LOCK \/ mine = "locked" THEN "locked" ELSE "open")
    [] call.op = "LOCK" /\ r = "OK" -> "locked"
    [] call.op = "UNLOCK" /\ r = "OK" -> "open"
    [] call.op = "CLOSE" -> "closed"
    [] call.op = "REMOVE" /\ r = "OK" -> "closed"
    [] OTHER -> mine

Returns(r) ==
  /\ cpc' = "returned" /\ result' = r
  /\ mine' = Owned(r)
  /\ UNCHANGED <<want, left>>

\* writeFile goes on when read_file_util failed: data_size and data hold
\* anything.  A size of 0 is an empty write; after another size write fails on
\* the address, the call returns, and the size it announced stays announced.
WriteUnreadable ==
  /\ cpc = "write"
  /\ call.op = "WRITE" /\ Head(wr).kind = "data"
  /\ wr' = << >> /\ torn' = IF Torn THEN torn ELSE 1
  /\ Returns("ERROR")
  /\ UNCHANGED <<up, down, remaining, task, call, serverVars>>

Wants(w, n) ==
  /\ want' = w /\ left' = n
  /\ UNCHANGED <<cpc, result, mine>>

\* A file was read whole.  It is saved below dirname, which must not be NULL
\* (strnlen in readNFiles).
FileDone ==
  IF call.op = "READN" /\ ~call.dir
  THEN cpc' = "dead" /\ UNCHANGED <<want, left, result, mine>>
  ELSE IF left = 1 THEN Returns("OK") ELSE Wants("len", left - 1)

\* Seeded faults: content of size 0 is waited for; the loop runs once too often.
ContentAlways(v)    == Wants("data", 0)
FirstFileOneMore(v) == Wants("len", v + 1)

\* The loops of readNFiles, writeFile and appendToFile over v files.
FirstFile(v) == IF v > 0 THEN Wants("len", v) ELSE Returns("OK")

Content(v) == IF v > 0 THEN Wants("data", 0) ELSE Returns("OK")

\* The call goes on with the value v of the field it wanted.
AfterField(v) ==
  CASE want = "op" /\ v = "ERROR" -> Wants("errno", 0)
    [] want = "op" /\ v # "ERROR" ->
         (IF call.op = "READ" THEN Wants("size", 0)
          ELSE IF call.op = "READN" \/ call.dir THEN Wants("count", 0)
          ELSE Returns("OK"))
    [] want = "errno" -> Returns("ERROR")
    [] want = "size" -> Content(v)
    [] want = "data" -> Returns("OK")
    [] want = "count" -> FirstFile(v)
    [] want = "len" -> Wants("str", left)
    [] want = "str" -> Wants("fileSize", left)
    [] want = "fileSize" -> IF v > 0 THEN Wants("fileData", left) ELSE FileDone
    [] want = "fileData" -> FileDone

\* What a variable may hold that was not read into: only the number of files
\* sent back by a write is initialised.
Garbage ==
  CASE want = "op" -> {"OK", "ERROR"}
    [] want = "count" /\ call.op # "READN" -> {0}
    [] KindOf(want) = "size" -> Sizes
    [] OTHER -> {0}

ClientReads ==
  /\ cpc = "read"
  /\ down # << >>
  /\ \E r \in ReadFrom(down, KindOf(want)) :
       /\ down' = r.rest
       /\ IF r.done THEN AfterField(r.val) ELSE UNCHANGED <<cpc, want, left, result, mine>>
  /\ UNCHANGED <<up, remaining, task, call, wr, torn, serverVars>>

\* The server closed the connection: read returns 0, and so does readn, which
\* is not the -1 the calls look for; they go on with whatever their variables
\* hold.  If it left some of the request unread, read fails instead.
ClientReadsEnd ==
  /\ cpc = "read"
  /\ down = << >> /\ spc = "ended"
  /\ IF up # << >> THEN Returns("ERROR")
                   ELSE \E v \in Garbage : AfterField(v)
  /\ UNCHANGED <<up, down, remaining, task, call, wr, torn, serverVars>>

\* The client is killed.
Die ==
  /\ cpc \in {"idle", "write", "read", "returned"}
  /\ cpc' = "dead"
  /\ UNCHANGED <<up, down, remaining, task, call, wr, want, left, result, mine, torn, serverVars>>

-------------------------------------------------------------------------------
(* The server.                                                             *)

\* A read of the server went as r says.
Takes(r) == up' = r.rest /\ UNCHANGED <<down, clientVars>>

\* Seeded fault: a client that is gone stays in the set.
LeavesNot == spc' = "select" /\ UNCHANGED <<up, down, owed, clientVars>>

\* on_client_disconnected: the client is taken out of the lock queues.
Leaves == spc' = "left" /\ owed' = FALSE /\ UNCHANGED <<up, down, clientVars>>

EndOfFile == up = << >> /\ Gone

\* handle_connections: the unused first byte of a request, or the end of file.
HandlerByte ==
  /\ spc = "select" /\ cpc # "connecting"
  /\ \/ /\ up # << >>
        /\ \E r \in ReadFrom(up, "first") : Takes(r)
        /\ spc' = "op" /\ UNCHANGED owed
     \/ EndOfFile /\ Leaves
  /\ UNCHANGED <<got, swr, files, late, verdict>>

\* What a worker does with an operation: the default of the switch skips one
\* that is not a request, after an invalid one the connection is closed.
Dispatch(op) ==
  \/ op \in Ops /\ got' = << op >> /\ spc' = "params" /\ UNCHANGED owed
  \/ op \in {"OK", "ERROR"} /\ spc' = "select" /\ UNCHANGED <<got, owed>>
  \/ op = "invalid" /\ spc' = "ended" /\ owed' = FALSE /\ UNCHANGED got

\* handle_client_requests: the operation, or the end of file.
WorkerOp ==
  /\ spc = "op"
  /\ \/ /\ up # << >>
        /\ \E r \in ReadFrom(up, "op") :
             Takes(r) /\ IF r.done THEN Dispatch(r.val) ELSE UNCHANGED <<spc, got, owed>>
     \/ EndOfFile /\ Leaves /\ UNCHANGED got
  /\ UNCHANGED <<swr, files, late, verdict>>

\* CHECK_READ and CHECK_READ_PATH: a parameter, or the end of file; that is
\* answered with EBADMSG, except in the middle of a string, where readn_string
\* does not look for it.
WorkerParam ==
  /\ spc = "params"
  /\ Expects # "none"
  /\ \/ /\ up # << >>
        /\ \E r \in ReadFrom(up, Expects) :
             Takes(r) /\ got' = IF r.done THEN Append(got, r.val) ELSE got
        /\ UNCHANGED <<spc, swr>>
     \/ EndOfFile /\ Expects = "str"
        /\ got' = Append(got, 0)
        /\ UNCHANGED <<up, down, spc, swr, clientVars>>
     \/ EndOfFile /\ Expects # "str"
        /\ spc' = "answer" /\ swr' = Refusal
        /\ UNCHANGED <<up, down, got, clientVars>>
  /\ UNCHANGED <<files, owed, late, verdict>>

MayWait == Op = "LOCK" \/ (Op = "OPEN" /\ got[2] = O_LOCK)

\* The handler in the store: it accepts, refuses, or puts the answer off.
WorkerStore ==
  /\ spc = "params" /\ Expects = "none"
  /\ \/ \E a \in Acceptance(got) :
          swr' = << F("op", "OK") >> \o a.fields /\ files' = a.files
            /\ spc' = "answer" /\ verdict' = "OK" /\ UNCHANGED owed
     \/ Op # "READN"
          /\ swr' = Refusal /\ spc' = "answer" /\ verdict' = "ERROR"
          /\ UNCHANGED <<files, owed>>
     \/ MayWait /\ owed' = TRUE /\ spc' = "select" /\ verdict' = "none"
          /\ UNCHANGED <<swr, files>>
  /\ UNCHANGED <<up, down, clientVars, got, late>>

\* A write of the server; nothing reaches a client that is gone, nor one whose
\* connection was closed.
Sends(f) ==
  /\ \/ (Gone \/ spc = "ended") /\ UNCHANGED down
     \/ ~Gone /\ spc # "ended" /\ Len(down) < Room /\ down' = Append(down, f)
  /\ UNCHANGED <<up, clientVars>>

\* What is left when the head was written: the rest, or the next of the files.
GoesOn ==
  \/ (Tail(swr) # << >> \/ files = 0) /\ swr' = Tail(swr) /\ UNCHANGED files
  \/ Tail(swr) = << >> /\ files > 0
       /\ files' = files - 1
       /\ \E n \in Sizes : swr' = String \o Sized(n)

WorkerAnswers ==
  /\ spc = "answer"
  /\ Sends(Head(swr))
  /\ GoesOn
  /\ spc' = IF swr' = << >> THEN "select" ELSE "answer"
  /\ UNCHANGED <<got, owed, late, verdict>>

\* Seeded fault: the waiters of a file that is removed are told it is theirs.
DecideLateOk ==
  /\ owed /\ owed' = FALSE
  /\ late' = Append(late, F("op", "OK")) /\ verdict' \in {"OK", "ERROR"}
  /\ UNCHANGED <<up, down, clientVars, spc, got, swr, files>>

\* Another worker hands the lock on to this client, or removes the file.
DecideLate ==
  /\ owed /\ owed' = FALSE
  /\ \/ late' = Append(late, F("op", "OK")) /\ verdict' = "OK"
     \/ late' = late \o Refusal /\ verdict' = "ERROR"
  /\ UNCHANGED <<up, down, clientVars, spc, got, swr, files>>

LateAnswer ==
  /\ late # << >>
  /\ Sends(Head(late))
  /\ late' = Tail(late)
  /\ UNCHANGED <<spc, got, swr, files, owed, verdict>>

\* The process ends (S_FAST): the workers have finished what they were doing.
ServerEnds ==
  /\ spc \in {"select", "op"} /\ late = << >>
  /\ cpc # "connecting"
  /\ spc' = "ended" /\ owed' = FALSE
  /\ UNCHANGED <<up, down, clientVars, got, swr, files, late, verdict>>

-------------------------------------------------------------------------------
Init ==
  /\ up = << >> /\ down = << >>
  /\ cpc = "connecting" /\ remaining = Timeout
  /\ task = "none" /\ call = [op |-> "CLOSE", n |-> 0, dir |-> FALSE]
  /\ wr = << >> /\ want = "op" /\ left = 0 /\ result = "none"
  /\ spc = "select" /\ got = << >> /\ swr = << >> /\ files = 0
  /\ owed = FALSE /\ late = << >> /\ verdict = "none"
  /\ mine = "closed" /\ torn = 0

ClientStep == Connect \/ BeginTask \/ Proceed \/ ClientWrites \/ ClientReads \/ ClientReadsEnd
ServerStep == HandlerByte \/ WorkerOp \/ WorkerParam \/ WorkerStore \/ WorkerAnswers

Next == ClientStep \/ closeConnection \/ WriteUnreadable \/ Die
          \/ ServerStep \/ DecideLate \/ LateAnswer \/ ServerEnds

Spec == Init /\ [][Next]_vars

\* The process of the client and the threads of the server run until they
\* block.  Nobody is made to give a lock up, to die or to stop the server.
Fairness == WF_vars(ClientStep) /\ WF_vars(ServerStep) /\ WF_vars(LateAnswer)

FairSpec == Spec /\ Fairness

-------------------------------------------------------------------------------
(* Properties.                                                             *)

\* A request that writeFile gives up half way (WriteUnreadable) tears the
\* connection: neither side can tell what the next bytes are.  What the properties
\* below say of fields and answers they say of a connection that is not torn;
\* what a torn one does is TornWrite.cfg's.

\* Every variable has its type.
TypeOK ==
  /\ \A s \in {up, down, wr, swr, late} : \A i \in DOMAIN s :
       s[i].kind \in Kinds /\ s[i].val \in Values(s[i].kind)
  /\ Len(up) <= Room /\ Len(down) <= Room
  /\ cpc \in ClientStates /\ spc \in ServerStates
  /\ remaining \in Int
  /\ task \in Tasks \cup {"none"}
  /\ call \in [op : Ops, n : Nat, dir : BOOLEAN]
  /\ left \in Nat /\ (spc # "ended" /\ ~Torn => left <= MaxBack)
  /\ files \in 0 .. MaxBack
  /\ result \in {"none", "OK", "ERROR"} /\ verdict \in {"none", "OK", "ERROR"}
  /\ owed \in BOOLEAN /\ torn \in 0 .. MaxTorn + 1
  /\ mine \in {"closed", "open", "locked"}

\* Until a request is given up half way, whoever reads a field finds one of the
\* kind it reads: the sides agree on which fields there are, also where one is
\* left out (data of size 0, files that were not asked for, what follows a
\* refusal).  Nothing on the wire says what it is, so one field too many or too
\* few makes numbers out of names.
FramesAligned ==
  ~Torn =>
    /\ cpc = "read" /\ down # << >> => Head(down).kind = KindOf(want)
    /\ up # << >> /\ spc = "select" => Head(up).kind = "first"
    /\ up # << >> /\ spc = "op" => Head(up).kind = "op"
    /\ up # << >> /\ spc = "params" => Head(up).kind = Expects

\* Until a request is given up half way, nothing is on its way between two calls
\* and the server owes nothing: the next call cannot take a late answer for its
\* own (wait_response_from_server, RET_ON_ERROR), nor the server the rest of one
\* request for the next.
QuietBetweenCalls ==
  cpc \in {"idle", "returned"} /\ spc # "ended" /\ ~Torn =>
    /\ up = << >> /\ down = << >>
    /\ spc = "select" /\ late = << >> /\ ~owed

\* While the server runs, and until a request is given up half way, a call
\* returns what the store decided, also if the answer was put off and came from
\* another worker.
ResultIsVerdict == cpc = "returned" /\ spc # "ended" /\ ~Torn => result = verdict

\* After an operation of main.c a file is open only if it is locked: whatever
\* call failed on the way, what it opened was closed again (lock_file,
\* unlock_file), and stays in nobody's way.  send_file opens with the lock: no
\* operation ends with the write or the read, closeFile comes after it.
NothingLeftOpen ==
  cpc = "idle" /\ ~Torn => mine # "open" /\ call.op \notin {"WRITE", "READ"}

\* Every call returns, unless it waits for a lock: client and server never wait
\* for each other, however little the socket holds.  After a request was given up
\* half way they may: the server waits for the rest of it.
EveryCallReturns ==
  cpc \in {"write", "read"} ~> (cpc \in {"returned", "dead"} \/ owed \/ Torn)

\* That a client is gone is noticed, wherever it was: between calls, in the
\* middle of a request, while it is answered, or waiting for a lock; and also if
\* a request was given up half way.
EveryEndIsNoticed == Gone ~> spc \in {"left", "ended"}

-------------------------------------------------------------------------------
(* Properties the source states and the code does not have.                *)

\* file_storage_api.h: a call returns 0 if it succeeded, -1 if it failed.
SuccessMeansAnswered == cpc = "returned" /\ result = "OK" => verdict = "OK"

\* file_storage_api.h on closeFile and the others: a call returns 0 if it
\* succeeded.  Then what the server handled, and accepted, was that call.
SuccessMeansServed ==
  cpc = "returned" /\ result = "OK" /\ spc # "ended" =>
    got[1] = call.op /\ verdict = "OK"

================================================================================

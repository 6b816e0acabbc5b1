------------------------------ MODULE FileStorage ------------------------------
(***************************************************************************)
(* The file store and its request handlers: handle_client.c over           *)
(* file_stored.c and file_system.c, together with the sends of the workers *)
(* that run the handlers and the disconnections server.c hands to them.    *)
(*                                                                         *)
(* Granularity.  Every handler that changes the store does so inside one   *)
(* acquire_write_lock_fs ... release_write_lock_fs section, so it is one   *)
(* step.  The answers it writes after the section are still to be sent     *)
(* when other workers enter theirs: they are the queue out[c] of the       *)
(* worker serving c, and Deliver sends them one recipient at a time.  The  *)
(* two read handlers send inside a read section: rlock is the set of       *)
(* clients whose answer is being sent under the read lock.                 *)
(*                                                                         *)
(* A client is its fd; fds are not reused, because the server never closes *)
(* the fd of a client it found disconnected (on_client_disconnected).      *)
(* Which files a write evicts is any choice some order of the files allows *)
(* here; the order the configured policy gives is not part of this module. *)
(***************************************************************************)
EXTENDS Integers, FiniteSets, LinkedList

CONSTANTS
  Clients,     \* the clients that connect during a behaviour
  Files,       \* the pathnames they use
  NoClient,    \* the lock owner -1
  NoFile,      \* the subject of an answer that is about no single file
  MaxMemory,   \* max_memory_size, in bytes of the model
  MaxFiles,    \* max_file_count
  Sizes,       \* the data sizes of write and append requests
  Workers,     \* the number of worker threads
  Mortal       \* the clients that may die while they wait for an answer

ASSUME ConstantsAssumption ==
  /\ IsFiniteSet(Files)
  /\ NoClient \notin Clients /\ NoFile \notin Files
  /\ MaxMemory \in Nat /\ MaxFiles \in Nat
  /\ Sizes \subseteq Nat
  /\ Workers \in Nat \ {0}
  /\ Mortal \subseteq Clients

VARIABLES
  file,         \* files_stored: the file_stored of each pathname, or Absent
  filenames,    \* filenames_stored, as a set
  usedMemory,   \* current_used_memory
  fileCount,    \* current_file_count
  status,       \* of each client: see Statuses
  out,          \* out[c]: what the worker serving c still has to send
  rlock,        \* clients served inside a read section of the store
  heap          \* "corrupt" once a list was used through a dangling tail

storeVars   == <<file, filenames, usedMemory, fileCount>>
sessionVars == <<status, out, rlock>>
vars        == <<storeVars, sessionVars, heap>>

\* idle: connected, no request outstanding; await: a request was taken and not
\* answered yet; gone: the client closed or died; closed: the server noticed.
Statuses == {"idle", "await", "gone", "closed"}

Errors  == {"ENOENT", "EPERM", "EACCES", "EFBIG", "EEXIST", "EMLINK", "EIDRM"}
Answers == Errors \cup {"OK"}

Messages == [to : Seq(Clients), ans : Answers,
             about : Files \cup {NoFile}, data : SUBSET Files]

FileRecords == [present       : BOOLEAN,
                locked_by     : Clients \cup {NoClient},
                opened_by     : List(Clients),
                lock_queue    : List(Clients),
                write_enabled : BOOLEAN,
                size          : Nat]

Absent == [present |-> FALSE, locked_by |-> NoClient, opened_by |-> EmptyList,
           lock_queue |-> EmptyList, write_enabled |-> FALSE, size |-> 0]

Present == {f \in Files : file[f].present}

\* The bytes the files of S hold, as a set of positions, and their number.
Bytes(S)  == {b \in S \X (1 .. MaxMemory) : b[2] <= file[b[1]].size}
Stored(S) == Cardinality(Bytes(S))

-------------------------------------------------------------------------------
(* file_stored.c: what each function does to one file_stored.              *)

create_file == [Absent EXCEPT !.present = TRUE]

file_add_client(r, c) == [r EXCEPT !.opened_by = ll_add_head(@, c)]

file_is_opened_by(r, c) == c \in Values(r.opened_by)

file_close_client(r, c) ==
  IF file_is_opened_by(r, c)
  THEN [r EXCEPT !.opened_by = ll_remove_node(@, c)]
  ELSE r

file_enqueue_lock(r, c) == [r EXCEPT !.lock_queue = ll_add_tail(@, c)]

\* Seeded fault: the owner after the last one is fd 0, not -1.
NextOwnerZero(r) ==
  IF r.lock_queue.items = << >> THEN 0 ELSE Head(r.lock_queue.items)

\* Whom file_dequeue_lock returns.
NextOwner(r) ==
  IF r.lock_queue.items = << >> THEN NoClient ELSE Head(r.lock_queue.items)

\* Seeded faults: the next owner is read but stays queued; the lock is left free
\* although the next in line is told it has it.
HandOverPeeks(r) == [r EXCEPT !.locked_by = NextOwner(r)]
HandOverFrees(r) ==
  [r EXCEPT !.locked_by  = NoClient,
            !.lock_queue = IF @.items = << >> THEN @ ELSE ll_remove_first(@)]

\* locked_by = file_dequeue_lock(file)
HandOver(r) ==
  [r EXCEPT !.locked_by  = NextOwner(r),
            !.lock_queue = IF @.items = << >> THEN @ ELSE ll_remove_first(@)]

\* Seeded faults: a dead client keeps its place in the queue; the lock of a dead
\* owner is freed with clients still waiting for it.
DeleteOwnerOnly(r, c)  == IF r.locked_by = c THEN HandOver(r) ELSE r
DeleteNoHandOver(r, c) ==
  LET q == IF c \in Values(r.lock_queue)
           THEN [r EXCEPT !.lock_queue = ll_remove_node(@, c)]
           ELSE r
  IN  IF q.locked_by = c THEN [q EXCEPT !.locked_by = NoClient] ELSE q

file_delete_lock_client(r, c) ==
  LET q == IF c \in Values(r.lock_queue)
           THEN [r EXCEPT !.lock_queue = ll_remove_node(@, c)]
           ELSE r
  IN  IF q.locked_by = c THEN HandOver(q) ELSE q

\* Seeded fault: a write leaves the file in write mode.
ReplaceKeepsWriteMode(r, n) == [r EXCEPT !.size = n]

\* Both end with the write mode reset.  file_append_content sets the size to
\* that of the data it appended, not to the total it computed.
file_replace_content(r, n) == [r EXCEPT !.size = n, !.write_enabled = FALSE]
file_append_content(r, n)  == [r EXCEPT !.size = n, !.write_enabled = FALSE]

\* free_file and free_replfile free both lists, following their tails.
FreeIsSafe(r) == TailIsSafe(r.opened_by) /\ TailIsSafe(r.lock_queue)

-------------------------------------------------------------------------------
(* Answers, and the sections the handlers run in.                          *)

Answer(c, f, a, D) == [to |-> << c >>, ans |-> a, about |-> f, data |-> D]
Ok(c, f) == Answer(c, f, "OK", {})

\* Seeded fault: the new owner is not told.
GrantUntold(w, f) == << >>

\* notify_given_lock: nothing reaches anyone when there is no new owner.
Grant(w, f) == IF w = NoClient THEN << >> ELSE << Ok(w, f) >>

\* notify_file_removed_to_lockers, for the waiters of an evicted file.
Removed(f) == [to |-> file[f].lock_queue.items, ans |-> "EIDRM",
               about |-> f, data |-> {}]

\* A worker reads the next request of c: the fd of c is not held by a worker.
Handles(c) ==
  /\ heap = "sound"
  /\ status[c] = "idle"
  /\ out[c] = << >>
  /\ Cardinality({d \in Clients : out[d] # << >>}) < Workers

\* Seeded fault: writers do not wait for the readers to finish.
InSharedSection(c) == Handles(c)

InWriteSection(c) == Handles(c) /\ rlock = {}

\* The handler leaves; msgs are the sends that follow.
Replies(c, msgs) ==
  /\ status' = [status EXCEPT ![c] = "await"]
  /\ out' = [out EXCEPT ![c] = msgs]
  /\ UNCHANGED <<rlock, heap>>

Fails(c, f, e) == Replies(c, << Answer(c, f, e, {}) >>) /\ UNCHANGED storeVars

\* A list was used through a dangling tail: a freed node is written to or
\* freed again, and nothing more is said of this server process.
Corrupts == heap' = "corrupt" /\ UNCHANGED <<storeVars, sessionVars>>

\* Seeded faults: the name of a replaced file stays listed; the memory is taken
\* off twice, by remove_file_fs and by its caller.
NamesWithNone(S)      == filenames
MemoryWithoutTwice(S) == usedMemory - Stored(S) - Stored(S)

\* What remove_file_fs leaves of the list of names and of the memory in use
\* when the files of S are removed.
NamesWithout(S)  == filenames \ S
MemoryWithout(S) == usedMemory - Stored(S)

\* Only the file_stored of f changes.
Updates(f, r) ==
  /\ file' = [file EXCEPT ![f] = r]
  /\ UNCHANGED <<filenames, usedMemory, fileCount>>

-------------------------------------------------------------------------------
(* Open.                                                                   *)

OpenCreateRefusal(f) ==
  IF fileCount >= MaxFiles THEN "EMLINK"
  ELSE IF file[f].present THEN "EEXIST"
  ELSE "OK"

\* The creator has the file open; with O_LOCK it also owns it and may write it.
NewFile(c, lock) ==
  LET r == file_add_client(create_file, c) IN
  IF lock THEN [r EXCEPT !.locked_by = c, !.write_enabled = TRUE] ELSE r

OpenCreate(c, f, lock) ==
  /\ InWriteSection(c)
  /\ \/ /\ OpenCreateRefusal(f) # "OK"
        /\ Fails(c, f, OpenCreateRefusal(f))
     \/ /\ OpenCreateRefusal(f) = "OK"
        /\ file' = [file EXCEPT ![f] = NewFile(c, lock)]
        /\ filenames' = filenames \cup {f}
        /\ fileCount' = fileCount + 1
        /\ Replies(c, << Ok(c, f) >>)
        /\ UNCHANGED usedMemory

\* r is the file with c among its openers: c takes the lock, has it already,
\* or joins the queue, and then no answer is sent.
TakesLock(c, f, r) ==
  \/ /\ r.locked_by \in {NoClient, c}
     /\ Updates(f, [r EXCEPT !.locked_by = c])
     /\ Replies(c, << Ok(c, f) >>)
  \/ /\ r.locked_by \notin {NoClient, c}
     /\ TailIsSafe(r.lock_queue)
     /\ Updates(f, file_enqueue_lock(r, c))
     /\ Replies(c, << >>)
  \/ /\ r.locked_by \notin {NoClient, c}
     /\ ~TailIsSafe(r.lock_queue)
     /\ Corrupts

\* Seeded fault: opening again adds the opener again.
OpenedAgain(r, c) == file_add_client(r, c)

\* The opener is added once.
Opened(r, c) == IF file_is_opened_by(r, c) THEN r ELSE file_add_client(r, c)

Open(c, f, lock) ==
  /\ InWriteSection(c)
  /\ \/ ~file[f].present /\ Fails(c, f, "ENOENT")
     \/ /\ file[f].present /\ ~lock
        /\ Updates(f, Opened(file[f], c))
        /\ Replies(c, << Ok(c, f) >>)
     \/ /\ file[f].present /\ lock
        /\ TakesLock(c, f, Opened(file[f], c))

-------------------------------------------------------------------------------
(* Write and append, and the replacement they may need.                    *)

\* Seeded faults: one byte too little, one byte too much is asked for.
MissingLess(n) == n - (MaxMemory - usedMemory) - 1
MissingMore(n) == n - (MaxMemory - usedMemory) + 1

\* is_size_available: the bytes missing for n more.
Missing(n) == n - (MaxMemory - usedMemory)

\* run_replacement_algorithm: the files are taken in some order, the one being
\* written skipped, until they free enough; it fails, and removes nothing, if
\* all of them do not.  No file is taken when nothing is missing.
Evictions(f, n) ==
  LET others == Present \ {f} IN
  IF Missing(n) <= 0 THEN {<< >>}
  ELSE {vs \in UNION {Injection(1 .. k, others) : k \in 1 .. Cardinality(others)} :
          /\ Stored(Range(vs)) >= Missing(n)
          /\ Stored(Range(SubSeq(vs, 1, Len(vs) - 1))) < Missing(n)}

\* on_files_replaced: the waiters of every evicted file get EIDRM; the files go
\* back to the sender if it asked for them, and then complete its answer.
WriteAnswers(c, f, vs, sendBack) ==
  LET removals == [i \in 1 .. Len(vs) |-> Removed(vs[i])] IN
  IF sendBack THEN removals \o << Answer(c, f, "OK", Range(vs)) >>
              ELSE << Ok(c, f) >> \o removals

\* The common end of write and append, r the file with its new content.
StoreData(c, f, r, n, sendBack) ==
  \/ /\ Evictions(f, n) = {}
     /\ Fails(c, f, "EFBIG")
  \/ \E vs \in Evictions(f, n) :
       /\ \A i \in 1 .. Len(vs) : FreeIsSafe(file[vs[i]])
       /\ file' = [g \in Files |-> IF g \in Range(vs) THEN Absent
                                   ELSE IF g = f THEN r ELSE file[g]]
       /\ filenames' = NamesWithout(Range(vs))
       /\ fileCount' = fileCount - Len(vs)
       /\ usedMemory' = MemoryWithout(Range(vs)) + n
       /\ Replies(c, WriteAnswers(c, f, vs, sendBack))
  \/ \E vs \in Evictions(f, n) :
       /\ \E i \in 1 .. Len(vs) : ~FreeIsSafe(file[vs[i]])
       /\ Corrupts

\* A request without data only ends the write mode.
ResetWriteMode(c, f) ==
  /\ Updates(f, [file[f] EXCEPT !.write_enabled = FALSE])
  /\ Replies(c, << Ok(c, f) >>)

TooBig(n) == n > 0 /\ MaxMemory <= n

WriteRefusal(c, f, n) ==
  IF ~file[f].present THEN "ENOENT"
  ELSE IF ~file[f].write_enabled THEN "EPERM"
  ELSE IF file[f].locked_by # c THEN "EACCES"
  ELSE IF TooBig(n) THEN "EFBIG"
  ELSE "OK"

Write(c, f, n, sendBack) ==
  LET e == WriteRefusal(c, f, n) IN
  /\ InWriteSection(c)
  /\ \/ e # "OK" /\ Fails(c, f, e)
     \/ e = "OK" /\ n = 0 /\ ResetWriteMode(c, f)
     \/ e = "OK" /\ n > 0
        /\ StoreData(c, f, file_replace_content(file[f], n), n, sendBack)

AppendRefusal(c, f, n) ==
  IF ~file[f].present THEN "ENOENT"
  ELSE IF ~file_is_opened_by(file[f], c) THEN "EPERM"
  ELSE IF file[f].locked_by \notin {NoClient, c} THEN "EACCES"
  ELSE IF TooBig(n) THEN "EFBIG"
  ELSE "OK"

AppendTo(c, f, n, sendBack) ==
  LET e == AppendRefusal(c, f, n) IN
  /\ InWriteSection(c)
  /\ \/ e # "OK" /\ Fails(c, f, e)
     \/ e = "OK" /\ n = 0 /\ ResetWriteMode(c, f)
     \/ e = "OK" /\ n > 0
        /\ StoreData(c, f, file_append_content(file[f], n), n, sendBack)

-------------------------------------------------------------------------------
(* Read: the answer is sent inside the read section.                       *)

\* Seeded fault: reading does not look at the lock.
ReadRefusalUnlocked(c, f) ==
  IF ~file[f].present THEN "ENOENT"
  ELSE IF ~file_is_opened_by(file[f], c) THEN "EPERM"
  ELSE "OK"

ReadRefusal(c, f) ==
  IF ~file[f].present THEN "ENOENT"
  ELSE IF ~file_is_opened_by(file[f], c) THEN "EPERM"
  ELSE IF file[f].locked_by \notin {NoClient, c} THEN "EACCES"
  ELSE "OK"

Sends(c, m) ==
  /\ status' = [status EXCEPT ![c] = "await"]
  /\ out' = [out EXCEPT ![c] = << m >>]
  /\ rlock' = rlock \cup {c}
  /\ UNCHANGED <<storeVars, heap>>

Read(c, f) ==
  /\ Handles(c)
  /\ \/ ReadRefusal(c, f) # "OK" /\ Fails(c, f, ReadRefusal(c, f))
     \/ ReadRefusal(c, f) = "OK" /\ Sends(c, Answer(c, f, "OK", {f}))

\* n names of the list, or all of them when n is not positive or too large.
\* Neither the lock nor the openers of the files are looked at.
ReadN(c, n) ==
  /\ Handles(c)
  /\ \E D \in SUBSET filenames :
       /\ Cardinality(D) = IF n <= 0 \/ n > fileCount THEN fileCount ELSE n
       /\ Sends(c, Answer(c, NoFile, "OK", D))

-------------------------------------------------------------------------------
(* Remove, lock, unlock, close.                                            *)

\* The clients of S read an answer.
Wake(S) == [c \in Clients |-> IF c \in S /\ status[c] = "await"
                              THEN "idle" ELSE status[c]]

RemoveRefusal(c, f) ==
  IF ~file[f].present THEN "ENOENT"
  ELSE IF file[f].locked_by # c THEN "EACCES"
  ELSE "OK"

\* The waiters get their EIDRM inside the section.
Remove(c, f) ==
  /\ InWriteSection(c)
  /\ \/ RemoveRefusal(c, f) # "OK" /\ Fails(c, f, RemoveRefusal(c, f))
     \/ /\ RemoveRefusal(c, f) = "OK"
        /\ FreeIsSafe(file[f])
        /\ file' = [file EXCEPT ![f] = Absent]
        /\ filenames' = NamesWithout({f})
        /\ usedMemory' = MemoryWithout({f})
        /\ fileCount' = fileCount - 1
        /\ status' = [Wake(Values(file[f].lock_queue)) EXCEPT ![c] = "await"]
        /\ out' = [out EXCEPT ![c] = << Ok(c, f) >>]
        /\ UNCHANGED <<rlock, heap>>
     \/ /\ RemoveRefusal(c, f) = "OK"
        /\ ~FreeIsSafe(file[f])
        /\ Corrupts

LockRefusal(c, f) ==
  IF ~file[f].present THEN "ENOENT"
  ELSE IF ~file_is_opened_by(file[f], c) THEN "EPERM"
  ELSE "OK"

Lock(c, f) ==
  /\ InWriteSection(c)
  /\ \/ LockRefusal(c, f) # "OK" /\ Fails(c, f, LockRefusal(c, f))
     \/ LockRefusal(c, f) = "OK" /\ TakesLock(c, f, file[f])

UnlockRefusal(c, f) ==
  IF ~file[f].present THEN "ENOENT"
  ELSE IF ~file_is_opened_by(file[f], c) THEN "EPERM"
  ELSE IF file[f].locked_by # c THEN "EACCES"
  ELSE "OK"

Unlock(c, f) ==
  /\ InWriteSection(c)
  /\ \/ UnlockRefusal(c, f) # "OK" /\ Fails(c, f, UnlockRefusal(c, f))
     \/ /\ UnlockRefusal(c, f) = "OK"
        /\ Updates(f, HandOver(file[f]))
        /\ Replies(c, Grant(NextOwner(file[f]), f) \o << Ok(c, f) >>)

\* Closing passes the lock on if the sender owned it; that the sender had the
\* file open is not asked.
Close(c, f) ==
  LET owned == file[f].locked_by = c IN
  /\ InWriteSection(c)
  /\ \/ ~file[f].present /\ Fails(c, f, "ENOENT")
     \/ /\ file[f].present /\ owned
        /\ Updates(f, file_close_client(HandOver(file[f]), c))
        /\ Replies(c, Grant(NextOwner(file[f]), f) \o << Ok(c, f) >>)
     \/ /\ file[f].present /\ ~owned
        /\ Updates(f, file_close_client(file[f], c))
        /\ Replies(c, << Ok(c, f) >>)

-------------------------------------------------------------------------------
(* Sends, clients that leave, and the specification.                       *)

\* The worker serving c makes its next send.  A client that is gone reads
\* nothing.  The read section ends with the last send.
Deliver(c) ==
  /\ heap = "sound"
  /\ out[c] # << >>
  /\ LET m    == Head(out[c])
         rest == IF Len(m.to) <= 1 THEN Tail(out[c])
                 ELSE << [m EXCEPT !.to = Tail(@)] >> \o Tail(out[c])
     IN  /\ status' = Wake(IF m.to = << >> THEN {} ELSE {Head(m.to)})
         /\ out' = [out EXCEPT ![c] = rest]
         /\ rlock' = IF rest = << >> THEN rlock \ {c} ELSE rlock
  /\ UNCHANGED <<storeVars, heap>>

\* closeConnection, or the end of an idle client.
Exit(c) ==
  /\ heap = "sound"
  /\ status[c] = "idle"
  /\ status' = [status EXCEPT ![c] = "gone"]
  /\ UNCHANGED <<storeVars, out, rlock, heap>>

\* A client is killed while it waits for an answer.
Die(c) ==
  /\ heap = "sound"
  /\ c \in Mortal
  /\ status[c] = "await"
  /\ status' = [status EXCEPT ![c] = "gone"]
  /\ UNCHANGED <<storeVars, out, rlock, heap>>

\* Of every listed file c is removed from the openers and from the queue; its
\* locks go to the next in line, who are told inside the section.
notify_client_disconnected_fs(c) ==
  /\ file' = [f \in Files |->
                IF f \in filenames
                THEN file_delete_lock_client(file_close_client(file[f], c), c)
                ELSE file[f]]
  /\ status' = [Wake({file'[f].locked_by : f \in {g \in filenames : file[g].locked_by = c}})
                  EXCEPT ![c] = "closed"]

\* The connection thread reads the end of file of c; the fd of c is in its
\* select set, so no worker is serving c.
Disconnect(c) ==
  /\ heap = "sound"
  /\ status[c] = "gone"
  /\ out[c] = << >>
  /\ rlock = {}
  /\ notify_client_disconnected_fs(c)
  /\ UNCHANGED <<filenames, usedMemory, fileCount, out, rlock, heap>>

Init ==
  /\ file = [f \in Files |-> Absent]
  /\ filenames = {}
  /\ usedMemory = 0 /\ fileCount = 0
  /\ status = [c \in Clients |-> "idle"]
  /\ out = [c \in Clients |-> << >>]
  /\ rlock = {}
  /\ heap = "sound"

Request(c) ==
  \/ \E f \in Files, lock \in BOOLEAN : OpenCreate(c, f, lock)
  \/ \E f \in Files, lock \in BOOLEAN : Open(c, f, lock)
  \/ \E f \in Files, n \in Sizes, sendBack \in BOOLEAN : Write(c, f, n, sendBack)
  \/ \E f \in Files, n \in Sizes, sendBack \in BOOLEAN : AppendTo(c, f, n, sendBack)
  \/ \E f \in Files : Read(c, f)
  \/ \E n \in 0 .. MaxFiles : ReadN(c, n)
  \/ \E f \in Files : Remove(c, f)
  \/ \E f \in Files : Lock(c, f)
  \/ \E f \in Files : Unlock(c, f)
  \/ \E f \in Files : Close(c, f)

Next == \E c \in Clients :
          Request(c) \/ Deliver(c) \/ Exit(c) \/ Die(c) \/ Disconnect(c)

Spec == Init /\ [][Next]_vars

\* Workers and the connection thread run until they block, and a client is a
\* program with a finite list of requests (client main.c): it always gets to
\* closeConnection, unless it waits for an answer for ever.
Fairness == \A c \in Clients :
              WF_vars(Deliver(c)) /\ WF_vars(Disconnect(c)) /\ SF_vars(Exit(c))

FairSpec == Spec /\ Fairness

-------------------------------------------------------------------------------
(* Properties: the state.                                                  *)

\* Every variable has its type; memory in use is never negative (it is a
\* size_t: below zero it would wrap and no write would ever fit again).
TypeOK ==
  /\ file \in [Files -> FileRecords]
  /\ filenames \subseteq Files
  /\ usedMemory \in Nat /\ fileCount \in Nat
  /\ status \in [Clients -> Statuses]
  /\ out \in [Clients -> Seq(Messages)]
  /\ rlock \subseteq Clients
  /\ heap \in {"sound", "corrupt"}

\* The lock of a file and its queue agree, whatever unlocks, closes and deaths
\* came in between: clients wait only while somebody owns the lock, nobody
\* waits twice or for a lock of its own, and the owner and the waiters still
\* have the file open (file_dequeue_lock, file_delete_lock_client).
LockDiscipline ==
  \A f \in Present :
    LET r == file[f] IN
    /\ r.locked_by = NoClient => r.lock_queue.items = << >>
    /\ r.locked_by \notin Values(r.lock_queue)
    /\ Distinct(r.lock_queue) /\ Distinct(r.opened_by)
    /\ Values(r.lock_queue) \subseteq Values(r.opened_by)
    /\ r.locked_by # NoClient => file_is_opened_by(r, r.locked_by)

\* The files c waits for, and the sends that are on their way to c.
WaitsFor(c) == {f \in Files : c \in Values(file[f].lock_queue)}
Due(c) == UNION {{<<d, i>> : i \in {j \in 1 .. Len(out[d]) : c \in Range(out[d][j].to)}} :
                   d \in Clients}

\* A client that waits is owed exactly one answer, as a place in one lock queue
\* or as one send of some worker, and a client that does not wait is owed none:
\* no waiter is forgotten when the file it waits for is handed over, removed or
\* evicted, and no client is sent an answer to a request it did not make, which
\* it would take for the answer to its next one.
OneAnswerEach ==
  \A c \in Clients :
    /\ status[c] = "await" =>
         Cardinality(WaitsFor(c)) + Cardinality(Due(c)) = 1
    /\ status[c] = "idle" => WaitsFor(c) = {} /\ Due(c) = {}

\* A client whose disconnection was processed owns no lock, waits for none and
\* has no file open, also if the lock was handed to it after it died.
DepartedHoldNothing ==
  \A c \in Clients, f \in Files :
    status[c] = "closed" =>
      /\ file[f].locked_by # c
      /\ c \notin Values(file[f].lock_queue)
      /\ ~file_is_opened_by(file[f], c)

\* notify_given_lock runs after the store was released, so by the time it is
\* sent the news may be old.  Still, unless its receiver was closed or the file
\* removed in the meantime, the receiver owns the lock it is told of.
GrantsAreTrue ==
  \A d \in Clients : \A i \in 1 .. Len(out[d]) :
    LET m == out[d][i] IN
    m.ans = "OK" =>
      \A w \in Range(m.to) \ {d} :
        file_is_opened_by(file[m.about], w) => file[m.about].locked_by = w

\* While content is sent under the read lock its files stay stored; and an
\* answer to a read of one file goes to a client that has it open, at a time
\* when no other client owns its lock.
ReadsAreIsolated ==
  \A c \in rlock :
    LET m == Head(out[c]) IN
    /\ m.data \subseteq Present
    /\ m.about \in Files =>
         /\ file_is_opened_by(file[m.about], c)
         /\ file[m.about].locked_by \in {NoClient, c}

\* The store never exceeds its configured limits (nor then do the maxima it
\* logs): the replacement made room before the new memory is counted.
Capacity == usedMemory <= MaxMemory /\ fileCount <= MaxFiles

\* The list of names, the counters and the table of files agree, and the memory
\* counted covers the bytes stored.
Accounting ==
  /\ filenames = Present
  /\ fileCount = Cardinality(Present)
  /\ Stored(Present) <= usedMemory

\* A file in write mode is still empty, so a write, which does not take the old
\* size off the memory in use, never replaces anything.
WriteModeIsFresh ==
  \A f \in Files : file[f].write_enabled => file[f].present /\ file[f].size = 0

-------------------------------------------------------------------------------
(* Properties: the steps.                                                  *)

\* A file disappears only because its owner removed it, or because without one
\* of the files evicted with it the store would be over its limit.
FilesLeaveForAReason ==
  [][\A f \in Present \ Present' :
       \/ \E c \in Clients : /\ file[f].locked_by = c
                             /\ out[c] = << >> /\ out'[c] = << Ok(c, f) >>
       \/ \E g \in Present \ Present' : usedMemory' + file[g].size > MaxMemory
    ]_vars

-------------------------------------------------------------------------------
(* Properties: progress.                                                   *)

\* A client that waits for an answer gets one: a lock that is wanted is always
\* passed on, and no waiter is left behind by a close, a removal or a
\* disconnection.
EveryRequestAnswered ==
  \A c \in Clients : status[c] = "await" ~> (status[c] # "await" \/ heap = "corrupt")

-------------------------------------------------------------------------------
(* Properties the source states and the code does not have.                *)

\* The operations of the store use its lists as linked_list.h defines them.
HeapSound == heap = "sound"

\* file_stored.h: an append adds the new content to the old one; and a write
\* replaces nothing (WriteModeIsFresh).  So a file that stays stored never shrinks.
ContentIsKept ==
  [][\A f \in Present \cap Present' : file'[f].size >= file[f].size]_vars

==============================================================================

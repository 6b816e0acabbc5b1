# Verification of FileStorageApplication

FileStorageApplication is an in-memory file server (C, pthreads, one UNIX socket) with a client
program. A client opens, locks, writes, appends, reads, removes and closes files by pathname; the
server keeps them within a memory and a file limit, evicting files when it has to; a lock request
for a file somebody owns is answered when the lock becomes free.

This directory holds TLA+ models of the server and of the client's side of a connection, the TLC
runs that check them on small instances, and proofs checked by TLAPS that hold for any number of
clients, files, workers and sizes.

## 1. The system

| component | source | state | operations | talks to |
|---|---|---|---|---|
| connection handler | `server.c` `handle_connections` | the fds it selects on, a local copy of the number of clients | accept, find requests, find disconnections, obey notifications | queue of requests (to workers), pipe (from workers and main), the store (disconnections) |
| workers | `server.c` `handle_client_requests` | the fd being served | take an fd, read a request, run its handler, give the fd back | queue, pipe, store, sockets |
| main thread | `server.c` `server_wait_end_signal`, `server_join_threads` | `quit_signal` | wait for a signal, notify, join, broadcast | pipe, condition variable |
| request handlers | `handle_client.c` | none of their own | open, write, append, read, read n, remove, lock, unlock, close | store under its read/write lock; answers to the sender and to waiting clients |
| store | `file_system.c` | table of files, list of names, memory and file counts, limits | add, remove, find, disconnect a client | stored files |
| stored file | `file_stored.c` | openers, owner of the lock, queue, write mode, size, content, times | open, close, enqueue, hand over, replace, append | linked lists |
| replacement | `replacement_policy.c` | none | choose files in policy order until enough is freed | store |
| lists and queues | `linked_list.c`, `queue.c` | head, tail, count | add, remove, free | |
| client API | `file_storage_api.c` | one socket, the locals of the call in progress | connect, disconnect, and one function for each request: write it field by field, read the answer | server |
| client program | client `main.c` | the list of operations | each operation is one to three calls | client API |
| configuration, logging, hash table, scripts | | | | not modelled, see section 7 |

What is hard here, and what makes each part correct:

* **Answers that come later.** A handler leaves the store and then writes; it may also have to answer
  other clients (the next owner of a lock, the waiters of an evicted file), while other workers are
  already changing what it is about. Correct: everybody who waits is answered once, and what a late
  answer says is still true.
* **Locks that outlive their clients.** Clients die while they own locks, wait for them, or both.
  Correct: a lock always goes to the next in line, and nothing stays with the dead.
* **Reads under a shared lock.** Content is sent while other readers run. Correct: nothing that is
  being sent is removed or locked.
* **Space.** Writes evict other files, inside one critical section, and may fail half way. Correct:
  limits hold, books balance, a write that is refused after files were picked for it changed nothing,
  nothing is evicted needlessly.
* **The path of an fd** through select, queue, worker and pipe. Correct: it is in one place; no
  request waits while all workers sleep.
* **Whom to evict.** The choice depends on all uses of all files up to then. Correct: the file that
  goes is the one the configured policy puts first.
* **A protocol without frames.** A request and an answer are fields in an order both sides know; which
  fields there are depends on sizes, flags and errors. Correct: both sides agree on the next
  field, nothing is left over for the next call, an end of file is noticed wherever it comes. The
  first two hold until `writeFile` gives a request up half way (section 4).
* **Shutdown**, by a flag read at three places, a pipe and a broadcast.
* **Lists with a tail pointer**, which one removal function does not maintain.

## 2. Modules

| module | models | kind |
|---|---|---|
| `LinkedList` | `linked_list.c`, `queue.c` | operators on a list value |
| `ListSpec` | what a caller of the list may rely on | abstract state machine over `LinkedList` |
| `LinkedListHeap` | `linked_list.c` with nodes, pointers and `malloc` | state machine, implements `ListSpec` |
| `FileStorage` | `handle_client.c`, `file_stored.c`, `file_system.c`, the replacement as one step, the sends of the workers and disconnections | state machine, extends `LinkedList` |
| `ReplacementLoop` | `run_replacement_algorithm` and what the handler does around it, one turn of a loop at a time | state machine, implements `FileStorage` |
| `Replacement` | the policies of `replacement_policy.c`, the times and the counter of `file_stored.c`, `set_policy_fs` | the actions of `FileStorage`, each with what the policies compare |
| `LockService` | what the server promises about the lock of one file | abstract state machine |
| `LockServices` | | refinement mapping: `FileStorage` implements one `LockService` per file |
| `Server` | the three kinds of thread of `server.c` | state machine |
| `ClientApi` | `file_storage_api.c`, the operations of client `main.c`, what the server reads from the socket and writes to it | state machine |
| `MCFileStorage`, `MCReplacementLoop`, `MCReplacement`, `MCServer` | | small instances |
| `LinkedListProofs` | lemmas on the list operators | proofs |
| `FileStorageProofs` | types, limits, accounting, write mode | proofs |
| `LockProofs` | locks, queues, answers, reads | proofs |
| `ServiceProofs` | `FileStorage` implements `LockService` for every file | proofs |
| `StepProofs` | what a step may do to the store | proofs |
| `ServerProofs` | the path of an fd through the threads | proofs |
| `ClientApiProofs` | both ends of a connection, field by field | proofs |
| `HeapProofs` | the nodes of a list, and `LinkedListHeap` implements `ListSpec` | proofs |

`FileStorage`, `Server` and `ClientApi` are three views of one program. `Server` follows the fd and
treats serving as one step. `FileStorage` treats everything up to that point as "some worker handles
a request of an idle client" and follows the data; of the threads it keeps only that at most
`Workers` handlers have sends left. `ClientApi` follows one connection field by field and treats
what the store decides as any decision the handler can make. What one view takes for granted
another one shows: `Server!OneHolder` is why an idle client is handled by one worker at a time and
is not disconnected meanwhile (`FileStorage!Handles`, the guard `out[c] = << >>` of `Disconnect`);
`FileStorage!OneAnswerEach` is why a request that was put off gets one late answer in `ClientApi`;
`ClientApi!FramesAligned` and `QuietBetweenCalls` are why the other two may treat a request and an answer as
one message; they do not follow a client whose `writeFile` failed half way, of which this is not true.

### LinkedList

A list is `[items, dangling]`: the values found from `head`, and whether `tail` is something else than
the last of those nodes. `ll_remove_node` makes it so when it unlinks the last of several nodes.
Operations that start at `tail` are defined only when `TailIsSafe`.

### LinkedListHeap and ListSpec

`node` maps the allocated addresses to `struct node`; `head`, `tail` and `count` are the fields of
`struct linked_list`. `malloc` returns any address that is not allocated, so a node that was freed comes
back, also the one `tail` still points to. `kind` says which list of the server it is, and `Uses` which
calls the server makes on it; `ll_empty` may end any of them, one `ll_remove_last` at a time. `ListSpec` is
the same list as a value, the one `FileStorage` and `Server` are written with. The refinement maps `items` to
the values found from `head` and `dangling` to "`tail` is not the last node". `OrByLuck` is the one place
where the value knows less than the pointers: a freed node that was given back to the list can
become the last one, and `tail` is right again.

### FileStorage

| variable | code |
|---|---|
| `file[f]` | the `file_stored` of pathname `f` in the hash table, or `Absent` |
| `filenames`, `usedMemory`, `fileCount` | the fields of `file_system` |
| `status[c]` | where client `c` is in its API: `idle`, `await` (sent a request, reads an answer), `gone` (closed or died), `closed` (the server noticed) |
| `out[c]` | what the worker serving `c` has still to send: its locals and its position after `release_write_lock_fs` |
| `rlock` | clients whose answer is being sent inside a read section |
| `heap` | `corrupt` once a list was used through a dangling tail; the model stops there |

One action per handler (`OpenCreate`, `Open`, `Write`, `AppendTo`, `Read`, `ReadN`, `Remove`, `Lock`,
`Unlock`, `Close`), with every refusal in the order of the code. A handler that changes the store
does it in one write section, so that is one step; its sends follow one recipient at a time in
`Deliver`, interleaved with everything else. `Remove` and `Disconnect` send inside the section,
as the code does. `Read` and `ReadN` hold the read lock from the step until their last send.
`Exit` and `Die` are the clients, `Disconnect` is `on_client_disconnected`.

Abstractions: content is its size; the order of eviction is any order (`Evictions`), so what is
checked and proved holds for all three policies (`Replacement` gives the order); a partial write to a
socket is not distinguished.

### ReplacementLoop

| variable | code |
|---|---|
| `replacing`, `request` | a worker is between the call of `run_replacement_algorithm` and the end of its write section, and what it serves |
| `inside` | the table, the names and the counters as that worker has them |
| `all_files`, `index`, `mem_freed`, `freed` | the locals of the function |
| `removed` | how many of `freed` the second loop has removed (`removing_node`) |

`Enters` is the call, with the files in any order; `Picks` one turn of the first loop, `GivesUp` the return of
`FALSE` and the refusal, `Removes` one `remove_file_fs` with `free_file_for_replacement`, `Finishes` the rest of the
handler: the new memory, the content, the answers read from the list, and its lock queues freed. All else is
`FileStorage`'s. While `replacing` only `Deliver`, `Exit` and `Die` of other clients go on, for the store is locked
for writing. So the variables of `FileStorage` are the store as the others could find it, which stays as it was when the
section began; every removal and every count is made in `inside`, and the end of the section, served or refused alike,
leaves behind whatever `inside` holds by then (`Leaves`). That a refused request changed nothing is therefore not
written into the model: a file that is removed while the loop still picks is gone when the loop gives up, and
the seeded fault `PicksRemoving` does just that. `LoopIsOneStep` says that what becomes visible at the end is what
`StoreData` does in one step, or its refusal.

### Replacement

| variable | code |
|---|---|
| `config` | `policy_type` and the name of the log in the configuration |
| `fs_policy` | the comparison function `set_policy_fs` stored, by name |
| `creation_time[f]`, `last_use_time[f]`, `use_frequency[f]` | the fields of `file_stored` |

Every action of `FileStorage` is taken together with what it does to these: `Created` is
`create_file`, `Used` is `notify_used_file`, and `PolicyRequest` says which handler calls it on which path (a
refused lock is a use, a write without data is not). Of times only the order matters, so they
are ranks without gaps, and a clock reading is the next rank or, if `Coarse`, the latest one again.
Assumed: the clock (`CLOCK_REALTIME`) is not set back while the server runs. `Compare` is the
comparison function in use, `Sorted` what `qsort` may make of the files with it (it is not stable; the file being written, which
the loop passes over, is left out), `Taken` the loop. Only the values that the two policies in question compare are kept up to date, which
leaves the others out of the state.

### LockService and LockServices

`LockService` is the lock of one file as a client sees it: `owner`, the `line` of those who wait, and who
is `owed` an answer. A client asks, takes a free lock, joins the line, releases or removes; the
file may be evicted; answers are given; a client may vanish. The mapping takes `owner` and `line` from `file[f]`
and `Owed(f)` from the sends left in `out`. `LocksAreServed` says that a step of the server is a
step of each lock or leaves it alone: so a lock goes to the first in line and to nobody else, nobody is
answered who did not ask, and nobody in line is forgotten, while the handler that does it all works on
several files at once.

### Server

A step is what a thread does between two accesses to shared data. `workerPc`, `handlerPc` and
`mainPc` are the positions; `workerFd`, `ready`, `res`, `nClients`, `nStart`, `soft` are the local
variables with the names of the code. `pending` with the position `asleep` is the queue with its
condition variable; `Enqueues` signals only when the queue was empty; `SpuriousWakeup` is what POSIX
allows. A client may be killed between the two writes that begin a request (`half`), which is how a
worker, and not the handler, comes to notice a disconnection. Clients are numbered in the order
they are accepted, and the scan goes from the highest fd down, as the code's does.

### ClientApi

| variable | code |
|---|---|
| `up`, `down` | the fields in the socket, at most `Room` each way |
| `cpc`, `task`, `call` | where the client is: operation of `main.c`, API function |
| `wr`, `want`, `left` | what the function has still to write, the field it reads next, the files still to come |
| `result`, `mine` | what the function returned; what the client may believe about the file |
| `remaining` | `remaining_msec` of `openConnection` |
| `spc`, `got`, `swr` | the fd in the server: in the set of `select`, or with a worker that read `got` and has `swr` to write |
| `files` | how many files the worker has still to write after `swr`, each as four fields |
| `owed`, `late` | the answer was put off; what another worker writes to this client |
| `verdict` | what the store decided |
| `torn` | 0 until a request was given up half way, then 1 and one more for each operation begun since |

A step is one `readn` or `writen`. A field has a kind and, where it matters, a value; nothing that is sent says
of which kind it is, which is what `FramesAligned` is about. `ClientReadsEnd` is a read after the
server closed the connection: `readn` returns 0, the functions look for -1, and go on with a variable that may never have been
set (`Garbage`). `Follows` is which call an operation makes after which result.
`WriteUnreadable` is `writeFile` giving up after it announced data it could not read: the call returns -1, the announced
size stays in the socket, and the operation goes on. From then on (`torn`) the two sides may read different fields, and a
read is what `ReadFrom` says: the next bytes are taken for a field of the kind that is wanted, all of them or
part of them (the rest is a field `rest`), or they are not enough for it, and hold any value such a field may have
(`Mistaken`). A server that meets no operation skips it or closes the connection (`Dispatch`). No connection made
(`refused`) is an end. `openLocked` and
`appendToFile` are the uses of the API that `main.c` does not make.

## 3. Properties and runs

| run | instance | states | what it shows |
|---|---|---|---|
| `locks` | 3 clients, 1 file, 2 workers, one may die waiting, fairness | 103 thousand | `TypeOK`, `LockDiscipline`, `OneAnswerEach`, `DepartedHoldNothing`, `GrantsAreTrue`, `ReadsAreIsolated`, `LocksAreServed` (refinement of `LockService`), `EveryRequestAnswered` |
| `sharing` | 2 clients, 2 files, 2 workers, memory 2, data of 1 and 2, each turn of the loops a step | 730 thousand | `LoopIsOneStep` (refinement of `FileStorage`), with waiters of the file that is replaced and other workers sending meanwhile, and the invariants and the refinement of `locks` without the deaths, under evictions and removals, and `Accounting` |
| `eviction` | 1 client, 3 files, memory 3, data of 0 to 2, three policies | 435 thousand | `PolicyTypeOK`, `Capacity`, `Accounting`, `WriteModeIsFresh`, `FilesLeaveForAReason`, `PolicyIsFollowed` |
| `threads` | 2 workers, 2 clients, any signal, fairness | 259 thousand | `TypeOK`, `OneHolder`, `NoStrandedRequest`, `RequestServed`, `FastCloseStopsHandler`, `SoftCloseEnds` |
| `list_nodes` | 4 addresses, 2 values, every kind of list | 12 thousand | `ListIsWhole`, `TailFollows`, `ImplementsList` (refinement of `ListSpec`) |
| `client_api` | 1 connection, 2 fields of room, data of 0 and 1, up to 2 files sent back, `writeFile` may give up, fairness | 225 thousand | `TypeOK`, `FramesAligned`, `QuietBetweenCalls`, `ResultIsVerdict`, `NothingLeftOpen`, `EveryCallReturns`, `EveryEndIsNoticed` |

Each property is stated, with the code it is about, above its definition. Every property of these
runs is also run against a seeded fault (the operators commented "Seeded fault", listed in
`PROJECT.json`), which TLC finds: none holds by the shape of the model.

Why the bounds are enough. A lock and its queue need an owner, a waiter that moves up and one that
leaves from the middle or the end: three clients on one file. A waiter of a file that is evicted, and
a client that owns one file and waits for another, need two files and two clients. Evictions of more
than one file for one write, with sizes that do not fit exactly, need three files, and sizes that
leave one, two or no units of the memory free. `MaxUses` 3 is one more than it takes for three files to have
different counts. Two workers are enough for any two handlers to overlap; in `threads` for one to sleep
while the other serves. A node of a list is the first, the last, both or in the middle, and four
addresses leave room for one freed node to be given out again in each place. A connection has one client; a socket
of two fields is less than any request, so both sides block; an empty and a
non-empty size, and no, one and two files in an answer are the cases the loops tell apart. After a request was given up
half way the operation in progress is followed to its end, and `MaxTorn` 0 more are begun (one more makes the
run with fairness take longer than five minutes); a field is cut at most once, and a length read from other bytes is one
that fits the buffer. For the
invariants of `FileStorage` the bounds do not matter in the end: they are proved for all
values. Symmetry (clients, files) is used where nothing is fair: `sharing`, `eviction` and the
runs of section 4 on these modules. `CHECK_DEADLOCK FALSE` everywhere: clients finish and the server stops.

Fairness. In `FileStorage`: workers and the connection handler run until they block, so `Deliver`
and `Disconnect` are weakly fair; a client is a program with a finite list of operations that ends with
`closeConnection` (client `main.c`), so it exits unless it waits for ever: `SF(Exit)`. No request is
fair: nobody has to unlock. In `Server`: every thread is weakly fair; clients, signals
and spurious wakeups are not. `SoftCloseEnds` therefore says "if the clients have gone", and it has a
second condition: no client ended in the middle of a request, see section 4. In `ClientApi`: the client
process, the worker and the worker that owes a late answer are weakly fair; a client that
waits for a lock may wait for ever, for nobody is made to release it, and nothing makes a client
exit or die or the server stop.

## 4. Disagreements between the code and what it says

Six runs are expected to end in a counterexample. Each checks one sentence of a comment or header.

| run | sentence | what happens |
|---|---|---|
| `heap_sound` | `linked_list.h:36`, and `linked_list.c:143` "SEGV ogni tanto" | `ll_remove_node` leaves `tail` on the freed node; create, open by another, close, remove ends in `ll_free` through it |
| `content_is_kept` | `file_stored.h:72` | after an append the size is that of the appended part; the memory of the rest is never given back |
| `soft_close` | `server.c:98` | one disconnection is counted twice when another fd is ready; a soft close leaves a client behind |
| `fast_close` | `server.c:158` | the broadcast comes between the check of a worker and its sleep; the server never ends |
| `server_gone` | `file_storage_api.h:70-71` | `readn` returns 0 at the end of file, which no call looks for: a lock nobody gave is reported as taken |
| `torn_write` | `file_storage_api.h:85` | `writeFile` cannot read the local file, announces a size it never set and returns -1; the server takes `closeFile` for the data, and `closeFile` the answer to the write for its own: it returns 0 and nothing was closed |

Seen while modelling, without a run of their own:

* `set_policy_fs` is given the name of the log (`server.c:628`), although `Makefile:103` sets `POLICY_NAME`: with a log that
  is not named after a policy, files go in the order of creation whatever was configured. `ChosenPolicy` is the code's choice,
  and the test scripts, whose configurations `eviction` has, name each log after the policy.
* A read of n files ignores locks (`handle_client.c:524`, against `file_storage_api.h:27`).
* Two clients that each own a file and ask for the other's wait for ever: `EveryRequestAnswered` holds in
  `locks`, with one file, and fails with two. What the code guarantees is that every lock is passed
  on, not that clients order their locks.
* Closing a file one has not opened succeeds, although `handle_client.h:86` says it fails.
* A worker that takes the last client off the count does not wake the connection handler
  (`server.c:196`), so a soft close then lasts until the next client: the second condition of `SoftCloseEnds`.
* Between lines 488 and 498 of `server.c` a decrement by a worker is lost.
* `is_size_available` computes in `int`; fds of clients that closed are never closed by the server.
* `readn_string` does not look for the end of file (`utils.c:214`).
* `readNFiles` without a directory (`main.c:336`) takes the length of a null pointer as soon as a
  file comes back: the step to `dead` in `FileDone`.
* `appendToFile` frees a buffer twice on one path (`file_storage_api.c:372`); the n of `-w dir,n` is
  always 0 (`client_params.c:145`); `openConnection` tests a result it has not set yet
  (`file_storage_api.c:104`).

## 5. Proofs

| theorem | property | module |
|---|---|---|
| `TypeCorrect` | `[]TypeOK` | `FileStorageProofs` |
| `WithinCapacity` | `[]Capacity` | `FileStorageProofs` |
| `BooksBalance` | `[]Accounting` | `FileStorageProofs` |
| `WritesAreFresh` | `[]WriteModeIsFresh` | `FileStorageProofs` |
| `LocksAreDisciplined` | `[]LockDiscipline` | `LockProofs` |
| `EveryWaiterIsOwedOneAnswer` | `[]OneAnswerEach` | `LockProofs` |
| `TheDepartedHoldNothing` | `[]DepartedHoldNothing` | `LockProofs` |
| `GrantsStayTrue` | `[]GrantsAreTrue` | `LockProofs` |
| `ReadersAreIsolated` | `[]ReadsAreIsolated` | `LockProofs` |
| `LocksAreServedAlways` | `LocksAreServed`, the refinement | `ServiceProofs` |
| `FilesLeaveOnlyForAReason` | `FilesLeaveForAReason`, an action property | `StepProofs` |
| `ReplacementIsOneStep` | `LoopIsOneStep`: the loops of the replacement are one step of `FileStorage` | `StepProofs` |
| `LoopsKeepTheStore` | `LoopSpec => Spec`: all of the above with one file removed at a time | `StepProofs` |
| `PoliciesKeepTheStore` | `PolicySpec => Spec`: all of the above under each policy | `StepProofs` |
| `ConfiguredPolicyDecides` | `PolicyIsFollowed`, an action property | `StepProofs` |
| `ServerTypes` | `[]TypeOK` of `Server` | `ServerProofs` |
| `EveryFdHasOneHolder` | `[]OneHolder` | `ServerProofs` |
| `NoRequestIsStranded` | `[]NoStrandedRequest` | `ServerProofs` |
| `ClientTypes` | `[]TypeOK` of `ClientApi` | `ClientApiProofs` |
| `BothSidesAgree` | `[]FramesAligned` | `ClientApiProofs` |
| `NothingLeftOver` | `[]QuietBetweenCalls` | `ClientApiProofs` |
| `CallsReturnVerdicts` | `[]ResultIsVerdict` | `ClientApiProofs` |
| `OperationsClose` | `[]NothingLeftOpen` | `ClientApiProofs` |
| `ChainIsTheList` | `[]ListIsWhole` | `HeapProofs` |
| `NamesAndRequestsKeepTail` | `[]TailFollows` | `HeapProofs` |
| `PointersImplementList` | `ImplementsList`, the refinement | `HeapProofs` |

Those about the store follow from `Spec` and `ConstantsAssumption` alone (finitely many files, natural limits and
sizes, sentinels that are not clients or files). Those about the threads need `ServerAssumption`: some
number of clients, and at least one worker, of which there are finitely many. Those about a connection need
`ClientAssumption`: sizes are natural numbers, 0 among them, any bound on the files in an answer, room
for at least one field, timeouts that are positive. Those about the list need only that `NULL` is not an
address. `ConfiguredPolicyDecides` also supposes that every configuration has its log named after its
policy, as those of the three test scripts have: of other ones it is false (section 4). So every
invariant the runs check and find true but `PolicyTypeOK`, the refinements of `LockService` and `ListSpec`, and every
action property without fairness are proved for all values of the constants. Those about the loops of the replacement
need `LoopAssumption` too: there are finitely many clients.

**The store** (`FileStorageProofs`). `Inv` is the type invariant with `Capacity`, `Accounting` and
`WriteModeIsFresh`. They need each other: `usedMemory` stays a natural number because the files
stored fit into it, `Capacity` after a replacement because enough was stored to cover what was
missing, and the memory covers what is stored after a write only because a file in write mode is
empty. The sum of sizes is the cardinality of a set of positions (`Bytes`), which makes it a matter of
finite sets instead of induction. `SameContent` is what requests about locks keep, so each of them is
a few lines.

**Locks** (`LockProofs`). `LockDiscipline` is not inductive: a client joining the queue of a file
must not be in it already, and the reason lies outside the file, in that it waits for nothing when it
makes a request. `LockInv` adds to `Inv`
* `Sessions`: a client is in at most one queue, or due one send of one worker, never both; who is in
  a queue waits or died; who is due a send is not idle; who waits is in one of the two;
* `Locks`: `LockDiscipline` for every file, nothing left to the closed;
* `Grants` and `Reads`: the two properties of pending sends.

`Once` and `Recipients` describe a sequence of sends; `NextSend` is what one `Deliver` does to it,
`WriteAnswersSends` what an eviction promises to whom. `QueuesMove` is the one place where
queues and sends are balanced (`SessionsStep`): whoever leaves a queue is sent something or woken,
and whoever is sent something left a queue or is the sender. Every handler then shows `QueuesStep`,
`FilesStep` and `Promises` and ends with `HandlerEnd`.

**The refinement** (`ServiceProofs`). `LockService` sees of a file its owner, its line and who is
owed an answer (`Owed`, the recipients of all pending sends about it). A handler adds to what
is owed exactly those its answers are to (`ToldOf`), because a client that makes a request has no
sends pending. Every handler is then one step of the service for the file it names (Ask, Take, Join,
Release, Remove) and one for each file it evicts (Evict), and leaves the locks of the others alone. `Sessions`
is what makes the guard of Ask and Take true: a client that makes a request is in no line and is owed
nothing. `Deliver` answers (`NextSend`), `Disconnect` is a departure for the files the client
held or waited for, and a stutter for the others.

**Steps** (`StepProofs`). Most requests let no file go (`NoneLeaves`), and a removal only the one its owner named. That
the files a write evicts leave for a reason needs the last file the
replacement took: without it the others, whose bytes add up (`StoredProperties`), would have freed
less than what was missing (`LastIsNeeded`).

**Policies** (`StepProofs`). Every step of `Replacement` is one of `FileStorage` (`PolicyStep`), so `LockInv` holds there
too; `PolicyType` adds that the times and counters are numbers and that the policy in use is the one `init_server`
chose. Which files left, and for which one, is read off the answers: they name the files (`AnswersTell`) and only one of them
is not a refusal to a waiter (`OkIsAboutTheFile`). So the files that left are those the sorted sequence begins with, and
what comes earlier in it compares as less or equal (`TakenComeFirst`). All other steps but a removal, which is for the
file removed, let no file go (`NoneLeaves`).

**The loops** (`StepProofs`). The store outside does not move while the loops run, so everything is said against it. `LoopInv`
adds to `LockInv`, while a worker is `replacing`:
* `RequestInv`: the request was accepted, and still would be, and bytes are missing for it;
* `PicksInv`: what was looked at was picked, once, but the file that is written; without the last file
  picked there is not enough. So when the loop ends with enough, the files picked are one of the sets
  `Evictions` allows (`ChosenIsEviction`), and when it ends without, all files were looked at and `Evictions` is empty
  (`GivesUpServes`);
* `RemovesInv`: nothing is removed before there is enough, and `inside` is the store without the first `removed` of
  the files picked. That there is nothing to undo when the loop gives up follows from the first half;
* `SizesFit`: no file is larger than the memory, which is why the memory count stays in step.

The list of answers, built from the replaced files after they are gone, tells the same clients the same (`AnswersAgree`),
because a `replaced_file_t` has the lock queue of the file.

**Threads** (`ServerProofs`). `OneHolder` adds up four counts for each client (select, queue, workers, pipe), and
`Held` is that sum as a function of the four containers. Lemmas say what `Append`, `Tail` and a worker that
takes another fd do to a count (`TimesAppend`, `TimesTail`, `ServingStep`); each action then moves one client
from one count to the next (`HoldersStep`) or none (`NobodyMoves`). `ServerInv` adds four facts:
* `WorkersHold`: a worker has an fd exactly while it serves it or gives it back;
* `ReadyHeld`: a client the scan has before it is still the handler's, or was found closed. The scan meets
  a closed fd more than once (section 4, `soft_close`), which is why the second half is needed;
* `BacklogStays`: there is a client to accept when select said so;
* `SignalFirst`: no worker stops before the signal. `NoStrandedRequest` needs it: when a request goes into an
  empty queue and nobody sleeps, somebody is awake only because nobody has stopped.

That the lowest client of the backlog and the highest ready fd exist (`FirstOf`, `LastOf`) is the
well-foundedness of the order of natural numbers.

**A connection** (`ClientApiProofs`). `FramesAligned` speaks of the field that is read now; what makes it stay
true is everything that is still to be read, on both sides:
* `Requested`: where the server is in the request. `Ahead(k)` says that the fields in the socket and those
  the client has not written yet are together the request from its field k on, and `HasRead` that what
  the worker holds is what came before;
* `Answering` and `Quiet`: the server writes only in answer to a request, and the worker that owes a late answer only while
  nobody else writes; between two calls both directions are empty;
* `Reading`: the call understands what will reach it. `Understands(c, q, s, e)` says that there is a path of stages (the
  field the call wants, and the files it still expects) from s to e along the fields q, each of the
  kind its stage wants. `Answered` says so of the socket, what the worker has still to write and the late answer, up
  to the files that follow. A step that reads takes the path one field further (`UnderstandsTail`), one that
  writes leaves the path alone, and a file that the worker begins makes it four fields longer;
* `Types` adds to `TypeOK` that a call reads the parts of a file only while it expects one, and `WillClose` to
  `NothingLeftOpen` what a call in progress may return.

All of it but the types is said of a connection on which no request was given up half way (`Torn`): `ClientInv` is
`Types` and, unless `Torn`, the rest. After that `FramesAligned`, `QuietBetweenCalls` and `ResultIsVerdict` are false, as
`torn_write` shows, and their theorems say nothing; `ClientTypes` holds throughout.

A first attempt was refused by the proof for two reasons. The model let the server choose all the files of an answer
at once, into a sequence of fields as long as the bounds allow; it now has a variable, `files`, and
writes one file after the other, as the loops at `handle_client.c:112` and `:526` do. And `left \in 0 .. MaxBack` was a type the client does not
keep: when the server ends in the middle of an answer, the number of files is whatever the memory held
(`readn` returned 0, the number was never set), and that may be any number.

**The list** (`HeapProofs`). `HeapInv` is `TypeOK`, `TailFollows` and `Shape`: the nodes found walking from `head`
are `IsList`, all the allocated nodes, each once, and the last points nowhere between two calls. It says nothing about where
`tail` is, except that it is not `NULL` unless the list is empty: that the chain stays whole whatever `tail` points to is what
`ListIsWhole` claims. `Chain` is a function that is defined by itself; that there is one walk only (`WalkIs`, from
the first index at which two walks would differ) makes any sequence of nodes that is `IsList` the chain. So an action is
proved by naming its new chain: `PushFront`, `PushBack` and `RemoveAt` say that the old one with a node in
front, behind, or without the one at i is again a list of the new nodes. What becomes of the values found and of
`TailIsLast` is proved with it, and is what the refinement needs: `PositionIs` (the code and the value find the same node),
`OrByLuckIs` (`tail` may come to be right because `malloc` gave its node out again).

Only model-checked: `PolicyTypeOK`, and everything with fairness (`EveryRequestAnswered`, `RequestServed`, `FastCloseStopsHandler`,
`SoftCloseEnds`, `EveryCallReturns`, `EveryEndIsNoticed`), which is beyond the prover.

## 6. Running

In this directory: `tlc -workers 2 -config Locks.cfg MCFileStorage` (any `.cfg` with the module
`PROJECT.json` names) and `tlapm LockProofs.tla`. The longest run, `sharing`, takes about two
minutes.

## 7. Not modelled

* The parse of the configuration and of sizes, logging and metrics: they touch nothing the store or
  the protocol depends on. The hash table, which is used as a map.
* The command line of the client, its walk through a directory, the files it saves, the pauses.
* The bytes of the content (their number is modelled) and the widths of C integers.
* What more than one operation does after `writeFile` gave a request up half way, and a length of more
  than the buffer holds that is read from other bytes then.
* Failures while the server starts; other requests that are malformed; reuse of an fd after a worker
  closed it for an invalid request; writers waiting behind readers (fairness of `pthread_rwlock`).

## 8. Plan

Done: `LinkedList`, `FileStorage` (store, locks, answers); `FileStorageProofs` (types, limits, books);
`LockProofs` (locks and answers); `Server`; `LinkedListHeap` and `ListSpec`; `LockService` and its
refinement; `Replacement`; `ReplacementLoop`; `ClientApi`; a soft close that ends; `ServiceProofs`, `StepProofs`, `ServerProofs`,
`ClientApiProofs` and `HeapProofs`.

Left, in this order:

1. `FileContent`: the bytes of write, append and read; `SizeArith`: `is_size_available` and the parse of
   sizes at the widths of the C types.
2. The lost decrement of `server.c:488` as a property of `Server`.

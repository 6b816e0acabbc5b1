---------------------------- MODULE ReplacementLoop ----------------------------
(***************************************************************************)
(* The replacement of files as the loops it is made of.                    *)
(*                                                                         *)
(* FileStorage lets a write that needs room evict in one step, and refuses *)
(* it in one step when all the other files do not make enough of it.       *)
(* run_replacement_algorithm does neither: it picks files one at a time,   *)
(* and only then gives up or removes what it picked, one file at a time.   *)
(* Here each turn of the two loops is a step, and so are the return to the *)
(* handler and what the handler does then.                                 *)
(*                                                                         *)
(* The worker is inside the write section all along: meanwhile the others  *)
(* only send, and clients only leave.  The variables of FileStorage are    *)
(* the store as it is outside of the section; the worker works on inside,  *)
(* which it leaves behind at the end of the section, whatever it did.      *)
(***************************************************************************)
EXTENDS FileStorage

\* The fds of a server are finitely many.
ASSUME LoopAssumption == IsFiniteSet(Clients)

VARIABLES
  replacing,    \* a worker is inside run_replacement_algorithm
  inside,       \* the store as that worker has it
  request,      \* what it serves: a write or an append with data
  all_files,    \* the files as they were sorted
  index,        \* the next of them to look at
  freed,        \* the list of replaced_file_t it builds
  mem_freed,    \* the bytes they hold
  removed       \* how many of freed were removed

loopVars == <<replacing, inside, request, all_files, index, freed, mem_freed, removed>>
allVars  == <<vars, loopVars>>

\* What the handler asks for: is_size_available was called before any removal.
mem_needed == Missing(request.n)

\* Seeded fault: the lock queue is not passed on.
EntryAlone(r, f) == [pathname |-> f, locks_queue |-> EmptyList]

\* A replaced_file_t for the file_stored r of f: they share the lock queue.
Entry(r, f) == [pathname |-> f, locks_queue |-> r.lock_queue]

-------------------------------------------------------------------------------
(* The algorithm.                                                          *)

\* The handler calls it; the order of the files is that of some policy.
Enters(c, f, n, sendBack, content) ==
  /\ InWriteSection(c)
  /\ replacing' = TRUE
  /\ inside' = [file |-> file, filenames |-> filenames,
                usedMemory |-> usedMemory, fileCount |-> fileCount]
  /\ request' = [c |-> c, f |-> f, n |-> n, sendBack |-> sendBack, content |-> content]
  /\ all_files' \in Bijection(1 .. Cardinality(Present), Present)
  /\ index' = 1 /\ freed' = << >> /\ mem_freed' = 0 /\ removed' = 0
  /\ UNCHANGED vars

\* The store without f: remove_file_fs.
RemovedFrom(s, f) ==
  [file       |-> [s.file EXCEPT ![f] = Absent],
   filenames  |-> s.filenames \ {f},
   usedMemory |-> s.usedMemory - s.file[f].size,
   fileCount  |-> s.fileCount - 1]

\* The loop that picks goes on.
Picking ==
  /\ replacing /\ heap = "sound"
  /\ mem_freed < mem_needed /\ index <= Len(all_files)

\* Seeded fault: no simulation, a file is removed when it is picked.
PicksRemoving ==
  /\ Picking
  /\ LET curr == all_files[index] IN
     \/ curr = request.f /\ UNCHANGED <<inside, freed, mem_freed, removed>>
     \/ /\ curr # request.f
        /\ freed' = Append(freed, Entry(inside.file[curr], curr))
        /\ mem_freed' = mem_freed + inside.file[curr].size
        /\ inside' = RemovedFrom(inside, curr)
        /\ removed' = removed + 1
  /\ index' = index + 1
  /\ UNCHANGED <<vars, replacing, request, all_files>>

\* One turn of the simulation: the file that is written is passed over.
Picks ==
  /\ Picking
  /\ LET curr == all_files[index] IN
     \/ curr = request.f /\ UNCHANGED <<freed, mem_freed>>
     \/ /\ curr # request.f
        /\ freed' = Append(freed, Entry(inside.file[curr], curr))
        /\ mem_freed' = mem_freed + inside.file[curr].size
  /\ index' = index + 1
  /\ UNCHANGED <<vars, replacing, inside, request, all_files, removed>>

\* The section ends: the store is s, msgs are sent, the locals are no more.
Leaves(s, msgs) ==
  /\ file' = s.file /\ filenames' = s.filenames
  /\ usedMemory' = s.usedMemory /\ fileCount' = s.fileCount
  /\ Replies(request.c, msgs)
  /\ replacing' = FALSE
  /\ inside' = << >> /\ request' = << >> /\ all_files' = << >> /\ index' = 0
  /\ freed' = << >> /\ mem_freed' = 0 /\ removed' = 0

\* All the files do not free enough: the handler refuses the request.
GivesUp ==
  /\ replacing /\ heap = "sound"
  /\ mem_freed < mem_needed /\ index > Len(all_files)
  /\ Leaves(inside, << Answer(request.c, request.f, "EFBIG", {}) >>)

\* remove_file_fs and free_file_for_replacement for the next of freed: the
\* openers are freed, the lock queue is left to the replaced_file_t.
Removes ==
  /\ replacing /\ heap = "sound"
  /\ mem_freed >= mem_needed /\ removed < Len(freed)
  /\ LET v == freed[removed + 1].pathname IN
     \/ /\ TailIsSafe(inside.file[v].opened_by)
        /\ inside' = RemovedFrom(inside, v)
        /\ removed' = removed + 1
        /\ UNCHANGED vars
     \/ /\ ~TailIsSafe(inside.file[v].opened_by)
        /\ Corrupts
        /\ UNCHANGED <<inside, removed>>
  /\ UNCHANGED <<replacing, request, all_files, index, freed, mem_freed>>

\* What on_files_replaced sends, read from the list of replaced files.
AnswersOf(list) ==
  LET told == [k \in 1 .. Len(list) |->
                 [to |-> list[k].locks_queue.items, ans |-> "EIDRM",
                  about |-> list[k].pathname, data |-> {}]]
      back == {list[k].pathname : k \in 1 .. Len(list)}
  IN  IF request.sendBack
      THEN told \o << Answer(request.c, request.f, "OK", back) >>
      ELSE << Ok(request.c, request.f) >> \o told

\* The store with the content of the request, and its memory counted.
Completed ==
  [inside EXCEPT !.file       = [@ EXCEPT ![request.f] = request.content],
                 !.usedMemory = @ + request.n]

\* Everything picked is removed: the handler stores the content, answers and
\* frees the list, the lock queues with it.
Finishes ==
  /\ replacing /\ heap = "sound"
  /\ mem_freed >= mem_needed /\ removed = Len(freed)
  /\ \/ /\ \A k \in 1 .. Len(freed) : TailIsSafe(freed[k].locks_queue)
        /\ Leaves(Completed, AnswersOf(freed))
     \/ /\ \E k \in 1 .. Len(freed) : ~TailIsSafe(freed[k].locks_queue)
        /\ Corrupts
        /\ UNCHANGED loopVars

-------------------------------------------------------------------------------
(* The steps.                                                              *)

\* An accepted write or append with data for which bytes are missing.
LacksRoom(e, n) == e = "OK" /\ n > 0 /\ Missing(n) > 0

LoopWrite(c, f, n, sendBack) ==
  IF LacksRoom(WriteRefusal(c, f, n), n)
  THEN Enters(c, f, n, sendBack, file_replace_content(file[f], n))
  ELSE Write(c, f, n, sendBack) /\ UNCHANGED loopVars

LoopAppend(c, f, n, sendBack) ==
  IF LacksRoom(AppendRefusal(c, f, n), n)
  THEN Enters(c, f, n, sendBack, file_append_content(file[f], n))
  ELSE AppendTo(c, f, n, sendBack) /\ UNCHANGED loopVars

\* Everything else that needs the store, for itself or not.
OtherRequest(c) ==
  \/ \E f \in Files, lock \in BOOLEAN : OpenCreate(c, f, lock) \/ Open(c, f, lock)
  \/ \E f \in Files : Read(c, f)
  \/ \E n \in 0 .. MaxFiles : ReadN(c, n)
  \/ \E f \in Files : Remove(c, f)
  \/ \E f \in Files : Lock(c, f) \/ Unlock(c, f) \/ Close(c, f)
  \/ Disconnect(c)

\* What goes on whether or not a worker is replacing files; the client it
\* serves waits for it.
Meanwhile(c) ==
  /\ replacing => c # request.c
  /\ Deliver(c) \/ Exit(c) \/ Die(c)

LoopNext ==
  \/ \E c \in Clients :
       \/ /\ ~replacing
          /\ \E f \in Files, n \in Sizes, sendBack \in BOOLEAN :
               LoopWrite(c, f, n, sendBack) \/ LoopAppend(c, f, n, sendBack)
       \/ ~replacing /\ OtherRequest(c) /\ UNCHANGED loopVars
       \/ Meanwhile(c) /\ UNCHANGED loopVars
  \/ Picks \/ GivesUp \/ Removes \/ Finishes

LoopInit ==
  /\ Init
  /\ replacing = FALSE
  /\ inside = << >> /\ request = << >> /\ all_files = << >> /\ index = 0
  /\ freed = << >> /\ mem_freed = 0 /\ removed = 0

LoopSpec == LoopInit /\ [][LoopNext]_allVars

-------------------------------------------------------------------------------
(* Properties.                                                             *)

\* The loops of run_replacement_algorithm and what the handler does around them
\* are the one step FileStorage makes of the request: while a worker is in them
\* nothing changes for the others but what they send and who leaves, and in the
\* end a request that is refused for want of room left the store as it was, also
\* when files had been picked; one that is served evicted files that were enough
\* and would not have been without the last, never its own, told the waiters of
\* every one of them, and the counters moved by what went and what came.
LoopIsOneStep ==
  [][replacing =>
       \/ Write(request.c, request.f, request.n, request.sendBack)
       \/ AppendTo(request.c, request.f, request.n, request.sendBack)
       \/ \E c \in Clients : Deliver(c) \/ Exit(c) \/ Die(c)
    ]_vars

================================================================================

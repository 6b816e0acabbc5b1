--------------------------- MODULE FileStorageProofs ---------------------------
(***************************************************************************)
(* The store keeps its types, its books and its limits.                    *)
(*                                                                         *)
(* The memory in use is a natural number only because what an eviction or  *)
(* a removal takes off was counted before, and that is what Accounting     *)
(* says; it stays below the limit only because a replacement frees what    *)
(* is missing.  So TypeOK is not inductive, and neither are the others:    *)
(* their conjunction is.                                                   *)
(***************************************************************************)
EXTENDS FileStorage, LinkedListProofs, FiniteSetTheorems

\* The part of TypeOK that is about the store, and that about the sessions.
StoreType ==
  /\ file \in [Files -> FileRecords]
  /\ filenames \subseteq Files
  /\ usedMemory \in Nat /\ fileCount \in Nat

SessionType ==
  /\ status \in [Clients -> Statuses]
  /\ out \in [Clients -> Seq(Messages)]
  /\ rlock \subseteq Clients
  /\ heap \in {"sound", "corrupt"}

StoreInv == StoreType /\ Accounting /\ Capacity /\ WriteModeIsFresh

Inv == StoreInv /\ SessionType

-------------------------------------------------------------------------------
(* The bytes stored.                                                       *)

LEMMA StoredProperties ==
  ASSUME file \in [Files -> FileRecords],
         NEW T, T \subseteq Files, NEW S, S \subseteq T
  PROVE  /\ IsFiniteSet(Bytes(T)) /\ Stored(T) \in Nat
         /\ Stored(S) \in Nat
         /\ Stored(S) <= Stored(T)
         /\ Stored(T \ S) = Stored(T) - Stored(S)
<1>1. IsFiniteSet(T \X (1 .. MaxMemory))
  <2>1. IsFiniteSet(T)
    BY ConstantsAssumption, FS_Subset
  <2>2. IsFiniteSet(1 .. MaxMemory)
    BY ConstantsAssumption, FS_Interval
  <2> QED
    BY <2>1, <2>2, FS_Product
<1>2. IsFiniteSet(Bytes(T)) /\ Stored(T) \in Nat
  <2>1. Bytes(T) \in SUBSET (T \X (1 .. MaxMemory))
    BY DEF Bytes
  <2> QED
    BY <1>1, <2>1, FS_Subset, FS_CardinalityType DEF Stored
<1>3. Bytes(S) \in SUBSET Bytes(T)
  BY DEF Bytes
<1>4. IsFiniteSet(Bytes(S)) /\ Stored(S) \in Nat /\ Stored(S) <= Stored(T)
  BY <1>2, <1>3, FS_Subset, FS_CardinalityType DEF Stored
<1>5. Bytes(T \ S) = Bytes(T) \ Bytes(S)
  BY DEF Bytes
<1>6. Bytes(T) \cap Bytes(S) = Bytes(S)
  BY <1>3
<1>7. Stored(T \ S) = Stored(T) - Stored(S)
  <2>1. Cardinality(Bytes(T) \ Bytes(S))
          = Cardinality(Bytes(T)) - Cardinality(Bytes(T) \cap Bytes(S))
    BY <1>2, FS_Difference
  <2> QED
    BY <1>5, <1>6, <2>1 DEF Stored
<1> QED
  BY <1>2, <1>4, <1>7

\* The bytes of the files of S in a table of files.
StoredIn(table, S) ==
  Cardinality({b \in S \X (1 .. MaxMemory) : b[2] <= table[b[1]].size})

\* The files of T, of those f with at most n bytes and the others as they were,
\* hold at most n bytes more than the files of S did.
LEMMA StoredAfterStep ==
  ASSUME NEW old \in [Files -> FileRecords], NEW new \in [Files -> FileRecords],
         NEW S, S \subseteq Files, NEW T, T \subseteq Files,
         NEW f \in Files, NEW n \in Nat,
         T \subseteq S \cup {f},
         \A g \in T \ {f} : new[g].size = old[g].size,
         new[f].size <= n
  PROVE  /\ StoredIn(new, T) \in Nat /\ StoredIn(old, S) \in Nat
         /\ StoredIn(new, T) <= StoredIn(old, S) + n
<1> DEFINE F == {f} \X (1 .. n)
           A == {b \in S \X (1 .. MaxMemory) : b[2] <= old[b[1]].size}
           B == {b \in T \X (1 .. MaxMemory) : b[2] <= new[b[1]].size}
<1>1. StoredIn(new, T) = Cardinality(B) /\ StoredIn(old, S) = Cardinality(A)
  BY DEF StoredIn
<1>2. IsFiniteSet(F) /\ Cardinality(F) = n
  <2>1. IsFiniteSet({f}) /\ Cardinality({f}) = 1
    BY FS_Singleton
  <2>2. IsFiniteSet(1 .. n) /\ Cardinality(1 .. n) = n
    BY FS_Interval
  <2>3. /\ IsFiniteSet({f} \X (1 .. n))
        /\ Cardinality({f} \X (1 .. n)) = Cardinality({f}) * Cardinality(1 .. n)
    BY <2>1, <2>2, FS_Product
  <2>4. Cardinality({f}) * Cardinality(1 .. n) = n
    BY <2>1, <2>2
  <2> QED
    BY <2>3, <2>4
<1>3. IsFiniteSet(A) /\ Cardinality(A) \in Nat
  <2>1. IsFiniteSet(S) /\ IsFiniteSet(1 .. MaxMemory)
    BY ConstantsAssumption, FS_Subset, FS_Interval
  <2>2. IsFiniteSet(S \X (1 .. MaxMemory))
    BY <2>1, FS_Product
  <2>3. A \in SUBSET (S \X (1 .. MaxMemory))
    OBVIOUS
  <2> HIDE DEF A
  <2> QED
    BY <2>2, <2>3, FS_Subset, FS_CardinalityType
<1>4. B \in SUBSET (A \cup F)
  <2> SUFFICES ASSUME NEW b \in B
               PROVE  b \in A \cup F
    OBVIOUS
  <2>0. /\ b \in T \X (1 .. MaxMemory) /\ b = << b[1], b[2] >>
        /\ b[1] \in T /\ b[2] \in 1 .. MaxMemory
        /\ b[2] <= new[b[1]].size
    OBVIOUS
  <2>1. CASE b[1] = f
    <3>1. new[f].size \in Nat /\ b[2] \in Nat \ {0}
      BY <2>0, ConstantsAssumption DEF FileRecords
    <3>2. b[2] \in 1 .. n
      BY <2>0, <2>1, <3>1
    <3> QED
      BY <2>0, <2>1, <3>2
  <2>2. CASE b[1] # f
    BY <2>0, <2>2
  <2> QED
    BY <2>1, <2>2
<1> HIDE DEF A, B, F
<1>5. /\ IsFiniteSet(A \cup F)
      /\ Cardinality(A \cup F) <= Cardinality(A) + n
  <2>1. /\ IsFiniteSet(A \cup F)
        /\ Cardinality(A \cup F) = Cardinality(A) + n - Cardinality(A \cap F)
    BY <1>2, <1>3, FS_Union
  <2>2. Cardinality(A \cap F) \in Nat
    BY <1>3, FS_Intersection, FS_CardinalityType
  <2> QED
    BY <1>3, <2>1, <2>2
<1>6. Cardinality(B) <= Cardinality(A \cup F)
  BY <1>4, <1>5, FS_Subset
<1>7. Cardinality(B) \in Nat /\ Cardinality(A \cup F) \in Nat
  BY <1>4, <1>5, FS_Subset, FS_CardinalityType
<1> QED
  BY <1>1, <1>3, <1>5, <1>6, <1>7

-------------------------------------------------------------------------------
(* What the operations on one file_stored preserve.                        *)

\* q is a file_stored with the content of r, not in write mode unless r is.
SameContent(r, q) ==
  /\ q \in FileRecords
  /\ q.present = r.present /\ q.size = r.size
  /\ q.write_enabled => r.write_enabled

LEMMA AbsentType == Absent \in FileRecords /\ create_file \in FileRecords
BY EmptyListProperties DEF Absent, create_file, FileRecords

LEMMA AddClientContent ==
  ASSUME NEW r \in FileRecords, NEW c \in Clients
  PROVE  SameContent(r, file_add_client(r, c))
<1>1. r.opened_by \in List(Clients)
  BY DEF FileRecords
<1>2. ll_add_head(r.opened_by, c) \in List(Clients)
  BY <1>1, AddHeadProperties
<1> QED
  BY <1>2 DEF SameContent, file_add_client, FileRecords

LEMMA CloseClientContent ==
  ASSUME NEW r \in FileRecords, NEW c \in Clients
  PROVE  SameContent(r, file_close_client(r, c))
<1>1. r.opened_by \in List(Clients)
  BY DEF FileRecords
<1>2. c \in Values(r.opened_by) => ll_remove_node(r.opened_by, c) \in List(Clients)
  BY <1>1, RemoveNodeProperties
<1> QED
  BY <1>2 DEF SameContent, file_close_client, file_is_opened_by, FileRecords

LEMMA EnqueueLockContent ==
  ASSUME NEW r \in FileRecords, NEW c \in Clients
  PROVE  SameContent(r, file_enqueue_lock(r, c))
<1>1. r.lock_queue \in List(Clients)
  BY DEF FileRecords
<1>2. ll_add_tail(r.lock_queue, c) \in List(Clients)
  BY <1>1, AddTailProperties
<1> QED
  BY <1>2 DEF SameContent, file_enqueue_lock, FileRecords

LEMMA NextOwnerType ==
  ASSUME NEW r \in FileRecords
  PROVE  NextOwner(r) \in Clients \cup {NoClient}
<1>1. r.lock_queue \in List(Clients)
  BY DEF FileRecords
<1> QED
  BY <1>1, RemoveFirstProperties DEF NextOwner

LEMMA HandOverContent ==
  ASSUME NEW r \in FileRecords
  PROVE  SameContent(r, HandOver(r))
<1>1. r.lock_queue \in List(Clients)
  BY DEF FileRecords
<1>2. r.lock_queue.items # << >> => ll_remove_first(r.lock_queue) \in List(Clients)
  BY <1>1, RemoveFirstProperties
<1>3. NextOwner(r) \in Clients \cup {NoClient}
  BY NextOwnerType
<1> QED
  BY <1>1, <1>2, <1>3 DEF SameContent, HandOver, FileRecords

LEMMA SameContentTransitive ==
  ASSUME NEW r, NEW q, NEW p, SameContent(r, q), SameContent(q, p)
  PROVE  SameContent(r, p)
BY DEF SameContent

LEMMA DeleteLockClientContent ==
  ASSUME NEW r \in FileRecords, NEW c \in Clients
  PROVE  SameContent(r, file_delete_lock_client(r, c))
<1> DEFINE q == IF c \in Values(r.lock_queue)
                THEN [r EXCEPT !.lock_queue = ll_remove_node(@, c)]
                ELSE r
<1>1. r.lock_queue \in List(Clients)
  BY DEF FileRecords
<1>2. c \in Values(r.lock_queue) => ll_remove_node(r.lock_queue, c) \in List(Clients)
  BY <1>1, RemoveNodeProperties
<1>3. SameContent(r, q)
  BY <1>2 DEF SameContent, FileRecords
<1> HIDE DEF q
<1>4. q \in FileRecords
  BY <1>3 DEF SameContent
<1>5. SameContent(r, HandOver(q))
  BY <1>3, <1>4, HandOverContent, SameContentTransitive
<1>6. file_delete_lock_client(r, c) = IF q.locked_by = c THEN HandOver(q) ELSE q
  BY DEF file_delete_lock_client, q
<1> QED
  BY <1>3, <1>5, <1>6

LEMMA OpenedContent ==
  ASSUME NEW r \in FileRecords, NEW c \in Clients
  PROVE  SameContent(r, Opened(r, c))
BY AddClientContent DEF Opened, SameContent

-------------------------------------------------------------------------------
(* What a step may do to the store.                                        *)

LEMMA UnchangedStore ==
  ASSUME StoreInv, UNCHANGED storeVars
  PROVE  StoreInv'
BY DEF storeVars, StoreInv, StoreType, Accounting, Capacity, WriteModeIsFresh,
       Present, Stored, Bytes

\* Files that keep their content leave the books as they are.
LEMMA SameContentStep ==
  ASSUME StoreInv, \A f \in Files : SameContent(file[f], file'[f]),
         file' \in [Files -> FileRecords],
         UNCHANGED <<filenames, usedMemory, fileCount>>
  PROVE  StoreInv'
<1>1. StoreType'
  BY DEF StoreInv, StoreType
<1>2. Present' = Present
  BY DEF Present, SameContent
<1>3. (Stored(Present))' = Stored(Present)
  <2>1. \A b \in Present \X (1 .. MaxMemory) : file'[b[1]].size = file[b[1]].size
    BY DEF SameContent, Present
  <2> QED
    BY <1>2, <2>1 DEF Stored, Bytes
<1>4. Accounting'
  BY <1>2, <1>3 DEF StoreInv, Accounting
<1>5. Capacity'
  BY DEF StoreInv, Capacity
<1>6. WriteModeIsFresh'
  BY DEF StoreInv, WriteModeIsFresh, SameContent
<1> QED
  BY <1>1, <1>4, <1>5, <1>6 DEF StoreInv

LEMMA UpdatesStep ==
  ASSUME StoreInv, NEW f \in Files, NEW r, SameContent(file[f], r), Updates(f, r)
  PROVE  StoreInv'
<1>1. file \in [Files -> FileRecords]
  BY DEF StoreInv, StoreType
<1>2. r \in FileRecords
  BY DEF SameContent
<1>3. file' = [file EXCEPT ![f] = r] /\ UNCHANGED <<filenames, usedMemory, fileCount>>
  BY DEF Updates
<1>4. file' \in [Files -> FileRecords]
  BY <1>1, <1>2, <1>3
<1>5. \A g \in Files : SameContent(file[g], file'[g])
  <2>1. \A g \in Files : g # f => file'[g] = file[g] /\ file[g] \in FileRecords
    BY <1>1, <1>3
  <2>2. \A g \in Files : g # f => SameContent(file[g], file'[g])
    BY <2>1 DEF SameContent
  <2>3. file'[f] = r
    BY <1>1, <1>3
  <2> QED
    BY <2>2, <2>3
<1> QED
  BY <1>3, <1>4, <1>5, SameContentStep

\* The files of R leave the store, and f gets n bytes that were not counted
\* yet: the common shape of writes, appends and removals (R = {f}, n = 0).
LEMMA ReplacementStep ==
  ASSUME StoreInv, StoreType',
         NEW R, R \subseteq Present, NEW n \in Nat, NEW f \in Files,
         file'[f].size <= n, ~ file'[f].write_enabled,
         \A g \in Files \ {f} :
           file'[g] = IF g \in R THEN Absent ELSE file[g],
         f \notin R => f \in Present /\ file'[f].present,
         f \in R => ~ file'[f].present,
         filenames' = NamesWithout(R),
         fileCount' = fileCount - Cardinality(R),
         usedMemory' = usedMemory - Stored(R) + n,
         usedMemory' <= MaxMemory
  PROVE  StoreInv'
<1>0. file \in [Files -> FileRecords] /\ file' \in [Files -> FileRecords]
  BY DEF StoreInv, StoreType
<1>1. Present \subseteq Files /\ IsFiniteSet(Present)
  BY ConstantsAssumption, FS_Subset DEF Present
<1>2. Present' = Present \ R
  BY DEF Present, Absent
<1>3. Cardinality(Present') = Cardinality(Present) - Cardinality(R)
  <2>1. Present \cap R = R
    OBVIOUS
  <2> QED
    BY <1>1, <1>2, <2>1, FS_Difference
<1>4. Stored(Present \ R) = Stored(Present) - Stored(R)
  BY <1>0, <1>1, StoredProperties
<1>5. (Stored(Present))' \in Nat /\ (Stored(Present))' <= Stored(Present \ R) + n
  <2>1. (Stored(Present))' = StoredIn(file', Present \ R)
    BY <1>2 DEF Stored, Bytes, StoredIn
  <2>2. Stored(Present \ R) = StoredIn(file, Present \ R)
    BY DEF Stored, Bytes, StoredIn
  <2>3. \A g \in (Present \ R) \ {f} : file'[g].size = file[g].size
    BY <1>1
  <2>4. Present \ R \subseteq Files /\ Present \ R \subseteq (Present \ R) \cup {f}
    BY <1>1
  <2> QED
    BY <1>0, <2>1, <2>2, <2>3, <2>4, StoredAfterStep
<1>6. Stored(Present) <= usedMemory /\ usedMemory \in Nat
      /\ Stored(Present) \in Nat /\ Stored(R) \in Nat
  BY <1>0, <1>1, StoredProperties DEF StoreInv, StoreType, Accounting
<1>7. Accounting'
  <2>1. filenames' = Present'
    BY <1>2 DEF NamesWithout, StoreInv, Accounting
  <2>2. fileCount' = Cardinality(Present')
    BY <1>3 DEF StoreInv, Accounting
  <2>3. (Stored(Present))' <= usedMemory'
    BY <1>4, <1>5, <1>6
  <2> QED
    BY <2>1, <2>2, <2>3 DEF Accounting
<1>8. Capacity'
  <2>1. Cardinality(R) \in Nat
    BY <1>1, FS_Subset, FS_CardinalityType
  <2> QED
    BY <2>1, ConstantsAssumption DEF Capacity, StoreInv, StoreType
<1>9. WriteModeIsFresh'
  <2> SUFFICES ASSUME NEW g \in Files, file'[g].write_enabled
               PROVE  file'[g].present /\ file'[g].size = 0
    BY DEF WriteModeIsFresh
  <2>1. g # f /\ g \notin R /\ file'[g] = file[g]
    BY DEF Absent
  <2> QED
    BY <2>1 DEF StoreInv, WriteModeIsFresh
<1> QED
  BY <1>7, <1>8, <1>9 DEF StoreInv

-------------------------------------------------------------------------------
(* What a step may do to the sessions.                                     *)

LEMMA AnswerType ==
  ASSUME NEW c \in Clients, NEW f \in Files \cup {NoFile}, NEW a \in Answers,
         NEW D \in SUBSET Files
  PROVE  Answer(c, f, a, D) \in Messages /\ << Answer(c, f, a, D) >> \in Seq(Messages)
BY DEF Answer, Messages

LEMMA OkType ==
  ASSUME NEW c \in Clients, NEW f \in Files
  PROVE  Ok(c, f) \in Messages /\ << Ok(c, f) >> \in Seq(Messages)
BY AnswerType DEF Ok, Answers

LEMMA GrantType ==
  ASSUME NEW w \in Clients \cup {NoClient}, NEW f \in Files
  PROVE  Grant(w, f) \in Seq(Messages)
BY OkType DEF Grant

LEMMA RepliesStep ==
  ASSUME SessionType, NEW c \in Clients, NEW msgs \in Seq(Messages), Replies(c, msgs)
  PROVE  SessionType'
BY DEF SessionType, Replies, Statuses

LEMMA SendsStep ==
  ASSUME SessionType, NEW c \in Clients, NEW m \in Messages, Sends(c, m)
  PROVE  SessionType'
<1>1. << m >> \in Seq(Messages)
  OBVIOUS
<1> QED
  BY <1>1 DEF SessionType, Sends, Statuses

LEMMA CorruptsStep ==
  ASSUME Inv, Corrupts
  PROVE  Inv'
<1>1. StoreInv'
  BY UnchangedStore DEF Inv, Corrupts
<1>2. SessionType'
  BY DEF Inv, SessionType, Corrupts, sessionVars
<1> QED
  BY <1>1, <1>2 DEF Inv

LEMMA FailsStep ==
  ASSUME Inv, NEW c \in Clients, NEW f \in Files, NEW e \in Errors, Fails(c, f, e)
  PROVE  Inv'
<1>1. << Answer(c, f, e, {}) >> \in Seq(Messages)
  BY AnswerType DEF Answers
<1>2. Replies(c, << Answer(c, f, e, {}) >>) /\ UNCHANGED storeVars
  BY DEF Fails
<1>3. SessionType'
  BY <1>1, <1>2, RepliesStep DEF Inv
<1>4. StoreInv'
  BY <1>2, UnchangedStore DEF Inv
<1> QED
  BY <1>3, <1>4 DEF Inv

\* One file changes, keeping its content, and msgs are sent.
LEMMA UpdatesAndReplies ==
  ASSUME Inv, NEW c \in Clients, NEW f \in Files, NEW r, NEW msgs \in Seq(Messages),
         SameContent(file[f], r), Updates(f, r), Replies(c, msgs)
  PROVE  Inv'
<1>1. StoreInv'
  BY UpdatesStep DEF Inv
<1>2. SessionType'
  BY RepliesStep DEF Inv
<1> QED
  BY <1>1, <1>2 DEF Inv

LEMMA FileType ==
  ASSUME Inv, NEW f \in Files
  PROVE  file[f] \in FileRecords
BY DEF Inv, StoreInv, StoreType

-------------------------------------------------------------------------------
(* The handlers.                                                           *)

LEMMA OpenCreateStep ==
  ASSUME Inv, NEW c \in Clients, NEW f \in Files, NEW lock \in BOOLEAN,
         OpenCreate(c, f, lock)
  PROVE  Inv'
<1>1. CASE OpenCreateRefusal(f) # "OK" /\ Fails(c, f, OpenCreateRefusal(f))
  <2>1. OpenCreateRefusal(f) \in Errors
    BY <1>1 DEF OpenCreateRefusal, Errors
  <2> QED
    BY <1>1, <2>1, FailsStep
<1>2. CASE /\ OpenCreateRefusal(f) = "OK"
           /\ file' = [file EXCEPT ![f] = NewFile(c, lock)]
           /\ filenames' = filenames \cup {f}
           /\ fileCount' = fileCount + 1
           /\ Replies(c, << Ok(c, f) >>)
           /\ UNCHANGED usedMemory
  <2> USE <1>2
  <2>0. /\ file \in [Files -> FileRecords] /\ usedMemory \in Nat /\ fileCount \in Nat
        /\ filenames \subseteq Files
        /\ Present \subseteq Files /\ IsFiniteSet(Present)
    BY ConstantsAssumption, FS_Subset DEF Inv, StoreInv, StoreType, Present
  <2>1. ~ file[f].present /\ fileCount < MaxFiles
    BY <2>0, ConstantsAssumption DEF OpenCreateRefusal
  <2>2. /\ NewFile(c, lock) \in FileRecords
        /\ NewFile(c, lock).present /\ NewFile(c, lock).size = 0
    <3>1. SameContent(create_file, file_add_client(create_file, c))
      BY AbsentType, AddClientContent
    <3>2. create_file.present /\ create_file.size = 0
      BY DEF create_file, Absent
    <3> QED
      BY <3>1, <3>2 DEF SameContent, NewFile, FileRecords
  <2>3. file'[f] = NewFile(c, lock) /\ \A g \in Files \ {f} : file'[g] = file[g]
    BY <2>0
  <2>4. StoreType'
    BY <2>0, <2>2 DEF StoreType
  <2>5. Present' = Present \cup {f} /\ f \notin Present
    BY <2>1, <2>2, <2>3 DEF Present
  <2>6. Cardinality(Present') = Cardinality(Present) + 1
    BY <2>0, <2>5, FS_AddElement
  <2>7. (Stored(Present))' <= usedMemory
    <3>1. (Stored(Present))' = StoredIn(file', Present')
      BY DEF Stored, Bytes, StoredIn
    <3>2. Stored(Present) = StoredIn(file, Present)
      BY DEF Stored, Bytes, StoredIn
    <3>3. /\ Present' \subseteq Files /\ Present' \subseteq Present \cup {f}
          /\ \A g \in Present' \ {f} : file'[g].size = file[g].size
          /\ file'[f].size <= 0
      BY <2>0, <2>2, <2>3, <2>5
    <3>4. /\ StoredIn(file', Present') \in Nat /\ StoredIn(file, Present) \in Nat
          /\ StoredIn(file', Present') <= StoredIn(file, Present) + 0
      BY <2>0, <2>4, <3>3, StoredAfterStep DEF StoreType
    <3>5. Stored(Present) <= usedMemory
      BY DEF Inv, StoreInv, Accounting
    <3> QED
      BY <2>0, <3>1, <3>2, <3>4, <3>5
  <2>8. Accounting'
    BY <2>5, <2>6, <2>7 DEF Inv, StoreInv, Accounting
  <2>9. Capacity'
    BY <2>0, <2>1, ConstantsAssumption DEF Inv, StoreInv, Capacity
  <2>10. WriteModeIsFresh'
    BY <2>2, <2>3 DEF Inv, StoreInv, WriteModeIsFresh
  <2>11. SessionType'
    BY OkType, RepliesStep DEF Inv
  <2> QED
    BY <2>4, <2>8, <2>9, <2>10, <2>11 DEF Inv, StoreInv
<1> QED
  BY <1>1, <1>2 DEF OpenCreate

\* r is file[f] with c among its openers, or file[f] itself.
LEMMA TakesLockStep ==
  ASSUME Inv, NEW c \in Clients, NEW f \in Files, NEW r,
         SameContent(file[f], r), TakesLock(c, f, r)
  PROVE  Inv'
<1>1. r \in FileRecords
  BY DEF SameContent
<1>2. CASE Updates(f, [r EXCEPT !.locked_by = c]) /\ Replies(c, << Ok(c, f) >>)
  <2>1. SameContent(r, [r EXCEPT !.locked_by = c])
    BY <1>1 DEF SameContent, FileRecords
  <2>2. SameContent(file[f], [r EXCEPT !.locked_by = c])
    BY <2>1, SameContentTransitive
  <2> QED
    BY <1>2, <2>2, OkType, UpdatesAndReplies
<1>3. CASE Updates(f, file_enqueue_lock(r, c)) /\ Replies(c, << >>)
  <2>1. SameContent(file[f], file_enqueue_lock(r, c))
    BY <1>1, EnqueueLockContent, SameContentTransitive
  <2>2. << >> \in Seq(Messages)
    OBVIOUS
  <2> QED
    BY <1>3, <2>1, <2>2, UpdatesAndReplies
<1>4. CASE Corrupts
  BY <1>4, CorruptsStep
<1> QED
  BY <1>2, <1>3, <1>4 DEF TakesLock

LEMMA OpenStep ==
  ASSUME Inv, NEW c \in Clients, NEW f \in Files, NEW lock \in BOOLEAN,
         Open(c, f, lock)
  PROVE  Inv'
<1>1. SameContent(file[f], Opened(file[f], c))
  BY FileType, OpenedContent
<1>2. CASE Fails(c, f, "ENOENT")
  BY <1>2, FailsStep DEF Errors
<1>3. CASE Updates(f, Opened(file[f], c)) /\ Replies(c, << Ok(c, f) >>)
  BY <1>1, <1>3, OkType, UpdatesAndReplies
<1>4. CASE TakesLock(c, f, Opened(file[f], c))
  BY <1>1, <1>4, TakesLockStep
<1> QED
  BY <1>2, <1>3, <1>4 DEF Open

\* The evicted files are stored, not the one written, all different, and free
\* what is missing.
LEMMA EvictionsProperties ==
  ASSUME Inv, NEW f \in Files, NEW n \in Nat, NEW vs \in Evictions(f, n)
  PROVE  /\ vs \in Seq(Files)
         /\ Range(vs) \subseteq Present \ {f}
         /\ Cardinality(Range(vs)) = Len(vs) /\ IsInjective(vs)
         /\ Stored(Range(vs)) >= Missing(n)
<1> DEFINE others == Present \ {f}
<1>0. /\ file \in [Files -> FileRecords] /\ usedMemory \in Nat
      /\ others \subseteq Files /\ IsFiniteSet(others)
      /\ Cardinality(others) \in Nat
  <2>1. others \subseteq Files
    BY DEF Present
  <2> QED
    BY <2>1, ConstantsAssumption, FS_Subset, FS_CardinalityType DEF Inv, StoreInv, StoreType
<1>1. CASE Missing(n) <= 0
  <2>1. vs = << >>
    BY <1>1 DEF Evictions
  <2>2. Range(vs) = {} /\ Len(vs) = 0 /\ Cardinality({}) = 0
    BY <2>1, FS_EmptySet DEF Range
  <2>3. Stored({}) \in Nat
    BY <1>0, StoredProperties
  <2>4. Missing(n) \in Int
    BY <1>0, ConstantsAssumption DEF Missing
  <2>5. vs \in Seq(Files)
    BY <2>1
  <2>6. Stored(Range(vs)) = Stored({})
    BY <2>2
  <2>7. Stored(Range(vs)) >= Missing(n)
    BY <1>1, <2>3, <2>4, <2>6
  <2>8. Cardinality(Range(vs)) = Len(vs)
    BY <2>2
  <2>9. DOMAIN vs = {}
    BY <2>1
  <2>10. IsInjective(vs)
    BY <2>9 DEF IsInjective
  <2> QED
    BY <2>2, <2>5, <2>7, <2>8, <2>10
<1>2. CASE ~(Missing(n) <= 0)
  <2>1. /\ vs \in UNION {Injection(1 .. k, others) : k \in 1 .. Cardinality(others)}
        /\ Stored(Range(vs)) >= Missing(n)
    BY <1>2 DEF Evictions
  <2>2. PICK k \in 1 .. Cardinality(others) : vs \in Injection(1 .. k, others)
    BY <2>1
  <2>3. k \in Nat /\ vs \in [1 .. k -> others] /\ IsInjective(vs)
    BY <1>0, <2>2 DEF Injection
  <2>4. vs \in Seq(Files) /\ Len(vs) = k /\ DOMAIN vs = 1 .. k
    BY <1>0, <2>3
  <2>5. Range(vs) \subseteq others
    BY <2>3, <2>4 DEF Range
  <2>6. Cardinality(Range(vs)) = k
    <3>1. vs \in Surjection(1 .. k, Range(vs)) /\ vs \in Injection(1 .. k, Range(vs))
      BY <2>3, <2>4 DEF Surjection, Injection, Range
    <3>2. IsFiniteSet(1 .. k) /\ Cardinality(1 .. k) = k
      BY <2>3, FS_Interval
    <3> QED
      BY <3>1, <3>2, FS_Surjection
  <2> QED
    BY <2>1, <2>3, <2>4, <2>5, <2>6
<1> QED
  BY <1>1, <1>2

LEMMA RemovalsType ==
  ASSUME Inv, NEW vs \in Seq(Files)
  PROVE  LET removals == [i \in 1 .. Len(vs) |-> Removed(vs[i])] IN
         /\ removals \in Seq(Messages) /\ Len(removals) = Len(vs)
         /\ \A i \in 1 .. Len(vs) : removals[i] = Removed(vs[i])
<1> DEFINE removals == [i \in 1 .. Len(vs) |-> Removed(vs[i])]
<1>1. \A i \in 1 .. Len(vs) : Removed(vs[i]) \in Messages
  <2> SUFFICES ASSUME NEW i \in 1 .. Len(vs)
               PROVE  Removed(vs[i]) \in Messages
    OBVIOUS
  <2>1. vs[i] \in Files
    OBVIOUS
  <2>2. file[vs[i]].lock_queue \in List(Clients)
    BY <2>1, FileType DEF FileRecords
  <2> QED
    BY <2>1, <2>2 DEF Removed, Messages, Answers, Errors, List
<1>2. Len(vs) \in Nat
  OBVIOUS
<1>3. removals \in [1 .. Len(vs) -> Messages]
  BY <1>1
<1>4. \A i \in 1 .. Len(vs) : removals[i] = Removed(vs[i])
  OBVIOUS
<1> HIDE DEF removals
<1>5. removals \in Seq(Messages) /\ Len(removals) = Len(vs)
  BY <1>2, <1>3
<1> QED
  BY <1>4, <1>5 DEF removals

LEMMA WriteAnswersType ==
  ASSUME Inv, NEW c \in Clients, NEW f \in Files, NEW vs \in Seq(Files),
         NEW sendBack \in BOOLEAN
  PROVE  WriteAnswers(c, f, vs, sendBack) \in Seq(Messages)
<1> DEFINE removals == [i \in 1 .. Len(vs) |-> Removed(vs[i])]
<1>2. removals \in Seq(Messages)
  BY RemovalsType
<1>3. << Answer(c, f, "OK", Range(vs)) >> \in Seq(Messages)
  <2>1. Range(vs) \in SUBSET Files
    BY DEF Range
  <2> QED
    BY <2>1, AnswerType DEF Answers
<1>4. << Ok(c, f) >> \in Seq(Messages)
  BY OkType
<1>5. WriteAnswers(c, f, vs, sendBack) =
        IF sendBack THEN removals \o << Answer(c, f, "OK", Range(vs)) >>
                    ELSE << Ok(c, f) >> \o removals
  BY DEF WriteAnswers
<1> HIDE DEF removals
<1> QED
  BY <1>2, <1>3, <1>4, <1>5

\* The common end of write and append.
LEMMA StoreDataStep ==
  ASSUME Inv, NEW c \in Clients, NEW f \in Present, NEW n \in Nat,
         NEW sendBack \in BOOLEAN, NEW r \in FileRecords,
         r.present, r.size = n, ~ r.write_enabled,
         StoreData(c, f, r, n, sendBack)
  PROVE  Inv'
<1>0. f \in Files
  BY DEF Present
<1>1. CASE Fails(c, f, "EFBIG")
  BY <1>0, <1>1, FailsStep DEF Errors
<1>2. CASE Corrupts
  BY <1>2, CorruptsStep
<1>3. CASE \E vs \in Evictions(f, n) :
             /\ \A i \in 1 .. Len(vs) : FreeIsSafe(file[vs[i]])
             /\ file' = [g \in Files |-> IF g \in Range(vs) THEN Absent
                                         ELSE IF g = f THEN r ELSE file[g]]
             /\ filenames' = NamesWithout(Range(vs))
             /\ fileCount' = fileCount - Len(vs)
             /\ usedMemory' = MemoryWithout(Range(vs)) + n
             /\ Replies(c, WriteAnswers(c, f, vs, sendBack))
  <2> PICK vs \in Evictions(f, n) :
             /\ file' = [g \in Files |-> IF g \in Range(vs) THEN Absent
                                         ELSE IF g = f THEN r ELSE file[g]]
             /\ filenames' = NamesWithout(Range(vs))
             /\ fileCount' = fileCount - Len(vs)
             /\ usedMemory' = MemoryWithout(Range(vs)) + n
             /\ Replies(c, WriteAnswers(c, f, vs, sendBack))
    BY <1>3
  <2> DEFINE R == Range(vs)
  <2>1. /\ vs \in Seq(Files) /\ R \subseteq Present \ {f}
        /\ Cardinality(R) = Len(vs) /\ Stored(R) >= Missing(n)
    BY <1>0, EvictionsProperties
  <2>2. /\ file \in [Files -> FileRecords] /\ usedMemory \in Nat /\ fileCount \in Nat
        /\ Present \subseteq Files /\ IsFiniteSet(Present) /\ filenames \subseteq Files
        /\ fileCount = Cardinality(Present) /\ Stored(Present) <= usedMemory
    BY ConstantsAssumption, FS_Subset
       DEF Inv, StoreInv, StoreType, Accounting, Present
  <2> HIDE DEF R
  <2>3. /\ Stored(R) \in Nat /\ Stored(R) <= usedMemory
        /\ Cardinality(R) \in Nat /\ Cardinality(R) <= fileCount
    <3>1. Stored(R) \in Nat /\ Stored(R) <= Stored(Present) /\ Stored(Present) \in Nat
      BY <2>1, <2>2, StoredProperties
    <3>2. Cardinality(R) \in Nat /\ Cardinality(R) <= Cardinality(Present)
      BY <2>1, <2>2, FS_Subset, FS_CardinalityType
    <3> QED
      BY <2>2, <3>1, <3>2
  <2>4. /\ file' = [g \in Files |-> IF g \in R THEN Absent
                                    ELSE IF g = f THEN r ELSE file[g]]
        /\ filenames' = NamesWithout(R)
        /\ fileCount' = fileCount - Cardinality(R)
        /\ usedMemory' = usedMemory - Stored(R) + n
    BY <2>1 DEF R, MemoryWithout
  <2>5. usedMemory' <= MaxMemory /\ usedMemory' \in Nat /\ fileCount' \in Nat
    BY <2>1, <2>2, <2>3, <2>4, ConstantsAssumption, SMTT(30) DEF Missing
  <2>6. StoreType'
    <3>1. file' \in [Files -> FileRecords]
      BY <2>2, <2>4, AbsentType
    <3>2. filenames' \subseteq Files
      BY <2>2, <2>4 DEF NamesWithout
    <3> QED
      BY <2>5, <3>1, <3>2 DEF StoreType
  <2>7. /\ file'[f] = r /\ f \notin R
        /\ \A g \in Files \ {f} : file'[g] = IF g \in R THEN Absent ELSE file[g]
    BY <1>0, <2>1, <2>4
  <2>8. StoreInv'
    <3>1. /\ R \subseteq Present /\ file'[f].size <= n /\ ~ file'[f].write_enabled
          /\ f \in Present /\ file'[f].present
      BY <2>1, <2>7
    <3> QED
      BY <1>0, <2>4, <2>5, <2>6, <2>7, <3>1, ReplacementStep DEF Inv
  <2>9. SessionType'
    BY <1>0, <2>1, WriteAnswersType, RepliesStep DEF Inv
  <2> QED
    BY <2>8, <2>9 DEF Inv
<1> QED
  BY <1>1, <1>2, <1>3 DEF StoreData

LEMMA ResetWriteModeStep ==
  ASSUME Inv, NEW c \in Clients, NEW f \in Files, ResetWriteMode(c, f)
  PROVE  Inv'
<1>1. SameContent(file[f], [file[f] EXCEPT !.write_enabled = FALSE])
  BY FileType DEF SameContent, FileRecords
<1> QED
  BY <1>1, OkType, UpdatesAndReplies DEF ResetWriteMode

LEMMA WriteStep ==
  ASSUME Inv, NEW c \in Clients, NEW f \in Files, NEW n \in Sizes,
         NEW sendBack \in BOOLEAN, Write(c, f, n, sendBack)
  PROVE  Inv'
<1> DEFINE e == WriteRefusal(c, f, n)
           r == file_replace_content(file[f], n)
<1>0. n \in Nat
  BY ConstantsAssumption
<1>1. CASE e # "OK" /\ Fails(c, f, e)
  <2>1. e \in Errors
    BY <1>1 DEF WriteRefusal, Errors
  <2> QED
    BY <1>1, <2>1, FailsStep
<1>2. CASE ResetWriteMode(c, f)
  BY <1>2, ResetWriteModeStep
<1>3. CASE e = "OK" /\ StoreData(c, f, r, n, sendBack)
  <2>1. f \in Present
    BY <1>3 DEF WriteRefusal, Present
  <2>2. r \in FileRecords /\ r.present /\ r.size = n /\ ~ r.write_enabled
    BY <1>0, <2>1, FileType DEF file_replace_content, FileRecords, Present
  <2> QED
    BY <1>0, <1>3, <2>1, <2>2, StoreDataStep
<1> QED
  BY <1>1, <1>2, <1>3 DEF Write

LEMMA AppendToStep ==
  ASSUME Inv, NEW c \in Clients, NEW f \in Files, NEW n \in Sizes,
         NEW sendBack \in BOOLEAN, AppendTo(c, f, n, sendBack)
  PROVE  Inv'
<1> DEFINE e == AppendRefusal(c, f, n)
           r == file_append_content(file[f], n)
<1>0. n \in Nat
  BY ConstantsAssumption
<1>1. CASE e # "OK" /\ Fails(c, f, e)
  <2>1. e \in Errors
    BY <1>1 DEF AppendRefusal, Errors
  <2> QED
    BY <1>1, <2>1, FailsStep
<1>2. CASE ResetWriteMode(c, f)
  BY <1>2, ResetWriteModeStep
<1>3. CASE e = "OK" /\ StoreData(c, f, r, n, sendBack)
  <2>1. f \in Present
    BY <1>3 DEF AppendRefusal, Present
  <2>2. r \in FileRecords /\ r.present /\ r.size = n /\ ~ r.write_enabled
    BY <1>0, <2>1, FileType DEF file_append_content, FileRecords, Present
  <2> QED
    BY <1>0, <1>3, <2>1, <2>2, StoreDataStep
<1> QED
  BY <1>1, <1>2, <1>3 DEF AppendTo

LEMMA ReadStep ==
  ASSUME Inv, NEW c \in Clients, NEW f \in Files, Read(c, f)
  PROVE  Inv'
<1>1. CASE ReadRefusal(c, f) # "OK" /\ Fails(c, f, ReadRefusal(c, f))
  <2>1. ReadRefusal(c, f) \in Errors
    BY <1>1 DEF ReadRefusal, Errors
  <2> QED
    BY <1>1, <2>1, FailsStep
<1>2. CASE Sends(c, Answer(c, f, "OK", {f}))
  <2>1. Answer(c, f, "OK", {f}) \in Messages
    BY AnswerType DEF Answers
  <2>2. SessionType'
    BY <1>2, <2>1, SendsStep DEF Inv
  <2>3. StoreInv'
    BY <1>2, UnchangedStore DEF Inv, Sends
  <2> QED
    BY <2>2, <2>3 DEF Inv
<1> QED
  BY <1>1, <1>2 DEF Read

LEMMA ReadNStep ==
  ASSUME Inv, NEW c \in Clients, NEW n, ReadN(c, n)
  PROVE  Inv'
<1>1. PICK D \in SUBSET filenames : Sends(c, Answer(c, NoFile, "OK", D))
  BY DEF ReadN
<1>2. D \in SUBSET Files
  BY DEF Inv, StoreInv, StoreType
<1>3. Answer(c, NoFile, "OK", D) \in Messages
  BY <1>2, AnswerType DEF Answers
<1>4. SessionType'
  BY <1>1, <1>3, SendsStep DEF Inv
<1>5. StoreInv'
  BY <1>1, UnchangedStore DEF Inv, Sends
<1> QED
  BY <1>4, <1>5 DEF Inv

LEMMA WakeType ==
  ASSUME SessionType, NEW S
  PROVE  Wake(S) \in [Clients -> Statuses]
BY DEF SessionType, Wake, Statuses

LEMMA RemoveStep ==
  ASSUME Inv, NEW c \in Clients, NEW f \in Files, Remove(c, f)
  PROVE  Inv'
<1>1. CASE RemoveRefusal(c, f) # "OK" /\ Fails(c, f, RemoveRefusal(c, f))
  <2>1. RemoveRefusal(c, f) \in Errors
    BY <1>1 DEF RemoveRefusal, Errors
  <2> QED
    BY <1>1, <2>1, FailsStep
<1>2. CASE Corrupts
  BY <1>2, CorruptsStep
<1>3. CASE /\ RemoveRefusal(c, f) = "OK"
           /\ file' = [file EXCEPT ![f] = Absent]
           /\ filenames' = NamesWithout({f})
           /\ usedMemory' = MemoryWithout({f})
           /\ fileCount' = fileCount - 1
           /\ status' = [Wake(Values(file[f].lock_queue)) EXCEPT ![c] = "await"]
           /\ out' = [out EXCEPT ![c] = << Ok(c, f) >>]
           /\ UNCHANGED <<rlock, heap>>
  <2>1. {f} \subseteq Present
    BY <1>3 DEF RemoveRefusal, Present
  <2>2. /\ file \in [Files -> FileRecords] /\ usedMemory \in Nat /\ fileCount \in Nat
        /\ Present \subseteq Files /\ IsFiniteSet(Present) /\ filenames \subseteq Files
        /\ fileCount = Cardinality(Present) /\ Stored(Present) <= usedMemory
        /\ usedMemory <= MaxMemory
    BY ConstantsAssumption, FS_Subset
       DEF Inv, StoreInv, StoreType, Accounting, Capacity, Present
  <2>3. Cardinality({f}) = 1 /\ fileCount >= 1
    <3>1. Cardinality({f}) = 1
      BY FS_Singleton
    <3>2. Cardinality({f}) <= Cardinality(Present)
      BY <2>1, <2>2, FS_Subset
    <3> QED
      BY <2>2, <3>1, <3>2
  <2>4. Stored({f}) \in Nat /\ Stored({f}) <= usedMemory
    <3>1. Stored({f}) \in Nat /\ Stored({f}) <= Stored(Present) /\ Stored(Present) \in Nat
      BY <2>1, <2>2, StoredProperties
    <3> QED
      BY <2>2, <3>1
  <2>5. /\ usedMemory' = usedMemory - Stored({f}) + 0
        /\ usedMemory' \in Nat /\ usedMemory' <= MaxMemory
        /\ fileCount' = fileCount - Cardinality({f}) /\ fileCount' \in Nat
    BY <1>3, <2>2, <2>3, <2>4, ConstantsAssumption DEF MemoryWithout
  <2>6. /\ file'[f] = Absent /\ \A g \in Files \ {f} : file'[g] = file[g]
        /\ file' \in [Files -> FileRecords]
    BY <1>3, <2>2, AbsentType
  <2>7. StoreType'
    BY <1>3, <2>2, <2>5, <2>6 DEF StoreType, NamesWithout
  <2>8. Absent.size = 0 /\ ~ Absent.present /\ ~ Absent.write_enabled
    BY DEF Absent
  <2>9. StoreInv'
    <3>1. \A g \in Files \ {f} : file'[g] = IF g \in {f} THEN Absent ELSE file[g]
      BY <2>6
    <3>2. /\ file'[f].size <= 0 /\ ~ file'[f].write_enabled /\ ~ file'[f].present
          /\ f \in {f} /\ 0 \in Nat
      BY <2>6, <2>8
    <3> QED
      BY <1>3, <2>1, <2>5, <2>7, <3>1, <3>2, ReplacementStep DEF Inv
  <2>10. SessionType'
    <3>1. Wake(Values(file[f].lock_queue)) \in [Clients -> Statuses]
      BY WakeType DEF Inv
    <3>2. << Ok(c, f) >> \in Seq(Messages)
      BY OkType
    <3> QED
      BY <1>3, <3>1, <3>2 DEF Inv, SessionType, Statuses
  <2> QED
    BY <2>9, <2>10 DEF Inv
<1> QED
  BY <1>1, <1>2, <1>3 DEF Remove

LEMMA LockStep ==
  ASSUME Inv, NEW c \in Clients, NEW f \in Files, Lock(c, f)
  PROVE  Inv'
<1>1. CASE LockRefusal(c, f) # "OK" /\ Fails(c, f, LockRefusal(c, f))
  <2>1. LockRefusal(c, f) \in Errors
    BY <1>1 DEF LockRefusal, Errors
  <2> QED
    BY <1>1, <2>1, FailsStep
<1>2. CASE TakesLock(c, f, file[f])
  <2>1. SameContent(file[f], file[f])
    BY FileType DEF SameContent
  <2> QED
    BY <1>2, <2>1, TakesLockStep
<1> QED
  BY <1>1, <1>2 DEF Lock

\* The answers of unlock and close to the next owner and to the sender.
LEMMA HandOverAnswers ==
  ASSUME Inv, NEW c \in Clients, NEW f \in Files
  PROVE  Grant(NextOwner(file[f]), f) \o << Ok(c, f) >> \in Seq(Messages)
<1>1. Grant(NextOwner(file[f]), f) \in Seq(Messages)
  BY FileType, NextOwnerType, GrantType
<1>2. << Ok(c, f) >> \in Seq(Messages)
  BY OkType
<1> QED
  BY <1>1, <1>2

LEMMA UnlockStep ==
  ASSUME Inv, NEW c \in Clients, NEW f \in Files, Unlock(c, f)
  PROVE  Inv'
<1>1. CASE UnlockRefusal(c, f) # "OK" /\ Fails(c, f, UnlockRefusal(c, f))
  <2>1. UnlockRefusal(c, f) \in Errors
    BY <1>1 DEF UnlockRefusal, Errors
  <2> QED
    BY <1>1, <2>1, FailsStep
<1>2. CASE /\ Updates(f, HandOver(file[f]))
           /\ Replies(c, Grant(NextOwner(file[f]), f) \o << Ok(c, f) >>)
  <2>1. SameContent(file[f], HandOver(file[f]))
    BY FileType, HandOverContent
  <2> QED
    BY <1>2, <2>1, HandOverAnswers, UpdatesAndReplies
<1> QED
  BY <1>1, <1>2 DEF Unlock

LEMMA CloseStep ==
  ASSUME Inv, NEW c \in Clients, NEW f \in Files, Close(c, f)
  PROVE  Inv'
<1>1. CASE Fails(c, f, "ENOENT")
  BY <1>1, FailsStep DEF Errors
<1>2. CASE /\ Updates(f, file_close_client(HandOver(file[f]), c))
           /\ Replies(c, Grant(NextOwner(file[f]), f) \o << Ok(c, f) >>)
  <2>1. SameContent(file[f], HandOver(file[f]))
    BY FileType, HandOverContent
  <2>2. SameContent(HandOver(file[f]), file_close_client(HandOver(file[f]), c))
    BY <2>1, CloseClientContent DEF SameContent
  <2>3. SameContent(file[f], file_close_client(HandOver(file[f]), c))
    BY <2>1, <2>2, SameContentTransitive
  <2> QED
    BY <1>2, <2>3, HandOverAnswers, UpdatesAndReplies
<1>3. CASE /\ Updates(f, file_close_client(file[f], c))
           /\ Replies(c, << Ok(c, f) >>)
  <2>1. SameContent(file[f], file_close_client(file[f], c))
    BY FileType, CloseClientContent
  <2> QED
    BY <1>3, <2>1, OkType, UpdatesAndReplies
<1> QED
  BY <1>1, <1>2, <1>3 DEF Close

LEMMA DeliverStep ==
  ASSUME Inv, NEW c \in Clients, Deliver(c)
  PROVE  Inv'
<1> DEFINE m    == Head(out[c])
           left == [m EXCEPT !.to = Tail(@)]
           rest == IF Len(m.to) <= 1 THEN Tail(out[c])
                   ELSE << left >> \o Tail(out[c])
           S    == IF m.to = << >> THEN {} ELSE {Head(m.to)}
<1>1. /\ status' = Wake(S)
      /\ out' = [out EXCEPT ![c] = rest]
      /\ rlock' = IF rest = << >> THEN rlock \ {c} ELSE rlock
      /\ UNCHANGED <<storeVars, heap>> /\ out[c] # << >>
  BY Zenon DEF Deliver
<1>2. out[c] \in Seq(Messages) /\ m \in Messages /\ Tail(out[c]) \in Seq(Messages)
  BY <1>1 DEF Inv, SessionType
<1>3. rest \in Seq(Messages)
  <2>1. CASE Len(m.to) <= 1
    BY <1>2, <2>1
  <2>2. CASE ~(Len(m.to) <= 1)
    <3>1. m.to \in Seq(Clients)
      BY <1>2 DEF Messages
    <3>2. Tail(m.to) \in Seq(Clients)
      BY <2>2, <3>1
    <3>3. left \in Messages
      BY <1>2, <3>2 DEF Messages
    <3>4. << left >> \in Seq(Messages)
      BY <3>3
    <3> HIDE DEF left
    <3> QED
      BY <1>2, <2>2, <3>4
  <2> QED
    BY <2>1, <2>2
<1> HIDE DEF rest, S
<1>4. SessionType'
  BY <1>1, <1>3, WakeType DEF Inv, SessionType
<1>5. StoreInv'
  BY <1>1, UnchangedStore DEF Inv
<1> QED
  BY <1>4, <1>5 DEF Inv

LEMMA LeavesStep ==
  ASSUME Inv, NEW c \in Clients, Exit(c) \/ Die(c)
  PROVE  Inv'
<1>1. /\ status' = [status EXCEPT ![c] = "gone"]
      /\ UNCHANGED <<storeVars, out, rlock, heap>>
  BY DEF Exit, Die
<1>2. SessionType'
  BY <1>1 DEF Inv, SessionType, Statuses
<1>3. StoreInv'
  BY <1>1, UnchangedStore DEF Inv
<1> QED
  BY <1>2, <1>3 DEF Inv

LEMMA DisconnectStep ==
  ASSUME Inv, NEW c \in Clients, Disconnect(c)
  PROVE  Inv'
<1> DEFINE left(f) == file_delete_lock_client(file_close_client(file[f], c), c)
           S == {file'[f].locked_by : f \in {g \in filenames : file[g].locked_by = c}}
<1>1. /\ file' = [f \in Files |-> IF f \in filenames THEN left(f) ELSE file[f]]
      /\ status' = [Wake(S) EXCEPT ![c] = "closed"]
      /\ UNCHANGED <<filenames, usedMemory, fileCount, out, rlock, heap>>
  BY DEF Disconnect, notify_client_disconnected_fs
<1>2. ASSUME NEW f \in Files
      PROVE  SameContent(file[f], left(f)) /\ SameContent(file[f], file[f])
  <2>1. SameContent(file[f], file_close_client(file[f], c))
    BY FileType, CloseClientContent
  <2>2. SameContent(file_close_client(file[f], c), left(f))
    BY <2>1, DeleteLockClientContent DEF SameContent
  <2> QED
    BY <2>1, <2>2, FileType, SameContentTransitive DEF SameContent
<1> HIDE DEF left, S
<1>3. \A f \in Files : SameContent(file[f], file'[f]) /\ file'[f] \in FileRecords
  BY <1>1, <1>2 DEF SameContent
<1>4. file' \in [Files -> FileRecords]
  BY <1>1, <1>3
<1>5. StoreInv'
  BY <1>1, <1>3, <1>4, SameContentStep DEF Inv
<1>6. Wake(S) \in [Clients -> Statuses]
  BY WakeType DEF Inv
<1>7. SessionType'
  BY <1>1, <1>6 DEF Inv, SessionType, Statuses
<1> QED
  BY <1>5, <1>7 DEF Inv

-------------------------------------------------------------------------------
(* The invariant.                                                          *)

LEMMA InvInit == Init => Inv
<1> SUFFICES ASSUME Init
             PROVE  Inv
  OBVIOUS
<1>1. Present = {} /\ file \in [Files -> FileRecords]
  BY AbsentType DEF Init, Present, Absent
<1>2. Stored(Present) = 0 /\ Cardinality(Present) = 0
  <2>1. Bytes(Present) = {}
    BY <1>1 DEF Bytes
  <2> QED
    BY <1>1, <2>1, FS_EmptySet DEF Stored
<1>3. StoreType
  BY <1>1 DEF Init, StoreType
<1>4. Accounting
  BY <1>1, <1>2 DEF Init, Accounting
<1>5. Capacity /\ WriteModeIsFresh
  BY ConstantsAssumption DEF Init, Capacity, WriteModeIsFresh, Absent
<1>6. SessionType
  BY DEF Init, SessionType, Statuses
<1> QED
  BY <1>3, <1>4, <1>5, <1>6 DEF Inv, StoreInv

LEMMA InvNext == Inv /\ [Next]_vars => Inv'
<1> SUFFICES ASSUME Inv, [Next]_vars
             PROVE  Inv'
  OBVIOUS
<1>1. CASE UNCHANGED vars
  <2>1. StoreInv'
    BY <1>1, UnchangedStore DEF Inv, vars
  <2>2. SessionType'
    BY <1>1 DEF Inv, SessionType, vars, sessionVars
  <2> QED
    BY <2>1, <2>2 DEF Inv
<1>2. ASSUME NEW c \in Clients, Request(c)
      PROVE  Inv'
  <2>1. CASE \E f \in Files, lock \in BOOLEAN : OpenCreate(c, f, lock)
    BY <2>1, OpenCreateStep
  <2>2. CASE \E f \in Files, lock \in BOOLEAN : Open(c, f, lock)
    BY <2>2, OpenStep
  <2>3. CASE \E f \in Files, n \in Sizes, sendBack \in BOOLEAN : Write(c, f, n, sendBack)
    BY <2>3, WriteStep
  <2>4. CASE \E f \in Files, n \in Sizes, sendBack \in BOOLEAN : AppendTo(c, f, n, sendBack)
    BY <2>4, AppendToStep
  <2>5. CASE \E f \in Files : Read(c, f)
    BY <2>5, ReadStep
  <2>6. CASE \E n \in 0 .. MaxFiles : ReadN(c, n)
    BY <2>6, ReadNStep
  <2>7. CASE \E f \in Files : Remove(c, f)
    BY <2>7, RemoveStep
  <2>8. CASE \E f \in Files : Lock(c, f)
    BY <2>8, LockStep
  <2>9. CASE \E f \in Files : Unlock(c, f)
    BY <2>9, UnlockStep
  <2>10. CASE \E f \in Files : Close(c, f)
    BY <2>10, CloseStep
  <2> QED
    BY <1>2, <2>1, <2>2, <2>3, <2>4, <2>5, <2>6, <2>7, <2>8, <2>9, <2>10 DEF Request
<1>3. ASSUME NEW c \in Clients, Deliver(c)
      PROVE  Inv'
  BY <1>3, DeliverStep
<1>4. ASSUME NEW c \in Clients, Exit(c) \/ Die(c)
      PROVE  Inv'
  BY <1>4, LeavesStep
<1>5. ASSUME NEW c \in Clients, Disconnect(c)
      PROVE  Inv'
  BY <1>5, DisconnectStep
<1> QED
  BY <1>1, <1>2, <1>3, <1>4, <1>5 DEF Next

\* In every state: the types, the books, the limits and the freshness of write
\* mode, whatever the clients, the files and the sizes.
LEMMA InvAlways == Spec => []Inv
BY InvInit, InvNext, PTL DEF Spec

\* Every variable keeps its type; in particular the memory in use, which only
\* remove_file_fs and its callers take from, never gets below zero.
THEOREM TypeCorrect == Spec => []TypeOK
<1>1. Inv => TypeOK
  BY DEF Inv, StoreInv, StoreType, SessionType, TypeOK
<1> QED
  BY <1>1, InvAlways, PTL

\* The store never holds more than max_memory_size bytes or max_file_count
\* files: run_replacement_algorithm frees what is missing.
THEOREM WithinCapacity == Spec => []Capacity
<1>1. Inv => Capacity
  BY DEF Inv, StoreInv
<1> QED
  BY <1>1, InvAlways, PTL

\* filenames_stored, current_file_count and current_used_memory agree with the
\* files stored after every create, replacement and removal.
THEOREM BooksBalance == Spec => []Accounting
<1>1. Inv => Accounting
  BY DEF Inv, StoreInv
<1> QED
  BY <1>1, InvAlways, PTL

\* handle_write_file_req replaces the content of empty files only.
THEOREM WritesAreFresh == Spec => []WriteModeIsFresh
<1>1. Inv => WriteModeIsFresh
  BY DEF Inv, StoreInv
<1> QED
  BY <1>1, InvAlways, PTL

===============================================================================

------------------------------- MODULE StepProofs ------------------------------
(***************************************************************************)
(* What a step may do to the store: a file goes only by its owner or       *)
(* because it has to, the configured policy decides which file goes, and   *)
(* the loops of the replacement come to one step of FileStorage.           *)
(***************************************************************************)
EXTENDS LockProofs, Replacement, ReplacementLoop

\* FilesLeaveForAReason, of one step.
Reasons ==
  \A f \in Present \ Present' :
    \/ \E c \in Clients : /\ file[f].locked_by = c
                          /\ out[c] = << >> /\ out'[c] = << Ok(c, f) >>
    \/ \E g \in Present \ Present' : usedMemory' + file[g].size > MaxMemory

\* No file leaves the store, and then there is no reason to give; and none gets
\* content.
NoneLeaves ==
  \A f \in Files : /\ file[f].present => file'[f].present
                   /\ file'[f].size = file[f].size \/ file'[f].size = 0

LEMMA StoreAlone ==
  ASSUME UNCHANGED storeVars
  PROVE  NoneLeaves
BY DEF NoneLeaves, storeVars

LEMMA StayingIsRight ==
  ASSUME NoneLeaves
  PROVE  Reasons
BY DEF NoneLeaves, Reasons, Present

LEMMA UpdateStays ==
  ASSUME LockInv, NEW g \in Files, NEW r, Updates(g, r), r.present = file[g].present,
         r.size = file[g].size
  PROVE  NoneLeaves
<1>1. \A f \in Files : file'[f] = IF f = g THEN r ELSE file[f]
  BY FilesType DEF Updates
<1> QED
  BY <1>1 DEF NoneLeaves

LEMMA FailsStays ==
  ASSUME NEW c, NEW g, NEW e, Fails(c, g, e)
  PROVE  NoneLeaves
BY StoreAlone DEF Fails

LEMMA CorruptsStays ==
  ASSUME Corrupts
  PROVE  NoneLeaves
BY StoreAlone DEF Corrupts

-------------------------------------------------------------------------------
(* The handlers.                                                           *)

LEMMA OpenCreateStays ==
  ASSUME LockInv, NEW c \in Clients, NEW g \in Files, NEW lock \in BOOLEAN,
         OpenCreate(c, g, lock)
  PROVE  NoneLeaves
<1>1. CASE Fails(c, g, OpenCreateRefusal(g))
  BY <1>1, FailsStays
<1>2. CASE /\ OpenCreateRefusal(g) = "OK"
           /\ file' = [file EXCEPT ![g] = NewFile(c, lock)]
           /\ Replies(c, << Ok(c, g) >>)
  <2>1. ~ file[g].present /\ \A f \in Files \ {g} : file'[f] = file[f]
    BY <1>2, FilesType DEF OpenCreateRefusal
  <2>2. file'[g].size = 0
    <3>1. create_file \in FileRecords /\ create_file.size = 0
      BY AbsentType DEF create_file, Absent
    <3>2. NewFile(c, lock).size = 0
      BY <3>1, AddClientContent DEF NewFile, SameContent, FileRecords
    <3> QED
      BY <1>2, <3>2, FilesType
  <2> QED
    BY <2>1, <2>2 DEF NoneLeaves
<1> QED
  BY <1>1, <1>2 DEF OpenCreate

LEMMA TakesLockStays ==
  ASSUME LockInv, NEW c \in Clients, NEW g \in Files, NEW r \in FileRecords,
         r.present = file[g].present, r.size = file[g].size,
         TakesLock(c, g, r)
  PROVE  NoneLeaves
<1>1. CASE Updates(g, [r EXCEPT !.locked_by = c]) /\ Replies(c, << Ok(c, g) >>)
  <2> DEFINE q == [r EXCEPT !.locked_by = c]
  <2>1. q.present = file[g].present /\ q.size = file[g].size
    BY DEF FileRecords
  <2>2. Updates(g, q)
    BY <1>1
  <2> HIDE DEF q
  <2> QED
    BY <2>1, <2>2, UpdateStays
<1>2. CASE Updates(g, file_enqueue_lock(r, c)) /\ Replies(c, << >>)
  <2> DEFINE q == file_enqueue_lock(r, c)
  <2>1. q.present = file[g].present /\ q.size = file[g].size
    BY DEF FileRecords, file_enqueue_lock
  <2>2. Updates(g, q)
    BY <1>2
  <2> HIDE DEF q
  <2> QED
    BY <2>1, <2>2, UpdateStays
<1>3. CASE Corrupts
  BY <1>3, CorruptsStays
<1> QED
  BY <1>1, <1>2, <1>3 DEF TakesLock

LEMMA OpenStays ==
  ASSUME LockInv, NEW c \in Clients, NEW g \in Files, NEW lock \in BOOLEAN,
         Open(c, g, lock)
  PROVE  NoneLeaves
<1> DEFINE r == Opened(file[g], c)
<1>1. r \in FileRecords /\ r.present = file[g].present /\ r.size = file[g].size
  BY FilesType, OpenedContent DEF SameContent
<1>2. \/ Fails(c, g, "ENOENT")
      \/ Updates(g, r) /\ Replies(c, << Ok(c, g) >>)
      \/ TakesLock(c, g, r)
  BY DEF Open
<1> HIDE DEF r
<1> QED
  BY <1>1, <1>2, FailsStays, UpdateStays, TakesLockStays

LEMMA LockStays ==
  ASSUME LockInv, NEW c \in Clients, NEW g \in Files, Lock(c, g)
  PROVE  NoneLeaves
<1>1. \/ Fails(c, g, LockRefusal(c, g))
      \/ TakesLock(c, g, file[g])
  BY DEF Lock
<1> QED
  BY <1>1, FilesType, FailsStays, TakesLockStays

LEMMA UnlockStays ==
  ASSUME LockInv, NEW c \in Clients, NEW g \in Files, Unlock(c, g)
  PROVE  NoneLeaves
<1>1. CASE Fails(c, g, UnlockRefusal(c, g))
  BY <1>1, FailsStays
<1>2. CASE /\ Updates(g, HandOver(file[g]))
           /\ Replies(c, Grant(NextOwner(file[g]), g) \o << Ok(c, g) >>)
  <2>1. /\ HandOver(file[g]).present = file[g].present
        /\ HandOver(file[g]).size = file[g].size
    BY FilesType, HandOverContent DEF SameContent
  <2> QED
    BY <1>2, <2>1, UpdateStays
<1> QED
  BY <1>1, <1>2 DEF Unlock

LEMMA CloseStays ==
  ASSUME LockInv, NEW c \in Clients, NEW g \in Files, Close(c, g)
  PROVE  NoneLeaves
<1>0. file[g] \in FileRecords
  BY FilesType
<1>1. CASE Fails(c, g, "ENOENT")
  BY <1>1, FailsStays
<1>2. CASE /\ Updates(g, file_close_client(HandOver(file[g]), c))
           /\ Replies(c, Grant(NextOwner(file[g]), g) \o << Ok(c, g) >>)
  <2> DEFINE q == HandOver(file[g])
  <2>1. q \in FileRecords /\ q.present = file[g].present /\ q.size = file[g].size
    BY <1>0, HandOverContent DEF SameContent
  <2>2. Updates(g, file_close_client(q, c))
    BY <1>2
  <2> HIDE DEF q
  <2>3. /\ file_close_client(q, c).present = file[g].present
        /\ file_close_client(q, c).size = file[g].size
    BY <2>1, CloseClientContent DEF SameContent
  <2> QED
    BY <2>2, <2>3, UpdateStays
<1>3. CASE Updates(g, file_close_client(file[g], c)) /\ Replies(c, << Ok(c, g) >>)
  <2>1. /\ file_close_client(file[g], c).present = file[g].present
        /\ file_close_client(file[g], c).size = file[g].size
    BY <1>0, CloseClientContent DEF SameContent
  <2> QED
    BY <1>3, <2>1, UpdateStays
<1> QED
  BY <1>1, <1>2, <1>3 DEF Close

LEMMA RemoveIsRight ==
  ASSUME LockInv, NEW c \in Clients, NEW g \in Files, Remove(c, g)
  PROVE  Reasons
<1>1. CASE Fails(c, g, RemoveRefusal(c, g))
  BY <1>1, FailsStays, StayingIsRight
<1>2. CASE /\ RemoveRefusal(c, g) = "OK"
           /\ file' = [file EXCEPT ![g] = Absent]
           /\ out' = [out EXCEPT ![c] = << Ok(c, g) >>]
  <2>2. /\ file[g].locked_by = c /\ out[c] = << >> /\ out'[c] = << Ok(c, g) >>
    BY <1>2 DEF RemoveRefusal, Remove, InWriteSection, Handles, LockInv, Inv, SessionType
  <2>3. \A f \in Present \ Present' : f = g
    BY <1>2, FilesType DEF Present
  <2> QED
    BY <2>2, <2>3 DEF Reasons
<1>3. CASE Corrupts
  BY <1>3, CorruptsStays, StayingIsRight
<1> QED
  BY <1>1, <1>2, <1>3 DEF Remove

-------------------------------------------------------------------------------
(* Write and append.                                                       *)

LEMMA UpToLast ==
  ASSUME NEW k \in Nat, k > 0
  PROVE  /\ \A i \in 1 .. k : i = k \/ i \in 1 .. k - 1
         /\ \A i \in 1 .. k - 1 : i \in 1 .. k /\ i # k
OBVIOUS

\* A file of n bytes fills n positions.
LEMMA Positions ==
  ASSUME NEW h, NEW n \in Nat
  PROVE  /\ IsFiniteSet({h} \X (1 .. n)) /\ Cardinality({h} \X (1 .. n)) = n
<1>1. IsFiniteSet({h}) /\ Cardinality({h}) = 1
  BY FS_Singleton
<1>2. IsFiniteSet(1 .. n) /\ Cardinality(1 .. n) = n
  BY FS_Interval
<1>3. /\ IsFiniteSet({h} \X (1 .. n))
      /\ Cardinality({h} \X (1 .. n)) = Cardinality({h}) * Cardinality(1 .. n)
  BY <1>1, <1>2, FS_Product
<1> QED
  BY <1>1, <1>2, <1>3

\* Without the last file the replacement would not have freed enough.
LEMMA LastIsNeeded ==
  ASSUME Inv, NEW g \in Files, NEW n \in Nat, NEW vs \in Evictions(g, n), vs # << >>
  PROVE  \E h \in Range(vs) :
           usedMemory - Stored(Range(vs)) + n + file[h].size > MaxMemory
<1> DEFINE k     == Len(vs)
           h     == vs[k]
           R     == Range(vs)
           front == SubSeq(vs, 1, k - 1)
<1>1. vs \in Seq(Files) /\ IsInjective(vs) /\ R \subseteq Files
  <2>1. vs \in Seq(Files) /\ IsInjective(vs) /\ Range(vs) \subseteq Present \ {g}
    BY EvictionsProperties
  <2> QED
    BY <2>1 DEF Present
<1>2. k \in Nat /\ k > 0 /\ DOMAIN vs = 1 .. k
  BY <1>1, EmptySeq
<1>3. h \in R /\ h \in Files
  BY <1>1, <1>2 DEF Range
<1>4. Stored(Range(front)) < Missing(n)
  <2>1. ~(Missing(n) <= 0)
    BY DEF Evictions
  <2> QED
    BY <2>1 DEF Evictions
<1>5. Range(front) = R \ {h}
  <2>1. Len(front) = k - 1 /\ \A i \in 1 .. k - 1 : front[i] = vs[i]
    BY <1>1, <1>2
  <2>2. DOMAIN front = 1 .. k - 1
    BY <1>1, <1>2
  <2> HIDE DEF front
  <2>3. \A i \in 1 .. k : i = k \/ i \in 1 .. k - 1
    BY <1>2, UpToLast
  <2>4. \A i \in 1 .. k - 1 : i \in 1 .. k /\ i # k
    BY <1>2, UpToLast
  <2>5. k \in 1 .. k
    BY <1>2
  <2>6. \A i \in 1 .. k - 1 : vs[i] # h
    BY <1>1, <1>2, <2>4, <2>5 DEF IsInjective
  <2>7. \A x : x \in R <=> \E i \in 1 .. k : x = vs[i]
    BY <1>2 DEF Range
  <2>8. \A x : x \in Range(front) <=> \E i \in 1 .. k - 1 : x = vs[i]
    BY <2>1, <2>2 DEF Range
  <2> HIDE DEF k, h, R
  <2>9. h = vs[k]
    BY DEF h
  <2> QED
    BY <2>3, <2>4, <2>6, <2>7, <2>8, <2>9
<1> HIDE DEF R, front, h, k
<1>6. file \in [Files -> FileRecords] /\ usedMemory \in Nat /\ MaxMemory \in Nat
  BY ConstantsAssumption DEF Inv, StoreInv, StoreType
<1>7. /\ Stored({h}) \in Nat /\ Stored(R) \in Nat
      /\ Stored(R \ {h}) = Stored(R) - Stored({h})
  BY <1>1, <1>3, <1>6, StoredProperties
<1>8. Stored({h}) <= file[h].size /\ file[h].size \in Nat
  <2>1. file[h].size \in Nat
    BY <1>3, <1>6 DEF FileRecords
  <2> DEFINE P == {h} \X (1 .. file[h].size)
  <2>2. IsFiniteSet(P) /\ Cardinality(P) = file[h].size
    BY <2>1, Positions
  <2>3. Bytes({h}) \in SUBSET P
    BY <2>1 DEF Bytes
  <2>4. Cardinality(Bytes({h})) <= Cardinality(P)
    BY <2>2, <2>3, FS_Subset
  <2> QED
    BY <2>1, <2>2, <2>4 DEF Stored
<1>9. Stored(R) - Stored({h}) < n - (MaxMemory - usedMemory)
  BY <1>4, <1>5, <1>7 DEF Missing
<1>10. usedMemory - Stored(R) + n + file[h].size > MaxMemory
  BY <1>6, <1>7, <1>8, <1>9
<1> QED
  BY <1>3, <1>10 DEF R

LEMMA StoreDataIsRight ==
  ASSUME LockInv, NEW c \in Clients, Handles(c), NEW g \in Files,
         NEW n \in Nat, NEW sendBack \in BOOLEAN, NEW r, r.present,
         StoreData(c, g, r, n, sendBack)
  PROVE  Reasons
<1>1. CASE Fails(c, g, "EFBIG")
  BY <1>1, FailsStays, StayingIsRight
<1>2. CASE Corrupts
  BY <1>2, CorruptsStays, StayingIsRight
<1>3. ASSUME NEW vs \in Evictions(g, n),
             file' = [h \in Files |-> IF h \in Range(vs) THEN Absent
                                      ELSE IF h = g THEN r ELSE file[h]],
             usedMemory' = MemoryWithout(Range(vs)) + n,
             Replies(c, WriteAnswers(c, g, vs, sendBack))
      PROVE  Reasons
  <2>1. vs \in Seq(Files) /\ Range(vs) \subseteq Present \ {g}
    BY EvictionsProperties DEF LockInv
  <2>3. \A h \in Files : file'[h].present <=> h \notin Range(vs) /\ (h = g \/ h \in Present)
    BY <1>3 DEF Absent, Present
  <2>4. Present \ Present' = Range(vs)
    BY <2>1, <2>3 DEF Present
  <2>5. CASE vs = << >>
    <3>1. Range(vs) = {}
      BY <2>5 DEF Range
    <3> QED
      BY <2>4, <3>1 DEF Reasons
  <2>6. CASE vs # << >>
    <3>1. PICK h \in Range(vs) :
            usedMemory - Stored(Range(vs)) + n + file[h].size > MaxMemory
      BY <2>6, LastIsNeeded DEF LockInv
    <3>2. usedMemory' = usedMemory - Stored(Range(vs)) + n
      BY <1>3 DEF MemoryWithout
    <3> QED
      BY <2>4, <3>1, <3>2 DEF Reasons
  <2> QED
    BY <2>5, <2>6
<1> QED
  BY <1>1, <1>2, <1>3 DEF StoreData

LEMMA NewContentStays ==
  ASSUME NEW r \in FileRecords, NEW n \in Nat
  PROVE  /\ file_replace_content(r, n).present = r.present
         /\ file_append_content(r, n).present = r.present
         /\ [r EXCEPT !.write_enabled = FALSE].present = r.present
BY DEF file_replace_content, file_append_content, FileRecords

LEMMA ResetWriteModeStays ==
  ASSUME LockInv, NEW c \in Clients, NEW g \in Files, ResetWriteMode(c, g)
  PROVE  NoneLeaves
<1> DEFINE r == [file[g] EXCEPT !.write_enabled = FALSE]
<1>1. r.present = file[g].present /\ r.size = file[g].size
  BY FilesType, NewContentStays DEF FileRecords
<1>2. Updates(g, r) /\ Replies(c, << Ok(c, g) >>)
  BY DEF ResetWriteMode
<1> HIDE DEF r
<1> QED
  BY <1>1, <1>2, UpdateStays

LEMMA WriteIsRight ==
  ASSUME LockInv, NEW c \in Clients, NEW g \in Files, NEW n \in Sizes,
         NEW sendBack \in BOOLEAN, Write(c, g, n, sendBack)
  PROVE  Reasons
<1> DEFINE r == file_replace_content(file[g], n)
<1>0. Handles(c) /\ n \in Nat
  BY ConstantsAssumption DEF Write, InWriteSection
<1>1. \/ Fails(c, g, WriteRefusal(c, g, n))
      \/ ResetWriteMode(c, g)
      \/ WriteRefusal(c, g, n) = "OK" /\ StoreData(c, g, r, n, sendBack)
  BY DEF Write
<1>2. r.present = file[g].present
  BY <1>0, FilesType, NewContentStays
<1>3. WriteRefusal(c, g, n) = "OK" => file[g].present
  BY DEF WriteRefusal
<1> HIDE DEF r
<1> QED
  BY <1>0, <1>1, <1>2, <1>3, FailsStays, ResetWriteModeStays, StoreDataIsRight, StayingIsRight

LEMMA AppendToIsRight ==
  ASSUME LockInv, NEW c \in Clients, NEW g \in Files, NEW n \in Sizes,
         NEW sendBack \in BOOLEAN, AppendTo(c, g, n, sendBack)
  PROVE  Reasons
<1> DEFINE r == file_append_content(file[g], n)
<1>0. Handles(c) /\ n \in Nat
  BY ConstantsAssumption DEF AppendTo, InWriteSection
<1>1. \/ Fails(c, g, AppendRefusal(c, g, n))
      \/ ResetWriteMode(c, g)
      \/ AppendRefusal(c, g, n) = "OK" /\ StoreData(c, g, r, n, sendBack)
  BY DEF AppendTo
<1>2. r.present = file[g].present
  BY <1>0, FilesType, NewContentStays
<1>3. AppendRefusal(c, g, n) = "OK" => file[g].present
  BY DEF AppendRefusal
<1> HIDE DEF r
<1> QED
  BY <1>0, <1>1, <1>2, <1>3, FailsStays, ResetWriteModeStays, StoreDataIsRight, StayingIsRight

-------------------------------------------------------------------------------
(* The other steps, and the theorems.                                      *)

LEMMA DisconnectStays ==
  ASSUME LockInv, NEW c \in Clients, Disconnect(c)
  PROVE  NoneLeaves
<1>1. /\ out' = out
      /\ file' = [f \in Files |-> IF f \in filenames THEN Departed(file[f], c) ELSE file[f]]
  BY DEF Disconnect, notify_client_disconnected_fs, Departed
<1>2. \A f \in Files : /\ Departed(file[f], c).present = file[f].present
                      /\ Departed(file[f], c).size = file[f].size
  BY FilesType, CloseClientContent, DeleteLockClientContent DEF Departed, SameContent
<1> QED
  BY <1>1, <1>2 DEF NoneLeaves

LEMMA ReasonsNext == LockInv /\ [Next]_vars => Reasons
<1> SUFFICES ASSUME LockInv, [Next]_vars
             PROVE  Reasons
  OBVIOUS
<1>1. CASE UNCHANGED vars
  BY <1>1, StoreAlone, StayingIsRight DEF vars
<1>2. ASSUME NEW c \in Clients, Request(c)
      PROVE  Reasons
  <2>1. CASE \E g \in Files, lock \in BOOLEAN : OpenCreate(c, g, lock)
    BY <2>1, OpenCreateStays, StayingIsRight
  <2>2. CASE \E g \in Files, lock \in BOOLEAN : Open(c, g, lock)
    BY <2>2, OpenStays, StayingIsRight
  <2>3. CASE \E g \in Files, n \in Sizes, sendBack \in BOOLEAN : Write(c, g, n, sendBack)
    BY <2>3, WriteIsRight
  <2>4. CASE \E g \in Files, n \in Sizes, sendBack \in BOOLEAN : AppendTo(c, g, n, sendBack)
    BY <2>4, AppendToIsRight
  <2>5. CASE \E g \in Files : Read(c, g)
    BY <2>5, StoreAlone, StayingIsRight DEF Read, Fails, Sends
  <2>6. CASE \E n \in 0 .. MaxFiles : ReadN(c, n)
    BY <2>6, StoreAlone, StayingIsRight DEF ReadN, Sends
  <2>7. CASE \E g \in Files : Remove(c, g)
    BY <2>7, RemoveIsRight
  <2>8. CASE \E g \in Files : Lock(c, g)
    BY <2>8, LockStays, StayingIsRight
  <2>9. CASE \E g \in Files : Unlock(c, g)
    BY <2>9, UnlockStays, StayingIsRight
  <2>10. CASE \E g \in Files : Close(c, g)
    BY <2>10, CloseStays, StayingIsRight
  <2> QED
    BY <1>2, <2>1, <2>2, <2>3, <2>4, <2>5, <2>6, <2>7, <2>8, <2>9, <2>10 DEF Request
<1>3. ASSUME NEW c \in Clients, Deliver(c) \/ Exit(c) \/ Die(c)
      PROVE  Reasons
  BY <1>3, StoreAlone, StayingIsRight DEF Deliver, Exit, Die
<1>4. ASSUME NEW c \in Clients, Disconnect(c)
      PROVE  Reasons
  BY <1>4, DisconnectStays, StayingIsRight
<1> QED
  BY <1>1, <1>2, <1>3, <1>4 DEF Next

\* A file goes only because its owner removed it or because the files evicted
\* with it but one would not have made room enough.
THEOREM FilesLeaveOnlyForAReason == Spec => FilesLeaveForAReason
<1>1. LockInv /\ [Next]_vars =>
        [\A f \in Present \ Present' :
           \/ \E c \in Clients : /\ file[f].locked_by = c
                                 /\ out[c] = << >> /\ out'[c] = << Ok(c, f) >>
           \/ \E g \in Present \ Present' : usedMemory' + file[g].size > MaxMemory]_vars
  BY ReasonsNext DEF Reasons
<1> QED
  BY <1>1, LockInvAlways, PTL DEF Spec, FilesLeaveForAReason

-------------------------------------------------------------------------------
(* Which files a write evicts.                                             *)

\* What the policies compare, of files that are stored or not.
PolicyType ==
  /\ config \in Configs
  /\ fs_policy = ChosenPolicy(config)
  /\ creation_time \in [Files -> Nat]
  /\ last_use_time \in [Files -> Nat]
  /\ use_frequency \in [Files -> Nat]

PolicyInv == LockInv /\ PolicyType

LEMMA PolicyKey ==
  ASSUME PolicyType
  PROVE  fs_policy \in Policies /\ Key(fs_policy) \in [Files -> Nat]
<1>1. fs_policy \in Policies
  BY DEF PolicyType, ChosenPolicy, set_policy_fs, Policies
<1> QED
  BY <1>1 DEF PolicyType, Key, Policies

LEMMA RankedType ==
  ASSUME NEW t \in [Files -> Nat]
  PROVE  Ranked(t) \in [Files -> Nat]
<1> DEFINE times == [g \in Files |-> IF file'[g].present THEN t[g] ELSE 0]
<1>1. times \in [Files -> Nat]
  OBVIOUS
<1> HIDE DEF times
<1>2. \A g \in Files :
        Cardinality({times[h] : h \in Files} \cap (1 .. times[g])) \in Nat
  <2> SUFFICES ASSUME NEW g \in Files
               PROVE  Cardinality({times[h] : h \in Files} \cap (1 .. times[g])) \in Nat
    OBVIOUS
  <2>1. IsFiniteSet(1 .. times[g])
    BY <1>1, FS_Interval
  <2>2. {times[h] : h \in Files} \cap (1 .. times[g]) \subseteq 1 .. times[g]
    OBVIOUS
  <2> QED
    BY <2>1, <2>2, FS_Subset, FS_CardinalityType
<1>3. Ranked(t) = [g \in Files |-> Cardinality({times[h] : h \in Files} \cap (1 .. times[g]))]
  BY DEF Ranked, times
<1> QED
  BY <1>2, <1>3

LEMMA NowType ==
  ASSUME NEW t \in [Files -> Nat], NEW f \in Files, NEW u \in Now(t, f)
  PROVE  u \in [Files -> Nat]
<1>1. PICK n \in 1 .. Cardinality(Files) + 1 : u = Ranked([t EXCEPT ![f] = n])
  BY DEF Now
<1>2. n \in Nat
  BY ConstantsAssumption, FS_CardinalityType
<1>3. [t EXCEPT ![f] = n] \in [Files -> Nat]
  BY <1>2
<1> QED
  BY <1>1, <1>3, RankedType

LEMMA KeptType ==
  ASSUME NEW counts \in [Files -> Nat]
  PROVE  Kept(counts) \in [Files -> Nat]
BY DEF Kept

\* Every step uses one file, creates one, or leaves the times alone.
Timed == Untouched \/ \E f \in Files : Used(f) \/ Created(f)

LEMMA TimedType ==
  ASSUME PolicyType, Timed, UNCHANGED <<config, fs_policy>>
  PROVE  PolicyType'
<1>0. /\ creation_time \in [Files -> Nat] /\ last_use_time \in [Files -> Nat]
      /\ use_frequency \in [Files -> Nat]
  BY DEF PolicyType
<1>1. \A f \in Files : /\ [use_frequency EXCEPT ![f] = @ + 1] \in [Files -> Nat]
                       /\ [use_frequency EXCEPT ![f] = 1] \in [Files -> Nat]
  BY <1>0
<1>2. use_frequency' \in [Files -> Nat]
  BY <1>0, <1>1, KeptType DEF Timed, Untouched, Used, Created, Counts
<1>3. last_use_time' \in [Files -> Nat]
  BY <1>0, RankedType, NowType DEF Timed, Untouched, Used, Created, Touches
<1>4. creation_time' \in [Files -> Nat]
  BY <1>0, RankedType, NowType DEF Timed, Untouched, Used, Created, Creates
<1> QED
  BY <1>2, <1>3, <1>4 DEF PolicyType, ChosenPolicy, set_policy_fs

LEMMA StoresTimed ==
  ASSUME NEW c \in Clients, NEW f \in Files, NEW n \in Sizes, NEW sendBack \in BOOLEAN,
         Stores(c, f, n, sendBack)
  PROVE  Timed
BY DEF Stores, Timed

LEMMA RequestTimed ==
  ASSUME NEW c \in Clients, PolicyRequest(c)
  PROVE  Request(c) /\ Timed
<1>1. CASE \E f \in Files, n \in Sizes, sendBack \in BOOLEAN : PolicyWrite(c, f, n, sendBack)
  BY <1>1, StoresTimed DEF PolicyWrite, Request, Timed
<1>2. CASE \E f \in Files, n \in Sizes, sendBack \in BOOLEAN : PolicyAppend(c, f, n, sendBack)
  BY <1>2, StoresTimed DEF PolicyAppend, Request, Timed, UsedIf
<1> QED
  BY <1>1, <1>2 DEF PolicyRequest, Request, Timed, UsedIf

LEMMA PolicyStep == [PolicyNext]_rvars => [Next]_vars
<1> SUFFICES ASSUME [PolicyNext]_rvars
             PROVE  [Next]_vars
  OBVIOUS
<1>1. CASE UNCHANGED rvars
  BY <1>1 DEF rvars
<1>2. CASE PolicyNext
  BY <1>2, RequestTimed DEF PolicyNext, PolicyDeliver, Next
<1> QED
  BY <1>1, <1>2

LEMMA PolicyTypeNext == PolicyType /\ [PolicyNext]_rvars => PolicyType'
<1> SUFFICES ASSUME PolicyType, [PolicyNext]_rvars
             PROVE  PolicyType'
  OBVIOUS
<1>1. CASE UNCHANGED rvars
  BY <1>1 DEF PolicyType, rvars, policyVars, ChosenPolicy, set_policy_fs
<1>2. CASE PolicyNext
  <2>1. Timed
    BY <1>2, RequestTimed DEF PolicyNext, PolicyDeliver, Timed
  <2> QED
    BY <1>2, <2>1, TimedType DEF PolicyNext
<1> QED
  BY <1>1, <1>2

LEMMA PolicyTypeInit == PolicyInit => PolicyType
BY DEF PolicyInit, PolicyType

\* A server that evicts by policy is the server that evicts in any order: what
\* is proved of the store, its locks and its answers holds for each policy.
THEOREM PoliciesKeepTheStore == PolicySpec => Spec
<1>1. PolicyInit => Init
  BY DEF PolicyInit
<1> QED
  BY <1>1, PolicyStep, PTL DEF PolicySpec, Spec

LEMMA PolicyInvAlways == PolicySpec => []PolicyInv
<1>1. PolicySpec => []LockInv
  BY PoliciesKeepTheStore, LockInvAlways, PTL
<1>2. PolicySpec => []PolicyType
  BY PolicyTypeInit, PolicyTypeNext, PTL DEF PolicySpec
<1> QED
  BY <1>1, <1>2, PTL DEF PolicyInv

LEMMA TakenType ==
  ASSUME NEW S \in SUBSET Files, NEW q \in Sorted(S), NEW n, NEW vs \in Taken(q, n)
  PROVE  vs \in Seq(Files)
<1>1. Cardinality(S) \in Nat
  BY ConstantsAssumption, FS_Subset, FS_CardinalityType
<1>2. q \in [1 .. Cardinality(S) -> S]
  BY DEF Sorted, Bijection, Surjection
<1>3. q \in Seq(Files)
  BY <1>1, <1>2
<1>4. PICK k \in 0 .. Len(q) : vs = SubSeq(q, 1, k)
  BY DEF Taken
<1> QED
  BY <1>3, <1>4

\* qsort puts what is taken before what is not.
LEMMA TakenComeFirst ==
  ASSUME PolicyInv, NEW S \in SUBSET Files, NEW q \in Sorted(S),
         NEW n \in Int, NEW vs \in Taken(q, n),
         NEW v \in Range(vs), NEW s \in S, s \notin Range(vs)
  PROVE  Compare(fs_policy, v, s) <= 0
<1>1. Cardinality(S) \in Nat
  BY ConstantsAssumption, FS_Subset, FS_CardinalityType
<1> DEFINE m == Cardinality(S)
<1>2. /\ q \in [1 .. m -> S]
      /\ \A g \in S : \E i \in 1 .. m : q[i] = g
      /\ \A j \in DOMAIN q : \A i \in 1 .. j - 1 : Compare(fs_policy, q[i], q[j]) <= 0
  BY DEF Sorted, Bijection, Surjection
<1> HIDE DEF m
<1>3. m \in Nat
  BY <1>1 DEF m
<1>4. q \in Seq(S) /\ Len(q) = m /\ DOMAIN q = 1 .. m
  BY <1>2, <1>3
<1>5. PICK k \in 0 .. m : vs = SubSeq(q, 1, k)
  BY <1>4 DEF Taken
<1>6. k \in Nat /\ k <= m
  BY <1>3, <1>5
<1>7. /\ Len(vs) = k /\ DOMAIN vs = 1 .. k
      /\ \A i \in 1 .. k : vs[i] = q[i]
  BY <1>3, <1>4, <1>5, <1>6
<1>8. PICK i \in 1 .. k : v = q[i]
  BY <1>7 DEF Range
<1>9. PICK j \in 1 .. m : s = q[j]
  BY <1>2
<1>10. ~ (j \in 1 .. k)
  BY <1>7, <1>9 DEF Range
<1>11. i \in 1 .. j - 1
  BY <1>3, <1>6, <1>8, <1>9, <1>10
<1> QED
  BY <1>2, <1>4, <1>8, <1>9, <1>11

\* s stays and v goes only if the policy p says so.
Before(p, v, s) == Key(p)[v] < Key(p)[s] \/ (Key(p)[v] = Key(p)[s] /\ file[v].size <= file[s].size)

LEMMA CompareSays ==
  ASSUME PolicyInv, NEW v \in Files, NEW s \in Files, Compare(fs_policy, v, s) <= 0
  PROVE  Before(fs_policy, v, s)
<1>1. Key(fs_policy)[v] \in Nat /\ Key(fs_policy)[s] \in Nat
  BY PolicyKey DEF PolicyInv
<1>2. file[v].size \in Nat /\ file[s].size \in Nat
  BY FilesType DEF PolicyInv, FileRecords
<1> QED
  BY <1>1, <1>2 DEF Compare, Before

\* From the answers one can tell which files were evicted, and for which one.
LEMMA WriteAnswersAre ==
  ASSUME Inv, NEW c \in Clients, NEW f \in Files, NEW vs \in Seq(Files),
         NEW sendBack \in BOOLEAN
  PROVE  LET msgs == WriteAnswers(c, f, vs, sendBack) IN
         /\ Len(msgs) = Len(vs) + 1
         /\ sendBack => /\ \A i \in 1 .. Len(vs) : msgs[i] = Removed(vs[i])
                        /\ msgs[Len(vs) + 1] = Answer(c, f, "OK", Range(vs))
         /\ ~ sendBack => /\ \A i \in 1 .. Len(vs) : msgs[i + 1] = Removed(vs[i])
                          /\ msgs[1] = Ok(c, f)
<1> DEFINE removals == [i \in 1 .. Len(vs) |-> Removed(vs[i])]
           m    == Answer(c, f, "OK", Range(vs))
           ok   == Ok(c, f)
           msgs == WriteAnswers(c, f, vs, sendBack)
<1>1. msgs = IF sendBack THEN removals \o << m >> ELSE << ok >> \o removals
  BY DEF WriteAnswers
<1>2. /\ removals \in Seq(Messages) /\ Len(removals) = Len(vs)
      /\ \A i \in 1 .. Len(vs) : removals[i] = Removed(vs[i])
  BY RemovalsType
<1>3. m \in Messages /\ ok \in Messages
  <2>1. Range(vs) \in SUBSET Files
    BY DEF Range
  <2> QED
    BY <2>1, AnswerType, OkType DEF Answers
<1>4. Len(vs) \in Nat
  OBVIOUS
<1> HIDE DEF removals, m, ok, msgs
<1>5. << m >> \in Seq(Messages) /\ << ok >> \in Seq(Messages)
      /\ Len(<< m >>) = 1 /\ Len(<< ok >>) = 1
  BY <1>3
<1>6. CASE sendBack
  <2>1. msgs = removals \o << m >>
    BY <1>1, <1>6
  <2>2. Len(msgs) = Len(vs) + 1
    BY <1>2, <1>5, <2>1
  <2>3. \A i \in 1 .. Len(vs) : msgs[i] = Removed(vs[i])
    BY <1>2, <1>4, <1>5, <2>1
  <2>4. msgs[Len(vs) + 1] = m
    BY <1>2, <1>4, <1>5, <2>1
  <2> QED
    BY <1>6, <2>2, <2>3, <2>4 DEF msgs, m
<1>7. CASE ~ sendBack
  <2>1. msgs = << ok >> \o removals
    BY <1>1, <1>7
  <2>2. Len(msgs) = Len(vs) + 1
    BY <1>2, <1>4, <1>5, <2>1
  <2>3. \A i \in 1 .. Len(vs) : msgs[i + 1] = Removed(vs[i])
    BY <1>2, <1>4, <1>5, <2>1
  <2>4. msgs[1] = ok
    BY <1>2, <1>4, <1>5, <2>1
  <2> QED
    BY <1>7, <2>2, <2>3, <2>4 DEF msgs, ok
<1> QED
  BY <1>6, <1>7

LEMMA WhatAnswersSay ==
  ASSUME NEW c, NEW f, NEW D, NEW g
  PROVE  /\ Removed(g).about = g /\ Removed(g).ans = "EIDRM"
         /\ Answer(c, f, "OK", D).about = f /\ Answer(c, f, "OK", D).data = D
         /\ Ok(c, f).about = f
BY DEF Removed, Answer, Ok

LEMMA AnswersTell ==
  ASSUME Inv, NEW c \in Clients, NEW f \in Files, NEW vs \in Seq(Files), NEW ws \in Seq(Files),
         NEW sendBack \in BOOLEAN,
         WriteAnswers(c, f, vs, sendBack) = WriteAnswers(c, f, ws, sendBack)
  PROVE  Range(vs) = Range(ws)
<1> DEFINE V == WriteAnswers(c, f, vs, sendBack)
           W == WriteAnswers(c, f, ws, sendBack)
<1>1. Len(vs) \in Nat /\ Len(ws) \in Nat
  OBVIOUS
<1>2. Len(V) = Len(vs) + 1 /\ Len(W) = Len(ws) + 1 /\ V = W
  BY WriteAnswersAre
<1>3. Len(vs) = Len(ws)
  BY <1>1, <1>2
<1>4. CASE sendBack
  <2>1. V[Len(vs) + 1] = Answer(c, f, "OK", Range(vs))
        /\ W[Len(ws) + 1] = Answer(c, f, "OK", Range(ws))
    BY <1>4, WriteAnswersAre
  <2> QED
    BY <1>2, <1>3, <2>1, WhatAnswersSay
<1>5. CASE ~ sendBack
  <2>1. /\ \A i \in 1 .. Len(vs) : V[i + 1] = Removed(vs[i])
        /\ \A i \in 1 .. Len(ws) : W[i + 1] = Removed(ws[i])
    BY <1>5, WriteAnswersAre
  <2>2. ASSUME NEW i \in 1 .. Len(vs)
        PROVE  vs[i] = ws[i]
    <3>1. V[i + 1] = Removed(vs[i]) /\ W[i + 1] = Removed(ws[i])
      BY <1>3, <2>1
    <3>2. Removed(vs[i]) = Removed(ws[i])
      BY <1>2, <3>1
    <3> QED
      BY <3>2, WhatAnswersSay
  <2>3. DOMAIN vs = 1 .. Len(vs) /\ DOMAIN ws = 1 .. Len(vs)
    BY <1>3
  <2> QED
    BY <2>2, <2>3 DEF Range
<1> QED
  BY <1>4, <1>5

LEMMA OkIsAboutTheFile ==
  ASSUME Inv, NEW c \in Clients, NEW f \in Files, NEW vs \in Seq(Files),
         NEW sendBack \in BOOLEAN,
         NEW i \in DOMAIN WriteAnswers(c, f, vs, sendBack),
         WriteAnswers(c, f, vs, sendBack)[i].ans = "OK"
  PROVE  WriteAnswers(c, f, vs, sendBack)[i].about = f
<1> DEFINE msgs == WriteAnswers(c, f, vs, sendBack)
<1>1. Len(vs) \in Nat /\ msgs \in Seq(Messages) /\ Len(msgs) = Len(vs) + 1
  BY WriteAnswersAre, WriteAnswersType
<1>2. i \in 1 .. Len(vs) + 1
  BY <1>1
<1>3. CASE sendBack
  <2>1. /\ \A j \in 1 .. Len(vs) : msgs[j] = Removed(vs[j])
        /\ msgs[Len(vs) + 1] = Answer(c, f, "OK", Range(vs))
    BY <1>3, WriteAnswersAre
  <2>2. ~ (i \in 1 .. Len(vs))
    BY <2>1, WhatAnswersSay
  <2>3. i = Len(vs) + 1
    BY <1>1, <1>2, <2>2
  <2> QED
    BY <2>1, <2>3, WhatAnswersSay
<1>4. CASE ~ sendBack
  <2>1. /\ \A j \in 1 .. Len(vs) : msgs[j + 1] = Removed(vs[j])
        /\ msgs[1] = Ok(c, f)
    BY <1>4, WriteAnswersAre
  <2>2. ~ (i - 1 \in 1 .. Len(vs))
    <3> SUFFICES ASSUME i - 1 \in 1 .. Len(vs)
                 PROVE  FALSE
      OBVIOUS
    <3>1. i = (i - 1) + 1
      BY <1>1, <1>2
    <3>2. msgs[(i - 1) + 1] = Removed(vs[i - 1])
      BY <2>1
    <3> QED
      BY <3>1, <3>2, WhatAnswersSay
  <2>3. i = 1
    BY <1>1, <1>2, <2>2
  <2> QED
    BY <2>1, <2>3, WhatAnswersSay
<1> QED
  BY <1>3, <1>4

-------------------------------------------------------------------------------
(* The policy is followed.                                                 *)

\* PolicyIsFollowed, of one step, for the policy in use.
Follows ==
  \A c \in Clients, g \in Files : Accepts(c, g) =>
    \A v \in (Present \ Present') \ {g}, s \in (Present \cap Present') \ {g} :
      Before(fs_policy, v, s)

LEMMA NoneLeavesFollows ==
  ASSUME NoneLeaves
  PROVE  Follows
BY DEF NoneLeaves, Follows, Present

\* Only c is answered in this step, if its answer was not already on its way.
LEMMA AcceptsOne ==
  ASSUME LockInv, NEW c \in Clients, NEW msgs, out' = [out EXCEPT ![c] = msgs],
         NEW d \in Clients, NEW g \in Files, Accepts(d, g)
  PROVE  /\ d = c
         /\ \E i \in DOMAIN msgs : msgs[i].ans = "OK" /\ msgs[i].about = g
<1>1. out \in [Clients -> Seq(Messages)]
  BY DEF LockInv, Inv, SessionType
<1>2. PICK i \in DOMAIN out'[d] : out'[d][i].ans = "OK" /\ out'[d][i].about = g
  BY DEF Accepts
<1>3. d = c
  BY <1>1, <1>2 DEF Accepts
<1> QED
  BY <1>1, <1>2, <1>3

LEMMA RemoveFollows ==
  ASSUME LockInv, NEW c \in Clients, NEW f \in Files, Remove(c, f)
  PROVE  Follows
<1>1. CASE Fails(c, f, RemoveRefusal(c, f)) \/ Corrupts
  BY <1>1, FailsStays, CorruptsStays, NoneLeavesFollows
<1>2. CASE /\ file' = [file EXCEPT ![f] = Absent]
           /\ out' = [out EXCEPT ![c] = << Ok(c, f) >>]
  <2>1. \A v \in Present \ Present' : v = f
    BY <1>2, FilesType DEF Present
  <2>2. \A d \in Clients, g \in Files : Accepts(d, g) => g = f
    <3> SUFFICES ASSUME NEW d \in Clients, NEW g \in Files, Accepts(d, g)
                 PROVE  g = f
      OBVIOUS
    <3> DEFINE msgs == << Ok(c, f) >>
    <3>1. out' = [out EXCEPT ![c] = msgs]
      BY <1>2
    <3>2. DOMAIN msgs = {1} /\ msgs[1] = Ok(c, f)
      OBVIOUS
    <3> HIDE DEF msgs
    <3>3. \E i \in DOMAIN msgs : msgs[i].ans = "OK" /\ msgs[i].about = g
      BY <3>1, AcceptsOne
    <3> QED
      BY <3>2, <3>3, WhatAnswersSay
  <2> QED
    BY <2>1, <2>2 DEF Follows
<1> QED
  BY <1>1, <1>2 DEF Remove

LEMMA StoreDataFollows ==
  ASSUME PolicyInv, NEW c \in Clients, NEW f \in Files, NEW n \in Nat,
         NEW sendBack \in BOOLEAN, NEW r, r.present, heap = "sound",
         StoreData(c, f, r, n, sendBack), Stores(c, f, n, sendBack)
  PROVE  Follows
<1>1. CASE Fails(c, f, "EFBIG") \/ Corrupts
  BY <1>1, FailsStays, CorruptsStays, NoneLeavesFollows
<1>2. ASSUME NEW vs \in Evictions(f, n),
             file' = [h \in Files |-> IF h \in Range(vs) THEN Absent
                                      ELSE IF h = f THEN r ELSE file[h]],
             Replies(c, WriteAnswers(c, f, vs, sendBack))
      PROVE  Follows
  <2>1. vs \in Seq(Files) /\ Range(vs) \subseteq Present \ {f}
    BY EvictionsProperties DEF PolicyInv, LockInv
  <2>2. \A h \in Files : file'[h].present <=> h \notin Range(vs) /\ (h = f \/ h \in Present)
    BY <1>2 DEF Absent, Present
  <2>3. /\ Present \ Present' = Range(vs)
        /\ \A s \in Present \cap Present' : s \notin Range(vs)
    BY <2>1, <2>2 DEF Present
  <2> DEFINE S == Present \ {f}
             msgs == WriteAnswers(c, f, vs, sendBack)
  <2>4. heap' = "sound" /\ out' = [out EXCEPT ![c] = msgs]
    BY <1>2 DEF Replies
  <2>5. out'[c] = msgs
    BY <2>4 DEF PolicyInv, LockInv, Inv, SessionType
  <2>6. EvictsByPolicy(c, f, n, sendBack)
    BY <1>2 DEF Stores
  <2>7. PICK q \in Sorted(S) : \E ws \in Taken(q, Missing(n)) :
               out'[c] = WriteAnswers(c, f, ws, sendBack)
    BY <2>4, <2>6 DEF EvictsByPolicy
  <2>8. PICK ws \in Taken(q, Missing(n)) : out'[c] = WriteAnswers(c, f, ws, sendBack)
    BY <2>7
  <2>9. S \in SUBSET Files
    BY DEF Present
  <2> HIDE DEF S, msgs
  <2>10. ws \in Seq(Files)
    BY <2>7, <2>8, <2>9, TakenType
  <2>11. Range(vs) = Range(ws)
    <3>1. WriteAnswers(c, f, vs, sendBack) = WriteAnswers(c, f, ws, sendBack)
      BY <2>5, <2>8 DEF msgs
    <3>2. Inv
      BY DEF PolicyInv, LockInv
    <3> QED
      BY <2>1, <2>10, <3>1, <3>2, AnswersTell
  <2>12. Missing(n) \in Int
    BY ConstantsAssumption DEF Missing, PolicyInv, LockInv, Inv, StoreInv, StoreType
  <2>13. \A v \in Range(vs), s \in S : s \notin Range(vs) => Before(fs_policy, v, s)
    <3> SUFFICES ASSUME NEW v \in Range(vs), NEW s \in S, s \notin Range(vs)
                 PROVE  Before(fs_policy, v, s)
      OBVIOUS
    <3>1. Compare(fs_policy, v, s) <= 0
      BY <2>7, <2>8, <2>9, <2>11, <2>12, TakenComeFirst
    <3>2. v \in Files /\ s \in Files
      BY <2>1, <2>9 DEF Present
    <3> QED
      BY <3>1, <3>2, CompareSays
  <2>14. \A d \in Clients, g \in Files : Accepts(d, g) => g = f
    <3> SUFFICES ASSUME NEW d \in Clients, NEW g \in Files, Accepts(d, g)
                 PROVE  g = f
      OBVIOUS
    <3>1. PICK i \in DOMAIN msgs : msgs[i].ans = "OK" /\ msgs[i].about = g
      BY <2>4, AcceptsOne DEF PolicyInv
    <3> QED
      BY <2>1, <3>1, OkIsAboutTheFile DEF PolicyInv, LockInv, msgs
  <2>15. \A s \in (Present \cap Present') \ {f} : s \in S /\ s \notin Range(vs)
    BY <2>3 DEF S
  <2> QED
    BY <2>3, <2>13, <2>14, <2>15 DEF Follows
<1> QED
  BY <1>1, <1>2 DEF StoreData

LEMMA WriteFollows ==
  ASSUME PolicyInv, NEW c \in Clients, NEW f \in Files, NEW n \in Sizes,
         NEW sendBack \in BOOLEAN, PolicyWrite(c, f, n, sendBack)
  PROVE  Follows
<1> DEFINE r == file_replace_content(file[f], n)
<1>0. n \in Nat /\ heap = "sound" /\ LockInv
  BY ConstantsAssumption DEF PolicyWrite, Write, InWriteSection, Handles, PolicyInv
<1>1. \/ Fails(c, f, WriteRefusal(c, f, n))
      \/ ResetWriteMode(c, f)
      \/ WriteRefusal(c, f, n) = "OK" /\ n > 0 /\ StoreData(c, f, r, n, sendBack)
  BY DEF PolicyWrite, Write
<1>2. WriteRefusal(c, f, n) = "OK" /\ n > 0 => Stores(c, f, n, sendBack)
  BY DEF PolicyWrite
<1>3. WriteRefusal(c, f, n) = "OK" => r.present
  BY <1>0, FilesType, NewContentStays DEF WriteRefusal
<1> HIDE DEF r
<1>4. CASE Fails(c, f, WriteRefusal(c, f, n)) \/ ResetWriteMode(c, f)
  BY <1>0, <1>4, FailsStays, ResetWriteModeStays, NoneLeavesFollows
<1>5. CASE WriteRefusal(c, f, n) = "OK" /\ n > 0 /\ StoreData(c, f, r, n, sendBack)
  BY <1>0, <1>2, <1>3, <1>5, StoreDataFollows
<1> QED
  BY <1>1, <1>4, <1>5

LEMMA AppendFollows ==
  ASSUME PolicyInv, NEW c \in Clients, NEW f \in Files, NEW n \in Sizes,
         NEW sendBack \in BOOLEAN, PolicyAppend(c, f, n, sendBack)
  PROVE  Follows
<1> DEFINE r == file_append_content(file[f], n)
<1>0. n \in Nat /\ heap = "sound" /\ LockInv
  BY ConstantsAssumption DEF PolicyAppend, AppendTo, InWriteSection, Handles, PolicyInv
<1>1. \/ Fails(c, f, AppendRefusal(c, f, n))
      \/ ResetWriteMode(c, f)
      \/ AppendRefusal(c, f, n) = "OK" /\ n > 0 /\ StoreData(c, f, r, n, sendBack)
  BY DEF PolicyAppend, AppendTo
<1>2. AppendRefusal(c, f, n) = "OK" /\ n > 0 => Stores(c, f, n, sendBack)
  BY DEF PolicyAppend
<1>3. AppendRefusal(c, f, n) = "OK" => r.present
  BY <1>0, FilesType, NewContentStays DEF AppendRefusal
<1> HIDE DEF r
<1>4. CASE Fails(c, f, AppendRefusal(c, f, n)) \/ ResetWriteMode(c, f)
  BY <1>0, <1>4, FailsStays, ResetWriteModeStays, NoneLeavesFollows
<1>5. CASE AppendRefusal(c, f, n) = "OK" /\ n > 0 /\ StoreData(c, f, r, n, sendBack)
  BY <1>0, <1>2, <1>3, <1>5, StoreDataFollows
<1> QED
  BY <1>1, <1>4, <1>5

LEMMA FollowsNext == PolicyInv /\ [PolicyNext]_rvars => Follows
<1> SUFFICES ASSUME PolicyInv, [PolicyNext]_rvars
             PROVE  Follows
  OBVIOUS
<1>0. LockInv
  BY DEF PolicyInv
<1> HIDE DEF Follows, PolicyInv
<1>1. CASE UNCHANGED rvars
  BY <1>1, StoreAlone, NoneLeavesFollows DEF rvars, vars
<1>2. ASSUME NEW c \in Clients, PolicyRequest(c)
      PROVE  Follows
  <2>1. CASE \E f \in Files, n \in Sizes, sendBack \in BOOLEAN : PolicyWrite(c, f, n, sendBack)
    BY <2>1, WriteFollows
  <2>2. CASE \E f \in Files, n \in Sizes, sendBack \in BOOLEAN : PolicyAppend(c, f, n, sendBack)
    BY <2>2, AppendFollows
  <2>3. CASE \E f \in Files : Remove(c, f)
    BY <1>0, <2>3, RemoveFollows
  <2>4. CASE \E f \in Files, lock \in BOOLEAN : OpenCreate(c, f, lock) \/ Open(c, f, lock)
    BY <1>0, <2>4, OpenCreateStays, OpenStays, NoneLeavesFollows
  <2>5. CASE \E f \in Files : Lock(c, f) \/ Unlock(c, f) \/ Close(c, f)
    BY <1>0, <2>5, LockStays, UnlockStays, CloseStays, NoneLeavesFollows
  <2>6. CASE \/ \E f \in Files : Read(c, f)
             \/ \E n \in 0 .. MaxFiles : ReadN(c, n)
    BY <2>6, StoreAlone, NoneLeavesFollows DEF Read, ReadN, Fails, Sends
  <2> QED
    BY <1>2, <2>1, <2>2, <2>3, <2>4, <2>5, <2>6 DEF PolicyRequest
<1>3. ASSUME NEW c \in Clients, PolicyDeliver(c) \/ Exit(c) \/ Die(c)
      PROVE  Follows
  BY <1>3, StoreAlone, NoneLeavesFollows DEF PolicyDeliver, Deliver, Exit, Die
<1>4. ASSUME NEW c \in Clients, Disconnect(c)
      PROVE  Follows
  BY <1>0, <1>4, DisconnectStays, NoneLeavesFollows
<1> QED
  BY <1>1, <1>2, <1>3, <1>4 DEF PolicyNext

\* If the log of every configuration is named after its policy, as in test1.sh,
\* test2.sh and test3.sh, then the configured policy decides who is evicted, for
\* any number of files and clients and whatever the times and the sizes.  For
\* other configurations it does not: init_server looks at the name of the log.
THEOREM ConfiguredPolicyDecides ==
  ASSUME \A cfg \in Configs : ChosenPolicy(cfg) = set_policy_fs(cfg.policy_type)
  PROVE  PolicySpec => PolicyIsFollowed
<1>1. PolicyInv /\ [PolicyNext]_rvars =>
        [LET key == Key(set_policy_fs(config.policy_type)) IN
         \A c \in Clients, g \in Files : Accepts(c, g) =>
           \A v \in (Present \ Present') \ {g}, s \in (Present \cap Present') \ {g} :
             key[v] < key[s] \/ (key[v] = key[s] /\ file[v].size <= file[s].size)]_rvars
  <2> SUFFICES ASSUME PolicyInv, [PolicyNext]_rvars
               PROVE  LET key == Key(set_policy_fs(config.policy_type)) IN
                      \A c \in Clients, g \in Files : Accepts(c, g) =>
                        \A v \in (Present \ Present') \ {g}, s \in (Present \cap Present') \ {g} :
                          key[v] < key[s] \/ (key[v] = key[s] /\ file[v].size <= file[s].size)
    OBVIOUS
  <2>1. fs_policy = set_policy_fs(config.policy_type)
    BY DEF PolicyInv, PolicyType
  <2> QED
    BY <2>1, FollowsNext DEF Follows, Before
<1> QED
  BY <1>1, PolicyInvAlways, PTL DEF PolicySpec, PolicyIsFollowed

-------------------------------------------------------------------------------
(* The replacement, one turn of its loops at a time.                       *)

\* No file is larger than the memory.
SizesFit == \A f \in Files : file[f].size <= MaxMemory

\* The files picked, and those of them removed.
Picked == {freed[k].pathname : k \in 1 .. Len(freed)}
Gone   == {freed[k].pathname : k \in 1 .. removed}

\* The request was accepted and lacks room, and no other worker is in a section.
RequestInv ==
  /\ request.c \in Clients /\ request.f \in Files
  /\ request.n \in Sizes /\ request.sendBack \in BOOLEAN
  /\ status[request.c] = "idle" /\ out[request.c] = << >> /\ rlock = {}
  /\ Cardinality({d \in Clients : out[d] # << >>}) < Workers
  /\ request.n > 0 /\ mem_needed > 0
  /\ \/ /\ WriteRefusal(request.c, request.f, request.n) = "OK"
        /\ request.content = file_replace_content(file[request.f], request.n)
     \/ /\ AppendRefusal(request.c, request.f, request.n) = "OK"
        /\ request.content = file_append_content(file[request.f], request.n)

\* What was looked at was picked, once, except the file that is written; without
\* the last file that was picked there is not enough.
PicksInv ==
  /\ all_files \in Bijection(1 .. Cardinality(Present), Present)
  /\ index \in 1 .. Cardinality(Present) + 1
  /\ freed \in Seq([pathname : Files, locks_queue : List(Clients)])
  /\ \A k \in 1 .. Len(freed) : freed[k].locks_queue = file[freed[k].pathname].lock_queue
  /\ \A k, l \in 1 .. Len(freed) : freed[k].pathname = freed[l].pathname => k = l
  /\ Picked = {all_files[j] : j \in 1 .. index - 1} \ {request.f}
  /\ mem_freed = Stored(Picked)
  /\ freed # << >> => Stored(Picked \ {freed[Len(freed)].pathname}) < mem_needed

\* The files removed are gone from the store inside, and nothing else changed.
RemovesInv ==
  /\ removed \in 0 .. Len(freed)
  /\ removed > 0 => mem_freed >= mem_needed
  /\ inside = [file       |-> [g \in Files |-> IF g \in Gone THEN Absent ELSE file[g]],
               filenames  |-> filenames \ Gone,
               usedMemory |-> usedMemory - Stored(Gone),
               fileCount  |-> fileCount - removed]
  /\ \A k \in 1 .. removed : TailIsSafe(file[freed[k].pathname].opened_by)

LoopInv ==
  /\ LockInv /\ SizesFit
  /\ replacing => RequestInv /\ PicksInv /\ RemovesInv

-------------------------------------------------------------------------------
(* No file is larger than the memory.                                      *)

LEMMA StaysFits ==
  ASSUME LockInv, SizesFit, NoneLeaves
  PROVE  SizesFit'
BY ConstantsAssumption DEF NoneLeaves, SizesFit

LEMMA StoreDataFits ==
  ASSUME LockInv, SizesFit, NEW c \in Clients, NEW g \in Files, NEW n \in Nat,
         NEW sendBack \in BOOLEAN, NEW r, r.size <= MaxMemory,
         StoreData(c, g, r, n, sendBack)
  PROVE  SizesFit'
<1>1. CASE Fails(c, g, "EFBIG") \/ Corrupts
  BY <1>1, FailsStays, CorruptsStays, StaysFits
<1>2. ASSUME NEW vs,
             file' = [h \in Files |-> IF h \in Range(vs) THEN Absent
                                      ELSE IF h = g THEN r ELSE file[h]]
      PROVE  SizesFit'
  BY <1>2, ConstantsAssumption DEF SizesFit, Absent
<1> QED
  BY <1>1, <1>2 DEF StoreData

LEMMA NewContentFits ==
  ASSUME NEW r \in FileRecords, NEW n \in Nat, n > 0, ~ TooBig(n)
  PROVE  /\ file_replace_content(r, n).size <= MaxMemory
         /\ file_append_content(r, n).size <= MaxMemory
<1>1. n <= MaxMemory
  BY ConstantsAssumption DEF TooBig
<1> QED
  BY <1>1 DEF file_replace_content, file_append_content, FileRecords

LEMMA WriteFits ==
  ASSUME LockInv, SizesFit, NEW c \in Clients, NEW g \in Files, NEW n \in Sizes,
         NEW sendBack \in BOOLEAN, Write(c, g, n, sendBack)
  PROVE  SizesFit'
<1> DEFINE r == file_replace_content(file[g], n)
<1>0. n \in Nat
  BY ConstantsAssumption
<1>1. \/ Fails(c, g, WriteRefusal(c, g, n))
      \/ ResetWriteMode(c, g)
      \/ WriteRefusal(c, g, n) = "OK" /\ n > 0 /\ StoreData(c, g, r, n, sendBack)
  BY DEF Write
<1>2. WriteRefusal(c, g, n) = "OK" /\ n > 0 => r.size <= MaxMemory
  BY <1>0, FilesType, NewContentFits DEF WriteRefusal
<1> HIDE DEF r
<1> QED
  BY <1>0, <1>1, <1>2, FailsStays, ResetWriteModeStays, StaysFits, StoreDataFits

LEMMA AppendFits ==
  ASSUME LockInv, SizesFit, NEW c \in Clients, NEW g \in Files, NEW n \in Sizes,
         NEW sendBack \in BOOLEAN, AppendTo(c, g, n, sendBack)
  PROVE  SizesFit'
<1> DEFINE r == file_append_content(file[g], n)
<1>0. n \in Nat
  BY ConstantsAssumption
<1>1. \/ Fails(c, g, AppendRefusal(c, g, n))
      \/ ResetWriteMode(c, g)
      \/ AppendRefusal(c, g, n) = "OK" /\ n > 0 /\ StoreData(c, g, r, n, sendBack)
  BY DEF AppendTo
<1>2. AppendRefusal(c, g, n) = "OK" /\ n > 0 => r.size <= MaxMemory
  BY <1>0, FilesType, NewContentFits DEF AppendRefusal
<1> HIDE DEF r
<1> QED
  BY <1>0, <1>1, <1>2, FailsStays, ResetWriteModeStays, StaysFits, StoreDataFits

LEMMA RemoveFits ==
  ASSUME LockInv, SizesFit, NEW c \in Clients, NEW g \in Files, Remove(c, g)
  PROVE  SizesFit'
<1>1. CASE Fails(c, g, RemoveRefusal(c, g)) \/ Corrupts
  BY <1>1, FailsStays, CorruptsStays, StaysFits
<1>2. CASE file' = [file EXCEPT ![g] = Absent]
  <2>1. \A f \in Files : file'[f] = IF f = g THEN Absent ELSE file[f]
    BY <1>2, FilesType
  <2> QED
    BY <2>1, ConstantsAssumption DEF SizesFit, Absent
<1> QED
  BY <1>1, <1>2 DEF Remove

LEMMA SizesFitNext == LockInv /\ SizesFit /\ [Next]_vars => SizesFit'
<1> SUFFICES ASSUME LockInv, SizesFit, [Next]_vars
             PROVE  SizesFit'
  OBVIOUS
<1>1. CASE UNCHANGED vars
  BY <1>1, StoreAlone, StaysFits DEF vars
<1>2. ASSUME NEW c \in Clients, Request(c)
      PROVE  SizesFit'
  <2>1. CASE \E g \in Files, lock \in BOOLEAN : OpenCreate(c, g, lock) \/ Open(c, g, lock)
    BY <2>1, OpenCreateStays, OpenStays, StaysFits
  <2>2. CASE \E g \in Files, n \in Sizes, sendBack \in BOOLEAN :
               Write(c, g, n, sendBack) \/ AppendTo(c, g, n, sendBack)
    BY <2>2, WriteFits, AppendFits
  <2>3. CASE \/ \E g \in Files : Read(c, g)
             \/ \E n \in 0 .. MaxFiles : ReadN(c, n)
    BY <2>3, StoreAlone, StaysFits DEF Read, ReadN, Fails, Sends
  <2>4. CASE \E g \in Files : Remove(c, g)
    BY <2>4, RemoveFits
  <2>5. CASE \E g \in Files : Lock(c, g) \/ Unlock(c, g) \/ Close(c, g)
    BY <2>5, LockStays, UnlockStays, CloseStays, StaysFits
  <2> QED
    BY <1>2, <2>1, <2>2, <2>3, <2>4, <2>5 DEF Request
<1>3. ASSUME NEW c \in Clients, Deliver(c) \/ Exit(c) \/ Die(c) \/ Disconnect(c)
      PROVE  SizesFit'
  BY <1>3, StoreAlone, DisconnectStays, StaysFits DEF Deliver, Exit, Die
<1> QED
  BY <1>1, <1>2, <1>3 DEF Next

\* Then a file holds as many bytes as its size says.
LEMMA SizeStored ==
  ASSUME LockInv, SizesFit, NEW g \in Files
  PROVE  Stored({g}) = file[g].size
<1>1. file[g].size \in Nat /\ file[g].size <= MaxMemory /\ MaxMemory \in Nat
  BY FilesType, ConstantsAssumption DEF SizesFit, FileRecords
<1>2. Bytes({g}) = {g} \X (1 .. file[g].size)
  BY <1>1 DEF Bytes
<1> QED
  BY <1>1, <1>2, Positions DEF Stored

LEMMA StoredNone == Stored({}) = 0
<1>1. Bytes({}) = {}
  BY DEF Bytes
<1> QED
  BY <1>1, FS_EmptySet DEF Stored

LEMMA StoredMore ==
  ASSUME LockInv, SizesFit, NEW S, S \subseteq Files, NEW g \in Files, g \notin S
  PROVE  /\ Stored(S) \in Nat
         /\ Stored(S \cup {g}) = Stored(S) + file[g].size
<1> DEFINE T == S \cup {g}
<1>0. file \in [Files -> FileRecords]
  BY DEF LockInv, Inv, StoreInv, StoreType
<1>1. /\ T \subseteq Files /\ S \subseteq T /\ {g} \subseteq T
      /\ T \ {g} = S
  OBVIOUS
<1> HIDE DEF T
<1>2. /\ Stored(T) \in Nat /\ Stored(S) \in Nat /\ Stored({g}) \in Nat
      /\ Stored(T \ {g}) = Stored(T) - Stored({g})
  BY <1>0, <1>1, StoredProperties
<1>3. Stored({g}) = file[g].size
  BY SizeStored
<1>4. Stored(T \ {g}) = Stored(S)
  BY <1>1
<1>5. Stored(S \cup {g}) = Stored(T)
  BY DEF T
<1> QED
  BY <1>2, <1>3, <1>4, <1>5

-------------------------------------------------------------------------------
(* What the loop has, when it ends, is what one step takes.                *)

\* The files picked, in their order.
Chosen == [k \in 1 .. Len(freed) |-> freed[k].pathname]

LEMMA LoopTypes ==
  ASSUME LoopInv, replacing
  PROVE  /\ file \in [Files -> FileRecords] /\ usedMemory \in Nat /\ fileCount \in Nat
         /\ MaxMemory \in Nat /\ request.n \in Nat /\ mem_needed \in Int
         /\ Present \subseteq Files /\ IsFiniteSet(Present)
         /\ Cardinality(Present) \in Nat
         /\ Len(freed) \in Nat /\ DOMAIN freed = 1 .. Len(freed)
         /\ \A k \in 1 .. Len(freed) : freed[k] \in [pathname : Files, locks_queue : List(Clients)]
<1>1. file \in [Files -> FileRecords] /\ usedMemory \in Nat /\ fileCount \in Nat
  BY DEF LoopInv, LockInv, Inv, StoreInv, StoreType
<1>2. MaxMemory \in Nat /\ request.n \in Nat
  BY ConstantsAssumption DEF LoopInv, RequestInv
<1>3. mem_needed \in Int
  BY <1>1, <1>2 DEF mem_needed, Missing
<1>4. Present \subseteq Files /\ IsFiniteSet(Present) /\ Cardinality(Present) \in Nat
  BY ConstantsAssumption, FS_Subset, FS_CardinalityType DEF Present
<1>5. /\ Len(freed) \in Nat /\ DOMAIN freed = 1 .. Len(freed)
      /\ \A k \in 1 .. Len(freed) : freed[k] \in [pathname : Files, locks_queue : List(Clients)]
  <2> DEFINE E == [pathname : Files, locks_queue : List(Clients)]
  <2>1. freed \in Seq(E)
    BY DEF LoopInv, PicksInv
  <2> HIDE DEF E
  <2>2. /\ Len(freed) \in Nat /\ DOMAIN freed = 1 .. Len(freed)
        /\ \A k \in 1 .. Len(freed) : freed[k] \in E
    BY <2>1
  <2> QED
    BY <2>2 DEF E
<1> QED
  BY <1>1, <1>2, <1>3, <1>4, <1>5

LEMMA SortedFiles ==
  ASSUME LoopInv, replacing
  PROVE  /\ all_files \in [1 .. Cardinality(Present) -> Present]
         /\ Len(all_files) = Cardinality(Present)
         /\ \A j, k \in 1 .. Cardinality(Present) : all_files[j] = all_files[k] => j = k
         /\ \A g \in Present : \E j \in 1 .. Cardinality(Present) : all_files[j] = g
<1> DEFINE m == Cardinality(Present)
<1>1. m \in Nat
  BY LoopTypes
<1>2. all_files \in Bijection(1 .. m, Present)
  BY DEF LoopInv, PicksInv
<1> HIDE DEF m
<1>3. all_files \in [1 .. m -> Present]
  BY <1>2 DEF Bijection, Injection
<1>4. IsInjective(all_files) /\ \A g \in Present : \E j \in 1 .. m : all_files[j] = g
  BY <1>2 DEF Bijection, Injection, Surjection
<1>5. \A j, k \in 1 .. m : all_files[j] = all_files[k] => j = k
  BY <1>3, <1>4 DEF IsInjective
<1>6. Len(all_files) = m
  BY <1>1, <1>3
<1> QED
  BY <1>3, <1>4, <1>5, <1>6 DEF m

LEMMA PickedFiles ==
  ASSUME LoopInv, replacing
  PROVE  /\ Picked \subseteq Present \ {request.f}
         /\ Gone \subseteq Picked
         /\ index > Len(all_files) => Picked = Present \ {request.f}
         /\ Stored(Picked) \in Nat /\ Stored(Gone) \in Nat
<1>0. index \in 1 .. Cardinality(Present) + 1 /\ Cardinality(Present) \in Nat
  BY LoopTypes DEF LoopInv, PicksInv
<1>1. Picked = {all_files[j] : j \in 1 .. index - 1} \ {request.f}
  BY DEF LoopInv, PicksInv
<1>2. \A j \in 1 .. index - 1 : j \in 1 .. Cardinality(Present)
  BY <1>0
<1>3. Picked \subseteq Present \ {request.f}
  BY <1>1, <1>2, SortedFiles
<1>4. ASSUME index > Len(all_files)
      PROVE  Picked = Present \ {request.f}
  <2>1. \A j \in 1 .. Cardinality(Present) : j \in 1 .. index - 1
    BY <1>0, <1>4, SortedFiles
  <2> QED
    BY <1>1, <1>3, <2>1, SortedFiles
<1>5. Gone \subseteq Picked
  <2>1. removed \in 0 .. Len(freed) /\ Len(freed) \in Nat
    BY LoopTypes DEF LoopInv, RemovesInv
  <2>2. \A k \in 1 .. removed : k \in 1 .. Len(freed)
    BY <2>1
  <2> QED
    BY <2>2 DEF Gone, Picked
<1>6. Stored(Picked) \in Nat /\ Stored(Gone) \in Nat
  <2>1. Picked \subseteq Files /\ file \in [Files -> FileRecords]
    BY <1>3, LoopTypes
  <2> QED
    BY <1>5, <2>1, StoredProperties
<1> QED
  BY <1>3, <1>4, <1>5, <1>6

\* Before the first removal the worker has the store as the others see it.
LEMMA NothingGone ==
  ASSUME LoopInv, replacing, removed = 0
  PROVE  inside = [file |-> file, filenames |-> filenames,
                   usedMemory |-> usedMemory, fileCount |-> fileCount]
<1>1. Gone = {}
  BY DEF Gone
<1>2. Stored({}) = 0
  BY StoredNone
<1>3. [g \in Files |-> IF g \in Gone THEN Absent ELSE file[g]] = file
  BY <1>1, LoopTypes
<1>4. filenames \ Gone = filenames
  BY <1>1
<1>5. usedMemory - Stored(Gone) = usedMemory /\ fileCount - removed = fileCount
  BY <1>1, <1>2, LoopTypes
<1> QED
  BY <1>3, <1>4, <1>5 DEF LoopInv, RemovesInv

LEMMA NotEnoughNothingGone ==
  ASSUME LoopInv, replacing, mem_freed < mem_needed
  PROVE  removed = 0
<1>1. mem_freed \in Nat /\ mem_needed \in Int /\ Len(freed) \in Nat
  BY LoopTypes, PickedFiles DEF LoopInv, PicksInv
<1> QED
  BY <1>1 DEF LoopInv, RemovesInv

LEMMA FrontRange ==
  ASSUME NEW T, NEW vs \in Seq(T), IsInjective(vs), vs # << >>
  PROVE  Range(SubSeq(vs, 1, Len(vs) - 1)) = Range(vs) \ {vs[Len(vs)]}
<1> DEFINE k     == Len(vs)
           h     == vs[k]
           front == SubSeq(vs, 1, k - 1)
<1>1. k \in Nat /\ k > 0 /\ DOMAIN vs = 1 .. k
  BY EmptySeq
<1>2. Len(front) = k - 1 /\ \A i \in 1 .. k - 1 : front[i] = vs[i]
  BY <1>1
<1>3. DOMAIN front = 1 .. k - 1
  BY <1>1
<1> HIDE DEF front
<1>4. \A i \in 1 .. k : i = k \/ i \in 1 .. k - 1
  BY <1>1, UpToLast
<1>5. \A i \in 1 .. k - 1 : i \in 1 .. k /\ i # k
  BY <1>1, UpToLast
<1>6. k \in 1 .. k
  BY <1>1
<1>7. \A i \in 1 .. k - 1 : vs[i] # h
  BY <1>1, <1>5, <1>6 DEF IsInjective
<1>8. \A x : x \in Range(vs) <=> \E i \in 1 .. k : x = vs[i]
  BY <1>1 DEF Range
<1>9. \A x : x \in Range(front) <=> \E i \in 1 .. k - 1 : x = vs[i]
  BY <1>2, <1>3 DEF Range
<1>10. h = vs[k]
  OBVIOUS
<1> HIDE DEF k, h
<1>11. Range(front) = Range(vs) \ {h}
  BY <1>4, <1>5, <1>7, <1>8, <1>9, <1>10
<1> QED
  BY <1>11 DEF front, k, h

LEMMA ChosenIsEviction ==
  ASSUME LoopInv, replacing, mem_freed >= mem_needed
  PROVE  /\ Chosen \in Evictions(request.f, request.n)
         /\ Range(Chosen) = Picked /\ Len(Chosen) = Len(freed)
<1> DEFINE m      == Len(freed)
           others == Present \ {request.f}
<1>0. m \in Nat /\ DOMAIN freed = 1 .. m /\ others \subseteq Files /\ IsFiniteSet(others)
  BY LoopTypes, FS_Subset
<1>1. Chosen = [k \in 1 .. m |-> freed[k].pathname]
  BY DEF Chosen
<1>2. \A k \in 1 .. m : freed[k].pathname \in Picked
  BY DEF Picked
<1>3. Range(Chosen) = Picked
  BY <1>1 DEF Range, Picked
<1>4. Chosen \in [1 .. m -> others]
  BY <1>1, <1>2, PickedFiles
<1>5. IsInjective(Chosen)
  BY <1>1 DEF IsInjective, LoopInv, PicksInv
<1>6. Chosen \in Seq(others) /\ Len(Chosen) = m
  BY <1>0, <1>4
<1>7. freed # << >>
  <2> SUFFICES ASSUME freed = << >>
               PROVE  FALSE
    OBVIOUS
  <2>1. m = 0
    OBVIOUS
  <2>2. Picked = {}
    BY <2>1 DEF Picked
  <2>3. Stored({}) = 0
    BY StoredNone
  <2>4. mem_freed = 0
    BY <2>2, <2>3 DEF LoopInv, PicksInv
  <2> QED
    BY <2>4, LoopTypes DEF LoopInv, RequestInv
<1>8. m > 0
  BY <1>7, LoopTypes, EmptySeq DEF LoopInv, PicksInv
<1>9. Chosen # << >> /\ Chosen[Len(Chosen)] = freed[m].pathname
  BY <1>0, <1>1, <1>6, <1>8
<1>10. m \in 1 .. Cardinality(others)
  <2>1. Chosen \in Injection(1 .. m, others)
    BY <1>4, <1>5 DEF Injection
  <2>2. Cardinality(1 .. m) = m
    <3> HIDE DEF m
    <3> QED
      BY <1>0, FS_Interval
  <2>3. Cardinality(1 .. m) <= Cardinality(others) /\ Cardinality(others) \in Nat
    BY <1>0, <2>1, FS_Injection, FS_CardinalityType
  <2> QED
    BY <1>0, <1>8, <2>2, <2>3
<1>11. Stored(Range(Chosen)) >= Missing(request.n)
  BY <1>3 DEF LoopInv, PicksInv, mem_needed
<1>12. Stored(Range(SubSeq(Chosen, 1, Len(Chosen) - 1))) < Missing(request.n)
  <2>1. Range(SubSeq(Chosen, 1, Len(Chosen) - 1)) = Picked \ {freed[m].pathname}
    BY <1>3, <1>5, <1>6, <1>9, FrontRange
  <2>2. Stored(Picked \ {freed[m].pathname}) < mem_needed
    BY <1>7 DEF LoopInv, PicksInv
  <2> QED
    BY <2>1, <2>2 DEF mem_needed
<1>13. ~ (Missing(request.n) <= 0)
  BY LoopTypes DEF LoopInv, RequestInv, mem_needed
<1>14. Chosen \in UNION {Injection(1 .. k, others) : k \in 1 .. Cardinality(others)}
  BY <1>4, <1>5, <1>10 DEF Injection
<1>15. Chosen \in Evictions(request.f, request.n)
  BY <1>11, <1>12, <1>13, <1>14 DEF Evictions
<1> QED
  BY <1>3, <1>6, <1>15

-------------------------------------------------------------------------------
(* How the section ends.                                                   *)

\* The request in progress is handled, in one step.
Served ==
  \/ Write(request.c, request.f, request.n, request.sendBack)
  \/ AppendTo(request.c, request.f, request.n, request.sendBack)

LEMMA StoringServes ==
  ASSUME LoopInv, replacing, heap = "sound",
         StoreData(request.c, request.f, request.content, request.n, request.sendBack)
  PROVE  Served
<1>1. InWriteSection(request.c) /\ request.n > 0
  BY DEF LoopInv, RequestInv, InWriteSection, Handles
<1>2. CASE /\ WriteRefusal(request.c, request.f, request.n) = "OK"
           /\ request.content = file_replace_content(file[request.f], request.n)
  BY <1>1, <1>2 DEF Served, Write
<1>3. CASE /\ AppendRefusal(request.c, request.f, request.n) = "OK"
           /\ request.content = file_append_content(file[request.f], request.n)
  BY <1>1, <1>3 DEF Served, AppendTo
<1> QED
  BY <1>2, <1>3 DEF LoopInv, RequestInv

LEMMA GivesUpServes ==
  ASSUME LoopInv, GivesUp
  PROVE  Served
<1>0. replacing /\ heap = "sound" /\ mem_freed < mem_needed /\ index > Len(all_files)
  BY DEF GivesUp
<1>1. inside = [file |-> file, filenames |-> filenames,
                usedMemory |-> usedMemory, fileCount |-> fileCount]
  BY <1>0, NothingGone, NotEnoughNothingGone
<1>2. Fails(request.c, request.f, "EFBIG")
  BY <1>1 DEF GivesUp, Leaves, Fails, storeVars
<1>3. Evictions(request.f, request.n) = {}
  <2> SUFFICES ASSUME NEW vs \in Evictions(request.f, request.n)
               PROVE  FALSE
    OBVIOUS
  <2>1. Picked = Present \ {request.f} /\ Stored(Picked) \in Nat
    BY <1>0, PickedFiles
  <2>2. Range(vs) \subseteq Picked /\ Stored(Range(vs)) >= mem_needed
    BY <1>0, <2>1, LoopTypes, EvictionsProperties DEF LoopInv, LockInv, RequestInv, mem_needed
  <2>3. Picked \subseteq Files /\ file \in [Files -> FileRecords]
    BY <1>0, <2>1, LoopTypes
  <2>4. Stored(Range(vs)) \in Nat /\ Stored(Range(vs)) <= Stored(Picked)
    BY <2>2, <2>3, StoredProperties
  <2>5. mem_freed = Stored(Picked) /\ mem_needed \in Int
    BY <1>0, LoopTypes DEF LoopInv, PicksInv
  <2> QED
    BY <1>0, <2>1, <2>2, <2>4, <2>5
<1>4. StoreData(request.c, request.f, request.content, request.n, request.sendBack)
  BY <1>2, <1>3 DEF StoreData
<1> QED
  BY <1>0, <1>4, StoringServes

\* A list of a file that was picked is used through a dangling tail.
LEMMA CorruptionServes ==
  ASSUME LoopInv, replacing, heap = "sound", mem_freed >= mem_needed,
         NEW k \in 1 .. Len(freed), ~ FreeIsSafe(file[freed[k].pathname]), Corrupts
  PROVE  Served
<1>1. Chosen \in Evictions(request.f, request.n) /\ Len(Chosen) = Len(freed)
  BY ChosenIsEviction
<1>2. Chosen[k] = freed[k].pathname
  BY DEF Chosen
<1>3. StoreData(request.c, request.f, request.content, request.n, request.sendBack)
  BY <1>1, <1>2 DEF StoreData
<1> QED
  BY <1>3, StoringServes

\* The file looked at is one of those picked, and not removed yet.
LEMMA NextRemoved ==
  ASSUME LoopInv, replacing, removed < Len(freed)
  PROVE  LET v == freed[removed + 1].pathname IN
         /\ removed \in Nat /\ removed + 1 \in 1 .. Len(freed)
         /\ v \in Picked /\ v \in Present /\ v \in Files /\ v \notin Gone
         /\ inside.file[v] = file[v]
<1> DEFINE v == freed[removed + 1].pathname
<1>1. removed \in Nat /\ removed + 1 \in 1 .. Len(freed)
  BY LoopTypes DEF LoopInv, RemovesInv
<1>2. v \in Picked
  BY <1>1 DEF Picked
<1>3. v \in Present /\ v \in Files
  BY <1>2, PickedFiles, LoopTypes
<1>4. v \notin Gone
  <2>1. \A k \in 1 .. removed : k \in 1 .. Len(freed) /\ k # removed + 1
    BY <1>1, LoopTypes
  <2>2. \A k \in 1 .. removed : freed[k].pathname # v
    BY <1>1, <2>1 DEF LoopInv, PicksInv
  <2> QED
    BY <2>2 DEF Gone
<1>5. inside.file[v] = file[v]
  BY <1>3, <1>4 DEF LoopInv, RemovesInv
<1> QED
  BY <1>1, <1>2, <1>3, <1>4, <1>5

LEMMA RemovesServes ==
  ASSUME LoopInv, Removes
  PROVE  UNCHANGED vars \/ Served
<1> DEFINE v == freed[removed + 1].pathname
<1>0. replacing /\ heap = "sound" /\ mem_freed >= mem_needed /\ removed < Len(freed)
  BY DEF Removes
<1>1. CASE ~ TailIsSafe(inside.file[v].opened_by) /\ Corrupts
  <2>1. ~ FreeIsSafe(file[v]) /\ removed + 1 \in 1 .. Len(freed)
    BY <1>0, <1>1, NextRemoved DEF FreeIsSafe
  <2> QED
    BY <1>0, <1>1, <2>1, CorruptionServes
<1> QED
  BY <1>1 DEF Removes

\* The answers read from the list are those of FileStorage.
LEMMA AnswersAgree ==
  ASSUME LoopInv, replacing, mem_freed >= mem_needed
  PROVE  AnswersOf(freed) = WriteAnswers(request.c, request.f, Chosen, request.sendBack)
<1> DEFINE m    == Len(freed)
           told == [k \in 1 .. m |-> [to |-> freed[k].locks_queue.items, ans |-> "EIDRM",
                                      about |-> freed[k].pathname, data |-> {}]]
           back == {freed[k].pathname : k \in 1 .. m}
           removals == [k \in 1 .. m |-> Removed(Chosen[k])]
<1>1. Len(Chosen) = m /\ back = Range(Chosen)
  BY ChosenIsEviction DEF Picked
<1>2. \A k \in 1 .. m : /\ Chosen[k] = freed[k].pathname
                        /\ freed[k].locks_queue = file[freed[k].pathname].lock_queue
  BY DEF Chosen, LoopInv, PicksInv
<1>3. told = removals
  BY <1>2 DEF Removed
<1>4. AnswersOf(freed) =
        IF request.sendBack THEN told \o << Answer(request.c, request.f, "OK", back) >>
                            ELSE << Ok(request.c, request.f) >> \o told
  BY DEF AnswersOf
<1>5. WriteAnswers(request.c, request.f, Chosen, request.sendBack) =
        IF request.sendBack THEN removals \o << Answer(request.c, request.f, "OK", Range(Chosen)) >>
                            ELSE << Ok(request.c, request.f) >> \o removals
  BY <1>1 DEF WriteAnswers
<1> HIDE DEF told, back, removals
<1> QED
  BY <1>1, <1>3, <1>4, <1>5

LEMMA FinishesServes ==
  ASSUME LoopInv, Finishes
  PROVE  Served
<1>0. replacing /\ heap = "sound" /\ mem_freed >= mem_needed /\ removed = Len(freed)
  BY DEF Finishes
<1>1. CASE /\ \A k \in 1 .. Len(freed) : TailIsSafe(freed[k].locks_queue)
           /\ Leaves(Completed, AnswersOf(freed))
  <2> DEFINE vs == Chosen
             R  == Range(vs)
             r  == request.content
             s  == inside
  <2>1. vs \in Evictions(request.f, request.n) /\ R = Picked /\ Len(vs) = Len(freed)
    BY <1>0, ChosenIsEviction
  <2>2. Gone = R
    BY <1>0, <2>1 DEF Gone, Picked
  <2>3. \A i \in 1 .. Len(vs) : FreeIsSafe(file[vs[i]])
    <3> SUFFICES ASSUME NEW i \in 1 .. Len(freed)
                 PROVE  FreeIsSafe(file[freed[i].pathname])
      BY <2>1 DEF Chosen
    <3>1. TailIsSafe(file[freed[i].pathname].opened_by)
      BY <1>0 DEF LoopInv, RemovesInv
    <3>2. TailIsSafe(file[freed[i].pathname].lock_queue)
      BY <1>0, <1>1 DEF LoopInv, PicksInv
    <3> QED
      BY <3>1, <3>2 DEF FreeIsSafe
  <2>4. s = [file       |-> [g \in Files |-> IF g \in R THEN Absent ELSE file[g]],
             filenames  |-> filenames \ R,
             usedMemory |-> usedMemory - Stored(R),
             fileCount  |-> fileCount - Len(vs)]
    BY <1>0, <2>1, <2>2 DEF LoopInv, RemovesInv
  <2> HIDE DEF s, R, vs, r
  <2>5. Completed.file = [s.file EXCEPT ![request.f] = r]
    BY <2>4 DEF Completed, s, r
  <2>6. /\ Completed.filenames = s.filenames
        /\ Completed.usedMemory = s.usedMemory + request.n
        /\ Completed.fileCount = s.fileCount
    BY <2>4 DEF Completed, s
  <2>7. request.f \in Files /\ request.f \notin R
    BY <1>0, <2>1, PickedFiles DEF LoopInv, RequestInv
  <2>8. Completed.file = [g \in Files |-> IF g \in R THEN Absent
                                          ELSE IF g = request.f THEN r ELSE file[g]]
    BY <2>4, <2>5, <2>7
  <2>9. Replies(request.c, WriteAnswers(request.c, request.f, vs, request.sendBack))
    BY <1>0, <1>1, AnswersAgree DEF Leaves, vs
  <2>10. /\ file' = [g \in Files |-> IF g \in R THEN Absent
                                     ELSE IF g = request.f THEN r ELSE file[g]]
         /\ filenames' = NamesWithout(R)
         /\ fileCount' = fileCount - Len(vs)
         /\ usedMemory' = MemoryWithout(R) + request.n
    BY <1>1, <2>4, <2>6, <2>8 DEF Leaves, NamesWithout, MemoryWithout
  <2>11. StoreData(request.c, request.f, request.content, request.n, request.sendBack)
    BY <2>1, <2>3, <2>9, <2>10 DEF StoreData, R, r
  <2> QED
    BY <1>0, <2>11, StoringServes
<1>2. CASE (\E k \in 1 .. Len(freed) : ~ TailIsSafe(freed[k].locks_queue)) /\ Corrupts
  <2>1. PICK k \in 1 .. Len(freed) : ~ TailIsSafe(freed[k].locks_queue)
    BY <1>2
  <2>2. ~ FreeIsSafe(file[freed[k].pathname])
    BY <1>0, <2>1 DEF LoopInv, PicksInv, FreeIsSafe
  <2> QED
    BY <1>0, <1>2, <2>2, CorruptionServes
<1> QED
  BY <1>1, <1>2 DEF Finishes

-------------------------------------------------------------------------------
(* The loop keeps its invariant.                                           *)

InLoop == RequestInv /\ PicksInv /\ RemovesInv

\* The store and the request are the same, and the client is not answered.
LEMMA SameRequest ==
  ASSUME RequestInv, UNCHANGED <<storeVars, request>>,
         status'[request.c] = "idle", out'[request.c] = << >>, rlock' = {},
         Cardinality({d \in Clients : out'[d] # << >>}) < Workers
  PROVE  RequestInv'
<1>1. UNCHANGED <<file, usedMemory, request>>
  BY DEF storeVars
<1>2. \A c, f, n : /\ WriteRefusal(c, f, n)' = WriteRefusal(c, f, n)
                   /\ AppendRefusal(c, f, n)' = AppendRefusal(c, f, n)
  BY <1>1 DEF WriteRefusal, AppendRefusal
<1>3. mem_needed' = mem_needed
  BY <1>1 DEF mem_needed, Missing
<1> QED
  BY <1>1, <1>2, <1>3 DEF RequestInv, WriteRefusal, AppendRefusal

LEMMA SameStore ==
  ASSUME UNCHANGED storeVars
  PROVE  /\ Present' = Present
         /\ \A S : Stored(S)' = Stored(S)
         /\ UNCHANGED request => mem_needed' = mem_needed
BY DEF storeVars, Present, Stored, Bytes, mem_needed, Missing

\* Nothing moves in the loop while the others send and leave.
LEMMA SameLoop ==
  ASSUME PicksInv, RemovesInv, UNCHANGED <<storeVars, loopVars>>
  PROVE  PicksInv' /\ RemovesInv'
<1>1. /\ UNCHANGED <<file, filenames, usedMemory, fileCount>>
      /\ UNCHANGED <<inside, request, all_files, index, freed, mem_freed, removed>>
  BY DEF storeVars, loopVars
<1>2. Present' = Present /\ (\A S : Stored(S)' = Stored(S)) /\ mem_needed' = mem_needed
  BY <1>1, SameStore
<1>3. Picked' = Picked /\ Gone' = Gone
  BY <1>1 DEF Picked, Gone
<1> QED
  BY <1>1, <1>2, <1>3 DEF PicksInv, RemovesInv

LEMMA MeanwhileKeeps ==
  ASSUME LoopInv, replacing, NEW c \in Clients, Meanwhile(c), UNCHANGED loopVars
  PROVE  InLoop'
<1>0. RequestInv /\ PicksInv /\ RemovesInv /\ c # request.c
  BY DEF LoopInv, Meanwhile
<1>1. UNCHANGED <<storeVars, request>>
  BY DEF Meanwhile, Deliver, Exit, Die, loopVars
<1>2. /\ status \in [Clients -> Statuses] /\ out \in [Clients -> Seq(Messages)]
      /\ request.c \in Clients
  BY <1>0 DEF LoopInv, LockInv, Inv, SessionType, RequestInv
<1>3. status[request.c] = "idle" /\ out[request.c] = << >> /\ rlock = {}
  BY <1>0 DEF RequestInv
<1>4. status'[request.c] = "idle"
  BY <1>0, <1>2, <1>3 DEF Meanwhile, Deliver, Exit, Die, Wake
<1>5. out'[request.c] = << >> /\ rlock' = {}
  BY <1>0, <1>2, <1>3 DEF Meanwhile, Deliver, Exit, Die
<1>6. Cardinality({d \in Clients : out'[d] # << >>}) < Workers
  <2> DEFINE A == {d \in Clients : out[d] # << >>}
             B == {d \in Clients : out'[d] # << >>}
  <2>1. B \subseteq A
    BY <1>2 DEF Meanwhile, Deliver, Exit, Die
  <2>2. IsFiniteSet(A)
    BY LoopAssumption, FS_Subset
  <2>3. Cardinality(A) < Workers
    BY <1>0 DEF RequestInv
  <2> HIDE DEF A, B
  <2>4. Cardinality(A) \in Nat /\ Cardinality(B) \in Nat /\ Cardinality(B) <= Cardinality(A)
    BY <2>1, <2>2, FS_Subset, FS_CardinalityType
  <2>5. Cardinality(B) < Workers
    BY <2>3, <2>4, ConstantsAssumption
  <2> QED
    BY <2>5 DEF B
<1>7. RequestInv'
  BY <1>0, <1>1, <1>4, <1>5, <1>6, SameRequest
<1>8. PicksInv' /\ RemovesInv'
  BY <1>0, <1>1, SameLoop
<1> QED
  BY <1>7, <1>8 DEF InLoop

LEMMA CorruptsKeeps ==
  ASSUME LoopInv, replacing, Corrupts, UNCHANGED loopVars
  PROVE  InLoop'
<1>1. UNCHANGED <<storeVars, request, status, out, rlock>>
  BY DEF Corrupts, sessionVars, loopVars
<1>2. RequestInv'
  BY <1>1, SameRequest DEF LoopInv, RequestInv
<1>3. PicksInv' /\ RemovesInv'
  BY <1>1, SameLoop DEF LoopInv
<1> QED
  BY <1>2, <1>3 DEF InLoop

LEMMA EntersKeeps ==
  ASSUME LoopInv, NEW c \in Clients, NEW f \in Files, NEW n \in Sizes,
         NEW sendBack \in BOOLEAN, NEW content, n > 0, Missing(n) > 0,
         \/ /\ WriteRefusal(c, f, n) = "OK"
            /\ content = file_replace_content(file[f], n)
         \/ /\ AppendRefusal(c, f, n) = "OK"
            /\ content = file_append_content(file[f], n),
         Enters(c, f, n, sendBack, content)
  PROVE  InLoop'
<1> DEFINE q == [c |-> c, f |-> f, n |-> n, sendBack |-> sendBack, content |-> content]
<1>0. /\ UNCHANGED <<file, filenames, usedMemory, fileCount, status, out, rlock, heap>>
      /\ UNCHANGED storeVars
  BY DEF Enters, vars, storeVars, sessionVars
<1>1. /\ request' = q /\ all_files' \in Bijection(1 .. Cardinality(Present), Present)
      /\ index' = 1 /\ freed' = << >> /\ mem_freed' = 0 /\ removed' = 0
      /\ inside' = [file |-> file, filenames |-> filenames,
                    usedMemory |-> usedMemory, fileCount |-> fileCount]
  BY DEF Enters
<1>2. /\ q.c = c /\ q.f = f /\ q.n = n /\ q.sendBack = sendBack /\ q.content = content
  OBVIOUS
<1> HIDE DEF q
<1>3. RequestInv'
  <2>1. /\ status[c] = "idle" /\ out[c] = << >> /\ rlock = {}
        /\ Cardinality({d \in Clients : out[d] # << >>}) < Workers
    BY DEF Enters, InWriteSection, Handles
  <2>2. mem_needed' > 0
    BY <1>0, <1>1, <1>2 DEF mem_needed, Missing
  <2> QED
    BY <1>0, <1>1, <1>2, <2>1, <2>2
       DEF RequestInv, WriteRefusal, AppendRefusal
<1>4. Present' = Present /\ \A S : Stored(S)' = Stored(S)
  BY <1>0, SameStore
<1>5. Picked' = {} /\ Gone' = {}
  BY <1>1 DEF Picked, Gone
<1>6. Stored({}) = 0
  BY StoredNone
<1>7. PicksInv'
  <2>1. Cardinality(Present) \in Nat
    BY ConstantsAssumption, FS_Subset, FS_CardinalityType DEF Present
  <2>2. index' \in 1 .. Cardinality(Present) + 1
    BY <1>1, <2>1
  <2>3. {all_files'[j] : j \in 1 .. index' - 1} = {}
    BY <1>1
  <2>4. freed' \in Seq([pathname : Files, locks_queue : List(Clients)]) /\ Len(freed') = 0
    BY <1>1
  <2>5. mem_freed' = Stored(Picked)'
    BY <1>1, <1>4, <1>5, <1>6 DEF Stored, Bytes
  <2> QED
    BY <1>1, <1>4, <1>5, <2>2, <2>3, <2>4, <2>5 DEF PicksInv
<1>8. RemovesInv'
  <2>1. file \in [Files -> FileRecords] /\ usedMemory \in Nat /\ fileCount \in Nat
    BY DEF LoopInv, LockInv, Inv, StoreInv, StoreType
  <2>2. [g \in Files |-> IF g \in Gone' THEN Absent ELSE file[g]] = file
    BY <1>5, <2>1
  <2>3. Stored(Gone)' = 0
    BY <1>4, <1>5, <1>6 DEF Stored, Bytes
  <2>4. inside' = [file       |-> [g \in Files |-> IF g \in Gone' THEN Absent ELSE file'[g]],
                   filenames  |-> filenames' \ Gone',
                   usedMemory |-> usedMemory' - Stored(Gone)',
                   fileCount  |-> fileCount' - removed']
    BY <1>0, <1>1, <1>5, <2>1, <2>2, <2>3
  <2>5. /\ removed' \in 0 .. Len(freed') /\ ~ (removed' > 0)
        /\ \A k \in 1 .. removed' : FALSE
    BY <1>1
  <2> QED
    BY <2>4, <2>5, Zenon DEF RemovesInv
<1> QED
  BY <1>3, <1>7, <1>8 DEF InLoop

LEMMA PicksKeeps ==
  ASSUME LoopInv, Picks
  PROVE  InLoop'
<1> DEFINE curr == all_files[index]
           m    == Len(freed)
           N    == Cardinality(Present)
<1>0. /\ replacing /\ mem_freed < mem_needed /\ index <= Len(all_files)
      /\ index' = index + 1
      /\ UNCHANGED <<vars, replacing, inside, request, all_files, removed>>
  BY DEF Picks, Picking
<1>1. UNCHANGED <<storeVars, file, filenames, usedMemory, fileCount, status, out, rlock>>
  BY <1>0 DEF vars, storeVars, sessionVars
<1>2. RequestInv'
  BY <1>0, <1>1, SameRequest DEF LoopInv, RequestInv
<1>3. Present' = Present /\ mem_needed' = mem_needed /\ \A S : Stored(S)' = Stored(S)
  BY <1>0, <1>1, SameStore
<1>4. removed = 0
  BY <1>0, NotEnoughNothingGone
<1>5. /\ index \in 1 .. N /\ N \in Nat /\ curr \in Present /\ curr \in Files
  BY <1>0, LoopTypes, SortedFiles DEF LoopInv, PicksInv
<1>6. Gone = {} /\ Gone' = {}
  BY <1>0, <1>4 DEF Gone
<1>7. \A j : j \in 1 .. index <=> j \in 1 .. index - 1 \/ j = index
  BY <1>5
<1>8. {all_files'[j] : j \in 1 .. index' - 1} = {all_files[j] : j \in 1 .. index - 1} \cup {curr}
  <2>1. index' - 1 = index /\ all_files' = all_files
    BY <1>0, <1>5
  <2> QED
    BY <1>7, <2>1
<1>9. index' \in 1 .. N + 1
  BY <1>0, <1>5
<1>10. Picked = {all_files[j] : j \in 1 .. index - 1} \ {request.f}
  BY <1>0 DEF LoopInv, PicksInv
<1>11. CASE curr = request.f /\ UNCHANGED <<freed, mem_freed>>
  <2>1. Picked' = Picked
    BY <1>11 DEF Picked
  <2>2. Picked' = {all_files'[j] : j \in 1 .. index' - 1} \ {request'.f}
    BY <1>0, <1>8, <1>10, <1>11, <2>1
  <2>3. PicksInv'
    BY <1>0, <1>1, <1>3, <1>9, <1>11, <2>1, <2>2 DEF LoopInv, PicksInv
  <2>4. RemovesInv'
    BY <1>0, <1>1, <1>3, <1>6, <1>11 DEF LoopInv, RemovesInv
  <2> QED
    BY <1>2, <2>3, <2>4 DEF InLoop
<1>12. CASE /\ curr # request.f
            /\ freed' = Append(freed, Entry(inside.file[curr], curr))
            /\ mem_freed' = mem_freed + inside.file[curr].size
  <2> DEFINE e == [pathname |-> curr, locks_queue |-> file[curr].lock_queue]
  <2>1. inside.file[curr] = file[curr]
    BY <1>0, <1>4, NothingGone
  <2>2. freed' = Append(freed, e) /\ mem_freed' = mem_freed + file[curr].size
    BY <1>12, <2>1 DEF Entry
  <2>3. e \in [pathname : Files, locks_queue : List(Clients)]
    BY <1>0, <1>5, LoopTypes DEF FileRecords
  <2>4. e.pathname = curr /\ e.locks_queue = file[curr].lock_queue
    OBVIOUS
  <2> HIDE DEF e
  <2>5. /\ freed' \in Seq([pathname : Files, locks_queue : List(Clients)])
        /\ m \in Nat /\ Len(freed') = m + 1
        /\ freed'[m + 1] = e /\ \A k \in 1 .. m : freed'[k] = freed[k]
    <3> DEFINE E == [pathname : Files, locks_queue : List(Clients)]
    <3>1. freed \in Seq(E) /\ e \in E
      BY <1>0, <2>3 DEF LoopInv, PicksInv
    <3> HIDE DEF E
    <3>2. /\ freed' \in Seq(E) /\ m \in Nat /\ Len(freed') = m + 1
          /\ freed'[m + 1] = e /\ \A k \in 1 .. m : freed'[k] = freed[k]
      BY <2>2, <3>1
    <3> QED
      BY <3>2 DEF E
  <2> HIDE DEF m
  <2>6. \A k : k \in 1 .. m + 1 <=> k \in 1 .. m \/ k = m + 1
    BY <2>5
  <2>7. Picked = {freed[k].pathname : k \in 1 .. m}
    BY DEF Picked, m
  <2>8. Picked' = Picked \cup {curr}
    <3>1. Picked' = {freed'[k].pathname : k \in 1 .. m + 1}
      BY <2>5 DEF Picked
    <3> QED
      BY <2>4, <2>5, <2>6, <2>7, <3>1
  <2>9. curr \notin Picked
    <3>1. \A j \in 1 .. index - 1 : j \in 1 .. N /\ j # index
      BY <1>5
    <3>2. \A j \in 1 .. index - 1 : all_files[j] # curr
      BY <1>0, <1>5, <3>1, SortedFiles
    <3> QED
      BY <1>10, <3>2
  <2>10. Picked' = {all_files'[j] : j \in 1 .. index' - 1} \ {request'.f}
    BY <1>0, <1>8, <1>10, <1>12, <2>8
  <2>11. Picked \subseteq Files
    BY <1>0, PickedFiles, LoopTypes
  <2>12. mem_freed = Stored(Picked)
    BY <1>0 DEF LoopInv, PicksInv
  <2>13. mem_freed' = Stored(Picked)'
    <3>1. Stored(Picked \cup {curr}) = Stored(Picked) + file[curr].size
      BY <1>5, <2>9, <2>11, StoredMore DEF LoopInv
    <3>2. Stored(Picked)' = Stored(Picked')
      BY <1>1 DEF Stored, Bytes
    <3> QED
      BY <2>2, <2>8, <2>12, <3>1, <3>2
  <2>14. \A k \in 1 .. m : /\ freed[k].locks_queue = file[freed[k].pathname].lock_queue
                           /\ freed[k].pathname \in Picked
    BY <1>0, <2>7 DEF LoopInv, PicksInv, m
  <2>15. \A k \in 1 .. Len(freed') : freed'[k].locks_queue = file'[freed'[k].pathname].lock_queue
    BY <1>1, <2>4, <2>5, <2>6, <2>14
  <2>16. \A k, l \in 1 .. m : freed[k].pathname = freed[l].pathname => k = l
    BY <1>0 DEF LoopInv, PicksInv, m
  <2>17. \A k, l \in 1 .. Len(freed') : freed'[k].pathname = freed'[l].pathname => k = l
    BY <2>4, <2>5, <2>6, <2>9, <2>14, <2>16
  <2>18. freed' # << >> => Stored(Picked \ {freed[Len(freed)].pathname})' < mem_needed'
    <3>1. Picked' \ {freed'[Len(freed')].pathname} = Picked
      BY <2>4, <2>5, <2>8, <2>9
    <3>2. Stored(Picked \ {freed[Len(freed)].pathname})' = Stored(Picked)
      BY <1>1, <3>1 DEF Stored, Bytes
    <3> QED
      BY <1>0, <1>3, <2>12, <3>2
  <2>19. PicksInv'
    BY <1>0, <1>3, <1>9, <2>5, <2>10, <2>13, <2>15, <2>17, <2>18 DEF LoopInv, PicksInv
  <2>20. RemovesInv'
    <3>1. removed' = 0 /\ removed' \in 0 .. Len(freed') /\ \A k \in 1 .. removed' : FALSE
      BY <1>0, <1>4, <2>5
    <3>2. inside' = [file       |-> [g \in Files |-> IF g \in Gone' THEN Absent ELSE file'[g]],
                     filenames  |-> filenames' \ Gone',
                     usedMemory |-> usedMemory' - Stored(Gone)',
                     fileCount  |-> fileCount' - removed']
      <4>1. Stored(Gone)' = Stored(Gone)
        BY <1>1, <1>6 DEF Stored, Bytes
      <4> QED
        BY <1>0, <1>1, <1>6, <4>1 DEF LoopInv, RemovesInv
    <3>3. ~ (removed' > 0)
      BY <3>1
    <3> QED
      BY <3>1, <3>2, <3>3, Zenon DEF RemovesInv
  <2> QED
    BY <1>2, <2>19, <2>20 DEF InLoop
<1> QED
  BY <1>11, <1>12 DEF Picks

LEMMA RemovesKeeps ==
  ASSUME LoopInv, Removes
  PROVE  InLoop'
<1> DEFINE v == freed[removed + 1].pathname
<1>0. /\ replacing /\ mem_freed >= mem_needed /\ removed < Len(freed)
      /\ UNCHANGED <<replacing, request, all_files, index, freed, mem_freed>>
  BY DEF Removes
<1>1. CASE Corrupts /\ UNCHANGED <<inside, removed>>
  BY <1>0, <1>1, CorruptsKeeps DEF loopVars
<1>2. CASE /\ TailIsSafe(inside.file[v].opened_by)
           /\ inside' = RemovedFrom(inside, v)
           /\ removed' = removed + 1
           /\ UNCHANGED vars
  <2>1. /\ UNCHANGED <<storeVars, file, filenames, usedMemory, fileCount, status, out, rlock>>
    BY <1>2 DEF vars, storeVars, sessionVars
  <2>2. RequestInv'
    BY <1>0, <2>1, SameRequest DEF LoopInv, RequestInv
  <2>3. Present' = Present /\ mem_needed' = mem_needed /\ \A S : Stored(S)' = Stored(S)
    BY <1>0, <2>1, SameStore
  <2>4. Picked' = Picked
    BY <1>0 DEF Picked
  <2>5. PicksInv'
    BY <1>0, <2>1, <2>3, <2>4 DEF LoopInv, PicksInv
  <2>6. /\ removed \in Nat /\ removed + 1 \in 1 .. Len(freed)
        /\ v \in Files /\ v \notin Gone /\ inside.file[v] = file[v]
    BY <1>0, NextRemoved
  <2>7. \A k : k \in 1 .. removed + 1 <=> k \in 1 .. removed \/ k = removed + 1
    BY <2>6
  <2>8. Gone' = Gone \cup {v}
    BY <1>0, <1>2, <2>7 DEF Gone
  <2>9. Stored(Gone)' = Stored(Gone) + file[v].size /\ Stored(Gone) \in Nat
    <3>1. Gone \subseteq Files
      BY <1>0, PickedFiles, LoopTypes
    <3>2. /\ Stored(Gone \cup {v}) = Stored(Gone) + file[v].size
          /\ Stored(Gone) \in Nat
      BY <2>6, <3>1, StoredMore DEF LoopInv
    <3>3. Stored(Gone)' = Stored(Gone \cup {v})
      BY <2>1, <2>8 DEF Stored, Bytes
    <3> QED
      BY <3>2, <3>3
  <2>10. inside = [file       |-> [g \in Files |-> IF g \in Gone THEN Absent ELSE file[g]],
                   filenames  |-> filenames \ Gone,
                   usedMemory |-> usedMemory - Stored(Gone),
                   fileCount  |-> fileCount - removed]
    BY <1>0 DEF LoopInv, RemovesInv
  <2>11. /\ usedMemory \in Nat /\ fileCount \in Nat /\ file[v].size \in Nat
         /\ file \in [Files -> FileRecords]
    BY <1>0, <2>6, LoopTypes DEF FileRecords
  <2>12. inside' = [file       |-> [g \in Files |-> IF g \in Gone' THEN Absent ELSE file'[g]],
                    filenames  |-> filenames' \ Gone',
                    usedMemory |-> usedMemory' - Stored(Gone)',
                    fileCount  |-> fileCount' - removed']
    <3> HIDE DEF v
    <3>1. inside' = [file       |-> [inside.file EXCEPT ![v] = Absent],
                     filenames  |-> inside.filenames \ {v},
                     usedMemory |-> inside.usedMemory - file[v].size,
                     fileCount  |-> inside.fileCount - 1]
      BY <1>2, <2>6 DEF RemovedFrom
    <3>2. [inside.file EXCEPT ![v] = Absent]
            = [g \in Files |-> IF g \in Gone' THEN Absent ELSE file'[g]]
      BY <2>1, <2>6, <2>8, <2>10
    <3>3. inside.filenames \ {v} = filenames' \ Gone'
      BY <2>1, <2>8, <2>10
    <3>4. inside.usedMemory - file[v].size = usedMemory' - Stored(Gone)'
      BY <2>1, <2>9, <2>10, <2>11
    <3>5. inside.fileCount - 1 = fileCount' - removed'
      BY <1>2, <2>1, <2>6, <2>10, <2>11
    <3> QED
      BY <3>1, <3>2, <3>3, <3>4, <3>5
  <2>13. removed' \in 0 .. Len(freed')
    BY <1>0, <1>2, <2>6, LoopTypes
  <2>14. \A k \in 1 .. removed' : TailIsSafe(file'[freed'[k].pathname].opened_by)
    BY <1>0, <1>2, <2>1, <2>6, <2>7 DEF LoopInv, RemovesInv
  <2>15. mem_freed' >= mem_needed'
    BY <1>0, <2>3
  <2>16. RemovesInv'
    BY <2>12, <2>13, <2>14, <2>15, Zenon DEF RemovesInv
  <2> QED
    BY <2>2, <2>5, <2>16 DEF InLoop
<1> QED
  BY <1>1, <1>2 DEF Removes

-------------------------------------------------------------------------------
(* The steps of the loop are steps of the store.                           *)

\* LoopIsOneStep, of one step.
OneStep ==
  replacing => \/ Served
               \/ \E c \in Clients : Deliver(c) \/ Exit(c) \/ Die(c)
               \/ UNCHANGED vars

LEMMA EndsServe ==
  ASSUME LoopInv, Picks \/ GivesUp \/ Removes \/ Finishes
  PROVE  replacing /\ (Served \/ UNCHANGED vars)
<1>1. CASE Picks
  BY <1>1 DEF Picks, Picking
<1>2. CASE GivesUp
  BY <1>2, GivesUpServes DEF GivesUp
<1>3. CASE Removes
  BY <1>3, RemovesServes DEF Removes
<1>4. CASE Finishes
  BY <1>4, FinishesServes DEF Finishes
<1> QED
  BY <1>1, <1>2, <1>3, <1>4

LEMMA OneStepNext == LoopInv /\ [LoopNext]_allVars => OneStep
<1> SUFFICES ASSUME LoopInv, [LoopNext]_allVars, replacing
             PROVE  \/ Served
                    \/ \E c \in Clients : Deliver(c) \/ Exit(c) \/ Die(c)
                    \/ UNCHANGED vars
  BY DEF OneStep
<1>1. CASE UNCHANGED allVars
  BY <1>1 DEF allVars
<1>2. CASE Picks \/ GivesUp \/ Removes \/ Finishes
  BY <1>2, EndsServe
<1>3. CASE \E c \in Clients : Meanwhile(c)
  BY <1>3 DEF Meanwhile
<1> QED
  BY <1>1, <1>2, <1>3 DEF LoopNext

LEMMA ServedNext ==
  ASSUME LoopInv, replacing, Served
  PROVE  Next
<1>1. /\ request.c \in Clients /\ request.f \in Files
      /\ request.n \in Sizes /\ request.sendBack \in BOOLEAN
  BY DEF LoopInv, RequestInv
<1>2. Request(request.c)
  BY <1>1 DEF Served, Request
<1> QED
  BY <1>1, <1>2 DEF Next

LEMMA OtherRequestNext ==
  ASSUME NEW c \in Clients, OtherRequest(c)
  PROVE  Next
BY DEF OtherRequest, Request, Next

LEMMA LoopWriteStep ==
  ASSUME NEW c \in Clients, NEW f \in Files, NEW n \in Sizes, NEW sendBack \in BOOLEAN,
         LoopWrite(c, f, n, sendBack) \/ LoopAppend(c, f, n, sendBack)
  PROVE  \/ Next /\ UNCHANGED loopVars
         \/ /\ UNCHANGED vars
            /\ \E content :
                 /\ n > 0 /\ Missing(n) > 0
                 /\ \/ /\ WriteRefusal(c, f, n) = "OK"
                       /\ content = file_replace_content(file[f], n)
                    \/ /\ AppendRefusal(c, f, n) = "OK"
                       /\ content = file_append_content(file[f], n)
                 /\ Enters(c, f, n, sendBack, content)
<1>1. ASSUME Write(c, f, n, sendBack) \/ AppendTo(c, f, n, sendBack)
      PROVE  Next
  BY <1>1 DEF Request, Next
<1>2. CASE LoopWrite(c, f, n, sendBack)
  <2>1. CASE LacksRoom(WriteRefusal(c, f, n), n)
    BY <1>2, <2>1 DEF LoopWrite, LacksRoom, Enters
  <2>2. CASE ~ LacksRoom(WriteRefusal(c, f, n), n)
    BY <1>1, <1>2, <2>2 DEF LoopWrite
  <2> QED
    BY <2>1, <2>2
<1>3. CASE LoopAppend(c, f, n, sendBack)
  <2>1. CASE LacksRoom(AppendRefusal(c, f, n), n)
    BY <1>3, <2>1 DEF LoopAppend, LacksRoom, Enters
  <2>2. CASE ~ LacksRoom(AppendRefusal(c, f, n), n)
    BY <1>1, <1>3, <2>2 DEF LoopAppend
  <2> QED
    BY <2>1, <2>2
<1> QED
  BY <1>2, <1>3

LEMMA LoopStep == LoopInv /\ [LoopNext]_allVars => [Next]_vars
<1> SUFFICES ASSUME LoopInv, [LoopNext]_allVars
             PROVE  [Next]_vars
  OBVIOUS
<1>1. CASE UNCHANGED allVars
  BY <1>1 DEF allVars
<1>2. CASE Picks \/ GivesUp \/ Removes \/ Finishes
  BY <1>2, EndsServe, ServedNext
<1>3. CASE \E c \in Clients : Meanwhile(c)
  BY <1>3 DEF Meanwhile, Next
<1>4. CASE \E c \in Clients : OtherRequest(c)
  BY <1>4, OtherRequestNext
<1>5. CASE \E c \in Clients, f \in Files, n \in Sizes, sendBack \in BOOLEAN :
             LoopWrite(c, f, n, sendBack) \/ LoopAppend(c, f, n, sendBack)
  BY <1>5, LoopWriteStep
<1> QED
  BY <1>1, <1>2, <1>3, <1>4, <1>5 DEF LoopNext

LEMMA LoopInvNext == LoopInv /\ [LoopNext]_allVars => LoopInv'
<1> SUFFICES ASSUME LoopInv, [LoopNext]_allVars
             PROVE  LoopInv'
  OBVIOUS
<1>1. LockInv' /\ SizesFit'
  BY LoopStep, LockInvNext, SizesFitNext DEF LoopInv
<1>2. SUFFICES ASSUME replacing'
               PROVE  InLoop'
  BY <1>1 DEF LoopInv, InLoop
<1>3. CASE UNCHANGED allVars
  <2>1. UNCHANGED <<storeVars, loopVars, status, out, rlock, request>> /\ replacing
    BY <1>2, <1>3 DEF allVars, vars, sessionVars, loopVars
  <2>2. RequestInv'
    BY <2>1, SameRequest DEF LoopInv, RequestInv
  <2> QED
    BY <2>1, <2>2, SameLoop DEF LoopInv, InLoop
<1>4. CASE Picks
  BY <1>4, PicksKeeps
<1>5. CASE Removes
  BY <1>5, RemovesKeeps
<1>6. CASE GivesUp
  BY <1>2, <1>6 DEF GivesUp, Leaves
<1>7. CASE Finishes
  <2>1. Corrupts /\ UNCHANGED loopVars /\ replacing
    BY <1>2, <1>7 DEF Finishes, Leaves
  <2> QED
    BY <2>1, CorruptsKeeps
<1>8. CASE \E c \in Clients : Meanwhile(c) /\ UNCHANGED loopVars
  <2>1. replacing
    BY <1>2, <1>8 DEF loopVars
  <2> QED
    BY <1>8, <2>1, MeanwhileKeeps
<1>9. CASE ~ replacing /\ \E c \in Clients : OtherRequest(c) /\ UNCHANGED loopVars
  BY <1>2, <1>9 DEF loopVars
<1>10. CASE /\ ~ replacing
            /\ \E c \in Clients, f \in Files, n \in Sizes, sendBack \in BOOLEAN :
                 LoopWrite(c, f, n, sendBack) \/ LoopAppend(c, f, n, sendBack)
  <2>1. PICK c \in Clients, f \in Files, n \in Sizes, sendBack \in BOOLEAN :
          LoopWrite(c, f, n, sendBack) \/ LoopAppend(c, f, n, sendBack)
    BY <1>10
  <2>2. CASE UNCHANGED loopVars
    BY <1>2, <1>10, <2>2 DEF loopVars
  <2>3. CASE \E content :
               /\ n > 0 /\ Missing(n) > 0
               /\ \/ /\ WriteRefusal(c, f, n) = "OK"
                     /\ content = file_replace_content(file[f], n)
                  \/ /\ AppendRefusal(c, f, n) = "OK"
                     /\ content = file_append_content(file[f], n)
               /\ Enters(c, f, n, sendBack, content)
    BY <2>3, EntersKeeps
  <2> QED
    BY <2>1, <2>2, <2>3, LoopWriteStep
<1> QED
  BY <1>3, <1>4, <1>5, <1>6, <1>7, <1>8, <1>9, <1>10 DEF LoopNext

LEMMA LoopInvInit == LoopInit => LoopInv
<1> SUFFICES ASSUME LoopInit
             PROVE  LoopInv
  OBVIOUS
<1>1. LockInv
  BY LockInvInit DEF LoopInit
<1>2. SizesFit
  BY ConstantsAssumption DEF LoopInit, Init, SizesFit, Absent
<1>3. ~ replacing
  BY DEF LoopInit
<1> QED
  BY <1>1, <1>2, <1>3 DEF LoopInv

LEMMA LoopInvAlways == LoopSpec => []LoopInv
BY LoopInvInit, LoopInvNext, PTL DEF LoopSpec

\* A request that makes the store replace files is served or refused as if in one
\* step, in whatever order the files are sorted, with what the others send and
\* who leaves meanwhile.
THEOREM ReplacementIsOneStep == LoopSpec => LoopIsOneStep
<1>1. LoopInv /\ [LoopNext]_allVars =>
        [replacing =>
           \/ Write(request.c, request.f, request.n, request.sendBack)
           \/ AppendTo(request.c, request.f, request.n, request.sendBack)
           \/ \E c \in Clients : Deliver(c) \/ Exit(c) \/ Die(c)]_vars
  BY OneStepNext DEF OneStep, Served
<1> QED
  BY <1>1, LoopInvAlways, PTL DEF LoopSpec, LoopIsOneStep

\* So what is proved of the store holds when files are replaced one at a time.
THEOREM LoopsKeepTheStore == LoopSpec => Spec
<1>1. LoopInit => Init
  BY DEF LoopInit
<1> QED
  BY <1>1, LoopStep, LoopInvAlways, PTL DEF LoopSpec, Spec

================================================================================

------------------------------ MODULE Replacement ------------------------------
(***************************************************************************)
(* Which files a write evicts: replacement_policy.c over the times and the *)
(* counter of file_stored.c, and the choice of the policy in server.c.     *)
(*                                                                         *)
(* The steps are those of FileStorage, and each of them also keeps what    *)
(* the policies compare.  Of times only the order matters: they are ranks, *)
(* 0 for a file that is not stored.  The clock is assumed not to be set    *)
(* back while the server runs, but two readings of it may be the same.     *)
(***************************************************************************)
EXTENDS FileStorage

CONSTANTS
  Configs,     \* the pairs of policy name and log name of a configuration
  MaxUses,     \* the bound of use_frequency
  Coarse       \* whether two readings of the clock may be the same

Policies == {"FIFO", "LRU", "LFU"}

\* What the names of a configuration begin with.
Names == Policies \cup {"other"}

ASSUME ReplacementAssumption ==
  /\ Configs \subseteq [policy_type : Names, log_name : Names]
  /\ MaxUses \in Nat \ {0}
  /\ Coarse \in BOOLEAN

VARIABLES
  config,          \* the configuration the server was started with
  fs_policy,       \* the function the files are sorted with
  creation_time,   \* of each file_stored
  last_use_time,
  use_frequency

policyVars == <<config, fs_policy, creation_time, last_use_time, use_frequency>>
rvars      == <<vars, policyVars>>

-------------------------------------------------------------------------------
(* The policies.                                                           *)

set_policy_fs(name) == IF name \in Policies THEN name ELSE "FIFO"

\* init_server asks the configuration for its log name.
ChosenPolicy(cfg) == set_policy_fs(cfg.log_name)

\* What a policy compares first.
Key(p) == CASE p = "FIFO" -> creation_time
            [] p = "LRU"  -> last_use_time
            [] p = "LFU"  -> use_frequency

\* Seeded fault: the larger of two equally old files goes first.
CompareLargestFirst(p, f, g) ==
  IF Key(p)[f] # Key(p)[g] THEN Key(p)[f] - Key(p)[g] ELSE file[g].size - file[f].size

\* replacement_policy_fifo, _lru, _lfu: negative if f comes before g.
Compare(p, f, g) ==
  IF Key(p)[f] # Key(p)[g] THEN Key(p)[f] - Key(p)[g] ELSE file[f].size - file[g].size

\* What qsort may make of the files of S.
Sorted(S) == {s \in Bijection(1 .. Cardinality(S), S) :
                \A j \in DOMAIN s : \A i \in 1 .. j - 1 : Compare(fs_policy, s[i], s[j]) <= 0}

\* The files the loop of run_replacement_algorithm takes from s, until they
\* free n bytes.
Taken(s, n) ==
  LET Freed(k) == Stored(Range(SubSeq(s, 1, k))) IN
  {SubSeq(s, 1, k) : k \in {i \in 0 .. Len(s) :
                              Freed(i) >= n /\ \A j \in 0 .. i - 1 : Freed(j) < n}}

-------------------------------------------------------------------------------
(* The times and the counter.                                              *)

\* Ranks without gaps; a file that is no longer stored has none.
Ranked(t) ==
  LET times == [g \in Files |-> IF file'[g].present THEN t[g] ELSE 0] IN
  [g \in Files |-> Cardinality({times[h] : h \in Files} \cap (1 .. times[g]))]

\* clock_gettime for f: later than all the times read before, or the same as
\* the latest of them.
Now(t, f) ==
  {Ranked([t EXCEPT ![f] = n]) :
     n \in {m \in 1 .. Cardinality(Files) + 1 :
              \A g \in Files : t[g] < m \/ (Coarse /\ t[g] = m)}}

\* Seeded fault: the count outlives the file.
KeptAlways(counts) == counts

Kept(counts) == [g \in Files |-> IF file'[g].present THEN counts[g] ELSE 0]

\* Only what decides about an eviction is kept up to date.
Compared == {fs_policy, set_policy_fs(config.policy_type)}

Counts(counts) == use_frequency' = IF "LFU" \in Compared THEN Kept(counts) ELSE use_frequency
Touches(T)     == last_use_time' \in IF "LRU" \in Compared THEN T ELSE {last_use_time}
Creates(T)     == creation_time' \in IF "FIFO" \in Compared THEN T ELSE {creation_time}

\* notify_used_file
Used(f) ==
  /\ use_frequency[f] < MaxUses
  /\ Counts([use_frequency EXCEPT ![f] = @ + 1])
  /\ Touches(Now(last_use_time, f))
  /\ Creates({Ranked(creation_time)})

\* create_file
Created(f) ==
  /\ Counts([use_frequency EXCEPT ![f] = 1])
  /\ Touches(Now(last_use_time, f))
  /\ Creates(Now(creation_time, f))

Untouched ==
  /\ Counts(use_frequency)
  /\ Touches({Ranked(last_use_time)})
  /\ Creates({Ranked(creation_time)})

-------------------------------------------------------------------------------
(* The steps: which of them use a file.                                    *)

\* The request c made on f was accepted, also if that means to wait.
UsedIf(e, f) == IF e = "OK" THEN Used(f) ELSE Untouched

\* The files a write or an append to f evicts are the first of the sorted ones;
\* the loop passes over f.
EvictsByPolicy(c, f, n, sendBack) ==
  \E s \in Sorted(Present \ {f}) : \E vs \in Taken(s, Missing(n)) :
    IF heap' = "corrupt" THEN \E i \in 1 .. Len(vs) : ~FreeIsSafe(file[vs[i]])
                         ELSE out'[c] = WriteAnswers(c, f, vs, sendBack)

\* The part write and append have in common; n is the size of the data.
Stores(c, f, n, sendBack) ==
  IF Evictions(f, n) = {} THEN Untouched
  ELSE EvictsByPolicy(c, f, n, sendBack) /\ Used(f)

\* A write without data is no use of the file, an append is.
PolicyWrite(c, f, n, sendBack) ==
  /\ Write(c, f, n, sendBack)
  /\ IF WriteRefusal(c, f, n) = "OK" /\ n > 0 THEN Stores(c, f, n, sendBack) ELSE Untouched

PolicyAppend(c, f, n, sendBack) ==
  /\ AppendTo(c, f, n, sendBack)
  /\ IF AppendRefusal(c, f, n) = "OK" /\ n > 0 THEN Stores(c, f, n, sendBack)
     ELSE UsedIf(AppendRefusal(c, f, n), f)

\* A file that was read is used when its content was sent.
PolicyDeliver(c) ==
  /\ Deliver(c)
  /\ IF c \in rlock /\ Head(out[c]).about \in Files
     THEN Used(Head(out[c]).about) ELSE Untouched

PolicyRequest(c) ==
  \/ \E f \in Files, lock \in BOOLEAN :
       /\ OpenCreate(c, f, lock)
       /\ IF OpenCreateRefusal(f) = "OK" THEN Created(f) ELSE Untouched
  \/ \E f \in Files, lock \in BOOLEAN :
       /\ Open(c, f, lock)
       /\ IF file[f].present THEN Used(f) ELSE Untouched
  \/ \E f \in Files, n \in Sizes, sendBack \in BOOLEAN : PolicyWrite(c, f, n, sendBack)
  \/ \E f \in Files, n \in Sizes, sendBack \in BOOLEAN : PolicyAppend(c, f, n, sendBack)
  \/ \E f \in Files : Lock(c, f) /\ UsedIf(LockRefusal(c, f), f)
  \/ \E f \in Files : Unlock(c, f) /\ UsedIf(UnlockRefusal(c, f), f)
  \/ \E f \in Files : Close(c, f) /\ IF file[f].present THEN Used(f) ELSE Untouched
  \/ \E f \in Files : Read(c, f) /\ Untouched
  \/ \E n \in 0 .. MaxFiles : ReadN(c, n) /\ Untouched
  \/ \E f \in Files : Remove(c, f) /\ Untouched

PolicyNext ==
  /\ \E c \in Clients :
       \/ PolicyRequest(c)
       \/ PolicyDeliver(c)
       \/ (Exit(c) \/ Die(c) \/ Disconnect(c)) /\ Untouched
  /\ UNCHANGED <<config, fs_policy>>

PolicyInit ==
  /\ Init
  /\ config \in Configs
  /\ fs_policy = ChosenPolicy(config)
  /\ creation_time = [f \in Files |-> 0]
  /\ last_use_time = [f \in Files |-> 0]
  /\ use_frequency = [f \in Files |-> 0]

PolicySpec == PolicyInit /\ [][PolicyNext]_rvars

-------------------------------------------------------------------------------
(* Properties.                                                             *)

\* The variables have their types; and of what is compared, the files that are
\* stored have a time or a count, and the others have none: create_file is the
\* only way to one, and neither free_file nor free_file_for_replacement leaves one.
PolicyTypeOK ==
  /\ config \in Configs /\ fs_policy \in Policies
  /\ creation_time \in [Files -> 0 .. Cardinality(Files)]
  /\ last_use_time \in [Files -> 0 .. Cardinality(Files)]
  /\ use_frequency \in [Files -> 0 .. MaxUses]
  /\ \A p \in Compared : \A f \in Files : Key(p)[f] > 0 <=> f \in Present

\* The answer to a request c made on g is on its way: it was accepted.
Accepts(c, g) ==
  out[c] = << >> /\ \E i \in DOMAIN out'[c] : out'[c][i] \in [to : {<< c >>}, ans : {"OK"}, about : {g},
                                                            data : SUBSET Files]

\* The policy that is configured decides who goes: a file is evicted for g and
\* another one stays only if the one that stays was created later (FIFO), was
\* used later (LRU), was used more often (LFU), or else is at least as large;
\* whatever came before: refusals, reads, locks, files evicted and created again.
PolicyIsFollowed ==
  [][LET key == Key(set_policy_fs(config.policy_type)) IN
     \A c \in Clients, g \in Files : Accepts(c, g) =>
       \A v \in (Present \ Present') \ {g}, s \in (Present \cap Present') \ {g} :
         key[v] < key[s] \/ (key[v] = key[s] /\ file[v].size <= file[s].size)
    ]_rvars

================================================================================

----------------------------- MODULE LockServices ------------------------------
(***************************************************************************)
(* The refinement mapping: the locks of FileStorage, one LockService each. *)
(* Owed are the clients a worker still has to send something about the     *)
(* file; what is sent inside a section of the store is never owed.         *)
(***************************************************************************)
EXTENDS FileStorage

Owed(f) ==
  {c \in Clients : \E d \in Clients : \E i \in DOMAIN out[d] :
                     out[d][i].about = f /\ c \in Range(out[d][i].to)}

Service(f) == INSTANCE LockService WITH
                owner <- file[f].locked_by,
                line  <- file[f].lock_queue.items,
                owed  <- Owed(f)

\* Every file gives its lock out as LockService says, also while other files are
\* evicted to make room, their waiters told after the section, late grants sent,
\* and clients taken out of the middle of its line.
LocksAreServed ==
  /\ \A f \in Files : Service(f)!Init
  /\ [][\A f \in Files : [Service(f)!Next]_(Service(f)!serviceVars)]_vars

================================================================================

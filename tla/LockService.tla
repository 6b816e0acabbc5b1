------------------------------ MODULE LockService ------------------------------
(***************************************************************************)
(* What the server promises about the lock of one file, whatever requests, *)
(* evictions and disconnections do to it: one owner, a line of clients in  *)
(* the order they came, and one answer for each request about the file, in *)
(* its turn.  FileStorage implements it for every file (LockServices).     *)
(***************************************************************************)
EXTENDS Sequences, Functions

CONSTANTS
  Clients,
  NoClient     \* the owner of a lock that is free

VARIABLES
  owner,       \* who has the lock
  line,        \* who waits for it
  owed         \* who is about to be answered

serviceVars == <<owner, line, owed>>

\* A client makes one request at a time.
Busy(c) == c \in owed \/ c \in Range(line)

First == IF line = << >> THEN NoClient ELSE Head(line)

\* The first in line gets the lock, and those of T are to be told.
PassOn(T) ==
  /\ owner' = First
  /\ line' = IF line = << >> THEN line ELSE Tail(line)
  /\ owed' = owed \cup T

\* A request that leaves the lock alone, or is refused.
Ask(c) ==
  /\ ~Busy(c)
  /\ owed' = owed \cup {c}
  /\ UNCHANGED <<owner, line>>

Take(c) ==
  /\ ~Busy(c)
  /\ owner = NoClient
  /\ owner' = c
  /\ owed' = owed \cup {c}
  /\ UNCHANGED line

Join(c) ==
  /\ ~Busy(c)
  /\ owner \notin {NoClient, c}
  /\ line' = Append(line, c)
  /\ UNCHANGED <<owner, owed>>

\* The owner gives the lock up, and the next owner hears of it.
Release(c) ==
  /\ ~Busy(c)
  /\ owner = c
  /\ PassOn({c} \cup ({First} \ {NoClient}))

\* The owner removes the file; who waited has been told at once.
Remove(c) ==
  /\ ~Busy(c)
  /\ owner = c
  /\ owner' = NoClient /\ line' = << >>
  /\ owed' = owed \cup {c}

\* The file makes room for another; who waited is to be told.
Evict ==
  /\ owner' = NoClient /\ line' = << >>
  /\ owed' = owed \cup Range(line)

Answer(c) ==
  /\ c \in owed
  /\ owed' = owed \ {c}
  /\ UNCHANGED <<owner, line>>

\* A client that is gone leaves the line, or the lock to the first in line, who
\* is told at once.
Vanish(c) ==
  \/ owner = c /\ PassOn({})
  \/ /\ \E i \in DOMAIN line :
          /\ line[i] = c
          /\ line' = SubSeq(line, 1, i - 1) \o SubSeq(line, i + 1, Len(line))
     /\ UNCHANGED <<owner, owed>>

Init == owner = NoClient /\ line = << >> /\ owed = {}

Next ==
  \/ \E c \in Clients : \/ Ask(c) \/ Take(c) \/ Join(c) \/ Release(c)
                        \/ Remove(c) \/ Answer(c) \/ Vanish(c)
  \/ Evict

Spec == Init /\ [][Next]_serviceVars

================================================================================

---------------------------- MODULE LinkedListHeap ----------------------------
(***************************************************************************)
(* linked_list.c with its nodes and pointers: one list, its nodes in a     *)
(* heap whose addresses malloc may give out again once they are freed.     *)
(* The list is used the way one of the lists of the server is (kind).      *)
(*                                                                         *)
(* Why it is here: the other modules use the list as a value (LinkedList); *)
(* Implements says that the pointers behave like that value.               *)
(***************************************************************************)
EXTENDS Naturals, Sequences, Functions

CONSTANTS Value,     \* what the nodes hold
          Address,   \* the memory: bounds the length of the list
          NULL

ASSUME NullAssumption == NULL \notin Address

VARIABLES
  kind,   \* which list of the server this is
  node,   \* struct node of each address that is allocated to the list
  head, tail, count,
  pc,     \* "emptying" inside the loop of ll_empty
  heap    \* "corrupt" once a call followed a tail that is not the last node

list == <<node, head, tail, count>>
vars == <<kind, list, pc, heap>>

\* The calls each list sees besides ll_empty, which ends all of them.
Uses == [filenames |-> {"add_head", "remove_str"},
         opened_by |-> {"add_head", "remove_node"},
         lockers   |-> {"add_tail", "remove_first", "remove_node"},
         pending   |-> {"add_tail", "remove_first"}]

\* The nodes found walking from head.  The loops stop at NULL, not at count:
\* ListIsWhole says that this is the same, except inside ll_empty.
Chain ==
  LET walk[i \in 1 .. count] == IF i = 1 THEN head ELSE node[walk[i - 1]].next
  IN  walk

Held == [i \in 1 .. count |-> node[Chain[i]].value]

TailIsLast == IF count = 0 THEN tail = NULL ELSE tail = Chain[count]

\* curr of the search loops, as an index of Chain.
Index(v) ==
  CHOOSE i \in 1 .. count : Held[i] = v /\ \A j \in 1 .. i - 1 : Held[j] # v

Calls(op) == heap = "sound" /\ pc = "ready" /\ op \in Uses[kind]

\* The nodes f with one more at a, and without the one at a.
Allocated(f, a, v, next) ==
  [b \in DOMAIN f \cup {a} |-> IF b = a THEN [value |-> v, next |-> next] ELSE f[b]]

Freed(f, a) == [b \in DOMAIN f \ {a} |-> f[b]]

Corrupts == heap' = "corrupt" /\ UNCHANGED <<kind, list, pc>>

Init ==
  /\ kind \in DOMAIN Uses
  /\ node = << >>
  /\ head = NULL
  /\ tail = NULL
  /\ count = 0
  /\ pc = "ready"
  /\ heap = "sound"

-----------------------------------------------------------------------------
ll_add_head(v) ==
  /\ Calls("add_head")
  /\ \E a \in Address \ DOMAIN node :
       /\ node' = Allocated(node, a, v, head)
       /\ head' = a
       /\ tail' = IF tail = NULL THEN a ELSE tail
  /\ count' = count + 1
  /\ UNCHANGED <<kind, pc, heap>>

AddToEmpty(v) ==
  \E a \in Address \ DOMAIN node :
    /\ node' = Allocated(node, a, v, NULL)
    /\ head' = a
    /\ tail' = a

AddAfterTail(v) ==
  \E a \in Address \ DOMAIN node :
    /\ node' = Allocated([node EXCEPT ![tail].next = a], a, v, NULL)
    /\ tail' = a
    /\ head' = head

ll_add_tail(v) ==
  /\ Calls("add_tail")
  /\ IF ~TailIsLast
     THEN Corrupts
     ELSE /\ IF count = 0 THEN AddToEmpty(v) ELSE AddAfterTail(v)
          /\ count' = count + 1
          /\ UNCHANGED <<kind, pc, heap>>

\* Seeded fault: tail stays on the freed node of a list that is empty.
UnlinkHeadOnly ==
  /\ head' = node[head].next
  /\ tail' = tail
  /\ node' = Freed(node, head)

\* The first node goes; tail is reset only when no node is left.
UnlinkHead ==
  /\ head' = node[head].next
  /\ tail' = IF head' = NULL THEN NULL ELSE tail
  /\ node' = Freed(node, head)

\* A later node goes: its predecessor skips it.
Unlink(i) ==
  /\ node' = Freed([node EXCEPT ![Chain[i - 1]].next = node[Chain[i]].next], Chain[i])
  /\ head' = head

\* dequeue returns before the call when the list is empty.
ll_remove_first ==
  /\ Calls("remove_first")
  /\ count > 0
  /\ UnlinkHead
  /\ count' = count - 1
  /\ UNCHANGED <<kind, pc, heap>>

\* The callers pass the first node that holds v.
ll_remove_node(v) ==
  /\ Calls("remove_node")
  /\ v \in Range(Held)
  /\ IF Index(v) = 1 THEN UnlinkHead ELSE Unlink(Index(v)) /\ tail' = tail
  /\ count' = count - 1
  /\ UNCHANGED <<kind, pc, heap>>

\* Seeded fault: ll_remove_str leaves tail alone, as ll_remove_node does.
TailKept(i) == tail

TailAfter(i) == IF Chain[i] = tail THEN Chain[i - 1] ELSE tail

ll_remove_str(v) ==
  /\ Calls("remove_str")
  /\ v \in Range(Held)
  /\ LET i == Index(v) IN
       IF i = 1
       THEN UnlinkHead
       ELSE Unlink(i) /\ tail' = TailAfter(i)
  /\ count' = count - 1
  /\ UNCHANGED <<kind, pc, heap>>

ll_empty ==
  /\ heap = "sound"
  /\ pc = "ready"
  /\ count > 0
  /\ pc' = "emptying"
  /\ UNCHANGED <<kind, list, heap>>

\* Seeded fault: the loop stops at the last node.
EmptiedEarly(n) == n <= 1

\* The condition of the loop, while(ll->count > 0).
Emptied(n) == n = 0

\* One turn of the loop.  The predecessor keeps its pointer to the freed
\* node, so until the list is empty only count says where it ends.  When tail
\* is another node the search for it leaves the list, or frees the wrong node.
ll_remove_last ==
  /\ heap = "sound"
  /\ pc = "emptying"
  /\ IF ~TailIsLast
     THEN Corrupts
     ELSE /\ head' = IF count = 1 THEN NULL ELSE head
          /\ tail' = IF count = 1 THEN NULL ELSE Chain[count - 1]
          /\ node' = Freed(node, tail)
          /\ count' = count - 1
          /\ pc' = IF Emptied(count - 1) THEN "ready" ELSE pc
          /\ UNCHANGED <<kind, heap>>

Next ==
  \/ \E v \in Value : ll_add_head(v)
  \/ \E v \in Value : ll_add_tail(v)
  \/ \E v \in Value : ll_remove_node(v)
  \/ \E v \in Value : ll_remove_str(v)
  \/ ll_remove_first
  \/ ll_empty
  \/ ll_remove_last

Spec == Init /\ [][Next]_vars

-----------------------------------------------------------------------------
(* Properties. *)

TypeOK ==
  /\ kind \in DOMAIN Uses
  /\ DOMAIN node \subseteq Address
  /\ \A a \in DOMAIN node : node[a] \in [value : Value, next : Address \cup {NULL}]
  /\ {head, tail} \subseteq Address \cup {NULL}
  /\ count \in Nat
  /\ pc \in {"ready", "emptying"}
  /\ heap \in {"sound", "corrupt"}

\* Whatever tail is, walking from head visits count nodes, all different,
\* all allocated, and no other node is allocated: nothing is lost, freed in
\* use or linked twice, even when malloc gives out the address that tail was
\* left on.  Between two calls the walk ends in NULL where count says.
ListIsWhole ==
  /\ TypeOK
  /\ IsInjective(Chain)
  /\ Range(Chain) = DOMAIN node
  /\ (count = 0) = (head = NULL)
  /\ (count = 0) = (tail = NULL)
  /\ pc = "ready" /\ count > 0 => node[Chain[count]].next = NULL

\* Only ll_remove_node leaves tail behind: the list of names, whose nodes go
\* by ll_remove_str, and the queue of requests never use a wrong tail.
TailFollows == kind \in {"filenames", "pending"} => TailIsLast /\ heap = "sound"

\* The pointers implement the list as a value.
Abstract == INSTANCE ListSpec WITH
  list <- [items |-> Held, dangling |-> ~TailIsLast]

ImplementsList == Abstract!Spec

==============================================================================

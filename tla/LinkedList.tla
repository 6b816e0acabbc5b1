------------------------------ MODULE LinkedList ------------------------------
(***************************************************************************)
(* The linked list of shared_lib (linked_list.c, and queue.c on top of it) *)
(* as a value.  Every structure of the server that grows is one of these:  *)
(* the clients that have a file open, the queue of clients waiting for its *)
(* lock, the names of the stored files, the fds waiting for a worker.      *)
(*                                                                         *)
(* A list is [items, dangling].  The items are the values found walking    *)
(* from head; dangling says that ll->tail is not the last of those nodes.  *)
(* That happens because ll_remove_node never updates tail when the node it *)
(* unlinks has a predecessor, so after the last of several nodes is        *)
(* removed tail keeps pointing at the freed node.  An empty list always    *)
(* has tail = NULL, so its dangling is FALSE.                              *)
(***************************************************************************)
EXTENDS Naturals, Sequences, Functions

List(T) == [items : Seq(T), dangling : BOOLEAN]

EmptyList == [items |-> << >>, dangling |-> FALSE]

Values(l) == Range(l.items)

Distinct(l) == IsInjective(l.items)

\* ll_add_tail and ll_remove_last (so ll_empty and ll_free) follow tail when
\* the list is not empty; they are defined only if it is the last node.
TailIsSafe(l) == ~l.dangling

\* Node i is unlinked; SequencesExt has this operator too, defined the same
\* way, but brings names this module uses.
Without(s, i) == SubSeq(s, 1, i - 1) \o SubSeq(s, i + 1, Len(s))

\* The first node that holds v, as the FOREACH loops of the callers find it.
Position(l, v) ==
  CHOOSE i \in 1 .. Len(l.items) :
    l.items[i] = v /\ \A j \in 1 .. i - 1 : l.items[j] # v

\* tail is set only if it was NULL, which is when the list is empty.
ll_add_head(l, v) == [l EXCEPT !.items = << v >> \o @]

\* Seeded fault: the new node goes to the front.
ll_add_tail_front(l, v) == [l EXCEPT !.items = << v >> \o @]

\* Defined when TailIsSafe(l).
ll_add_tail(l, v) == [l EXCEPT !.items = Append(@, v)]

\* Called on a list that is not empty: dequeue tests the count first.
ll_remove_first(l) == [items    |-> Tail(l.items),
                       dangling |-> l.dangling /\ Len(l.items) > 1]

\* The caller looked v up from head, so the node is in the list.  Unlinking
\* the head resets tail when the list gets empty; unlinking any other node
\* leaves tail alone, even if it was that node.
ll_remove_node(l, v) ==
  LET i == Position(l, v) IN
  [items    |-> Without(l.items, i),
   dangling |-> \/ l.dangling /\ Len(l.items) > 1
                \/ i > 1 /\ i = Len(l.items)]

\* The same walk, but tail follows when the last node goes.
ll_remove_str(l, v) ==
  [items    |-> Without(l.items, Position(l, v)),
   dangling |-> l.dangling /\ Len(l.items) > 1]

==============================================================================

------------------------------- MODULE ListSpec -------------------------------
(***************************************************************************)
(* What a caller of the linked list may rely on: the operations do to its  *)
(* value what the operators of LinkedList say, and a call that follows     *)
(* tail while tail is not the last node breaks the heap, after which       *)
(* nothing is promised.  This is the list that FileStorage and Server are  *)
(* written with.                                                           *)
(***************************************************************************)
EXTENDS LinkedList

CONSTANT Value

VARIABLES list, heap

vars == <<list, heap>>

Init == list = EmptyList /\ heap = "sound"

Becomes(l) == list' = l /\ heap' = heap

FollowsTail(l) ==
  IF TailIsSafe(list) THEN Becomes(l) ELSE list' = list /\ heap' = "corrupt"

\* The allocator may have given the node that tail was left on to the list
\* again; if that node becomes the last one, tail is right by luck.
OrByLuck(l) ==
  \/ Becomes(l)
  \/ list.dangling /\ Becomes([l EXCEPT !.dangling = FALSE])

AddHead(v)    == Becomes(ll_add_head(list, v))
AddTail(v)    == FollowsTail(ll_add_tail(list, v))
RemoveFirst   == list.items # << >> /\ Becomes(ll_remove_first(list))
RemoveNode(v) == v \in Values(list) /\ OrByLuck(ll_remove_node(list, v))
RemoveStr(v)  == v \in Values(list) /\ OrByLuck(ll_remove_str(list, v))
RemoveLast    ==
  /\ list.items # << >>
  /\ FollowsTail([list EXCEPT !.items = SubSeq(@, 1, Len(@) - 1)])

Next ==
  /\ heap = "sound"
  /\ \/ \E v \in Value : AddHead(v) \/ AddTail(v) \/ RemoveNode(v) \/ RemoveStr(v)
     \/ RemoveFirst
     \/ RemoveLast

Spec == Init /\ [][Next]_vars

==============================================================================

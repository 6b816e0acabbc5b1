--------------------------- MODULE LinkedListProofs ---------------------------
(***************************************************************************)
(* What the operations of LinkedList return: their types, the values they  *)
(* hold and whether these stay distinct.                                   *)
(***************************************************************************)
EXTENDS LinkedList, Integers, SequenceTheorems, WellFoundedInduction,
        NaturalsInduction, TLAPS

\* A value of the list has a first position.
LEMMA FirstPosition ==
  ASSUME NEW T, NEW l \in List(T), NEW v \in Values(l)
  PROVE  /\ Position(l, v) \in 1 .. Len(l.items)
         /\ l.items[Position(l, v)] = v
         /\ \A j \in 1 .. Position(l, v) - 1 : l.items[j] # v
<1> DEFINE P == {i \in 1 .. Len(l.items) : l.items[i] = v}
           Less == OpToRel(<, Nat)
<1>0. l.items \in Seq(T) /\ Len(l.items) \in Nat
  BY DEF List
<1>1. P \subseteq Nat /\ P # {}
  BY <1>0 DEF Values, Range
<1>2. IsWellFoundedOn(Less, Nat)
  BY NatLessThanWellFounded
<1>3. PICK i \in P : \A j \in P : <<j, i>> \notin Less
  BY <1>1, <1>2, WFMin
<1>4. Less = {p \in Nat \X Nat : p[1] < p[2]}
  BY DEF OpToRel
<1> HIDE DEF Less
<1>5. ASSUME NEW j \in 1 .. i - 1, l.items[j] = v
      PROVE  FALSE
  <2>1. i \in Nat /\ j \in Nat /\ j < i /\ j \in P
    BY <1>0, <1>5
  <2>2. <<j, i>> \in Less
    BY <1>4, <2>1
  <2> QED
    BY <1>3, <2>1, <2>2
<1>6. i \in 1 .. Len(l.items) /\ l.items[i] = v
  BY <1>3
<1> QED
  BY <1>5, <1>6 DEF Position

\* The node leaves, the ones behind it move up.
LEMMA WithoutProperties ==
  ASSUME NEW T, NEW s \in Seq(T), NEW i \in 1 .. Len(s)
  PROVE  /\ Without(s, i) \in Seq(T)
         /\ Len(Without(s, i)) = Len(s) - 1
         /\ \A j \in 1 .. Len(s) - 1 :
              Without(s, i)[j] = IF j < i THEN s[j] ELSE s[j + 1]
<1> DEFINE a == SubSeq(s, 1, i - 1)
           b == SubSeq(s, i + 1, Len(s))
<1>0. Len(s) \in Nat
  OBVIOUS
<1>1. /\ a \in Seq(T) /\ Len(a) = i - 1
      /\ \A j \in 1 .. i - 1 : a[j] = s[j]
  OBVIOUS
<1>2. /\ b \in Seq(T) /\ Len(b) = Len(s) - i
      /\ \A j \in 1 .. Len(s) - i : b[j] = s[j + i]
  OBVIOUS
<1> HIDE DEF a, b
<1>3. /\ a \o b \in Seq(T)
      /\ Len(a \o b) = Len(a) + Len(b)
      /\ \A j \in 1 .. Len(a) + Len(b) :
            (a \o b)[j] = IF j <= Len(a) THEN a[j] ELSE b[j - Len(a)]
  BY <1>1, <1>2, ConcatProperties
<1>4. Len(a) + Len(b) = Len(s) - 1
  BY <1>1, <1>2
<1>5. ASSUME NEW j \in 1 .. Len(s) - 1
      PROVE  (a \o b)[j] = IF j < i THEN s[j] ELSE s[j + 1]
  <2>1. CASE j < i
    BY <1>1, <1>3, <1>4, <2>1
  <2>2. CASE ~(j < i)
    <3>1. (a \o b)[j] = b[j - (i - 1)]
      BY <1>1, <1>3, <1>4, <2>2
    <3>2. j - (i - 1) \in 1 .. Len(s) - i
      BY <1>0, <2>2
    <3> QED
      BY <1>2, <2>2, <3>1, <3>2
  <2> QED
    BY <2>1, <2>2, Zenon
<1>6. Without(s, i) = a \o b
  BY DEF Without, a, b
<1> QED
  BY <1>3, <1>4, <1>5, <1>6

-------------------------------------------------------------------------------
(* The operations on lists.                                                *)

LEMMA EmptyListProperties ==
  ASSUME NEW T
  PROVE  EmptyList \in List(T) /\ Values(EmptyList) = {} /\ Distinct(EmptyList)
BY DEF EmptyList, List, Values, Range, Distinct, IsInjective

\* A list with no items has no values, and the other way round.
LEMMA NoValues ==
  ASSUME NEW T, NEW l \in List(T)
  PROVE  /\ Values(l) = {l.items[i] : i \in 1 .. Len(l.items)}
         /\ Values(l) \subseteq T
         /\ l.items = << >> <=> Values(l) = {}
<1>1. l.items \in Seq(T)
  BY DEF List
<1>2. DOMAIN l.items = 1 .. Len(l.items) /\ Len(l.items) \in Nat
  BY <1>1
<1>3. Values(l) = {l.items[i] : i \in 1 .. Len(l.items)}
  BY <1>2, Zenon DEF Values, Range
<1>4. Values(l) \subseteq T
  BY <1>1, <1>3
<1>5. ASSUME l.items # << >>
      PROVE  Values(l) # {}
  <2>1. 1 \in 1 .. Len(l.items)
    BY <1>1, <1>5
  <2> QED
    BY <1>3, <2>1
<1>6. ASSUME l.items = << >>
      PROVE  Values(l) = {}
  BY <1>3, <1>6
<1> QED
  BY <1>3, <1>4, <1>5, <1>6

\* ll_add_head adds its value in front.
LEMMA AddHeadProperties ==
  ASSUME NEW T, NEW l \in List(T), NEW v \in T
  PROVE  /\ ll_add_head(l, v) \in List(T)
         /\ Values(ll_add_head(l, v)) = Values(l) \cup {v}
         /\ Distinct(l) /\ v \notin Values(l) => Distinct(ll_add_head(l, v))
<1> DEFINE s == l.items
           t == << v >> \o s
           h == ll_add_head(l, v)
<1>1. s \in Seq(T) /\ Len(s) \in Nat
  BY DEF List
<1>2. h = [items |-> t, dangling |-> l.dangling]
  <2>1. h = [l EXCEPT !.items = t]
    BY DEF ll_add_head
  <2> HIDE DEF t, h
  <2> QED
    BY <2>1 DEF List
<1>3. /\ t \in Seq(T)
      /\ Len(t) = 1 + Len(s)
      /\ \A i \in 1 .. 1 + Len(s) : t[i] = IF i <= 1 THEN v ELSE s[i - 1]
  BY <1>1, << v >> \in Seq(T), Len(<< v >>) = 1, << v >>[1] = v, ConcatProperties
<1>4. h \in List(T)
  BY <1>2, <1>3 DEF List
<1>5. Values(h) = {t[i] : i \in 1 .. 1 + Len(s)}
  <2>1. Values(h) = {h.items[i] : i \in 1 .. Len(h.items)}
    BY <1>4, NoValues
  <2>2. h.items = t
    BY <1>2
  <2> QED
    BY <1>3, <2>1, <2>2
<1>6. Values(l) = {s[i] : i \in 1 .. Len(s)}
  BY NoValues
<1>7. Values(h) = Values(l) \cup {v}
  <2>1. \A i \in 1 .. Len(s) : i + 1 \in 1 .. 1 + Len(s) /\ t[i + 1] = s[i]
    BY <1>1, <1>3
  <2>2. t[1] = v /\ 1 \in 1 .. 1 + Len(s)
    BY <1>1, <1>3
  <2>3. \A i \in 1 .. 1 + Len(s) : t[i] = v \/ (i - 1 \in 1 .. Len(s) /\ t[i] = s[i - 1])
    BY <1>1, <1>3
  <2> HIDE DEF s, t, h
  <2> QED
    BY <1>5, <1>6, <2>1, <2>2, <2>3
<1>8. ASSUME Distinct(l), v \notin Values(l)
      PROVE  Distinct(h)
  <2>1. \A i, j \in 1 .. Len(s) : s[i] = s[j] => i = j
    BY <1>1, <1>8 DEF Distinct, IsInjective
  <2>2. \A i \in 1 .. Len(s) : s[i] # v
    BY <1>6, <1>8
  <2>3. \A i, j \in 1 .. 1 + Len(s) : t[i] = t[j] => i = j
    <3> SUFFICES ASSUME NEW i \in 1 .. 1 + Len(s), NEW j \in 1 .. 1 + Len(s), t[i] = t[j]
                 PROVE  i = j
      OBVIOUS
    <3>1. i # 1 => i - 1 \in 1 .. Len(s) /\ t[i] = s[i - 1]
      BY <1>1, <1>3
    <3>2. j # 1 => j - 1 \in 1 .. Len(s) /\ t[j] = s[j - 1]
      BY <1>1, <1>3
    <3>3. t[1] = v
      BY <1>1, <1>3
    <3> HIDE DEF s, t
    <3> QED
      BY <1>1, <2>1, <2>2, <3>1, <3>2, <3>3
  <2> QED
    BY <1>2, <1>3, <2>3 DEF Distinct, IsInjective
<1> QED
  BY <1>4, <1>7, <1>8

\* ll_add_tail adds its value at the end.
LEMMA AddTailProperties ==
  ASSUME NEW T, NEW l \in List(T), NEW v \in T
  PROVE  /\ ll_add_tail(l, v) \in List(T)
         /\ Values(ll_add_tail(l, v)) = Values(l) \cup {v}
         /\ Distinct(l) /\ v \notin Values(l) => Distinct(ll_add_tail(l, v))
<1> DEFINE s == l.items
           t == Append(s, v)
           h == ll_add_tail(l, v)
<1>1. s \in Seq(T) /\ Len(s) \in Nat
  BY DEF List
<1>2. h = [items |-> t, dangling |-> l.dangling]
  BY DEF ll_add_tail, List
<1>3. /\ t \in Seq(T)
      /\ Len(t) = Len(s) + 1
      /\ \A i \in 1 .. Len(s) : t[i] = s[i]
      /\ t[Len(s) + 1] = v
  BY <1>1
<1>4. h \in List(T)
  BY <1>2, <1>3 DEF List
<1>5. Values(h) = {t[i] : i \in 1 .. Len(s) + 1}
  <2>1. Values(h) = {h.items[i] : i \in 1 .. Len(h.items)}
    BY <1>4, NoValues
  <2>2. h.items = t
    BY <1>2
  <2> QED
    BY <1>3, <2>1, <2>2
<1>6. Values(l) = {s[i] : i \in 1 .. Len(s)}
  BY NoValues
<1>7. Values(h) = Values(l) \cup {v}
  BY <1>1, <1>3, <1>5, <1>6
<1>8. ASSUME Distinct(l), v \notin Values(l)
      PROVE  Distinct(h)
  <2>1. \A i, j \in 1 .. Len(s) : s[i] = s[j] => i = j
    BY <1>1, <1>8 DEF Distinct, IsInjective
  <2>2. \A i \in 1 .. Len(s) : s[i] # v
    BY <1>6, <1>8
  <2>3. \A i, j \in 1 .. Len(s) + 1 : t[i] = t[j] => i = j
    BY <1>1, <1>3, <2>1, <2>2
  <2> QED
    BY <1>2, <1>3, <2>3 DEF Distinct, IsInjective
<1> QED
  BY <1>4, <1>7, <1>8

\* ll_remove_first takes the head off.
LEMMA RemoveFirstProperties ==
  ASSUME NEW T, NEW l \in List(T), l.items # << >>
  PROVE  /\ Head(l.items) \in T
         /\ ll_remove_first(l) \in List(T)
         /\ Values(l) = Values(ll_remove_first(l)) \cup {Head(l.items)}
         /\ Distinct(l) => /\ Distinct(ll_remove_first(l))
                           /\ Head(l.items) \notin Values(ll_remove_first(l))
<1> DEFINE s == l.items
           t == Tail(s)
           h == ll_remove_first(l)
<1>1. s \in Seq(T) /\ Len(s) \in Nat /\ Len(s) > 0
  BY DEF List
<1>2. h.items = t /\ h.dangling \in BOOLEAN /\ h = [items |-> h.items, dangling |-> h.dangling]
  BY DEF ll_remove_first, List
<1>3. /\ t \in Seq(T)
      /\ Len(t) = Len(s) - 1
      /\ \A i \in 1 .. Len(s) - 1 : t[i] = s[i + 1]
      /\ Head(s) = s[1] /\ s[1] \in T
  BY <1>1
<1>4. h \in List(T)
  BY <1>2, <1>3 DEF List
<1>5. Values(h) = {t[i] : i \in 1 .. Len(s) - 1}
  <2>1. Values(h) = {h.items[i] : i \in 1 .. Len(h.items)}
    BY <1>4, NoValues
  <2> QED
    BY <1>2, <1>3, <2>1
<1>6. Values(l) = {s[i] : i \in 1 .. Len(s)}
  BY NoValues
<1>7. Values(l) = Values(h) \cup {s[1]}
  <2>1. \A i \in 1 .. Len(s) : i = 1 \/ (i - 1 \in 1 .. Len(s) - 1 /\ t[i - 1] = s[i])
    BY <1>1, <1>3
  <2>2. 1 \in 1 .. Len(s)
    BY <1>1
  <2>3. \A i \in 1 .. Len(s) - 1 : i + 1 \in 1 .. Len(s) /\ t[i] = s[i + 1]
    BY <1>1, <1>3
  <2> HIDE DEF s, t, h
  <2> QED
    BY <1>5, <1>6, <2>1, <2>2, <2>3
<1>8. ASSUME Distinct(l)
      PROVE  Distinct(h) /\ s[1] \notin Values(h)
  <2>1. \A i, j \in 1 .. Len(s) : s[i] = s[j] => i = j
    BY <1>1, <1>8 DEF Distinct, IsInjective
  <2>2. \A i, j \in 1 .. Len(s) - 1 : t[i] = t[j] => i = j
    BY <1>1, <1>3, <2>1
  <2>3. \A i \in 1 .. Len(s) - 1 : t[i] # s[1]
    BY <1>1, <1>3, <2>1
  <2>4. Distinct(h)
    BY <1>1, <1>2, <1>3, <2>2 DEF Distinct, IsInjective
  <2> QED
    BY <1>5, <2>3, <2>4
<1> QED
  BY <1>3, <1>4, <1>7, <1>8

\* ll_remove_node takes one node with the value out.
LEMMA RemoveNodeProperties ==
  ASSUME NEW T, NEW l \in List(T), NEW v \in Values(l)
  PROVE  /\ ll_remove_node(l, v) \in List(T)
         /\ Values(ll_remove_node(l, v)) \subseteq Values(l)
         /\ Distinct(l) => /\ Distinct(ll_remove_node(l, v))
                           /\ Values(ll_remove_node(l, v)) = Values(l) \ {v}
<1> DEFINE s == l.items
           p == Position(l, v)
           t == Without(s, p)
           h == ll_remove_node(l, v)
<1>1. s \in Seq(T) /\ Len(s) \in Nat
  BY DEF List
<1>2. p \in 1 .. Len(s) /\ s[p] = v
  BY FirstPosition
<1>3. h.items = t /\ h.dangling \in BOOLEAN /\ h = [items |-> h.items, dangling |-> h.dangling]
  BY DEF ll_remove_node, List
<1> HIDE DEF p
<1>4. /\ t \in Seq(T)
      /\ Len(t) = Len(s) - 1
      /\ \A j \in 1 .. Len(s) - 1 : t[j] = IF j < p THEN s[j] ELSE s[j + 1]
  BY <1>1, <1>2, WithoutProperties
<1> HIDE DEF t
<1>5. h \in List(T)
  BY <1>3, <1>4 DEF List
<1>6. Values(h) = {t[i] : i \in 1 .. Len(s) - 1}
  BY <1>3, <1>4, <1>5, NoValues
<1>7. Values(l) = {s[i] : i \in 1 .. Len(s)}
  BY NoValues
<1> HIDE DEF s, h
<1>8. \A j \in 1 .. Len(s) - 1 : \E k \in 1 .. Len(s) :
        t[j] = s[k] /\ k = IF j < p THEN j ELSE j + 1
  BY <1>1, <1>2, <1>4
<1>9. Values(h) \subseteq Values(l)
  BY <1>6, <1>7, <1>8
<1>10. ASSUME Distinct(l)
       PROVE  Distinct(h) /\ Values(h) = Values(l) \ {v}
  <2>1. \A i, j \in 1 .. Len(s) : s[i] = s[j] => i = j
    BY <1>1, <1>10 DEF Distinct, IsInjective, s
  <2>2. \A i, j \in 1 .. Len(s) - 1 : t[i] = t[j] => i = j
    BY <1>1, <1>2, <1>8, <2>1
  <2>3. Distinct(h)
    BY <1>1, <1>3, <1>4, <2>2 DEF Distinct, IsInjective
  <2>4. \A j \in 1 .. Len(s) - 1 : t[j] # v
    BY <1>1, <1>2, <1>8, <2>1
  <2>5. \A k \in 1 .. Len(s) : k # p => \E j \in 1 .. Len(s) - 1 : t[j] = s[k]
    <3> SUFFICES ASSUME NEW k \in 1 .. Len(s), k # p
                 PROVE  \E j \in 1 .. Len(s) - 1 : t[j] = s[k]
      OBVIOUS
    <3>1. CASE k < p
      <4>1. k \in 1 .. Len(s) - 1 /\ t[k] = s[k]
        BY <1>1, <1>2, <1>4, <3>1
      <4> QED
        BY <4>1
    <3>2. CASE k > p
      <4>1. k - 1 \in 1 .. Len(s) - 1 /\ t[k - 1] = s[k]
        BY <1>1, <1>2, <1>4, <3>2
      <4> QED
        BY <4>1
    <3> QED
      BY <1>1, <1>2, <3>1, <3>2
  <2>6. \A k \in 1 .. Len(s) : s[k] # v => s[k] \in Values(h)
    BY <1>2, <1>6, <2>5
  <2>7. v \notin Values(h)
    BY <1>6, <2>4
  <2>8. Values(h) = Values(l) \ {v}
    BY <1>7, <1>9, <2>6, <2>7
  <2> QED
    BY <2>3, <2>8
<1> QED
  BY <1>5, <1>9, <1>10 DEF h

===============================================================================

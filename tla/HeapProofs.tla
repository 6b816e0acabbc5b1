------------------------------ MODULE HeapProofs ------------------------------
(***************************************************************************)
(* The nodes and pointers of a list, for any number of nodes and any order *)
(* in which malloc gives addresses out again: walking from head finds the  *)
(* nodes of the list and no others, and the calls do to the values found   *)
(* what ListSpec says they do.                                             *)
(***************************************************************************)
EXTENDS LinkedListHeap, Integers, SequenceTheorems, WellFoundedInduction,
        NaturalsInduction, TLAPS

Lists == INSTANCE LinkedListProofs

-------------------------------------------------------------------------------
(* Walking through nodes.                                                  *)

\* The addresses c found from h on, through the nodes n, k of them.
Walked(n, h, k, c) ==
  /\ c = [i \in 1 .. k |-> c[i]]
  /\ k > 0 => c[1] = h
  /\ \A i \in 2 .. k : c[i] = n[c[i - 1]].next

\* The same as a function that is defined by itself, as Chain is.
Fixed(n, h, k, c) == c = [i \in 1 .. k |-> IF i = 1 THEN h ELSE n[c[i - 1]].next]

Walk(n, h, k) ==
  LET walk[i \in 1 .. k] == IF i = 1 THEN h ELSE n[walk[i - 1]].next
  IN  walk

\* c is the k nodes of a list, in order: all of the nodes n, each once.
IsList(n, h, k, c) ==
  /\ k \in Nat
  /\ Walked(n, h, k, c)
  /\ \A i \in 1 .. k : c[i] \in DOMAIN n
  /\ \A i, j \in 1 .. k : c[i] = c[j] => i = j
  /\ \A a \in DOMAIN n : \E i \in 1 .. k : c[i] = a

\* Of the indices that share a property one is the first.
LEMMA LeastIndex ==
  ASSUME NEW S, S \subseteq Nat, S # {}
  PROVE  \E i \in S : \A j \in S : i <= j
<1> DEFINE Less == OpToRel(<, Nat)
<1>1. IsWellFoundedOn(Less, Nat)
  BY NatLessThanWellFounded
<1>2. PICK i \in S : \A j \in S : <<j, i>> \notin Less
  BY <1>1, WFMin
<1>3. Less = {p \in Nat \X Nat : p[1] < p[2]}
  BY DEF OpToRel
<1> HIDE DEF Less
<1>4. ASSUME NEW j \in S, ~(i <= j)
      PROVE  FALSE
  <2>1. i \in Nat /\ j \in Nat /\ j < i
    BY <1>4
  <2>2. <<j, i>> \in Less
    BY <1>3, <2>1
  <2> QED
    BY <1>2, <2>2
<1> QED
  BY <1>4

\* The steps of a walk.
LEMMA WalkedSteps ==
  ASSUME NEW n, NEW h, NEW k \in Nat, NEW c
  PROVE  Fixed(n, h, k, c) <=> Walked(n, h, k, c)
<1> DEFINE step(i) == IF i = 1 THEN h ELSE n[c[i - 1]].next
<1>1. ASSUME Fixed(n, h, k, c)
      PROVE  Walked(n, h, k, c)
  <2>1. c = [i \in 1 .. k |-> step(i)]
    BY <1>1 DEF Fixed
  <2>2. \A i \in 1 .. k : c[i] = step(i)
    <3> HIDE DEF step
    <3> QED
      BY <2>1
  <2>3. c = [i \in 1 .. k |-> c[i]]
    <3> HIDE DEF step
    <3> QED
      BY <2>1, <2>2
  <2>4. k > 0 => c[1] = h
    BY <2>2
  <2>5. ASSUME NEW i \in 2 .. k
        PROVE  c[i] = n[c[i - 1]].next
    <3>1. i \in 1 .. k /\ i # 1
      OBVIOUS
    <3> QED
      BY <2>2, <3>1
  <2> QED
    BY <2>3, <2>4, <2>5 DEF Walked
<1>2. ASSUME Walked(n, h, k, c)
      PROVE  Fixed(n, h, k, c)
  <2>0. /\ c = [i \in 1 .. k |-> c[i]]
        /\ k > 0 => c[1] = h
        /\ \A i \in 2 .. k : c[i] = n[c[i - 1]].next
    BY <1>2 DEF Walked
  <2>1. ASSUME NEW i \in 1 .. k
        PROVE  c[i] = step(i)
    <3>1. CASE i = 1
      BY <2>0, <3>1
    <3>2. CASE i # 1
      <4>1. i \in 2 .. k
        BY <3>2
      <4> QED
        BY <2>0, <3>2, <4>1
    <3> QED
      BY <3>1, <3>2
  <2>2. c = [i \in 1 .. k |-> step(i)]
    <3> HIDE DEF step
    <3> QED
      BY <2>0, <2>1
  <2> QED
    BY <2>2 DEF Fixed
<1> QED
  BY <1>1, <1>2

\* There is one walk only.
LEMMA WalkIs ==
  ASSUME NEW n, NEW h, NEW k \in Nat, NEW c, Walked(n, h, k, c)
  PROVE  Walk(n, h, k) = c
<1> DEFINE d == Walk(n, h, k)
<1>1. Walked(n, h, k, d)
  <2>0. Fixed(n, h, k, c)
    BY WalkedSteps
  <2>1. c = [i \in 1 .. k |-> IF i = 1 THEN h ELSE n[c[i - 1]].next]
    BY <2>0 DEF Fixed
  <2>2. Fixed(n, h, k, d)
    BY <2>1 DEF Walk, Fixed
  <2> HIDE DEF d
  <2> QED
    BY <2>2, WalkedSteps
<1> HIDE DEF d
<1>2. /\ c = [i \in 1 .. k |-> c[i]] /\ (k > 0 => c[1] = h)
      /\ \A i \in 2 .. k : c[i] = n[c[i - 1]].next
  BY DEF Walked
<1>3. /\ d = [i \in 1 .. k |-> d[i]] /\ (k > 0 => d[1] = h)
      /\ \A i \in 2 .. k : d[i] = n[d[i - 1]].next
  BY <1>1 DEF Walked
<1>4. \A i \in 1 .. k : d[i] = c[i]
  <2> DEFINE S == {i \in 1 .. k : d[i] # c[i]}
  <2>1. SUFFICES ASSUME S # {} PROVE FALSE
    OBVIOUS
  <2>2. PICK i \in S : \A j \in S : i <= j
    <3>1. S \subseteq Nat
      OBVIOUS
    <3> HIDE DEF S
    <3> QED
      BY <2>1, <3>1, LeastIndex
  <2>3. i \in 1 .. k /\ d[i] # c[i]
    OBVIOUS
  <2>4. i \in 2 .. k /\ i - 1 \in 1 .. k /\ ~(i <= i - 1)
    BY <1>2, <1>3, <2>3
  <2>5. d[i - 1] = c[i - 1]
    BY <2>2, <2>4
  <2> QED
    BY <1>2, <1>3, <2>3, <2>4, <2>5
<1>5. d = c
  BY <1>2, <1>3, <1>4
<1> QED
  BY <1>5 DEF d

-------------------------------------------------------------------------------
(* What the calls do to the nodes.                                         *)

\* The nodes c with a in front, with a behind, and without the one at i.
Preceded(k, c, a) == [i \in 1 .. k + 1 |-> IF i = 1 THEN a ELSE c[i - 1]]

Followed(k, c, a) == [i \in 1 .. k + 1 |-> IF i = k + 1 THEN a ELSE c[i]]

Closed(k, c, i) == [j \in 1 .. k - 1 |-> IF j < i THEN c[j] ELSE c[j + 1]]

\* A node before the first.
LEMMA PushFront ==
  ASSUME NEW n, NEW h, NEW k, NEW c, IsList(n, h, k, c), NEW a, a \notin DOMAIN n, NEW v,
         NEW m, m = Allocated(n, a, v, h),
         NEW d, d = Preceded(k, c, a)
  PROVE  /\ IsList(m, a, k + 1, d)
         /\ d[1] = a /\ \A i \in 1 .. k : d[i + 1] = c[i]
<1>1. /\ k \in Nat /\ (k > 0 => c[1] = h)
      /\ \A i \in 2 .. k : c[i] = n[c[i - 1]].next
      /\ \A i \in 1 .. k : c[i] \in DOMAIN n
      /\ \A i, j \in 1 .. k : c[i] = c[j] => i = j
      /\ \A b \in DOMAIN n : \E i \in 1 .. k : c[i] = b
  BY DEF IsList, Walked
<1>2. /\ DOMAIN m = DOMAIN n \cup {a} /\ m[a].next = h
      /\ \A b \in DOMAIN n : m[b] = n[b]
  <2> DEFINE A == Allocated(n, a, v, h)
  <2>0. /\ DOMAIN A = DOMAIN n \cup {a} /\ A[a].next = h
        /\ \A b \in DOMAIN n : b # a => A[b] = n[b]
    BY DEF Allocated
  <2>1. /\ DOMAIN m = DOMAIN n \cup {a} /\ m[a].next = h
        /\ \A b \in DOMAIN n : b # a => m[b] = n[b]
    <3>1. m = A
      OBVIOUS
    <3> HIDE DEF A
    <3> QED
      BY <2>0, <3>1
  <2>2. \A b \in DOMAIN n : b # a
    OBVIOUS
  <2> QED
    BY <2>1, <2>2
<1>3. /\ \A i \in 1 .. k + 1 : d[i] = IF i = 1 THEN a ELSE c[i - 1]
      /\ d = [i \in 1 .. k + 1 |-> d[i]]
  BY DEF Preceded
<1>4. d[1] = a /\ \A i \in 1 .. k : d[i + 1] = c[i]
  <2>1. 1 \in 1 .. k + 1
    BY <1>1
  <2>2. ASSUME NEW i \in 1 .. k
        PROVE  d[i + 1] = c[i]
    <3>1. i + 1 \in 1 .. k + 1 /\ i + 1 # 1 /\ (i + 1) - 1 = i
      BY <1>1
    <3> QED
      BY <1>3, <3>1
  <2> QED
    BY <1>3, <2>1, <2>2
<1>5. \A i \in 1 .. k + 1 : i = 1 \/ (i - 1 \in 1 .. k /\ d[i] = c[i - 1])
  BY <1>1, <1>3
<1>6. Walked(m, a, k + 1, d)
  <2>1. ASSUME NEW i \in 2 .. k + 1
        PROVE  d[i] = m[d[i - 1]].next
    <3>1. CASE i = 2
      <4>1. d[2] = c[1] /\ c[1] = h
        BY <1>1, <1>5, <3>1
      <4> QED
        BY <1>2, <1>4, <3>1, <4>1
    <3>2. CASE i # 2
      <4>1. i - 1 \in 2 .. k /\ i - 1 \in 1 .. k + 1 /\ i \in 1 .. k + 1 /\ (i - 1) - 1 \in 1 .. k
        BY <1>1, <3>2
      <4>2. d[i] = c[i - 1] /\ d[i - 1] = c[(i - 1) - 1]
        BY <1>3, <4>1
      <4> QED
        BY <1>1, <1>2, <4>1, <4>2
    <3> QED
      BY <3>1, <3>2
  <2> QED
    BY <1>3, <1>4, <2>1 DEF Walked
<1>7. \A i \in 1 .. k + 1 : d[i] \in DOMAIN m
  BY <1>1, <1>2, <1>4, <1>5
<1>8. ASSUME NEW i \in 1 .. k + 1, NEW j \in 1 .. k + 1, d[i] = d[j]
      PROVE  i = j
  <2>1. CASE i = 1 /\ j = 1
    BY <2>1
  <2>2. CASE i # 1 /\ j # 1
    <3>1. i - 1 \in 1 .. k /\ j - 1 \in 1 .. k /\ c[i - 1] = c[j - 1]
      BY <1>5, <1>8, <2>2
    <3>2. i - 1 = j - 1
      BY <1>1, <3>1
    <3> QED
      BY <1>1, <3>2
  <2>3. CASE i = 1 /\ j # 1
    BY <1>1, <1>4, <1>5, <1>8, <2>3
  <2>4. CASE i # 1 /\ j = 1
    BY <1>1, <1>4, <1>5, <1>8, <2>4
  <2> QED
    BY <2>1, <2>2, <2>3, <2>4
<1>9. ASSUME NEW b \in DOMAIN m
      PROVE  \E i \in 1 .. k + 1 : d[i] = b
  <2>1. CASE b = a
    <3>1. 1 \in 1 .. k + 1
      BY <1>1
    <3> QED
      BY <1>4, <2>1, <3>1
  <2>2. CASE b # a
    <3>1. PICK i \in 1 .. k : c[i] = b
      BY <1>1, <1>2, <2>2
    <3>2. i + 1 \in 1 .. k + 1
      BY <1>1
    <3> QED
      BY <1>4, <3>1, <3>2
  <2> QED
    BY <2>1, <2>2
<1>10. IsList(m, a, k + 1, d)
  BY <1>1, <1>6, <1>7, <1>8, <1>9 DEF IsList
<1> QED
  BY <1>4, <1>10
\* The nodes m are n and a, which p points at.
Hung(n, m, p, a) ==
  /\ DOMAIN m = DOMAIN n \cup {a}
  /\ m[p].next = a
  /\ \A b \in DOMAIN n : b # p => m[b].next = n[b].next

\* A node behind the last, which points at it.
LEMMA PushBack ==
  ASSUME NEW n, NEW h, NEW k, NEW c, IsList(n, h, k, c), k > 0,
         NEW a, a \notin DOMAIN n, NEW m, Hung(n, m, c[k], a),
         NEW d, d = Followed(k, c, a)
  PROVE  /\ IsList(m, h, k + 1, d)
         /\ d[k + 1] = a /\ \A i \in 1 .. k : d[i] = c[i]
<1>1. /\ k \in Nat /\ (k > 0 => c[1] = h)
      /\ \A i \in 2 .. k : c[i] = n[c[i - 1]].next
      /\ \A i \in 1 .. k : c[i] \in DOMAIN n
      /\ \A i, j \in 1 .. k : c[i] = c[j] => i = j
      /\ \A b \in DOMAIN n : \E i \in 1 .. k : c[i] = b
  BY DEF IsList, Walked
<1>0. /\ DOMAIN m = DOMAIN n \cup {a} /\ m[c[k]].next = a
      /\ \A b \in DOMAIN n : b # c[k] => m[b].next = n[b].next
  BY DEF Hung
<1>2. k \in Nat /\ k \in 1 .. k /\ k + 1 \in 1 .. k + 1 /\ 1 \in 1 .. k /\ k + 1 \in Nat
  BY <1>1
<1>3. /\ d[k + 1] = a /\ \A i \in 1 .. k : d[i] = c[i]
      /\ d = [i \in 1 .. k + 1 |-> d[i]]
  <2>1. /\ \A i \in 1 .. k + 1 : d[i] = IF i = k + 1 THEN a ELSE c[i]
        /\ d = [i \in 1 .. k + 1 |-> d[i]]
    BY DEF Followed
  <2>2. \A i \in 1 .. k : i \in 1 .. k + 1 /\ i # k + 1
    BY <1>1
  <2> QED
    BY <1>2, <2>1, <2>2
<1>4. Walked(m, h, k + 1, d)
  <2>1. ASSUME NEW i \in 2 .. k + 1
        PROVE  d[i] = m[d[i - 1]].next
    <3>1. i - 1 \in 1 .. k
      BY <1>1
    <3>2. d[i - 1] = c[i - 1] /\ c[i - 1] \in DOMAIN n
      BY <1>1, <1>3, <3>1
    <3>3. CASE i = k + 1
      <4>1. i - 1 = k
        BY <1>1, <3>3
      <4>2. d[i - 1] = c[k]
        BY <3>2, <4>1
      <4>3. d[i] = a
        BY <1>3, <3>3
      <4> QED
        BY <1>0, <4>2, <4>3
    <3>4. CASE i # k + 1
      <4>1. i \in 2 .. k /\ i \in 1 .. k /\ i - 1 # k
        BY <1>1, <3>4
      <4>2. c[i - 1] # c[k]
        BY <1>1, <1>2, <3>1, <4>1
      <4>3. d[i] = c[i] /\ c[i] = n[c[i - 1]].next
        BY <1>1, <1>3, <4>1
      <4>4. m[c[i - 1]].next = n[c[i - 1]].next
        BY <1>0, <3>2, <4>2
      <4> QED
        BY <3>2, <4>3, <4>4
    <3> QED
      BY <3>3, <3>4
  <2>2. d[1] = h
    BY <1>1, <1>2, <1>3
  <2> QED
    BY <1>3, <2>1, <2>2 DEF Walked
<1>5. \A i \in 1 .. k + 1 : i = k + 1 \/ (i \in 1 .. k /\ d[i] = c[i])
  <2>1. \A i \in 1 .. k + 1 : i = k + 1 \/ i \in 1 .. k
    BY <1>2
  <2> QED
    BY <1>3, <2>1
<1>6. \A i \in 1 .. k + 1 : d[i] \in DOMAIN m
  BY <1>0, <1>1, <1>3, <1>5
<1>7. ASSUME NEW i \in 1 .. k + 1, NEW j \in 1 .. k + 1, d[i] = d[j]
      PROVE  i = j
  <2>1. CASE i = k + 1 /\ j = k + 1
    BY <2>1
  <2>2. CASE i # k + 1 /\ j # k + 1
    <3>1. i \in 1 .. k /\ j \in 1 .. k /\ c[i] = c[j]
      BY <1>5, <1>7, <2>2
    <3> QED
      BY <1>1, <3>1
  <2>3. CASE i # k + 1 /\ j = k + 1
    <3>1. i \in 1 .. k /\ c[i] = a
      BY <1>3, <1>5, <1>7, <2>3
    <3> QED
      BY <1>1, <3>1
  <2>4. CASE i = k + 1 /\ j # k + 1
    <3>1. j \in 1 .. k /\ c[j] = a
      BY <1>3, <1>5, <1>7, <2>4
    <3> QED
      BY <1>1, <3>1
  <2> QED
    BY <2>1, <2>2, <2>3, <2>4
<1>8. ASSUME NEW b \in DOMAIN m
      PROVE  \E i \in 1 .. k + 1 : d[i] = b
  <2>1. CASE b = a
    BY <1>2, <1>3, <2>1
  <2>2. CASE b # a
    <3>1. PICK i \in 1 .. k : c[i] = b
      BY <1>0, <1>1, <2>2
    <3>2. i \in 1 .. k + 1
      BY <1>1
    <3> QED
      BY <1>3, <3>1, <3>2
  <2> QED
    BY <2>1, <2>2
<1>9. IsList(m, h, k + 1, d)
  BY <1>2, <1>4, <1>6, <1>7, <1>8 DEF IsList
<1> QED
  BY <1>3, <1>9

\* The nodes m are n without c[i], which c[i - 1] skips; where the last node
\* points does not matter.
Cut(n, m, k, c, i) ==
  /\ DOMAIN m = DOMAIN n \ {c[i]}
  /\ \A j \in 1 .. k : j # i /\ j # i - 1 => m[c[j]].next = n[c[j]].next
  /\ i > 1 /\ i < k => m[c[i - 1]].next = n[c[i]].next

\* The node at i goes.
LEMMA RemoveAt ==
  ASSUME NEW n, NEW h, NEW k, NEW c, IsList(n, h, k, c), NEW i \in 1 .. k,
         NEW m, Cut(n, m, k, c, i),
         NEW g, k > 1 => g = IF i = 1 THEN n[h].next ELSE h,
         NEW d, d = Closed(k, c, i)
  PROVE  /\ IsList(m, g, k - 1, d)
         /\ \A j \in 1 .. k - 1 : d[j] = IF j < i THEN c[j] ELSE c[j + 1]
<1>1. /\ k \in Nat /\ (k > 0 => c[1] = h)
      /\ \A j \in 2 .. k : c[j] = n[c[j - 1]].next
      /\ \A j \in 1 .. k : c[j] \in DOMAIN n
      /\ \A j, l \in 1 .. k : c[j] = c[l] => j = l
      /\ \A b \in DOMAIN n : \E j \in 1 .. k : c[j] = b
  BY DEF IsList, Walked
<1>0. /\ DOMAIN m = DOMAIN n \ {c[i]}
      /\ \A j \in 1 .. k : j # i /\ j # i - 1 => m[c[j]].next = n[c[j]].next
      /\ i > 1 /\ i < k => m[c[i - 1]].next = n[c[i]].next
  BY DEF Cut
<1>2. /\ \A j \in 1 .. k - 1 : d[j] = IF j < i THEN c[j] ELSE c[j + 1]
      /\ d = [j \in 1 .. k - 1 |-> d[j]]
  BY DEF Closed
<1>3. k \in Nat /\ k - 1 \in Nat /\ i \in Nat /\ 1 <= i /\ i <= k
  BY <1>1
<1>4. ASSUME NEW j \in 1 .. k - 1
      PROVE  /\ j < i => j \in 1 .. k /\ d[j] = c[j]
             /\ ~(j < i) => j + 1 \in 1 .. k /\ d[j] = c[j + 1] /\ j + 1 # i
  <2>1. j \in 1 .. k /\ j + 1 \in 1 .. k
    BY <1>1
  <2>2. ~(j < i) => j + 1 # i
    BY <1>3
  <2> QED
    BY <1>2, <2>1, <2>2
<1>5. Walked(m, g, k - 1, d)
  <2>1. ASSUME NEW j \in 2 .. k - 1
        PROVE  d[j] = m[d[j - 1]].next
    <3>1. /\ j - 1 \in 1 .. k - 1 /\ j \in 1 .. k - 1
          /\ j \in 2 .. k /\ j - 1 \in 1 .. k /\ j + 1 \in 2 .. k
          /\ (j + 1) - 1 = j /\ (j - 1) + 1 = j
      BY <1>3
    <3>2. CASE j < i
      <4>1. j - 1 < i /\ j - 1 # i /\ j - 1 # i - 1
        BY <1>3, <3>1, <3>2
      <4>2. d[j] = c[j] /\ d[j - 1] = c[j - 1]
        BY <1>4, <3>1, <3>2, <4>1
      <4>3. m[c[j - 1]].next = n[c[j - 1]].next
        BY <1>0, <3>1, <4>1
      <4> QED
        BY <1>1, <3>1, <4>2, <4>3
    <3>3. CASE j = i
      <4>1. j - 1 < i /\ ~(j < i) /\ i > 1 /\ i < k
        BY <1>3, <3>1, <3>3
      <4>2. d[j] = c[j + 1] /\ d[j - 1] = c[j - 1]
        BY <1>4, <3>1, <4>1
      <4>3. m[c[j - 1]].next = n[c[j]].next
        BY <1>0, <3>3, <4>1
      <4>4. c[j + 1] = n[c[(j + 1) - 1]].next
        BY <1>1, <3>1
      <4> QED
        BY <3>1, <4>2, <4>3, <4>4
    <3>4. CASE j > i
      <4>1. ~(j - 1 < i) /\ ~(j < i) /\ j # i /\ j # i - 1
        BY <1>3, <3>1, <3>4
      <4>2. d[j] = c[j + 1] /\ d[j - 1] = c[(j - 1) + 1]
        BY <1>4, <3>1, <4>1
      <4>3. j \in 1 .. k
        BY <3>1
      <4>4. m[c[j]].next = n[c[j]].next
        BY <1>0, <4>1, <4>3
      <4>5. c[j + 1] = n[c[(j + 1) - 1]].next
        BY <1>1, <3>1
      <4> QED
        BY <3>1, <4>2, <4>4, <4>5
    <3> QED
      BY <1>3, <3>1, <3>2, <3>3, <3>4
  <2>2. ASSUME k - 1 > 0
        PROVE  d[1] = g
    <3>1. 1 \in 1 .. k - 1 /\ k > 1 /\ 2 \in 2 .. k
      BY <1>3, <2>2
    <3>2. CASE i = 1
      <4>1. ~(1 < i) /\ 1 + 1 = 2 /\ 2 - 1 = 1
        BY <3>2
      <4>2. d[1] = c[2]
        BY <1>2, <3>1, <4>1
      <4>3. c[2] = n[c[2 - 1]].next
        BY <1>1, <3>1
      <4> QED
        BY <1>1, <3>1, <3>2, <4>1, <4>2, <4>3
    <3>3. CASE i # 1
      <4>1. 1 < i /\ k > 0
        BY <1>3, <3>3
      <4>2. d[1] = c[1]
        BY <1>2, <3>1, <4>1
      <4>3. c[1] = h
        BY <1>1, <4>1
      <4> QED
        BY <3>1, <3>3, <4>2, <4>3
    <3> QED
      BY <3>2, <3>3
  <2> QED
    BY <1>2, <2>1, <2>2 DEF Walked
<1>6. ASSUME NEW j \in 1 .. k - 1
      PROVE  d[j] \in DOMAIN m
  <2>1. CASE j < i
    <3>1. j \in 1 .. k /\ d[j] = c[j] /\ j # i
      BY <1>3, <1>4, <2>1
    <3> QED
      BY <1>0, <1>1, <3>1
  <2>2. CASE ~(j < i)
    BY <1>0, <1>1, <1>4, <2>2
  <2> QED
    BY <2>1, <2>2
<1>7. ASSUME NEW j \in 1 .. k - 1, NEW l \in 1 .. k - 1, d[j] = d[l]
      PROVE  j = l
  <2> DEFINE s(x) == IF x < i THEN x ELSE x + 1
  <2>1. /\ s(j) \in 1 .. k /\ d[j] = c[s(j)]
        /\ s(l) \in 1 .. k /\ d[l] = c[s(l)]
    BY <1>4
  <2>2. s(j) = s(l)
    <3> HIDE DEF s
    <3> QED
      BY <1>1, <1>7, <2>1
  <2> QED
    BY <1>3, <2>2
<1>8. ASSUME NEW b \in DOMAIN m
      PROVE  \E j \in 1 .. k - 1 : d[j] = b
  <2>1. PICK j \in 1 .. k : c[j] = b
    BY <1>0, <1>1
  <2>2. j # i
    BY <1>0, <2>1
  <2>3. CASE j < i
    <3>1. j \in 1 .. k - 1
      BY <1>3, <2>3
    <3> QED
      BY <1>4, <2>1, <2>3, <3>1
  <2>4. CASE j > i
    <3>1. j - 1 \in 1 .. k - 1 /\ ~(j - 1 < i) /\ (j - 1) + 1 = j
      BY <1>3, <2>4
    <3>2. d[j - 1] = c[(j - 1) + 1]
      BY <1>4, <3>1
    <3> QED
      BY <2>1, <3>1, <3>2
  <2> QED
    BY <1>3, <2>2, <2>3, <2>4
<1>9. IsList(m, g, k - 1, d)
  BY <1>3, <1>5, <1>6, <1>7, <1>8 DEF IsList
<1> QED
  BY <1>2, <1>9
\* The nodes n, of which p points at x.
Linked(n, p, x) == [n EXCEPT ![p].next = x]

\* The nodes n hold values of V and point into X.
Nodes(n, V, X) == \A b \in DOMAIN n : n[b] \in [value : V, next : X]

\* A node in front of the others: which nodes there are, and what they hold.
LEMMA InFront ==
  ASSUME NEW n, NEW V, NEW X, Nodes(n, V, X),
         NEW a, a \notin DOMAIN n, NEW v \in V, NEW x \in X,
         NEW m, m = Allocated(n, a, v, x)
  PROVE  /\ DOMAIN m = DOMAIN n \cup {a}
         /\ Nodes(m, V, X)
         /\ m[a].value = v /\ m[a].next = x
         /\ \A b \in DOMAIN n : m[b] = n[b]
<1> DEFINE Node == [value : V, next : X]
           r == [value |-> v, next |-> x]
<1>1. r \in Node /\ r.value = v /\ r.next = x
  OBVIOUS
<1>2. \A b \in DOMAIN n : n[b] \in Node
  BY DEF Nodes
<1>3. m = [b \in DOMAIN n \cup {a} |-> IF b = a THEN r ELSE n[b]]
  BY DEF Allocated
<1> HIDE DEF r, Node
<1>4. /\ DOMAIN m = DOMAIN n \cup {a} /\ m[a] = r
      /\ \A b \in DOMAIN n : m[b] = n[b]
  BY <1>3
<1>5. \A b \in DOMAIN m : m[b] \in Node
  BY <1>1, <1>2, <1>4
<1> QED
  BY <1>1, <1>4, <1>5 DEF Nodes, Node

\* The nodes m are n and a, and p points at a.
Grown(n, m, p, a, v, x) ==
  /\ DOMAIN m = DOMAIN n \cup {a}
  /\ m[a].value = v /\ m[a].next = x /\ m[p].next = a
  /\ \A b \in DOMAIN n : m[b].value = n[b].value /\ (b # p => m[b] = n[b])

\* A node behind p.
LEMMA Behind ==
  ASSUME NEW n, NEW V, NEW X, Nodes(n, V, X),
         NEW p \in DOMAIN n, NEW a \in X, a \notin DOMAIN n, NEW v \in V, NEW x \in X,
         NEW m, m = Allocated(Linked(n, p, a), a, v, x)
  PROVE  Nodes(m, V, X) /\ Grown(n, m, p, a, v, x)
<1> DEFINE e == [n EXCEPT ![p].next = a]
           r == [n[p] EXCEPT !.next = a]
           Node == [value : V, next : X]
<1>1. r \in Node /\ r.next = a /\ r.value = n[p].value
  BY DEF Nodes
<1>2. \A b \in DOMAIN n : n[b] \in Node
  BY DEF Nodes
<1>3. DOMAIN e = DOMAIN n /\ e[p] = r /\ \A b \in DOMAIN n : b # p => e[b] = n[b]
  OBVIOUS
<1>4. m = Allocated(e, a, v, x)
  BY DEF Linked
<1> HIDE DEF r, e, Node
<1>5. \A b \in DOMAIN e : e[b] \in Node /\ e[b].value = n[b].value
  BY <1>1, <1>2, <1>3
<1>6. a \notin DOMAIN e
  BY <1>3
<1>7. /\ DOMAIN m = DOMAIN e \cup {a}
      /\ \A b \in DOMAIN m : m[b] \in Node
      /\ m[a].value = v /\ m[a].next = x
      /\ \A b \in DOMAIN e : m[b] = e[b]
  <2> DEFINE q == [value |-> v, next |-> x]
  <2>1. q \in Node /\ q.value = v /\ q.next = x
    BY DEF Node
  <2>2. m = [b \in DOMAIN e \cup {a} |-> IF b = a THEN q ELSE e[b]]
    BY <1>4 DEF Allocated
  <2> HIDE DEF q
  <2>3. /\ DOMAIN m = DOMAIN e \cup {a} /\ m[a] = q
        /\ \A b \in DOMAIN e : m[b] = e[b]
    BY <1>6, <2>2
  <2> QED
    BY <1>5, <2>1, <2>3
<1>8. m[p].next = a
  BY <1>1, <1>3, <1>7
<1>9. \A b \in DOMAIN n : m[b].value = n[b].value /\ (b # p => m[b] = n[b])
  BY <1>3, <1>5, <1>7
<1> QED
  BY <1>3, <1>7, <1>8, <1>9 DEF Nodes, Node, Grown

\* The nodes m are n without q, and p points at x.
Shrunk(n, m, p, q, x) ==
  /\ DOMAIN m = DOMAIN n \ {q}
  /\ m[p].next = x
  /\ \A b \in DOMAIN m : m[b].value = n[b].value /\ (b # p => m[b] = n[b])

\* The node at q goes, and p skips it.
LEMMA Gone ==
  ASSUME NEW n, NEW V, NEW X, Nodes(n, V, X),
         NEW p \in DOMAIN n, NEW q \in DOMAIN n, p # q, NEW x \in X,
         NEW m, m = Freed(Linked(n, p, x), q)
  PROVE  Nodes(m, V, X) /\ Shrunk(n, m, p, q, x)
<1> DEFINE e == [n EXCEPT ![p].next = x]
           r == [n[p] EXCEPT !.next = x]
           Node == [value : V, next : X]
<1>1. r \in Node /\ r.next = x /\ r.value = n[p].value
  BY DEF Nodes
<1>2. \A b \in DOMAIN n : n[b] \in Node
  BY DEF Nodes
<1>3. DOMAIN e = DOMAIN n /\ e[p] = r /\ \A b \in DOMAIN n : b # p => e[b] = n[b]
  OBVIOUS
<1>4. m = Freed(e, q)
  BY DEF Linked
<1> HIDE DEF r, e, Node
<1>5. \A b \in DOMAIN e : e[b] \in Node /\ e[b].value = n[b].value
  BY <1>1, <1>2, <1>3
<1>6. DOMAIN m = DOMAIN n \ {q} /\ \A b \in DOMAIN m : m[b] = e[b]
  BY <1>3, <1>4 DEF Freed
<1>7. m[p].next = x
  BY <1>1, <1>3, <1>6
<1>8. \A b \in DOMAIN m : m[b] \in Node /\ m[b].value = n[b].value /\ (b # p => m[b] = n[b])
  BY <1>3, <1>5, <1>6
<1> QED
  BY <1>6, <1>7, <1>8 DEF Nodes, Node, Shrunk

-------------------------------------------------------------------------------
(* The values found.                                                       *)

\* What the k nodes c hold.
Found(n, k, c) == [i \in 1 .. k |-> n[c[i]].value]

\* They are a sequence of values.
LEMMA FoundIs ==
  ASSUME NEW n, NEW h, NEW k, NEW c, IsList(n, h, k, c),
         NEW V, \A b \in DOMAIN n : n[b].value \in V
  PROVE  /\ Found(n, k, c) \in Seq(V)
         /\ Len(Found(n, k, c)) = k
         /\ \A i \in 1 .. k : Found(n, k, c)[i] = n[c[i]].value
<1>1. k \in Nat /\ \A i \in 1 .. k : c[i] \in DOMAIN n
  BY DEF IsList
<1>2. \A i \in 1 .. k : n[c[i]].value \in V
  BY <1>1
<1> DEFINE f(i) == n[c[i]].value
<1>3. Found(n, k, c) = [i \in 1 .. k |-> f(i)]
  BY DEF Found
<1> HIDE DEF f
<1>4. [i \in 1 .. k |-> f(i)] \in Seq(V)
  BY <1>1, <1>2 DEF f
<1>5. Len([i \in 1 .. k |-> f(i)]) = k
  BY <1>1
<1>6. \A i \in 1 .. k : [j \in 1 .. k |-> f(j)][i] = f(i)
  OBVIOUS
<1> QED
  BY <1>3, <1>4, <1>5, <1>6 DEF f

\* One value more in front.
LEMMA FoundInFront ==
  ASSUME NEW s, NEW k \in Nat, NEW V, s \in Seq(V), Len(s) = k, NEW v \in V,
         NEW t, t \in Seq(V), Len(t) = k + 1, t[1] = v,
         \A i \in 1 .. k : t[i + 1] = s[i]
  PROVE  t = << v >> \o s
<1> DEFINE u == << v >> \o s
<1>1. /\ u \in Seq(V) /\ Len(u) = k + 1
      /\ u[1] = v /\ \A i \in 2 .. k + 1 : u[i] = s[i - 1]
  <2>1. << v >> \in Seq(V) /\ Len(<< v >>) = 1 /\ << v >>[1] = v
    OBVIOUS
  <2>2. /\ u \in Seq(V) /\ Len(u) = 1 + k
        /\ \A i \in 1 .. 1 + k : u[i] = IF i <= 1 THEN << v >>[i] ELSE s[i - 1]
    <3> HIDE DEF u
    <3>1. u = << v >> \o s
      BY DEF u
    <3> QED
      BY <2>1, <3>1, ConcatProperties
  <2> HIDE DEF u
  <2>3. 1 \in 1 .. 1 + k /\ 1 + k = k + 1
    OBVIOUS
  <2>4. u[1] = v
    BY <2>1, <2>2, <2>3
  <2>5. ASSUME NEW i \in 2 .. k + 1
        PROVE  u[i] = s[i - 1]
    <3>1. i \in 1 .. 1 + k /\ ~(i <= 1)
      OBVIOUS
    <3> QED
      BY <2>2, <3>1
  <2> QED
    BY <2>2, <2>3, <2>4, <2>5
<1> HIDE DEF u
<1>2. ASSUME NEW i \in 1 .. k + 1
      PROVE  t[i] = u[i]
  <2>1. CASE i = 1
    BY <1>1, <2>1
  <2>2. CASE i # 1
    <3>1. i \in 2 .. k + 1 /\ i - 1 \in 1 .. k /\ (i - 1) + 1 = i
      BY <2>2
    <3> QED
      BY <1>1, <3>1
  <2> QED
    BY <2>1, <2>2
<1>3. t = u
  BY <1>1, <1>2, SeqEqual
<1> QED
  BY <1>3 DEF u

\* One value more at the end.
LEMMA FoundBehind ==
  ASSUME NEW s, NEW k \in Nat, NEW V, s \in Seq(V), Len(s) = k, NEW v \in V,
         NEW t, t \in Seq(V), Len(t) = k + 1, t[k + 1] = v,
         \A i \in 1 .. k : t[i] = s[i]
  PROVE  t = Append(s, v)
<1>1. /\ Append(s, v) \in Seq(V) /\ Len(Append(s, v)) = k + 1
      /\ \A i \in 1 .. k : Append(s, v)[i] = s[i]
      /\ Append(s, v)[k + 1] = v
  BY AppendProperties
<1>2. ASSUME NEW i \in 1 .. k + 1
      PROVE  t[i] = Append(s, v)[i]
  <2>1. i = k + 1 \/ i \in 1 .. k
    OBVIOUS
  <2> QED
    BY <1>1, <2>1
<1> QED
  BY <1>1, <1>2, SeqEqual

\* The value at i gone.
LEMMA FoundWithout ==
  ASSUME NEW s, NEW k \in Nat, NEW V, s \in Seq(V), Len(s) = k, NEW i \in 1 .. k,
         NEW t, t \in Seq(V), Len(t) = k - 1,
         \A j \in 1 .. k - 1 : t[j] = IF j < i THEN s[j] ELSE s[j + 1]
  PROVE  t = Lists!Without(s, i)
<1> DEFINE u == Lists!Without(s, i)
<1>1. /\ u \in Seq(V) /\ Len(u) = k - 1
      /\ \A j \in 1 .. k - 1 : u[j] = IF j < i THEN s[j] ELSE s[j + 1]
  BY Lists!WithoutProperties
<1> HIDE DEF u
<1>2. \A j \in 1 .. Len(t) : t[j] = u[j]
  BY <1>1
<1>3. t = u
  BY <1>1, <1>2, SeqEqual
<1> QED
  BY <1>3 DEF u

\* Without the first value only the others are left, in their order.
LEMMA WithoutFirst ==
  ASSUME NEW V, NEW s \in Seq(V), s # << >>
  PROVE  Lists!Without(s, 1) = Tail(s)
<1>1. 1 \in 1 .. Len(s) /\ Len(s) \in Nat
  BY EmptySeq
<1>2. Tail(s) \in Seq(V) /\ Len(Tail(s)) = Len(s) - 1
      /\ \A j \in 1 .. Len(s) - 1 : Tail(s)[j] = s[j + 1]
  BY HeadTailProperties
<1>3. \A j \in 1 .. Len(s) - 1 : Tail(s)[j] = IF j < 1 THEN s[j] ELSE s[j + 1]
  BY <1>2
<1> QED
  BY <1>1, <1>2, <1>3, FoundWithout

\* The same at the other end.
LEMMA WithoutLast ==
  ASSUME NEW V, NEW s \in Seq(V), s # << >>
  PROVE  Lists!Without(s, Len(s)) = SubSeq(s, 1, Len(s) - 1)
<1> DEFINE t == SubSeq(s, 1, Len(s) - 1)
<1>1. Len(s) \in 1 .. Len(s) /\ Len(s) \in Nat /\ Len(s) - 1 \in Nat
  BY EmptySeq
<1>2. t \in Seq(V) /\ Len(t) = Len(s) - 1 /\ \A j \in 1 .. Len(s) - 1 : t[j] = s[j]
  <2>1. \A j \in 1 .. Len(s) - 1 : j \in 1 .. Len(s)
    BY <1>1
  <2>2. \A j \in 1 .. Len(s) - 1 : s[j] \in V
    BY <2>1, ElementOfSeq
  <2> DEFINE e == Len(s) - 1
  <2>3. e \in Nat /\ e \in Int /\ 1 \in Int /\ \A j \in 1 .. e : s[j] \in V
    BY <1>1, <2>2
  <2> HIDE DEF e
  <2>4. /\ SubSeq(s, 1, e) \in Seq(V)
        /\ Len(SubSeq(s, 1, e)) = IF 1 <= e THEN (e - 1) + 1 ELSE 0
        /\ \A j \in 1 .. (e - 1) + 1 : SubSeq(s, 1, e)[j] = s[(1 + j) - 1]
    BY <2>3, SubSeqProperties
  <2>5. Len(SubSeq(s, 1, e)) = e /\ \A j \in 1 .. e : SubSeq(s, 1, e)[j] = s[j]
    BY <2>3, <2>4
  <2>6. e = Len(s) - 1 /\ t = SubSeq(s, 1, e)
    BY DEF e
  <2> QED
    BY <2>4, <2>5, <2>6
<1> HIDE DEF t
<1>3. \A j \in 1 .. Len(s) - 1 : t[j] = IF j < Len(s) THEN s[j] ELSE s[j + 1]
  BY <1>1, <1>2
<1>4. Lists!Without(s, Len(s)) = t
  BY <1>1, <1>2, <1>3, FoundWithout
<1> QED
  BY <1>4 DEF t
-------------------------------------------------------------------------------
(* The invariant.                                                          *)

\* The pointers agree with the nodes c: the list is empty when head and tail
\* say so, and between two calls the last node points nowhere.
Shape(n, h, t, k, p, c) ==
  /\ IsList(n, h, k, c)
  /\ (k = 0) = (h = NULL)
  /\ (k = 0) = (t = NULL)
  /\ p = "ready" /\ k > 0 => n[c[k]].next = NULL
  /\ p = "emptying" => k > 0

HeapInv ==
  /\ TypeOK
  /\ Shape(node, head, tail, count, pc, Chain)
  /\ TailFollows

\* Whatever is found by walking is the chain.
LEMMA ChainIs ==
  ASSUME NEW c, IsList(node, head, count, c)
  PROVE  Chain = c
<1>1. Chain = Walk(node, head, count)
  BY DEF Chain, Walk
<1> QED
  BY <1>1, WalkIs DEF IsList

\* The same after a step.
LEMMA ChainBecomes ==
  ASSUME NEW c, IsList(node', head', count', c)
  PROVE  Chain' = c
<1>1. Chain' = Walk(node', head', count')
  BY DEF Chain, Walk
<1> QED
  BY <1>1, WalkIs DEF IsList

\* A call that leaves the list alone leaves everything found alone.
LEMMA SameList ==
  ASSUME UNCHANGED list
  PROVE  Chain' = Chain /\ Held' = Held /\ TailIsLast' = TailIsLast
<1>1. node' = node /\ head' = head /\ tail' = tail /\ count' = count
  BY DEF list
<1>2. Chain' = Chain
  BY <1>1 DEF Chain
<1>3. Held' = Held
  BY <1>1, <1>2 DEF Held
<1> QED
  BY <1>1, <1>2, <1>3 DEF TailIsLast

\* The nodes hold values.
LEMMA HeldIs ==
  ASSUME HeapInv
  PROVE  /\ Held = Found(node, count, Chain)
         /\ Held \in Seq(Value) /\ Len(Held) = count /\ count \in Nat
         /\ \A i \in 1 .. count : Held[i] = node[Chain[i]].value
<1>1. IsList(node, head, count, Chain) /\ \A a \in DOMAIN node : node[a].value \in Value
  BY DEF HeapInv, Shape, TypeOK
<1>2. Held = Found(node, count, Chain)
  BY DEF Held, Found
<1> DEFINE f == Found(node, count, Chain)
<1>3. f \in Seq(Value) /\ Len(f) = count /\ \A i \in 1 .. count : f[i] = node[Chain[i]].value
  BY <1>1, FoundIs
<1> HIDE DEF f
<1>4. Held = f
  BY <1>2 DEF f
<1> QED
  BY <1>1, <1>2, <1>3, <1>4 DEF IsList

\* The first node that holds v, as the calls find it.
LEMMA IndexIs ==
  ASSUME HeapInv, NEW v \in Range(Held)
  PROVE  /\ Index(v) \in 1 .. count
         /\ Held[Index(v)] = v
         /\ \A j \in 1 .. Index(v) - 1 : Held[j] # v
<1> DEFINE S == {i \in 1 .. count : Held[i] = v}
<1>1. count \in Nat /\ DOMAIN Held = 1 .. count
  BY HeldIs DEF Held
<1>2. S # {} /\ S \subseteq Nat
  BY <1>1 DEF Range
<1>3. PICK i \in S : \A j \in S : i <= j
  <2> HIDE DEF S
  <2> QED
    BY <1>2, LeastIndex
<1>4. i \in 1 .. count /\ Held[i] = v /\ \A j \in 1 .. i - 1 : Held[j] # v
  <2>1. i \in 1 .. count /\ Held[i] = v
    OBVIOUS
  <2>2. ASSUME NEW j \in 1 .. i - 1, Held[j] = v
        PROVE  FALSE
    <3>1. j \in 1 .. count /\ ~(i <= j)
      BY <1>1, <2>1
    <3> QED
      BY <1>3, <2>2, <3>1
  <2> QED
    BY <2>1, <2>2
<1> QED
  BY <1>4 DEF Index

-------------------------------------------------------------------------------
(* The calls: the invariant, and what becomes of the values and of tail.   *)

\* A new list is empty.
LEMMA InitInv ==
  ASSUME Init
  PROVE  HeapInv /\ Held = << >> /\ TailIsLast
<1> USE DEF Init
<1>1. TypeOK
  BY DEF TypeOK, Uses
<1>2. Shape(node, head, tail, count, pc, Chain)
  <2>1. IsList(node, head, count, [i \in 1 .. 0 |-> NULL])
    BY DEF IsList, Walked
  <2>2. Chain = [i \in 1 .. 0 |-> NULL]
    BY <2>1, ChainIs
  <2> QED
    BY <2>1, <2>2 DEF Shape
<1>3. TailIsLast
  BY DEF TailIsLast
<1>4. Held = << >>
  BY DEF Held
<1> QED
  BY <1>1, <1>2, <1>3, <1>4 DEF HeapInv, TailFollows

\* A call that follows a wrong tail breaks the heap.
LEMMA CorruptsInv ==
  ASSUME HeapInv, ~TailIsLast, Corrupts
  PROVE  /\ HeapInv'
         /\ Held' = Held /\ ~TailIsLast' /\ heap' = "corrupt"
<1>1. /\ heap' = "corrupt" /\ kind' = kind /\ pc' = pc /\ UNCHANGED list
      /\ node' = node /\ head' = head /\ tail' = tail /\ count' = count
  BY DEF Corrupts, list
<1>2. Chain' = Chain /\ Held' = Held /\ TailIsLast' = TailIsLast
  BY <1>1, SameList
<1>3. TypeOK'
  BY <1>1 DEF HeapInv, TypeOK
<1>4. Shape(node, head, tail, count, pc, Chain)'
  BY <1>1, <1>2 DEF HeapInv
<1>5. TailFollows'
  BY <1>1, <1>2 DEF HeapInv, TailFollows
<1> QED
  BY <1>1, <1>2, <1>3, <1>4, <1>5 DEF HeapInv

\* ll_add_head.
LEMMA AddHeadInv ==
  ASSUME HeapInv, NEW v \in Value, ll_add_head(v)
  PROVE  /\ HeapInv'
         /\ Held' = << v >> \o Held
         /\ TailIsLast' = TailIsLast /\ heap' = heap
<1> DEFINE X == Address \cup {NULL}
           k == count
           c == Chain
           Node == [value : Value, next : X]
<1>1. PICK a \in Address \ DOMAIN node :
        /\ node' = Allocated(node, a, v, head)
        /\ head' = a
        /\ tail' = IF tail = NULL THEN a ELSE tail
  BY DEF ll_add_head
<1>2. /\ count' = count + 1 /\ kind' = kind /\ pc' = pc /\ heap' = heap
      /\ heap = "sound" /\ pc = "ready" /\ "add_head" \in Uses[kind]
  BY DEF ll_add_head, Calls
<1>3. /\ kind \in DOMAIN Uses /\ DOMAIN node \subseteq Address
      /\ \A b \in DOMAIN node : node[b] \in Node
      /\ head \in X /\ tail \in X /\ count \in Nat
  BY DEF HeapInv, TypeOK
<1>4. /\ IsList(node, head, k, c) /\ (k = 0) = (head = NULL) /\ (k = 0) = (tail = NULL)
      /\ k > 0 => node[c[k]].next = NULL
      /\ \A i \in 1 .. k : c[i] \in DOMAIN node
  BY <1>2 DEF HeapInv, Shape, IsList
<1> DEFINE d == Preceded(k, c, a)
<1> HIDE DEF c, d
<1>5. /\ IsList(node', a, k + 1, d)
      /\ d[1] = a /\ \A i \in 1 .. k : d[i + 1] = c[i]
  <2>1. d = Preceded(k, c, a) /\ a \notin DOMAIN node
    BY DEF d
  <2>2. node' = Allocated(node, a, v, head)
    BY <1>1
  <2> QED
    BY <1>4, <2>1, <2>2, PushFront
<1>6. /\ DOMAIN node' = DOMAIN node \cup {a}
      /\ \A b \in DOMAIN node' : node'[b] \in Node
      /\ node'[a].value = v /\ node'[a].next = head
      /\ \A b \in DOMAIN node : node'[b] = node[b]
  <2>1. Nodes(node, Value, X) /\ a \notin DOMAIN node /\ head \in X
    BY <1>3 DEF Nodes
  <2> HIDE DEF X
  <2>2. node' = Allocated(node, a, v, head)
    BY <1>1
  <2>3. Nodes(node', Value, X)
    BY <2>1, <2>2, InFront
  <2>4. /\ DOMAIN node' = DOMAIN node \cup {a}
        /\ node'[a].value = v /\ node'[a].next = head
        /\ \A b \in DOMAIN node : node'[b] = node[b]
    BY <2>1, <2>2, <2>3, InFront
  <2> QED
    BY <2>3, <2>4 DEF Nodes
<1>7. Chain' = d
  BY <1>1, <1>2, <1>5, ChainBecomes
<1>8. TypeOK'
  <2>1. kind' \in DOMAIN Uses /\ pc' \in {"ready", "emptying"} /\ heap' \in {"sound", "corrupt"}
    BY <1>2, <1>3
  <2>2. DOMAIN node' \subseteq Address /\ head' \in X /\ tail' \in X /\ count' \in Nat
    BY <1>1, <1>2, <1>3, <1>6
  <2> QED
    BY <1>6, <2>1, <2>2 DEF TypeOK
<1>9. d[k + 1] = IF k = 0 THEN a ELSE c[k]
  <2>1. k # 0 => k \in 1 .. k
    BY <1>3
  <2> QED
    BY <1>3, <1>5, <2>1
<1>10. tail' = (IF k = 0 THEN a ELSE tail) /\ a # NULL
  BY <1>1, <1>4, NullAssumption
<1>11. Shape(node, head, tail, count, pc, Chain)'
  <2>1. node'[d[k + 1]].next = NULL
    <3>1. CASE k = 0
      BY <1>4, <1>6, <1>9, <3>1
    <3>2. CASE k # 0
      <4>1. k \in 1 .. k
        BY <1>3, <3>2
      <4>2. c[k] \in DOMAIN node /\ node[c[k]].next = NULL
        BY <1>3, <1>4, <4>1
      <4> QED
        BY <1>6, <1>9, <3>2, <4>2
    <3> QED
      BY <3>1, <3>2
  <2>2. tail' # NULL
    BY <1>4, <1>10
  <2>3. k + 1 # 0 /\ k + 1 > 0
    BY <1>3
  <2> QED
    BY <1>1, <1>2, <1>5, <1>7, <1>10, <2>1, <2>2, <2>3 DEF Shape
<1>12. TailIsLast' = TailIsLast
  <2>1. TailIsLast' = (tail' = d[k + 1])
    BY <1>2, <1>3, <1>7 DEF TailIsLast
  <2>2. TailIsLast = IF k = 0 THEN TRUE ELSE tail = c[k]
    BY <1>4 DEF TailIsLast, c
  <2> QED
    BY <1>9, <1>10, <2>1, <2>2
<1>13. TailFollows'
  BY <1>2, <1>12 DEF HeapInv, TailFollows, Uses
<1>14. HeapInv'
  BY <1>8, <1>11, <1>13 DEF HeapInv
<1>15. Held' = << v >> \o Held
  <2>1. /\ Held \in Seq(Value) /\ Len(Held) = k
        /\ \A i \in 1 .. k : Held[i] = node[c[i]].value
    BY HeldIs DEF c
  <2>2. Held' = Found(node', k + 1, d)
    BY <1>2, <1>7 DEF Held, Found
  <2>3. \A b \in DOMAIN node' : node'[b].value \in Value
    BY <1>6
  <2>4. /\ Held' \in Seq(Value) /\ Len(Held') = k + 1
        /\ \A i \in 1 .. k + 1 : Held'[i] = node'[d[i]].value
    BY <1>5, <2>2, <2>3, FoundIs
  <2>5. Held'[1] = v
    <3>1. 1 \in 1 .. k + 1
      BY <1>3
    <3> QED
      BY <1>5, <1>6, <2>4, <3>1
  <2>6. ASSUME NEW i \in 1 .. k
        PROVE  Held'[i + 1] = Held[i]
    <3>1. i + 1 \in 1 .. k + 1
      BY <1>3
    <3>2. Held'[i + 1] = node'[c[i]].value
      BY <1>5, <2>4, <3>1
    <3> QED
      BY <1>4, <1>6, <2>1, <3>2
  <2> QED
    BY <1>3, <2>1, <2>4, <2>5, <2>6, FoundInFront
<1> QED
  BY <1>2, <1>12, <1>14, <1>15
\* ll_add_tail, when tail is the last node: the first node of an empty list.
LEMMA FirstNodeInv ==
  ASSUME HeapInv, NEW v \in Value, ll_add_tail(v), TailIsLast, count = 0
  PROVE  /\ HeapInv'
         /\ Held' = Append(Held, v)
         /\ TailIsLast' /\ heap' = heap
<1> DEFINE X == Address \cup {NULL}
           c == Chain
           Node == [value : Value, next : X]
<1>1. PICK a \in Address \ DOMAIN node :
        /\ node' = Allocated(node, a, v, NULL)
        /\ head' = a
        /\ tail' = a
  BY DEF ll_add_tail, AddToEmpty
<1>2. /\ count' = 0 + 1 /\ kind' = kind /\ pc' = pc /\ heap' = heap /\ head = NULL
      /\ heap = "sound" /\ pc = "ready"
  BY DEF ll_add_tail, Calls, HeapInv, Shape
<1>3. /\ kind \in DOMAIN Uses /\ DOMAIN node \subseteq Address
      /\ \A b \in DOMAIN node : node[b] \in Node
      /\ NULL \in X /\ a # NULL
  BY <1>1, NullAssumption DEF HeapInv, TypeOK
<1>4. IsList(node, NULL, 0, c)
  BY <1>2 DEF HeapInv, Shape
<1> DEFINE d == Preceded(0, c, a)
<1> HIDE DEF c, d
<1>5. IsList(node', a, 0 + 1, d) /\ d[1] = a
  <2>1. d = Preceded(0, c, a) /\ a \notin DOMAIN node
    BY DEF d
  <2>2. node' = Allocated(node, a, v, NULL)
    BY <1>1
  <2> QED
    BY <1>4, <2>1, <2>2, PushFront
<1>6. /\ DOMAIN node' = DOMAIN node \cup {a}
      /\ \A b \in DOMAIN node' : node'[b] \in Node
      /\ node'[a].value = v /\ node'[a].next = NULL
  <2>1. Nodes(node, Value, X) /\ a \notin DOMAIN node /\ NULL \in X
    BY <1>3 DEF Nodes
  <2> HIDE DEF X
  <2>2. node' = Allocated(node, a, v, NULL)
    BY <1>1
  <2>3. Nodes(node', Value, X)
    BY <2>1, <2>2, InFront
  <2>4. DOMAIN node' = DOMAIN node \cup {a} /\ node'[a].value = v /\ node'[a].next = NULL
    BY <2>1, <2>2, <2>3, InFront
  <2> QED
    BY <2>3, <2>4 DEF Nodes
<1>7. Chain' = d
  BY <1>1, <1>2, <1>5, ChainBecomes
<1>8. TypeOK'
  <2>1. kind' \in DOMAIN Uses /\ pc' \in {"ready", "emptying"} /\ heap' \in {"sound", "corrupt"}
    BY <1>2, <1>3
  <2>2. DOMAIN node' \subseteq Address /\ head' \in X /\ tail' \in X /\ count' \in Nat
    BY <1>1, <1>2, <1>3, <1>6
  <2> QED
    BY <1>6, <2>1, <2>2 DEF TypeOK
<1>9. count' = 1 /\ count' # 0 /\ pc' # "emptying"
  BY <1>2
<1>10. Shape(node, head, tail, count, pc, Chain)'
  BY <1>1, <1>2, <1>3, <1>5, <1>6, <1>7, <1>9 DEF Shape
<1>11. TailIsLast'
  BY <1>1, <1>5, <1>7, <1>9 DEF TailIsLast
<1>12. TailFollows'
  BY <1>2, <1>11 DEF TailFollows
<1>13. Held' = Append(Held, v)
  <2>1. Held \in Seq(Value) /\ Len(Held) = 0 /\ 0 \in Nat
    BY HeldIs
  <2>2. Held' = Found(node', count', d) /\ IsList(node', a, count', d)
    BY <1>2, <1>5, <1>7 DEF Held, Found
  <2>3. \A b \in DOMAIN node' : node'[b].value \in Value
    BY <1>6
  <2>4. /\ Held' \in Seq(Value) /\ Len(Held') = count'
        /\ \A i \in 1 .. count' : Held'[i] = node'[d[i]].value
    BY <2>2, <2>3, FoundIs
  <2>5. Held'[0 + 1] = v /\ Len(Held') = 0 + 1
    BY <1>5, <1>6, <1>9, <2>4
  <2>6. \A i \in 1 .. 0 : Held'[i] = Held[i]
    OBVIOUS
  <2> QED
    BY <2>1, <2>4, <2>5, <2>6, FoundBehind
<1> QED
  BY <1>2, <1>8, <1>10, <1>11, <1>12, <1>13 DEF HeapInv

\* A later one: the node at tail is made to point at it.
LEMMA LaterNodeInv ==
  ASSUME HeapInv, NEW v \in Value, ll_add_tail(v), TailIsLast, count # 0
  PROVE  /\ HeapInv'
         /\ Held' = Append(Held, v)
         /\ TailIsLast' /\ heap' = heap
<1> DEFINE X == Address \cup {NULL}
           k == count
           c == Chain
           Node == [value : Value, next : X]
<1>0. tail = c[k]
  BY DEF TailIsLast
<1>1. PICK a \in Address \ DOMAIN node :
        /\ node' = Allocated([node EXCEPT ![tail].next = a], a, v, NULL)
        /\ tail' = a
        /\ head' = head
  BY DEF ll_add_tail, AddAfterTail
<1>2. /\ count' = count + 1 /\ kind' = kind /\ pc' = pc /\ heap' = heap
      /\ heap = "sound" /\ pc = "ready"
  BY DEF ll_add_tail, Calls
<1>3. /\ kind \in DOMAIN Uses /\ DOMAIN node \subseteq Address
      /\ \A b \in DOMAIN node : node[b] \in Node
      /\ head \in X /\ count \in Nat /\ NULL \in X
  BY DEF HeapInv, TypeOK
<1>4. /\ IsList(node, head, k, c) /\ (k = 0) = (head = NULL)
      /\ \A i \in 1 .. k : c[i] \in DOMAIN node
  BY DEF HeapInv, Shape, IsList
<1>5. k > 0 /\ k \in 1 .. k /\ c[k] \in DOMAIN node
  <2>1. k > 0 /\ k \in 1 .. k
    BY <1>3
  <2> QED
    BY <1>4, <2>1
<1> DEFINE d == Followed(k, c, a)
<1> HIDE DEF c, d
<1>6. /\ DOMAIN node' = DOMAIN node \cup {a}
      /\ \A b \in DOMAIN node' : node'[b] \in Node
      /\ node'[a].value = v /\ node'[a].next = NULL /\ node'[c[k]].next = a
      /\ \A b \in DOMAIN node :
           node'[b].value = node[b].value /\ (b # c[k] => node'[b] = node[b])
  <2>1. /\ Nodes(node, Value, X) /\ a \notin DOMAIN node
        /\ a \in X /\ NULL \in X /\ tail \in DOMAIN node
    BY <1>0, <1>3, <1>5 DEF Nodes
  <2> HIDE DEF X
  <2>2. node' = Allocated(Linked(node, tail, a), a, v, NULL)
    BY <1>1 DEF Linked
  <2>3. Nodes(node', Value, X) /\ Grown(node, node', tail, a, v, NULL)
    BY <2>1, <2>2, Behind
  <2> QED
    BY <1>0, <2>3 DEF Nodes, Grown
<1>7. /\ IsList(node', head, k + 1, d)
      /\ d[k + 1] = a /\ \A i \in 1 .. k : d[i] = c[i]
  <2>1. d = Followed(k, c, a) /\ a \notin DOMAIN node
    BY DEF d
  <2>2. Hung(node, node', c[k], a)
    BY <1>6 DEF Hung
  <2>3. IsList(node, head, k, c) /\ k > 0
    BY <1>4, <1>5
  <2> HIDE DEF k
  <2> QED
    BY <2>1, <2>2, <2>3, PushBack
<1>8. Chain' = d
  BY <1>1, <1>2, <1>7, ChainBecomes
<1>9. TypeOK'
  <2>1. kind' \in DOMAIN Uses /\ pc' \in {"ready", "emptying"} /\ heap' \in {"sound", "corrupt"}
    BY <1>2, <1>3
  <2>2. DOMAIN node' \subseteq Address /\ head' \in X /\ tail' \in X /\ count' \in Nat
    BY <1>1, <1>2, <1>3, <1>6
  <2> QED
    BY <1>6, <2>1, <2>2 DEF TypeOK
<1>10. k + 1 # 0 /\ k + 1 > 0 /\ k + 1 \in 1 .. k + 1 /\ pc' # "emptying" /\ a # NULL
  BY <1>2, <1>3, NullAssumption
<1>11. Shape(node, head, tail, count, pc, Chain)'
  <2>1. head' # NULL /\ tail' # NULL
    BY <1>1, <1>4, <1>10
  <2>2. node'[d[k + 1]].next = NULL
    BY <1>6, <1>7
  <2> QED
    BY <1>1, <1>2, <1>7, <1>8, <1>10, <2>1, <2>2 DEF Shape
<1>12. TailIsLast'
  BY <1>1, <1>2, <1>7, <1>8, <1>10 DEF TailIsLast
<1>13. TailFollows'
  BY <1>2, <1>12 DEF TailFollows
<1>14. Held' = Append(Held, v)
  <2>1. /\ Held \in Seq(Value) /\ Len(Held) = k
        /\ \A i \in 1 .. k : Held[i] = node[c[i]].value
    BY HeldIs DEF c
  <2>2. Held' = Found(node', k + 1, d)
    BY <1>2, <1>8 DEF Held, Found
  <2>3. \A b \in DOMAIN node' : node'[b].value \in Value
    BY <1>6
  <2>4. /\ Held' \in Seq(Value) /\ Len(Held') = k + 1
        /\ \A i \in 1 .. k + 1 : Held'[i] = node'[d[i]].value
    BY <1>7, <2>2, <2>3, FoundIs
  <2>5. Held'[k + 1] = v
    BY <1>6, <1>7, <1>10, <2>4
  <2>6. ASSUME NEW i \in 1 .. k
        PROVE  Held'[i] = Held[i]
    <3>1. i \in 1 .. k + 1
      BY <1>3
    <3>2. Held'[i] = node'[c[i]].value
      BY <1>7, <2>4, <3>1
    <3> QED
      BY <1>4, <1>6, <2>1, <3>2
  <2> QED
    BY <1>3, <2>1, <2>4, <2>5, <2>6, FoundBehind
<1> QED
  BY <1>2, <1>9, <1>11, <1>12, <1>13, <1>14 DEF HeapInv

\* ll_add_tail.
LEMMA AddTailInv ==
  ASSUME HeapInv, NEW v \in Value, ll_add_tail(v)
  PROVE  /\ HeapInv' /\ heap = "sound"
         /\ TailIsLast => Held' = Append(Held, v) /\ TailIsLast' /\ heap' = heap
         /\ ~TailIsLast => Held' = Held /\ ~TailIsLast' /\ heap' = "corrupt"
<1>1. heap = "sound"
  BY DEF ll_add_tail, Calls
<1>2. CASE TailIsLast
  BY <1>1, <1>2, FirstNodeInv, LaterNodeInv
<1>3. CASE ~TailIsLast
  <2>1. Corrupts
    BY <1>3 DEF ll_add_tail
  <2> QED
    BY <1>1, <1>3, <2>1, CorruptsInv
<1> QED
  BY <1>2, <1>3
\* The node at i is taken out, whichever call does it.
LEMMA TakenOut ==
  ASSUME HeapInv, NEW i \in 1 .. count, Cut(node, node', count, Chain, i),
         \A b \in DOMAIN node' : node'[b].value = node[b].value,
         count' = count - 1,
         count > 1 => head' = IF i = 1 THEN node[head].next ELSE head
  PROVE  /\ IsList(node', head', count', Chain')
         /\ \A j \in 1 .. count - 1 : Chain'[j] = IF j < i THEN Chain[j] ELSE Chain[j + 1]
         /\ Held' = Lists!Without(Held, i)
<1> DEFINE k == count
           c == Chain
           d == Closed(k, c, i)
<1>1. /\ IsList(node, head, k, c) /\ k \in Nat
      /\ \A j \in 1 .. k : c[j] \in DOMAIN node
      /\ \A b \in DOMAIN node : node[b].value \in Value
  BY DEF HeapInv, Shape, IsList, TypeOK
<1> HIDE DEF c, d
<1>2. /\ IsList(node', head', k - 1, d)
      /\ \A j \in 1 .. k - 1 : d[j] = IF j < i THEN c[j] ELSE c[j + 1]
  <2>1. d = Closed(k, c, i) /\ Cut(node, node', k, c, i)
    BY DEF c, d
  <2>2. k > 1 => head' = IF i = 1 THEN node[head].next ELSE head
    OBVIOUS
  <2>3. i \in 1 .. k
    OBVIOUS
  <2> HIDE DEF k
  <2>4. IsList(node', head', k - 1, d)
    BY <1>1, <2>1, <2>2, <2>3, RemoveAt
  <2>5. d = [j \in 1 .. k - 1 |-> IF j < i THEN c[j] ELSE c[j + 1]]
    BY <2>1 DEF Closed
  <2> QED
    BY <2>4, <2>5
<1>3. Chain' = d
  BY <1>2, ChainBecomes
<1>4. DOMAIN node' \subseteq DOMAIN node
  BY DEF Cut
<1>5. Held' = Lists!Without(Held, i)
  <2>1. /\ Held \in Seq(Value) /\ Len(Held) = k
        /\ \A j \in 1 .. k : Held[j] = node[c[j]].value
    BY HeldIs DEF c
  <2>2. Held' = Found(node', k - 1, d)
    BY <1>3 DEF Held, Found
  <2>3. \A b \in DOMAIN node' : node'[b].value \in Value
    BY <1>1, <1>4
  <2>4. /\ Held' \in Seq(Value) /\ Len(Held') = k - 1
        /\ \A j \in 1 .. k - 1 : Held'[j] = node'[d[j]].value
    BY <1>2, <2>2, <2>3, FoundIs
  <2>5. \A j \in 1 .. k - 1 : d[j] \in DOMAIN node'
    BY <1>2 DEF IsList
  <2>6. ASSUME NEW j \in 1 .. k - 1
        PROVE  Held'[j] = IF j < i THEN Held[j] ELSE Held[j + 1]
    <3>1. j \in 1 .. k /\ j + 1 \in 1 .. k
      BY <1>1
    <3>2. Held'[j] = node'[d[j]].value /\ node'[d[j]].value = node[d[j]].value
      BY <2>4, <2>5
    <3>3. Held[j] = node[c[j]].value /\ Held[j + 1] = node[c[j + 1]].value
      BY <2>1, <3>1
    <3>4. d[j] = IF j < i THEN c[j] ELSE c[j + 1]
      BY <1>2
    <3> QED
      BY <3>2, <3>3, <3>4
  <2> QED
    BY <1>1, <2>1, <2>4, <2>6, FoundWithout
<1> QED
  BY <1>2, <1>3, <1>5 DEF c

\* The first node goes, as in ll_remove_first and when the node to unlink is
\* the first: tail is right afterwards if it was, or if no node is left.
LEMMA UnlinkHeadInv ==
  ASSUME HeapInv, count > 0, pc = "ready", heap = "sound", UnlinkHead,
         count' = count - 1, UNCHANGED <<kind, pc, heap>>
  PROVE  /\ HeapInv'
         /\ Held' = Lists!Without(Held, 1)
         /\ TailIsLast' = (TailIsLast \/ count = 1)
<1> DEFINE X == Address \cup {NULL}
           k == count
           c == Chain
           Node == [value : Value, next : X]
<1>1. /\ head' = node[head].next
      /\ tail' = IF head' = NULL THEN NULL ELSE tail
      /\ node' = Freed(node, head)
      /\ kind' = kind /\ pc' = pc /\ heap' = heap
  BY DEF UnlinkHead
<1>2. /\ kind \in DOMAIN Uses /\ DOMAIN node \subseteq Address
      /\ \A b \in DOMAIN node : node[b] \in Node
      /\ head \in X /\ tail \in X /\ count \in Nat
  BY DEF HeapInv, TypeOK
<1>3. /\ IsList(node, head, k, c) /\ Walked(node, head, k, c) /\ tail # NULL
      /\ node[c[k]].next = NULL
      /\ \A j \in 1 .. k : c[j] \in DOMAIN node
      /\ \A j, l \in 1 .. k : c[j] = c[l] => j = l
  BY <1>2 DEF HeapInv, Shape, IsList
<1> HIDE DEF c
<1>4. 1 \in 1 .. k /\ k \in 1 .. k /\ c[1] = head /\ head \in DOMAIN node
  <2>1. 1 \in 1 .. k /\ k \in 1 .. k /\ k > 0
    BY <1>2
  <2> QED
    BY <1>3, <2>1 DEF Walked
<1>5. /\ DOMAIN node' = DOMAIN node \ {c[1]}
      /\ \A b \in DOMAIN node' : node'[b] = node[b]
  BY <1>1, <1>4 DEF Freed
<1>6. Cut(node, node', k, c, 1)
  <2>1. ASSUME NEW j \in 1 .. k, j # 1
        PROVE  node'[c[j]].next = node[c[j]].next
    <3>1. c[j] \in DOMAIN node /\ c[j] # c[1]
      BY <1>3, <1>4, <2>1
    <3> QED
      BY <1>5, <3>1
  <2> QED
    BY <1>5, <2>1 DEF Cut
<1>7. /\ IsList(node', head', k - 1, Chain')
      /\ \A j \in 1 .. k - 1 : Chain'[j] = c[j + 1]
      /\ Held' = Lists!Without(Held, 1)
  <2>1. \A b \in DOMAIN node' : node'[b].value = node[b].value
    BY <1>5
  <2>2. 1 \in 1 .. count /\ Cut(node, node', count, Chain, 1)
    BY <1>4, <1>6 DEF c
  <2>3. /\ IsList(node', head', count', Chain')
        /\ \A j \in 1 .. count - 1 : Chain'[j] = IF j < 1 THEN Chain[j] ELSE Chain[j + 1]
        /\ Held' = Lists!Without(Held, 1)
    BY <1>1, <2>1, <2>2, TakenOut
  <2> QED
    BY <2>3 DEF c
<1>8. k = 1 => head' = NULL /\ tail' = NULL
  BY <1>1, <1>3, <1>4
<1>9. k # 1 => /\ k - 1 \in 1 .. k - 1 /\ (k - 1) + 1 = k
               /\ head' \in DOMAIN node /\ head' # NULL /\ tail' = tail
  <2>1. ASSUME k # 1
        PROVE  /\ k - 1 \in 1 .. k - 1 /\ (k - 1) + 1 = k
               /\ 2 \in 2 .. k /\ 2 \in 1 .. k /\ 2 - 1 = 1
    BY <1>2, <2>1
  <2>2. k # 1 => c[2] = node[c[2 - 1]].next /\ c[2] \in DOMAIN node
    BY <1>3, <2>1 DEF Walked
  <2>3. k # 1 => head' \in DOMAIN node
    BY <1>1, <1>4, <2>1, <2>2
  <2> QED
    BY <1>1, <1>2, <2>1, <2>3, NullAssumption
<1>10. TypeOK'
  <2>1. kind' \in DOMAIN Uses /\ pc' \in {"ready", "emptying"} /\ heap' \in {"sound", "corrupt"}
    BY <1>1, <1>2
  <2>2. DOMAIN node' \subseteq Address /\ \A b \in DOMAIN node' : node'[b] \in Node
    BY <1>2, <1>5
  <2>3. head' \in X /\ tail' \in X
    BY <1>1, <1>2, <1>8, <1>9
  <2>4. count' \in Nat
    BY <1>2
  <2> QED
    BY <2>1, <2>2, <2>3, <2>4 DEF TypeOK
<1>11. k # 1 => Chain'[k - 1] = c[k] /\ k - 1 > 0 /\ k - 1 # 0
  BY <1>2, <1>7, <1>9
<1>12. Shape(node, head, tail, count, pc, Chain)'
  <2>1. k # 1 => node'[Chain'[k - 1]].next = NULL
    <3>1. ASSUME k # 1
          PROVE  node'[c[k]].next = NULL
      <4>1. c[k] \in DOMAIN node /\ c[k] # c[1]
        BY <1>3, <1>4, <3>1
      <4> QED
        BY <1>3, <1>5, <4>1
    <3> QED
      BY <1>11, <3>1
  <2>2. k # 1 => tail' # NULL /\ head' # NULL
    BY <1>3, <1>9
  <2>3. k = 1 => k - 1 = 0 /\ ~(k - 1 > 0)
    OBVIOUS
  <2>4. pc' # "emptying"
    BY <1>1
  <2> QED
    BY <1>7, <1>8, <1>11, <2>1, <2>2, <2>3, <2>4 DEF Shape
<1>13. TailIsLast' = (TailIsLast \/ count = 1)
  <2>1. CASE k = 1
    <3>1. count' = 0
      BY <2>1
    <3> QED
      BY <1>8, <2>1, <3>1 DEF TailIsLast
  <2>2. CASE k # 1
    <3>1. TailIsLast' = (tail' = c[k])
      BY <1>11, <2>2 DEF TailIsLast
    <3>2. TailIsLast = (tail = c[k])
      BY <1>2 DEF TailIsLast, c
    <3> QED
      BY <1>9, <2>2, <3>1, <3>2
  <2> QED
    BY <2>1, <2>2
<1>14. TailFollows'
  BY <1>1, <1>13 DEF HeapInv, TailFollows
<1> QED
  BY <1>7, <1>10, <1>12, <1>13, <1>14 DEF HeapInv

\* A later node goes: whatever becomes of tail, the list is one node shorter.
LEMMA UnlinkInv ==
  ASSUME HeapInv, NEW i \in 1 .. count, i # 1, pc = "ready", heap = "sound", Unlink(i),
         count' = count - 1, UNCHANGED <<kind, pc, heap>>, tail' \in Address
  PROVE  /\ TypeOK' /\ Shape(node, head, tail, count, pc, Chain)'
         /\ Held' = Lists!Without(Held, i)
         /\ TailIsLast' = (tail' = IF i = count THEN Chain[i - 1] ELSE Chain[count])
<1> DEFINE X == Address \cup {NULL}
           k == count
           c == Chain
           x == node[c[i]].next
           Node == [value : Value, next : X]
<1>1. /\ head' = head
      /\ node' = Freed(Linked(node, c[i - 1], x), c[i])
      /\ kind' = kind /\ pc' = pc /\ heap' = heap
  BY DEF Unlink, Linked
<1>2. /\ kind \in DOMAIN Uses /\ DOMAIN node \subseteq Address
      /\ \A b \in DOMAIN node : node[b] \in Node
      /\ head \in X /\ count \in Nat
  BY DEF HeapInv, TypeOK
<1>3. /\ IsList(node, head, k, c) /\ (k = 0) = (head = NULL)
      /\ k > 0 => node[c[k]].next = NULL
      /\ \A j \in 1 .. k : c[j] \in DOMAIN node
      /\ \A j, l \in 1 .. k : c[j] = c[l] => j = l
  BY <1>2 DEF HeapInv, Shape, IsList
<1> HIDE DEF c
<1>4. /\ i - 1 \in 1 .. k /\ i - 1 # i /\ k \in 1 .. k /\ i \in Nat /\ k > 1
      /\ k - 1 \in 1 .. k - 1 /\ (k - 1) + 1 = k /\ i <= k
  BY <1>2
<1>5. /\ c[i] \in DOMAIN node /\ c[i - 1] \in DOMAIN node /\ c[i - 1] # c[i]
      /\ x \in X
  <2>1. c[i] \in DOMAIN node /\ c[i - 1] \in DOMAIN node /\ c[i - 1] # c[i]
    BY <1>3, <1>4
  <2> HIDE DEF X
  <2> QED
    BY <1>2, <2>1
<1>6. Nodes(node', Value, X) /\ Shrunk(node, node', c[i - 1], c[i], x)
  <2>1. Nodes(node, Value, X)
    BY <1>2 DEF Nodes
  <2> HIDE DEF X, x
  <2> QED
    BY <1>1, <1>5, <2>1, Gone
<1>7. /\ DOMAIN node' = DOMAIN node \ {c[i]}
      /\ node'[c[i - 1]].next = node[c[i]].next
      /\ \A b \in DOMAIN node' :
           node'[b].value = node[b].value /\ (b # c[i - 1] => node'[b] = node[b])
  BY <1>6 DEF Shrunk
<1>8. Cut(node, node', k, c, i)
  <2>1. ASSUME NEW j \in 1 .. k, j # i, j # i - 1
        PROVE  node'[c[j]].next = node[c[j]].next
    <3>1. c[j] \in DOMAIN node /\ c[j] # c[i] /\ c[j] # c[i - 1]
      BY <1>3, <1>4, <2>1
    <3> QED
      BY <1>7, <3>1
  <2> QED
    BY <1>7, <2>1 DEF Cut
<1>9. /\ IsList(node', head', k - 1, Chain')
      /\ \A j \in 1 .. k - 1 : Chain'[j] = IF j < i THEN c[j] ELSE c[j + 1]
      /\ Held' = Lists!Without(Held, i)
  <2>1. \A b \in DOMAIN node' : node'[b].value = node[b].value
    BY <1>7
  <2>2. Cut(node, node', count, Chain, i)
    BY <1>8 DEF c
  <2>3. /\ IsList(node', head', count', Chain')
        /\ \A j \in 1 .. count - 1 : Chain'[j] = IF j < i THEN Chain[j] ELSE Chain[j + 1]
        /\ Held' = Lists!Without(Held, i)
    BY <1>1, <2>1, <2>2, TakenOut
  <2> QED
    BY <2>3 DEF c
<1>10. TypeOK'
  <2>1. kind' \in DOMAIN Uses /\ pc' \in {"ready", "emptying"} /\ heap' \in {"sound", "corrupt"}
    BY <1>1, <1>2
  <2>2. DOMAIN node' \subseteq Address /\ \A b \in DOMAIN node' : node'[b] \in Node
    BY <1>2, <1>6, <1>7 DEF Nodes
  <2>3. head' \in X /\ tail' \in X
    BY <1>1, <1>2
  <2>4. count' \in Nat
    BY <1>2, <1>4
  <2> QED
    BY <2>1, <2>2, <2>3, <2>4 DEF TypeOK
<1>11. Chain'[k - 1] = IF i = k THEN c[i - 1] ELSE c[k]
  <2>1. i = k => k - 1 < i
    BY <1>4
  <2>2. i # k => ~(k - 1 < i)
    BY <1>2, <1>4
  <2>3. Chain'[k - 1] = IF k - 1 < i THEN c[k - 1] ELSE c[(k - 1) + 1]
    BY <1>4, <1>9
  <2> QED
    BY <1>4, <2>1, <2>2, <2>3
<1>12. Shape(node, head, tail, count, pc, Chain)'
  <2>1. node'[Chain'[k - 1]].next = NULL
    <3>1. CASE i = k
      BY <1>3, <1>4, <1>7, <1>11, <3>1
    <3>2. CASE i # k /\ i - 1 # k
      <4>1. c[k] \in DOMAIN node /\ c[k] # c[i] /\ c[k] # c[i - 1]
        BY <1>3, <1>4, <3>2
      <4>2. node'[c[k]] = node[c[k]]
        BY <1>7, <4>1
      <4> QED
        BY <1>3, <1>4, <1>11, <3>2, <4>2
    <3> QED
      BY <1>4, <3>1, <3>2
  <2>2. tail' # NULL /\ head' # NULL
    BY <1>1, <1>3, <1>4, NullAssumption
  <2>3. k - 1 # 0 /\ k - 1 > 0
    BY <1>4
  <2>4. pc' # "emptying"
    BY <1>1
  <2> QED
    BY <1>9, <2>1, <2>2, <2>3, <2>4 DEF Shape
<1>13. TailIsLast' = (tail' = Chain'[k - 1])
  BY <1>4 DEF TailIsLast
<1> QED
  BY <1>9, <1>10, <1>11, <1>12, <1>13 DEF c
\* ll_remove_first.
LEMMA RemoveFirstInv ==
  ASSUME HeapInv, ll_remove_first
  PROVE  /\ HeapInv' /\ heap = "sound" /\ heap' = heap
         /\ count > 0
         /\ Held' = Lists!Without(Held, 1)
         /\ TailIsLast' = (TailIsLast \/ count = 1)
BY UnlinkHeadInv DEF ll_remove_first, Calls

\* Where tail is: on a node of the list, or on one that is gone.
LEMMA TailIs ==
  ASSUME HeapInv, count > 0
  PROVE  /\ tail \in Address /\ TailIsLast = (tail = Chain[count])
         /\ \A i \in 1 .. count : Chain[i] \in Address
         /\ \A i, j \in 1 .. count : Chain[i] = Chain[j] => i = j
<1>1. count # 0 /\ count \in Nat
  BY DEF HeapInv, TypeOK
<1>2. tail # NULL /\ tail \in Address \cup {NULL} /\ DOMAIN node \subseteq Address
  BY <1>1 DEF HeapInv, TypeOK, Shape
<1>3. /\ \A i \in 1 .. count : Chain[i] \in DOMAIN node
      /\ \A i, j \in 1 .. count : Chain[i] = Chain[j] => i = j
  BY DEF HeapInv, Shape, IsList
<1>4. TailIsLast = (tail = Chain[count])
  BY <1>1 DEF TailIsLast
<1> QED
  BY <1>2, <1>3, <1>4

\* ll_remove_node: tail is left behind when the last of several nodes goes;
\* if it was behind already it may be right by luck.
LEMMA RemoveNodeInv ==
  ASSUME HeapInv, NEW v \in Value, ll_remove_node(v)
  PROVE  /\ HeapInv' /\ heap = "sound" /\ heap' = heap
         /\ v \in Range(Held) /\ count > 0
         /\ Held' = Lists!Without(Held, Index(v))
         /\ Index(v) = 1 => TailIsLast' = (TailIsLast \/ count = 1)
         /\ Index(v) # 1 /\ Index(v) # count => TailIsLast' = TailIsLast
         /\ Index(v) # 1 /\ Index(v) = count /\ TailIsLast => ~TailIsLast'
<1> DEFINE i == Index(v)
<1>1. /\ heap = "sound" /\ pc = "ready" /\ kind' = kind /\ pc' = pc /\ heap' = heap
      /\ "remove_node" \in Uses[kind] /\ v \in Range(Held) /\ count' = count - 1
      /\ IF i = 1 THEN UnlinkHead ELSE Unlink(i) /\ tail' = tail
  BY DEF ll_remove_node, Calls
<1>2. i \in 1 .. count
  BY <1>1, IndexIs
<1> HIDE DEF i
<1>3. count \in Nat /\ count > 0 /\ count \in 1 .. count
  <2>1. count \in Nat
    BY DEF HeapInv, TypeOK
  <2> QED
    BY <1>2, <2>1
<1>4. CASE i = 1
  <2>1. HeapInv' /\ Held' = Lists!Without(Held, 1) /\ TailIsLast' = (TailIsLast \/ count = 1)
    BY <1>1, <1>3, <1>4, UnlinkHeadInv
  <2> QED
    BY <1>1, <1>3, <1>4, <2>1 DEF i
<1>5. CASE i # 1
  <2>1. /\ tail \in Address /\ TailIsLast = (tail = Chain[count])
        /\ \A j, l \in 1 .. count : Chain[j] = Chain[l] => j = l
    BY <1>3, TailIs
  <2>2. tail' = tail /\ Unlink(i)
    BY <1>1, <1>5
  <2>3. /\ TypeOK' /\ Shape(node, head, tail, count, pc, Chain)'
        /\ Held' = Lists!Without(Held, i)
        /\ TailIsLast' = (tail' = IF i = count THEN Chain[i - 1] ELSE Chain[count])
    BY <1>1, <1>2, <1>5, <2>1, <2>2, UnlinkInv
  <2>4. TailFollows'
    BY <1>1 DEF TailFollows, Uses, HeapInv, TypeOK
  <2>5. i = count /\ TailIsLast => ~TailIsLast'
    <3>1. i - 1 \in 1 .. count /\ i - 1 # i
      BY <1>2, <1>3, <1>5
    <3>2. Chain[i - 1] # Chain[i]
      BY <1>2, <2>1, <3>1
    <3> QED
      BY <2>1, <2>2, <2>3, <3>2
  <2>6. i # count => TailIsLast' = TailIsLast
    BY <2>1, <2>2, <2>3
  <2> QED
    BY <1>1, <1>3, <1>5, <2>3, <2>4, <2>5, <2>6 DEF HeapInv, i
<1> QED
  BY <1>4, <1>5

\* ll_remove_str: tail goes back one node with the last of several, so it
\* stays right where it was; where it was not it may be right by luck.
LEMMA RemoveStrInv ==
  ASSUME HeapInv, NEW v \in Value, ll_remove_str(v)
  PROVE  /\ HeapInv' /\ heap = "sound" /\ heap' = heap
         /\ v \in Range(Held) /\ count > 0
         /\ Held' = Lists!Without(Held, Index(v))
         /\ TailIsLast => TailIsLast'
         /\ count = 1 => TailIsLast'
<1> DEFINE i == Index(v)
<1>1. /\ heap = "sound" /\ pc = "ready" /\ kind' = kind /\ pc' = pc /\ heap' = heap
      /\ v \in Range(Held) /\ count' = count - 1
      /\ IF i = 1 THEN UnlinkHead ELSE Unlink(i) /\ tail' = TailAfter(i)
  BY DEF ll_remove_str, Calls
<1>2. i \in 1 .. count
  BY <1>1, IndexIs
<1> HIDE DEF i
<1>3. count \in Nat /\ count > 0 /\ count \in 1 .. count
  <2>1. count \in Nat
    BY DEF HeapInv, TypeOK
  <2> QED
    BY <1>2, <2>1
<1>4. CASE i = 1
  <2>1. HeapInv' /\ Held' = Lists!Without(Held, 1) /\ TailIsLast' = (TailIsLast \/ count = 1)
    BY <1>1, <1>3, <1>4, UnlinkHeadInv
  <2> QED
    BY <1>1, <1>3, <1>4, <2>1 DEF i
<1>5. CASE i # 1
  <2>1. /\ tail \in Address /\ TailIsLast = (tail = Chain[count])
        /\ \A j \in 1 .. count : Chain[j] \in Address
        /\ \A j, l \in 1 .. count : Chain[j] = Chain[l] => j = l
    BY <1>3, TailIs
  <2>2. tail' = (IF Chain[i] = tail THEN Chain[i - 1] ELSE tail) /\ Unlink(i)
    BY <1>1, <1>5 DEF TailAfter
  <2>3. i - 1 \in 1 .. count /\ count # 1
    BY <1>2, <1>3, <1>5
  <2>4. tail' \in Address
    BY <2>1, <2>2, <2>3
  <2>5. /\ TypeOK' /\ Shape(node, head, tail, count, pc, Chain)'
        /\ Held' = Lists!Without(Held, i)
        /\ TailIsLast' = (tail' = IF i = count THEN Chain[i - 1] ELSE Chain[count])
    BY <1>1, <1>2, <1>5, <2>2, <2>4, UnlinkInv
  <2>6. TailIsLast => TailIsLast'
    <3>1. CASE i = count
      BY <2>1, <2>2, <2>5, <3>1
    <3>2. CASE i # count
      <4>1. Chain[i] # Chain[count]
        BY <1>2, <1>3, <2>1, <3>2
      <4> QED
        BY <2>1, <2>2, <2>5, <3>2, <4>1
    <3> QED
      BY <3>1, <3>2
  <2>7. TailFollows'
    BY <1>1, <2>6 DEF TailFollows, HeapInv
  <2> QED
    BY <1>1, <1>3, <2>3, <2>5, <2>6, <2>7 DEF HeapInv, i
<1> QED
  BY <1>4, <1>5

\* ll_empty begins.
LEMMA EmptyInv ==
  ASSUME HeapInv, ll_empty
  PROVE  HeapInv' /\ Held' = Held /\ TailIsLast' = TailIsLast /\ heap' = heap
<1>1. /\ heap' = heap /\ heap = "sound" /\ kind' = kind /\ pc' = "emptying" /\ count > 0
      /\ UNCHANGED list
      /\ node' = node /\ head' = head /\ tail' = tail /\ count' = count
  BY DEF ll_empty, list
<1>2. Chain' = Chain /\ Held' = Held /\ TailIsLast' = TailIsLast
  BY <1>1, SameList
<1>3. TypeOK'
  BY <1>1 DEF HeapInv, TypeOK
<1>4. Shape(node, head, tail, count, pc, Chain)'
  BY <1>1, <1>2 DEF HeapInv, Shape
<1>5. TailFollows'
  BY <1>1, <1>2 DEF HeapInv, TailFollows
<1> QED
  BY <1>1, <1>2, <1>3, <1>4, <1>5 DEF HeapInv

\* One turn of the loop of ll_empty, when tail is the last node.  The node
\* before it keeps its pointer: only count says where the list ends now.
LEMMA LastGoesInv ==
  ASSUME HeapInv, ll_remove_last, TailIsLast
  PROVE  /\ HeapInv' /\ heap' = heap
         /\ Held' = Lists!Without(Held, count)
         /\ TailIsLast'
<1> DEFINE X == Address \cup {NULL}
           k == count
           c == Chain
           Node == [value : Value, next : X]
<1>1. /\ pc = "emptying" /\ kind' = kind /\ heap' = heap /\ count' = count - 1
      /\ head' = IF count = 1 THEN NULL ELSE head
      /\ tail' = IF count = 1 THEN NULL ELSE c[count - 1]
      /\ node' = Freed(node, tail)
      /\ pc' = IF count - 1 = 0 THEN "ready" ELSE pc
  BY DEF ll_remove_last, Emptied
<1>2. /\ kind \in DOMAIN Uses /\ DOMAIN node \subseteq Address
      /\ \A b \in DOMAIN node : node[b] \in Node
      /\ head \in X /\ tail \in X /\ count \in Nat
      /\ pc \in {"ready", "emptying"} /\ heap \in {"sound", "corrupt"}
  BY DEF HeapInv, TypeOK
<1>3. /\ IsList(node, head, k, c) /\ k > 0
      /\ (k = 0) = (head = NULL)
      /\ \A j \in 1 .. k : c[j] \in DOMAIN node
      /\ \A j, l \in 1 .. k : c[j] = c[l] => j = l
  BY <1>1 DEF HeapInv, Shape, IsList
<1> HIDE DEF c
<1>4. k \in 1 .. k /\ k # 0 /\ tail = c[k] /\ c[k] \in DOMAIN node
  <2>1. k \in 1 .. k /\ k # 0
    BY <1>2, <1>3
  <2> QED
    BY <1>3, <2>1 DEF TailIsLast, c
<1>5. /\ DOMAIN node' = DOMAIN node \ {c[k]}
      /\ \A b \in DOMAIN node' : node'[b] = node[b]
  BY <1>1, <1>4 DEF Freed
<1>6. Cut(node, node', k, c, k)
  <2>1. ASSUME NEW j \in 1 .. k, j # k
        PROVE  node'[c[j]].next = node[c[j]].next
    <3>1. c[j] \in DOMAIN node /\ c[j] # c[k]
      BY <1>3, <1>4, <2>1
    <3> QED
      BY <1>5, <3>1
  <2>2. ~(k < k)
    BY <1>2
  <2> QED
    BY <1>5, <2>1, <2>2 DEF Cut
<1>7. k > 1 => head' = IF k = 1 THEN node[head].next ELSE head
  BY <1>1, <1>2
<1>8. /\ IsList(node', head', k - 1, Chain')
      /\ \A j \in 1 .. k - 1 : Chain'[j] = c[j]
      /\ Held' = Lists!Without(Held, k)
  <2>1. \A b \in DOMAIN node' : node'[b].value = node[b].value
    BY <1>5
  <2>2. k \in 1 .. count /\ Cut(node, node', count, Chain, k)
    BY <1>4, <1>6 DEF c
  <2>3. /\ IsList(node', head', count', Chain')
        /\ \A j \in 1 .. count - 1 : Chain'[j] = IF j < k THEN Chain[j] ELSE Chain[j + 1]
        /\ Held' = Lists!Without(Held, k)
    BY <1>1, <1>7, <2>1, <2>2, TakenOut
  <2>4. \A j \in 1 .. k - 1 : j < k
    BY <1>2
  <2> QED
    BY <1>1, <2>3, <2>4 DEF c
<1>9. k # 1 => k - 1 \in 1 .. k - 1 /\ k - 1 \in 1 .. k /\ k - 1 # 0 /\ k - 1 > 0
  BY <1>2, <1>3
<1>10. TypeOK'
  <2>1. kind' \in DOMAIN Uses /\ pc' \in {"ready", "emptying"} /\ heap' \in {"sound", "corrupt"}
    BY <1>1, <1>2
  <2>2. DOMAIN node' \subseteq Address /\ \A b \in DOMAIN node' : node'[b] \in Node
    BY <1>2, <1>5
  <2>3. head' \in X
    BY <1>1, <1>2
  <2>4. tail' \in X
    <3>1. k # 1 => c[k - 1] \in Address
      BY <1>2, <1>3, <1>9
    <3> QED
      BY <1>1, <3>1
  <2>5. count' \in Nat
    BY <1>1, <1>2, <1>3
  <2> QED
    BY <2>1, <2>2, <2>3, <2>4, <2>5 DEF TypeOK
<1>11. Shape(node, head, tail, count, pc, Chain)'
  <2>1. CASE k = 1
    <3>1. count' = 0 /\ ~(count' > 0) /\ pc' = "ready" /\ head' = NULL /\ tail' = NULL
      BY <1>1, <2>1
    <3> QED
      BY <1>1, <1>8, <3>1 DEF Shape
  <2>2. CASE k # 1
    <3>1. pc' = "emptying" /\ head' = head /\ tail' = c[k - 1] /\ count' # 0 /\ count' > 0
      BY <1>1, <1>9, <2>2
    <3>2. head' # NULL /\ tail' # NULL
      BY <1>2, <1>3, <1>4, <1>9, <2>2, <3>1, NullAssumption
    <3> QED
      BY <1>1, <1>8, <3>1, <3>2 DEF Shape
  <2> QED
    BY <2>1, <2>2
<1>12. TailIsLast'
  <2>1. k = 1 => count' = 0
    BY <1>1
  <2>2. k # 1 => count' # 0 /\ Chain'[count'] = c[k - 1]
    BY <1>1, <1>8, <1>9
  <2> QED
    BY <1>1, <2>1, <2>2 DEF TailIsLast
<1>13. TailFollows'
  BY <1>1, <1>12 DEF HeapInv, TailFollows
<1> QED
  BY <1>1, <1>8, <1>10, <1>11, <1>12, <1>13 DEF HeapInv

\* ll_remove_last.
LEMMA RemoveLastInv ==
  ASSUME HeapInv, ll_remove_last
  PROVE  /\ HeapInv' /\ heap = "sound" /\ count > 0
         /\ TailIsLast => /\ Held' = Lists!Without(Held, count)
                          /\ TailIsLast' /\ heap' = heap
         /\ ~TailIsLast => Held' = Held /\ ~TailIsLast' /\ heap' = "corrupt"
<1>1. heap = "sound" /\ pc = "emptying"
  BY DEF ll_remove_last
<1>2. count > 0
  BY <1>1 DEF HeapInv, Shape
<1>3. CASE TailIsLast
  BY <1>1, <1>2, <1>3, LastGoesInv
<1>4. CASE ~TailIsLast
  <2>1. Corrupts
    BY <1>4 DEF ll_remove_last
  <2> QED
    BY <1>1, <1>2, <1>4, <2>1, CorruptsInv
<1> QED
  BY <1>3, <1>4

\* No step at all.
LEMMA StutterInv ==
  ASSUME HeapInv, UNCHANGED vars
  PROVE  HeapInv' /\ Held' = Held /\ TailIsLast' = TailIsLast /\ heap' = heap
<1>1. /\ heap' = heap /\ kind' = kind /\ pc' = pc /\ UNCHANGED list
      /\ node' = node /\ head' = head /\ tail' = tail /\ count' = count
  BY DEF vars, list
<1>2. Chain' = Chain /\ Held' = Held /\ TailIsLast' = TailIsLast
  BY <1>1, SameList
<1>3. TypeOK'
  BY <1>1 DEF HeapInv, TypeOK
<1>4. Shape(node, head, tail, count, pc, Chain)'
  BY <1>1, <1>2 DEF HeapInv
<1>5. TailFollows'
  BY <1>1, <1>2 DEF HeapInv, TailFollows
<1> QED
  BY <1>1, <1>2, <1>3, <1>4, <1>5 DEF HeapInv

\* The invariant holds of every run.
LEMMA HeapAlways == Spec => []HeapInv
<1>1. Init => HeapInv
  BY InitInv
<1>2. HeapInv /\ [Next]_vars => HeapInv'
  <2>1. ASSUME HeapInv, Next
        PROVE  HeapInv'
    BY <2>1, AddHeadInv, AddTailInv, RemoveNodeInv, RemoveStrInv, RemoveFirstInv, EmptyInv,
       RemoveLastInv DEF Next
  <2> QED
    BY <2>1, StutterInv
<1> QED
  BY <1>1, <1>2, PTL DEF Spec

\* What walking from head finds are the nodes of the list, whatever tail is.
THEOREM ChainIsTheList == Spec => []ListIsWhole
<1>1. HeapInv => ListIsWhole
  <2> SUFFICES ASSUME HeapInv
               PROVE  ListIsWhole
    OBVIOUS
  <2>1. Shape(node, head, tail, count, pc, Chain) /\ IsList(node, head, count, Chain)
    BY DEF HeapInv, Shape
  <2>2. /\ Walked(node, head, count, Chain)
        /\ \A i \in 1 .. count : Chain[i] \in DOMAIN node
        /\ \A i, j \in 1 .. count : Chain[i] = Chain[j] => i = j
        /\ \A a \in DOMAIN node : \E i \in 1 .. count : Chain[i] = a
    BY <2>1 DEF IsList
  <2>3. DOMAIN Chain = 1 .. count
    <3>1. Chain = [i \in 1 .. count |-> Chain[i]]
      BY <2>2 DEF Walked
    <3> QED
      BY <3>1
  <2>4. IsInjective(Chain)
    BY <2>2, <2>3 DEF IsInjective
  <2>5. Range(Chain) = DOMAIN node
    <3> DEFINE c == Chain
    <3>1. Range(c) = {c[i] : i \in 1 .. count}
      BY <2>3 DEF Range
    <3>2. /\ \A i \in 1 .. count : c[i] \in DOMAIN node
          /\ \A a \in DOMAIN node : \E i \in 1 .. count : c[i] = a
      BY <2>2
    <3> HIDE DEF c
    <3>3. Range(c) = DOMAIN node
      BY <3>1, <3>2
    <3> QED
      BY <3>3 DEF c
  <2> QED
    BY <2>1, <2>4, <2>5 DEF ListIsWhole, HeapInv, Shape
<1> QED
  BY <1>1, HeapAlways, PTL

\* The list of names and the queue of requests keep tail on the last node, so
\* no call of theirs follows a wrong one.
THEOREM NamesAndRequestsKeepTail == Spec => []TailFollows
<1>1. HeapInv => TailFollows
  BY DEF HeapInv
<1> QED
  BY <1>1, HeapAlways, PTL
-------------------------------------------------------------------------------
(* The pointers implement the list as a value.                             *)

AbsList == [items |-> Held, dangling |-> ~TailIsLast]

\* The abstract calls look for the node that the calls of the code find.
LEMMA PositionIs ==
  ASSUME HeapInv, NEW v \in Range(Held)
  PROVE  Abstract!Position(AbsList, v) = Index(v)
<1> DEFINE i == Index(v)
           p == Abstract!Position(AbsList, v)
<1>1. /\ i \in 1 .. count /\ Held[i] = v /\ \A j \in 1 .. i - 1 : Held[j] # v
      /\ Len(Held) = count /\ count \in Nat
  BY IndexIs, HeldIs
<1>2. p = CHOOSE l \in 1 .. Len(Held) : Held[l] = v /\ \A j \in 1 .. l - 1 : Held[j] # v
  BY DEF Abstract!Position, AbsList
<1>3. p \in 1 .. count /\ Held[p] = v /\ \A j \in 1 .. p - 1 : Held[j] # v
  <2> HIDE DEF i, p
  <2> QED
    BY <1>1, <1>2
<1> HIDE DEF i, p
<1>4. ~(p < i) /\ ~(i < p)
  <2>1. p < i => p \in 1 .. i - 1
    BY <1>1, <1>3
  <2>2. i < p => i \in 1 .. p - 1
    BY <1>1, <1>3
  <2> QED
    BY <1>1, <1>3, <2>1, <2>2
<1>5. p = i
  BY <1>1, <1>3, <1>4
<1> QED
  BY <1>5 DEF i, p

\* A new list is the empty value.
LEMMA InitImplements ==
  ASSUME Init
  PROVE  Abstract!Init
<1>1. Held = << >> /\ TailIsLast
  BY InitInv
<1>2. heap = "sound"
  BY DEF Init
<1> QED
  BY <1>1, <1>2 DEF Abstract!Init, Abstract!EmptyList

\* What the abstract calls make of a value.
LEMMA AbstractAddHead ==
  ASSUME NEW s, NEW b, NEW v, NEW l, l = [items |-> s, dangling |-> b]
  PROVE  Abstract!ll_add_head(l, v) = [items |-> << v >> \o s, dangling |-> b]
<1> DEFINE t == << v >> \o s
<1>1. Abstract!ll_add_head(l, v) = [l EXCEPT !.items = t]
  BY DEF Abstract!ll_add_head
<1> HIDE DEF t
<1>2. [l EXCEPT !.items = t] = [items |-> t, dangling |-> b]
  OBVIOUS
<1> QED
  BY <1>1, <1>2 DEF t

\* The same of ll_add_tail.
LEMMA AbstractAddTail ==
  ASSUME NEW s, NEW b, NEW v, NEW l, l = [items |-> s, dangling |-> b]
  PROVE  Abstract!ll_add_tail(l, v) = [items |-> Append(s, v), dangling |-> b]
<1> DEFINE t == Append(s, v)
<1>1. Abstract!ll_add_tail(l, v) = [l EXCEPT !.items = t]
  BY DEF Abstract!ll_add_tail
<1> HIDE DEF t
<1>2. [l EXCEPT !.items = t] = [items |-> t, dangling |-> b]
  OBVIOUS
<1> QED
  BY <1>1, <1>2 DEF t

\* ll_add_head.
LEMMA AddHeadImplements ==
  ASSUME HeapInv, NEW v \in Value, ll_add_head(v)
  PROVE  Abstract!AddHead(v)
<1>1. Held' = << v >> \o Held /\ TailIsLast' = TailIsLast /\ heap' = heap
  BY AddHeadInv
<1> DEFINE s == Held
           b == ~TailIsLast
<1>2. AbsList' = [items |-> << v >> \o s, dangling |-> b]
  BY <1>1 DEF AbsList
<1>3. Abstract!ll_add_head(AbsList, v) = [items |-> << v >> \o s, dangling |-> b]
  <2>1. AbsList = [items |-> s, dangling |-> b]
    BY DEF AbsList
  <2> HIDE DEF s, b
  <2> QED
    BY <2>1, AbstractAddHead
<1> QED
  BY <1>1, <1>2, <1>3 DEF Abstract!AddHead, Abstract!Becomes, AbsList

\* ll_add_tail.
LEMMA AddTailImplements ==
  ASSUME HeapInv, NEW v \in Value, ll_add_tail(v)
  PROVE  Abstract!AddTail(v)
<1>1. /\ TailIsLast => Held' = Append(Held, v) /\ TailIsLast' /\ heap' = heap
      /\ ~TailIsLast => Held' = Held /\ ~TailIsLast' /\ heap' = "corrupt"
  BY AddTailInv
<1>2. Abstract!TailIsSafe(AbsList) <=> TailIsLast
  BY DEF Abstract!TailIsSafe, AbsList
<1>3. CASE TailIsLast
  <2>1. AbsList = [items |-> Held, dangling |-> FALSE]
    BY <1>3 DEF AbsList
  <2>2. AbsList' = [items |-> Append(Held, v), dangling |-> FALSE]
    BY <1>1, <1>3 DEF AbsList
  <2>3. Abstract!ll_add_tail(AbsList, v) = [items |-> Append(Held, v), dangling |-> FALSE]
    BY <2>1, AbstractAddTail
  <2> QED
    BY <1>1, <1>2, <1>3, <2>2, <2>3
    DEF Abstract!AddTail, Abstract!FollowsTail, Abstract!Becomes, AbsList
<1>4. CASE ~TailIsLast
  <2>1. AbsList' = AbsList
    BY <1>1, <1>4 DEF AbsList
  <2> QED
    BY <1>1, <1>2, <1>4, <2>1 DEF Abstract!AddTail, Abstract!FollowsTail, AbsList
<1> QED
  BY <1>3, <1>4
\* The same of the calls that remove a node.
LEMMA AbstractRemovals ==
  ASSUME NEW s, NEW b, NEW v, NEW l, l = [items |-> s, dangling |-> b],
         NEW p, p = Abstract!Position(l, v)
  PROVE  /\ Abstract!ll_remove_first(l) = [items |-> Tail(s), dangling |-> b /\ Len(s) > 1]
         /\ Abstract!ll_remove_str(l, v) =
              [items |-> Lists!Without(s, p), dangling |-> b /\ Len(s) > 1]
         /\ Abstract!ll_remove_node(l, v) =
              [items    |-> Lists!Without(s, p),
               dangling |-> (b /\ Len(s) > 1) \/ (p > 1 /\ p = Len(s))]
<1>1. l.items = s /\ l.dangling = b
  OBVIOUS
<1>2. Abstract!ll_remove_first(l) = [items |-> Tail(s), dangling |-> b /\ Len(s) > 1]
  BY <1>1 DEF Abstract!ll_remove_first
<1>3. Abstract!Without(s, p) = Lists!Without(s, p)
  BY DEF Abstract!Without, Lists!Without
<1>4. Abstract!ll_remove_str(l, v) =
        [items |-> Lists!Without(s, p), dangling |-> b /\ Len(s) > 1]
  BY <1>1, <1>3 DEF Abstract!ll_remove_str
<1>5. Abstract!ll_remove_node(l, v) =
        [items    |-> Lists!Without(s, p),
         dangling |-> (b /\ Len(s) > 1) \/ (p > 1 /\ p = Len(s))]
  BY <1>1, <1>3 DEF Abstract!ll_remove_node
<1> QED
  BY <1>2, <1>4, <1>5

\* A value whose tail is right by luck.
LEMMA ByLuck ==
  ASSUME NEW t, NEW b, NEW l, l = [items |-> t, dangling |-> b], NEW e
  PROVE  [l EXCEPT !.dangling = e] = [items |-> t, dangling |-> e]
OBVIOUS

\* A value whose tail is told apart by cases.
LEMMA OrByLuckIs ==
  ASSUME NEW t, NEW b, NEW e, e \in BOOLEAN, b \in BOOLEAN, Held' = t, heap' = heap,
         NEW l, l = [items |-> t, dangling |-> b], AbsList.dangling = e,
         (~TailIsLast') = b \/ (e /\ TailIsLast')
  PROVE  Abstract!OrByLuck(l)
<1>1. CASE (~TailIsLast') = b
  <2>1. AbsList' = l
    BY <1>1 DEF AbsList
  <2> QED
    BY <2>1 DEF Abstract!OrByLuck, Abstract!Becomes, AbsList
<1>2. CASE e /\ TailIsLast'
  <2>1. AbsList' = [l EXCEPT !.dangling = FALSE]
    <3>1. AbsList' = [items |-> t, dangling |-> FALSE]
      BY <1>2 DEF AbsList
    <3> DEFINE f == FALSE
    <3>2. [l EXCEPT !.dangling = f] = [items |-> t, dangling |-> f]
      <4> HIDE DEF f
      <4> QED
        BY ByLuck
    <3> QED
      BY <3>1, <3>2
  <2>2. AbsList.dangling
    BY <1>2
  <2> QED
    BY <2>1, <2>2 DEF Abstract!OrByLuck, Abstract!Becomes, AbsList
<1> QED
  BY <1>1, <1>2

\* Something is held by a list that is not empty.
LEMMA SomethingHeld ==
  ASSUME HeapInv, count > 0
  PROVE  AbsList.items # << >> /\ Abstract!Values(AbsList) = Range(Held)
<1>1. Held \in Seq(Value) /\ Len(Held) = count /\ count \in Nat
  BY HeldIs
<1>2. Held # << >>
  BY <1>1
<1>3. AbsList.items = Held
  BY DEF AbsList
<1>4. Abstract!Values(AbsList) = Range(Held)
  BY <1>3 DEF Abstract!Values, Abstract!Range, Range
<1> QED
  BY <1>2, <1>3, <1>4

\* ll_remove_first.
LEMMA RemoveFirstImplements ==
  ASSUME HeapInv, ll_remove_first
  PROVE  Abstract!RemoveFirst
<1> DEFINE s == Held
           b == ~TailIsLast
<1>1. /\ count > 0 /\ heap' = heap
      /\ Held' = Lists!Without(s, 1)
      /\ TailIsLast' = (TailIsLast \/ count = 1)
  BY RemoveFirstInv
<1>2. s \in Seq(Value) /\ Len(s) = count /\ count \in Nat /\ s # << >>
  BY <1>1, HeldIs, SomethingHeld DEF AbsList
<1>3. Held' = Tail(s)
  BY <1>1, <1>2, WithoutFirst
<1>4. (~TailIsLast') = (b /\ Len(s) > 1)
  <2>1. count = 1 <=> ~(Len(s) > 1)
    BY <1>1, <1>2
  <2> QED
    BY <1>1, <2>1
<1>5. AbsList' = [items |-> Tail(s), dangling |-> b /\ Len(s) > 1]
  BY <1>3, <1>4 DEF AbsList
<1>6. Abstract!ll_remove_first(AbsList) = [items |-> Tail(s), dangling |-> b /\ Len(s) > 1]
  <2>1. AbsList = [items |-> s, dangling |-> b]
    BY DEF AbsList
  <2> HIDE DEF s, b
  <2> QED
    BY <2>1, AbstractRemovals
<1>7. AbsList.items # << >>
  BY <1>1, SomethingHeld
<1> QED
  BY <1>1, <1>5, <1>6, <1>7 DEF Abstract!RemoveFirst, Abstract!Becomes, AbsList

\* ll_remove_node.
LEMMA RemoveNodeImplements ==
  ASSUME HeapInv, NEW v \in Value, ll_remove_node(v)
  PROVE  Abstract!RemoveNode(v)
<1> DEFINE s == Held
           b == ~TailIsLast
           i == Index(v)
           e == (b /\ Len(s) > 1) \/ (i > 1 /\ i = Len(s))
<1>1. /\ v \in Range(Held) /\ count > 0 /\ heap' = heap
      /\ Held' = Lists!Without(s, i)
      /\ i = 1 => TailIsLast' = (TailIsLast \/ count = 1)
      /\ i # 1 /\ i # count => TailIsLast' = TailIsLast
      /\ i # 1 /\ i = count /\ TailIsLast => ~TailIsLast'
  BY RemoveNodeInv
<1>2. Len(s) = count /\ count \in Nat /\ i \in 1 .. count
  BY <1>1, HeldIs, IndexIs
<1>3. v \in Abstract!Values(AbsList)
  BY <1>1, SomethingHeld
<1>4. AbsList = [items |-> s, dangling |-> b] /\ AbsList.dangling = b
  BY DEF AbsList
<1>5. i = Abstract!Position(AbsList, v)
  BY <1>1, PositionIs
<1>6. Abstract!ll_remove_node(AbsList, v) = [items |-> Lists!Without(s, i), dangling |-> e]
  <2> HIDE DEF s, b, i
  <2> QED
    BY <1>4, <1>5, AbstractRemovals
<1>7. (~TailIsLast') = e \/ (b /\ TailIsLast')
  <2> HIDE DEF s, i
  <2>1. CASE i = 1
    <3>1. ~(i > 1) /\ (count = 1 <=> ~(Len(s) > 1))
      BY <1>1, <1>2, <2>1
    <3> QED
      BY <1>1, <2>1, <3>1
  <2>2. CASE i # 1 /\ i # count
    <3>1. i # Len(s) /\ Len(s) > 1
      BY <1>2, <2>2
    <3> QED
      BY <1>1, <2>2, <3>1
  <2>3. CASE i # 1 /\ i = count
    <3>1. e
      BY <1>2, <2>3
    <3> QED
      BY <1>1, <2>3, <3>1
  <2> QED
    BY <2>1, <2>2, <2>3
<1>8. e \in BOOLEAN /\ b \in BOOLEAN
  OBVIOUS
<1> HIDE DEF s, b, i, e
<1>9. Abstract!OrByLuck(Abstract!ll_remove_node(AbsList, v))
  BY <1>1, <1>4, <1>6, <1>7, <1>8, OrByLuckIs
<1> QED
  BY <1>3, <1>9 DEF Abstract!RemoveNode, AbsList

\* ll_remove_str.
LEMMA RemoveStrImplements ==
  ASSUME HeapInv, NEW v \in Value, ll_remove_str(v)
  PROVE  Abstract!RemoveStr(v)
<1> DEFINE s == Held
           b == ~TailIsLast
           i == Index(v)
           e == b /\ Len(s) > 1
<1>1. /\ v \in Range(Held) /\ count > 0 /\ heap' = heap
      /\ Held' = Lists!Without(s, i)
      /\ TailIsLast => TailIsLast'
      /\ count = 1 => TailIsLast'
  BY RemoveStrInv
<1>2. Len(s) = count /\ count \in Nat
  BY HeldIs
<1>3. v \in Abstract!Values(AbsList)
  BY <1>1, SomethingHeld
<1>4. AbsList = [items |-> s, dangling |-> b] /\ AbsList.dangling = b
  BY DEF AbsList
<1>5. i = Abstract!Position(AbsList, v)
  BY <1>1, PositionIs
<1>6. Abstract!ll_remove_str(AbsList, v) = [items |-> Lists!Without(s, i), dangling |-> e]
  <2> HIDE DEF s, b, i
  <2> QED
    BY <1>4, <1>5, AbstractRemovals
<1>7. (~TailIsLast') = e \/ (b /\ TailIsLast')
  <2>1. count = 1 <=> ~(Len(s) > 1)
    BY <1>1, <1>2
  <2> QED
    BY <1>1, <2>1
<1>8. e \in BOOLEAN /\ b \in BOOLEAN
  OBVIOUS
<1> HIDE DEF s, b, i, e
<1>9. Abstract!OrByLuck(Abstract!ll_remove_str(AbsList, v))
  BY <1>1, <1>4, <1>6, <1>7, <1>8, OrByLuckIs
<1> QED
  BY <1>3, <1>9 DEF Abstract!RemoveStr, AbsList

\* ll_remove_last.
LEMMA RemoveLastImplements ==
  ASSUME HeapInv, ll_remove_last
  PROVE  Abstract!RemoveLast
<1>1. /\ count > 0
      /\ TailIsLast => Held' = Lists!Without(Held, count) /\ TailIsLast' /\ heap' = heap
      /\ ~TailIsLast => Held' = Held /\ ~TailIsLast' /\ heap' = "corrupt"
  BY RemoveLastInv
<1>2. AbsList.items # << >>
  BY <1>1, SomethingHeld
<1>3. Abstract!TailIsSafe(AbsList) <=> TailIsLast
  BY DEF Abstract!TailIsSafe, AbsList
<1> DEFINE t == SubSeq(Held, 1, Len(Held) - 1)
           l == [AbsList EXCEPT !.items = SubSeq(@, 1, Len(@) - 1)]
<1>4. CASE TailIsLast
  <2>1. AbsList = [items |-> Held, dangling |-> FALSE]
    BY <1>4 DEF AbsList
  <2>2. Held' = t
    <3>1. Held \in Seq(Value) /\ Len(Held) = count /\ Held # << >>
      BY <1>2, HeldIs DEF AbsList
    <3> QED
      BY <1>1, <1>4, <3>1, WithoutLast
  <2>3. AbsList' = [items |-> t, dangling |-> FALSE]
    BY <1>1, <1>4, <2>2 DEF AbsList
  <2>4. l = [items |-> t, dangling |-> FALSE]
    <3>1. AbsList.items = Held
      BY <2>1
    <3>2. l = [AbsList EXCEPT !.items = t]
      BY <3>1
    <3> HIDE DEF l, t
    <3> QED
      BY <2>1, <3>2
  <2> QED
    BY <1>1, <1>2, <1>3, <1>4, <2>3, <2>4
    DEF Abstract!RemoveLast, Abstract!FollowsTail, Abstract!Becomes, AbsList
<1>5. CASE ~TailIsLast
  <2>1. AbsList' = AbsList
    BY <1>1, <1>5 DEF AbsList
  <2> QED
    BY <1>1, <1>2, <1>3, <1>5, <2>1 DEF Abstract!RemoveLast, Abstract!FollowsTail, AbsList
<1> QED
  BY <1>4, <1>5

\* Steps that the abstract list does not see.
LEMMA AbstractStutter ==
  ASSUME Held' = Held, TailIsLast' = TailIsLast, heap' = heap
  PROVE  UNCHANGED Abstract!vars
<1>1. AbsList' = AbsList
  BY DEF AbsList
<1> QED
  BY <1>1 DEF Abstract!vars, AbsList

\* Every step of the pointers is a step of the value, or none.
LEMMA StepImplements ==
  ASSUME HeapInv, [Next]_vars
  PROVE  [Abstract!Next]_(Abstract!vars)
<1>1. ASSUME NEW v \in Value, ll_add_head(v)
      PROVE  Abstract!Next
  BY <1>1, AddHeadImplements DEF Abstract!Next, ll_add_head, Calls
<1>2. ASSUME NEW v \in Value, ll_add_tail(v)
      PROVE  Abstract!Next
  BY <1>2, AddTailImplements DEF Abstract!Next, ll_add_tail, Calls
<1>3. ASSUME NEW v \in Value, ll_remove_node(v)
      PROVE  Abstract!Next
  BY <1>3, RemoveNodeImplements DEF Abstract!Next, ll_remove_node, Calls
<1>4. ASSUME NEW v \in Value, ll_remove_str(v)
      PROVE  Abstract!Next
  BY <1>4, RemoveStrImplements DEF Abstract!Next, ll_remove_str, Calls
<1>5. ASSUME ll_remove_first
      PROVE  Abstract!Next
  BY <1>5, RemoveFirstImplements DEF Abstract!Next, ll_remove_first, Calls
<1>6. ASSUME ll_remove_last
      PROVE  Abstract!Next
  BY <1>6, RemoveLastImplements DEF Abstract!Next, ll_remove_last
<1>7. ASSUME ll_empty
      PROVE  UNCHANGED Abstract!vars
  BY <1>7, EmptyInv, AbstractStutter
<1>8. ASSUME UNCHANGED vars
      PROVE  UNCHANGED Abstract!vars
  BY <1>8, StutterInv, AbstractStutter
<1> QED
  BY <1>1, <1>2, <1>3, <1>4, <1>5, <1>6, <1>7, <1>8 DEF Next

\* The pointers of linked_list.c behave like the value that the models of the
\* store and of the server use, up to the call that follows a wrong tail.
THEOREM PointersImplementList == Spec => ImplementsList
<1>1. Init => Abstract!Init
  BY InitImplements
<1>2. HeapInv /\ [Next]_vars => [Abstract!Next]_(Abstract!vars)
  BY StepImplements
<1> QED
  BY <1>1, <1>2, HeapAlways, PTL DEF Spec, ImplementsList, Abstract!Spec
===============================================================================

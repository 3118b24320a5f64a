-------------------------- MODULE NodeListsProofs --------------------------
(***************************************************************************)
(* Proofs about nodeLists of leader.go, as NodeAssignment models it (Rank, *)
(* Owner and NodeList): dealing a sorted list of nodes out round robin     *)
(* gives every node to exactly one instance, and no instance two nodes     *)
(* more than another.                                                      *)
(***************************************************************************)
EXTENDS NodeAssignment, FiniteSetTheorems, TLAPS

\* A list to be sorted: a finite set of names.
FiniteNames == {S \in SUBSET Nat : IsFiniteSet(S)}

-----------------------------------------------------------------------------
(***************************************************************************)
(* Remainders                                                              *)
(***************************************************************************)

\* A number is made of whole turns and a remainder ...
LEMMA Division ==
  ASSUME NEW r \in Nat, NEW k \in Nat \ {0}
  PROVE  (r % k) \in 0..(k - 1) /\ \E q \in Nat : r = k * q + (r % k)
<1>1. (r % k) \in 0..(k - 1) /\ (r \div k) \in Int
  OBVIOUS
<1>2. r = k * (r \div k) + (r % k)
  OBVIOUS
<1>3. (r \div k) >= 0
  BY <1>1, <1>2
<1>4. (r \div k) \in Nat
  BY <1>1, <1>3
<1> QED BY <1>1, <1>2, <1>4

\* ... and the remainder is what is left of whole turns.
LEMMA RemainderOf ==
  ASSUME NEW q \in Nat, NEW k \in Nat \ {0}, NEW j \in 0..(k - 1)
  PROVE  ((k * q + j) % k) = j
  OBVIOUS

\* The number with another remainder in the same turn, or in the turn before.
LEMMA Neighbour ==
  ASSUME NEW r \in Nat, NEW k \in Nat \ {0}, NEW i \in 0..(k - 1), (r % k) = i,
         NEW j \in 0..(k - 1)
  PROVE  /\ j <= i => (r - i) + j \in 0..r /\ (((r - i) + j) % k) = j
         /\ i < j /\ k <= r => (r - i) + j - k \in 0..r /\ (((r - i) + j - k) % k) = j
         /\ r < k => r = i
<1>1. PICK q \in Nat : r = k * q + i
  BY Division
<1>2. j <= i => (r - i) + j \in 0..r /\ (((r - i) + j) % k) = j
  <2>1. (r - i) + j = k * q + j
    BY <1>1
  <2> QED BY <1>1, <2>1, RemainderOf
<1>3. ASSUME i < j, k <= r
      PROVE  (r - i) + j - k \in 0..r /\ (((r - i) + j - k) % k) = j
  <2>1. q # 0
    BY <1>1, <1>3
  <2>2. (r - i) + j - k = k * (q - 1) + j /\ q - 1 \in Nat
    BY <1>1, <2>1
  <2>3. ((k * (q - 1) + j) % k) = j
    BY <2>2, RemainderOf
  <2>4. k * (q - 1) \in Nat
    BY <2>2
  <2> QED BY <1>3, <2>2, <2>3, <2>4
<1>4. r < k => r = i
  OBVIOUS
<1> QED BY <1>2, <1>3, <1>4

-----------------------------------------------------------------------------
(***************************************************************************)
(* Ranks: a sorted list has one name at every place                        *)
(***************************************************************************)

\* The place of a name in a sorted list is a number.
LEMMA RankType ==
  ASSUME NEW S \in FiniteNames, NEW x \in Nat
  PROVE  Rank(x, S) \in Nat
  BY FS_Subset, FS_CardinalityType DEF FiniteNames, Rank

\* A later name has a later place.
LEMMA RankGrows ==
  ASSUME NEW S \in FiniteNames, NEW x \in S, NEW y \in S, x < y
  PROVE  Rank(x, S) < Rank(y, S)
<1> DEFINE A == {z \in S : z < x}
           B == {z \in S : z < y}
<1>1. A \subseteq B /\ x \in B /\ x \notin A
  <2>1. S \subseteq Nat /\ x \in Nat /\ y \in Nat
    BY DEF FiniteNames
  <2>2. ~(x < x) /\ \A z \in S : z < x => z < y
    BY <2>1
  <2> QED BY <2>2
<1>2. IsFiniteSet(B)
  BY FS_Subset DEF FiniteNames
<1>3. Cardinality(A) <= Cardinality(B) /\ Cardinality(A) # Cardinality(B)
  BY <1>1, <1>2, FS_Subset
<1>4. Cardinality(A) \in Nat /\ Cardinality(B) \in Nat
  BY <1>1, <1>2, FS_Subset, FS_CardinalityType
<1> QED BY <1>3, <1>4 DEF Rank

\* Places are below the length of the list.
LEMMA RankBelow ==
  ASSUME NEW S \in FiniteNames, NEW x \in S
  PROVE  Rank(x, S) \in 0..(Cardinality(S) - 1)
<1> DEFINE A == {z \in S : z < x}
<1>1. A \in SUBSET S /\ x \notin A
  BY DEF FiniteNames
<1>2. /\ IsFiniteSet(A) /\ Cardinality(A) <= Cardinality(S)
      /\ Cardinality(A) # Cardinality(S)
  BY <1>1, FS_Subset DEF FiniteNames
<1>3. Cardinality(A) \in Nat /\ Cardinality(S) \in Nat
  BY <1>2, FS_CardinalityType DEF FiniteNames
<1> QED BY <1>2, <1>3 DEF Rank

\* No two names have the same place.
LEMMA RankInjective ==
  ASSUME NEW S \in FiniteNames, NEW x \in S, NEW y \in S, Rank(x, S) = Rank(y, S)
  PROVE  x = y
<1>1. x \in Nat /\ y \in Nat
  BY DEF FiniteNames
<1>2. ~(x < y) /\ ~(y < x)
  BY RankGrows, RankType, <1>1
<1> QED BY <1>1, <1>2

\* Every place is taken.
LEMMA RankOnto ==
  ASSUME NEW S \in FiniteNames, NEW i \in 0..(Cardinality(S) - 1)
  PROVE  \E x \in S : Rank(x, S) = i
<1> DEFINE T == 0..(Cardinality(S) - 1)
           f == [x \in S |-> Rank(x, S)]
<1>1. Cardinality(S) \in Nat
  BY FS_CardinalityType DEF FiniteNames
<1>2. IsFiniteSet(T) /\ Cardinality(T) = Cardinality(S)
  BY <1>1, FS_Interval
<1>3. f \in Injection(S, T)
  BY RankBelow, RankInjective DEF Injection, IsInjective
<1>4. f \in Surjection(S, T)
  BY <1>2, <1>3, FS_Injection
<1> QED BY <1>4 DEF Surjection

-----------------------------------------------------------------------------
(***************************************************************************)
(* The lists                                                               *)
(***************************************************************************)

\* nodeLists gives every node to the one instance whose number is the node's number
\* modulo the number of instances.
LEMMA OwnerIs ==
  ASSUME NEW nodes \in FiniteNames, NEW insts \in FiniteNames, insts # {},
         NEW n \in nodes
  PROVE  /\ Owner(n, nodes, insts) \in insts
         /\ \A a \in insts :
              Owner(n, nodes, insts) = a
                <=> Rank(a, insts) = (Rank(n, nodes) % Cardinality(insts))
<1> DEFINE k == Cardinality(insts)
           i == Rank(n, nodes) % k
<1>1. k \in Nat \ {0}
  BY FS_CardinalityType, FS_EmptySet DEF FiniteNames
<1>2. n \in Nat
  BY DEF FiniteNames
<1>3. i \in 0..(k - 1)
  BY <1>1, <1>2, RankType, Division
<1>4. \E a \in insts : Rank(a, insts) = i
  BY <1>3, RankOnto
<1>5. Owner(n, nodes, insts) \in insts /\ Rank(Owner(n, nodes, insts), insts) = i
  BY <1>4 DEF Owner
<1> QED BY <1>5, RankInjective

\* The nodes of instance a.
Dealt(a, nodes, insts) == {n \in nodes : Owner(n, nodes, insts) = a}

\* The nodes of one instance can be counted.
LEMMA DealtFinite ==
  ASSUME NEW nodes \in FiniteNames, NEW a, NEW insts
  PROVE  /\ IsFiniteSet(Dealt(a, nodes, insts))
         /\ Cardinality(Dealt(a, nodes, insts)) \in Nat
  BY FS_Subset, FS_CardinalityType DEF FiniteNames, Dealt

\* A set of nodes of a no two of which have the same neighbour among those of b is
\* not larger than the nodes of b.
LEMMA InjectionBound ==
  ASSUME NEW nodes \in FiniteNames, NEW A \in SUBSET nodes, NEW B \in SUBSET nodes,
         NEW shift \in Int,
         \A n \in A : \E m \in B : Rank(m, nodes) = Rank(n, nodes) + shift
  PROVE  Cardinality(A) <= Cardinality(B)
<1> DEFINE f == [n \in A |-> CHOOSE m \in B : Rank(m, nodes) = Rank(n, nodes) + shift]
<1>1. \A n \in A : f[n] \in B /\ Rank(f[n], nodes) = Rank(n, nodes) + shift
  OBVIOUS
<1>2. \A x, y \in A : f[x] = f[y] => x = y
  <2> SUFFICES ASSUME NEW x \in A, NEW y \in A, f[x] = f[y] PROVE x = y
    OBVIOUS
  <2>1. Rank(x, nodes) + shift = Rank(y, nodes) + shift
    BY <1>1
  <2>2. Rank(x, nodes) \in Nat /\ Rank(y, nodes) \in Nat
    BY RankType DEF FiniteNames
  <2>3. Rank(x, nodes) = Rank(y, nodes)
    BY <2>1, <2>2
  <2> QED BY <2>3, RankInjective
<1>3. f \in Injection(A, B)
  BY <1>1, <1>2 DEF Injection, IsInjective
<1>4. IsFiniteSet(B)
  BY FS_Subset DEF FiniteNames
<1> QED BY <1>3, <1>4, FS_Injection

\* The node with another remainder in the same turn, or in the turn before.
LEMMA NeighbourNode ==
  ASSUME NEW nodes \in FiniteNames, NEW k \in Nat \ {0}, NEW i \in 0..(k - 1),
         NEW j \in 0..(k - 1), NEW n \in nodes, (Rank(n, nodes) % k) = i
  PROVE  /\ j <= i => \E m \in nodes : /\ Rank(m, nodes) = Rank(n, nodes) + (j - i)
                                      /\ (Rank(m, nodes) % k) = j
         /\ i < j /\ k <= Rank(n, nodes) =>
              \E m \in nodes : /\ Rank(m, nodes) = Rank(n, nodes) + (j - i - k)
                              /\ (Rank(m, nodes) % k) = j
         /\ Rank(n, nodes) < k => Rank(n, nodes) = i
<1>1. Cardinality(nodes) \in Nat
  BY FS_CardinalityType DEF FiniteNames
<1>2. PICK r \in 0..(Cardinality(nodes) - 1) : r = Rank(n, nodes)
  BY RankBelow
<1>3. /\ j <= i => (r - i) + j \in 0..r /\ (((r - i) + j) % k) = j
      /\ i < j /\ k <= r => (r - i) + j - k \in 0..r /\ (((r - i) + j - k) % k) = j
      /\ r < k => r = i
  <2>1. r \in Nat /\ (r % k) = i
    BY <1>1, <1>2
  <2> QED BY <2>1, Neighbour
<1>4. \A x \in 0..r : \E m \in nodes : Rank(m, nodes) = x
  BY <1>1, RankOnto
<1>5. (r - i) + j = r + (j - i) /\ (r - i) + j - k = r + (j - i - k)
  BY <1>1
<1> QED BY <1>2, <1>3, <1>4, <1>5

\* "divided evenly": of two instances in one round, neither has two nodes more than
\* the other.
THEOREM DealtEvenly ==
  ASSUME NEW nodes \in FiniteNames, NEW insts \in FiniteNames,
         NEW a \in insts, NEW b \in insts
  PROVE  Cardinality(Dealt(a, nodes, insts)) <= Cardinality(Dealt(b, nodes, insts)) + 1
<1> DEFINE k == Cardinality(insts)
           i == Rank(a, insts)
           j == Rank(b, insts)
           A == Dealt(a, nodes, insts)
           B == Dealt(b, nodes, insts)
<1>1. k \in Nat \ {0}
  BY FS_CardinalityType, FS_EmptySet DEF FiniteNames
<1>2. i \in 0..(k - 1) /\ j \in 0..(k - 1)
  BY RankBelow
<1>3. \A n \in nodes : /\ n \in A <=> (Rank(n, nodes) % k) = i
                       /\ n \in B <=> (Rank(n, nodes) % k) = j
  BY OwnerIs DEF Dealt
<1>4. \A n \in nodes : Rank(n, nodes) \in Nat
  BY RankType DEF FiniteNames
<1>5. /\ A \in SUBSET nodes /\ B \in SUBSET nodes
      /\ Cardinality(A) \in Nat /\ Cardinality(B) \in Nat
  BY DealtFinite DEF Dealt
<1> HIDE DEF k, i, j
<1>6. CASE j <= i
  <2>1. ASSUME NEW n \in A
        PROVE  \E m \in B : Rank(m, nodes) = Rank(n, nodes) + (j - i)
    <3>1. n \in nodes /\ (Rank(n, nodes) % k) = i
      BY <1>3, <1>5
    <3>2. PICK m \in nodes : /\ Rank(m, nodes) = Rank(n, nodes) + (j - i)
                             /\ (Rank(m, nodes) % k) = j
      BY <1>1, <1>2, <1>6, <3>1, NeighbourNode
    <3> QED BY <1>3, <3>2
  <2>2. Cardinality(A) <= Cardinality(B)
    BY <1>2, <1>5, <2>1, InjectionBound
  <2> QED BY <1>5, <2>2
<1>7. CASE i < j
  <2> DEFINE First == {n \in A : Rank(n, nodes) < k}
             Later == A \ First
  <2>1. ASSUME NEW n \in Later
        PROVE  \E m \in B : Rank(m, nodes) = Rank(n, nodes) + (j - i - k)
    <3>1. n \in nodes /\ (Rank(n, nodes) % k) = i /\ k <= Rank(n, nodes)
      BY <1>1, <1>3, <1>4, <1>5
    <3>2. PICK m \in nodes : /\ Rank(m, nodes) = Rank(n, nodes) + (j - i - k)
                             /\ (Rank(m, nodes) % k) = j
      BY <1>1, <1>2, <1>7, <3>1, NeighbourNode
    <3> QED BY <1>3, <3>2
  <2>2. Cardinality(Later) <= Cardinality(B)
    BY <1>1, <1>2, <1>5, <2>1, InjectionBound
  <2>3. \A n \in First : Rank(n, nodes) = i
    BY <1>1, <1>2, <1>3, <1>5, NeighbourNode
  <2>4. \A x, y \in First : x = y
    BY <1>5, <2>3, RankInjective
  <2>5. IsFiniteSet(First) /\ Cardinality(First) <= 1 /\ Cardinality(First) \in Nat
    <3>1. First = {} \/ \E x : First = {x}
      BY <2>4
    <3>2. CASE First = {}
      BY <3>2, FS_EmptySet
    <3>3. CASE \E x : First = {x}
      <4>1. PICK x : First = {x}
        BY <3>3
      <4>2. IsFiniteSet({x}) /\ Cardinality({x}) = 1
        BY FS_Singleton
      <4> QED BY <4>1, <4>2
    <3> QED BY <3>1, <3>2, <3>3
  <2>6. IsFiniteSet(A) /\ Cardinality(A) = Cardinality(Later) + Cardinality(First)
    <3>1. IsFiniteSet(A)
      BY DealtFinite
    <3>2. Cardinality(A \ First) = Cardinality(A) - Cardinality(A \cap First)
      BY <3>1, FS_Difference
    <3>3. A \cap First = First
      OBVIOUS
    <3> QED BY <1>5, <2>5, <3>1, <3>2, <3>3
  <2>7. Cardinality(Later) \in Nat
    BY <2>6, FS_Subset, FS_CardinalityType
  <2> QED BY <1>5, <2>2, <2>5, <2>6, <2>7
<1> QED BY <1>2, <1>6, <1>7

\* Every node of a round is on the list of one instance of the round, and of no
\* other: nodeLists loses none and doubles none.
THEOREM DealtOnce ==
  ASSUME NEW nodes \in FiniteNames, NEW insts \in FiniteNames, insts # {}
  PROVE  /\ UNION {Dealt(a, nodes, insts) : a \in insts} = nodes
         /\ \A a, b \in insts :
              a # b => Dealt(a, nodes, insts) \cap Dealt(b, nodes, insts) = {}
  BY OwnerIs DEF Dealt
=============================================================================

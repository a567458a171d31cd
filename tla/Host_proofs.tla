------------------------------ MODULE Host_proofs ------------------------------
(***************************************************************************)
(* Machine-checked proofs about the Windows host. About its pure parts     *)
(* (HostData): the lists it sorts and picks from, the hooks.json it        *)
(* rewrites, the pairing offers, codes and links it makes and reads, for   *)
(* every set of inputs. About the host's credential and its service: about *)
(* Pairing, for every number of codes, attempts, ticks, offers and tokens; *)
(* about SyncServer, for any set of connections and tokens and any number  *)
(* of payloads and pending token changes; and about the two of them in one *)
(* process (HostServer).                                                   *)
(***************************************************************************)
EXTENDS HostServer, HostData, TLAPS, FiniteSetTheorems, FunctionTheorems, WellFoundedInduction

StrictOrder(R, S) ==
  /\ \A x, y \in S : <<x, y>> \in R => <<y, x>> \notin R
  /\ \A x, y, z \in S : <<x, y>> \in R /\ <<y, z>> \in R => <<x, z>> \in R
  /\ \A x, y \in S : x # y => <<x, y>> \in R \/ <<y, x>> \in R

(* The rank of a member is the number of members before it.                *)
LEMMA RankIsABijection ==
  ASSUME NEW S, IsFiniteSet(S), NEW R, StrictOrder(R, S),
         NEW n, n = Cardinality(S),
         NEW rank, rank = [x \in S |-> Cardinality({y \in S : <<y, x>> \in R})]
  PROVE  /\ n \in Nat
         /\ rank \in [S -> 0..(n - 1)]
         /\ \A x, y \in S : <<x, y>> \in R <=> rank[x] < rank[y]
         /\ \A k \in 0..(n - 1) : \E x \in S : rank[x] = k
<1> DEFINE below(x) == {y \in S : <<y, x>> \in R}
<1>1. n \in Nat
  BY FS_CardinalityType
<1>2. ASSUME NEW x \in S
      PROVE  IsFiniteSet(below(x)) /\ Cardinality(below(x)) \in 0..(n - 1)
  <2>1. x \notin below(x)
    BY DEF StrictOrder
  <2>2. below(x) \in SUBSET (S \ {x})
    BY <2>1
  <2>3. IsFiniteSet(S \ {x}) /\ Cardinality(S \ {x}) = n - 1
    BY FS_RemoveElement
  <2>4. IsFiniteSet(below(x)) /\ Cardinality(below(x)) <= n - 1
    <3> HIDE DEF below
    <3> QED
      BY <2>2, <2>3, FS_Subset
  <2>5. Cardinality(below(x)) \in Nat
    <3> HIDE DEF below
    <3> QED
      BY <2>4, FS_CardinalityType
  <2> QED
    BY <1>1, <2>4, <2>5
<1>3. rank \in [S -> 0..(n - 1)]
  BY <1>2
<1>4. ASSUME NEW x \in S, NEW y \in S, <<x, y>> \in R
      PROVE  rank[x] < rank[y]
  <2>1. below(x) \in SUBSET below(y) /\ below(x) # below(y)
    BY <1>4 DEF StrictOrder
  <2>2. IsFiniteSet(below(x)) /\ IsFiniteSet(below(y))
    BY <1>2
  <2>3. rank[x] = Cardinality(below(x)) /\ rank[y] = Cardinality(below(y))
    OBVIOUS
  <2> HIDE DEF below
  <2>4. Cardinality(below(x)) <= Cardinality(below(y))
        /\ Cardinality(below(y)) # Cardinality(below(x))
    BY <2>1, <2>2, FS_Subset
  <2>5. Cardinality(below(x)) \in Nat /\ Cardinality(below(y)) \in Nat
    BY <2>2, FS_CardinalityType
  <2> QED
    BY <2>3, <2>4, <2>5
<1>5. \A x, y \in S : <<x, y>> \in R <=> rank[x] < rank[y]
  <2> SUFFICES ASSUME NEW x \in S, NEW y \in S, rank[x] < rank[y]
               PROVE  <<x, y>> \in R
    BY <1>4
  <2>1. rank[x] \in Int /\ rank[y] \in Int
    BY <1>3, <1>1
  <2>2. x # y
    BY <2>1
  <2>3. <<y, x>> \notin R
    BY <1>4, <2>1
  <2> QED
    BY <2>2, <2>3 DEF StrictOrder
<1>6. \A k \in 0..(n - 1) : \E x \in S : rank[x] = k
  <2>1. rank \in Injection(S, 0..(n - 1))
    <3>1. ASSUME NEW x \in S, NEW y \in S, x # y
          PROVE  rank[x] # rank[y]
      <4>1. <<x, y>> \in R \/ <<y, x>> \in R
        BY <3>1 DEF StrictOrder
      <4>2. rank[x] \in Int /\ rank[y] \in Int
        BY <1>3, <1>1
      <4>3. rank[x] < rank[y] \/ rank[y] < rank[x]
        BY <1>4, <4>1
      <4> QED
        BY <4>2, <4>3
    <3> QED
      BY <1>3, <3>1 DEF Injection, IsInjective
  <2>2. IsFiniteSet(0..(n - 1)) /\ Cardinality(0..(n - 1)) = n
    <3>1. n - 1 \in Int /\ 0 \in Int
      BY <1>1
    <3>2. Cardinality(0..(n - 1)) = IF 0 > n - 1 THEN 0 ELSE (n - 1) - 0 + 1
      BY <3>1, FS_Interval
    <3> QED
      BY <1>1, <3>1, <3>2, FS_Interval
  <2>3. rank \in Surjection(S, 0..(n - 1))
    BY <2>1, <2>2, FS_Injection
  <2> QED
    BY <2>3 DEF Surjection
<1> QED
  BY <1>1, <1>3, <1>5, <1>6

(* Sorted lists each member once, in the order given.                      *)
LEMMA SortedIsInOrder ==
  ASSUME NEW S, IsFiniteSet(S), NEW R, StrictOrder(R, S),
         NEW q, q = Sorted(S, R)
  PROVE  /\ Cardinality(S) \in Nat
         /\ q \in [1..Cardinality(S) -> S]
         /\ \A i, j \in 1..Cardinality(S) : i < j <=> <<q[i], q[j]>> \in R
         /\ \A x \in S : \E i \in 1..Cardinality(S) : q[i] = x
<1> DEFINE n == Cardinality(S)
           rank == [x \in S |-> Cardinality({y \in S : <<y, x>> \in R})]
<1>0. /\ q = [i \in 1..n |-> CHOOSE x \in S : Cardinality({y \in S : <<y, x>> \in R}) = i - 1]
      /\ \A x \in S : rank[x] = Cardinality({y \in S : <<y, x>> \in R})
  BY DEF Sorted
<1>1. /\ n \in Nat
      /\ rank \in [S -> 0..(n - 1)]
      /\ \A x, y \in S : <<x, y>> \in R <=> rank[x] < rank[y]
      /\ \A k \in 0..(n - 1) : \E x \in S : rank[x] = k
  <2>1. rank = [x \in S |-> Cardinality({y \in S : <<y, x>> \in R})] /\ n = Cardinality(S)
    OBVIOUS
  <2> HIDE DEF rank, n
  <2> QED
    BY <2>1, RankIsABijection
<1> HIDE DEF rank, n
<1>2. ASSUME NEW i \in 1..n
      PROVE  q[i] \in S /\ rank[q[i]] = i - 1
  <2>1. i - 1 \in 0..(n - 1)
    BY <1>1
  <2>2. \E x \in S : Cardinality({y \in S : <<y, x>> \in R}) = i - 1
    BY <1>0, <1>1, <2>1
  <2>3. /\ q[i] \in S
        /\ Cardinality({y \in S : <<y, q[i]>> \in R}) = i - 1
    BY <1>0, <2>2
  <2> QED
    BY <1>0, <2>3
<1>3. \A i, j \in 1..n : i < j <=> <<q[i], q[j]>> \in R
  BY <1>1, <1>2
<1>4. ASSUME NEW x \in S
      PROVE  \E i \in 1..n : q[i] = x
  <2>1. rank[x] + 1 \in 1..n
    BY <1>1
  <2>2. rank[q[rank[x] + 1]] = rank[x] /\ q[rank[x] + 1] \in S
    BY <1>1, <1>2, <2>1
  <2>3. <<x, q[rank[x] + 1]>> \notin R /\ <<q[rank[x] + 1], x>> \notin R
    BY <1>1, <2>2
  <2> QED
    BY <2>1, <2>2, <2>3 DEF StrictOrder
<1>5. q \in [1..n -> S]
  BY <1>0, <1>2
<1> QED
  BY <1>1, <1>3, <1>4, <1>5 DEF n

(* Of any natural numbers one is the least.                                *)
LEMMA NatMin ==
  ASSUME NEW T, T \subseteq Nat, T # {}
  PROVE  \E n \in T : \A m \in T : n <= m
<1> DEFINE R == OpToRel(<, Nat)
<1>1. IsWellFoundedOn(R, Nat)
  BY NatLessThanWellFounded
<1>2. PICK n \in T : \A m \in T : <<m, n>> \notin R
  <2> HIDE DEF R
  <2> QED BY <1>1, WFMin
<1>3. \A m \in T : ~(m < n)
  BY <1>2 DEF OpToRel
<1> HIDE DEF R
<1> QED
  BY <1>3, <1>2

(* All the members of S, in the order R.                                   *)
Listing(q, n, S, R) ==
  /\ n \in Nat /\ q \in [1..n -> S]
  /\ \A i, j \in 1..n : i < j => <<q[i], q[j]>> \in R
  /\ \A x \in S : \E i \in 1..n : q[i] = x

(* There is only one way to list a set in an order.                        *)
LEMMA SortedIsUnique ==
  ASSUME NEW S, IsFiniteSet(S), NEW R, StrictOrder(R, S),
         NEW n, NEW q, Listing(q, n, S, R)
  PROVE  Cardinality(S) = n /\ Sorted(S, R) = q
<1>0. /\ n \in Nat /\ q \in [1..n -> S]
      /\ \A i, j \in 1..n : i < j => <<q[i], q[j]>> \in R
      /\ \A x \in S : \E i \in 1..n : q[i] = x
  BY DEF Listing
<1> USE <1>0
<1>1. ASSUME NEW i \in 1..n, NEW j \in 1..n
      PROVE  /\ (q[i] = q[j]) = (i = j)
             /\ (<<q[i], q[j]>> \in R) = (i < j)
  <2>1. q[i] \in S /\ q[j] \in S /\ i \in Int /\ j \in Int
    OBVIOUS
  <2>2. CASE i < j
    <3>1. <<q[i], q[j]>> \in R
      BY <2>2
    <3> QED
      BY <2>1, <2>2, <3>1 DEF StrictOrder
  <2>3. CASE j < i
    <3>1. <<q[j], q[i]>> \in R
      BY <2>3
    <3>2. q[i] # q[j] /\ <<q[i], q[j]>> \notin R
      BY <2>1, <3>1 DEF StrictOrder
    <3> QED
      BY <2>1, <2>3, <3>2
  <2>4. CASE i = j
    <3>1. <<q[i], q[i]>> \notin R
      BY <2>1 DEF StrictOrder
    <3> QED
      BY <2>1, <2>4, <3>1
  <2> QED
    BY <2>1, <2>2, <2>3, <2>4
<1>2. q \in Bijection(1..n, S)
  BY <1>1 DEF Bijection, Injection, Surjection, IsInjective
<1>3. IsFiniteSet(1..n) /\ Cardinality(1..n) = n
  <2>1. 1 \in Int /\ n \in Int
    OBVIOUS
  <2>2. Cardinality(1..n) = IF 1 > n THEN 0 ELSE n - 1 + 1
    BY <2>1, FS_Interval
  <2> QED
    BY <2>1, <2>2, FS_Interval
<1>4. Cardinality(S) = n
  BY <1>2, <1>3, FS_Bijection DEF ExistsBijection
<1> DEFINE o == Sorted(S, R)
<1>5. /\ o \in [1..n -> S]
      /\ \A i, j \in 1..n : i < j <=> <<o[i], o[j]>> \in R
      /\ \A x \in S : \E i \in 1..n : o[i] = x
  <2>1. o = Sorted(S, R)
    OBVIOUS
  <2> HIDE DEF o
  <2> QED
    BY <1>4, <2>1, SortedIsInOrder
<1> HIDE DEF o
(* The first place where the two differ.                                   *)
<1>6. ASSUME o # q
      PROVE  FALSE
  <2> DEFINE wrong == {i \in 1..n : o[i] # q[i]}
  <2>1. wrong # {}
    <3>1. q \in [1..n -> S] /\ o \in [1..n -> S]
      BY <1>5
    <3>2. SUFFICES ASSUME \A i \in 1..n : o[i] = q[i]
                   PROVE  FALSE
      OBVIOUS
    <3>3. o = [i \in 1..n |-> o[i]] /\ q = [i \in 1..n |-> q[i]]
      BY <3>1
    <3> QED
      BY <1>6, <3>2, <3>3
  <2>2a. wrong \subseteq Nat
    OBVIOUS
  <2>2. PICK i \in wrong : \A j \in wrong : i <= j
    <3> HIDE DEF wrong
    <3> QED
      BY <2>1, <2>2a, NatMin
  <2>3. i \in 1..n /\ o[i] # q[i] /\ \A j \in 1..n : j < i => o[j] = q[j]
    BY <2>2
  <2>4. PICK j \in 1..n : q[j] = o[i]
    BY <1>5, <2>3
  <2>5. PICK k \in 1..n : o[k] = q[i]
    BY <1>5, <2>3
  <2>6. i < j
    <3>1. j # i
      BY <2>3, <2>4
    <3>2. ASSUME j < i
          PROVE  FALSE
      <4>1. o[j] = o[i] /\ o[i] \in S
        BY <1>5, <2>3, <2>4, <3>2
      <4>2. <<o[j], o[i]>> \in R
        BY <1>5, <2>3, <3>2
      <4> QED
        BY <4>1, <4>2 DEF StrictOrder
    <3> QED
      BY <2>3, <3>1, <3>2
  <2>7. i < k
    <3>1. k # i
      BY <2>3, <2>5
    <3>2. ASSUME k < i
          PROVE  FALSE
      <4>1. q[k] = q[i]
        BY <2>3, <2>5, <3>2
      <4> QED
        BY <1>1, <2>3, <3>2, <4>1
    <3> QED
      BY <2>3, <3>1, <3>2
  <2>8. <<q[i], q[j]>> \in R
    BY <1>1, <2>6, <2>3
  <2>9. <<o[i], o[k]>> \in R
    BY <1>5, <2>7, <2>3
  <2>10. q[i] \in S /\ o[i] \in S
    BY <1>5, <2>3
  <2> QED
    BY <2>4, <2>5, <2>8, <2>9, <2>10 DEF StrictOrder
<1> QED
  BY <1>4, <1>6 DEF o

-----------------------------------------------------------------------------
(* Places in a sequence, in increasing order.                              *)
Places(n, P, order) ==
  /\ n \in Nat /\ order \in [1..n -> P]
  /\ \A i, j \in 1..n : i < j => order[i] < order[j]
  /\ \A x \in P : \E i \in 1..n : order[i] = x

(* Places are ordered by <.                                                *)
LEMMA PlacesAreOrdered ==
  ASSUME NEW P, P \subseteq Nat
  PROVE  StrictOrder({p \in P \X P : p[1] < p[2]}, P)
<1>1. \A x, y \in P : <<x, y>> \in {p \in P \X P : p[1] < p[2]} <=> x < y
  OBVIOUS
<1> QED
  BY <1>1 DEF StrictOrder

(* Picked takes the elements at increasing places.                         *)
LEMMA AscendingIsInOrder ==
  ASSUME NEW P, P \subseteq Nat, IsFiniteSet(P)
  PROVE  Places(Cardinality(P), P, Ascending(P))
<1> DEFINE R == {p \in P \X P : p[1] < p[2]}
<1>1. StrictOrder(R, P)
  BY PlacesAreOrdered
<1>2. \A x, y \in P : <<x, y>> \in R <=> x < y
  OBVIOUS
<1>3. Ascending(P) = Sorted(P, R)
  BY DEF Ascending
<1> HIDE DEF R
<1>4. /\ Cardinality(P) \in Nat
      /\ Ascending(P) \in [1..Cardinality(P) -> P]
      /\ \A i, j \in 1..Cardinality(P) : i < j <=> <<Ascending(P)[i], Ascending(P)[j]>> \in R
      /\ \A x \in P : \E i \in 1..Cardinality(P) : Ascending(P)[i] = x
  BY <1>1, <1>3, SortedIsInOrder
<1> QED
  BY <1>2, <1>4 DEF Places

(* Any increasing list of the places is the one that Picked takes.         *)
LEMMA PlacesAreUnique ==
  ASSUME NEW P, P \subseteq Nat, IsFiniteSet(P),
         NEW n, NEW order, Places(n, P, order)
  PROVE  Cardinality(P) = n /\ Ascending(P) = order
<1> DEFINE R == {p \in P \X P : p[1] < p[2]}
<1>1. StrictOrder(R, P)
  BY PlacesAreOrdered
<1>2. n \in Nat /\ order \in [1..n -> P]
  BY DEF Places
<1>3. \A i, j \in 1..n : i < j => <<order[i], order[j]>> \in R
  BY <1>2 DEF Places
<1>4. Listing(order, n, P, R)
  <2> HIDE DEF R
  <2> QED
    BY <1>2, <1>3 DEF Places, Listing
<1>5. Cardinality(P) = n /\ Sorted(P, R) = order
  <2> HIDE DEF R
  <2> QED
    BY <1>1, <1>4, SortedIsUnique
<1> QED
  BY <1>5 DEF Ascending

(* All places: nothing is left out.                                        *)
LEMMA PickedAll ==
  ASSUME NEW T, NEW s \in Seq(T)
  PROVE  Picked(s, DOMAIN s) = s
<1> DEFINE order == [i \in 1..Len(s) |-> i]
<1>1. DOMAIN s = 1..Len(s) /\ Len(s) \in Nat
  OBVIOUS
<1>2. Places(Len(s), DOMAIN s, order)
  BY <1>1 DEF Places
<1>3. IsFiniteSet(DOMAIN s) /\ DOMAIN s \subseteq Nat
  BY <1>1, FS_Interval
<1>4. Picked(s, DOMAIN s) = [k \in 1..Len(s) |-> s[order[k]]]
  <2> HIDE DEF order
  <2> QED
    BY <1>2, <1>3, PlacesAreUnique DEF Picked
<1> QED
  BY <1>1, <1>4

(* What is picked is a sequence of elements at those places.               *)
LEMMA PickedType ==
  ASSUME NEW T, NEW s, NEW P, P \subseteq Nat, IsFiniteSet(P), \A i \in P : s[i] \in T
  PROVE  /\ Picked(s, P) \in Seq(T)
         /\ Len(Picked(s, P)) = Cardinality(P) /\ Cardinality(P) \in Nat
         /\ \A k \in 1..Cardinality(P) : \E i \in P : Picked(s, P)[k] = s[i]
         /\ \A i \in P : \E k \in 1..Cardinality(P) : Picked(s, P)[k] = s[i]
<1> DEFINE n == Cardinality(P)
           order == Ascending(P)
<1>1. Places(n, P, order)
  BY AscendingIsInOrder
<1>2. Picked(s, P) = [k \in 1..n |-> s[order[k]]]
  BY DEF Picked
<1> HIDE DEF n, order
<1>3. n \in Nat /\ order \in [1..n -> P] /\ \A x \in P : \E i \in 1..n : order[i] = x
  BY <1>1 DEF Places
<1>4. \A k \in 1..n : s[order[k]] \in T
  BY <1>3
<1>5. Picked(s, P) \in [1..n -> T]
  BY <1>2, <1>4
<1>6. Picked(s, P) \in Seq(T) /\ Len(Picked(s, P)) = n
  BY <1>3, <1>5
<1>7. \A k \in 1..n : Picked(s, P)[k] = s[order[k]] /\ order[k] \in P
  BY <1>2, <1>3
<1>8. ASSUME NEW i \in P
      PROVE  \E k \in 1..n : Picked(s, P)[k] = s[i]
  <2>1. PICK k \in 1..n : order[k] = i
    BY <1>3
  <2> QED
    BY <1>7, <2>1
<1> QED
  BY <1>3, <1>6, <1>7, <1>8 DEF n

(* A place behind the last adds its element at the end.                    *)
LEMMA PickedLast ==
  ASSUME NEW P, NEW m \in Nat, P \subseteq 1..m, NEW s, NEW t,
         \A i \in P : t[i] = s[i]
  PROVE  Picked(t, P \cup {m + 1}) = Append(Picked(s, P), t[m + 1])
<1>1. IsFiniteSet(P) /\ P \subseteq Nat
  <2>1. IsFiniteSet(1..m)
    <3>1. 1 \in Int /\ m \in Int
      OBVIOUS
    <3> QED
      BY <3>1, FS_Interval
  <2>2. P \in SUBSET (1..m) /\ P \subseteq Nat
    OBVIOUS
  <2> QED
    BY <2>1, <2>2, FS_Subset
<1> DEFINE n == Cardinality(P)
           order == Ascending(P)
           Q == P \cup {m + 1}
           longer == [k \in 1..(n + 1) |-> IF k = n + 1 THEN m + 1 ELSE order[k]]
<1>2. Places(n, P, order)
  BY <1>1, AscendingIsInOrder
<1>3. /\ n \in Nat /\ order \in [1..n -> P]
      /\ \A i, j \in 1..n : i < j => order[i] < order[j]
      /\ \A x \in P : \E i \in 1..n : order[i] = x
  <2> HIDE DEF n, order
  <2> QED
    BY <1>2 DEF Places
<1>4. Picked(s, P) = [k \in 1..n |-> s[order[k]]]
  BY DEF Picked
<1> HIDE DEF n, order
<1>5. longer \in [1..(n + 1) -> Q]
  BY <1>3
<1>6. ASSUME NEW i \in 1..(n + 1), NEW j \in 1..(n + 1), i < j
      PROVE  longer[i] < longer[j]
  <2>1. i \in 1..n
    BY <1>3, <1>6
  <2>2. longer[i] = order[i] /\ order[i] \in 1..m
    <3>1. order[i] \in P /\ i # n + 1
      BY <1>3, <2>1
    <3> QED
      BY <3>1
  <2>3. CASE j = n + 1
    BY <2>2, <2>3
  <2>4. CASE j # n + 1
    <3>1. j \in 1..n
      BY <1>3, <2>4
    <3>2. longer[j] = order[j]
      BY <1>3, <3>1
    <3> QED
      BY <1>3, <1>6, <2>1, <2>2, <3>1, <3>2
  <2> QED
    BY <2>3, <2>4
<1>7. ASSUME NEW x \in Q
      PROVE  \E i \in 1..(n + 1) : longer[i] = x
  <2>1. CASE x = m + 1
    <3>1. n + 1 \in 1..(n + 1) /\ longer[n + 1] = m + 1
      BY <1>3
    <3> QED
      BY <2>1, <3>1
  <2>2. CASE x \in P
    <3>1. PICK i \in 1..n : order[i] = x
      BY <1>3, <2>2
    <3>2. i \in 1..(n + 1) /\ longer[i] = x
      BY <1>3, <3>1
    <3> QED
      BY <3>2
  <2> QED
    BY <2>1, <2>2
<1>8. n + 1 \in Nat
  BY <1>3
<1>9. Places(n + 1, Q, longer)
  <2> HIDE DEF longer, Q
  <2> QED
    BY <1>5, <1>6, <1>7, <1>8 DEF Places
<1>10. IsFiniteSet(Q) /\ Q \subseteq Nat
  BY <1>1, FS_AddElement
<1>11. Picked(t, Q) = [k \in 1..(n + 1) |-> t[longer[k]]]
  <2> HIDE DEF longer, Q
  <2>1. Cardinality(Q) = n + 1 /\ Ascending(Q) = longer
    BY <1>9, <1>10, PlacesAreUnique
  <2> QED
    BY <2>1 DEF Picked
<1>12. \A k \in 1..(n + 1) : t[longer[k]] = IF k = n + 1 THEN t[m + 1] ELSE s[order[k]]
  <2> SUFFICES ASSUME NEW k \in 1..(n + 1), k # n + 1
               PROVE  t[longer[k]] = s[order[k]]
    OBVIOUS
  <2>1. k \in 1..n
    BY <1>3
  <2>2. longer[k] = order[k] /\ order[k] \in P
    BY <1>3, <2>1
  <2> QED
    BY <2>2
<1> HIDE DEF longer
<1>13. Picked(t, Q) = [k \in 1..(n + 1) |-> IF k = n + 1 THEN t[m + 1] ELSE s[order[k]]]
  BY <1>11, <1>12
<1>14. Append(Picked(s, P), t[m + 1])
         = [k \in 1..(n + 1) |-> IF k = n + 1 THEN t[m + 1] ELSE s[order[k]]]
  <2> DEFINE T == {s[order[k]] : k \in 1..n} \cup {t[m + 1]}
             p == Picked(s, P)
  <2>1. \A k \in 1..n : s[order[k]] \in T
    OBVIOUS
  <2>2. p \in [1..n -> T] /\ t[m + 1] \in T
    BY <1>4, <2>1
  <2>3. \A k \in 1..n : p[k] = s[order[k]]
    BY <1>4
  <2> HIDE DEF p, T
  <2>4. p \in Seq(T) /\ Len(p) = n
    BY <1>3, <2>2
  <2>5. /\ Append(p, t[m + 1]) \in Seq(T)
        /\ Len(Append(p, t[m + 1])) = n + 1
        /\ \A k \in 1..n : Append(p, t[m + 1])[k] = p[k]
        /\ Append(p, t[m + 1])[n + 1] = t[m + 1]
    BY <2>2, <2>4
  <2>6. Append(p, t[m + 1]) = [k \in 1..(n + 1) |-> Append(p, t[m + 1])[k]]
    BY <1>3, <2>5
  <2>7. \A k \in 1..(n + 1) : Append(p, t[m + 1])[k] = IF k = n + 1 THEN t[m + 1] ELSE s[order[k]]
    BY <1>3, <2>3, <2>5
  <2> QED
    BY <2>6, <2>7 DEF p
<1> QED
  BY <1>13, <1>14 DEF Q

(* Picked sees only the elements at the places.                            *)
LEMMA PickedSame ==
  ASSUME NEW P, P \subseteq Nat, IsFiniteSet(P), NEW s, NEW t, \A i \in P : t[i] = s[i]
  PROVE  Picked(t, P) = Picked(s, P)
<1> DEFINE n == Cardinality(P)
           order == Ascending(P)
<1>1. order \in [1..n -> P]
  BY AscendingIsInOrder DEF Places
<1>2. /\ Picked(t, P) = [k \in 1..n |-> t[order[k]]]
      /\ Picked(s, P) = [k \in 1..n |-> s[order[k]]]
  BY DEF Picked
<1> HIDE DEF n, order
<1>3. \A k \in 1..n : t[order[k]] = s[order[k]]
  BY <1>1
<1> QED
  BY <1>2, <1>3

-----------------------------------------------------------------------------
(* hooks.json                                                              *)

(* Places of a sequence.                                                   *)
LEMMA SomePlaces ==
  ASSUME NEW T, NEW s, s \in Seq(T), NEW P, P \subseteq DOMAIN s
  PROVE  P \subseteq Nat /\ IsFiniteSet(P)
<1>1. DOMAIN s = 1..Len(s) /\ Len(s) \in Int /\ 1 \in Int
  OBVIOUS
<1>2. IsFiniteSet(DOMAIN s)
  BY <1>1, FS_Interval
<1>3. P \in SUBSET DOMAIN s
  OBVIOUS
<1> QED
  BY <1>1, <1>2, <1>3, FS_Subset

(* A filtered sequence.                                                    *)
LEMMA PickedOfSeq ==
  ASSUME NEW T, NEW s, s \in Seq(T), NEW P, P \subseteq DOMAIN s
  PROVE  /\ Picked(s, P) \in Seq(T)
         /\ \A k \in DOMAIN Picked(s, P) : \E i \in P : Picked(s, P)[k] = s[i]
         /\ P = {} => Picked(s, P) = <<>>
<1>1. P \subseteq Nat /\ IsFiniteSet(P)
  BY SomePlaces
<1>2. \A i \in P : s[i] \in T
  OBVIOUS
<1>3. /\ Picked(s, P) \in Seq(T)
      /\ Len(Picked(s, P)) = Cardinality(P)
      /\ \A k \in 1..Cardinality(P) : \E i \in P : Picked(s, P)[k] = s[i]
  BY <1>1, <1>2, PickedType
<1>4. P = {} => Picked(s, P) = <<>>
  BY <1>3, FS_EmptySet
<1>5. DOMAIN Picked(s, P) = 1..Cardinality(P)
  BY <1>3
<1> QED
  BY <1>3, <1>4, <1>5

-----------------------------------------------------------------------------
(* A group with a handler left, none of them the host's own.               *)
CleanGroup(g) ==
  /\ g \in HookGroups /\ g # <<>>
  /\ g # Odd => \A i \in DOMAIN g : g[i] # "own"

(* A cleaned group is a group, and clean unless it is left empty.          *)
LEMMA CleanedGroup ==
  ASSUME NEW g, g \in HookGroups
  PROVE  /\ Cleaned(g) \in HookGroups
         /\ Cleaned(g) # <<>> => CleanGroup(Cleaned(g))
<1>1. CASE g = Odd
  <2>1. Cleaned(g) = Odd
    BY <1>1 DEF Cleaned
  <2> QED
    BY <2>1 DEF CleanGroup, HookGroups
<1>2. CASE g # Odd
  <2> DEFINE P == {i \in DOMAIN g : g[i] # "own"}
  <2>1. g \in Seq(Handlers) /\ P \subseteq DOMAIN g
    BY <1>2 DEF HookGroups
  <2>2. Cleaned(g) = Picked(g, P)
    BY <1>2 DEF Cleaned
  <2>3. /\ Picked(g, P) \in Seq(Handlers)
        /\ \A k \in DOMAIN Picked(g, P) : \E i \in P : Picked(g, P)[k] = g[i]
    <3> HIDE DEF P
    <3> QED
      BY <2>1, PickedOfSeq
  <2>4. \A k \in DOMAIN Picked(g, P) : Picked(g, P)[k] # "own"
    BY <2>3
  <2> HIDE DEF P
  <2> QED
    BY <2>2, <2>3, <2>4 DEF CleanGroup, HookGroups
<1> QED
  BY <1>1, <1>2

(* A group without own handlers is left alone.                             *)
LEMMA CleanStays ==
  ASSUME NEW g, CleanGroup(g)
  PROVE  Cleaned(g) = g
<1>1. CASE g = Odd
  BY <1>1 DEF Cleaned
<1>2. CASE g # Odd
  <2>1. g \in Seq(Handlers) /\ {i \in DOMAIN g : g[i] # "own"} = DOMAIN g
    BY <1>2 DEF CleanGroup, HookGroups
  <2>2. Cleaned(g) = Picked(g, DOMAIN g)
    BY <1>2, <2>1 DEF Cleaned
  <2> QED
    BY <2>1, <2>2, PickedAll
<1> QED
  BY <1>1, <1>2

(* The group that is installed is one.                                     *)
LEMMA OwnIsAGroup ==
  <<"own">> \in Seq(Handlers) /\ <<"own">> # Odd /\ <<"own">> \in HookGroups
<1>1. "own" \in Handlers
  BY HookAssumption DEF HookAssumption
<1>2. <<"own">> \in Seq(Handlers)
  BY <1>1
<1>3. Odd \notin Seq(Handlers)
  BY HookAssumption DEF HookAssumption
<1> QED
  BY <1>2, <1>3 DEF HookGroups

(* It loses its only handler.                                              *)
LEMMA OwnGoes == Cleaned(<<"own">>) = <<>>
<1>1. <<"own">> \in Seq(Handlers) /\ <<"own">> # Odd
  BY OwnIsAGroup
<1>2. {i \in DOMAIN <<"own">> : <<"own">>[i] # "own"} = {}
  OBVIOUS
<1>3. Picked(<<"own">>, {}) = <<>>
  BY <1>1, PickedOfSeq
<1> QED
  BY <1>1, <1>2, <1>3 DEF Cleaned

(* Kept leaves clean groups only, and only those.                          *)
LEMMA KeptIsClean ==
  ASSUME NEW gs, gs \in Seq(HookGroups)
  PROVE  /\ Kept(gs) \in Seq(HookGroups)
         /\ \A k \in DOMAIN Kept(gs) : CleanGroup(Kept(gs)[k])
<1> DEFINE cleaned == [i \in DOMAIN gs |-> Cleaned(gs[i])]
           P == {i \in DOMAIN cleaned : cleaned[i] # <<>>}
<1>1. Kept(gs) = Picked(cleaned, P)
  BY DEF Kept
<1>2. DOMAIN gs = 1..Len(gs) /\ Len(gs) \in Nat /\ \A i \in DOMAIN gs : gs[i] \in HookGroups
  OBVIOUS
<1>3. \A i \in DOMAIN gs : Cleaned(gs[i]) \in HookGroups
  BY <1>2, CleanedGroup
<1>4. cleaned \in Seq(HookGroups) /\ DOMAIN cleaned = DOMAIN gs /\ P \subseteq DOMAIN cleaned
  BY <1>2, <1>3
<1>5. \A i \in P : CleanGroup(cleaned[i])
  BY <1>2, CleanedGroup
<1> HIDE DEF cleaned, P
<1>6. /\ Picked(cleaned, P) \in Seq(HookGroups)
      /\ \A k \in DOMAIN Picked(cleaned, P) : \E i \in P : Picked(cleaned, P)[k] = cleaned[i]
  BY <1>4, PickedOfSeq
<1> QED
  BY <1>1, <1>5, <1>6

(* Groups that are clean are all kept.                                     *)
LEMMA CleanIsKept ==
  ASSUME NEW gs, gs \in Seq(HookGroups), \A k \in DOMAIN gs : CleanGroup(gs[k])
  PROVE  Kept(gs) = gs
<1> DEFINE cleaned == [i \in DOMAIN gs |-> Cleaned(gs[i])]
           P == {i \in DOMAIN cleaned : cleaned[i] # <<>>}
<1>1. \A i \in DOMAIN gs : Cleaned(gs[i]) = gs[i] /\ gs[i] # <<>>
  BY CleanStays DEF CleanGroup
<1>2. gs = [i \in DOMAIN gs |-> gs[i]]
  OBVIOUS
<1>3. cleaned = gs
  BY <1>1, <1>2
<1>4. P = DOMAIN gs
  BY <1>1, <1>3
<1>5. Kept(gs) = Picked(cleaned, P)
  BY DEF Kept
<1> HIDE DEF cleaned, P
<1> QED
  BY <1>3, <1>4, <1>5, PickedAll

(* The host's own group leaves with nothing of the others.                 *)
LEMMA KeptWithoutOwn ==
  ASSUME NEW gs, gs \in Seq(HookGroups)
  PROVE  Kept(Append(gs, <<"own">>)) = Kept(gs)
<1> DEFINE hs == Append(gs, <<"own">>)
           before == [i \in DOMAIN gs |-> Cleaned(gs[i])]
           after == [i \in DOMAIN hs |-> Cleaned(hs[i])]
           P == {i \in DOMAIN before : before[i] # <<>>}
           Q == {i \in DOMAIN after : after[i] # <<>>}
<1>1. /\ DOMAIN gs = 1..Len(gs) /\ Len(gs) \in Nat
      /\ DOMAIN hs = 1..(Len(gs) + 1)
      /\ \A i \in DOMAIN gs : hs[i] = gs[i]
      /\ hs[Len(gs) + 1] = <<"own">>
  <2>1. <<"own">> \in HookGroups
    BY OwnIsAGroup
  <2> QED
    BY <2>1
<1>2. Kept(gs) = Picked(before, P) /\ Kept(hs) = Picked(after, Q)
  BY DEF Kept
<1> HIDE DEF hs
<1>3. after[Len(gs) + 1] = <<>>
  BY <1>1, OwnGoes
<1>4. \A i \in DOMAIN gs : after[i] = before[i] /\ i \in DOMAIN hs
  BY <1>1
<1>5. P = Q
  <2>1. \A i \in DOMAIN hs : i \in DOMAIN gs \/ i = Len(gs) + 1
    BY <1>1
  <2> QED
    BY <1>3, <1>4, <2>1
<1>6. P \subseteq DOMAIN gs
  OBVIOUS
<1> HIDE DEF P, Q, before, after
<1>7. P \subseteq Nat /\ IsFiniteSet(P)
  BY <1>6, SomePlaces
<1>8. Picked(after, P) = Picked(before, P)
  BY <1>4, <1>6, <1>7, PickedSame
<1> QED
  BY <1>2, <1>5, <1>8 DEF hs

(* Without groups, or with the installed one only, nothing is kept.        *)
LEMMA NothingKept == Kept(<<>>) = <<>> /\ Kept(<< <<"own">> >>) = <<>>
<1>1. <<>> \in Seq(HookGroups) /\ << <<"own">> >> = Append(<<>>, <<"own">>)
  OBVIOUS
<1>2. Kept(<<>>) = <<>>
  <2>1. \A k \in DOMAIN <<>> : CleanGroup(<<>>[k])
    OBVIOUS
  <2> QED
    BY <1>1, <2>1, CleanIsKept
<1> QED
  BY <1>1, <1>2, KeptWithoutOwn

(* Hooks without a group that is empty or the host's.                      *)
CleanHooks(f) ==
  /\ DOMAIN f \subseteq HookNames
  /\ f = [e \in DOMAIN f |-> f[e]]
  /\ \A e \in DOMAIN f : /\ f[e] \in Seq(HookGroups) /\ f[e] # <<>>
                         /\ \A k \in DOMAIN f[e] : CleanGroup(f[e][k])

WithOwn(f) ==
  [e \in DOMAIN f \cup TaskEvents |->
    IF e \notin DOMAIN f THEN << <<"own">> >>
    ELSE IF e \in TaskEvents THEN Append(f[e], <<"own">>) ELSE f[e]]

GroupsOf(f, e) == IF e \in DOMAIN f THEN f[e] ELSE <<>>

(* An event with groups is not odd.                                        *)
LEMMA GroupsAreNotOdd ==
  /\ \A gs : gs \in Seq(HookGroups) => gs # Odd
  /\ \A hooks : IsHooks(hooks) => hooks # Absent /\ hooks # Odd
BY HookAssumption DEF HookAssumption

(* Installing yields a hooks value again.                                  *)
LEMMA WithOwnIsHooks ==
  ASSUME NEW f, CleanHooks(f)
  PROVE  /\ IsHooks(WithOwn(f))
         /\ \A e \in DOMAIN WithOwn(f) : WithOwn(f)[e] \in Seq(HookGroups)
         /\ DOMAIN WithOwn(f) = DOMAIN f \cup TaskEvents
<1> DEFINE names == DOMAIN f \cup TaskEvents
<1>1. names \in SUBSET HookNames
  BY HookAssumption DEF HookAssumption, CleanHooks
<1>2. ASSUME NEW e \in names
      PROVE  WithOwn(f)[e] \in Seq(HookGroups)
  <2>1. CASE e \notin DOMAIN f
    BY <2>1, OwnIsAGroup DEF WithOwn
  <2>2. CASE e \in DOMAIN f
    BY <2>2, OwnIsAGroup DEF WithOwn, CleanHooks
  <2> QED
    BY <2>1, <2>2
<1>3. WithOwn(f) = [e \in names |-> WithOwn(f)[e]] /\ DOMAIN WithOwn(f) = names
  BY DEF WithOwn
<1> HIDE DEF names
<1>4. WithOwn(f) \in [names -> Seq(HookGroups) \cup {Odd}]
  BY <1>2, <1>3
<1>5. IsHooks(WithOwn(f))
  BY <1>1, <1>4 DEF IsHooks
<1> QED
  BY <1>2, <1>3, <1>5 DEF names

(* Removing what merging added gives back what there was.                  *)
LEMMA OwnComesAndGoes ==
  ASSUME NEW f, CleanHooks(f)
  PROVE  /\ \A e \in DOMAIN WithOwn(f) : Kept(WithOwn(f)[e]) = GroupsOf(f, e)
         /\ RemoveOwned(WithOwn(f)) = [hooks |-> f]
         /\ MergeHooks(WithOwn(f)) = [hooks |-> WithOwn(f)]
<1> DEFINE g == WithOwn(f)
           left == {e \in DOMAIN g : Kept(g[e]) # <<>>}
<1>1. /\ IsHooks(g) /\ DOMAIN g = DOMAIN f \cup TaskEvents
      /\ \A e \in DOMAIN g : g[e] # Odd
  BY WithOwnIsHooks, GroupsAreNotOdd
<1>2. ASSUME NEW e \in DOMAIN g
      PROVE  Kept(g[e]) = GroupsOf(f, e)
  <2>1. CASE e \notin DOMAIN f
    <3>1. g[e] = << <<"own">> >>
      BY <1>1, <2>1 DEF WithOwn
    <3> QED
      BY <2>1, <3>1, NothingKept DEF GroupsOf
  <2>2. CASE e \in DOMAIN f
    <3>1. f[e] \in Seq(HookGroups) /\ \A k \in DOMAIN f[e] : CleanGroup(f[e][k])
      BY <2>2 DEF CleanHooks
    <3>2. Kept(f[e]) = f[e] /\ Kept(Append(f[e], <<"own">>)) = Kept(f[e])
      BY <3>1, CleanIsKept, KeptWithoutOwn
    <3>3. g[e] = f[e] \/ g[e] = Append(f[e], <<"own">>)
      BY <2>2 DEF WithOwn
    <3> QED
      BY <2>2, <3>2, <3>3 DEF GroupsOf
  <2> QED
    BY <2>1, <2>2
<1> HIDE DEF g
<1>3. left = DOMAIN f
  <2>1. \A e \in DOMAIN f : GroupsOf(f, e) # <<>> /\ e \in DOMAIN g
    BY <1>1 DEF GroupsOf, CleanHooks
  <2>2. \A e \in DOMAIN g : e \notin DOMAIN f => GroupsOf(f, e) = <<>>
    BY DEF GroupsOf
  <2> QED
    BY <1>2, <2>1, <2>2
<1>4. RemoveOwned(g) = [hooks |-> [e \in left |-> Kept(g[e])]]
  <2>1. g \notin {Absent, Odd} /\ g # Absent /\ g # Odd
    BY <1>1, GroupsAreNotOdd
  <2> QED
    BY <1>1, <2>1 DEF RemoveOwned
<1>5. [e \in left |-> Kept(g[e])] = f
  <2>1. \A e \in DOMAIN f : Kept(g[e]) = f[e]
    BY <1>1, <1>2 DEF GroupsOf
  <2>2. f = [e \in DOMAIN f |-> f[e]]
    BY DEF CleanHooks
  <2> QED
    BY <1>3, <2>1, <2>2
<1>6. RemoveOwned(g) = [hooks |-> f]
  BY <1>4, <1>5
<1>7. MergeHooks(g) = [hooks |-> WithOwn(f)]
  BY <1>6 DEF MergeHooks, WithOwn
<1> QED
  BY <1>2, <1>6, <1>7 DEF g

(* An event runs the host's handler once.                                  *)
LEMMA OwnRunsOnce ==
  ASSUME NEW f, CleanHooks(f), NEW e \in TaskEvents,
         NEW own, own = {p \in (DOMAIN WithOwn(f)[e]) \X (1..3) :
                          /\ WithOwn(f)[e][p[1]] # Odd
                          /\ p[2] \in DOMAIN WithOwn(f)[e][p[1]]
                          /\ WithOwn(f)[e][p[1]][p[2]] = "own"}
  PROVE  Cardinality(own) = 1
<1> DEFINE gs == GroupsOf(f, e)
<1>1. gs \in Seq(HookGroups) /\ \A k \in DOMAIN gs : CleanGroup(gs[k])
  <2>1. CASE e \in DOMAIN f
    BY <2>1 DEF GroupsOf, CleanHooks
  <2>2. CASE e \notin DOMAIN f
    BY <2>2 DEF GroupsOf
  <2> QED
    BY <2>1, <2>2
<1>2. WithOwn(f)[e] = Append(gs, <<"own">>)
  <2>1. << <<"own">> >> = Append(<<>>, <<"own">>)
    OBVIOUS
  <2> QED
    BY <2>1 DEF WithOwn, GroupsOf
<1> DEFINE hs == WithOwn(f)[e]
<1>3. /\ Len(gs) \in Nat /\ DOMAIN gs = 1..Len(gs)
      /\ DOMAIN hs = 1..(Len(gs) + 1)
      /\ \A i \in DOMAIN gs : hs[i] = gs[i]
      /\ hs[Len(gs) + 1] = <<"own">>
  <2> HIDE DEF gs
  <2> QED
    BY <1>1, <1>2, OwnIsAGroup
<1> HIDE DEF gs, hs
<1>4. own = {<<Len(gs) + 1, 1>>}
  <2>1. ASSUME NEW p \in own
        PROVE  p = <<Len(gs) + 1, 1>>
    <3>1. /\ p = <<p[1], p[2]>> /\ p[1] \in DOMAIN hs
          /\ hs[p[1]] # Odd /\ p[2] \in DOMAIN hs[p[1]] /\ hs[p[1]][p[2]] = "own"
      BY <2>1 DEF hs
    <3>2. p[1] \notin DOMAIN gs
      BY <1>1, <1>3, <3>1 DEF CleanGroup
    <3>3. p[1] = Len(gs) + 1
      BY <1>3, <3>1, <3>2
    <3>4. p[2] \in DOMAIN <<"own">>
      BY <1>3, <3>1, <3>3
    <3>5. p[2] = 1
      BY <3>4
    <3> QED
      BY <3>1, <3>3, <3>5
  <2>2. <<Len(gs) + 1, 1>> \in own
    <3> DEFINE p == <<Len(gs) + 1, 1>>
    <3>1. p[1] = Len(gs) + 1 /\ p[2] = 1 /\ p \in (DOMAIN hs) \X (1..3)
      BY <1>3
    <3>2. hs[p[1]] # Odd /\ p[2] \in DOMAIN hs[p[1]] /\ hs[p[1]][p[2]] = "own"
      BY <1>3, <3>1, OwnIsAGroup
    <3> HIDE DEF p
    <3>3. p \in own
      BY <3>1, <3>2 DEF hs
    <3> QED
      BY <3>3 DEF p
  <2> QED
    BY <2>1, <2>2
<1> QED
  BY <1>4, FS_Singleton

(* The events of others in hooks.json, with their groups, cleaned.         *)
LEMMA RemovedIsClean ==
  ASSUME NEW hooks, hooks \in {Absent, Odd} \/ IsHooks(hooks),
         "hooks" \in DOMAIN RemoveOwned(hooks)
  PROVE  /\ hooks # Odd
         /\ hooks # Absent => \A e \in DOMAIN hooks : hooks[e] \in Seq(HookGroups)
         /\ CleanHooks(RemoveOwned(hooks).hooks)
         /\ RemoveOwned(hooks) = [hooks |-> RemoveOwned(hooks).hooks]
         /\ \A e : GroupsOf(RemoveOwned(hooks).hooks, e)
                     = IF hooks = Absent THEN <<>>
                       ELSE IF e \in DOMAIN hooks THEN Kept(hooks[e]) ELSE <<>>
<1>1. Absent # Odd
  BY HookAssumption DEF HookAssumption
<1>2. CASE hooks = Absent
  <2>1. RemoveOwned(hooks) = [hooks |-> <<>>]
    BY <1>1, <1>2 DEF RemoveOwned
  <2>2. CleanHooks(<<>>) /\ DOMAIN <<>> = {}
    BY DEF CleanHooks
  <2> QED
    BY <1>1, <1>2, <2>1, <2>2 DEF GroupsOf
<1>3. CASE hooks = Odd
  BY <1>1, <1>3 DEF RemoveOwned
<1>4. CASE hooks \notin {Absent, Odd}
  <2>1. PICK names \in SUBSET HookNames : hooks \in [names -> Seq(HookGroups) \cup {Odd}]
    BY <1>4 DEF IsHooks
  <2>2. DOMAIN hooks = names
    BY <2>1
  <2> DEFINE left == {e \in DOMAIN hooks : Kept(hooks[e]) # <<>>}
             f == [e \in left |-> Kept(hooks[e])]
  <2>3. \A e \in DOMAIN hooks : hooks[e] # Odd
    BY <1>4 DEF RemoveOwned
  <2>4. \A e \in DOMAIN hooks : hooks[e] \in Seq(HookGroups)
    BY <2>1, <2>3
  <2>5. RemoveOwned(hooks) = [hooks |-> f]
    BY <1>4, <2>3 DEF RemoveOwned
  <2>6. CleanHooks(f)
    <3>1. ASSUME NEW e \in left
          PROVE  /\ Kept(hooks[e]) \in Seq(HookGroups)
                 /\ \A k \in DOMAIN Kept(hooks[e]) : CleanGroup(Kept(hooks[e])[k])
      BY <2>4, KeptIsClean
    <3>2. \A e \in left : f[e] = Kept(hooks[e]) /\ f[e] # <<>>
      OBVIOUS
    <3>3. DOMAIN f = left /\ left \subseteq HookNames /\ f = [e \in left |-> f[e]]
      BY <2>2
    <3> HIDE DEF left, f
    <3> QED
      BY <3>1, <3>2, <3>3 DEF CleanHooks
  <2>7. ASSUME NEW e
        PROVE  GroupsOf(f, e) = IF e \in DOMAIN hooks THEN Kept(hooks[e]) ELSE <<>>
    BY DEF GroupsOf
  <2> HIDE DEF f, left
  <2>8. RemoveOwned(hooks).hooks = f
    BY <2>5
  <2> QED
    BY <1>4, <2>4, <2>5, <2>6, <2>7, <2>8
<1> QED
  BY <1>2, <1>3, <1>4

(* Removing the handlers yields hooks or an error.                         *)
LEMMA ShapeOfRemoved ==
  ASSUME NEW hooks
  PROVE  DOMAIN RemoveOwned(hooks) \in {{"hooks"}, {"error"}}
<1>1. CASE hooks = Absent \/ hooks = Odd
  BY <1>1, HookAssumption DEF RemoveOwned, HookAssumption
<1>2. CASE hooks \notin {Absent, Odd}
  BY <1>2 DEF RemoveOwned
<1> QED
  BY <1>1, <1>2

(* Merging is removing, then installing.                                   *)
LEMMA MergeIsWithOwn ==
  ASSUME NEW hooks, hooks \in {Absent, Odd} \/ IsHooks(hooks),
         "hooks" \in DOMAIN MergeHooks(hooks)
  PROVE  /\ "hooks" \in DOMAIN RemoveOwned(hooks)
         /\ MergeHooks(hooks) = [hooks |-> WithOwn(RemoveOwned(hooks).hooks)]
<1>1. "error" \notin DOMAIN RemoveOwned(hooks)
  <2>1. ASSUME "error" \in DOMAIN RemoveOwned(hooks)
        PROVE  FALSE
    <3>1. MergeHooks(hooks) = RemoveOwned(hooks)
      BY <2>1 DEF MergeHooks
    <3>2. DOMAIN RemoveOwned(hooks) \in {{"hooks"}, {"error"}}
      BY ShapeOfRemoved
    <3> QED
      BY <2>1, <3>1, <3>2
  <2> QED
    BY <2>1
<1>2. DOMAIN RemoveOwned(hooks) \in {{"hooks"}, {"error"}}
  BY ShapeOfRemoved
<1> QED
  BY <1>1, <1>2 DEF MergeHooks, WithOwn

(* What is left of the others' groups by merging and by removing.          *)
LEMMA HooksSurvive ==
  ASSUME NEW hooks, hooks \in {Absent, Odd} \/ IsHooks(hooks),
         "hooks" \in DOMAIN MergeHooks(hooks),
         NEW before, before = IF hooks = Absent THEN <<>> ELSE OthersOf(hooks),
         NEW merged, merged = MergeHooks(hooks).hooks,
         NEW removed, removed = RemoveOwned(hooks)
  PROVE  /\ \A e : /\ GroupsOf(OthersOf(merged), e) = GroupsOf(before, e)
                   /\ GroupsOf(removed.hooks, e) = GroupsOf(before, e)
         /\ MergeHooks(merged) = MergeHooks(hooks)
         /\ RemoveOwned(merged) = removed
         /\ CleanHooks(removed.hooks) /\ merged = WithOwn(removed.hooks)
<1>1. /\ "hooks" \in DOMAIN RemoveOwned(hooks)
      /\ MergeHooks(hooks) = [hooks |-> WithOwn(RemoveOwned(hooks).hooks)]
  BY MergeIsWithOwn
<1> DEFINE f == RemoveOwned(hooks).hooks
<1>2. /\ CleanHooks(f) /\ RemoveOwned(hooks) = [hooks |-> f]
      /\ \A e : GroupsOf(f, e) = IF hooks = Absent THEN <<>>
                                 ELSE IF e \in DOMAIN hooks THEN Kept(hooks[e]) ELSE <<>>
  BY <1>1, RemovedIsClean
<1>3. merged = WithOwn(f)
  BY <1>1
<1> HIDE DEF f
<1>4. /\ \A e \in DOMAIN merged : Kept(merged[e]) = GroupsOf(f, e)
      /\ RemoveOwned(merged) = [hooks |-> f]
      /\ MergeHooks(merged) = [hooks |-> merged]
      /\ DOMAIN merged = DOMAIN f \cup TaskEvents
  BY <1>2, <1>3, OwnComesAndGoes, WithOwnIsHooks
<1>5. \A h : OthersOf(h) = [e \in DOMAIN h |-> Kept(h[e])]
  BY DEF OthersOf, Kept
<1>6. ASSUME NEW e
      PROVE  GroupsOf(before, e) = GroupsOf(f, e)
  <2>1. CASE hooks = Absent
    BY <1>2, <2>1 DEF GroupsOf
  <2>2. CASE hooks # Absent
    <3>1. before = [d \in DOMAIN hooks |-> Kept(hooks[d])]
      BY <1>5, <2>2
    <3>2. GroupsOf(before, e) = IF e \in DOMAIN hooks THEN Kept(hooks[e]) ELSE <<>>
      BY <3>1 DEF GroupsOf
    <3> QED
      BY <1>2, <2>2, <3>2
  <2> QED
    BY <2>1, <2>2
<1>7. ASSUME NEW e
      PROVE  GroupsOf(OthersOf(merged), e) = GroupsOf(f, e)
  <2>1. OthersOf(merged) = [d \in DOMAIN merged |-> Kept(merged[d])]
    BY <1>5
  <2>2. CASE e \in DOMAIN merged
    BY <1>4, <2>1, <2>2 DEF GroupsOf
  <2>3. CASE e \notin DOMAIN merged
    BY <1>4, <2>1, <2>3 DEF GroupsOf
  <2> QED
    BY <2>2, <2>3
<1>8. removed.hooks = f /\ removed = [hooks |-> f]
  BY <1>2
<1> QED
  BY <1>1, <1>2, <1>3, <1>4, <1>6, <1>7, <1>8 DEF f

(* Only a call of hook.rs is one.                                          *)
LEMMA OthersHooksSurviveAfter ==
  ASSUME NEW hooks \in HookFiles,
         call' = [kind |-> "hooks", hooks |-> hooks,
                  merged |-> MergeHooks(hooks), removed |-> RemoveOwned(hooks)]
  PROVE  OthersHooksSurvive'
<1> SUFFICES ASSUME "hooks" \in DOMAIN MergeHooks(hooks)
             PROVE  OthersHooksSurvive'
  BY DEF OthersHooksSurvive
<1> DEFINE before == IF hooks = Absent THEN <<>> ELSE OthersOf(hooks)
           merged == MergeHooks(hooks).hooks
           removed == RemoveOwned(hooks)
           Own(e) == {p \in (DOMAIN merged[e]) \X (1..3) :
                        /\ merged[e][p[1]] # Odd
                        /\ p[2] \in DOMAIN merged[e][p[1]]
                        /\ merged[e][p[1]][p[2]] = "own"}
<1>1. hooks \in {Absent, Odd} \/ IsHooks(hooks)
  BY DataAssumption DEF DataAssumption
<1>2. /\ \A e : /\ GroupsOf(OthersOf(merged), e) = GroupsOf(before, e)
                /\ GroupsOf(removed.hooks, e) = GroupsOf(before, e)
      /\ MergeHooks(merged) = MergeHooks(hooks)
      /\ RemoveOwned(merged) = removed
      /\ CleanHooks(removed.hooks) /\ merged = WithOwn(removed.hooks)
  <2>1. /\ before = IF hooks = Absent THEN <<>> ELSE OthersOf(hooks)
        /\ merged = MergeHooks(hooks).hooks /\ removed = RemoveOwned(hooks)
    OBVIOUS
  <2> HIDE DEF before, merged, removed
  <2> QED
    BY <1>1, <2>1, HooksSurvive
<1>3. ASSUME NEW e \in TaskEvents
      PROVE  Cardinality(Own(e)) = 1
  <2> HIDE DEF merged, removed
  <2> QED
    BY <1>2, OwnRunsOnce
<1>4. /\ call'.kind = "hooks" /\ call'.hooks = hooks
      /\ call'.merged = MergeHooks(hooks) /\ call'.removed = removed
  OBVIOUS
<1> QED
  BY <1>2, <1>3, <1>4 DEF OthersHooksSurvive, GroupsOf

-----------------------------------------------------------------------------
(* Pairing codes, links and offers.                                        *)

-----------------------------------------------------------------------------
(* Division with remainder.                                                *)
Divided(a, r, q, m) == q = a \div r /\ m = a % r

(* Integer division.                                                       *)
LEMMA Division ==
  ASSUME NEW a \in Nat, NEW r \in Nat \ {0}, NEW q, NEW m, Divided(a, r, q, m)
  PROVE  q \in Nat /\ m \in 0..(r - 1) /\ a = r * q + m
<1>1. q \in Nat
  BY DEF Divided
<1>2. m \in 0..(r - 1)
  BY DEF Divided
<1>3. a = r * q + m
  <2>1. a \in Int /\ r \in Int /\ r > 0 /\ q = a \div r /\ m = a % r
    BY DEF Divided
  <2> QED
    BY <2>1
<1> QED
  BY <1>1, <1>2, <1>3

(* The multiples of r are r apart.                                          *)
LEMMA Multiples ==
  ASSUME NEW r \in Nat \ {0}, NEW j \in Nat, NEW k \in Nat
  PROVE  /\ r * j \in Nat
         /\ j < k => r * j + r <= r * k
<1>1. r * j \in Nat /\ r * k \in Nat
  OBVIOUS
<1>2. ASSUME j < k
      PROVE  r * j + r <= r * k
  <2>1. PICK d \in Nat : k = j + 1 + d
    <3>1. k - j - 1 \in Nat /\ k = j + 1 + (k - j - 1)
      BY <1>2
    <3> QED
      BY <3>1
  <2>2. r * k = r * j + r + r * d /\ r * d \in Nat
    BY <2>1
  <2> QED
    BY <1>1, <2>2
<1> QED
  BY <1>1, <1>2

(* Quotient and remainder are unique.                                      *)
LEMMA DivisionIsUnique ==
  ASSUME NEW r \in Nat \ {0}, NEW k \in Nat, NEW c \in 0..(r - 1)
  PROVE  (r * k + c) % r = c /\ (r * k + c) \div r = k
<1> DEFINE a == r * k + c
           q == a \div r
           m == a % r
<1>1. r * k \in Nat
  BY Multiples
<1>2. a \in Nat
  BY <1>1
<1>3. q \in Nat /\ m \in 0..(r - 1) /\ a = r * q + m
  <2>1. Divided(a, r, q, m)
    BY DEF Divided
  <2> HIDE DEF a, q, m
  <2> QED
    BY <1>2, <2>1, Division
<1>4. r * q \in Nat /\ (q < k => r * q + r <= r * k) /\ (k < q => r * k + r <= r * q)
  <2> HIDE DEF q
  <2> QED
    BY <1>3, Multiples
<1>5. a = r * k + c
  OBVIOUS
<1> HIDE DEF a, q, m
<1> DEFINE x == r * k
           y == r * q
<1>6. x \in Nat /\ y \in Nat /\ a = x + c /\ a = y + m
      /\ (q < k => y + r <= x) /\ (k < q => x + r <= y)
  BY <1>1, <1>3, <1>4, <1>5
<1> HIDE DEF x, y
<1>7. q = k
  BY <1>3, <1>6
<1>8. m = c
  BY <1>3, <1>6, <1>7 DEF x, y
<1> QED
  BY <1>7, <1>8 DEF q, m, a

(* As many draws give a code as there are whole ranges of draws.           *)
LEMMA DrawsOfACode ==
  ASSUME NEW range \in Nat \ {0}, NEW most \in Nat, range <= most, NEW code \in 0..(range - 1)
  PROVE  /\ Cardinality({draw \in 0..most : CodeOf(draw, range, most) = code}) = most \div range
         /\ most \div range > 0
<1> DEFINE q == most \div range
           left == most % range
           draws == {draw \in 0..most : CodeOf(draw, range, most) = code}
           f == [k \in 0..(q - 1) |-> range * k + code]
<1>1. q \in Nat /\ left \in 0..(range - 1) /\ most = range * q + left
  <2>1. Divided(most, range, q, left)
    BY DEF Divided
  <2> HIDE DEF q, left
  <2> QED
    BY <2>1, Division
<1>2. q > 0
  <2>1. range * 0 = 0
    OBVIOUS
  <2> HIDE DEF q, left
  <2> QED
    BY <1>1, <2>1
<1>3. \A draw \in Nat : CodeOf(draw, range, most) = code
                          <=> draw < range * q /\ draw % range = code
  <2>1. most - left = range * q
    <3> HIDE DEF q, left
    <3>1. range * q \in Nat
      BY <1>1, Multiples
    <3> QED
      BY <1>1, <3>1
  <2>2. \A draw : CodeOf(draw, range, most) = IF draw < range * q THEN draw % range ELSE -1
    BY <2>1 DEF CodeOf
  <2>3. code # -1
    OBVIOUS
  <2> HIDE DEF q
  <2> QED
    BY <2>2, <2>3
<1> HIDE DEF q, left
<1>4. range * q \in Nat /\ range * q <= most
  BY <1>1, Multiples
<1>5. ASSUME NEW k \in 0..(q - 1)
      PROVE  f[k] \in draws
  <2>1. k \in Nat /\ k < q
    BY <1>1
  <2>2. range * k \in Nat /\ range * k + range <= range * q
    BY <1>1, <2>1, Multiples
  <2>3. (range * k + code) % range = code
    BY <2>1, DivisionIsUnique
  <2>4. range * k + code \in Nat /\ range * k + code < range * q
    BY <1>4, <2>2
  <2>5. range * k + code \in 0..most
    BY <1>4, <2>4
  <2> QED
    BY <1>3, <2>3, <2>4, <2>5
<1>6. ASSUME NEW j \in 0..(q - 1), NEW k \in 0..(q - 1), f[j] = f[k]
      PROVE  j = k
  <2>1. j \in Nat /\ k \in Nat
    BY <1>1
  <2>2. range * j + code = range * k + code
    BY <1>6
  <2>3. (range * j + code) \div range = j /\ (range * k + code) \div range = k
    BY <2>1, DivisionIsUnique
  <2> QED
    BY <2>2, <2>3
<1>7. ASSUME NEW draw \in draws
      PROVE  \E k \in 0..(q - 1) : f[k] = draw
  <2> DEFINE k == draw \div range
  <2>1. draw \in Nat /\ draw < range * q /\ draw % range = code
    BY <1>3
  <2>2. k \in Nat /\ draw = range * k + code
    <3>1. Divided(draw, range, k, code)
      BY <2>1 DEF Divided
    <3> HIDE DEF k
    <3> QED
      BY <2>1, <3>1, Division
  <2> HIDE DEF k
  <2>3. k < q
    <3>1. SUFFICES ASSUME ~(k < q)
                   PROVE  FALSE
      OBVIOUS
    <3>2. range * k \in Nat
      BY <2>2, Multiples
    <3>3. q = k \/ range * q + range <= range * k
      BY <1>1, <2>2, <3>1, Multiples
    <3>4. range * q <= range * k
      BY <1>4, <3>2, <3>3
    <3> QED
      BY <1>4, <2>1, <2>2, <3>2, <3>4
  <2>4. k \in 0..(q - 1)
    BY <1>1, <2>2, <2>3
  <2> QED
    BY <2>2, <2>4
<1> HIDE DEF draws, f
<1>8. f \in Bijection(0..(q - 1), draws)
  <2>1. f \in [0..(q - 1) -> draws]
    BY <1>5 DEF f
  <2> QED
    BY <1>6, <1>7, <2>1 DEF Bijection, Injection, Surjection, IsInjective
<1>9. IsFiniteSet(0..(q - 1)) /\ Cardinality(0..(q - 1)) = q
  <2>1. 0 \in Int /\ q - 1 \in Int
    BY <1>1
  <2>2. Cardinality(0..(q - 1)) = IF 0 > q - 1 THEN 0 ELSE (q - 1) - 0 + 1
    BY <2>1, FS_Interval
  <2> QED
    BY <1>1, <1>2, <2>1, <2>2, FS_Interval
<1>10. Cardinality(draws) = q
  BY <1>8, <1>9, FS_Bijection DEF ExistsBijection
<1> QED
  BY <1>2, <1>10 DEF q, draws

(* Each code has as many draws as any other.                               *)
LEMMA CodesAreEvenAfter ==
  ASSUME NEW draws \in Draws,
         call' = [kind |-> "code", draws |-> draws,
                  got |-> [code \in 0..(draws.range - 1) |->
                            Cardinality({draw \in 0..draws.most :
                                           CodeOf(draw, draws.range, draws.most) = code})]]
  PROVE  CodesAreEven'
<1> DEFINE got == [code \in 0..(draws.range - 1) |->
                    Cardinality({draw \in 0..draws.most :
                                   CodeOf(draw, draws.range, draws.most) = code})]
<1>1. draws.range \in Nat \ {0} /\ draws.most \in Nat /\ draws.range <= draws.most
  BY DataAssumption DEF DataAssumption
<1>2. \A code \in 0..(draws.range - 1) :
        /\ got[code] = draws.most \div draws.range
        /\ draws.most \div draws.range > 0
  BY <1>1, DrawsOfACode
<1>3. DOMAIN got = 0..(draws.range - 1) /\ 0 \in 0..(draws.range - 1)
  BY <1>1
<1>4. call'.got = got
  OBVIOUS
<1> HIDE DEF got
<1> QED
  BY <1>2, <1>3, <1>4 DEF CodesAreEven

-----------------------------------------------------------------------------
(* The first place of each element, in order, names each element once and  *)
(* before the elements that come first after it.                           *)
LEMMA DistinctUrlsNamesEachOnce ==
  ASSUME NEW T, NEW us, us \in Seq(T), NEW ds, ds = DistinctUrls(us)
  PROVE  /\ ds \in Seq(T)
         /\ \A a, b \in DOMAIN ds : ds[a] = ds[b] => a = b
         /\ \A a \in DOMAIN ds : \E i \in DOMAIN us : ds[a] = us[i]
         /\ \A i \in DOMAIN us : \E a \in DOMAIN ds : ds[a] = us[i]
         /\ \A a, b \in DOMAIN ds : a < b =>
              \E k \in DOMAIN us : us[k] = ds[a] /\ \A l \in 1..k : us[l] # ds[b]
<1> DEFINE P == {i \in DOMAIN us : \A j \in 1..(i - 1) : us[j] # us[i]}
           n == Cardinality(P)
           order == Ascending(P)
<1>1. /\ DOMAIN us = 1..Len(us) /\ Len(us) \in Nat
      /\ P \subseteq DOMAIN us
      /\ \A i \in P : \A j \in 1..(i - 1) : us[j] # us[i]
  OBVIOUS
<1>2. ds = Picked(us, P)
  BY DEF DistinctUrls
<1>3. ASSUME NEW i \in DOMAIN us
      PROVE  \E f \in P : us[f] = us[i]
  <2> DEFINE same == {j \in DOMAIN us : us[j] = us[i]}
  <2>1. same # {} /\ same \subseteq Nat
    BY <1>1
  <2>2. PICK f \in same : \A j \in same : f <= j
    <3> HIDE DEF same
    <3> QED
      BY <2>1, NatMin
  <2>3. f \in DOMAIN us /\ us[f] = us[i] /\ \A j \in DOMAIN us : us[j] = us[i] => f <= j
    BY <2>2
  <2>4. f \in P
    BY <1>1, <2>3
  <2> QED
    BY <2>3, <2>4
<1> HIDE DEF P
<1>4. P \subseteq Nat /\ IsFiniteSet(P)
  BY <1>1, SomePlaces
<1>5. Places(n, P, order)
  BY <1>4, AscendingIsInOrder
<1>6. ds = [k \in 1..n |-> us[order[k]]]
  BY <1>2 DEF Picked
<1> HIDE DEF n, order
<1>7. /\ n \in Nat /\ order \in [1..n -> P]
      /\ \A i, j \in 1..n : i < j => order[i] < order[j]
      /\ \A x \in P : \E i \in 1..n : order[i] = x
  BY <1>5 DEF Places
<1>8. /\ DOMAIN ds = 1..n
      /\ \A a \in 1..n : ds[a] = us[order[a]] /\ order[a] \in P /\ order[a] \in 1..Len(us)
  BY <1>1, <1>6, <1>7
<1>9. ds \in Seq(T)
  BY <1>1, <1>2, PickedOfSeq
<1>10. ASSUME NEW a \in DOMAIN ds, NEW b \in DOMAIN ds, a < b
       PROVE  \A l \in 1..order[a] : us[l] # ds[b]
  <2>1. order[a] < order[b] /\ order[b] \in P /\ ds[b] = us[order[b]]
    BY <1>7, <1>8, <1>10
  <2>2. order[a] \in Int /\ order[b] \in Int
    BY <1>8
  <2>3. \A l \in 1..order[a] : l \in 1..(order[b] - 1)
    BY <2>1, <2>2
  <2> QED
    BY <1>1, <2>1, <2>3
<1>11. ASSUME NEW a \in DOMAIN ds, NEW b \in DOMAIN ds, a < b
       PROVE  ds[a] # ds[b]
  <2>1. order[a] \in 1..order[a] /\ ds[a] = us[order[a]]
    BY <1>8
  <2> QED
    BY <1>10, <1>11, <2>1
<1>12. \A a, b \in DOMAIN ds : ds[a] = ds[b] => a = b
  <2> SUFFICES ASSUME NEW a \in DOMAIN ds, NEW b \in DOMAIN ds, ds[a] = ds[b]
               PROVE  a = b
    OBVIOUS
  <2>1. ~(a < b) /\ ~(b < a)
    BY <1>11
  <2>2. a \in Int /\ b \in Int
    BY <1>8
  <2> QED
    BY <2>1, <2>2
<1>13. \A a \in DOMAIN ds : \E i \in DOMAIN us : ds[a] = us[i]
  BY <1>1, <1>8
<1>14. ASSUME NEW i \in DOMAIN us
       PROVE  \E a \in DOMAIN ds : ds[a] = us[i]
  <2>1. PICK f \in P : us[f] = us[i]
    BY <1>3
  <2>2. PICK a \in 1..n : order[a] = f
    BY <1>7
  <2> QED
    BY <1>8, <2>1, <2>2
<1>15. \A a, b \in DOMAIN ds : a < b =>
         \E k \in DOMAIN us : us[k] = ds[a] /\ \A l \in 1..k : us[l] # ds[b]
  BY <1>1, <1>8, <1>10
<1> QED
  BY <1>9, <1>12, <1>13, <1>14, <1>15

(* An endpoint that is let through is local.                               *)
LEMMA LocalUrl ==
  ASSUME NEW url
  PROVE  /\ ValidateBaseUrl(url) \in {[net |-> url.net, port |-> url.port], [error |-> "endpoint"]}
         /\ ~(Private(url.net) \/ LinkLocal(url.net))
              => ValidateBaseUrl(url) = [error |-> "endpoint"]
<1>1. ValidateBaseUrl(url) \in {[net |-> url.net, port |-> url.port], [error |-> "endpoint"]}
  BY DEF ValidateBaseUrl
<1>2. ASSUME ~(Private(url.net) \/ LinkLocal(url.net))
      PROVE  ValidateBaseUrl(url) = [error |-> "endpoint"]
  BY <1>2 DEF ValidateBaseUrl
<1> QED
  BY <1>1, <1>2

(* Its value has no error and names the address and port of the url.       *)
LEMMA ValidUrl ==
  ASSUME NEW url, "error" \notin DOMAIN ValidateBaseUrl(url)
  PROVE  /\ ValidateBaseUrl(url) = [net |-> url.net, port |-> url.port]
         /\ Private(url.net) \/ LinkLocal(url.net)
<1>1. "error" \in DOMAIN [error |-> "endpoint"]
  OBVIOUS
<1>2. ValidateBaseUrl(url) # [error |-> "endpoint"]
  BY <1>1
<1> QED
  BY <1>2, LocalUrl

(* A link that is accepted has no bad endpoint.                            *)
LEMMA LinkParses ==
  ASSUME NEW link, "urls" \in DOMAIN ParsePairingLink(link),
         NEW us, us = [i \in DOMAIN link.urls |-> ValidateBaseUrl(link.urls[i])]
  PROVE  /\ \A i \in DOMAIN us : "error" \notin DOMAIN us[i]
         /\ ParsePairingLink(link).urls = DistinctUrls(us)
<1> DEFINE bad == \/ ~ValidLink(link)
                  \/ \E i \in DOMAIN us : "error" \in DOMAIN us[i]
           parsed == ParsePairingLink(link)
<1>1. parsed = IF bad THEN [error |-> "pairing payload"]
               ELSE [urls |-> DistinctUrls(us), code |-> link.code]
  BY Zenon DEF ParsePairingLink
<1>2. ~bad
  <2>1. SUFFICES ASSUME bad PROVE FALSE
    OBVIOUS
  <2>2. parsed = [error |-> "pairing payload"]
    <3> HIDE DEF parsed, bad
    <3> QED
      BY <1>1, <2>1
  <2>3. "urls" \in DOMAIN parsed
    OBVIOUS
  <2> HIDE DEF parsed, bad
  <2> QED
    BY <2>2, <2>3
<1>3. \A i \in DOMAIN us : "error" \notin DOMAIN us[i]
  BY <1>2, Zenon
<1>4. parsed = [urls |-> DistinctUrls(us), code |-> link.code]
  BY <1>1, <1>2, Zenon
<1>5. parsed.urls = DistinctUrls(us)
  <2> HIDE DEF parsed
  <2> QED
    BY <1>4
<1> QED
  BY <1>3, <1>5

(* So the urls tried are the distinct endpoints of the link, in its order. *)
LEMMA LinkNamesEachEndpointOnceAfter ==
  ASSUME NEW link \in Links,
         call' = [kind |-> "link", link |-> link, got |-> ParsePairingLink(link)]
  PROVE  LinkNamesEachEndpointOnce'
<1> SUFFICES ASSUME "urls" \in DOMAIN ParsePairingLink(link)
             PROVE  LinkNamesEachEndpointOnce'
  BY DEF LinkNamesEachEndpointOnce
<1> DEFINE us == [i \in DOMAIN link.urls |-> ValidateBaseUrl(link.urls[i])]
           Named(i) == [net |-> link.urls[i].net, port |-> link.urls[i].port]
           ds == DistinctUrls(us)
<1>1. /\ \A i \in DOMAIN us : "error" \notin DOMAIN us[i]
      /\ ParsePairingLink(link).urls = ds
  <2>1. us = [i \in DOMAIN link.urls |-> ValidateBaseUrl(link.urls[i])]
    OBVIOUS
  <2> HIDE DEF us
  <2> QED
    BY <2>1, LinkParses
<1>2. link.urls \in Seq(ToSet(link.urls))
  BY DataAssumption DEF DataAssumption
<1>3. /\ DOMAIN link.urls = 1..Len(link.urls) /\ Len(link.urls) \in Nat
      /\ DOMAIN us = DOMAIN link.urls
  BY <1>2
<1>4. ASSUME NEW i \in DOMAIN us
      PROVE  /\ us[i] = Named(i)
             /\ Private(us[i].net) \/ LinkLocal(us[i].net)
  <2>1. us[i] = ValidateBaseUrl(link.urls[i]) /\ "error" \notin DOMAIN us[i]
    BY <1>1
  <2> HIDE DEF us
  <2> QED
    BY <2>1, ValidUrl
<1> DEFINE T == {us[i] : i \in DOMAIN us}
<1>5. us \in Seq(T)
  BY <1>3
<1>6. \A i \in DOMAIN us : us[i] = Named(i)
  BY <1>4
<1>7. /\ call'.kind = "link" /\ call'.link = link /\ call'.got = ParsePairingLink(link)
      /\ call'.got.urls = ds
  BY <1>1
<1> HIDE DEF us, T
<1>8. /\ ds \in Seq(T)
      /\ \A a, b \in DOMAIN ds : ds[a] = ds[b] => a = b
      /\ \A a \in DOMAIN ds : \E i \in DOMAIN us : ds[a] = us[i]
      /\ \A i \in DOMAIN us : \E a \in DOMAIN ds : ds[a] = us[i]
      /\ \A a, b \in DOMAIN ds : a < b =>
           \E k \in DOMAIN us : us[k] = ds[a] /\ \A l \in 1..k : us[l] # ds[b]
  <2>1. ds = DistinctUrls(us)
    OBVIOUS
  <2> HIDE DEF ds
  <2> QED
    BY <1>5, <2>1, DistinctUrlsNamesEachOnce
<1> HIDE DEF ds
<1>9. IsInjective(ds)
  BY <1>8 DEF IsInjective
<1>10. ToSet(ds) = {Named(i) : i \in DOMAIN link.urls}
  <2>1. ToSet(ds) = {ds[a] : a \in DOMAIN ds}
    BY DEF ToSet
  <2>2. \A x : x \in ToSet(ds) <=> \E i \in DOMAIN us : x = us[i]
    BY <1>8, <2>1
  <2>3. \A x : x \in {Named(i) : i \in DOMAIN link.urls} <=> \E i \in DOMAIN link.urls : x = Named(i)
    OBVIOUS
  <2> HIDE DEF Named
  <2>4. \A x : x \in ToSet(ds) <=> x \in {Named(i) : i \in DOMAIN link.urls}
    BY <1>3, <1>6, <2>2, <2>3
  <2> QED
    BY <2>4
<1>11. \A i \in DOMAIN ds : Private(ds[i].net) \/ LinkLocal(ds[i].net)
  BY <1>4, <1>8
<1>12. \A a, b \in DOMAIN ds : a < b =>
         \E k \in DOMAIN link.urls : Named(k) = ds[a] /\ \A l \in 1..k : Named(l) # ds[b]
  <2> SUFFICES ASSUME NEW a \in DOMAIN ds, NEW b \in DOMAIN ds, a < b
               PROVE  \E k \in DOMAIN link.urls :
                        Named(k) = ds[a] /\ \A l \in 1..k : Named(l) # ds[b]
    OBVIOUS
  <2>1. PICK k \in DOMAIN us : us[k] = ds[a] /\ \A l \in 1..k : us[l] # ds[b]
    BY <1>8
  <2>2. \A l \in 1..k : l \in DOMAIN us
    BY <1>3
  <2> QED
    BY <1>3, <1>6, <2>1, <2>2
<1> QED
  BY <1>7, <1>9, <1>10, <1>11, <1>12 DEF LinkNamesEachEndpointOnce

-----------------------------------------------------------------------------
(* Private addresses are ordered by their network and their number.        *)
IsAddress(a) == a.number \in Nat /\ a = [net |-> a.net, number |-> a.number]

(* AddressOrder is a strict order of local addresses.                      *)
LEMMA AddressesAreOrdered ==
  ASSUME NEW local, \A a \in local : IsAddress(a) /\ (Private(a.net) \/ LinkLocal(a.net))
  PROVE  StrictOrder(AddressOrder(local), local)
<1> DEFINE before == AddressOrder(local)
<1>1. \A a, b \in local :
        <<a, b>> \in before <=> \/ NetOrder(a.net) < NetOrder(b.net)
                                \/ a.net = b.net /\ a.number < b.number
  BY DEF AddressOrder
<1> HIDE DEF before
<1>2. ASSUME NEW net, Private(net) \/ LinkLocal(net)
      PROVE  NetOrder(net) \in 1..4
  BY <1>2 DEF NetOrder, Private, LinkLocal
<1>3. ASSUME NEW net, Private(net) \/ LinkLocal(net), NEW other, Private(other) \/ LinkLocal(other),
             NetOrder(net) = NetOrder(other)
      PROVE  net = other
  BY <1>3 DEF NetOrder, Private, LinkLocal
<1>4. ASSUME NEW a \in local
      PROVE  NetOrder(a.net) \in Int /\ a.number \in Int /\ a = [net |-> a.net, number |-> a.number]
  BY <1>2 DEF IsAddress
<1>5. ASSUME NEW a \in local, NEW b \in local
      PROVE  /\ <<a, b>> \in before => <<b, a>> \notin before
             /\ a # b => <<a, b>> \in before \/ <<b, a>> \in before
  <2>1. /\ NetOrder(a.net) \in Int /\ a.number \in Int
        /\ NetOrder(b.net) \in Int /\ b.number \in Int
    BY <1>4
  <2>2. a.net = b.net /\ a.number = b.number => a = b
    BY <1>4
  <2>3. a.net = b.net <=> NetOrder(a.net) = NetOrder(b.net)
    BY <1>3
  <2> QED
    BY <1>1, <2>1, <2>2, <2>3
<1>6. ASSUME NEW a \in local, NEW b \in local, NEW c \in local,
             <<a, b>> \in before, <<b, c>> \in before
      PROVE  <<a, c>> \in before
  <2>1. /\ NetOrder(a.net) \in Int /\ a.number \in Int
        /\ NetOrder(b.net) \in Int /\ b.number \in Int
        /\ NetOrder(c.net) \in Int /\ c.number \in Int
    BY <1>4
  <2>2. /\ NetOrder(a.net) < NetOrder(b.net) \/ (a.net = b.net /\ a.number < b.number)
        /\ NetOrder(b.net) < NetOrder(c.net) \/ (b.net = c.net /\ b.number < c.number)
    BY <1>1, <1>6
  <2>3. NetOrder(a.net) < NetOrder(c.net) \/ (a.net = c.net /\ a.number < c.number)
    BY <2>1, <2>2
  <2> QED
    BY <1>1, <2>3
<1> QED
  BY <1>5, <1>6 DEF StrictOrder, before

(* The endpoint of an address and a port, field by field.                  *)
LEMMA EndpointIsOf ==
  ASSUME NEW a, NEW port
  PROVE  /\ PairingEndpoint(a, port).net = a.net
         /\ PairingEndpoint(a, port).number = a.number
BY DEF PairingEndpoint

(* The rest of its fields.                                                 *)
LEMMA EndpointForm ==
  ASSUME NEW a, NEW port, NEW e, e = PairingEndpoint(a, port)
  PROVE  /\ e.port = port /\ e.length = 30
         /\ e.scheme = "wss" /\ e.path = "/pair" /\ ~e.extra
<1>1. e.scheme = "wss"
  BY SMT DEF PairingEndpoint
<1>2. e.path = "/pair"
  BY SMT DEF PairingEndpoint
<1>3. e.port = port
  BY SMT DEF PairingEndpoint
<1>4. e.length = 30
  BY SMT DEF PairingEndpoint
<1>5. e.extra = FALSE
  BY SMT DEF PairingEndpoint
<1> QED
  BY <1>1, <1>2, <1>3, <1>4, <1>5

(* It is one that to_qr_offer lets through.                                *)
LEMMA EndpointIsValid ==
  ASSUME NEW a, NEW port, IsPort(port), Private(a.net) \/ LinkLocal(a.net)
  PROVE  ValidPairingEndpoint(PairingEndpoint(a, port))
<1>1. PICK e : e = PairingEndpoint(a, port)
  OBVIOUS
<1>2. e.port = port /\ e.length = 30 /\ e.scheme = "wss" /\ e.path = "/pair" /\ ~e.extra
  BY <1>1, EndpointForm
<1>3. e.net = a.net
  BY <1>1, EndpointIsOf
<1>4. ValidPairingEndpoint(e)
  BY <1>2, <1>3, SMT DEF ValidPairingEndpoint
<1> QED
  BY <1>1, <1>4

(* The endpoints are of local addresses, each once, and there are as many  *)
(* as there may be.                                                        *)
LEMMA LocalEndpointsAre ==
  ASSUME NEW local, IsFiniteSet(local), NEW port,
         \A a \in local : IsAddress(a) /\ (Private(a.net) \/ LinkLocal(a.net)),
         NEW es, es = LocalEndpoints(local, 8, port)
  PROVE  /\ Len(es) \in 0..8 /\ DOMAIN es = 1..Len(es)
         /\ Len(es) = 0 <=> local = {}
         /\ es = <<>> <=> local = {}
         /\ \A i \in DOMAIN es : \E a \in local : es[i] = PairingEndpoint(a, port)
         /\ \A i, j \in DOMAIN es : es[i] = es[j] => i = j
<1> DEFINE n == IF Cardinality(local) < 8 THEN Cardinality(local) ELSE 8
<1> DEFINE before  == AddressOrder(local)
           inOrder == Sorted(local, before)
           all     == Cardinality(local)
<1>1. StrictOrder(before, local)
  BY AddressesAreOrdered
<1>2. all \in Nat /\ (all = 0 <=> local = {})
  BY FS_CardinalityType, FS_EmptySet
<1>3. es = [i \in 1..n |-> PairingEndpoint(inOrder[i], port)]
  BY DEF LocalEndpoints
<1>4. n = IF all < 8 THEN all ELSE 8
  OBVIOUS
<1>5. inOrder = Sorted(local, before)
  OBVIOUS
<1> HIDE DEF before, inOrder, all, n
<1>6. n \in 0..all /\ n \in 0..8 /\ (n = 0 <=> all = 0)
  BY <1>2, <1>4
<1>7. /\ \A i \in 1..all : inOrder[i] \in local
      /\ \A i, j \in 1..all : i < j <=> <<inOrder[i], inOrder[j]>> \in before
  BY <1>1, <1>5, SortedIsInOrder DEF all
<1>8. ASSUME NEW i \in 1..all, NEW j \in 1..all, inOrder[i] = inOrder[j]
      PROVE  i = j
  <2>1. <<inOrder[i], inOrder[j]>> \notin before /\ <<inOrder[j], inOrder[i]>> \notin before
    BY <1>1, <1>7, <1>8 DEF StrictOrder
  <2>2. ~(i < j) /\ ~(j < i)
    BY <1>7, <2>1
  <2> QED
    BY <2>2, <1>2
<1>9. ASSUME NEW i \in 1..n
      PROVE  i \in 1..all /\ inOrder[i] \in local /\ es[i] = PairingEndpoint(inOrder[i], port)
  BY <1>2, <1>3, <1>6, <1>7
<1>10. ASSUME NEW i \in 1..n, NEW j \in 1..n, es[i] = es[j]
       PROVE  i = j
  <2>1. /\ es[i].net = inOrder[i].net /\ es[j].net = inOrder[j].net
        /\ es[i].number = inOrder[i].number /\ es[j].number = inOrder[j].number
    BY <1>9, EndpointIsOf
  <2>2. inOrder[i] = inOrder[j]
    BY <1>9, <1>10, <2>1 DEF IsAddress
  <2> QED
    BY <1>8, <1>9, <2>2
<1>11. DOMAIN es = 1..n
  BY <1>3
<1>12. \A i \in 1..n : \E a \in local : es[i] = PairingEndpoint(a, port)
  BY <1>9
<1>13. es \in Seq({es[i] : i \in DOMAIN es}) /\ Len(es) = n
  <2>1. es \in [1..n -> {es[i] : i \in DOMAIN es}]
    BY <1>3, <1>11
  <2> QED
    BY <1>6, <2>1
<1>14. n = 0 <=> local = {}
  BY <1>2, <1>6
<1>15. es = <<>> <=> n = 0
  BY <1>6, <1>13
<1> QED
  BY <1>6, <1>10, <1>11, <1>12, <1>13, <1>14, <1>15

(* What an offer of a computer is: there is none without a private address *)
(* and one of at most eight with one.                                      *)
LEMMA OfferIs ==
  ASSUME NEW addresses, IsFiniteSet(addresses), \A a \in addresses : IsAddress(a),
         NEW port, IsPort(port), NEW got, got = BeginPairing(addresses, port)
  PROVE  /\ LocalAddresses(addresses) = {} => got = [error |-> "NoPrivateAddress"]
         /\ LocalAddresses(addresses) # {} =>
              \E es : /\ got = [endpoints |-> es]
                      /\ Len(es) \in 1..8 /\ DOMAIN es = 1..Len(es)
                      /\ \A i, j \in DOMAIN es : es[i] = es[j] => i = j
                      /\ \A i \in DOMAIN es : \E a \in LocalAddresses(addresses) :
                           es[i] = PairingEndpoint(a, port)
<1> DEFINE local == LocalAddresses(addresses)
           es == LocalEndpoints(local, 8, port)
<1>1. got = IF es = <<>> THEN [error |-> "NoPrivateAddress"] ELSE ToQrOffer(es)
  BY DEF BeginPairing
<1>2. IsFiniteSet(local) /\ \A a \in local : IsAddress(a) /\ (Private(a.net) \/ LinkLocal(a.net))
  <2>1. local \in SUBSET addresses
    BY DEF LocalAddresses
  <2>2. IsFiniteSet(local)
    BY <2>1, FS_Subset
  <2>3. \A a \in local : IsAddress(a) /\ (Private(a.net) \/ LinkLocal(a.net))
    BY DEF LocalAddresses
  <2> QED
    BY <2>2, <2>3
<1>3. /\ Len(es) \in 0..8 /\ DOMAIN es = 1..Len(es)
      /\ Len(es) = 0 <=> local = {}
      /\ es = <<>> <=> local = {}
      /\ \A i \in DOMAIN es : \E a \in local : es[i] = PairingEndpoint(a, port)
      /\ \A i, j \in DOMAIN es : es[i] = es[j] => i = j
  <2>1. es = LocalEndpoints(local, 8, port)
    OBVIOUS
  <2> HIDE DEF es, local
  <2> QED
    BY <1>2, <2>1, LocalEndpointsAre
<1> HIDE DEF local, es
<1>6. ASSUME local = {}
      PROVE  got = [error |-> "NoPrivateAddress"]
  BY <1>1, <1>3, <1>6
<1>7. ASSUME local # {}
      PROVE  got = [endpoints |-> es] /\ Len(es) \in 1..8
  <2>0. Len(es) # 0 /\ Len(es) \in 0..8
    BY <1>3, <1>7, Zenon
  <2>1. Len(es) \in 1..8
    BY <2>0
  <2>2. es # <<>>
    BY <1>3, <1>7
  <2>3. \A i \in DOMAIN es : ValidPairingEndpoint(es[i])
    BY <1>2, <1>3, EndpointIsValid
  <2>4. IsInjective(es)
    BY <1>3 DEF IsInjective
  <2>5. ToQrOffer(es) = [endpoints |-> es]
    BY <2>1, <2>3, <2>4 DEF ToQrOffer
  <2> QED
    BY <1>1, <2>1, <2>2, <2>5
<1>8. local = LocalAddresses(addresses)
  BY DEF local
<1> QED
  BY <1>3, <1>6, <1>7, <1>8

(* A sequence without repetition has as many elements as places.           *)
LEMMA PlacesCount ==
  ASSUME NEW n \in Nat, NEW f, DOMAIN f = 1..n, \A i, j \in 1..n : f[i] = f[j] => i = j,
         NEW image, \A x : x \in image <=> \E i \in 1..n : x = f[i]
  PROVE  Cardinality(image) = n
<1> DEFINE g == [i \in 1..n |-> f[i]]
<1>1. g \in [1..n -> image]
  OBVIOUS
<1>2. \A i, j \in 1..n : g[i] = g[j] => i = j
  OBVIOUS
<1>3. \A x \in image : \E i \in 1..n : g[i] = x
  OBVIOUS
<1> HIDE DEF g
<1>4. g \in Bijection(1..n, image)
  <2>1. g \in Injection(1..n, image)
    BY <1>1, <1>2 DEF Injection, IsInjective
  <2>2. g \in Surjection(1..n, image)
    BY <1>1, <1>3 DEF Surjection
  <2> QED
    BY <2>1, <2>2 DEF Bijection
<1>5. ExistsBijection(1..n, image)
  BY <1>4 DEF ExistsBijection
<1> QED
  BY <1>5, FS_CountingElements

-----------------------------------------------------------------------------
(* The phone takes an offer and is let in from any network it names.       *)
LEMMA OfferIsScannableAfter ==
  ASSUME NEW addresses \in Addresses, NEW port, IsPort(port),
         call' = [kind |-> "offer", addresses |-> addresses, got |-> BeginPairing(addresses, port)]
  PROVE  OfferIsScannable'
<1> DEFINE local == LocalAddresses(addresses)
           got == BeginPairing(addresses, port)
<1>1. call'.addresses = addresses /\ call'.got = got
  OBVIOUS
<1>2. IsFiniteSet(addresses) /\ \A a \in addresses : IsAddress(a)
  BY DataAssumption DEF IsAddress
<1>3. (\A a \in addresses : ~Private(a.net) /\ ~LinkLocal(a.net)) <=> local = {}
  BY DEF LocalAddresses
<1> HIDE DEF local, got
<1>4. local = {} => got = [error |-> "NoPrivateAddress"]
  BY <1>2, OfferIs DEF local, got
<1>5. ASSUME local # {}
      PROVE  /\ "endpoints" \in DOMAIN got
             /\ PhoneTakesOffer(got.endpoints)
             /\ \A i \in DOMAIN got.endpoints :
                  /\ AllowedPeer(got.endpoints[i].net)
                  /\ [net |-> got.endpoints[i].net, number |-> got.endpoints[i].number] \in addresses
  <2>1. PICK es : /\ got = [endpoints |-> es]
                  /\ Len(es) \in 1..8 /\ DOMAIN es = 1..Len(es)
                  /\ \A i, j \in DOMAIN es : es[i] = es[j] => i = j
                  /\ \A i \in DOMAIN es : \E a \in local : es[i] = PairingEndpoint(a, port)
    BY <1>2, <1>5, OfferIs DEF local, got
  <2>2. "endpoints" \in DOMAIN got /\ got.endpoints = es
    BY <2>1
  <2>3. Cardinality({es[i] : i \in DOMAIN es}) = Len(es)
    <3>1. PICK image : image = {es[i] : i \in DOMAIN es}
      OBVIOUS
    <3>2. \A x : x \in image <=> \E i \in 1..Len(es) : x = es[i]
      BY <2>1, <3>1
    <3>3. Cardinality(image) = Len(es)
      BY <2>1, <3>2, PlacesCount
    <3> QED
      BY <3>1, <3>3
  <2>4. ASSUME NEW i \in DOMAIN es
        PROVE  LET e == es[i]
               IN /\ e.length <= 128 /\ e.scheme = "wss" /\ e.path = "/pair" /\ ~e.extra
                  /\ IsPort(e.port)
                  /\ e.net \in {"10/8", "172.16/12", "192.168/16", "169.254/16"}
                  /\ AllowedPeer(e.net)
                  /\ [net |-> e.net, number |-> e.number] \in addresses
    <3>1. PICK a \in local : es[i] = PairingEndpoint(a, port)
      BY <2>1
    <3>2. PICK e : e = es[i]
      OBVIOUS
    <3>3. e.port = port /\ e.length = 30 /\ e.scheme = "wss" /\ e.path = "/pair" /\ ~e.extra
      BY <3>1, <3>2, EndpointForm
    <3>4. e.net = a.net /\ e.number = a.number
      BY <3>1, <3>2, EndpointIsOf
    <3>5. a \in addresses /\ (Private(a.net) \/ LinkLocal(a.net))
      BY DEF local, LocalAddresses
    <3>6. [net |-> e.net, number |-> e.number] \in addresses
      BY <1>2, <3>4, <3>5 DEF IsAddress
    <3>7. /\ e.net \in {"10/8", "172.16/12", "192.168/16", "169.254/16"}
          /\ AllowedPeer(e.net)
      BY <3>4, <3>5 DEF Private, LinkLocal, AllowedPeer
    <3>8. e.length <= 128 /\ IsPort(e.port)
      BY <3>3
    <3> QED
      BY <3>2, <3>3, <3>6, <3>7, <3>8
  <2>5. PhoneTakesOffer(es)
    BY <2>1, <2>3, <2>4 DEF PhoneTakesOffer
  <2>6. \A i \in DOMAIN es : /\ AllowedPeer(es[i].net)
                             /\ [net |-> es[i].net, number |-> es[i].number] \in addresses
    BY <2>4
  <2> QED
    BY <2>2, <2>5, <2>6
<1> QED
  BY <1>1, <1>3, <1>4, <1>5 DEF OfferIsScannable

-----------------------------------------------------------------------------
(* Versions both sides speak.                                              *)

(* The greatest of some integers.                                          *)
LEMMA MaxIs ==
  ASSUME NEW S, S \subseteq Int, NEW n \in S, \A y \in S : n >= y
  PROVE  Max(S) = n
<1>1. \A m \in S : (\A y \in S : m >= y) => m = n
  <2> SUFFICES ASSUME NEW m \in S, \A y \in S : m >= y
               PROVE  m = n
    OBVIOUS
  <2>1. m \in Int /\ n \in Int /\ m >= n /\ n >= m
    OBVIOUS
  <2> QED
    BY <2>1
<1> QED
  BY <1>1 DEF Max

(* The host settles on the greatest version of a valid greeting.           *)
LEMMA NegotiatedIsGreatest ==
  ASSUME NEW hello, hello.quota \in Seq(Int), ValidHello(hello)
  PROVE  /\ NegotiateQuotaVersion(hello) \in 1..3
         /\ NegotiateQuotaVersion(hello) = Max(ToSet(hello.quota))
<1>1. PICK q : q = hello.quota
  OBVIOUS
<1>2. /\ DOMAIN q = 1..Len(q) /\ Len(q) \in 1..8
      /\ \A i \in 1..Len(q) : q[i] \in 1..3
  BY <1>1 DEF ValidHello
<1>3. PICK S : S = ToSet(q)
  OBVIOUS
<1>4. \A x : x \in S <=> \E i \in 1..Len(q) : q[i] = x
  BY <1>2, <1>3 DEF ToSet
<1>5. \A x : Contains(q, x) <=> \E i \in 1..Len(q) : q[i] = x
  BY <1>2 DEF Contains
<1>6. S \subseteq 1..3 /\ q[1] \in S
  BY <1>2, <1>4
<1>7. PICK n : n = NegotiateQuotaVersion(hello)
  OBVIOUS
<1>8. n = IF 3 \in S THEN 3 ELSE IF 2 \in S THEN 2 ELSE IF 1 \in S THEN 1 ELSE 0
  BY <1>1, <1>4, <1>5, <1>7 DEF NegotiateQuotaVersion
<1>9. \A y \in S : y \in {1, 2, 3}
  BY <1>6
<1>10. n \in S /\ n \in 1..3
  BY <1>6, <1>8, <1>9
<1>11. \A y \in S : n >= y
  BY <1>8, <1>9
<1>12. S \subseteq Int
  BY <1>6
<1>13. Max(S) = n
  BY <1>10, <1>11, <1>12, MaxIs
<1> QED
  BY <1>1, <1>3, <1>7, <1>10, <1>13

(* The identity a host greets with is one the phone takes.                 *)
LEMMA RandomIdIsValid == ValidConnectionId(RandomConnectionId)
<1>1. Alphabets[2] = "hex" /\ Alphabets[3] = "id"
  BY DEF Alphabets
<1>2. RandomConnectionId.length = 32 /\ RandomConnectionId.of = "hex"
  BY DEF RandomConnectionId
<1>3. Within(RandomConnectionId, "id")
  BY <1>1, <1>2 DEF Within
<1> QED
  BY <1>2, <1>3 DEF ValidConnectionId

(* The host accepts the greeting of every phone with an identity.          *)
LEMMA PhoneHelloIsValid ==
  ASSUME NEW client, ValidConnectionId(client)
  PROVE  ValidHello(PhoneHello(client))
<1> DEFINE h == PhoneHello(client)
<1>1. h.transport = 1 /\ h.client = client /\ h.quota = <<1, 2, 3>> /\ h.tasks = <<1>>
  BY DEF PhoneHello
<1> HIDE DEF h
<1>2. /\ Len(h.quota) = 3 /\ DOMAIN h.quota = 1..3
      /\ h.quota[1] = 1 /\ h.quota[2] = 2 /\ h.quota[3] = 3
  BY <1>1
<1>3. /\ \A i \in 1..3 : h.quota[i] \in 1..3
      /\ \A i \in 1..2 : h.quota[i] < h.quota[i + 1]
  BY <1>2
<1>4. ValidHello(h)
  BY <1>1, <1>2, <1>3 DEF ValidHello
<1> QED
  BY <1>4 DEF h

(* Host and phone agree on a greeting.                                     *)
LEMMA GreetingsAgreeAfter ==
  ASSUME NEW hello \in Hellos,
         call' = [kind |-> "hello", hello |-> hello,
                  got |-> IF ValidHello(hello) THEN ServerHello(hello) ELSE None]
  PROVE  GreetingsAgree'
<1> DEFINE got == IF ValidHello(hello) THEN ServerHello(hello) ELSE None
<1>1. call'.hello = hello /\ call'.got = got
  OBVIOUS
<1>2. hello.quota \in Seq(Int)
  BY DataAssumption DEF DataAssumption
<1>3. ASSUME ValidHello(hello)
      PROVE  /\ PhoneTakesServerHello(got)
             /\ got.quota = Max(ToSet(hello.quota))
             /\ ValidRefreshRequest(PhoneRefresh(got), got.connection)
  <2>1. PICK n : n = NegotiateQuotaVersion(hello)
    OBVIOUS
  <2>2. got = [transport |-> 1, connection |-> RandomConnectionId,
               quota |-> n, tasks |-> 1, heartbeat |-> 15000]
    BY <1>3, <2>1 DEF ServerHello
  <2>3. n \in 1..3 /\ n = Max(ToSet(hello.quota))
    BY <1>2, <1>3, <2>1, NegotiatedIsGreatest
  <2> HIDE DEF got
  <2>4. /\ got.transport = 1 /\ got.connection = RandomConnectionId /\ got.quota = n
        /\ got.tasks = 1 /\ got.heartbeat = 15000
    BY <2>2
  <2>5. PhoneTakesServerHello(got)
    BY <2>3, <2>4, RandomIdIsValid DEF PhoneTakesServerHello
  <2>6. ValidRefreshRequest(PhoneRefresh(got), got.connection)
    BY DEF ValidRefreshRequest, PhoneRefresh
  <2> QED
    BY <2>3, <2>4, <2>5, <2>6
<1>4. ASSUME ~ValidHello(hello)
      PROVE  got = None
  BY <1>4
<1> HIDE DEF got
<1>5. ValidConnectionId(hello.client) => ValidHello(PhoneHello(hello.client))
  BY PhoneHelloIsValid
<1> QED
  BY <1>1, <1>3, <1>4, <1>5 DEF GreetingsAgree

-----------------------------------------------------------------------------
(* The alert policy.                                                       *)

(* Host and phone make the same of a policy, a state and a context.        *)
LEMMA PoliciesAgreeAfter ==
  ASSUME NEW policy \in Policies, NEW context \in Contexts,
         NEW state \in {"Running", "NeedsAuthorization", "WaitingForReview"},
         call' = [kind |-> "plan", host |-> HostPlan(policy, state, context),
                  phone |-> PhonePlan(policy, state, context)]
  PROVE  PoliciesAgree'
<1> DEFINE plan == HostPlan(policy, state, context)
           phone == PhonePlan(policy, state, context)
<1>1. call'.host = plan /\ call'.phone = phone
  OBVIOUS
<1>2. /\ policy.mode \in {"Never", "WhenChatGptUnfocused", "Always"}
      /\ policy.authorization \in BOOLEAN /\ policy.review \in BOOLEAN
      /\ policy.phone \in BOOLEAN /\ policy.band \in BOOLEAN /\ policy.band8 \in BOOLEAN
      /\ context.focused \in BOOLEAN /\ context.foreground \in BOOLEAN
      /\ context.reconnect \in BOOLEAN
  BY DataAssumption DEF DataAssumption
<1>3. /\ plan.phone = phone.phone /\ plan.band = phone.band
      /\ phone.phone => plan.urgency = phone.urgency
  <2>1. CASE state = "Running"
    BY <1>2, <2>1 DEF HostPlan, PhonePlan
  <2>2. CASE state = "NeedsAuthorization"
    BY <1>2, <2>2 DEF HostPlan, PhonePlan
  <2>3. CASE state = "WaitingForReview"
    BY <1>2, <2>3 DEF HostPlan, PhonePlan
  <2> QED
    BY <2>1, <2>2, <2>3
<1> HIDE DEF plan, phone
<1> QED
  BY <1>1, <1>3 DEF PoliciesAgree

-----------------------------------------------------------------------------
-----------------------------------------------------------------------------
(* Titles.                                                                 *)

(* f is what Joined computes of the first m words.                         *)
SumAt(f, words, n) ==
  CASE n = 0 -> 0
    [] n = 1 -> words[1].length
    [] OTHER -> f[n - 1] + 1 + words[n].length

Sums(f, words, m) == f = [n \in 0..m |-> SumAt(f, words, n)]

(* The recursion of Joined has a solution.                                 *)
LEMMA SumsExist ==
  ASSUME NEW words, NEW m \in Nat
  PROVE  \E f : Sums(f, words, m)
<1> DEFINE Bad == {k \in Nat : ~ \E f : Sums(f, words, k)}
<1>1. SUFFICES ASSUME Bad # {} PROVE FALSE
  OBVIOUS
<1>2. PICK k \in Bad : \A j \in Bad : k <= j
  <2>1. Bad \subseteq Nat
    OBVIOUS
  <2> HIDE DEF Bad
  <2> QED
    BY <1>1, <2>1, NatMin
<1>3. k \in Nat /\ \A f : ~Sums(f, words, k)
  OBVIOUS
<1>4. CASE k = 0
  <2>1. PICK f : f = [n \in 0..0 |-> 0]
    OBVIOUS
  <2>2. \A n \in 0..0 : SumAt(f, words, n) = 0
    BY DEF SumAt
  <2>3. Sums(f, words, 0)
    BY <2>1, <2>2 DEF Sums
  <2> QED
    BY <1>3, <1>4, <2>3
<1>5. CASE k # 0
  <2>1. k - 1 \in Nat /\ k - 1 \notin Bad
    BY <1>2, <1>3, <1>5
  <2>2. PICK f : Sums(f, words, k - 1)
    BY <2>1
  <2>3. PICK g : g = [n \in 0..k |-> IF n = k THEN SumAt(f, words, k) ELSE f[n]]
    OBVIOUS
  <2> HIDE DEF Bad
  <2>4. \A n \in 0..(k - 1) : g[n] = f[n] /\ f[n] = SumAt(f, words, n)
    BY <1>3, <2>1, <2>2, <2>3 DEF Sums
  <2>5. ASSUME NEW n \in 0..k
        PROVE  SumAt(g, words, n) = SumAt(f, words, n)
    <3>1. n = 0 \/ n - 1 \in 0..(k - 1)
      BY <1>3
    <3>2. n = 0 \/ g[n - 1] = f[n - 1]
      BY <2>4, <3>1
    <3> QED
      BY <3>2 DEF SumAt
  <2>6. \A n \in 0..k : g[n] = SumAt(g, words, n)
    <3>1. g[k] = SumAt(f, words, k)
      BY <1>3, <2>3
    <3>2. \A n \in 0..k : n = k \/ n \in 0..(k - 1)
      BY <1>3
    <3> QED
      BY <2>4, <2>5, <3>1, <3>2
  <2>7. Sums(g, words, k)
    <3>1. g = [n \in 0..k |-> g[n]]
      BY <2>3
    <3> QED
      BY <2>6, <3>1 DEF Sums
  <2> QED
    BY <1>3, <2>7
<1> QED
  BY <1>4, <1>5

(* Joined satisfies its recursion.                                         *)
LEMMA JoinedSums ==
  ASSUME NEW words, Len(words) \in Nat
  PROVE  Sums(Joined(words), words, Len(words))
<1>1. \E f : f = [n \in 0..Len(words) |->
                   CASE n = 0 -> 0
                     [] n = 1 -> words[1].length
                     [] OTHER -> f[n - 1] + 1 + words[n].length]
  BY SumsExist, Zenon DEF Sums, SumAt
<1>2. Joined(words) = CHOOSE f : f = [n \in 0..Len(words) |->
                   CASE n = 0 -> 0
                     [] n = 1 -> words[1].length
                     [] OTHER -> f[n - 1] + 1 + words[n].length]
  BY Zenon DEF Joined
<1>3. Joined(words) = [n \in 0..Len(words) |->
                   CASE n = 0 -> 0
                     [] n = 1 -> words[1].length
                     [] OTHER -> Joined(words)[n - 1] + 1 + words[n].length]
  BY <1>1, <1>2, Zenon
<1> QED
  BY <1>3, Zenon DEF Sums, SumAt

(* The length of some words is a length.                                   *)
LEMMA JoinedIsALength ==
  ASSUME NEW words, Len(words) \in Nat, \A i \in 1..Len(words) : words[i].length \in Nat,
         NEW m \in 0..Len(words)
  PROVE  Joined(words)[m] \in Nat
<1>1. PICK sum : sum = Joined(words)
  OBVIOUS
<1>2. PICK len : len = Len(words)
  OBVIOUS
<1>3. \A n \in 0..len : sum[n] = SumAt(sum, words, n)
  <2>1. Sums(sum, words, len)
    BY <1>1, <1>2, JoinedSums
  <2> QED
    BY <2>1 DEF Sums
<1> DEFINE Bad == {n \in 0..len : sum[n] \notin Nat}
<1>4. SUFFICES ASSUME Bad # {} PROVE FALSE
  BY <1>1, <1>2
<1>5. PICK k \in Bad : \A j \in Bad : k <= j
  <2>1. Bad \subseteq Nat
    BY <1>2
  <2> HIDE DEF Bad
  <2> QED
    BY <1>4, <2>1, NatMin
<1>6. len \in Nat /\ k \in 0..len /\ sum[k] \notin Nat
  BY <1>2
<1>7. k # 0 => sum[k - 1] \in Nat
  BY <1>5, <1>6
<1>8. k # 0 => words[k].length \in Nat /\ words[1].length \in Nat
  BY <1>2, <1>6
<1>9. SumAt(sum, words, k) \in Nat
  BY <1>6, <1>7, <1>8 DEF SumAt
<1> QED
  BY <1>3, <1>6, <1>9

(* A title without control characters fits the phone.                      *)
LEMMA TitlesFitThePhoneAfter ==
  ASSUME NEW words \in Titles,
         call' = [kind |-> "title", words |-> words, got |-> SanitizeTitle(words)]
  PROVE  TitlesFitThePhone'
<1> DEFINE Word == [length : Nat \ {0}, private : BOOLEAN, control : BOOLEAN]
           places == {i \in DOMAIN words : ~words[i].private}
<1>1. words \in Seq(Word) /\ DOMAIN words = 1..Len(words) /\ Len(words) \in Nat
  BY DataAssumption DEF DataAssumption
<1>2. PICK safe : safe = Picked(words, places)
  OBVIOUS
<1>3. places \subseteq DOMAIN words
  OBVIOUS
<1>4. \A w \in Word : w.length \in Nat
  OBVIOUS
<1> HIDE DEF places, Word
<1>5. safe \in Seq(Word)
  BY <1>1, <1>2, <1>3, PickedOfSeq
<1>6. PICK total : total = Joined(safe)[Len(safe)]
  OBVIOUS
<1>7. total \in Nat
  <2>1. Len(safe) \in Nat /\ \A i \in 1..Len(safe) : safe[i] \in Word
    BY <1>5
  <2>2. \A i \in 1..Len(safe) : safe[i].length \in Nat
    BY <1>4, <2>1
  <2> QED
    BY <1>6, <2>1, <2>2, JoinedIsALength
<1>8. PICK got : got = SanitizeTitle(words)
  OBVIOUS
<1>9. \/ got.length = 2 /\ total = 0
      \/ total # 0 /\ got.length = IF total < 16 THEN total ELSE 16
  BY <1>2, <1>6, <1>8 DEF SanitizeTitle, GenericTitle, places
<1>10. got.length \in 1..16
  BY <1>7, <1>9
<1>11. call'.got = got
  BY <1>8
<1> QED
  BY <1>10, <1>11 DEF TitlesFitThePhone, PhoneTakesTitle

-----------------------------------------------------------------------------
-----------------------------------------------------------------------------
(* Windows.                                                                *)

(* What the phone asks of a window, and an identity for its slot.          *)
SentWindow(w, slot) ==
  /\ w.id = <<slot, w.minutes>>
  /\ w.minutes \in Int /\ w.minutes > 0
  /\ w.remaining # None => w.remaining \in 0..100
  /\ w.resetsAt \in Int /\ w.resetsAt >= 0

(* Half of some halves.                                                    *)
LEMMA HalfFits ==
  ASSUME NEW a \in Int, a >= 0, a <= 200
  PROVE  (200 - a) \div 2 \in 0..100
OBVIOUS

(* A window that is given out fits the phone, its minutes aside.           *)
LEMMA NormalizedFits ==
  ASSUME NEW slot, NEW minutes \in Nat, NEW used \in Int, NEW resetsAt \in Int, NEW when,
         NEW w, w = NormalizeWindowValues(slot, minutes, used, resetsAt, when), w # None
  PROVE  SentWindow(w, slot)
<1>1. minutes > 0 /\ used \in 0..200 /\ resetsAt \in 1..LastSecond
  BY DEF NormalizeWindowValues, Full
<1>2. w = [id |-> <<slot, minutes>>, name |-> WindowName(minutes), minutes |-> minutes,
           remaining |-> IF resetsAt > when THEN (200 - used) \div 2 ELSE None,
           resetsAt |-> resetsAt,
           status |-> IF resetsAt > when THEN "current" ELSE "pending_sync"]
  BY DEF NormalizeWindowValues, Full
<1>3. /\ w.id = <<slot, minutes>> /\ w.minutes = minutes /\ w.resetsAt = resetsAt
      /\ w.remaining = IF resetsAt > when THEN (200 - used) \div 2 ELSE None
  BY <1>2
<1>4. (200 - used) \div 2 \in 0..100
  BY <1>1, HalfFits
<1>5. resetsAt >= 0
  BY <1>1, QuotaDataAssumption DEF QuotaDataAssumption
<1> QED
  BY <1>1, <1>3, <1>4, <1>5 DEF SentWindow

(* A field that is not missing has its type.                               *)
LEMMA FieldsOfAWindow ==
  ASSUME NEW v \in WindowValues, None \notin {v.length, v.used, v.resetsAt}
  PROVE  v.length \in Nat /\ v.used \in Int /\ v.resetsAt \in Int
<1>1. v.length \in Optional(Nat) /\ v.used \in Optional(Int) /\ v.resetsAt \in Optional(Int)
  BY DEF WindowValues
<1> QED
  BY <1>1 DEF Optional

(* Both kinds of answers give such windows.                                *)
LEMMA WindowFits ==
  ASSUME NEW v \in WindowValues, NEW slot, NEW when, NEW w, w # None,
         w \in {NormalizeWindow(slot, v, when), NormalizeLegacyWindow(slot, v, when)}
  PROVE  SentWindow(w, slot)
<1>1. None \notin {v.length, v.used, v.resetsAt}
  BY DEF NormalizeWindow, NormalizeLegacyWindow
<1>2. v.length \in Nat /\ v.used \in Int /\ v.resetsAt \in Int
  BY <1>1, FieldsOfAWindow
<1>3. PICK a, b : a = v.length \div 60 /\ b = v.length % U32
  OBVIOUS
<1>4. a \in Nat /\ b \in Nat
  <2>1. v.length \div 60 \in Nat
    BY <1>2
  <2>2. U32 \in Nat \ {0}
    BY QuotaDataAssumption DEF QuotaDataAssumption
  <2>3. v.length % U32 \in Nat
    BY <1>2, <2>2
  <2> QED
    BY <1>3, <2>1, <2>3
<1>5. \/ w = NormalizeWindowValues(slot, a, v.used, v.resetsAt, when)
      \/ w = NormalizeWindowValues(slot, b, v.used, v.resetsAt, when)
  BY <1>1, <1>3 DEF NormalizeWindow, NormalizeLegacyWindow
<1> QED
  BY <1>2, <1>4, <1>5, NormalizedFits

(* What the phone asks of the windows of a snapshot.                       *)
SentWindows(windows) ==
  /\ \E n \in 0..2 : DOMAIN windows = 1..n
  /\ \A i \in DOMAIN windows :
       /\ \E slot : SentWindow(windows[i], slot)
       /\ \A j \in DOMAIN windows : windows[j].id = windows[i].id => i = j

(* The slots that are filled.                                              *)
LEMMA FilledSlots ==
  ASSUME NEW slots, NEW P, P \subseteq 1..2,
         \A i \in P : SentWindow(slots[i], IF i = 1 THEN "primary" ELSE "secondary")
  PROVE  SentWindows(Picked(slots, P))
<1>1. P \subseteq Nat /\ IsFiniteSet(P) /\ Cardinality(P) \in 0..2
  <2>1. P \in SUBSET (1..2)
    OBVIOUS
  <2>2. IsFiniteSet(1..2) /\ Cardinality(1..2) = 2
    <3>1. 1 \in Int /\ 2 \in Int /\ ~(1 > 2) /\ 2 - 1 + 1 = 2
      OBVIOUS
    <3> QED
      BY <3>1, FS_Interval
  <2>3. IsFiniteSet(P) /\ Cardinality(P) <= 2
    BY <2>1, <2>2, FS_Subset
  <2>4. Cardinality(P) \in Nat
    BY <2>3, FS_CardinalityType
  <2> QED
    BY <2>3, <2>4
<1> DEFINE n == Cardinality(P)
           order == Ascending(P)
           windows == Picked(slots, P)
<1>2. /\ n = Cardinality(P) /\ order = Ascending(P)
      /\ windows = Picked(slots, P)
  OBVIOUS
<1> HIDE DEF n, order, windows
<1>3. Places(n, P, order)
  BY <1>1, <1>2, AscendingIsInOrder
<1>4. DOMAIN windows = 1..n /\ \A k \in 1..n : windows[k] = slots[order[k]]
  BY <1>2 DEF Picked
<1>5. \A k \in 1..n : order[k] \in P
  BY <1>3 DEF Places
<1>6. \A i, j \in 1..n : i < j => order[i] < order[j]
  BY <1>3 DEF Places
<1>7. ASSUME NEW i \in 1..n, NEW j \in 1..n, windows[j].id = windows[i].id
      PROVE  i = j
  <2>1. \A k \in P : slots[k].id[1] = IF k = 1 THEN "primary" ELSE "secondary"
    BY DEF SentWindow
  <2>2. order[i] \in P /\ order[j] \in P /\ slots[order[i]].id = slots[order[j]].id
    BY <1>4, <1>5, <1>7
  <2>3. order[i] \in {1, 2} /\ order[j] \in {1, 2} /\ (order[i] = 1 <=> order[j] = 1)
    <3>1. PICK a \in P, b \in P : a = order[i] /\ b = order[j] /\ slots[a].id = slots[b].id
      BY <2>2
    <3>2. slots[a].id[1] = slots[b].id[1]
      BY <3>1
    <3>3. a = 1 <=> b = 1
      BY <2>1, <3>2
    <3>4. a \in {1, 2} /\ b \in {1, 2}
      OBVIOUS
    <3> QED
      BY <3>1, <3>3, <3>4
  <2>5. order[i] = order[j]
    BY <2>3
  <2>4. i < j \/ j < i \/ i = j
    BY <1>1, <1>2
  <2> QED
    BY <1>6, <2>3, <2>4, <2>5
<1>8. \A k \in 1..n : \E slot : SentWindow(windows[k], slot)
  BY <1>4, <1>5
<1>9. n \in 0..2
  BY <1>1, <1>2
<1> QED
  BY <1>2, <1>4, <1>7, <1>8, <1>9 DEF SentWindows

(* The windows of an answer fit the phone.                                 *)
LEMMA AnswerFits ==
  ASSUME NEW limits \in UsageBodies, NEW when
  PROVE  SentWindows(WindowsOf(limits, NormalizeWindow, when))
<1>1. PICK slots : slots =
        <<IF limits.primary = None THEN None ELSE NormalizeWindow("primary", limits.primary, when),
          IF limits.secondary = None THEN None ELSE NormalizeWindow("secondary", limits.secondary, when)>>
  OBVIOUS
<1>2. WindowsOf(limits, NormalizeWindow, when) = Picked(slots, {i \in 1..2 : slots[i] # None})
  BY <1>1 DEF WindowsOf
<1>3. limits.primary \in Optional(WindowValues) /\ limits.secondary \in Optional(WindowValues)
  BY DEF UsageBodies
<1>4. slots[1] # None => SentWindow(slots[1], "primary")
  <2>1. slots[1] # None => /\ limits.primary \in WindowValues
                           /\ slots[1] = NormalizeWindow("primary", limits.primary, when)
    BY <1>1, <1>3 DEF Optional
  <2> QED
    BY <2>1, WindowFits
<1>5. slots[2] # None => SentWindow(slots[2], "secondary")
  <2>1. slots[2] # None => /\ limits.secondary \in WindowValues
                           /\ slots[2] = NormalizeWindow("secondary", limits.secondary, when)
    BY <1>1, <1>3 DEF Optional
  <2> QED
    BY <2>1, WindowFits
<1>6. PICK P : P = {i \in 1..2 : slots[i] # None}
  OBVIOUS
<1>7. P \subseteq 1..2
      /\ \A i \in P : SentWindow(slots[i], IF i = 1 THEN "primary" ELSE "secondary")
  BY <1>4, <1>5, <1>6
<1> QED
  BY <1>2, <1>6, <1>7, FilledSlots

(* The windows of a session log fit the phone.                             *)
LEMMA SessionFits ==
  ASSUME NEW limits \in UsageBodies, NEW when
  PROVE  SentWindows(WindowsOf(limits, NormalizeLegacyWindow, when))
<1>1. PICK slots : slots =
        <<IF limits.primary = None THEN None
          ELSE NormalizeLegacyWindow("primary", limits.primary, when),
          IF limits.secondary = None THEN None
          ELSE NormalizeLegacyWindow("secondary", limits.secondary, when)>>
  OBVIOUS
<1>2. WindowsOf(limits, NormalizeLegacyWindow, when) = Picked(slots, {i \in 1..2 : slots[i] # None})
  BY <1>1 DEF WindowsOf
<1>3. limits.primary \in Optional(WindowValues) /\ limits.secondary \in Optional(WindowValues)
  BY DEF UsageBodies
<1>4. slots[1] # None => SentWindow(slots[1], "primary")
  <2>1. slots[1] # None => /\ limits.primary \in WindowValues
                           /\ slots[1] = NormalizeLegacyWindow("primary", limits.primary, when)
    BY <1>1, <1>3 DEF Optional
  <2> QED
    BY <2>1, WindowFits
<1>5. slots[2] # None => SentWindow(slots[2], "secondary")
  <2>1. slots[2] # None => /\ limits.secondary \in WindowValues
                           /\ slots[2] = NormalizeLegacyWindow("secondary", limits.secondary, when)
    BY <1>1, <1>3 DEF Optional
  <2> QED
    BY <2>1, WindowFits
<1>6. PICK P : P = {i \in 1..2 : slots[i] # None}
  OBVIOUS
<1>7. P \subseteq 1..2
      /\ \A i \in P : SentWindow(slots[i], IF i = 1 THEN "primary" ELSE "secondary")
  BY <1>4, <1>5, <1>6
<1> QED
  BY <1>2, <1>6, <1>7, FilledSlots

-----------------------------------------------------------------------------
-----------------------------------------------------------------------------
(* The session logs.                                                       *)

LinesOf(files) == UNION {{<<f, i>> : i \in DOMAIN files[f].lines} : f \in DOMAIN files}

TimeOf(files, l) ==
  IF files[l[1]].lines[l[2]].at = None THEN files[l[1]].modified
  ELSE files[l[1]].lines[l[2]].at

LimitsOf(files, l) == files[l[1]].lines[l[2]].limits

Modified(files, l) == files[l[1]].modified

ReadBefore(files, k, l) ==
  \/ Modified(files, k) > Modified(files, l)
  \/ Modified(files, k) = Modified(files, l) /\ k[1] < l[1]
  \/ k[1] = l[1] /\ k[2] <= l[2]

Wins(files, l, k) ==
  \/ TimeOf(files, k) < TimeOf(files, l)
  \/ TimeOf(files, k) = TimeOf(files, l) /\ ReadBefore(files, l, k)

(* Session logs as their lines are read: times are times.                  *)
IsLog(files) ==
  /\ \E n \in Nat : DOMAIN files = 1..n
  /\ \A f \in DOMAIN files :
       /\ files[f].modified \in Nat
       /\ \E n \in Nat : DOMAIN files[f].lines = 1..n
       /\ \A i \in DOMAIN files[f].lines : files[f].lines[i].at \in Optional(Nat)

(* A line is a file and a place in it.                                     *)
LEMMA LinesArePlaces ==
  ASSUME NEW files, NEW l
  PROVE  l \in LinesOf(files) <=> /\ l = <<l[1], l[2]>> /\ l[1] \in DOMAIN files
                                  /\ l[2] \in DOMAIN files[l[1]].lines
<1>1. l \in LinesOf(files) <=> \E f \in DOMAIN files : \E i \in DOMAIN files[f].lines : l = <<f, i>>
  BY DEF LinesOf
<1>2. ASSUME NEW f, NEW i, l = <<f, i>>
      PROVE  l[1] = f /\ l[2] = i
  BY <1>2
<1> QED
  BY <1>1, <1>2

(* There are finitely many lines.                                          *)
LEMMA LinesAreFinite ==
  ASSUME NEW files, IsLog(files)
  PROVE  IsFiniteSet(LinesOf(files))
<1> DEFINE In(f) == {<<f, i>> : i \in DOMAIN files[f].lines}
           lists == {In(f) : f \in DOMAIN files}
<1>1. ASSUME NEW f \in DOMAIN files
      PROVE  IsFiniteSet(In(f))
  <2>1. PICK n \in Nat : DOMAIN files[f].lines = 1..n
    BY DEF IsLog
  <2>2. IsFiniteSet(1..n)
    <3>1. 1 \in Int /\ n \in Int
      OBVIOUS
    <3> QED
      BY <3>1, FS_Interval
  <2>3. PICK g : g = [i \in 1..n |-> <<f, i>>]
    OBVIOUS
  <2>4. PICK T : T = In(f)
    OBVIOUS
  <2>5. \A x : x \in T <=> \E i \in 1..n : x = <<f, i>>
    BY <2>1, <2>4
  <2>6. g \in Surjection(1..n, T)
    <3>1. g \in [1..n -> T] /\ \A x \in T : \E i \in 1..n : g[i] = x
      BY <2>3, <2>5
    <3> QED
      BY <3>1 DEF Surjection
  <2> QED
    BY <2>2, <2>4, <2>6, FS_Surjection
<1>2. IsFiniteSet(lists)
  <2>1. PICK n \in Nat : DOMAIN files = 1..n
    BY DEF IsLog
  <2>2. IsFiniteSet(1..n)
    <3>1. 1 \in Int /\ n \in Int
      OBVIOUS
    <3> QED
      BY <3>1, FS_Interval
  <2>3. PICK g : g = [f \in 1..n |-> In(f)]
    OBVIOUS
  <2>4. \A x : x \in lists <=> \E f \in 1..n : x = g[f]
    BY <2>1, <2>3
  <2> HIDE DEF In, lists
  <2>5. g \in Surjection(1..n, lists)
    <3>1. g \in [1..n -> lists] /\ \A x \in lists : \E i \in 1..n : g[i] = x
      BY <2>3, <2>4
    <3> QED
      BY <3>1 DEF Surjection
  <2> QED
    BY <2>2, <2>5, FS_Surjection
<1>3. \A T \in lists : IsFiniteSet(T)
  BY <1>1
<1>4. LinesOf(files) = UNION lists
  BY DEF LinesOf
<1> HIDE DEF lists
<1> QED
  BY <1>2, <1>3, <1>4, FS_UNION

(* The times of lines are times.                                           *)
LEMMA LinesHaveTimes ==
  ASSUME NEW files, IsLog(files), NEW l \in LinesOf(files)
  PROVE  /\ TimeOf(files, l) \in Nat /\ files[l[1]].modified \in Nat
         /\ l[1] \in Nat /\ l[2] \in Nat /\ l = <<l[1], l[2]>>
<1>1. l = <<l[1], l[2]>> /\ l[1] \in DOMAIN files /\ l[2] \in DOMAIN files[l[1]].lines
  BY LinesArePlaces
<1>2. /\ files[l[1]].modified \in Nat
      /\ files[l[1]].lines[l[2]].at \in Optional(Nat)
      /\ \E n \in Nat : DOMAIN files[l[1]].lines = 1..n
      /\ \E n \in Nat : DOMAIN files = 1..n
  BY <1>1 DEF IsLog
<1>3. TimeOf(files, l) \in Nat
  BY <1>2 DEF TimeOf, Optional
<1>4. l[1] \in Nat /\ l[2] \in Nat
  BY <1>1, <1>2
<1> QED
  BY <1>1, <1>2, <1>3, <1>4

(* One line wins over the other, unless they are the same.                 *)
LEMMA WinsIsAnOrder ==
  ASSUME NEW files, IsLog(files),
         NEW x \in LinesOf(files), NEW y \in LinesOf(files), NEW z \in LinesOf(files)
  PROVE  /\ Wins(files, x, x)
         /\ Wins(files, x, y) \/ Wins(files, y, x)
         /\ Wins(files, x, y) /\ Wins(files, y, x) => x = y
         /\ Wins(files, x, y) /\ Wins(files, y, z) => Wins(files, x, z)
<1>1. /\ TimeOf(files, x) \in Nat /\ TimeOf(files, y) \in Nat /\ TimeOf(files, z) \in Nat
      /\ Modified(files, x) \in Nat /\ Modified(files, y) \in Nat /\ Modified(files, z) \in Nat
      /\ x[1] \in Nat /\ x[2] \in Nat /\ x = <<x[1], x[2]>>
      /\ y[1] \in Nat /\ y[2] \in Nat /\ y = <<y[1], y[2]>>
      /\ z[1] \in Nat /\ z[2] \in Nat
  BY LinesHaveTimes DEF Modified
<1>2. /\ x[1] = y[1] => Modified(files, x) = Modified(files, y)
      /\ x[1] = z[1] => Modified(files, x) = Modified(files, z)
      /\ y[1] = z[1] => Modified(files, y) = Modified(files, z)
  BY DEF Modified
<1>3. Wins(files, x, x)
  BY <1>1 DEF Wins, ReadBefore
<1>4. Wins(files, x, y) \/ Wins(files, y, x)
  BY <1>1, <1>2 DEF Wins, ReadBefore
<1>5. Wins(files, x, y) /\ Wins(files, y, x) => x[1] = y[1] /\ x[2] = y[2]
  BY <1>1, <1>2 DEF Wins, ReadBefore
<1>6. Wins(files, x, y) /\ Wins(files, y, z) => Wins(files, x, z)
  BY <1>1, <1>2 DEF Wins, ReadBefore
<1> QED
  BY <1>1, <1>3, <1>4, <1>5, <1>6

(* One line wins over all.                                                 *)
LEMMA OneLineWins ==
  ASSUME NEW files, IsLog(files), LinesOf(files) # {}
  PROVE  \E l \in LinesOf(files) : \A k \in LinesOf(files) : Wins(files, l, k)
<1> DEFINE S == LinesOf(files)
           R == {p \in S \X S : p[1] # p[2] /\ Wins(files, p[2], p[1])}
           n == Cardinality(S)
           q == Sorted(S, R)
<1>1. \A x, y \in S : <<x, y>> \in R <=> x # y /\ Wins(files, y, x)
  OBVIOUS
<1>2. IsFiniteSet(S)
  BY LinesAreFinite
<1> HIDE DEF R
<1>3. StrictOrder(R, S)
  <2>1. ASSUME NEW x \in S, NEW y \in S, <<x, y>> \in R, <<y, x>> \in R
        PROVE  FALSE
    BY <1>1, <2>1, WinsIsAnOrder
  <2>2. ASSUME NEW x \in S, NEW y \in S, NEW z \in S, <<x, y>> \in R, <<y, z>> \in R
        PROVE  <<x, z>> \in R
    <3>1. x # y /\ Wins(files, y, x) /\ y # z /\ Wins(files, z, y)
      BY <1>1, <2>2
    <3>2. Wins(files, z, x)
      BY <3>1, WinsIsAnOrder
    <3>3. x # z
      BY <3>1, WinsIsAnOrder
    <3> QED
      BY <1>1, <3>2, <3>3
  <2>3. ASSUME NEW x \in S, NEW y \in S, x # y
        PROVE  <<x, y>> \in R \/ <<y, x>> \in R
    BY <1>1, <2>3, WinsIsAnOrder
  <2> QED
    BY <2>1, <2>2, <2>3 DEF StrictOrder
<1> HIDE DEF n, q, S
<1>4. /\ n \in Nat /\ q \in [1..n -> S]
      /\ \A i, j \in 1..n : i < j <=> <<q[i], q[j]>> \in R
      /\ \A x \in S : \E i \in 1..n : q[i] = x
  BY <1>2, <1>3, SortedIsInOrder DEF n, q
<1>5. n \in 1..n
  <2>1. PICK x : x \in S
    BY DEF S
  <2> QED
    BY <1>4, <2>1
<1>6. ASSUME NEW k \in S
      PROVE  Wins(files, q[n], k)
  <2>1. PICK i \in 1..n : q[i] = k
    BY <1>4
  <2>2. q[n] \in S
    BY <1>4, <1>5
  <2>3. CASE i = n
    BY <2>1, <2>2, <2>3, WinsIsAnOrder DEF S
  <2>4. CASE i # n
    <3>1. i < n
      BY <1>4, <2>4
    <3>2. <<q[i], q[n]>> \in R
      BY <1>4, <1>5, <3>1
    <3> QED
      BY <1>1, <2>1, <2>2, <3>2
  <2> QED
    BY <2>3, <2>4
<1> QED
  BY <1>4, <1>5, <1>6 DEF S

Winner(files) == CHOOSE l \in LinesOf(files) : \A k \in LinesOf(files) : Wins(files, l, k)

(* The limits read are those of the winning line.                          *)
LEMMA LatestIsTheWinner ==
  ASSUME NEW files, IsLog(files)
  PROVE  \/ LinesOf(files) = {} /\ LatestRateLimits(files) = None
         \/ \E won \in LinesOf(files) :
              /\ LatestRateLimits(files) = [at |-> TimeOf(files, won), limits |-> LimitsOf(files, won)]
              /\ \A k \in LinesOf(files) : Wins(files, won, k)
<1>1. CASE LinesOf(files) = {}
  BY <1>1 DEF LatestRateLimits, LinesOf
<1>2. CASE LinesOf(files) # {}
  <2>1. PICK won : won = Winner(files)
    OBVIOUS
  <2>2. won \in LinesOf(files) /\ \A k \in LinesOf(files) : Wins(files, won, k)
    BY <1>2, <2>1, OneLineWins DEF Winner
  <2>3. LatestRateLimits(files) =
          IF LinesOf(files) = {} THEN None
          ELSE [at |-> TimeOf(files, Winner(files)), limits |-> LimitsOf(files, Winner(files))]
    BY Zenon DEF LatestRateLimits, Winner, LinesOf, Wins, ReadBefore, Modified, TimeOf, LimitsOf
  <2> QED
    BY <1>2, <2>1, <2>2, <2>3
<1> QED
  BY <1>1, <1>2

-----------------------------------------------------------------------------
-----------------------------------------------------------------------------
(* Cards.                                                                  *)

(* A function on 1..n is a sequence of length n.                           *)
LEMMA FunctionIsSeq ==
  ASSUME NEW n \in Nat, NEW s, s = [i \in 1..n |-> s[i]]
  PROVE  Len(s) = n /\ DOMAIN s = 1..n
<1>1. PICK T : T = {s[i] : i \in 1..n}
  OBVIOUS
<1>2. \A i \in 1..n : s[i] \in T
  BY <1>1
<1>3. s \in [1..n -> T]
  BY <1>2
<1>4. s \in Seq(T) /\ Len(s) = n
  BY <1>3
<1> QED
  BY <1>3, <1>4

Among(P, n) == n \in Nat /\ P \subseteq 1..n

(* What is picked is there.                                                *)
LEMMA PickedFrom ==
  ASSUME NEW s, NEW n, NEW P, Among(P, n),
         NEW t, t = Picked(s, P), NEW m, m = Cardinality(P)
  PROVE  /\ m \in Nat /\ m <= n /\ Len(t) = m /\ DOMAIN t = 1..m
         /\ \A k \in 1..m : \E i \in P : t[k] = s[i]
<1>0. n \in Nat /\ P \subseteq 1..n
  BY DEF Among
<1>1. IsFiniteSet(P) /\ m <= n
  <2>1. 1 \in Int /\ n \in Int /\ n - 1 + 1 = n /\ (1 > n => n = 0)
    BY <1>0
  <2>2. IsFiniteSet(1..n) /\ Cardinality(1..n) = n
    BY <2>1, FS_Interval
  <2>3. P \in SUBSET (1..n)
    BY <1>0
  <2> QED
    BY <2>2, <2>3, FS_Subset
<1>2. PICK order : order = Ascending(P)
  OBVIOUS
<1>3. P \subseteq Nat
  BY <1>0
<1>4. Places(m, P, order)
  BY <1>1, <1>2, <1>3, AscendingIsInOrder
<1>5. m \in Nat /\ order \in [1..m -> P]
  BY <1>4 DEF Places
<1>6. t = [k \in 1..m |-> s[order[k]]]
  BY <1>2 DEF Picked
<1>7. DOMAIN t = 1..m /\ \A k \in 1..m : t[k] = s[order[k]] /\ order[k] \in P
  BY <1>5, <1>6
<1>8. PICK T : T = {s[i] : i \in P}
  OBVIOUS
<1>9. t \in [1..m -> T]
  BY <1>5, <1>6, <1>8
<1>10. Len(t) = m
  <2>1. t \in Seq(T) /\ Len(t) = m
    BY <1>5, <1>9
  <2> QED
    BY <2>1
<1>11. \A k \in 1..m : \E i \in P : t[k] = s[i]
  BY <1>7
<1> QED
  BY <1>1, <1>5, <1>7, <1>10, <1>11

(* Sorting by expiry moves the cards to other places, soonest first.       *)
Soonest(order, items, n) ==
  /\ order \in [1..n -> 1..n]
  /\ \A i \in 1..n : \E k \in 1..n : order[k] = i
  /\ \A i, j \in 1..n : i < j => /\ order[i] # order[j]
                                 /\ items[order[i]].expires <= items[order[j]].expires

(* The order the cards are put in.                                         *)
LEMMA SortedByExpiry ==
  ASSUME NEW items, NEW n \in Nat, DOMAIN items = 1..n,
         \A i \in 1..n : items[i].expires \in Int,
         NEW cards, cards = ByExpiry(items)
  PROVE  /\ cards = [i \in 1..n |-> cards[i]]
         /\ \E order : Soonest(order, items, n) /\ \A i \in 1..n : cards[i] = items[order[i]]
<1> DEFINE R == {p \in (1..n) \X (1..n) :
                   \/ items[p[1]].expires < items[p[2]].expires
                   \/ items[p[1]].expires = items[p[2]].expires /\ p[1] < p[2]}
           order == Sorted(1..n, R)
<1>1. \A i, j \in 1..n : <<i, j>> \in R <=>
        \/ items[i].expires < items[j].expires
        \/ items[i].expires = items[j].expires /\ i < j
  OBVIOUS
<1>2. cards = [i \in 1..n |-> items[order[i]]]
  BY DEF ByExpiry
<1>3. IsFiniteSet(1..n) /\ Cardinality(1..n) = n
  <2>1. 1 \in Int /\ n \in Int /\ n - 1 + 1 = n /\ (1 > n => n = 0)
    OBVIOUS
  <2> QED
    BY <2>1, FS_Interval
<1> HIDE DEF R
<1>4. StrictOrder(R, 1..n)
  <2>1. \A i \in 1..n : i \in Int /\ items[i].expires \in Int
    OBVIOUS
  <2>2. \A i, j \in 1..n : <<i, j>> \in R => <<j, i>> \notin R
    BY <1>1, <2>1
  <2>3. \A i, j, k \in 1..n : <<i, j>> \in R /\ <<j, k>> \in R => <<i, k>> \in R
    BY <1>1, <2>1
  <2>4. \A i, j \in 1..n : i # j => <<i, j>> \in R \/ <<j, i>> \in R
    BY <1>1, <2>1
  <2> QED
    BY <2>2, <2>3, <2>4 DEF StrictOrder
<1>5. /\ order \in [1..n -> 1..n]
      /\ \A i, j \in 1..n : i < j <=> <<order[i], order[j]>> \in R
      /\ \A x \in 1..n : \E i \in 1..n : order[i] = x
  BY <1>3, <1>4, SortedIsInOrder
<1> HIDE DEF order
<1>6. ASSUME NEW i \in 1..n, NEW j \in 1..n, i < j
      PROVE  order[i] # order[j] /\ items[order[i]].expires <= items[order[j]].expires
  <2>1. PICK a \in 1..n, b \in 1..n : a = order[i] /\ b = order[j]
    BY <1>5
  <2>2. \/ items[a].expires < items[b].expires
        \/ items[a].expires = items[b].expires /\ a < b
    <3>1. <<a, b>> \in R
      BY <1>5, <1>6, <2>1
    <3> QED
      BY <1>1, <2>1, <3>1
  <2>3. items[a].expires \in Int /\ items[b].expires \in Int
    OBVIOUS
  <2> QED
    BY <2>1, <2>2, <2>3
<1>7. Soonest(order, items, n)
  BY <1>5, <1>6 DEF Soonest
<1> QED
  BY <1>2, <1>7

(* A card the phone takes.                                                 *)
Fits(item) ==
  /\ item.id \in Int /\ item.id >= 1 /\ item.id <= 256
  /\ item.title \in Int /\ item.title >= 1 /\ item.title <= 128
  /\ item.expires \in Int /\ item.expires >= 0
  /\ item.granted # None => item.granted \in Int /\ item.granted >= 0

(* A sequence of some items.                                               *)
ItemsOf(items, Q) ==
  \E n \in Nat : Len(items) = n /\ DOMAIN items = 1..n /\ \A i \in 1..n : items[i] \in Q

(* What is left of some cards are some of them.                            *)
LEMMA UnexpiredFrom ==
  ASSUME NEW items, NEW when, NEW Q, ItemsOf(items, Q)
  PROVE  ItemsOf(Unexpired(items, when), Q)
<1>1. PICK n \in Nat : DOMAIN items = 1..n /\ \A i \in 1..n : items[i] \in Q
  BY DEF ItemsOf
<1>2. PICK P : P = {i \in DOMAIN items : items[i].expires > when}
  OBVIOUS
<1>3. P \subseteq 1..n
  BY <1>1, <1>2
<1>4. PICK m : m = Cardinality(P)
  OBVIOUS
<1>5. PICK t : t = Picked(items, P)
  OBVIOUS
<1>6. Among(P, n)
  BY <1>1, <1>3 DEF Among
<1>7. /\ m \in Nat /\ Len(t) = m /\ DOMAIN t = 1..m
      /\ \A k \in 1..m : t[k] \in Q
  <2>1. m \in Nat /\ Len(t) = m /\ DOMAIN t = 1..m
    BY <1>4, <1>5, <1>6, PickedFrom
  <2>2. \A k \in 1..m : \E i \in P : t[k] = items[i]
    BY <1>4, <1>5, <1>6, PickedFrom
  <2>3. \A i \in P : items[i] \in Q
    BY <1>1, <1>3
  <2> QED
    BY <2>1, <2>2, <2>3
<1>8. ItemsOf(t, Q)
  BY <1>7 DEF ItemsOf
<1>9. Unexpired(items, when) = Picked(items, {i \in DOMAIN items : items[i].expires > when})
  BY DEF Unexpired
<1>10. Unexpired(items, when) = t
  BY <1>2, <1>5, <1>9
<1> QED
  BY <1>8, <1>10

(* Sorted cards are the cards.                                             *)
LEMMA SortedFrom ==
  ASSUME NEW items, NEW Q, ItemsOf(items, Q), \A q \in Q : q.expires \in Int
  PROVE  ItemsOf(ByExpiry(items), Q)
<1>1. PICK n \in Nat : DOMAIN items = 1..n /\ \A i \in 1..n : items[i] \in Q
  BY DEF ItemsOf
<1>2. \A i \in 1..n : items[i].expires \in Int
  BY <1>1
<1>3. PICK cards : cards = ByExpiry(items)
  OBVIOUS
<1>4. cards = [i \in 1..n |-> cards[i]]
  BY <1>1, <1>2, <1>3, SortedByExpiry
<1>5. PICK order : Soonest(order, items, n) /\ \A i \in 1..n : cards[i] = items[order[i]]
  BY <1>1, <1>2, <1>3, SortedByExpiry
<1>6. \A i \in 1..n : cards[i] \in Q
  BY <1>1, <1>5 DEF Soonest
<1>7. Len(cards) = n /\ DOMAIN cards = 1..n
  BY <1>1, <1>4, FunctionIsSeq
<1> QED
  BY <1>1, <1>3, <1>6, <1>7 DEF ItemsOf

FittingItems(items) == \E Q : ItemsOf(items, Q) /\ \A q \in Q : Fits(q)

(* Cards that fit one by one fit.                                          *)
LEMMA FittingOnes ==
  ASSUME NEW items, NEW n \in Nat, items = [i \in 1..n |-> items[i]],
         \A i \in 1..n : Fits(items[i])
  PROVE  FittingItems(items)
<1>1. PICK Q : Q = {items[i] : i \in 1..n}
  OBVIOUS
<1>2. Len(items) = n /\ DOMAIN items = 1..n
  BY FunctionIsSeq
<1>3. (\A q \in Q : Fits(q)) /\ \A i \in 1..n : items[i] \in Q
  BY <1>1
<1>4. ItemsOf(items, Q)
  BY <1>2, <1>3 DEF ItemsOf
<1> QED
  BY <1>3, <1>4 DEF FittingItems

(* What is left of the cards fits, and so do the cards in another order.   *)
LEMMA UnexpiredFit ==
  ASSUME NEW items, NEW when, FittingItems(items)
  PROVE  FittingItems(Unexpired(items, when))
BY UnexpiredFrom DEF FittingItems

(* Cards that fit do so in any order.                                      *)
LEMMA SortedFit ==
  ASSUME NEW items, FittingItems(items)
  PROVE  FittingItems(ByExpiry(items))
<1>1. PICK Q : ItemsOf(items, Q) /\ \A q \in Q : Fits(q)
  BY DEF FittingItems
<1>2. \A q \in Q : q.expires \in Int
  BY <1>1 DEF Fits
<1>3. ItemsOf(ByExpiry(items), Q)
  BY <1>1, <1>2, SortedFrom
<1> QED
  BY <1>1, <1>3 DEF FittingItems

(* The inventory of a snapshot as the phone takes it.                      *)
SentInventory(inventory) ==
  FittingItems(inventory.items) /\ (inventory.count # None => inventory.count \in Nat)

(* A counted inventory fits when its cards do.                             *)
LEMMA CountedFits ==
  ASSUME NEW count, NEW at, NEW items, FittingItems(items)
  PROVE  SentInventory(Counted(count, at, items))
<1>1. PICK c : c = Counted(count, at, items)
  OBVIOUS
<1>2. c.items = items /\ c.count = Len(items)
  BY <1>1 DEF Counted
<1>3. Len(items) \in Nat
  BY DEF FittingItems, ItemsOf
<1> QED
  BY <1>1, <1>2, <1>3 DEF SentInventory

(* No inventory fits.                                                      *)
LEMMA NoInventoryFits ==
  ASSUME NEW status
  PROVE  SentInventory(NoInventory(status))
<1>1. PICK c : c = NoInventory(status)
  OBVIOUS
<1>2. c.items = <<>> /\ c.count = None
  BY <1>1 DEF NoInventory
<1>3. Len(c.items) = 0 /\ DOMAIN c.items = 1..0
  BY <1>2
<1>4. ItemsOf(c.items, {})
  BY <1>3 DEF ItemsOf
<1>5. FittingItems(c.items)
  BY <1>4 DEF FittingItems
<1> QED
  BY <1>1, <1>2, <1>5 DEF SentInventory

(* A numbered identity is short.                                           *)
LEMMA NumberedIdFits ==
  ASSUME NEW n
  PROVE  NumberedId(n) \in Int /\ NumberedId(n) >= 1 /\ NumberedId(n) <= 256
<1>1. PICK D : D = {d \in 0..9 : n >= 10^d}
  OBVIOUS
<1>2. IsFiniteSet(0..9) /\ Cardinality(0..9) = 10
  <2>1. 0 \in Int /\ 9 \in Int /\ ~(0 > 9) /\ 9 - 0 + 1 = 10
    OBVIOUS
  <2> QED
    BY <2>1, FS_Interval
<1>3. D \in SUBSET (0..9)
  BY <1>1
<1>4. Cardinality(D) \in Nat /\ Cardinality(D) <= 10
  BY <1>2, <1>3, FS_Subset, FS_CardinalityType
<1>5. NumberedId(n) = 13 + Cardinality(D)
  BY <1>1 DEF NumberedId
<1> QED
  BY <1>4, <1>5

(* The inventory of the file of a refresh.                                 *)
LEMMA StoredFits ==
  ASSUME NEW file, file.cards \in Seq([granted : Nat, expires : Nat]), NEW when
  PROVE  SentInventory(StoredInventory(file, when))
<1> DEFINE Q == [granted : Nat, expires : Nat]
<1>1. \A q \in Q : q.expires \in Nat /\ q.granted \in Nat
  OBVIOUS
<1> HIDE DEF Q
<1>2. ItemsOf(file.cards, Q)
  <2>1. file.cards \in Seq(Q)
    BY DEF Q
  <2> QED
    BY <2>1 DEF ItemsOf
<1>3. PICK cards : cards = ByExpiry(Unexpired(file.cards, when))
  OBVIOUS
<1>4. ItemsOf(cards, Q)
  <2>1. \A q \in Q : q.expires \in Int
    BY <1>1
  <2> QED
    BY <1>2, <1>3, <2>1, UnexpiredFrom, SortedFrom
<1>5. PICK n \in Nat : DOMAIN cards = 1..n /\ \A i \in 1..n : cards[i] \in Q
  BY <1>4 DEF ItemsOf
<1>6. PICK items : items = [i \in DOMAIN cards |->
                             [id |-> NumberedId(i), title |-> 10,
                              granted |-> cards[i].granted, expires |-> cards[i].expires]]
  OBVIOUS
<1>7. ASSUME NEW i \in 1..n
      PROVE  Fits(items[i])
  <2>1. PICK item : item = [id |-> NumberedId(i), title |-> 10,
                            granted |-> cards[i].granted, expires |-> cards[i].expires]
    OBVIOUS
  <2>2. /\ item.id = NumberedId(i) /\ item.title = 10
        /\ item.granted = cards[i].granted /\ item.expires = cards[i].expires
    BY <2>1
  <2>3. item.granted \in Nat /\ item.expires \in Nat
    BY <1>1, <1>5, <2>2
  <2>4. items[i] = item
    BY <1>5, <1>6, <2>1
  <2>5. item.id \in Int /\ item.id >= 1 /\ item.id <= 256
    BY <2>2, NumberedIdFits
  <2>6. Fits(item)
    BY <2>2, <2>3, <2>5 DEF Fits
  <2> QED
    BY <2>4, <2>6
<1>8. items = [i \in 1..n |-> items[i]]
  BY <1>5, <1>6
<1>9. FittingItems(items)
  BY <1>5, <1>7, <1>8, FittingOnes
<1>10. StoredInventory(file, when) = Counted(file.count, file.at, items)
  BY <1>3, <1>6 DEF StoredInventory
<1> QED
  BY <1>9, <1>10, CountedFits

(* A card that is kept from Chromium's copy.                               *)
LEMMA SanitizedFits ==
  ASSUME NEW credit \in ResetCredits, NEW item, item = SanitizeCredit(credit), item # None
  PROVE  Fits(item)
<1>1. /\ credit.id \in Nat /\ credit.title \in Optional(Nat)
      /\ credit.granted \in Optional(Nat) /\ credit.expires \in Optional(Nat)
  BY DEF ResetCredits
<1>2. PICK title : title = IF credit.title \in {None, 0} THEN 10 ELSE credit.title
  OBVIOUS
<1>3. title \in Int /\ title >= 1
  BY <1>1, <1>2 DEF Optional
<1>4. /\ credit.id >= 1 /\ credit.id <= 256 /\ credit.expires # None
      /\ title <= 128
      /\ item = [id |-> credit.id, title |-> title,
                 granted |-> credit.granted, expires |-> credit.expires]
  BY <1>1, <1>2, <1>3 DEF SanitizeCredit
<1>5. /\ item.id = credit.id /\ item.title = title
      /\ item.granted = credit.granted /\ item.expires = credit.expires
  BY <1>4
<1>6. credit.expires \in Nat /\ (credit.granted # None => credit.granted \in Nat)
  BY <1>1, <1>4 DEF Optional
<1> QED
  BY <1>1, <1>3, <1>4, <1>5, <1>6 DEF Fits

(* The inventory of Chromium's copy.                                       *)
LEMMA ChromiumFits ==
  ASSUME NEW body \in Inventories, NEW at, NEW when
  PROVE  SentInventory(ChromiumInventory(body, at, when))
<1>1. CASE None \in {body.count, body.credits}
  <2>1. ChromiumInventory(body, at, when) = NoInventory("unavailable")
    BY <1>1 DEF ChromiumInventory
  <2> QED
    BY <2>1, NoInventoryFits
<1>2. CASE None \notin {body.count, body.credits}
  <2>1. body.credits \in Seq(ResetCredits)
    BY <1>2 DEF Inventories, Optional
  <2>2. PICK n \in Nat : DOMAIN body.credits = 1..n /\ \A i \in 1..n : body.credits[i] \in ResetCredits
    BY <2>1
  <2>3. PICK safe : safe = [i \in DOMAIN body.credits |-> SanitizeCredit(body.credits[i])]
    OBVIOUS
  <2>4. PICK P : P = {i \in DOMAIN safe : body.credits[i].available /\ safe[i] # None}
    OBVIOUS
  <2>5. PICK items : items = Picked(safe, P)
    OBVIOUS
  <2>6. Among(P, n) /\ \A i \in P : Fits(safe[i])
    <3>1. P \subseteq 1..n /\ \A i \in P : safe[i] = SanitizeCredit(body.credits[i]) /\ safe[i] # None
      BY <2>2, <2>3, <2>4
    <3>2. \A i \in P : Fits(safe[i])
      BY <2>2, <3>1, SanitizedFits
    <3> QED
      BY <2>2, <3>1, <3>2 DEF Among
  <2>7. PICK m : m = Cardinality(P)
    OBVIOUS
  <2>8. m \in Nat /\ \A k \in 1..m : \E i \in P : items[k] = safe[i]
    BY <2>5, <2>6, <2>7, PickedFrom
  <2>9. items = [k \in 1..m |-> items[k]]
    BY <2>5, <2>7 DEF Picked
  <2>10. FittingItems(items)
    <3>1. \A k \in 1..m : Fits(items[k])
      BY <2>6, <2>8
    <3> QED
      BY <2>8, <2>9, <3>1, FittingOnes
  <2>11. FittingItems(ByExpiry(Unexpired(items, when)))
    BY <2>10, UnexpiredFit, SortedFit
  <2>12. ChromiumInventory(body, at, when)
           = Counted(body.count, at, ByExpiry(Unexpired(items, when)))
    BY <1>2, <2>3, <2>4, <2>5 DEF ChromiumInventory
  <2> QED
    BY <2>11, <2>12, CountedFits
<1> QED
  BY <1>1, <1>2

-----------------------------------------------------------------------------
-----------------------------------------------------------------------------
(* Snapshots.                                                              *)

(* Session logs have times.                                                *)
LEMMA SessionLogsAreLogs ==
  ASSUME NEW files \in SessionLogs
  PROVE  /\ IsLog(files)
         /\ \A l \in LinesOf(files) : LimitsOf(files, l) \in UsageBodies
<1> DEFINE Line == [at : Optional(Nat), limits : UsageBodies]
<1>1. \A line \in Line : line.at \in Optional(Nat) /\ line.limits \in UsageBodies
  OBVIOUS
<1> HIDE DEF Line
<1> DEFINE Log == [modified : Nat, lines : Seq(Line)]
<1>2. \A log \in Log : log.modified \in Nat /\ log.lines \in Seq(Line)
  OBVIOUS
<1> HIDE DEF Log
<1>3. files \in Seq(Log)
  BY DEF SessionLogs, Log, Line
<1>4. \E n \in Nat : DOMAIN files = 1..n
  BY <1>3
<1>5. \A f \in DOMAIN files : files[f] \in Log
  BY <1>3
<1>6. ASSUME NEW f \in DOMAIN files
      PROVE  /\ files[f].modified \in Nat /\ \E n \in Nat : DOMAIN files[f].lines = 1..n
             /\ \A i \in DOMAIN files[f].lines : files[f].lines[i] \in Line
  <2>1. files[f].modified \in Nat /\ files[f].lines \in Seq(Line)
    BY <1>2, <1>5
  <2> QED
    BY <2>1
<1>7. IsLog(files)
  BY <1>1, <1>4, <1>6 DEF IsLog
<1>8. ASSUME NEW l \in LinesOf(files)
      PROVE  LimitsOf(files, l) \in UsageBodies
  <2>1. l[1] \in DOMAIN files /\ l[2] \in DOMAIN files[l[1]].lines
    BY LinesArePlaces
  <2> QED
    BY <1>1, <1>6, <2>1 DEF LimitsOf
<1> QED
  BY <1>7, <1>8

(* The parts of what a collect may find.                                   *)
LEMMA PartsOfSources ==
  ASSUME NEW s, IsSources(s)
  PROVE  /\ s.usage # None => \E when : \E limits \in UsageBodies :
              s.usage.windows = WindowsOf(limits, NormalizeWindow, when)
         /\ s.reset # None => s.reset.cards \in Seq([granted : Nat, expires : Nat])
         /\ s.cachedUsage # None => s.cachedUsage.body \in Optional(UsageBodies)
         /\ s.cachedReset # None => s.cachedReset.body \in Inventories
         /\ s.sessions \in SessionLogs
<1>1. ASSUME s.usage # None
      PROVE  \E when : \E limits \in UsageBodies : s.usage.windows = WindowsOf(limits, NormalizeWindow, when)
  <2>1. PICK limits \in Limits, when \in Times :
          s.usage = [at |-> when, windows |-> WindowsOf(limits, NormalizeWindow, when)]
    BY <1>1 DEF IsSources
  <2>2. limits \in UsageBodies
    BY <2>1, DataAssumption DEF DataAssumption
  <2>3. PICK windows : windows = WindowsOf(limits, NormalizeWindow, when)
    OBVIOUS
  <2>4. s.usage.windows = windows
    BY <2>1, <2>3
  <2> QED
    BY <2>2, <2>3, <2>4
<1>2. s.reset # None => s.reset.cards \in Seq([granted : Nat, expires : Nat])
  <2> DEFINE Cards == Seq([granted : Nat, expires : Nat])
  <2>1. s.reset \in Optional([at : Nat, count : Nat, cards : Cards])
    BY DEF IsSources
  <2> HIDE DEF Cards
  <2>2. s.reset # None => s.reset.cards \in Cards
    BY <2>1 DEF Optional
  <2> QED
    BY <2>2 DEF Cards
<1>3. s.cachedUsage # None => s.cachedUsage.body \in Optional(UsageBodies)
  <2> DEFINE Bodies == Optional(UsageBodies)
  <2>1. s.cachedUsage \in Optional([at : Nat, body : Bodies])
    BY DEF IsSources
  <2> HIDE DEF Bodies
  <2>2. s.cachedUsage # None => s.cachedUsage.body \in Bodies
    BY <2>1 DEF Optional
  <2> QED
    BY <2>2 DEF Bodies
<1>4. s.cachedReset # None => s.cachedReset.body \in Inventories
  <2>1. s.cachedReset \in Optional([at : Nat, body : Inventories])
    BY DEF IsSources
  <2> QED
    BY <2>1 DEF Optional
<1>5. s.sessions \in SessionLogs
  BY DEF IsSources
<1> QED
  BY <1>1, <1>2, <1>3, <1>4, <1>5

(* No windows at all.                                                      *)
LEMMA NoWindowsFit == SentWindows(<<>>)
<1>1. DOMAIN <<>> = 1..0 /\ 0 \in 0..2
  OBVIOUS
<1>2. DOMAIN <<>> = {}
  OBVIOUS
<1> QED
  BY <1>1, <1>2 DEF SentWindows

(* The windows that are collected fit.                                     *)
LEMMA LimitsFit ==
  ASSUME NEW s, IsSources(s), NEW when
  PROVE  SentWindows(CollectLimits(s, when).windows)
<1>1. PICK limits : limits = CollectLimits(s, when)
  OBVIOUS
<1>2. PICK session : session = LatestRateLimits(s.sessions)
  OBVIOUS
<1>3. CASE s.usage # None
  <2>1. limits.windows = s.usage.windows
    BY <1>1, <1>3 DEF CollectLimits
  <2>2. PICK then : \E l \in UsageBodies : s.usage.windows = WindowsOf(l, NormalizeWindow, then)
    BY <1>3, PartsOfSources
  <2>3. PICK l \in UsageBodies : s.usage.windows = WindowsOf(l, NormalizeWindow, then)
    BY <2>2
  <2> QED
    BY <1>1, <2>1, <2>3, AnswerFits
<1>4. CASE s.usage = None /\ s.package /\ s.cachedUsage # None
  <2>1. CASE s.cachedUsage.body = None
    <3>1. limits.windows = <<>>
      BY <1>1, <1>4, <2>1 DEF CollectLimits
    <3> QED
      BY <1>1, <3>1, NoWindowsFit
  <2>2. CASE s.cachedUsage.body # None
    <3>1. PICK w : w = WindowsOf(s.cachedUsage.body, NormalizeWindow, when)
      OBVIOUS
    <3>2. limits.windows = w
      BY <1>1, <1>4, <2>2, <3>1 DEF CollectLimits
    <3>3. s.cachedUsage.body \in UsageBodies
      BY <1>4, <2>2, PartsOfSources DEF Optional
    <3> QED
      BY <1>1, <3>1, <3>2, <3>3, AnswerFits
  <2> QED
    BY <2>1, <2>2
<1>5. CASE s.usage = None /\ (~s.package \/ s.cachedUsage = None) /\ session # None
  <2>1. PICK w : w = WindowsOf(session.limits, NormalizeLegacyWindow, when)
    OBVIOUS
  <2>2. limits = FromSessions(session, when)
    BY <1>1, <1>2, <1>5 DEF CollectLimits
  <2>3. limits.windows = w
    BY <2>1, <2>2 DEF FromSessions
  <2>4. session.limits \in UsageBodies
    <3>1. s.sessions \in SessionLogs
      BY PartsOfSources
    <3>2. PICK won \in LinesOf(s.sessions) :
            session = [at |-> TimeOf(s.sessions, won), limits |-> LimitsOf(s.sessions, won)]
      BY <1>2, <1>5, <3>1, SessionLogsAreLogs, LatestIsTheWinner
    <3>3. session.limits = LimitsOf(s.sessions, won)
      BY <3>2
    <3> QED
      BY <3>1, <3>2, <3>3, SessionLogsAreLogs
  <2> QED
    BY <1>1, <2>1, <2>3, <2>4, SessionFits
<1>6. CASE s.usage = None /\ (~s.package \/ s.cachedUsage = None) /\ session = None
  <2>1. limits.windows = <<>>
    BY <1>1, <1>2, <1>6 DEF CollectLimits
  <2> QED
    BY <1>1, <2>1, NoWindowsFit
<1> QED
  BY <1>3, <1>4, <1>5, <1>6

(* The inventory that is collected fits.                                   *)
LEMMA InventoryFits ==
  ASSUME NEW s, IsSources(s), NEW when
  PROVE  SentInventory(ReadInventory(s, when))
<1>1. CASE s.reset # None
  <2>1. ReadInventory(s, when) = StoredInventory(s.reset, when)
    BY <1>1 DEF ReadInventory
  <2> QED
    BY <1>1, <2>1, PartsOfSources, StoredFits
<1>2. CASE s.reset = None /\ ~s.package
  <2>1. ReadInventory(s, when) = NoInventory("missing")
    BY <1>2 DEF ReadInventory
  <2> QED
    BY <2>1, NoInventoryFits
<1>3. CASE s.reset = None /\ s.package /\ s.cachedReset = None
  <2>1. ReadInventory(s, when) = NoInventory("unavailable")
    BY <1>3 DEF ReadInventory
  <2> QED
    BY <2>1, NoInventoryFits
<1>4. CASE s.reset = None /\ s.package /\ s.cachedReset # None
  <2>1. ReadInventory(s, when) = ChromiumInventory(s.cachedReset.body, s.cachedReset.at, when)
    BY <1>4 DEF ReadInventory
  <2> QED
    BY <1>4, <2>1, PartsOfSources, ChromiumFits
<1> QED
  BY <1>1, <1>2, <1>3, <1>4

Sendable(snapshot) == SentWindows(snapshot.windows) /\ SentInventory(snapshot.inventory)

(* What is collected can be sent.                                          *)
LEMMA CollectFits ==
  ASSUME NEW s, IsSources(s), NEW when
  PROVE  Sendable(Collect(s, when))
<1>1. PICK c : c = Collect(s, when)
  OBVIOUS
<1>2. c.windows = CollectLimits(s, when).windows /\ c.inventory = ReadInventory(s, when)
  BY <1>1 DEF Collect
<1> QED
  BY <1>1, <1>2, LimitsFit, InventoryFits DEF Sendable

(* The fields of an inventory.                                             *)
LEMMA ShapeOfInventory ==
  ASSUME NEW s, NEW when
  PROVE  \E status, count, at, items :
           ReadInventory(s, when) = [status |-> status, count |-> count, at |-> at, items |-> items]
<1>1. ASSUME NEW status
      PROVE  \E c, a, i : NoInventory(status) = [status |-> status, count |-> c, at |-> a, items |-> i]
  BY DEF NoInventory
<1>2. ASSUME NEW count, NEW at, NEW items
      PROVE  \E status, c : Counted(count, at, items) = [status |-> status, count |-> c, at |-> at, items |-> items]
  BY DEF Counted
<1>3. \/ \E status : ReadInventory(s, when) = NoInventory(status)
      \/ \E count, at, items : ReadInventory(s, when) = Counted(count, at, items)
  <2>1. CASE s.reset # None
    BY <2>1 DEF ReadInventory, StoredInventory
  <2>2. CASE s.reset = None /\ (~s.package \/ s.cachedReset = None)
    BY <2>2 DEF ReadInventory
  <2>3. CASE s.reset = None /\ s.package /\ s.cachedReset # None
    BY <2>3 DEF ReadInventory, ChromiumInventory
  <2> QED
    BY <2>1, <2>2, <2>3
<1> QED
  BY <1>1, <1>2, <1>3

SnapshotOf(a, b, c, w, i, l, f) ==
  [at |-> a, status |-> b, limitsAt |-> c, windows |-> w, inventory |-> i, link |-> l, fresh |-> f]

Reloaded(snapshot, when, inventory) ==
  [snapshot EXCEPT !.at = when, !.status = "partial", !.link = "stale", !.inventory = inventory]

(* The fields of a snapshot that is loaded.                                *)
LEMMA LoadedFields ==
  ASSUME NEW a, NEW b, NEW c, NEW w, NEW i, NEW l, NEW f, NEW when, NEW shown
  PROVE  /\ SnapshotOf(a, b, c, w, i, l, f).windows = w
         /\ SnapshotOf(a, b, c, w, i, l, f).inventory = i
         /\ Reloaded(SnapshotOf(a, b, c, w, i, l, f), when, shown).windows = w
         /\ Reloaded(SnapshotOf(a, b, c, w, i, l, f), when, shown).inventory = shown
<1>1. PICK snapshot : snapshot = SnapshotOf(a, b, c, w, i, l, f)
  OBVIOUS
<1>2. snapshot.windows = w /\ snapshot.inventory = i
  BY <1>1 DEF SnapshotOf
<1>3. PICK loaded : loaded = Reloaded(snapshot, when, shown)
  OBVIOUS
<1>4. loaded = [at |-> when, status |-> "partial", limitsAt |-> c, windows |-> w,
                inventory |-> shown, link |-> "stale", fresh |-> f]
  BY <1>1, <1>3 DEF SnapshotOf, Reloaded
<1>5. loaded.windows = w /\ loaded.inventory = shown
  BY <1>4
<1> QED
  BY <1>1, <1>2, <1>3, <1>5

(* What a later run loads fits.                                            *)
LEMMA LoadedFits ==
  ASSUME NEW s, IsSources(s), NEW then, NEW when,
         NEW snapshot, snapshot = Collect(s, then),
         NEW loaded, loaded = LoadCachedSnapshot(snapshot, when), loaded # None
  PROVE  Sendable(loaded)
<1>1. SentWindows(snapshot.windows) /\ SentInventory(snapshot.inventory)
  BY CollectFits DEF Sendable
<1>2. PICK left : left = Unexpired(snapshot.inventory.items, when)
  OBVIOUS
<1>3. FittingItems(left) /\ Len(left) \in Nat
  BY <1>1, <1>2, UnexpiredFit DEF SentInventory, FittingItems, ItemsOf
<1>4. PICK inventory : inventory = ReadInventory(s, then)
  OBVIOUS
<1>5. PICK limits : limits = CollectLimits(s, then)
  OBVIOUS
<1>6. snapshot = SnapshotOf(then, SourceStatus(s, limits, inventory), limits.at, limits.windows,
                            inventory, limits.link, s.fresh)
  BY <1>4, <1>5 DEF Collect, SnapshotOf
<1>7. snapshot.windows = limits.windows /\ snapshot.inventory = inventory
  BY <1>6, LoadedFields
<1>8. PICK status, count, at, items :
        inventory = [status |-> status, count |-> count, at |-> at, items |-> items]
  BY <1>4, ShapeOfInventory
<1>9. PICK shown : shown = [inventory EXCEPT !.items = left, !.count = Len(left),
                                             !.status = "cached_derived"]
  OBVIOUS
<1>10. shown.items = left /\ shown.count = Len(left)
  BY <1>8, <1>9
<1>11. SentInventory(shown)
  BY <1>3, <1>10 DEF SentInventory
<1>12. CASE inventory.status \in {"cached", "cached_derived"}
  <2>1. loaded = Reloaded(snapshot, when, shown)
    BY <1>2, <1>7, <1>9, <1>12 DEF LoadCachedSnapshot, Reloaded
  <2>2. loaded.windows = limits.windows /\ loaded.inventory = shown
    BY <1>6, <2>1, LoadedFields
  <2> QED
    BY <1>1, <1>7, <1>11, <2>2 DEF Sendable
<1>13. CASE inventory.status \notin {"cached", "cached_derived"}
  <2>1. loaded = Reloaded(snapshot, when, inventory)
    BY <1>2, <1>7, <1>13 DEF LoadCachedSnapshot, Reloaded
  <2>2. loaded.windows = limits.windows /\ loaded.inventory = inventory
    BY <1>6, <2>1, LoadedFields
  <2> QED
    BY <1>1, <1>7, <2>2 DEF Sendable
<1> QED
  BY <1>12, <1>13

(* What fits is taken in every version, but for the minutes.               *)
LEMMA SendableIsTaken ==
  ASSUME NEW snapshot, Sendable(snapshot), NEW version \in 1..3,
         \A i \in DOMAIN snapshot.windows : snapshot.windows[i].minutes < I32
  PROVE  PhoneTakesQuota(QuotaWire(snapshot, version), version)
<1>1. PICK n \in Nat : DOMAIN snapshot.inventory.items = 1..n
                       /\ \A i \in 1..n : Fits(snapshot.inventory.items[i])
  BY DEF Sendable, SentInventory, FittingItems, ItemsOf
<1>2. PICK items : items = [i \in DOMAIN snapshot.inventory.items |->
               IF version = 1
               THEN [id |-> snapshot.inventory.items[i].id,
                     title |-> snapshot.inventory.items[i].title,
                     expires |-> snapshot.inventory.items[i].expires]
               ELSE [granted |-> snapshot.inventory.items[i].granted,
                     expires |-> snapshot.inventory.items[i].expires]]
  OBVIOUS
<1>3. PICK wire : wire = QuotaWire(snapshot, version)
  OBVIOUS
<1>4. wire = [version |-> version, at |-> snapshot.at, windows |-> snapshot.windows,
              count |-> snapshot.inventory.count, items |-> items, fresh |-> version = 3]
  BY <1>2, <1>3 DEF QuotaWire
<1>5. /\ wire.version = version /\ wire.windows = snapshot.windows
      /\ wire.count = snapshot.inventory.count /\ wire.items = items
      /\ wire.fresh = (version = 3)
  BY <1>4
<1>6. ASSUME NEW i \in DOMAIN wire.windows
      PROVE  /\ wire.windows[i].minutes > 0 /\ wire.windows[i].minutes < I32
             /\ wire.windows[i].remaining # None => wire.windows[i].remaining \in 0..100
             /\ wire.windows[i].resetsAt >= 0
             /\ \A j \in DOMAIN wire.windows : wire.windows[j].id = wire.windows[i].id => i = j
  BY <1>5 DEF Sendable, SentWindows, SentWindow
<1>7. wire.count # None => wire.count >= 0
  <2>1. wire.count # None => wire.count \in Nat
    BY <1>5 DEF Sendable, SentInventory
  <2> QED
    BY <2>1
<1>8. ASSUME NEW i \in DOMAIN wire.items
      PROVE  /\ wire.items[i].expires >= 0
             /\ version = 1 => /\ ValidText(wire.items[i].id, 256)
                               /\ ValidText(wire.items[i].title, 128)
             /\ version > 1 => \/ wire.items[i].granted = None
                               \/ wire.items[i].granted >= 0
  <2>1. i \in 1..n
    BY <1>1, <1>2, <1>5
  <2>2. PICK item : item = snapshot.inventory.items[i]
    OBVIOUS
  <2>3. PICK made : made = wire.items[i]
    OBVIOUS
  <2>4. Fits(item)
    BY <1>1, <2>1, <2>2
  <2>5. made = IF version = 1
               THEN [id |-> item.id, title |-> item.title, expires |-> item.expires]
               ELSE [granted |-> item.granted, expires |-> item.expires]
    BY <1>1, <1>2, <1>5, <2>1, <2>2, <2>3
  <2>6. CASE version = 1
    <3>1. made.id = item.id /\ made.title = item.title /\ made.expires = item.expires
      BY <2>5, <2>6
    <3> QED
      BY <2>3, <2>4, <2>6, <3>1 DEF Fits, ValidText
  <2>7. CASE version # 1
    <3>1. made.granted = item.granted /\ made.expires = item.expires
      BY <2>5, <2>7
    <3> QED
      BY <2>3, <2>4, <2>7, <3>1 DEF Fits
  <2> QED
    BY <2>6, <2>7
<1> QED
  BY <1>3, <1>5, <1>6, <1>7, <1>8 DEF PhoneTakesQuota

(* Every snapshot is taken.                                                *)
LEMMA PhoneTakesEverySnapshotAfter ==
  ASSUME NEW sources \in Sources, NEW when, NEW later,
         call' = [kind |-> "collect", sources |-> sources, now |-> when, later |-> later,
                  got |-> Collect(sources, when),
                  cached |-> LoadCachedSnapshot(Collect(sources, when), later)]
  PROVE  PhoneTakesEverySnapshot'
<1>1. IsSources(sources)
  BY DataAssumption DEF DataAssumption
<1>2. PICK got : got = Collect(sources, when)
  OBVIOUS
<1>3. PICK cached : cached = LoadCachedSnapshot(got, later)
  OBVIOUS
<1>4. Sendable(got) /\ (cached # None => Sendable(cached))
  BY <1>1, <1>2, <1>3, CollectFits, LoadedFits
<1>5. call'.got = got /\ call'.cached = cached
  BY <1>2, <1>3
<1>6. ASSUME NEW version \in 1..3, NEW snapshot \in {got, cached} \ {None},
             \A i \in DOMAIN snapshot.windows : snapshot.windows[i].minutes < I32
      PROVE  PhoneTakesQuota(QuotaWire(snapshot, version), version)
  <2>1. Sendable(snapshot)
    BY <1>4
  <2> QED
    BY <1>6, <2>1, SendableIsTaken
<1> QED
  BY <1>5, <1>6 DEF PhoneTakesEverySnapshot

-----------------------------------------------------------------------------
-----------------------------------------------------------------------------
(* Chromium's block files.                                                 *)

(* No entry is read outside its file.                                      *)
LEMMA EntriesStayInside ==
  ASSUME NEW length \in Lengths, NEW key \in 0..(CAPACITY + 1),
         call' = [kind |-> "entries", length |-> length, key |-> key,
                  got |-> Entries(length, [offset \in HEADER..(length - 1) |-> key])]
  PROVE  CacheReadsStayInside'
<1>1. PICK keys : keys = [offset \in HEADER..(length - 1) |-> key]
  OBVIOUS
<1>2. PICK got : got = Entries(length, keys)
  OBVIOUS
<1>3. call'.kind = "entries" /\ call'.length = length /\ call'.key = key /\ call'.got = got
  BY <1>1, <1>2
<1>4. ASSUME NEW offset \in got
      PROVE  offset >= HEADER /\ offset + KEY + key <= length /\ offset + ENTRY <= length
  <2>1. offset \in HEADER..(length - 1)
    BY <1>2 DEF Entries
  <2>2. offset + ENTRY <= length /\ offset + KEY + keys[offset] <= length
    BY <1>2 DEF Entries
  <2>3. keys[offset] = key
    BY <1>1, <2>1
  <2>4. length \in Int
    BY DataAssumption DEF DataAssumption
  <2>5. offset >= HEADER
    BY <2>1, <2>4 DEF HEADER
  <2> QED
    BY <2>2, <2>3, <2>5
<1> QED
  BY <1>3, <1>4 DEF CacheReadsStayInside

(* No body is read outside its file, and none in a block file is cut.      *)
LEMMA AddressesStayInside ==
  ASSUME NEW address \in [initialized : BOOLEAN, kind : 0..5, start : 0..2],
         NEW size \in Lengths, NEW length \in Lengths \cup {None},
         call' = [kind |-> "address", length |-> length, size |-> size,
                  external |-> address.kind = 0, got |-> ReadCacheAddress(address, size, length)]
  PROVE  CacheReadsStayInside'
<1>1. PICK got : got = ReadCacheAddress(address, size, length)
  OBVIOUS
<1>2. /\ call'.kind = "address" /\ call'.length = length /\ call'.size = size
      /\ call'.external = (address.kind = 0) /\ call'.got = got
  BY <1>1
<1>3. size \in Nat /\ (length # None => length \in Nat)
  BY DataAssumption DEF DataAssumption
<1>4. PICK offset : offset = HEADER + address.start * BlockSize(address.kind)
  OBVIOUS
<1>5. address.kind \in 1..4 => offset \in Int /\ offset >= HEADER
  <2>1. address.start \in Nat
    OBVIOUS
  <2>2. CASE address.kind = 1
    BY <1>4, <2>1, <2>2 DEF BlockSize, HEADER
  <2>3. CASE address.kind = 2
    BY <1>4, <2>1, <2>3 DEF BlockSize, HEADER
  <2>4. CASE address.kind = 3
    BY <1>4, <2>1, <2>4 DEF BlockSize, HEADER
  <2>5. CASE address.kind = 4
    BY <1>4, <2>1, <2>5 DEF BlockSize, HEADER
  <2> QED
    BY <2>2, <2>3, <2>4, <2>5
<1>6. ASSUME got # None
      PROVE  /\ got.to <= length
             /\ address.kind # 0 => got.from >= HEADER /\ got.to - got.from = size
  <2>1. length # None /\ address.kind \in 0..4
    BY <1>1, <1>6 DEF ReadCacheAddress
  <2>2. CASE address.kind = 0
    <3>1. got = [from |-> 0, to |-> IF size < length THEN size ELSE length]
      BY <1>1, <1>6, <2>2 DEF ReadCacheAddress
    <3>2. got.to = IF size < length THEN size ELSE length
      BY <3>1
    <3> QED
      BY <1>3, <2>1, <2>2, <3>2
  <2>3. CASE address.kind # 0
    <3>1. got = [from |-> offset, to |-> offset + size] /\ ~(offset + size > length)
      BY <1>1, <1>4, <1>6, <2>3 DEF ReadCacheAddress
    <3>2. got.from = offset /\ got.to = offset + size
      BY <3>1
    <3>3. offset \in Int /\ offset >= HEADER
      BY <1>5, <2>1, <2>3
    <3> QED
      BY <1>3, <2>1, <3>1, <3>2, <3>3
  <2> QED
    BY <2>2, <2>3
<1> QED
  BY <1>2, <1>6 DEF CacheReadsStayInside

-----------------------------------------------------------------------------
(* The newest of several.                                                  *)

(* Of a few answers one is the newest.                                     *)
LEMMA NewestOfAnswers ==
  ASSUME NEW n \in 1..3, NEW at, \A i \in 1..n : at[i] \in Nat
  PROVE  \E i \in 1..n : \A j \in 1..n : at[j] < at[i] \/ (at[j] = at[i] /\ j <= i)
<1>1. CASE n = 1
  BY <1>1
<1>2. CASE n = 2
  <2>1. at[1] \in Nat /\ at[2] \in Nat
    BY <1>2
  <2>2. at[1] <= at[2] \/ at[2] < at[1]
    BY <2>1
  <2>3. \A j \in 1..2 : j = 1 \/ j = 2
    OBVIOUS
  <2> QED
    BY <1>2, <2>1, <2>2, <2>3
<1>3. CASE n = 3
  <2>1. at[1] \in Nat /\ at[2] \in Nat /\ at[3] \in Nat
    BY <1>3
  <2>2. \A j \in 1..3 : j = 1 \/ j = 2 \/ j = 3
    OBVIOUS
  <2>3. CASE at[1] <= at[3] /\ at[2] <= at[3]
    BY <1>3, <2>1, <2>2, <2>3
  <2>4. CASE at[1] <= at[2] /\ at[3] < at[2]
    BY <1>3, <2>1, <2>2, <2>4
  <2>5. CASE at[2] < at[1] /\ at[3] < at[1]
    BY <1>3, <2>1, <2>2, <2>5
  <2> QED
    BY <2>1, <2>3, <2>4, <2>5
<1> QED
  BY <1>1, <1>2, <1>3

IsNewest(parsed, i) ==
  \A k \in DOMAIN parsed : \/ parsed[k].at < parsed[i].at
                           \/ parsed[k].at = parsed[i].at /\ k <= i

(* The newest copy of Chromium's wins.                                     *)
LEMMA NewestAnswerWins ==
  ASSUME NEW n \in 0..3, NEW answers \in [1..n -> Times],
         call' = [kind |-> "answers", answers |-> answers,
                  got |-> NewestAnswer([i \in DOMAIN answers |-> [at |-> answers[i], body |-> i]])]
  PROVE  NewestWins'
<1>1. PICK parsed : parsed = [i \in DOMAIN answers |-> [at |-> answers[i], body |-> i]]
  OBVIOUS
<1>2. PICK got : got = NewestAnswer(parsed)
  OBVIOUS
<1>3. call'.kind = "answers" /\ call'.answers = answers /\ call'.got = got
  BY <1>1, <1>2
<1>4. \A i \in 1..n : answers[i] \in Nat
  BY DataAssumption DEF DataAssumption
<1>5. DOMAIN parsed = 1..n /\ \A i \in 1..n : parsed[i].at = answers[i] /\ parsed[i].body = i
  BY <1>1
<1>6. ASSUME got # None, NEW j \in 1..n
      PROVE  answers[j] < got.at \/ (answers[j] = got.at /\ j <= got.body)
  <2>1. n \in 1..3
    OBVIOUS
  <2>2. parsed # <<>>
    BY <1>2, <1>6 DEF NewestAnswer
  <2>3. PICK won : won = CHOOSE i \in DOMAIN parsed : IsNewest(parsed, i)
    OBVIOUS
  <2>4. got = parsed[won]
    BY <1>2, <2>2, <2>3, Zenon DEF NewestAnswer, IsNewest
  <2>5. \E i \in 1..n : \A k \in 1..n : answers[k] < answers[i] \/ (answers[k] = answers[i] /\ k <= i)
    BY <1>4, <2>1, NewestOfAnswers
  <2>6. \E i \in DOMAIN parsed : IsNewest(parsed, i)
    BY <1>5, <2>5 DEF IsNewest
  <2>7. won \in DOMAIN parsed /\ IsNewest(parsed, won)
    BY <2>3, <2>6
  <2>8. won \in 1..n /\ got.at = answers[won] /\ got.body = won
    BY <1>5, <2>4, <2>7
  <2>9. \/ parsed[j].at < parsed[won].at
        \/ parsed[j].at = parsed[won].at /\ j <= won
    BY <1>5, <2>7 DEF IsNewest
  <2>10. parsed[j].at = answers[j] /\ parsed[won].at = answers[won]
    BY <1>5, <2>8
  <2> QED
    BY <2>8, <2>9, <2>10
<1> QED
  BY <1>3, <1>6 DEF NewestWins

(* The newest line of the session logs wins.                               *)
LEMMA NewestLineWins ==
  ASSUME NEW files \in Logs,
         call' = [kind |-> "sessions", files |-> files, got |-> LatestRateLimits(files)]
  PROVE  NewestWins'
<1> DEFINE Line == [at : Optional(Nat), limits : Nat \X Nat]
<1>1. \A line \in Line : line.at \in Optional(Nat)
  OBVIOUS
<1> HIDE DEF Line
<1> DEFINE Log == [modified : Nat, lines : Seq(Line)]
<1>2. \A log \in Log : log.modified \in Nat /\ log.lines \in Seq(Line)
  OBVIOUS
<1> HIDE DEF Log
<1>3. files \in Seq(Log)
  BY DataAssumption DEF DataAssumption, Log, Line
<1>4. \A f \in DOMAIN files : \A i \in DOMAIN files[f].lines : files[f].lines[i].limits = <<f, i>>
  BY DataAssumption DEF DataAssumption
<1>5. IsLog(files)
  <2>1. \E n \in Nat : DOMAIN files = 1..n
    BY <1>3
  <2>2. ASSUME NEW f \in DOMAIN files
        PROVE  /\ files[f].modified \in Nat /\ \E n \in Nat : DOMAIN files[f].lines = 1..n
               /\ \A i \in DOMAIN files[f].lines : files[f].lines[i] \in Line
    <3>1. files[f].modified \in Nat /\ files[f].lines \in Seq(Line)
      BY <1>2, <1>3
    <3> QED
      BY <3>1
  <2> QED
    BY <1>1, <2>1, <2>2 DEF IsLog
<1>6. PICK got : got = LatestRateLimits(files)
  OBVIOUS
<1>7. call'.kind = "sessions" /\ call'.files = files /\ call'.got = got
  BY <1>6
<1>8. ASSUME got # None
      PROVE  \A l \in LinesOf(files) :
               \/ TimeOf(files, l) < TimeOf(files, got.limits)
               \/ /\ TimeOf(files, l) = TimeOf(files, got.limits)
                  /\ Modified(files, l) <= Modified(files, got.limits)
  <2>1. PICK won \in LinesOf(files) :
          /\ got = [at |-> TimeOf(files, won), limits |-> LimitsOf(files, won)]
          /\ \A k \in LinesOf(files) : Wins(files, won, k)
    BY <1>5, <1>6, <1>8, LatestIsTheWinner
  <2>2. won = <<won[1], won[2]>> /\ won[1] \in DOMAIN files /\ won[2] \in DOMAIN files[won[1]].lines
    BY <2>1, LinesArePlaces
  <2>3. LimitsOf(files, won) = won
    BY <1>4, <2>2 DEF LimitsOf
  <2>4. got.limits = won
    BY <2>1, <2>3
  <2>5. ASSUME NEW l \in LinesOf(files), ReadBefore(files, won, l)
        PROVE  Modified(files, l) <= Modified(files, won)
    <3>1. Modified(files, l) \in Nat /\ Modified(files, won) \in Nat
      BY <1>5, <2>1, LinesHaveTimes DEF Modified
    <3>2. won[1] = l[1] => Modified(files, l) = Modified(files, won)
      BY DEF Modified
    <3> QED
      BY <2>5, <3>1, <3>2 DEF ReadBefore
  <2> QED
    BY <2>1, <2>4, <2>5 DEF Wins
<1>9. LinesOf(files) = UNION {{<<f, i>> : i \in DOMAIN files[f].lines} : f \in DOMAIN files}
  BY DEF LinesOf
<1>10. \A l : /\ Modified(files, l) = files[l[1]].modified
              /\ TimeOf(files, l) = IF files[l[1]].lines[l[2]].at = None THEN files[l[1]].modified
                                    ELSE files[l[1]].lines[l[2]].at
  BY DEF Modified, TimeOf
<1> HIDE DEF Line, Log
<1>11. ASSUME got # None
       PROVE  \A l \in UNION {{<<f, i>> : i \in DOMAIN files[f].lines} : f \in DOMAIN files} :
                \/ TimeOf(files, l) < TimeOf(files, got.limits)
                \/ /\ TimeOf(files, l) = TimeOf(files, got.limits)
                   /\ files[l[1]].modified <= files[got.limits[1]].modified
  BY <1>8, <1>9, <1>10, <1>11
<1>12. ASSUME got # None
       PROVE  LET lines == UNION {{<<f, i>> : i \in DOMAIN files[f].lines} : f \in DOMAIN files}
                  At(l) == IF files[l[1]].lines[l[2]].at = None THEN files[l[1]].modified
                           ELSE files[l[1]].lines[l[2]].at
              IN \A l \in lines :
                   \/ At(l) < At(got.limits)
                   \/ /\ At(l) = At(got.limits)
                      /\ files[l[1]].modified <= files[got.limits[1]].modified
  BY <1>11, <1>12 DEF TimeOf
<1> QED
  BY <1>7, <1>12 DEF NewestWins

-----------------------------------------------------------------------------
-----------------------------------------------------------------------------
(* What calls yield.                                                       *)

Errors == {"CredentialsUnavailable", "Unauthorized", "RequestFailed",
           "ResponseFormatChanged", "HttpStatus"}

(* A refresh yields an error, or the windows of a body.                    *)
LEMMA UsageYields ==
  ASSUME NEW auth, NEW status, NEW body, NEW when
  PROVE  \/ \E e \in Errors : RefreshUsage(auth, status, body, when) = [error |-> e]
         \/ /\ body # None
            /\ RefreshUsage(auth, status, body, when)
                 = [at |-> when, windows |-> WindowsOf(body, NormalizeWindow, when)]
<1>1. \/ \E e \in Errors : FetchUsage(status, body, when) = [error |-> e]
      \/ /\ body # None
         /\ FetchUsage(status, body, when)
              = [at |-> when, windows |-> WindowsOf(body, NormalizeWindow, when)]
  <2>1. \E e \in Errors : StatusError(status) = [error |-> e]
    <3>1. status = 0 \/ status = 401 \/ status \notin {0, 401}
      OBVIOUS
    <3> QED
      BY <3>1 DEF StatusError, Errors
  <2>2. \E e \in Errors : FormatError = [error |-> e]
    BY DEF FormatError, Errors
  <2>3. CASE ~Succeeded(status)
    BY <2>1, <2>3 DEF FetchUsage
  <2>4. CASE Succeeded(status) /\ body = None
    BY <2>2, <2>4 DEF FetchUsage
  <2>5. CASE Succeeded(status) /\ body # None
    BY <2>5 DEF FetchUsage
  <2> QED
    BY <2>3, <2>4, <2>5
<1>2. PICK read : read = ReadAccessToken(auth)
  OBVIOUS
<1>3. \/ read = [error |-> "CredentialsUnavailable"] \/ \E x : read = [token |-> x]
  <2>1. PICK x : x = auth.length
    OBVIOUS
  <2>2. \/ read = [error |-> "CredentialsUnavailable"] \/ read = [token |-> x]
    BY <1>2, <2>1 DEF ReadAccessToken
  <2> QED
    BY <2>2
<1>4. CASE read = [error |-> "CredentialsUnavailable"]
  <2>1. "error" \in DOMAIN read
    BY <1>4
  <2>2. RefreshUsage(auth, status, body, when) = read
    BY <1>2, <2>1 DEF RefreshUsage
  <2> QED
    BY <1>4, <2>2 DEF Errors
<1>5. CASE \E x : read = [token |-> x]
  <2>1. "error" \notin DOMAIN read
    BY <1>5
  <2>2. RefreshUsage(auth, status, body, when) = FetchUsage(status, body, when)
    BY <1>2, <2>1 DEF RefreshUsage
  <2> QED
    BY <1>1, <2>2
<1> QED
  BY <1>3, <1>4, <1>5

(* A usage call is typed.                                                  *)
LEMMA UsageTyped ==
  ASSUME NEW auth, NEW status, NEW body, NEW when,
         call' = [kind |-> "usage", body |-> body, now |-> when,
                  got |-> RefreshUsage(auth, status, body, when)]
  PROVE  DataTypeOK'
<1>1. PICK got : got = RefreshUsage(auth, status, body, when)
  OBVIOUS
<1>2. call'.kind = "usage" /\ call'.got = got /\ call'.now = when
  BY <1>1
<1>3. IF "error" \in DOMAIN got
      THEN ErrorCode(got.error) \in {"AUTH_UNAVAILABLE", "AUTH_REJECTED", "NETWORK",
                                     "RESPONSE_FORMAT", "UPSTREAM_HTTP"}
      ELSE got.at = when
  <2>1. CASE \E e \in Errors : got = [error |-> e]
    <3>1. PICK e \in Errors : got = [error |-> e]
      BY <2>1
    <3>2. "error" \in DOMAIN got /\ got.error = e
      BY <3>1
    <3>3. ErrorCode(e) \in {"AUTH_UNAVAILABLE", "AUTH_REJECTED", "NETWORK",
                            "RESPONSE_FORMAT", "UPSTREAM_HTTP"}
      BY <3>1 DEF ErrorCode, Errors
    <3> QED
      BY <3>2, <3>3
  <2>2. CASE \E w : got = [at |-> when, windows |-> w]
    <3>1. "error" \notin DOMAIN got /\ got.at = when
      BY <2>2
    <3> QED
      BY <3>1
  <2> QED
    BY <1>1, <2>1, <2>2, UsageYields
<1> QED
  BY <1>2, <1>3 DEF DataTypeOK

(* An inventory is counted, or there is none.                              *)
LEMMA InventoryIs ==
  ASSUME NEW s, NEW when
  PROVE  \/ \E status \in {"missing", "unavailable"} : ReadInventory(s, when) = NoInventory(status)
         \/ \E count, at, items : ReadInventory(s, when) = Counted(count, at, items)
<1>1. CASE s.reset # None
  BY <1>1 DEF ReadInventory, StoredInventory
<1>2. CASE s.reset = None /\ (~s.package \/ s.cachedReset = None)
  BY <1>2 DEF ReadInventory
<1>3. CASE s.reset = None /\ s.package /\ s.cachedReset # None
  BY <1>3 DEF ReadInventory, ChromiumInventory
<1> QED
  BY <1>1, <1>2, <1>3

(* The fields of an inventory.                                             *)
LEMMA InventoryFields ==
  ASSUME NEW s, NEW when, NEW inventory, inventory = ReadInventory(s, when)
  PROVE  \/ inventory.status \in {"missing", "unavailable"} /\ inventory.items = <<>>
            /\ inventory.count = None
         \/ inventory.status \in {"cached", "cached_derived"}
            /\ inventory.count = Len(inventory.items)
<1>1. ASSUME NEW status \in {"missing", "unavailable"}, inventory = NoInventory(status)
      PROVE  inventory.status = status /\ inventory.items = <<>> /\ inventory.count = None
  BY <1>1 DEF NoInventory
<1>2. ASSUME NEW count, NEW at, NEW items, inventory = Counted(count, at, items)
      PROVE  inventory.status \in {"cached", "cached_derived"}
             /\ inventory.count = Len(inventory.items)
  <2>1. PICK status \in {"cached", "cached_derived"} :
          inventory = [status |-> status, count |-> Len(items), at |-> at, items |-> items]
    BY <1>2 DEF Counted
  <2>2. inventory.status = status /\ inventory.items = items /\ inventory.count = Len(items)
    BY <2>1
  <2> QED
    BY <2>1, <2>2
<1> QED
  BY <1>1, <1>2, InventoryIs

(* A collect is typed.                                                     *)
LEMMA CollectTyped ==
  ASSUME NEW s, NEW when, NEW later, NEW cached,
         call' = [kind |-> "collect", sources |-> s, now |-> when, later |-> later,
                  got |-> Collect(s, when), cached |-> cached]
  PROVE  DataTypeOK'
<1>1. PICK got : got = Collect(s, when)
  OBVIOUS
<1>2. call'.kind = "collect" /\ call'.got = got /\ call'.now = when
  BY <1>1
<1>3. PICK inventory : inventory = ReadInventory(s, when)
  OBVIOUS
<1>4. PICK limits : limits = CollectLimits(s, when)
  OBVIOUS
<1>5. PICK status : status = SourceStatus(s, limits, inventory)
  OBVIOUS
<1>6. /\ got.at = when /\ got.status = status /\ got.link = limits.link
      /\ got.inventory = inventory
  BY <1>1, <1>3, <1>4, <1>5 DEF Collect
<1>7. status \in {"ok", "partial", "unavailable"}
  BY <1>5 DEF SourceStatus
<1>8. limits.link \in {"ok", "stale", "format_changed", "unavailable"}
  BY <1>4 DEF CollectLimits, FromSessions
<1>9. inventory.status \in {"cached", "cached_derived", "missing", "unavailable"}
  BY <1>3, InventoryFields
<1> QED
  BY <1>2, <1>6, <1>7, <1>8, <1>9 DEF DataTypeOK

-----------------------------------------------------------------------------
(* What a later run loads.                                                 *)

(* What is left has not expired.                                           *)
LEMMA UnexpiredAreLeft ==
  ASSUME NEW items, NEW when, NEW Q, ItemsOf(items, Q),
         NEW left, left = Unexpired(items, when)
  PROVE  \A i \in DOMAIN left : left[i].expires > when
<1>1. PICK n \in Nat : DOMAIN items = 1..n
  BY DEF ItemsOf
<1>2. PICK P : P = {i \in DOMAIN items : items[i].expires > when}
  OBVIOUS
<1>3. Among(P, n)
  BY <1>1, <1>2 DEF Among
<1>4. PICK m : m = Cardinality(P)
  OBVIOUS
<1>5. left = Picked(items, P)
  BY <1>2 DEF Unexpired
<1>6. DOMAIN left = 1..m /\ \A k \in 1..m : \E i \in P : left[k] = items[i]
  BY <1>3, <1>4, <1>5, PickedFrom
<1>7. \A i \in P : items[i].expires > when
  BY <1>2
<1> QED
  BY <1>6, <1>7

(* The status of a snapshot that is loaded.                                *)
LEMMA LoadedLook ==
  ASSUME NEW a, NEW b, NEW c, NEW w, NEW i, NEW l, NEW f, NEW when, NEW shown
  PROVE  /\ Reloaded(SnapshotOf(a, b, c, w, i, l, f), when, shown).status = "partial"
         /\ Reloaded(SnapshotOf(a, b, c, w, i, l, f), when, shown).link = "stale"
<1>1. PICK snapshot : snapshot = SnapshotOf(a, b, c, w, i, l, f)
  OBVIOUS
<1>2. PICK loaded : loaded = Reloaded(snapshot, when, shown)
  OBVIOUS
<1>3. loaded = [at |-> when, status |-> "partial", limitsAt |-> c, windows |-> w,
                inventory |-> shown, link |-> "stale", fresh |-> f]
  BY <1>1, <1>2 DEF SnapshotOf, Reloaded
<1>4. loaded.status = "partial" /\ loaded.link = "stale"
  BY <1>3
<1> QED
  BY <1>1, <1>2, <1>4

(* What a later run loads looks old.                                       *)
LEMMA ReloadedLooksOldAfter ==
  ASSUME NEW s \in Sources, NEW when, NEW later,
         call' = [kind |-> "collect", sources |-> s, now |-> when, later |-> later,
                  got |-> Collect(s, when), cached |-> LoadCachedSnapshot(Collect(s, when), later)]
  PROVE  ReloadedLooksOld'
<1>1. IsSources(s)
  BY DataAssumption DEF DataAssumption
<1>2. PICK snapshot : snapshot = Collect(s, when)
  OBVIOUS
<1>3. PICK loaded : loaded = LoadCachedSnapshot(snapshot, later)
  OBVIOUS
<1>4. call'.kind = "collect" /\ call'.cached = loaded /\ call'.later = later
  BY <1>2, <1>3
<1>5. PICK inventory : inventory = ReadInventory(s, when)
  OBVIOUS
<1>6. PICK limits : limits = CollectLimits(s, when)
  OBVIOUS
<1>7. snapshot = SnapshotOf(when, SourceStatus(s, limits, inventory), limits.at, limits.windows,
                            inventory, limits.link, s.fresh)
  BY <1>2, <1>5, <1>6 DEF Collect, SnapshotOf
<1>8. snapshot.inventory = inventory
  BY <1>7, LoadedFields
<1>9. PICK left : left = Unexpired(inventory.items, later)
  OBVIOUS
<1>10. \A i \in DOMAIN left : left[i].expires > later
  <2>1. SentInventory(inventory)
    BY <1>1, <1>5, InventoryFits
  <2>2. PICK Q : ItemsOf(inventory.items, Q)
    BY <2>1 DEF SentInventory, FittingItems
  <2> QED
    BY <1>9, <2>2, UnexpiredAreLeft
<1>11. ASSUME loaded # None
       PROVE  /\ loaded.status = "partial" /\ loaded.link = "stale"
              /\ loaded.inventory.status # "cached"
              /\ \A i \in DOMAIN loaded.inventory.items : loaded.inventory.items[i].expires > later
              /\ \/ loaded.inventory.count = None
                 \/ loaded.inventory.count = Len(loaded.inventory.items)
  <2>1. CASE inventory.status \in {"cached", "cached_derived"}
    <3>1. PICK status, count, at, items :
            inventory = [status |-> status, count |-> count, at |-> at, items |-> items]
      BY <1>5, ShapeOfInventory
    <3>2. PICK shown : shown = [inventory EXCEPT !.items = left, !.count = Len(left),
                                                 !.status = "cached_derived"]
      OBVIOUS
    <3>3. shown.items = left /\ shown.count = Len(left) /\ shown.status = "cached_derived"
      BY <3>1, <3>2
    <3>4. loaded = Reloaded(snapshot, later, shown)
      BY <1>3, <1>8, <1>9, <1>11, <2>1, <3>2 DEF LoadCachedSnapshot, Reloaded
    <3>5. loaded.status = "partial" /\ loaded.link = "stale" /\ loaded.inventory = shown
      BY <1>7, <3>4, LoadedFields, LoadedLook
    <3> QED
      BY <1>10, <3>3, <3>5
  <2>2. CASE inventory.status \notin {"cached", "cached_derived"}
    <3>1. inventory.items = <<>> /\ inventory.count = None
      BY <1>5, <2>2, InventoryFields
    <3>2. loaded = Reloaded(snapshot, later, inventory)
      BY <1>3, <1>8, <1>11, <2>2 DEF LoadCachedSnapshot, Reloaded
    <3>3. loaded.status = "partial" /\ loaded.link = "stale" /\ loaded.inventory = inventory
      BY <1>7, <3>2, LoadedFields, LoadedLook
    <3>4. DOMAIN <<>> = {}
      OBVIOUS
    <3> QED
      BY <2>2, <3>1, <3>3, <3>4
  <2> QED
    BY <2>1, <2>2
<1> QED
  BY <1>4, <1>11 DEF ReloadedLooksOld

-----------------------------------------------------------------------------
-----------------------------------------------------------------------------
(* The cards of an answer, until they are shown.                           *)

(* a lists the elements of s at the places P, f saying where each was.     *)
Moves(f, a, m, s, P) ==
  /\ m \in Nat /\ DOMAIN a = 1..m /\ f \in [1..m -> P]
  /\ \A j, k \in 1..m : j # k => f[j] # f[k]
  /\ \A i \in P : \E k \in 1..m : f[k] = i
  /\ \A k \in 1..m : a[k] = s[f[k]]

(* The places at which something expires at t.                             *)
DueAt(a, t) == {k \in DOMAIN a : a[k].expires = t}

(* Picking moves what is picked.                                           *)
LEMMA PickedMoves ==
  ASSUME NEW s, NEW n, NEW P, Among(P, n), NEW a, a = Picked(s, P)
  PROVE  \E f : Moves(f, a, Cardinality(P), s, P)
<1>0. n \in Nat /\ P \subseteq 1..n
  BY DEF Among
<1>1. PICK m : m = Cardinality(P)
  OBVIOUS
<1>2. IsFiniteSet(P)
  <2>1. 1 \in Int /\ n \in Int
    BY <1>0
  <2>2. IsFiniteSet(1..n)
    BY <2>1, FS_Interval
  <2> QED
    BY <1>0, <2>2, FS_Subset
<1>3. PICK f : f = Ascending(P)
  OBVIOUS
<1>4. P \subseteq Nat /\ \A i \in P : i \in Int
  BY <1>0
<1>5. Places(m, P, f)
  BY <1>1, <1>2, <1>3, <1>4, AscendingIsInOrder
<1>6. a = [k \in 1..m |-> s[f[k]]]
  BY <1>1, <1>3 DEF Picked
<1>7. m \in Nat /\ f \in [1..m -> P] /\ \A i \in P : \E k \in 1..m : f[k] = i
  BY <1>5 DEF Places
<1>8. ASSUME NEW j \in 1..m, NEW k \in 1..m, j # k
      PROVE  f[j] # f[k]
  <2>1. f[j] \in Int /\ f[k] \in Int
    <3>1. f[j] \in P /\ f[k] \in P
      BY <1>7
    <3> QED
      BY <1>4, <3>1
  <2>2. j < k \/ k < j
    BY <1>7, <1>8
  <2>3. f[j] < f[k] \/ f[k] < f[j]
    BY <1>5, <2>2 DEF Places
  <2> QED
    BY <2>1, <2>3
<1>9. Moves(f, a, m, s, P)
  BY <1>6, <1>7, <1>8 DEF Moves
<1> QED
  BY <1>1, <1>9

(* Sorting moves everything.                                               *)
LEMMA SortingMoves ==
  ASSUME NEW items, NEW n \in Nat, DOMAIN items = 1..n,
         \A i \in 1..n : items[i].expires \in Int,
         NEW cards, cards = ByExpiry(items)
  PROVE  \E f : Moves(f, cards, n, items, 1..n)
<1>1. cards = [i \in 1..n |-> cards[i]]
  BY SortedByExpiry
<1>2. PICK f : Soonest(f, items, n) /\ \A i \in 1..n : cards[i] = items[f[i]]
  BY SortedByExpiry
<1>3. ASSUME NEW j \in 1..n, NEW k \in 1..n, j # k
      PROVE  f[j] # f[k]
  <2>1. j < k \/ k < j
    BY <1>3
  <2> QED
    BY <1>2, <2>1 DEF Soonest
<1>4. Moves(f, cards, n, items, 1..n)
  BY <1>1, <1>2, <1>3 DEF Moves, Soonest
<1> QED
  BY <1>4

(* As many are due after a move as before.                                 *)
LEMMA MovedAreDue ==
  ASSUME NEW f, NEW a, NEW m, NEW s, NEW P, Moves(f, a, m, s, P),
         NEW t, NEW V, V \subseteq P, \A i \in P : i \in V <=> s[i].expires = t
  PROVE  Cardinality(DueAt(a, t)) = Cardinality(V)
<1>1. PICK W : W = DueAt(a, t)
  OBVIOUS
<1>2. W \subseteq 1..m /\ \A k \in 1..m : k \in W <=> f[k] \in V
  BY <1>1 DEF DueAt, Moves
<1>3. PICK g : g = [k \in W |-> f[k]]
  OBVIOUS
<1>4. g \in [W -> V] /\ \A k \in W : g[k] = f[k]
  BY <1>2, <1>3
<1>5. \A j, k \in W : j # k => g[j] # g[k]
  BY <1>2, <1>4 DEF Moves
<1>6. \A i \in V : \E k \in W : g[k] = i
  BY <1>2, <1>4 DEF Moves
<1>7. g \in Bijection(W, V)
  BY <1>4, <1>5, <1>6 DEF Bijection, Injection, Surjection, IsInjective
<1>8. IsFiniteSet(W)
  <2>1. 1 \in Int /\ m \in Int
    BY DEF Moves
  <2>2. IsFiniteSet(1..m)
    BY <2>1, FS_Interval
  <2> QED
    BY <1>2, <2>2, FS_Subset
<1> QED
  BY <1>1, <1>7, <1>8, FS_Bijection DEF ExistsBijection

(* Cards with their expiries, soonest first.                               *)
Due(cards, n) ==
  /\ n \in Nat /\ DOMAIN cards = 1..n /\ \A i \in 1..n : cards[i].expires \in Int

(* Sorted cards are soonest first, and as many are due.                    *)
LEMMA SortedAreDue ==
  ASSUME NEW items, NEW n, Due(items, n), NEW cards, cards = ByExpiry(items)
  PROVE  /\ Due(cards, n)
         /\ \A i, j \in 1..n : j < i => cards[j].expires <= cards[i].expires
         /\ \A t : Cardinality(DueAt(cards, t)) = Cardinality(DueAt(items, t))
<1>1. n \in Nat /\ DOMAIN items = 1..n /\ \A i \in 1..n : items[i].expires \in Int
  BY DEF Due
<1>2. PICK f : Soonest(f, items, n) /\ \A i \in 1..n : cards[i] = items[f[i]]
  BY <1>1, SortedByExpiry
<1>3. DOMAIN cards = 1..n
  <2>1. cards = [i \in 1..n |-> cards[i]]
    BY <1>1, SortedByExpiry
  <2> QED
    BY <2>1
<1>4. Due(cards, n)
  BY <1>1, <1>2, <1>3 DEF Due, Soonest
<1>5. ASSUME NEW i \in 1..n, NEW j \in 1..n, j < i
      PROVE  cards[j].expires <= cards[i].expires
  <2>1. items[f[j]].expires <= items[f[i]].expires
    BY <1>2, <1>5 DEF Soonest
  <2>2. cards[j] = items[f[j]] /\ cards[i] = items[f[i]]
    BY <1>2
  <2> QED
    BY <2>1, <2>2
<1>6. ASSUME NEW t
      PROVE  Cardinality(DueAt(cards, t)) = Cardinality(DueAt(items, t))
  <2>0. PICK S : S = 1..n
    OBVIOUS
  <2>1. PICK g : Moves(g, cards, n, items, S)
    BY <1>1, <2>0, SortingMoves
  <2>2. PICK V : V = DueAt(items, t)
    OBVIOUS
  <2>3. V \subseteq S /\ \A i \in S : i \in V <=> items[i].expires = t
    BY <1>1, <2>0, <2>2 DEF DueAt
  <2>4. Cardinality(DueAt(cards, t)) = Cardinality(V)
    BY <2>1, <2>3, MovedAreDue
  <2> QED
    BY <2>2, <2>4
<1> QED
  BY <1>4, <1>5, <1>6

(* Of the unexpired cards, as many are due later as before.                *)
LEMMA UnexpiredAreDue ==
  ASSUME NEW items, NEW n, Due(items, n), NEW when \in Int,
         NEW left, left = Unexpired(items, when)
  PROVE  /\ \E m : Due(left, m) /\ m = Len(left) /\ m <= n
         /\ \A i \in DOMAIN left : left[i].expires > when
         /\ \A t \in Int : t > when => Cardinality(DueAt(left, t)) = Cardinality(DueAt(items, t))
<1>1. n \in Nat /\ DOMAIN items = 1..n /\ \A i \in 1..n : items[i].expires \in Int
  BY DEF Due
<1>2. PICK P : P = {i \in DOMAIN items : items[i].expires > when}
  OBVIOUS
<1>3. Among(P, n) /\ \A i \in 1..n : i \in P <=> items[i].expires > when
  BY <1>1, <1>2 DEF Among
<1>4. left = Picked(items, P)
  BY <1>2 DEF Unexpired
<1>5. PICK m : m = Cardinality(P)
  OBVIOUS
<1>6. /\ m \in Nat /\ m <= n /\ Len(left) = m /\ DOMAIN left = 1..m
      /\ \A k \in 1..m : \E i \in P : left[k] = items[i]
  BY <1>3, <1>4, <1>5, PickedFrom
<1>7. P \subseteq 1..n
  BY <1>3 DEF Among
<1>8. \A k \in 1..m : left[k].expires \in Int /\ left[k].expires > when
  BY <1>1, <1>3, <1>6, <1>7
<1>9. Due(left, m)
  BY <1>6, <1>8 DEF Due
<1>10. ASSUME NEW t \in Int, t > when
       PROVE  Cardinality(DueAt(left, t)) = Cardinality(DueAt(items, t))
  <2>1. PICK f : Moves(f, left, m, items, P)
    BY <1>3, <1>4, <1>5, PickedMoves
  <2>2. PICK V : V = DueAt(items, t)
    OBVIOUS
  <2>3. \A i \in 1..n : i \in V <=> items[i].expires = t
    BY <1>1, <2>2 DEF DueAt
  <2>4. V \subseteq 1..n
    BY <1>1, <2>2 DEF DueAt
  <2>5. V \subseteq P
    BY <1>3, <1>10, <2>3, <2>4
  <2>6. \A i \in P : i \in V <=> items[i].expires = t
    BY <1>7, <2>3
  <2>7. Cardinality(DueAt(left, t)) = Cardinality(V)
    BY <2>1, <2>5, <2>6, MovedAreDue
  <2> QED
    BY <2>2, <2>7
<1> QED
  BY <1>6, <1>8, <1>9, <1>10

(* The available cards of an answer that are due at t.                     *)
Available(credits, t) ==
  {i \in DOMAIN credits :
     credits[i].available /\ credits[i].granted # None /\ credits[i].expires = t}

(* What is stored of an answer.                                            *)
LEMMA ParsedIsDue ==
  ASSUME NEW body, body \in Inventories, NEW when \in Int,
         NEW got, got = ParseDirectInventory(body, when), "error" \notin DOMAIN got
  PROVE  /\ got.count = body.count
         /\ \E n : Due(got.cards, n)
         /\ \A t \in Int : t > when =>
              Cardinality(DueAt(got.cards, t)) = Cardinality(Available(body.credits, t))
<1>1. None \notin {body.count, body.credits}
  BY DEF ParseDirectInventory, FormatError
<1>2. PICK credits : credits = body.credits
  OBVIOUS
<1>3. credits \in Seq(ResetCredits)
  BY <1>1, <1>2 DEF Inventories, Optional
<1>4. PICK n \in Nat : DOMAIN credits = 1..n /\ \A i \in 1..n : credits[i] \in ResetCredits
  BY <1>3
<1>5. PICK P : P = {i \in DOMAIN credits :
                      credits[i].available /\ None \notin {credits[i].granted, credits[i].expires}
                        /\ credits[i].expires > when}
  OBVIOUS
<1>6. Among(P, n)
  BY <1>4, <1>5 DEF Among
<1>7. \A i \in P : credits[i].expires \in Int
  BY <1>4, <1>5 DEF ResetCredits, Optional
<1>8. PICK cards : cards = Picked(credits, P)
  OBVIOUS
<1>9. PICK m : m = Cardinality(P)
  OBVIOUS
<1>10. PICK f : Moves(f, cards, m, credits, P)
  BY <1>6, <1>8, <1>9, PickedMoves
<1>11. PICK pairs : pairs = [i \in DOMAIN cards |->
                              [granted |-> cards[i].granted, expires |-> cards[i].expires]]
  OBVIOUS
<1>12. /\ m \in Nat /\ DOMAIN cards = 1..m
       /\ \A k \in 1..m : f[k] \in P /\ cards[k] = credits[f[k]]
  BY <1>10 DEF Moves
<1>13. DOMAIN pairs = 1..m /\ \A k \in 1..m : pairs[k].expires = cards[k].expires
  BY <1>11, <1>12
<1>14. Due(pairs, m)
  BY <1>7, <1>12, <1>13 DEF Due
<1>15. PICK sorted : sorted = ByExpiry(pairs)
  OBVIOUS
<1>16. got = [at |-> when, count |-> body.count, cards |-> sorted]
  <2>1. ParseDirectInventory(body, when) = FormatError
        \/ ParseDirectInventory(body, when) = [at |-> when, count |-> body.count, cards |-> sorted]
    <3>1. PICK count : count = body.count
      OBVIOUS
    <3> QED
      BY <1>2, <1>5, <1>8, <1>11, <1>15, <3>1, Zenon DEF ParseDirectInventory
  <2>2. "error" \in DOMAIN FormatError
    BY DEF FormatError
  <2> QED
    BY <2>1, <2>2
<1>17. got.cards = sorted /\ got.count = body.count
  BY <1>16
<1>18. Due(sorted, m) /\ \A t : Cardinality(DueAt(sorted, t)) = Cardinality(DueAt(pairs, t))
  BY <1>14, <1>15, SortedAreDue
<1>19. ASSUME NEW t \in Int, t > when
       PROVE  Cardinality(DueAt(pairs, t)) = Cardinality(Available(credits, t))
  <2>1. DueAt(pairs, t) = DueAt(cards, t)
    BY <1>12, <1>13 DEF DueAt
  <2>2. PICK V : V = Available(credits, t)
    OBVIOUS
  <2>3. \A i \in 1..n : i \in V <=> /\ credits[i].available /\ credits[i].granted # None
                                    /\ credits[i].expires = t
    BY <1>4, <2>2 DEF Available
  <2>4. \A i \in 1..n : i \in P <=> /\ credits[i].available
                                    /\ credits[i].granted # None /\ credits[i].expires # None
                                    /\ credits[i].expires > when
    BY <1>4, <1>5
  <2>5. V \subseteq 1..n /\ t # None
    BY <1>4, <2>2, QuotaDataAssumption DEF Available, QuotaDataAssumption
  <2>6. V \subseteq P
    BY <1>19, <2>3, <2>4, <2>5
  <2>7. P \subseteq 1..n
    BY <1>6 DEF Among
  <2>8. \A i \in P : i \in V <=> credits[i].expires = t
    BY <2>3, <2>4, <2>7
  <2>9. Cardinality(DueAt(cards, t)) = Cardinality(V)
    BY <1>10, <2>6, <2>8, MovedAreDue
  <2> QED
    BY <2>1, <2>2, <2>9
<1> QED
  BY <1>2, <1>17, <1>18, <1>19

(* What is shown of the file.                                              *)
LEMMA StoredIsDue ==
  ASSUME NEW file, NEW n, Due(file.cards, n), NEW later \in Int,
         NEW got, got = StoredInventory(file, later)
  PROVE  /\ got.count = Len(got.items)
         /\ \E m \in Nat :
              /\ DOMAIN got.items = 1..m
              /\ \A i \in 1..m : got.items[i].expires > later
              /\ \A i, j \in 1..m : j < i => got.items[j].expires <= got.items[i].expires
         /\ \A t \in Int : t > later =>
              Cardinality(DueAt(got.items, t)) = Cardinality(DueAt(file.cards, t))
         /\ (got.status = "cached") <=> (Len(got.items) = file.count)
<1>1. PICK left : left = Unexpired(file.cards, later)
  OBVIOUS
<1>2. PICK m : Due(left, m) /\ m = Len(left)
  BY <1>1, UnexpiredAreDue
<1>3. PICK cards : cards = ByExpiry(left)
  OBVIOUS
<1>4. /\ Due(cards, m)
      /\ \A i, j \in 1..m : j < i => cards[j].expires <= cards[i].expires
      /\ \A t : Cardinality(DueAt(cards, t)) = Cardinality(DueAt(left, t))
  BY <1>2, <1>3, SortedAreDue
<1>5. /\ m \in Nat /\ DOMAIN left = 1..m /\ DOMAIN cards = 1..m
      /\ \A i \in 1..m : left[i].expires \in Int
  BY <1>2, <1>4 DEF Due
<1>6. PICK items : items = [i \in DOMAIN cards |->
                             [id |-> NumberedId(i), title |-> 10,
                              granted |-> cards[i].granted, expires |-> cards[i].expires]]
  OBVIOUS
<1>7. DOMAIN items = 1..m /\ \A i \in 1..m : items[i].expires = cards[i].expires
  BY <1>5, <1>6
<1>8. \A i \in 1..m : cards[i].expires > later
  <2>1. \A i \in DOMAIN left : left[i].expires > later
    BY <1>1, UnexpiredAreDue
  <2>2. PICK f : Soonest(f, left, m) /\ \A i \in 1..m : cards[i] = left[f[i]]
    BY <1>3, <1>5, SortedByExpiry
  <2>3. \A i \in 1..m : f[i] \in 1..m
    BY <2>2 DEF Soonest
  <2> QED
    BY <1>5, <2>1, <2>2, <2>3
<1>9. ASSUME NEW t \in Int, t > later
      PROVE  Cardinality(DueAt(items, t)) = Cardinality(DueAt(file.cards, t))
  <2>1. DueAt(items, t) = DueAt(cards, t)
    BY <1>5, <1>7 DEF DueAt
  <2>2. Cardinality(DueAt(left, t)) = Cardinality(DueAt(file.cards, t))
    BY <1>1, <1>9, UnexpiredAreDue
  <2> QED
    BY <1>4, <2>1, <2>2
<1>10. got = Counted(file.count, file.at, items)
  BY <1>1, <1>3, <1>6 DEF StoredInventory
<1>11. PICK count, at, status :
         /\ count = Len(items) /\ at = file.at
         /\ status = IF Len(items) # file.count THEN "cached_derived" ELSE "cached"
  OBVIOUS
<1>12. got = [status |-> status, count |-> count, at |-> at, items |-> items]
  BY <1>10, <1>11 DEF Counted
<1>13. got.items = items /\ got.count = count /\ got.status = status
  BY <1>12
<1>14. \A i, j \in 1..m : j < i => items[j].expires <= items[i].expires
  BY <1>4, <1>7
<1>15. \A i \in 1..m : items[i].expires > later
  BY <1>7, <1>8
<1> QED
  BY <1>5, <1>7, <1>9, <1>11, <1>13, <1>14, <1>15

(* The cards shown are the available ones.                                 *)
LEMMA CardsAreShown ==
  ASSUME NEW body \in CardBodies, NEW when \in Times, NEW later \in Times, when <= later,
         NEW stored, stored = FetchInventory(200, body, when),
         NEW got, got = IF "error" \in DOMAIN stored THEN None ELSE StoredInventory(stored, later),
         call' = [kind |-> "cards", body |-> body, now |-> when, later |-> later, got |-> got]
  PROVE  CardsAreTheAvailableOnes'
<1>1. body \in Inventories /\ when \in Int /\ later \in Int /\ (\A t \in Times : t \in Int)
  BY DataAssumption DEF DataAssumption
<1>2. call'.body = body /\ call'.later = later /\ call'.got = got
  OBVIOUS
<1>3. SUFFICES ASSUME got # None
               PROVE  CardsAreTheAvailableOnes'
  BY <1>2 DEF CardsAreTheAvailableOnes
<1>4. "error" \notin DOMAIN stored /\ got = StoredInventory(stored, later)
  BY <1>3
<1>5. stored = ParseDirectInventory(body, when)
  <2>1. 200 \in 200..299
    OBVIOUS
  <2>2. body # None
    <3>1. ASSUME body = None
          PROVE  FALSE
      <4>1. stored = FormatError
        BY <2>1, <3>1 DEF FetchInventory, Succeeded
      <4>2. "error" \in DOMAIN FormatError
        BY DEF FormatError
      <4> QED
        BY <1>4, <4>1, <4>2
    <3> QED
      BY <3>1
  <2> QED
    BY <2>1, <2>2 DEF FetchInventory, Succeeded
<1>6. /\ stored.count = body.count
      /\ \E n : Due(stored.cards, n)
      /\ \A t \in Int : t > when =>
           Cardinality(DueAt(stored.cards, t)) = Cardinality(Available(body.credits, t))
  BY <1>1, <1>4, <1>5, ParsedIsDue
<1>7. PICK n : Due(stored.cards, n)
  BY <1>6
<1>8. later \in Int
  BY <1>1
<1>9. got = StoredInventory(stored, later)
  BY <1>4
<1>10. /\ got.count = Len(got.items)
       /\ \A t \in Int : t > later =>
            Cardinality(DueAt(got.items, t)) = Cardinality(DueAt(stored.cards, t))
       /\ (got.status = "cached") <=> (Len(got.items) = stored.count)
  BY ONLY <1>7, <1>8, <1>9, StoredIsDue
<1>11. PICK m \in Nat :
        /\ DOMAIN got.items = 1..m
        /\ \A i \in 1..m : got.items[i].expires > later
        /\ \A i, j \in 1..m : j < i => got.items[j].expires <= got.items[i].expires
  BY ONLY <1>7, <1>8, <1>9, StoredIsDue
<1>12. \A i \in 1..m : \A j \in 1..(i - 1) : got.items[j].expires <= got.items[i].expires
  <2>1. \A i \in 1..m : \A j \in 1..(i - 1) : j \in 1..m /\ j < i
    OBVIOUS
  <2> QED
    BY <1>11, <2>1
<1>13. ASSUME NEW t \in Times, t > later
       PROVE  Cardinality({i \in DOMAIN got.items : got.items[i].expires = t})
                = Cardinality({i \in DOMAIN body.credits :
                                 body.credits[i].available /\ body.credits[i].granted # None
                                   /\ body.credits[i].expires = t})
  <2>1. Cardinality(DueAt(got.items, t)) = Cardinality(DueAt(stored.cards, t))
    BY <1>1, <1>10, <1>13
  <2>2. t \in Int /\ t > when
    BY <1>1, <1>13
  <2>3. Cardinality(DueAt(stored.cards, t)) = Cardinality(Available(body.credits, t))
    BY <1>6, <2>2
  <2>4. Cardinality(DueAt(got.items, t)) = Cardinality(Available(body.credits, t))
    BY <2>1, <2>3
  <2> QED
    BY <2>4, Zenon DEF DueAt, Available
<1>14. (got.status = "cached") = (Len(got.items) = body.count)
  BY <1>6, <1>10
<1>15. PICK items : items = got.items
  OBVIOUS
<1> QED
  BY <1>2, <1>10, <1>11, <1>12, <1>13, <1>14 DEF CardsAreTheAvailableOnes

-----------------------------------------------------------------------------
-----------------------------------------------------------------------------
(* Windows say what upstream said.                                         *)

Tells(w, slot, v, when) ==
  /\ w.id[1] = slot
  /\ 60 * w.minutes = v.length /\ w.resetsAt = v.resetsAt
  /\ IF v.resetsAt > when
     THEN w.status = "current" /\ 2 * w.remaining + v.used = Full
     ELSE w.status = "pending_sync" /\ w.remaining = None

(* Two halves are a whole.                                                 *)
LEMMA Halves ==
  ASSUME NEW a \in Int, a >= 0, a <= 200, a % 2 # 1
  PROVE  2 * ((200 - a) \div 2) + a = 200
OBVIOUS

(* Whole minutes are sixty seconds each.                                   *)
LEMMA Sixtieths ==
  ASSUME NEW a \in Nat, a % 60 = 0
  PROVE  60 * (a \div 60) = a /\ a \div 60 \in Nat /\ (a > 0 => a \div 60 > 0)
OBVIOUS

(* What the window of a value is, when there is one.                       *)
LEMMA NormalizedIs ==
  ASSUME NEW v, NEW slot, NEW when, NEW w, w = NormalizeWindow(slot, v, when), w # None,
         NEW minutes, minutes = v.length \div 60
  PROVE  /\ None \notin {v.length, v.used, v.resetsAt}
         /\ v.length % 60 = 0 /\ v.used \in 0..Full
         /\ ~(v.resetsAt > when /\ v.used % 2 = 1)
         /\ w = [id |-> <<slot, minutes>>, name |-> WindowName(minutes), minutes |-> minutes,
                 remaining |-> IF v.resetsAt > when THEN (Full - v.used) \div 2 ELSE None,
                 resetsAt |-> v.resetsAt,
                 status |-> IF v.resetsAt > when THEN "current" ELSE "pending_sync"]
<1>1. /\ None \notin {v.length, v.used, v.resetsAt} /\ v.length % 60 = 0
      /\ w = NormalizeWindowValues(slot, minutes, v.used, v.resetsAt, when)
  BY DEF NormalizeWindow
<1> QED
  BY <1>1 DEF NormalizeWindowValues

(* A window tells what the value says.                                     *)
LEMMA WindowTells ==
  ASSUME NEW v \in WindowValues, NEW slot, NEW when,
         NEW w, w = NormalizeWindow(slot, v, when), w # None
  PROVE  Tells(w, slot, v, when)
<1>1. PICK minutes : minutes = v.length \div 60
  OBVIOUS
<1>2. PICK remaining, status :
        /\ remaining = IF v.resetsAt > when THEN (Full - v.used) \div 2 ELSE None
        /\ status = IF v.resetsAt > when THEN "current" ELSE "pending_sync"
  OBVIOUS
<1>3. /\ None \notin {v.length, v.used, v.resetsAt}
      /\ v.length % 60 = 0 /\ v.used \in 0..Full
      /\ ~(v.resetsAt > when /\ v.used % 2 = 1)
      /\ w = [id |-> <<slot, minutes>>, name |-> WindowName(minutes), minutes |-> minutes,
              remaining |-> remaining, resetsAt |-> v.resetsAt, status |-> status]
  BY <1>1, <1>2, NormalizedIs
<1>4. v.length \in Nat /\ v.used \in Int /\ v.resetsAt \in Int
  BY <1>3, FieldsOfAWindow
<1>5. /\ w.id = <<slot, minutes>> /\ w.minutes = minutes /\ w.remaining = remaining
      /\ w.resetsAt = v.resetsAt /\ w.status = status
  BY <1>3
<1>6. 60 * minutes = v.length
  BY <1>1, <1>3, <1>4, Sixtieths
<1>7. v.resetsAt > when => 2 * remaining + v.used = Full
  <2>1. v.used >= 0 /\ v.used <= 200
    BY <1>3, <1>4 DEF Full
  <2> QED
    BY <1>2, <1>3, <1>4, <2>1, Halves DEF Full
<1> QED
  BY <1>2, <1>5, <1>6, <1>7 DEF Tells

(* A value that is whole.                                                  *)
Whole(v) ==
  /\ None \notin {v.length, v.used, v.resetsAt}
  /\ v.length > 0 /\ v.length % 60 = 0 /\ v.length < 60 * U32
  /\ v.resetsAt \in 1..LastSecond
  /\ v.used \in {2 * percent : percent \in 0..100}

(* Minutes that are a u32.                                                 *)
LEMMA MinutesFit ==
  ASSUME NEW a \in Nat, NEW u \in Nat, a < 60 * u
  PROVE  a \div 60 < u
OBVIOUS

(* A whole value has a window.                                             *)
LEMMA WholeIsKept ==
  ASSUME NEW v \in WindowValues, NEW slot \in {"primary", "secondary"}, NEW when, Whole(v)
  PROVE  NormalizeWindow(slot, v, when) # None
<1>1. PICK minutes : minutes = v.length \div 60
  OBVIOUS
<1>2. /\ v.length \in Nat /\ v.used \in Int /\ v.resetsAt \in Nat
      /\ v.resetsAt >= 1 /\ v.resetsAt <= LastSecond
  BY FieldsOfAWindow, QuotaDataAssumption DEF Whole, QuotaDataAssumption
<1>3. PICK percent \in 0..100 : v.used = 2 * percent
  BY DEF Whole
<1>4. v.used \in 0..Full /\ v.used % 2 # 1 /\ (Full - v.used) \div 2 \in Nat
  BY <1>3 DEF Full
<1>5. minutes \in Nat /\ minutes > 0
  BY <1>1, <1>2, Sixtieths DEF Whole
<1>6. minutes < U32
  BY <1>1, <1>2, MinutesFit, QuotaDataAssumption DEF Whole, QuotaDataAssumption
<1>7. PICK remaining, status, name :
        /\ remaining = IF v.resetsAt > when THEN (Full - v.used) \div 2 ELSE None
        /\ status = IF v.resetsAt > when THEN "current" ELSE "pending_sync"
        /\ name = WindowName(minutes)
  OBVIOUS
<1>8. PICK w : w = [id |-> <<slot, minutes>>, name |-> name, minutes |-> minutes,
                    remaining |-> remaining, resetsAt |-> v.resetsAt, status |-> status]
  OBVIOUS
<1>9. NormalizeWindowValues(slot, minutes, v.used, v.resetsAt, when) = w
  <2>1. ~(\/ minutes = 0 \/ v.used \notin 0..Full \/ v.resetsAt \notin 1..LastSecond
          \/ v.resetsAt > when /\ v.used % 2 = 1)
    BY <1>2, <1>4, <1>5 DEF Whole
  <2> QED
    BY <1>7, <1>8, <2>1 DEF NormalizeWindowValues
<1>10. NormalizeWindow(slot, v, when) = w
  <2>1. ~(\/ None \in {v.length, v.used, v.resetsAt}
          \/ v.length = 0 \/ v.length % 60 # 0 \/ v.length \div 60 >= U32)
    BY <1>1, <1>2, <1>5, <1>6, QuotaDataAssumption DEF Whole, QuotaDataAssumption
  <2> QED
    BY <1>1, <1>9, <2>1 DEF NormalizeWindow
<1>11. w \in Windows
  <2>1. name \in {"five_hour", "weekly", "custom"}
    BY <1>7 DEF WindowName
  <2>2. status \in {"current", "pending_sync"} /\ remaining \in Optional(Nat)
    BY <1>4, <1>7 DEF Optional
  <2> QED
    BY <1>2, <1>5, <1>8, <2>1, <2>2 DEF Windows
<1> QED
  BY <1>10, <1>11, DataAssumption DEF DataAssumption

(* The two windows of an answer.                                           *)
SlotOf(value, slot, when) ==
  IF value = None THEN None ELSE NormalizeWindow(slot, value, when)

(* The windows of an answer are those of its slots.                        *)
LEMMA WindowsAreSlots ==
  ASSUME NEW limits, NEW when,
         NEW windows, windows = WindowsOf(limits, NormalizeWindow, when),
         NEW one, one = SlotOf(limits.primary, "primary", when),
         NEW two, two = SlotOf(limits.secondary, "secondary", when)
  PROVE  /\ \A i \in DOMAIN windows : windows[i] # None /\ windows[i] \in {one, two}
         /\ one # None => \E i \in DOMAIN windows : windows[i] = one
         /\ two # None => \E i \in DOMAIN windows : windows[i] = two
<1>1. PICK slots : slots = <<one, two>>
  OBVIOUS
<1>2. windows = Picked(slots, {i \in 1..2 : slots[i] # None})
  BY <1>1 DEF WindowsOf, SlotOf
<1>3. PICK P : P = {i \in 1..2 : slots[i] # None}
  OBVIOUS
<1>4. PICK n : n = 2
  OBVIOUS
<1>5. Among(P, n)
  BY <1>3, <1>4 DEF Among
<1>6. PICK m : m = Cardinality(P)
  OBVIOUS
<1>7. PICK f : Moves(f, windows, m, slots, P)
  BY <1>2, <1>3, <1>5, <1>6, PickedMoves
<1>8. /\ DOMAIN windows = 1..m
      /\ \A k \in 1..m : f[k] \in P /\ windows[k] = slots[f[k]]
      /\ \A i \in P : \E k \in 1..m : f[k] = i
  BY <1>7 DEF Moves
<1>9. slots[1] = one /\ slots[2] = two
  BY <1>1
<1>10. \A i \in P : slots[i] # None /\ slots[i] \in {one, two}
  BY <1>3, <1>9
<1>11. one # None => 1 \in P
  BY <1>3, <1>9
<1>12. two # None => 2 \in P
  BY <1>3, <1>9
<1> QED
  BY <1>8, <1>9, <1>10, <1>11, <1>12

(* The windows of a refresh say what upstream said.                        *)
LEMMA WindowsSayWhatUpstreamSaidAfter ==
  ASSUME NEW auth, NEW status, NEW body \in Limits \cup {None}, NEW when,
         NEW got, got = RefreshUsage(auth, status, body, when),
         call' = [kind |-> "usage", body |-> body, now |-> when, got |-> got]
  PROVE  WindowsSayWhatUpstreamSaid'
<1>1. call'.kind = "usage" /\ call'.body = body /\ call'.now = when /\ call'.got = got
  OBVIOUS
<1>2. CASE \E e \in Errors : got = [error |-> e]
  <2>1. "windows" \notin DOMAIN got
    BY <1>2
  <2> QED
    BY <1>1, <2>1 DEF WindowsSayWhatUpstreamSaid
<1>3. PICK windows : windows = WindowsOf(body, NormalizeWindow, when)
  OBVIOUS
<1>4. CASE body # None /\ got = [at |-> when, windows |-> windows]
  <2>1. got.windows = windows
    BY <1>4
  <2>2. /\ body.primary \in Optional(WindowValues) /\ body.secondary \in Optional(WindowValues)
    <3>1. body \in UsageBodies
      BY <1>4, DataAssumption DEF DataAssumption
    <3> QED
      BY <3>1 DEF UsageBodies
  <2>3. PICK one, two : /\ one = SlotOf(body.primary, "primary", when)
                        /\ two = SlotOf(body.secondary, "secondary", when)
    OBVIOUS
  <2>4. /\ \A i \in DOMAIN windows : windows[i] # None /\ windows[i] \in {one, two}
        /\ one # None => \E i \in DOMAIN windows : windows[i] = one
        /\ two # None => \E i \in DOMAIN windows : windows[i] = two
    BY <1>3, <2>3, WindowsAreSlots
  <2>5. one # None => body.primary \in WindowValues /\ Tells(one, "primary", body.primary, when)
    <3>1. one # None => /\ body.primary \in WindowValues
                        /\ one = NormalizeWindow("primary", body.primary, when)
      BY <2>2, <2>3 DEF SlotOf, Optional
    <3> QED
      BY <3>1, WindowTells
  <2>6. two # None => body.secondary \in WindowValues /\ Tells(two, "secondary", body.secondary, when)
    <3>1. two # None => /\ body.secondary \in WindowValues
                        /\ two = NormalizeWindow("secondary", body.secondary, when)
      BY <2>2, <2>3 DEF SlotOf, Optional
    <3> QED
      BY <3>1, WindowTells
  <2>7. ASSUME NEW i \in DOMAIN windows,
               NEW v, v = IF windows[i].id[1] = "primary" THEN body.primary ELSE body.secondary
        PROVE  /\ 60 * windows[i].minutes = v.length /\ windows[i].resetsAt = v.resetsAt
               /\ IF v.resetsAt > when
                  THEN windows[i].status = "current" /\ 2 * windows[i].remaining + v.used = Full
                  ELSE windows[i].status = "pending_sync" /\ windows[i].remaining = None
    <3>1. CASE windows[i] = one
      <4>1. Tells(windows[i], "primary", body.primary, when)
        BY <2>4, <2>5, <3>1
      <4> QED
        BY <2>7, <4>1 DEF Tells
    <3>2. CASE windows[i] = two
      <4>1. Tells(windows[i], "secondary", body.secondary, when)
        BY <2>4, <2>6, <3>2
      <4> QED
        BY <2>7, <4>1 DEF Tells
    <3> QED
      BY <2>4, <3>1, <3>2
  <2>8. ASSUME NEW v \in {body.primary, body.secondary} \ {None}, Whole(v)
        PROVE  \E i \in DOMAIN windows : windows[i].resetsAt = v.resetsAt
    <3>1. v \in WindowValues
      BY <2>2 DEF Optional
    <3>2. CASE v = body.primary
      <4>1. one # None
        BY <2>3, <2>8, <3>1, <3>2, WholeIsKept DEF SlotOf
      <4> QED
        BY <2>4, <2>5, <3>2, <4>1 DEF Tells
    <3>3. CASE v = body.secondary
      <4>1. two # None
        BY <2>3, <2>8, <3>1, <3>3, WholeIsKept DEF SlotOf
      <4> QED
        BY <2>4, <2>6, <3>3, <4>1 DEF Tells
    <3> QED
      BY <3>2, <3>3
  <2> QED
    BY <1>1, <2>1, <2>7, <2>8 DEF WindowsSayWhatUpstreamSaid, Whole
<1> QED
  BY <1>2, <1>3, <1>4, UsageYields

-----------------------------------------------------------------------------
-----------------------------------------------------------------------------
(* Windows are shown with the time of their source.                        *)

(* What a line of a session log would be shown as.                         *)
LineShown(log, line, when) ==
  <<IF line.at = None THEN log.modified ELSE line.at,
    WindowsOf(line.limits, NormalizeLegacyWindow, when)>>

LinesShown(files, when) ==
  UNION {{LineShown(log, line, when) : line \in ToSet(log.lines)} : log \in ToSet(files)}

(* The line that wins is one of them; without lines there is none.         *)
LEMMA SessionShown ==
  ASSUME NEW files \in SessionLogs, NEW when,
         NEW session, session = LatestRateLimits(files)
  PROVE  IF session = None THEN LinesShown(files, when) = {}
         ELSE <<session.at, WindowsOf(session.limits, NormalizeLegacyWindow, when)>>
                \in LinesShown(files, when)
<1>1. IsLog(files) /\ \A l \in LinesOf(files) : LimitsOf(files, l) \in UsageBodies
  BY SessionLogsAreLogs
<1>2. \A x : x \in LinesShown(files, when) <=>
               \E log \in ToSet(files) : \E line \in ToSet(log.lines) : x = LineShown(log, line, when)
  BY DEF LinesShown
<1>3. CASE LinesOf(files) = {} /\ session = None
  <2>1. ASSUME NEW log \in ToSet(files), NEW line \in ToSet(log.lines)
        PROVE  FALSE
    <3>1. PICK f \in DOMAIN files : files[f] = log
      BY DEF ToSet
    <3>2. PICK i \in DOMAIN log.lines : log.lines[i] = line
      BY DEF ToSet
    <3>3. PICK l : l = <<f, i>>
      OBVIOUS
    <3>4. l[1] = f /\ l[2] = i
      BY <3>3
    <3>5. l \in LinesOf(files)
      BY <3>1, <3>2, <3>3, <3>4, LinesArePlaces
    <3> QED
      BY <1>3, <3>5
  <2> QED
    BY <1>2, <1>3, <2>1
<1>4. ASSUME NEW won \in LinesOf(files),
             session = [at |-> TimeOf(files, won), limits |-> LimitsOf(files, won)]
      PROVE  /\ session # None
             /\ <<session.at, WindowsOf(session.limits, NormalizeLegacyWindow, when)>>
                  \in LinesShown(files, when)
  <2>1. session \in ReadLimits
    <3>1. TimeOf(files, won) \in Nat
      BY <1>1, LinesHaveTimes
    <3>2. LimitsOf(files, won) \in UsageBodies
      BY <1>1
    <3> QED
      BY <1>4, <3>1, <3>2 DEF ReadLimits
  <2>2. session # None
    BY <2>1, DataAssumption DEF DataAssumption
  <2>3. session.at = TimeOf(files, won) /\ session.limits = LimitsOf(files, won)
    BY <1>4
  <2>4. won[1] \in DOMAIN files /\ won[2] \in DOMAIN files[won[1]].lines
    BY LinesArePlaces
  <2>5. PICK log : log = files[won[1]]
    OBVIOUS
  <2>6. PICK line : line = log.lines[won[2]]
    OBVIOUS
  <2>7. log \in ToSet(files) /\ line \in ToSet(log.lines)
    BY <2>4, <2>5, <2>6 DEF ToSet
  <2>8. /\ session.at = IF line.at = None THEN log.modified ELSE line.at
        /\ session.limits = line.limits
    BY <2>3, <2>5, <2>6 DEF TimeOf, LimitsOf
  <2>9. <<session.at, WindowsOf(session.limits, NormalizeLegacyWindow, when)>>
          = LineShown(log, line, when)
    BY <2>8 DEF LineShown
  <2> QED
    BY <1>2, <2>2, <2>7, <2>9
<1> QED
  BY <1>1, <1>3, <1>4, LatestIsTheWinner

(* What a source yields: the time and the windows.                         *)
Found(direct, cached, session, got) ==
  LET found == direct \cup cached \cup session
  IN IF found = {}
     THEN /\ got.limitsAt = None /\ got.windows = <<>>
          /\ got.link = "unavailable"
     ELSE <<got.limitsAt, got.windows>> \in found /\ got.link # "unavailable"

DirectShown(s) == IF s.usage = None THEN {} ELSE {<<s.usage.at, s.usage.windows>>}

CachedShown(s, when) ==
  IF s.cachedUsage = None \/ ~s.package \/ DirectShown(s) # {} THEN {}
  ELSE {<<s.cachedUsage.at,
          IF s.cachedUsage.body = None THEN <<>>
          ELSE WindowsOf(s.cachedUsage.body, NormalizeWindow, when)>>}

SessionsShown(s, when) ==
  IF DirectShown(s) \cup CachedShown(s, when) # {} THEN {} ELSE LinesShown(s.sessions, when)

(* The limits that are collected are those of one source.                  *)
LEMMA LimitsAreFound ==
  ASSUME NEW s, IsSources(s), NEW when, NEW limits, limits = CollectLimits(s, when),
         NEW got, got.limitsAt = limits.at, got.windows = limits.windows, got.link = limits.link
  PROVE  Found(DirectShown(s), CachedShown(s, when), SessionsShown(s, when), got)
<1>1. PICK session : session = LatestRateLimits(s.sessions)
  OBVIOUS
<1>2. CASE s.usage # None
  <2>1. /\ limits.at = s.usage.at /\ limits.windows = s.usage.windows
        /\ limits.link \in {"ok", "stale"}
    BY <1>2 DEF CollectLimits
  <2>2. DirectShown(s) = {<<s.usage.at, s.usage.windows>>}
    BY <1>2 DEF DirectShown
  <2> QED
    BY <2>1, <2>2 DEF Found
<1>3. CASE s.usage = None /\ s.package /\ s.cachedUsage # None
  <2>1. PICK w : w = IF s.cachedUsage.body = None THEN <<>>
                     ELSE WindowsOf(s.cachedUsage.body, NormalizeWindow, when)
    OBVIOUS
  <2>2. /\ limits.at = s.cachedUsage.at /\ limits.windows = w
        /\ limits.link \in {"ok", "format_changed"}
    BY <1>3, <2>1 DEF CollectLimits
  <2>3. CachedShown(s, when) = {<<s.cachedUsage.at, w>>}
    BY <1>3, <2>1 DEF CachedShown, DirectShown
  <2> QED
    BY <2>2, <2>3 DEF Found
<1>4. CASE s.usage = None /\ (~s.package \/ s.cachedUsage = None)
  <2>1. DirectShown(s) = {} /\ CachedShown(s, when) = {}
    BY <1>4 DEF DirectShown, CachedShown
  <2>2. SessionsShown(s, when) = LinesShown(s.sessions, when)
    BY <2>1 DEF SessionsShown
  <2>3. s.sessions \in SessionLogs
    BY PartsOfSources
  <2>4. PICK w : w = WindowsOf(session.limits, NormalizeLegacyWindow, when)
    OBVIOUS
  <2>5. CASE session = None
    <3>1. limits.at = None /\ limits.windows = <<>> /\ limits.link = "unavailable"
      BY <1>1, <1>4, <2>5 DEF CollectLimits
    <3>2. LinesShown(s.sessions, when) = {}
      BY <1>1, <2>3, <2>5, SessionShown
    <3> QED
      BY <2>1, <2>2, <3>1, <3>2 DEF Found
  <2>6. CASE session # None
    <3>1. limits = FromSessions(session, when)
      BY <1>1, <1>4, <2>6 DEF CollectLimits
    <3>2. limits.at = session.at /\ limits.windows = w /\ limits.link = "ok"
      BY <2>4, <3>1 DEF FromSessions
    <3>3. <<session.at, w>> \in LinesShown(s.sessions, when)
      BY <1>1, <2>3, <2>4, <2>6, SessionShown
    <3> QED
      BY <2>1, <2>2, <3>2, <3>3 DEF Found
  <2> QED
    BY <2>5, <2>6
<1> QED
  BY <1>2, <1>3, <1>4

(* No sources are mixed.                                                   *)
LEMMA NoSourcesMixedAfter ==
  ASSUME NEW s \in Sources, NEW when, NEW later, NEW cached,
         NEW got, got = Collect(s, when),
         call' = [kind |-> "collect", sources |-> s, now |-> when, later |-> later,
                  got |-> got, cached |-> cached]
  PROVE  NoSourcesMixed'
<1>1. IsSources(s)
  BY DataAssumption DEF DataAssumption
<1>2. call'.kind = "collect" /\ call'.sources = s /\ call'.now = when /\ call'.got = got
  OBVIOUS
<1>3. PICK limits : limits = CollectLimits(s, when)
  OBVIOUS
<1>4. PICK inventory : inventory = ReadInventory(s, when)
  OBVIOUS
<1>5. PICK status : status = SourceStatus(s, limits, inventory)
  OBVIOUS
<1>6. got.limitsAt = limits.at /\ got.windows = limits.windows /\ got.link = limits.link
  BY <1>3, <1>4, <1>5 DEF Collect
<1>7. Found(DirectShown(s), CachedShown(s, when), SessionsShown(s, when), got)
  BY <1>1, <1>3, <1>6, LimitsAreFound
<1>8. Found(DirectShown(call'.sources), CachedShown(call'.sources, call'.now),
            SessionsShown(call'.sources, call'.now), call'.got)
  BY <1>2, <1>7
<1> QED
  BY <1>8, Zenon DEF NoSourcesMixed, Found, DirectShown, CachedShown, SessionsShown,
                           LinesShown, LineShown

-----------------------------------------------------------------------------
(* Every behaviour of HostData.                                            *)

(* A call is of the kind it is named for.                                  *)
LEMMA KindsOfCalls ==
  /\ CallUsage => call'.kind = "usage"
  /\ CallCards => call'.kind = "cards"
  /\ CallCollect => call'.kind = "collect"
  /\ CallSessions => call'.kind = "sessions"
  /\ CallAnswers => call'.kind = "answers"
  /\ CallEntries => call'.kind = "entries"
  /\ CallAddress => call'.kind = "address"
  /\ CallHello => call'.kind = "hello"
  /\ CallPair => call'.kind = "offer"
  /\ CallCode => call'.kind = "code"
  /\ CallTitle => call'.kind = "title"
  /\ CallPlan => call'.kind = "plan"
  /\ CallHooks => call'.kind = "hooks"
  /\ CallLink => call'.kind = "link"
<1>1. CallUsage => call'.kind = "usage"
  BY DEF CallUsage
<1>2. CallCards => call'.kind = "cards"
  BY DEF CallCards
<1>3. CallCollect => call'.kind = "collect"
  BY DEF CallCollect
<1>4. CallSessions => call'.kind = "sessions"
  BY DEF CallSessions
<1>5. CallAnswers => call'.kind = "answers"
  BY DEF CallAnswers
<1>6. CallEntries => call'.kind = "entries"
  BY DEF CallEntries
<1>7. CallAddress => call'.kind = "address"
  BY DEF CallAddress
<1>8. CallHello => call'.kind = "hello"
  BY DEF CallHello
<1>9. CallPair => call'.kind = "offer"
  BY DEF CallPair
<1>10. CallCode => call'.kind = "code"
  BY DEF CallCode
<1>11. CallTitle => call'.kind = "title"
  BY DEF CallTitle
<1>12. CallPlan => call'.kind = "plan"
  BY DEF CallPlan
<1>13. CallHooks => call'.kind = "hooks"
  BY DEF CallHooks
<1>14. CallLink => call'.kind = "link"
  BY DEF CallLink
<1> QED
  BY <1>1, <1>2, <1>3, <1>4, <1>5, <1>6, <1>7, <1>8, <1>9, <1>10, <1>11, <1>12, <1>13, <1>14

(* A step makes one call or returns.                                       *)
LEMMA StepsAreCalls ==
  ASSUME DataNext
  PROVE  call'.kind = "idle" \/ Call
<1>1. CASE Return
  <2>1. call'.kind = "idle"
    BY <1>1 DEF Return, Idle
  <2> QED
    BY <2>1
<1> QED
  BY <1>1 DEF DataNext

(* Whatever hooks.json holds, installing and removing the host's handlers  *)
(* keeps everybody else's in their groups and order, installing again      *)
(* changes nothing, and each task event runs the host's handler exactly    *)
(* once (merge_hook_config, remove_hook_config).                           *)
THEOREM OthersHooksSurviveHolds == DataSpec => []OthersHooksSurvive
<1>1. DataInit => OthersHooksSurvive
  BY DEF DataInit, Idle, OthersHooksSurvive
<1>2. OthersHooksSurvive /\ [DataNext]_call => OthersHooksSurvive'
  <2> SUFFICES ASSUME OthersHooksSurvive, [DataNext]_call
               PROVE  OthersHooksSurvive'
    OBVIOUS
  <2>1. CASE call'.kind # "hooks"
    BY <2>1 DEF OthersHooksSurvive
  <2>2. CASE call' = call
    BY <2>2 DEF OthersHooksSurvive
  <2>3. CASE CallHooks
    <3>1. PICK hooks \in HookFiles :
            call' = [kind |-> "hooks", hooks |-> hooks,
                     merged |-> MergeHooks(hooks), removed |-> RemoveOwned(hooks)]
      BY <2>3 DEF CallHooks
    <3> QED
      BY <3>1, OthersHooksSurviveAfter
  <2> QED
    BY <2>1, <2>2, <2>3, StepsAreCalls, KindsOfCalls DEF Call
<1> QED
  BY <1>1, <1>2, PTL DEF DataSpec

(* Whatever addresses the computer has, whatever range codes are drawn     *)
(* from and whatever link is read: the phone scans every offer and is let  *)
(* in from the networks it names, every code is equally likely, and the    *)
(* plugin tries each endpoint once (begin_pairing, random_pairing_code,    *)
(* parse_deeplink_pairing_payload).                                        *)
THEOREM OffersCanBeUsedHolds == DataSpec => []OffersCanBeUsed
<1>1. DataInit => OffersCanBeUsed
  BY DEF DataInit, Idle, OffersCanBeUsed, OfferIsScannable, CodesAreEven,
         LinkNamesEachEndpointOnce
<1>2. OffersCanBeUsed /\ [DataNext]_call => OffersCanBeUsed'
  <2> SUFFICES ASSUME OffersCanBeUsed, [DataNext]_call
               PROVE  OffersCanBeUsed'
    OBVIOUS
  <2>1. CASE call'.kind \notin {"offer", "code", "link"}
    BY <2>1 DEF OffersCanBeUsed, OfferIsScannable, CodesAreEven, LinkNamesEachEndpointOnce
  <2>2. CASE call' = call
    <3>1. OfferIsScannable'
      BY <2>2 DEF OffersCanBeUsed, OfferIsScannable
    <3>2. CodesAreEven'
      BY <2>2 DEF OffersCanBeUsed, CodesAreEven
    <3>3. LinkNamesEachEndpointOnce'
      BY <2>2 DEF OffersCanBeUsed, LinkNamesEachEndpointOnce
    <3> QED
      BY <3>1, <3>2, <3>3 DEF OffersCanBeUsed
  <2>3. CASE CallPair
    <3>1. PICK addresses \in Addresses, port \in {1, 47831, 65535} :
            call' = [kind |-> "offer", addresses |-> addresses, got |-> BeginPairing(addresses, port)]
      BY <2>3 DEF CallPair
    <3>2. IsPort(port)
      BY DEF IsPort
    <3>3. OfferIsScannable'
      BY <3>1, <3>2, OfferIsScannableAfter
    <3>4. call'.kind = "offer"
      BY <3>1
    <3> QED
      BY <3>3, <3>4 DEF OffersCanBeUsed, CodesAreEven, LinkNamesEachEndpointOnce
  <2>4. CASE CallCode
    <3>1. PICK draws \in Draws :
            call' = [kind |-> "code", draws |-> draws,
                     got |-> [code \in 0..(draws.range - 1) |->
                               Cardinality({draw \in 0..draws.most :
                                              CodeOf(draw, draws.range, draws.most) = code})]]
      BY <2>4 DEF CallCode
    <3>2. CodesAreEven'
      BY <3>1, CodesAreEvenAfter
    <3>3. call'.kind = "code"
      BY <2>4, KindsOfCalls
    <3> QED
      BY <3>2, <3>3 DEF OffersCanBeUsed, OfferIsScannable, LinkNamesEachEndpointOnce
  <2>5. CASE CallLink
    <3>1. PICK link \in Links :
            call' = [kind |-> "link", link |-> link, got |-> ParsePairingLink(link)]
      BY <2>5 DEF CallLink
    <3>2. LinkNamesEachEndpointOnce'
      BY <3>1, LinkNamesEachEndpointOnceAfter
    <3>3. call'.kind = "link"
      BY <2>5, KindsOfCalls
    <3> QED
      BY <3>2, <3>3 DEF OffersCanBeUsed, OfferIsScannable, CodesAreEven
  <2> QED
    BY <2>1, <2>2, <2>3, <2>4, <2>5, StepsAreCalls, KindsOfCalls DEF Call
<1> QED
  BY <1>1, <1>2, PTL DEF DataSpec

(* Whatever is collected, whatever greeting, title and policy there is,    *)
(* the phone's decoders take what the host sends, the host takes the       *)
(* answer, and both decide alike whom to alert (collect,                   *)
(* load_cached_snapshot, negotiate_quota_version, sanitize_title, plan and *)
(* their Kotlin counterparts).                                             *)
THEOREM PhoneAgreesWithHostHolds == DataSpec => []PhoneAgreesWithHost
<1>1. DataInit => PhoneAgreesWithHost
  BY DEF DataInit, Idle, PhoneAgreesWithHost, PhoneTakesEverySnapshot, GreetingsAgree,
         TitlesFitThePhone, PoliciesAgree
<1>2. PhoneAgreesWithHost /\ [DataNext]_call => PhoneAgreesWithHost'
  <2> SUFFICES ASSUME PhoneAgreesWithHost, [DataNext]_call
               PROVE  PhoneAgreesWithHost'
    OBVIOUS
  <2>1. CASE call'.kind \notin {"collect", "hello", "title", "plan"}
    BY <2>1 DEF PhoneAgreesWithHost, PhoneTakesEverySnapshot, GreetingsAgree,
                TitlesFitThePhone, PoliciesAgree
  <2>2. CASE call' = call
    <3>1. PhoneTakesEverySnapshot'
      BY <2>2 DEF PhoneAgreesWithHost, PhoneTakesEverySnapshot
    <3>2. GreetingsAgree'
      BY <2>2 DEF PhoneAgreesWithHost, GreetingsAgree
    <3>3. TitlesFitThePhone'
      BY <2>2 DEF PhoneAgreesWithHost, TitlesFitThePhone
    <3>4. PoliciesAgree'
      BY <2>2 DEF PhoneAgreesWithHost, PoliciesAgree
    <3> QED
      BY <3>1, <3>2, <3>3, <3>4 DEF PhoneAgreesWithHost
  <2>3. CASE CallCollect
    <3>1. PICK sources \in Sources, when \in Times, later \in Times :
            call' = [kind |-> "collect", sources |-> sources, now |-> when, later |-> later,
                     got |-> Collect(sources, when),
                     cached |-> LoadCachedSnapshot(Collect(sources, when), later)]
      BY <2>3 DEF CallCollect
    <3>2. PhoneTakesEverySnapshot'
      BY <3>1, PhoneTakesEverySnapshotAfter
    <3>3. call'.kind = "collect"
      BY <2>3, KindsOfCalls
    <3> QED
      BY <3>2, <3>3 DEF PhoneAgreesWithHost, GreetingsAgree, TitlesFitThePhone, PoliciesAgree
  <2>4. CASE CallHello
    <3>1. PICK hello \in Hellos :
            call' = [kind |-> "hello", hello |-> hello,
                     got |-> IF ValidHello(hello) THEN ServerHello(hello) ELSE None]
      BY <2>4 DEF CallHello
    <3>2. GreetingsAgree'
      BY <3>1, GreetingsAgreeAfter
    <3>3. call'.kind = "hello"
      BY <2>4, KindsOfCalls
    <3> QED
      BY <3>2, <3>3 DEF PhoneAgreesWithHost, PhoneTakesEverySnapshot, TitlesFitThePhone,
                        PoliciesAgree
  <2>5. CASE CallTitle
    <3>1. PICK words \in Titles :
            call' = [kind |-> "title", words |-> words, got |-> SanitizeTitle(words)]
      BY <2>5 DEF CallTitle
    <3>2. TitlesFitThePhone'
      BY <3>1, TitlesFitThePhoneAfter
    <3>3. call'.kind = "title"
      BY <2>5, KindsOfCalls
    <3> QED
      BY <3>2, <3>3 DEF PhoneAgreesWithHost, PhoneTakesEverySnapshot, GreetingsAgree,
                        PoliciesAgree
  <2>6. CASE CallPlan
    <3>1. PICK policy \in Policies, context \in Contexts,
               state \in {"Running", "NeedsAuthorization", "WaitingForReview"} :
            call' = [kind |-> "plan", host |-> HostPlan(policy, state, context),
                     phone |-> PhonePlan(policy, state, context)]
      BY <2>6 DEF CallPlan
    <3>2. PoliciesAgree'
      BY <3>1, PoliciesAgreeAfter
    <3>3. call'.kind = "plan"
      BY <2>6, KindsOfCalls
    <3> QED
      BY <3>2, <3>3 DEF PhoneAgreesWithHost, PhoneTakesEverySnapshot, GreetingsAgree,
                        TitlesFitThePhone
  <2> QED
    BY <2>1, <2>2, <2>3, <2>4, <2>5, <2>6, StepsAreCalls, KindsOfCalls DEF Call
<1> QED
  BY <1>1, <1>2, PTL DEF DataSpec

(* The parts that each kind of call is about: the others say nothing.      *)
LEMMA OtherCallsSayNothing ==
  /\ call'.kind \in {"idle", "hello", "offer", "code", "title", "plan", "hooks", "link"}
       => QuotaIsWhatSourcesSaid'
  /\ call'.kind \notin {"usage", "collect"} /\ call'.kind \in {"cards", "sessions", "answers",
                                                            "entries", "address"}
       => DataTypeOK'
  /\ call'.kind # "usage" => WindowsSayWhatUpstreamSaid'
  /\ call'.kind # "cards" => CardsAreTheAvailableOnes'
  /\ call'.kind # "collect" => NoSourcesMixed' /\ ReloadedLooksOld'
  /\ call'.kind \notin {"answers", "sessions"} => NewestWins'
  /\ call'.kind \notin {"entries", "address"} => CacheReadsStayInside'
<1>1. /\ call'.kind # "usage" => WindowsSayWhatUpstreamSaid'
      /\ call'.kind # "cards" => CardsAreTheAvailableOnes'
      /\ call'.kind # "collect" => NoSourcesMixed' /\ ReloadedLooksOld'
      /\ call'.kind \notin {"answers", "sessions"} => NewestWins'
      /\ call'.kind \notin {"entries", "address"} => CacheReadsStayInside'
  <2>1. call'.kind # "usage" => WindowsSayWhatUpstreamSaid'
    BY DEF WindowsSayWhatUpstreamSaid
  <2>2. call'.kind # "cards" => CardsAreTheAvailableOnes'
    BY DEF CardsAreTheAvailableOnes
  <2>3. call'.kind # "collect" => NoSourcesMixed'
    BY DEF NoSourcesMixed
  <2>4. call'.kind # "collect" => ReloadedLooksOld'
    BY DEF ReloadedLooksOld
  <2>5. call'.kind \notin {"answers", "sessions"} => NewestWins'
    <3>1. call'.kind \notin {"answers", "sessions"}
            => call'.kind # "answers" /\ call'.kind # "sessions"
      OBVIOUS
    <3> QED
      BY <3>1, Zenon DEF NewestWins
  <2>6. call'.kind \notin {"entries", "address"} => CacheReadsStayInside'
    BY DEF CacheReadsStayInside
  <2> QED
    BY <2>1, <2>2, <2>3, <2>4, <2>5, <2>6
<1>2. call'.kind \in {"idle", "cards", "sessions", "answers", "entries", "address",
                      "hello", "offer", "code", "title", "plan", "hooks", "link"} => DataTypeOK'
  BY DEF DataTypeOK
<1> QED
  BY <1>1, <1>2 DEF QuotaIsWhatSourcesSaid

(* NewestWins of a call.                                                   *)
NewestWinsIn(c) ==
  /\ (c.kind = "answers" /\ c.got # None) =>
       \A i \in DOMAIN c.answers :
         \/ c.answers[i] < c.got.at
         \/ c.answers[i] = c.got.at /\ i <= c.got.body
  /\ (c.kind = "sessions" /\ c.got # None) =>
    LET lines == UNION {{<<f, i>> : i \in DOMAIN c.files[f].lines} : f \in DOMAIN c.files}
        At(l) == IF c.files[l[1]].lines[l[2]].at = None THEN c.files[l[1]].modified
                 ELSE c.files[l[1]].lines[l[2]].at
        won   == c.got.limits
    IN \A l \in lines :
         \/ At(l) < At(won)
         \/ At(l) = At(won) /\ c.files[l[1]].modified <= c.files[won[1]].modified

(* What a refresh is answered.                                             *)
LEMMA QuotaAfterUsage ==
  ASSUME CallUsage
  PROVE  QuotaIsWhatSourcesSaid'
<1>1. PICK auth \in AuthFiles, status \in Statuses, body \in Limits \cup {None}, when \in Times :
        call' = [kind |-> "usage", body |-> body, now |-> when,
                 got |-> RefreshUsage(auth, status, body, when)]
  BY DEF CallUsage
<1>2. DataTypeOK'
  BY <1>1, UsageTyped
<1>3. WindowsSayWhatUpstreamSaid'
  BY <1>1, WindowsSayWhatUpstreamSaidAfter
<1>4. call'.kind = "usage"
  BY KindsOfCalls
<1> QED
  BY <1>2, <1>3, <1>4, OtherCallsSayNothing DEF QuotaIsWhatSourcesSaid

(* What becomes of the cards.                                              *)
LEMMA QuotaAfterCards ==
  ASSUME CallCards
  PROVE  QuotaIsWhatSourcesSaid'
<1>1. PICK body \in CardBodies, when \in Times, later \in Times :
        /\ when <= later
        /\ call' = [kind |-> "cards", body |-> body, now |-> when, later |-> later,
                    got |-> IF "error" \in DOMAIN FetchInventory(200, body, when) THEN None
                            ELSE StoredInventory(FetchInventory(200, body, when), later)]
  BY DEF CallCards
<1>2. CardsAreTheAvailableOnes'
  BY <1>1, CardsAreShown
<1>3. call'.kind = "cards"
  BY KindsOfCalls
<1> QED
  BY <1>2, <1>3, OtherCallsSayNothing DEF QuotaIsWhatSourcesSaid

(* What a collect shows, and a later run of it.                            *)
LEMMA QuotaAfterCollect ==
  ASSUME CallCollect
  PROVE  QuotaIsWhatSourcesSaid'
<1>1. PICK sources \in Sources, when \in Times, later \in Times :
        call' = [kind |-> "collect", sources |-> sources, now |-> when, later |-> later,
                 got |-> Collect(sources, when),
                 cached |-> LoadCachedSnapshot(Collect(sources, when), later)]
  BY DEF CallCollect
<1>2. DataTypeOK'
  BY <1>1, CollectTyped
<1>3. NoSourcesMixed'
  BY <1>1, NoSourcesMixedAfter
<1>4. ReloadedLooksOld'
  BY <1>1, ReloadedLooksOldAfter
<1>5. call'.kind = "collect"
  BY KindsOfCalls
<1> QED
  BY <1>2, <1>3, <1>4, <1>5, OtherCallsSayNothing DEF QuotaIsWhatSourcesSaid

(* Which line of the logs and which answer of the cache is taken.          *)
LEMMA QuotaAfterChoices ==
  ASSUME CallSessions \/ CallAnswers
  PROVE  QuotaIsWhatSourcesSaid'
<1>1. CASE CallSessions
  <2>1. PICK files \in Logs :
          call' = [kind |-> "sessions", files |-> files, got |-> LatestRateLimits(files)]
    BY <1>1 DEF CallSessions
  <2>2. NewestWins'
    BY <2>1, NewestLineWins
  <2>3. call'.kind = "sessions"
    BY <1>1, KindsOfCalls
  <2> QED
    BY <2>2, <2>3, OtherCallsSayNothing DEF QuotaIsWhatSourcesSaid
<1>2. CASE CallAnswers
  <2>1. PICK answers \in UNION {[1..n -> Times] : n \in 0..3} :
          call' = [kind |-> "answers", answers |-> answers,
                   got |-> NewestAnswer([i \in DOMAIN answers |-> [at |-> answers[i], body |-> i]])]
    BY <1>2 DEF CallAnswers
  <2>2. PICK n \in 0..3 : answers \in [1..n -> Times]
    OBVIOUS
  <2>3. NewestWins'
    BY <2>1, <2>2, NewestAnswerWins
  <2>4. call'.kind = "answers"
    BY <1>2, KindsOfCalls
  <2> QED
    BY <2>3, <2>4, OtherCallsSayNothing DEF QuotaIsWhatSourcesSaid
<1> QED
  BY <1>1, <1>2

(* What is read of the cache.                                              *)
LEMMA QuotaAfterReads ==
  ASSUME CallEntries \/ CallAddress
  PROVE  QuotaIsWhatSourcesSaid'
<1>1. CASE CallEntries
  <2>1. PICK length \in Lengths, key \in 0..(CAPACITY + 1) :
          call' = [kind |-> "entries", length |-> length, key |-> key,
                   got |-> Entries(length, [offset \in HEADER..(length - 1) |-> key])]
    BY <1>1 DEF CallEntries
  <2>2. CacheReadsStayInside'
    BY <2>1, EntriesStayInside
  <2>3. call'.kind = "entries"
    BY <1>1, KindsOfCalls
  <2> QED
    BY <2>2, <2>3, OtherCallsSayNothing DEF QuotaIsWhatSourcesSaid
<1>2. CASE CallAddress
  <2>1. PICK address \in [initialized : BOOLEAN, kind : 0..5, start : 0..2],
             size \in Lengths, length \in Lengths \cup {None} :
          call' = [kind |-> "address", length |-> length, size |-> size,
                   external |-> address.kind = 0, got |-> ReadCacheAddress(address, size, length)]
    BY <1>2 DEF CallAddress
  <2>2. CacheReadsStayInside'
    BY <2>1, AddressesStayInside
  <2>3. call'.kind = "address"
    BY <1>2, KindsOfCalls
  <2> QED
    BY <2>2, <2>3, OtherCallsSayNothing DEF QuotaIsWhatSourcesSaid
<1> QED
  BY <1>1, <1>2

(* Whatever upstream answers, whatever a collect finds and whatever the    *)
(* cache's files say: windows and cards are shown as their source gave     *)
(* them, under its time and status, none is lost and none is taken from    *)
(* two sources, an earlier run's never look fresh, the newest wins, and    *)
(* nothing is read outside a file (normalize_window_values, collect,       *)
(* parse_direct_reset_inventory, load_cached_snapshot,                     *)
(* read_latest_rate_limits, find_cached_json).                             *)
THEOREM QuotaIsWhatSourcesSaidHolds == DataSpec => []QuotaIsWhatSourcesSaid
<1>1. DataInit => QuotaIsWhatSourcesSaid
  <2> SUFFICES ASSUME DataInit
               PROVE  QuotaIsWhatSourcesSaid
    OBVIOUS
  <2>2. call.kind = "idle"
    BY DEF DataInit, Idle
  <2>3. DataTypeOK
    BY <2>2 DEF DataTypeOK
  <2>4. WindowsSayWhatUpstreamSaid /\ CardsAreTheAvailableOnes
    BY <2>2 DEF WindowsSayWhatUpstreamSaid, CardsAreTheAvailableOnes
  <2>5. NoSourcesMixed /\ ReloadedLooksOld
    BY <2>2 DEF NoSourcesMixed, ReloadedLooksOld
  <2>6. NewestWins /\ CacheReadsStayInside
    BY <2>2 DEF NewestWins, CacheReadsStayInside
  <2> QED
    BY <2>3, <2>4, <2>5, <2>6 DEF QuotaIsWhatSourcesSaid
<1>2. QuotaIsWhatSourcesSaid /\ [DataNext]_call => QuotaIsWhatSourcesSaid'
  <2> SUFFICES ASSUME QuotaIsWhatSourcesSaid, [DataNext]_call
               PROVE  QuotaIsWhatSourcesSaid'
    OBVIOUS
  <2>1. CASE call'.kind \in {"idle", "hello", "offer", "code", "title", "plan", "hooks", "link"}
    BY <2>1, OtherCallsSayNothing
  <2>2. CASE call' = call
    <3>1. DataTypeOK'
      BY <2>2 DEF QuotaIsWhatSourcesSaid, DataTypeOK
    <3>2. WindowsSayWhatUpstreamSaid'
      BY <2>2 DEF QuotaIsWhatSourcesSaid, WindowsSayWhatUpstreamSaid
    <3>3. CardsAreTheAvailableOnes'
      BY <2>2 DEF QuotaIsWhatSourcesSaid, CardsAreTheAvailableOnes
    <3>4. NoSourcesMixed'
      BY <2>2 DEF QuotaIsWhatSourcesSaid, NoSourcesMixed
    <3>5. ReloadedLooksOld'
      BY <2>2 DEF QuotaIsWhatSourcesSaid, ReloadedLooksOld
    <3>6. NewestWins'
      <4>1. NewestWinsIn(call)
        BY Zenon DEF QuotaIsWhatSourcesSaid, NewestWins, NewestWinsIn
      <4>2. NewestWinsIn(call')
        BY <2>2, <4>1
      <4> QED
        BY <4>2, Zenon DEF NewestWins, NewestWinsIn
    <3>7. CacheReadsStayInside'
      BY <2>2 DEF QuotaIsWhatSourcesSaid, CacheReadsStayInside
    <3> QED
      BY <3>1, <3>2, <3>3, <3>4, <3>5, <3>6, <3>7 DEF QuotaIsWhatSourcesSaid
  <2>3. CASE \/ CallUsage \/ CallCards \/ CallCollect \/ CallSessions \/ CallAnswers
             \/ CallEntries \/ CallAddress
    BY <2>3, QuotaAfterUsage, QuotaAfterCards, QuotaAfterCollect, QuotaAfterChoices,
       QuotaAfterReads
  <2> QED
    BY <2>1, <2>2, <2>3, StepsAreCalls, KindsOfCalls DEF Call
<1> QED
  BY <1>1, <1>2, PTL DEF DataSpec

-----------------------------------------------------------------------------
(* The credential and the service.                                         *)

USE PairingAssumption, ServerAssumption DEF PairingAssumption, ServerAssumption

(* The state of Pairing has its declared type in every behaviour: in       *)
(* particular an active offer always has at least one attempt left, so     *)
(* the subtraction in `complete` never reaches a live offer with none.     *)
THEOREM PairingTypeCorrect == Spec => []TypeOK
<1> USE DEF NoToken, Tokens
<1>1. Init => TypeOK
  <2> SUFFICES ASSUME Init PROVE TypeOK
    OBVIOUS
  <2>1. ProcessTypeOK
    <3>1. revoking \in BOOLEAN
      BY DEF Init
    <3>2. QED
      BY <3>1 DEF Init, ProcessTypeOK
  <2>2. MemoryTypeOK
    BY DEF Init, MemoryTypeOK
  <2>3. SaverTypeOK
    BY DEF Init, SaverTypeOK
  <2>4. HistoryTypeOK
    BY DEF Init, HistoryTypeOK
  <2> QED
    BY <2>1, <2>2, <2>3, <2>4 DEF TypeOK
<1>2. TypeOK /\ [Next]_vars => TypeOK'
  <2> SUFFICES ASSUME TypeOK, [Next]_vars
               PROVE  TypeOK'
    OBVIOUS
  <2> USE DEF TypeOK, ProcessTypeOK, MemoryTypeOK, SaverTypeOK, HistoryTypeOK,
              memory, saver, history
  <2>1. CASE Tick
    <3>1. ProcessTypeOK'
      BY <2>1 DEF Tick
    <3>2. MemoryTypeOK'
      BY <2>1 DEF Tick
    <3>3. SaverTypeOK'
      BY <2>1 DEF Tick
    <3>4. HistoryTypeOK'
      BY <2>1 DEF Tick
    <3> QED
      BY <3>1, <3>2, <3>3, <3>4
  <2>2. ASSUME NEW c \in Codes, Begin(c)
        PROVE  TypeOK'
    <3>1. ProcessTypeOK'
      BY <2>2 DEF Begin
    <3>2. MemoryTypeOK'
      BY <2>2 DEF Begin, Offers
    <3>3. SaverTypeOK'
      BY <2>2 DEF Begin
    <3>4. HistoryTypeOK'
      BY <2>2 DEF Begin
    <3> QED
      BY <3>1, <3>2, <3>3, <3>4
  <2>3. CASE RevokeMemory
    <3>1. ProcessTypeOK'
      BY <2>3 DEF RevokeMemory
    <3>2. MemoryTypeOK'
      BY <2>3 DEF RevokeMemory
    <3>3. SaverTypeOK'
      BY <2>3 DEF RevokeMemory
    <3>4. HistoryTypeOK'
      BY <2>3 DEF RevokeMemory
    <3> QED
      BY <3>1, <3>2, <3>3, <3>4
  <2>4. CASE RevokeDisk
    <3>1. ProcessTypeOK'
      BY <2>4 DEF RevokeDisk
    <3>2. MemoryTypeOK'
      BY <2>4 DEF RevokeDisk
    <3>3. SaverTypeOK'
      BY <2>4 DEF RevokeDisk
    <3>4. HistoryTypeOK'
      BY <2>4 DEF RevokeDisk
    <3> QED
      BY <3>1, <3>2, <3>3, <3>4
  <2>5. CASE RevokeDiskFails
    <3>1. ProcessTypeOK'
      BY <2>5 DEF RevokeDiskFails
    <3>2. MemoryTypeOK'
      BY <2>5 DEF RevokeDiskFails
    <3>3. SaverTypeOK'
      BY <2>5 DEF RevokeDiskFails
    <3>4. HistoryTypeOK'
      BY <2>5 DEF RevokeDiskFails
    <3> QED
      BY <3>1, <3>2, <3>3, <3>4
  <2>6. CASE RequestShutdown
    <3>1. ProcessTypeOK'
      BY <2>6 DEF RequestShutdown
    <3>2. MemoryTypeOK'
      BY <2>6 DEF RequestShutdown
    <3>3. SaverTypeOK'
      BY <2>6 DEF RequestShutdown
    <3>4. HistoryTypeOK'
      BY <2>6 DEF RequestShutdown
    <3> QED
      BY <3>1, <3>2, <3>3, <3>4
  <2>7. CASE SubmitExpired
    <3>1. ProcessTypeOK'
      BY <2>7 DEF SubmitExpired
    <3>2. MemoryTypeOK'
      BY <2>7 DEF SubmitExpired
    <3>3. SaverTypeOK'
      BY <2>7 DEF SubmitExpired
    <3>4. HistoryTypeOK'
      BY <2>7 DEF SubmitExpired
    <3> QED
      BY <3>1, <3>2, <3>3, <3>4
  <2>8. ASSUME NEW c \in Codes, SubmitWrong(c)
        PROVE  TypeOK'
    <3>1. ProcessTypeOK'
      BY <2>8 DEF SubmitWrong
    <3>2. MemoryTypeOK'
      BY <2>8 DEF SubmitWrong, Offers
    <3>3. SaverTypeOK'
      BY <2>8 DEF SubmitWrong
    <3>4. HistoryTypeOK'
      BY <2>8 DEF SubmitWrong
    <3> QED
      BY <3>1, <3>2, <3>3, <3>4
  <2>9. CASE SubmitRight
    <3>1. ProcessTypeOK'
      BY <2>9 DEF SubmitRight
    <3>2. MemoryTypeOK'
      BY <2>9 DEF SubmitRight
    <3>3. SaverTypeOK'
      BY <2>9 DEF SubmitRight
    <3>4. HistoryTypeOK'
      BY <2>9 DEF SubmitRight
    <3> QED
      BY <3>1, <3>2, <3>3, <3>4
  <2>10. CASE MonitorRead
    <3>1. ProcessTypeOK'
      BY <2>10 DEF MonitorRead
    <3>2. MemoryTypeOK'
      BY <2>10 DEF MonitorRead
    <3>3. SaverTypeOK'
      BY <2>10 DEF MonitorRead
    <3>4. HistoryTypeOK'
      BY <2>10 DEF MonitorRead
    <3> QED
      BY <3>1, <3>2, <3>3, <3>4
  <2>11. CASE MonitorFinalRead
    <3>1. ProcessTypeOK'
      BY <2>11 DEF MonitorFinalRead
    <3>2. MemoryTypeOK'
      BY <2>11 DEF MonitorFinalRead
    <3>3. SaverTypeOK'
      BY <2>11 DEF MonitorFinalRead
    <3>4. HistoryTypeOK'
      BY <2>11 DEF MonitorFinalRead
    <3> QED
      BY <3>1, <3>2, <3>3, <3>4
  <2>12. CASE MonitorSave
    <3>1. ProcessTypeOK'
      BY <2>12 DEF MonitorSave
    <3>2. MemoryTypeOK'
      BY <2>12 DEF MonitorSave
    <3>3. SaverTypeOK'
      BY <2>12 DEF MonitorSave
    <3>4. HistoryTypeOK'
      BY <2>12 DEF MonitorSave
    <3> QED
      BY <3>1, <3>2, <3>3, <3>4
  <2>13. CASE MonitorSaveFails
    <3>1. ProcessTypeOK'
      BY <2>13 DEF MonitorSaveFails
    <3>2. MemoryTypeOK'
      BY <2>13 DEF MonitorSaveFails
    <3>3. SaverTypeOK'
      BY <2>13 DEF MonitorSaveFails
    <3>4. HistoryTypeOK'
      BY <2>13 DEF MonitorSaveFails
    <3> QED
      BY <3>1, <3>2, <3>3, <3>4
  <2>14. CASE Exit \/ Crash
    <3>1. ProcessTypeOK'
      BY <2>14 DEF Exit, Crash, Gone
    <3>2. MemoryTypeOK'
      BY <2>14 DEF Exit, Crash, Gone
    <3>3. SaverTypeOK'
      BY <2>14 DEF Exit, Crash, Gone
    <3>4. HistoryTypeOK'
      BY <2>14 DEF Exit, Crash, Gone
    <3> QED
      BY <3>1, <3>2, <3>3, <3>4
  <2>15. CASE Restart
    <3>1. ProcessTypeOK'
      BY <2>15 DEF Restart
    <3>2. MemoryTypeOK'
      BY <2>15 DEF Restart
    <3>3. SaverTypeOK'
      BY <2>15 DEF Restart
    <3>4. HistoryTypeOK'
      BY <2>15 DEF Restart
    <3> QED
      BY <3>1, <3>2, <3>3, <3>4
  <2>16. CASE UNCHANGED vars
    <3>1. ProcessTypeOK'
      BY <2>16 DEF vars
    <3>2. MemoryTypeOK'
      BY <2>16 DEF vars
    <3>3. SaverTypeOK'
      BY <2>16 DEF vars
    <3>4. HistoryTypeOK'
      BY <2>16 DEF vars
    <3> QED
      BY <3>1, <3>2, <3>3, <3>4
  <2> QED
    BY <2>1, <2>2, <2>3, <2>4, <2>5, <2>6, <2>7, <2>8, <2>9, <2>10, <2>11, <2>12, <2>13, <2>14, <2>15, <2>16
       DEF Next, Tray, Pair, Monitor, Save, Process
<1> QED
  BY <1>1, <1>2, PTL DEF Spec

-----------------------------------------------------------------------------
(* What the offer on screen says about the pairings that led to it.        *)
OfferInv ==
  /\ minted <= offers
  /\ offer # NoOffer =>
       /\ minted < offers
       /\ failures + offer.left = MaxAttempts
       /\ offer.expires = shownAt + Lifetime

LEMMA OfferInvInductive ==
  ASSUME TypeOK, OfferInv, [Next]_vars
  PROVE  OfferInv'
<1> USE DEF TypeOK, ProcessTypeOK, MemoryTypeOK, HistoryTypeOK, Tokens, OfferInv
<1>1. ASSUME NEW c \in Codes, Begin(c)
      PROVE  OfferInv'
  BY <1>1 DEF Begin
<1>2. ASSUME NEW c \in Codes, SubmitWrong(c)
      PROVE  OfferInv'
  <2>1. offer \in Offers
    BY <1>2 DEF SubmitWrong
  <2>2. CASE offer.left = 1
    BY <1>2, <2>2 DEF SubmitWrong
  <2>3. CASE offer.left # 1
    <3>1. /\ offer'.left = offer.left - 1
          /\ offer'.expires = offer.expires
      BY <1>2, <2>1, <2>3 DEF SubmitWrong, Offers
    <3>2. QED
      BY <1>2, <2>1, <2>3, <3>1 DEF SubmitWrong, Offers
  <2> QED
    BY <2>2, <2>3
<1>3. CASE SubmitRight
  BY <1>3 DEF SubmitRight
<1>4. CASE RevokeMemory \/ SubmitExpired
  BY <1>4 DEF RevokeMemory, SubmitExpired, history, saver
<1>5. CASE Exit \/ Crash
  BY <1>5 DEF Exit, Crash, Gone, history
<1>6. CASE UNCHANGED <<offer, minted, offers, failures, shownAt>>
  BY <1>6
<1> QED
  BY <1>1, <1>2, <1>3, <1>4, <1>5, <1>6
     DEF Next, Tray, Pair, Monitor, Save, Process, Tick, RevokeDisk,
         RevokeDiskFails, RequestShutdown, MonitorRead, MonitorFinalRead,
         MonitorSave, MonitorSaveFails, Restart, memory, history, vars

LEMMA OfferInvHolds == Spec => []OfferInv
<1>1. Init => OfferInv
  BY DEF Init, OfferInv
<1>2. QED
  BY <1>1, PairingTypeCorrect, OfferInvInductive, PTL DEF Spec

(* One offer admits one phone: every token was minted from an offer of its *)
(* own, so no code works twice (PairingManager.complete clears `active`).  *)
THEOREM OneTokenPerOffer == Spec => []OfferSingleUse
<1>1. OfferInv => OfferSingleUse
  BY DEF OfferInv, OfferSingleUse
<1>2. QED
  BY <1>1, OfferInvHolds, PTL

(* No schedule of guesses, ticks and restarts lets a pairing succeed after *)
(* MaxAttempts wrong codes or after Lifetime.                              *)
THEOREM PairingWithinBudget == Spec => GuessBudget
<1>1. TypeOK /\ OfferInv /\ [Next]_vars =>
        [minted' # minted => failures < MaxAttempts /\ now <= shownAt + Lifetime]_vars
  <2> SUFFICES ASSUME TypeOK, OfferInv, [Next]_vars, minted' # minted
               PROVE  failures < MaxAttempts /\ now <= shownAt + Lifetime
    OBVIOUS
  <2>1. SubmitRight
    BY DEF Next, Tray, Pair, Monitor, Save, Process, Tick, Begin, RevokeMemory,
           RevokeDisk, RevokeDiskFails, RequestShutdown, SubmitExpired, SubmitWrong,
           MonitorRead, MonitorFinalRead, MonitorSave, MonitorSaveFails,
           Exit, Crash, Gone, Restart, memory, vars
  <2>2. offer \in Offers
    BY <2>1 DEF SubmitRight, TypeOK, MemoryTypeOK
  <2>3. QED
    BY <2>1, <2>2 DEF SubmitRight, OfferInv, Offers, TypeOK, HistoryTypeOK
<1>2. QED
  BY <1>1, PairingTypeCorrect, OfferInvHolds, PTL DEF Spec, GuessBudget

-----------------------------------------------------------------------------
(* The monitor's belief about the file. It may hold less than the monitor  *)
(* saved, since the tray removes it, but then memory has moved on, because *)
(* nothing can be paired between the two halves of a revocation.           *)
BeliefInv ==
  /\ Running =>
       /\ disk \in {persisted, NoToken}
       /\ persisted # NoToken /\ disk = NoToken => phoneToken # persisted
  /\ revoking => Running /\ offer = NoOffer /\ phoneToken = NoToken

LEMMA BeliefInvInductive ==
  ASSUME TypeOK, BeliefInv, [Next]_vars
  PROVE  BeliefInv'
<1> USE DEF TypeOK, MemoryTypeOK, SaverTypeOK, Tokens, BeliefInv, Running, NoToken
<1>1. ASSUME NEW c \in Codes, Begin(c)
      PROVE  BeliefInv'
  BY <1>1 DEF Begin, TrayFree, saver
<1>2. CASE RevokeMemory
  <2>1. phase' = phase /\ phase = "up" /\ offer' = NoOffer /\ phoneToken' = NoToken
    BY <1>2 DEF RevokeMemory, TrayFree
  <2>2. disk' = disk /\ persisted' = persisted
    BY <1>2 DEF RevokeMemory, saver
  <2>3. QED
    BY <2>1, <2>2
<1>3. CASE RevokeDisk
  BY <1>3 DEF RevokeDisk, memory
<1>4. CASE SubmitExpired \/ (\E c \in Codes : SubmitWrong(c))
  BY <1>4 DEF SubmitExpired, SubmitWrong, saver
<1>5. CASE SubmitRight
  BY <1>5 DEF SubmitRight, saver
<1>6. CASE MonitorSave
  BY <1>6 DEF MonitorSave, memory
<1>7. CASE MonitorRead \/ MonitorFinalRead \/ MonitorSaveFails
  BY <1>7 DEF MonitorRead, MonitorFinalRead, MonitorSaveFails, memory
<1>8. CASE RevokeDiskFails \/ RequestShutdown
  BY <1>8 DEF RevokeDiskFails, RequestShutdown, TrayFree, memory, saver
<1>9. CASE Exit \/ Crash
  BY <1>9 DEF Exit, Crash, Gone
<1>10. CASE Restart
  BY <1>10 DEF Restart
<1>11. CASE Tick \/ UNCHANGED vars
  BY <1>11 DEF Tick, vars, memory, saver
<1> QED
  BY <1>1, <1>2, <1>3, <1>4, <1>5, <1>6, <1>7, <1>8, <1>9, <1>10, <1>11
     DEF Next, Tray, Pair, Monitor, Save, Process

(* When the monitor compares memory with what it last saved and finds them *)
(* equal, the file on disk agrees with memory: skipping the save never     *)
(* leaves a stale or a missing token file behind.                          *)
THEOREM MonitorNeverMisses == Spec => []MonitorBeliefSound
<1>1. Init => BeliefInv
  BY DEF Init, BeliefInv, Running
<1>2. TypeOK /\ BeliefInv => MonitorBeliefSound
  BY DEF BeliefInv, MonitorBeliefSound, TypeOK, MemoryTypeOK, Running
<1>3. QED
  BY <1>1, <1>2, PairingTypeCorrect, BeliefInvInductive, PTL DEF Spec

-----------------------------------------------------------------------------
(* The last save of an orderly shutdown. Once the monitor has read memory  *)
(* for the last time the tray cannot revoke any more: memory without a     *)
(* token had none when it was read.                                        *)
LastSaveInv ==
  /\ monitor \in {"finalSaving", "done"} => phase = "stopping"
  /\ monitor = "finalSaving" /\ phoneToken = NoToken => reading = NoToken
  /\ monitor = "done" /\ phoneToken = NoToken => disk = NoToken

LEMMA LastSaveInductive ==
  ASSUME TypeOK, BeliefInv, LastSaveInv, [Next]_vars
  PROVE  LastSaveInv'
<1> USE DEF TypeOK, MemoryTypeOK, SaverTypeOK, LastSaveInv, NoToken
<1>1. ASSUME NEW c \in Codes, Begin(c)
      PROVE  LastSaveInv'
  BY <1>1 DEF Begin, TrayFree, saver
<1>2. CASE RevokeMemory \/ RevokeDisk \/ RevokeDiskFails \/ RequestShutdown
  BY <1>2 DEF RevokeMemory, RevokeDisk, RevokeDiskFails, RequestShutdown, TrayFree,
              memory, saver
<1>3. CASE SubmitExpired \/ \E c \in Codes : SubmitWrong(c)
  BY <1>3 DEF SubmitExpired, SubmitWrong, saver
<1>4. CASE SubmitRight
  <2>1. phoneToken' # NoToken
    BY <1>4, PairingAssumption DEF SubmitRight, Tokens
  <2> QED
    BY <1>4, <2>1 DEF SubmitRight, saver
<1>5. CASE MonitorFinalRead
  BY <1>5 DEF MonitorFinalRead, BeliefInv, Running, memory
<1>6. CASE MonitorRead \/ MonitorSave \/ MonitorSaveFails
  BY <1>6 DEF MonitorRead, MonitorSave, MonitorSaveFails, memory
<1>7. CASE Exit \/ Crash
  BY <1>7 DEF Exit, Crash, Gone
<1>8. CASE Restart
  <2>1. monitor \notin {"finalSaving", "done"}
    BY <1>8 DEF Restart
  <2> QED
    BY <1>8, <2>1 DEF Restart
<1>9. CASE Tick \/ UNCHANGED vars
  BY <1>9 DEF Tick, vars, memory, saver
<1> QED
  BY <1>1, <1>2, <1>3, <1>4, <1>5, <1>6, <1>7, <1>8, <1>9
     DEF Next, Tray, Pair, Monitor, Save, Process

(* An orderly shutdown forgets a revoked phone: once the monitor's last    *)
(* save has succeeded, a host without a paired phone has no token file.    *)
THEOREM CleanExitForgets == Spec => []CleanExitForgetsRevoked
<1>1. Init => BeliefInv /\ LastSaveInv
  BY DEF Init, BeliefInv, LastSaveInv, Running
<1>2. LastSaveInv => CleanExitForgetsRevoked
  BY DEF LastSaveInv, CleanExitForgetsRevoked
<1>3. QED
  BY <1>1, <1>2, PairingTypeCorrect, BeliefInvInductive, LastSaveInductive, PTL DEF Spec

-----------------------------------------------------------------------------
(* SyncServer.                                                             *)

(* What every step of a connection's task leaves alone.                    *)
LEMMA HostUntouched ==
  ASSUME NEW c \in Conns, Connection(c)
  PROVE  UNCHANGED <<pairedToken, bumpsDue, latest, publisher>>
BY DEF Connection, Advance, Accept, SubscribeAuthorization, Authenticate, Reject,
       ClientHello, HelloFails, ReadFirst, SendFirst, SubscribeSnapshots, ReadLatest,
       SendNext, Send, AuthorizationArm, SnapshotArm, RefreshRequest, Disconnect,
       Leave, host, feed

(* What the credential and publishing steps leave alone.                   *)
LEMMA CredentialUntouched ==
  ASSUME Credential
  PROVE  UNCHANGED <<latest, publisher, refreshDirty, cooling,
                     pc, token, snapDirty, holding, sent, resent>>
BY DEF Credential, PairPhone, RevokePhone, BumpAuthorization, feed, task

LEMMA PublisherUntouched ==
  ASSUME Publisher
  PROVE  UNCHANGED <<pairedToken, bumpsDue, cooling,
                     pc, token, authDirty, holding, sent, resent>>
BY DEF Publisher, HookArm, QuotaArm, DirectResetArm, RefreshArm, BumpSnapshots, host, task

-----------------------------------------------------------------------------
(* Type correctness.                                                       *)

LEMMA InitTypes == SyncInit => SyncTypeOK
<1> SUFFICES ASSUME SyncInit PROVE SyncTypeOK
  OBVIOUS
<1>1. HostTypeOK BY DEF SyncInit, HostTypeOK
<1>2. FeedTypeOK
  <2>1. latest \in Payloads /\ publisher \in {"idle", "written"} BY DEF SyncInit, Payloads
  <2>2. refreshDirty \in BOOLEAN /\ cooling \in BOOLEAN BY DEF SyncInit
  <2> QED BY <2>1, <2>2 DEF FeedTypeOK
<1>3. pc \in [Conns -> PC] /\ token \in [Conns -> PhoneTokens \cup {NoPhone}]
  BY DEF SyncInit, PC
<1>4. authDirty \in [Conns -> BOOLEAN] /\ snapDirty \in [Conns -> BOOLEAN]
  BY DEF SyncInit
<1>5. holding \in [Conns -> Payloads] /\ sent \in [Conns -> Payloads]
  BY DEF SyncInit, Payloads
<1>6. resent \in [Conns -> BOOLEAN] BY DEF SyncInit
<1> QED BY <1>1, <1>2, <1>3, <1>4, <1>5, <1>6 DEF SyncTypeOK, TaskTypeOK

LEMMA CredentialTypes ==
  ASSUME SyncTypeOK, Credential
  PROVE  SyncTypeOK'
<1>1. HostTypeOK' /\ authDirty' \in [Conns -> BOOLEAN]
  <2>1. CASE \E t \in PhoneTokens : PairPhone(t)
    BY <2>1 DEF PairPhone, SyncTypeOK, HostTypeOK, TaskTypeOK, task
  <2>2. CASE RevokePhone
    BY <2>2 DEF RevokePhone, SyncTypeOK, HostTypeOK, TaskTypeOK, task
  <2>3. CASE BumpAuthorization
    BY <2>3 DEF BumpAuthorization, SyncTypeOK, HostTypeOK
  <2> QED BY <2>1, <2>2, <2>3 DEF Credential
<1> QED BY <1>1, CredentialUntouched DEF SyncTypeOK, FeedTypeOK, TaskTypeOK

LEMMA PublisherTypes ==
  ASSUME SyncTypeOK, Publisher
  PROVE  SyncTypeOK'
<1>1. /\ latest' \in Payloads /\ publisher' \in {"idle", "written"}
      /\ refreshDirty' \in BOOLEAN /\ snapDirty' \in [Conns -> BOOLEAN]
  <2>1. CASE HookArm
    BY <2>1 DEF HookArm, WriteLatest, Payload, Payloads, SyncTypeOK, FeedTypeOK, TaskTypeOK, task
  <2>2. ASSUME NEW changed \in BOOLEAN, QuotaArm(changed)
        PROVE  <1>1
    BY <2>2 DEF QuotaArm, WriteLatest, Payload, Payloads, SyncTypeOK, FeedTypeOK, TaskTypeOK, task
  <2>5. ASSUME NEW changed \in BOOLEAN, DirectResetArm(changed)
        PROVE  <1>1
    BY <2>5 DEF DirectResetArm, WriteLatest, Payload, Payloads, SyncTypeOK, FeedTypeOK,
                TaskTypeOK, task
  <2>3. ASSUME NEW changed \in BOOLEAN, RefreshArm(changed)
        PROVE  <1>1
    <3>1. latest' \in Payloads /\ publisher' \in {"idle", "written"}
      BY <2>3 DEF RefreshArm, WriteLatest, Payload, Payloads, SyncTypeOK, FeedTypeOK, feed
    <3>2. refreshDirty' \in BOOLEAN
      BY <2>3 DEF RefreshArm
    <3>3. snapDirty' \in [Conns -> BOOLEAN]
      BY <2>3 DEF RefreshArm, SyncTypeOK, TaskTypeOK, task
    <3> QED BY <3>1, <3>2, <3>3
  <2>4. CASE BumpSnapshots
    BY <2>4 DEF BumpSnapshots, MarkSnapshots, SyncTypeOK, FeedTypeOK
  <2> QED BY <2>1, <2>2, <2>3, <2>4, <2>5 DEF Publisher
<1> QED BY <1>1, PublisherUntouched DEF SyncTypeOK, HostTypeOK, FeedTypeOK, TaskTypeOK

LEMMA LeaveTypes ==
  ASSUME SyncTypeOK, NEW c \in Conns, Leave(c)
  PROVE  SyncTypeOK'
BY DEF Leave, SyncTypeOK, HostTypeOK, FeedTypeOK, TaskTypeOK, PC, Payloads, host, feed

LEMMA ConnectionTypes ==
  ASSUME SyncTypeOK, NEW c \in Conns, Connection(c)
  PROVE  SyncTypeOK'
<1> USE DEF SyncTypeOK, HostTypeOK, FeedTypeOK, TaskTypeOK, Goto, PC, Unchecked, Admitted,
            host, feed
<1>1. ASSUME NEW t \in PhoneTokens, Accept(c, t) PROVE SyncTypeOK'
  BY <1>1 DEF Accept
<1>2. CASE SubscribeAuthorization(c) \/ Authenticate(c) \/ ClientHello(c)
           \/ SubscribeSnapshots(c)
  BY <1>2 DEF SubscribeAuthorization, Authenticate, ClientHello, SubscribeSnapshots
<1>3. CASE Reject(c) \/ HelloFails(c) \/ AuthorizationArm(c) \/ Disconnect(c)
  BY <1>3, LeaveTypes DEF Reject, HelloFails, AuthorizationArm, Disconnect
<1>4. CASE ReadFirst(c) \/ ReadLatest(c)
  BY <1>4 DEF ReadFirst, ReadLatest
<1>5. CASE SendFirst(c)
  BY <1>5 DEF SendFirst, Send
<1>6. CASE SendNext(c)
  BY <1>6 DEF SendNext, Send
<1>7. CASE SnapshotArm(c)
  BY <1>7 DEF SnapshotArm
<1>8. CASE RefreshRequest(c)
  <2>1. /\ snapDirty' \in [Conns -> BOOLEAN]
        /\ refreshDirty' \in BOOLEAN /\ cooling' \in BOOLEAN
    <3>1. CASE cooling
      <4>1. MarkSnapshots /\ refreshDirty' = refreshDirty /\ cooling' = cooling
        BY <1>8, <3>1 DEF RefreshRequest
      <4>2. snapDirty' \in [Conns -> BOOLEAN]
        BY <4>1 DEF MarkSnapshots
      <4> QED BY <4>1, <4>2
    <3>2. CASE ~cooling
      <4>1. refreshDirty' \in BOOLEAN /\ cooling' \in BOOLEAN
        BY <1>8, <3>2 DEF RefreshRequest
      <4>2. snapDirty' = snapDirty
        BY <1>8, <3>2 DEF RefreshRequest
      <4> QED BY <4>1, <4>2
    <3> QED BY <3>1, <3>2
  <2> QED BY <1>8, <2>1 DEF RefreshRequest
<1> QED BY <1>1, <1>2, <1>3, <1>4, <1>5, <1>6, <1>7, <1>8 DEF Connection, Advance

(* Every reachable state is well typed: no number of pairings, bumps and   *)
(* publications leaves its range.                                          *)
THEOREM SyncTypeCorrect == SyncSpec => []SyncTypeOK
<1>1. ASSUME SyncTypeOK, [SyncNext]_syncVars
      PROVE  SyncTypeOK'
  <2>1. CASE Credential BY <1>1, <2>1, CredentialTypes
  <2>2. CASE Publisher BY <1>1, <2>2, PublisherTypes
  <2>3. CASE CooldownEnds
    BY <1>1, <2>3 DEF CooldownEnds, SyncTypeOK, HostTypeOK, FeedTypeOK, TaskTypeOK, host, feed, task
  <2>4. ASSUME NEW c \in Conns, Connection(c) PROVE SyncTypeOK'
    BY <1>1, <2>4, ConnectionTypes
  <2>5. CASE UNCHANGED syncVars
    BY <1>1, <2>5 DEF syncVars, SyncTypeOK, HostTypeOK, FeedTypeOK, TaskTypeOK, host, feed, task
  <2> QED BY <1>1, <2>1, <2>2, <2>3, <2>4, <2>5 DEF SyncNext
<1> QED BY InitTypes, <1>1, PTL DEF SyncSpec

-----------------------------------------------------------------------------
(* No schedule slips between the check of a token and the notice of its    *)
(* change. The property is inductive on well-typed states.                 *)

LEMMA CredentialNotices ==
  ASSUME SyncTypeOK, NoUnnoticedRevocation, Credential
  PROVE  NoUnnoticedRevocation'
<1>1. CASE \E t \in PhoneTokens : PairPhone(t)
  <2>1. bumpsDue' > 0
    BY <1>1 DEF PairPhone, SyncTypeOK, HostTypeOK
  <2> QED BY <2>1 DEF NoUnnoticedRevocation
<1>2. CASE RevokePhone
  <2>1. bumpsDue' > 0
    BY <1>2 DEF RevokePhone, SyncTypeOK, HostTypeOK
  <2> QED BY <2>1 DEF NoUnnoticedRevocation
<1>3. CASE BumpAuthorization
  <2>1. \A c \in Conns : pc[c] \in Admitted => authDirty'[c]
    BY <1>3 DEF BumpAuthorization, AuthWatcher
  <2> QED BY <1>3, <2>1 DEF BumpAuthorization, NoUnnoticedRevocation
<1> QED BY <1>1, <1>2, <1>3 DEF Credential

(* A connection only becomes admitted with the token of that moment, and   *)
(* no step short of leaving clears its notice.                             *)
LEMMA ConnectionNotices ==
  ASSUME SyncTypeOK, NoUnnoticedRevocation, NEW c \in Conns, Connection(c)
  PROVE  NoUnnoticedRevocation'
<1>1. UNCHANGED <<pairedToken, bumpsDue>> BY HostUntouched
<1>2. SUFFICES ASSUME NEW d \in Conns, pc'[d] \in Admitted
               PROVE  token'[d] = pairedToken \/ authDirty'[d] \/ bumpsDue > 0
  BY <1>1 DEF NoUnnoticedRevocation
<1>3. pc \in [Conns -> PC] /\ token \in [Conns -> PhoneTokens \cup {NoPhone}]
      /\ authDirty \in [Conns -> BOOLEAN]
  BY DEF SyncTypeOK, TaskTypeOK
<1>4. pc[d] \in Admitted => token[d] = pairedToken \/ authDirty[d] \/ bumpsDue > 0
  BY DEF NoUnnoticedRevocation
<1> USE DEF Goto, Admitted
<1>5. CASE \E t \in PhoneTokens : Accept(c, t)
  BY <1>2, <1>3, <1>4, <1>5 DEF Accept
<1>6. CASE SubscribeAuthorization(c) \/ Authenticate(c)
  BY <1>2, <1>3, <1>4, <1>6 DEF SubscribeAuthorization, Authenticate
<1>7. CASE Reject(c) \/ HelloFails(c) \/ AuthorizationArm(c) \/ Disconnect(c)
  BY <1>2, <1>3, <1>4, <1>7 DEF Reject, HelloFails, AuthorizationArm, Disconnect, Leave
<1>8. CASE ClientHello(c) \/ SubscribeSnapshots(c)
  BY <1>2, <1>3, <1>4, <1>8 DEF ClientHello, SubscribeSnapshots
<1>9. CASE ReadFirst(c) \/ ReadLatest(c) \/ SnapshotArm(c)
  BY <1>2, <1>3, <1>4, <1>9 DEF ReadFirst, ReadLatest, SnapshotArm
<1>10. CASE SendFirst(c) \/ SendNext(c)
  BY <1>2, <1>3, <1>4, <1>10 DEF SendFirst, SendNext, Send
<1>11. CASE RefreshRequest(c)
  BY <1>2, <1>3, <1>4, <1>11 DEF RefreshRequest
<1> QED BY <1>5, <1>6, <1>7, <1>8, <1>9, <1>10, <1>11 DEF Connection, Advance

(* However pairing, revocation and handshakes interleave, a connection     *)
(* past authentication with a dead token has been, or will be, told.       *)
THEOREM RevocationIsNoticed == SyncSpec => []NoUnnoticedRevocation
<1>1. SyncInit => NoUnnoticedRevocation
  BY DEF SyncInit, NoUnnoticedRevocation, Admitted
<1>2. ASSUME SyncTypeOK, NoUnnoticedRevocation, [SyncNext]_syncVars
      PROVE  NoUnnoticedRevocation'
  <2>1. CASE Credential BY <1>2, <2>1, CredentialNotices
  <2>2. CASE Publisher
    BY <1>2, <2>2, PublisherUntouched DEF NoUnnoticedRevocation
  <2>3. CASE CooldownEnds
    BY <1>2, <2>3 DEF CooldownEnds, NoUnnoticedRevocation, host, task
  <2>4. ASSUME NEW c \in Conns, Connection(c) PROVE NoUnnoticedRevocation'
    BY <1>2, <2>4, ConnectionNotices
  <2>5. CASE UNCHANGED syncVars
    BY <1>2, <2>5 DEF syncVars, NoUnnoticedRevocation, host, task
  <2> QED BY <1>2, <2>1, <2>2, <2>3, <2>4, <2>5 DEF SyncNext
<1> QED BY <1>1, <1>2, SyncTypeCorrect, PTL DEF SyncSpec

-----------------------------------------------------------------------------
(* No update is lost between two snapshots of a loop. What has to be added *)
(* for induction: the payload on its way is already the latest one unless  *)
(* the receiver is marked or the publisher is about to mark it, and a task *)
(* that left its loop has forgotten its history.                           *)

UpToDate(c) ==
  /\ pc[c] = "sending" /\ ~snapDirty[c] /\ publisher = "idle" => holding[c] = latest
  /\ pc[c] = "loop" /\ resent[c] /\ ~snapDirty[c] /\ publisher = "idle" => sent[c] = latest
  /\ resent[c] => pc[c] \in Streaming

FeedInv == \A c \in Conns : UpToDate(c)

LEMMA PublisherFeed ==
  ASSUME SyncTypeOK, FeedInv, Publisher
  PROVE  FeedInv'
<1>1. UNCHANGED <<pc, holding, sent, resent>> BY PublisherUntouched
<1>2. CASE publisher' = "written"
  BY <1>1, <1>2 DEF FeedInv, UpToDate
<1>3. CASE BumpSnapshots
  <2>1. \A c \in Conns : pc[c] \in Streaming => snapDirty'[c]
    BY <1>3 DEF BumpSnapshots, MarkSnapshots
  <2> QED BY <1>1, <2>1 DEF FeedInv, UpToDate, Streaming
<1>4. CASE UNCHANGED <<latest, publisher, snapDirty>>
  BY <1>1, <1>4 DEF FeedInv, UpToDate
<1>5. publisher' = "written" \/ BumpSnapshots \/ UNCHANGED <<latest, publisher, snapDirty>>
  BY DEF Publisher, HookArm, QuotaArm, DirectResetArm, RefreshArm, WriteLatest, feed, task
<1> QED BY <1>2, <1>3, <1>4, <1>5

LEMMA ConnectionFeed ==
  ASSUME SyncTypeOK, FeedInv, NEW c \in Conns, Connection(c)
  PROVE  FeedInv'
<1>1. UNCHANGED <<latest, publisher>> BY HostUntouched
<1>2. SUFFICES ASSUME NEW d \in Conns PROVE UpToDate(d)'
  BY DEF FeedInv
<1>3. /\ pc \in [Conns -> PC] /\ snapDirty \in [Conns -> BOOLEAN]
      /\ holding \in [Conns -> Payloads] /\ sent \in [Conns -> Payloads]
      /\ resent \in [Conns -> BOOLEAN]
  BY DEF SyncTypeOK, TaskTypeOK
<1>4. UpToDate(d) BY DEF FeedInv
<1> USE DEF Goto, UpToDate, Streaming
<1>5. CASE \E t \in PhoneTokens : Accept(c, t)
  BY <1>1, <1>3, <1>4, <1>5 DEF Accept
<1>6. CASE SubscribeAuthorization(c) \/ Authenticate(c) \/ ClientHello(c)
  BY <1>1, <1>3, <1>4, <1>6 DEF SubscribeAuthorization, Authenticate, ClientHello
<1>7. CASE Reject(c) \/ HelloFails(c) \/ AuthorizationArm(c) \/ Disconnect(c)
  BY <1>1, <1>3, <1>4, <1>7 DEF Reject, HelloFails, AuthorizationArm, Disconnect, Leave
<1>8. CASE SubscribeSnapshots(c)
  BY <1>1, <1>3, <1>4, <1>8 DEF SubscribeSnapshots
<1>9. CASE ReadFirst(c)
  BY <1>1, <1>3, <1>4, <1>9 DEF ReadFirst
<1>10. CASE ReadLatest(c)
  BY <1>1, <1>3, <1>4, <1>10 DEF ReadLatest
<1>11. CASE SnapshotArm(c)
  BY <1>1, <1>3, <1>4, <1>11 DEF SnapshotArm
<1>12. CASE SendFirst(c)
  BY <1>1, <1>3, <1>4, <1>12 DEF SendFirst, Send
<1>13. CASE SendNext(c)
  BY <1>1, <1>3, <1>4, <1>13 DEF SendNext, Send
<1>14. CASE RefreshRequest(c)
  <2>1. UNCHANGED <<pc, holding, sent, resent>>
    BY <1>14 DEF RefreshRequest
  <2>2. snapDirty' = snapDirty \/ \A e \in Conns : pc[e] \in Streaming => snapDirty'[e]
    BY <1>14 DEF RefreshRequest, MarkSnapshots
  <2> QED BY <1>1, <1>4, <2>1, <2>2
<1> QED BY <1>5, <1>6, <1>7, <1>8, <1>9, <1>10, <1>11, <1>12, <1>13, <1>14
        DEF Connection, Advance

THEOREM FeedInvHolds == SyncSpec => []FeedInv
<1>1. SyncInit => FeedInv
  BY DEF SyncInit, FeedInv, UpToDate
<1>2. ASSUME SyncTypeOK, FeedInv, [SyncNext]_syncVars
      PROVE  FeedInv'
  <2>1. CASE Credential
    BY <1>2, <2>1, CredentialUntouched DEF FeedInv, UpToDate
  <2>2. CASE Publisher BY <1>2, <2>2, PublisherFeed
  <2>3. CASE CooldownEnds
    BY <1>2, <2>3 DEF CooldownEnds, FeedInv, UpToDate, feed, task
  <2>4. ASSUME NEW c \in Conns, Connection(c) PROVE FeedInv'
    BY <1>2, <2>4, ConnectionFeed
  <2>5. CASE UNCHANGED syncVars
    BY <1>2, <2>5 DEF syncVars, FeedInv, UpToDate, feed, task
  <2> QED BY <1>2, <2>1, <2>2, <2>3, <2>4, <2>5 DEF SyncNext
<1> QED BY <1>1, <1>2, SyncTypeCorrect, PTL DEF SyncSpec

(* A stream that waits unmarked has sent the latest payload.               *)
THEOREM NoUpdateLost == SyncSpec => []NoUpdateLostInLoop
<1>1. FeedInv => NoUpdateLostInLoop
  BY DEF FeedInv, UpToDate, NoUpdateLostInLoop
<1> QED BY <1>1, FeedInvHolds, PTL

-----------------------------------------------------------------------------
(* The two in one process. A withdrawn token is never the phone's again:   *)
(* while a revocation is on its way to disk there is no offer a phone      *)
(* could be paired with. Every token in use was minted.                    *)

HostInv ==
  /\ pairedToken = phoneToken
  /\ minted \in 0..MaxTokens /\ phoneToken \in 0..minted
  /\ revoking \in BOOLEAN
  /\ revoking => offer = NoOffer /\ phoneToken = NoToken
  /\ revoked \subseteq 1..minted /\ phoneToken \notin revoked
  /\ token \in [Conns -> 0..minted]
  /\ bumpsDue \in Nat

(* The tokens of SyncServer are the numbers of Pairing's.                  *)
SameTokens == NoPhone = NoToken /\ PhoneTokens = 1..MaxTokens

LEMMA HostInitInv ==
  ASSUME SameTokens, HostInit
  PROVE  HostInv
<1>1. /\ minted \in 0..MaxTokens /\ phoneToken \in 0..minted /\ pairedToken = phoneToken
      /\ revoking = FALSE /\ revoked = {} /\ bumpsDue = 0
  BY DEF HostInit, SyncInit, Tokens
<1>2. token \in [Conns -> 0..minted]
  BY <1>1 DEF SameTokens, NoToken, HostInit, SyncInit
<1> QED
  BY <1>1, <1>2 DEF HostInv

LEMMA TokenChangeInv ==
  ASSUME HostInv, TokenChange
  PROVE  HostInv'
<1> USE DEF HostInv, TokenChange, NoToken
<1>1. CASE SubmitRight
  <2>1. /\ offer # NoOffer /\ minted < MaxTokens /\ minted' = minted + 1 /\ phoneToken' = minted + 1
        /\ offer' = NoOffer /\ UNCHANGED <<revoking, revoked, token>>
    BY <1>1 DEF SubmitRight, task
  <2>2. pairedToken' = phoneToken' /\ bumpsDue' = bumpsDue + 1
    OBVIOUS
  <2> QED
    BY <2>1, <2>2
<1>2. CASE RevokeMemory
  <2>1. /\ offer' = NoOffer /\ phoneToken' = NoToken /\ revoking' = TRUE
        /\ UNCHANGED <<minted, revoked, token>>
    BY <1>2 DEF RevokeMemory, history, task
  <2> QED
    BY <2>1
<1> QED
  BY <1>1, <1>2

LEMMA PairingStepInv ==
  ASSUME HostInv, PairingStep
  PROVE  HostInv'
<1> USE DEF HostInv, PairingStep, NoToken
<1>1. UNCHANGED <<pairedToken, token, bumpsDue>>
  BY DEF syncVars, host, task
<1>2. CASE Tick \/ RequestShutdown \/ Monitor
  <2>1. UNCHANGED <<minted, phoneToken, revoking, offer, revoked>>
    BY <1>2 DEF Tick, RequestShutdown, Monitor, MonitorRead, MonitorFinalRead, Save,
                MonitorSave, MonitorSaveFails, memory, history
  <2> QED
    BY <1>1, <2>1
<1>3. ASSUME NEW c \in Codes, Begin(c)
      PROVE  HostInv'
  <2>1. ~revoking /\ UNCHANGED <<minted, phoneToken, revoking, revoked>>
    BY <1>3 DEF Begin, TrayFree
  <2> QED
    BY <1>1, <2>1
<1>4. CASE SubmitExpired \/ \E c \in Codes : SubmitWrong(c)
  <2>1. offer # NoOffer /\ UNCHANGED <<minted, phoneToken, revoking, revoked>>
    BY <1>4 DEF SubmitExpired, SubmitWrong, history
  <2> QED
    BY <1>1, <2>1
<1>5. CASE RevokeDisk
  <2>1. /\ revoking /\ revoking' = FALSE /\ revoked' = 1..minted
        /\ UNCHANGED <<minted, phoneToken, offer>>
    BY <1>5 DEF RevokeDisk, memory
  <2>2. phoneToken = 0
    BY <2>1
  <2>3. revoked' \subseteq 1..minted' /\ phoneToken' \notin revoked'
    BY <2>1, <2>2
  <2> QED
    BY <1>1, <2>1, <2>3
<1>6. CASE RevokeDiskFails
  <2>1. revoking' = FALSE /\ UNCHANGED <<minted, phoneToken, offer, revoked>>
    BY <1>6 DEF RevokeDiskFails, memory, history
  <2> QED
    BY <1>1, <2>1
<1> QED
  BY <1>2, <1>3, <1>4, <1>5, <1>6

(* The sync side leaves the credential alone and only frees a token's use  *)
(* or begins one.                                                          *)
LEMMA SyncStepInv ==
  ASSUME SameTokens, HostInv, SyncStep
  PROVE  HostInv'
<1> USE DEF SameTokens, HostInv, SyncStep, NoToken
<1>1. UNCHANGED <<phoneToken, minted, revoking, offer, revoked>>
  BY DEF vars, memory, history
<1>2. pairedToken' = pairedToken /\ bumpsDue' \in Nat /\ token' \in [Conns -> 0..minted]
  <2>1. CASE BumpAuthorization
    BY <2>1 DEF BumpAuthorization
  <2>2. CASE Publisher
    BY <2>2, PublisherUntouched
  <2>3. CASE CooldownEnds
    BY <2>3 DEF CooldownEnds, host, task
  <2>4. ASSUME NEW c \in Conns, NEW t \in 1..minted, Accept(c, t)
        PROVE  <1>2
    BY <2>4 DEF Accept, host
  <2>5. ASSUME NEW c \in Conns,
               \/ Advance(c) \/ AuthorizationArm(c) \/ SnapshotArm(c)
               \/ RefreshRequest(c) \/ Disconnect(c)
        PROVE  <1>2
    <3>1. token' = token \/ token' = [token EXCEPT ![c] = NoPhone]
      BY <2>5 DEF Advance, SubscribeAuthorization, Authenticate, Reject, ClientHello, HelloFails,
                  ReadFirst, SendFirst, SubscribeSnapshots, ReadLatest, SendNext, Send,
                  AuthorizationArm, SnapshotArm, RefreshRequest, Disconnect, Leave
    <3> QED
      BY <2>5, <3>1, HostUntouched DEF Connection
  <2> QED
    BY <2>1, <2>2, <2>3, <2>4, <2>5
<1> QED
  BY <1>1, <1>2

LEMMA HostStepInv ==
  ASSUME SameTokens, HostInv, [HostNext]_hostVars
  PROVE  HostInv'
<1>1. CASE UNCHANGED hostVars
  BY <1>1 DEF HostInv, hostVars, vars, syncVars, memory, history, host, task
<1> QED
  BY <1>1, TokenChangeInv, PairingStepInv, SyncStepInv DEF HostNext

LEMMA HostInvHolds ==
  ASSUME SameTokens
  PROVE  HostSpec => []HostInv
<1>1. HostInit => HostInv
  BY HostInitInv
<1>2. HostInv /\ [HostNext]_hostVars => HostInv'
  BY HostStepInv
<1> QED
  BY <1>1, <1>2, PTL DEF HostSpec

(* What SyncServer assumes of the credential, Pairing does: in one process *)
(* the token changes only to none or to one no connection ever presented,  *)
(* so that the two side by side are a behaviour of SyncServer, and what is *)
(* proved of SyncServer holds with the real pairings and revocations.      *)
THEOREM PairingDrivesSync ==
  ASSUME SameTokens
  PROVE  HostSpec => SyncSpec
<1>1. HostInit => SyncInit
  BY DEF HostInit
<1>2. ASSUME HostInv, HostNext
      PROVE  [SyncNext]_syncVars
  <2>1. CASE TokenChange
    <3>1. CASE SubmitRight
      <4>1. /\ minted < MaxTokens /\ phoneToken' = minted + 1
        BY <3>1 DEF SubmitRight
      <4>2. phoneToken' \in PhoneTokens
        BY <1>2, <4>1 DEF SameTokens, HostInv
      <4>3. Fresh(phoneToken')
        BY <1>2, <4>1 DEF Fresh, HostInv
      <4>4. PairPhone(phoneToken')
        BY <2>1, <4>3 DEF TokenChange, PairPhone
      <4> QED
        BY <4>2, <4>4 DEF SyncNext, Credential
    <3>2. CASE RevokeMemory
      <4>1. RevokePhone
        BY <2>1, <3>2 DEF TokenChange, RevokeMemory, RevokePhone, SameTokens
      <4> QED
        BY <4>1 DEF SyncNext, Credential
    <3> QED
      BY <2>1, <3>1, <3>2 DEF TokenChange
  <2>2. CASE PairingStep
    BY <2>2 DEF PairingStep
  <2>3. CASE SyncStep
    <3>1. minted \in 0..MaxTokens
      BY <1>2 DEF HostInv
    <3>2. ASSUME NEW c \in Conns, NEW t \in 1..minted, Accept(c, t)
          PROVE  SyncNext
      <4>1. t \in PhoneTokens
        BY <1>2, <3>1 DEF SameTokens
      <4> QED
        BY <3>2, <4>1 DEF SyncNext, Connection
    <3> QED
      BY <2>3, <3>2 DEF SyncStep, SyncNext, Credential, Connection
  <2> QED
    BY <1>2, <2>1, <2>2, <2>3 DEF HostNext
<1>3. UNCHANGED hostVars => UNCHANGED syncVars
  BY DEF hostVars
<1>4. HostInv /\ [HostNext]_hostVars => [SyncNext]_syncVars
  BY <1>2, <1>3
<1> QED
  BY <1>1, <1>4, HostInvHolds, PTL DEF HostSpec, SyncSpec

(* Once revoke_phone has returned, every connection past authentication    *)
(* with a token it withdrew has the notice of the change, or the change    *)
(* has still to send it: what one process revokes, it stops serving.       *)
THEOREM RevokedPhonesAreTold ==
  ASSUME SameTokens
  PROVE  HostSpec => []RevokedAreTold
<1>1. HostInv /\ NoUnnoticedRevocation => RevokedAreTold
  BY DEF HostInv, NoUnnoticedRevocation, RevokedAreTold
<1> QED
  BY <1>1, HostInvHolds, PairingDrivesSync, RevocationIsNoticed, PTL
=============================================================================

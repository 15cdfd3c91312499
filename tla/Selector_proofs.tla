---------------------------- MODULE Selector_proofs ----------------------------
(***************************************************************************)
(* Proofs about SessionRegistry and Selector, for any size of the          *)
(* registry, any consoles, addresses and announcements.                    *)
(***************************************************************************)
EXTENDS Selector, FiniteSetTheorems, SequenceTheorems, WellFoundedInduction,
        TLAPS

(* The part of a registry's type that its operations preserve together. *)
Sound(m) ==
    /\ m \in Registries /\ Len(m.devices) <= MaxDevices
    /\ SelectionNamesEntry(m)

-----------------------------------------------------------------------------
(* What the code's loops over the array find.                              *)

(* A set of natural numbers that is not empty has a least element. *)
LEMMA Least ==
    ASSUME NEW I \in SUBSET Nat, I # {}
    PROVE  \E i \in I : \A j \in I : i <= j
<1>1. PICK x \in I : \A y \in I : ~ (<<y, x>> \in OpToRel(<, Nat))
  BY WFMin, NatLessThanWellFounded
<1>2. \A y \in I : ~ (y < x)
  BY <1>1 DEF OpToRel
<1> QED
  BY <1>2

LEMMA FirstIsLeast ==
    ASSUME NEW I \in SUBSET Nat, I # {}
    PROVE  First(I) \in I /\ \A j \in I : First(I) <= j
BY Least DEF First

(* The elements of K up to i. *)
UpTo(K, i) == {j \in K : j <= i}

LEMMA UpToFinite ==
    ASSUME NEW n \in Nat, NEW K \in SUBSET (1..n), NEW i \in Nat
    PROVE  IsFiniteSet(UpTo(K, i)) /\ Cardinality(UpTo(K, i)) \in Nat
<1>1. IsFiniteSet(1..n)
  BY FS_Interval
<1>2. UpTo(K, i) \in SUBSET (1..n)
  BY DEF UpTo
<1> QED
  BY <1>1, <1>2, FS_Subset, FS_CardinalityType

LEMMA UpToSteps ==
    ASSUME NEW n \in Nat, NEW K \in SUBSET (1..n), NEW m \in 1..n
    PROVE  /\ UpTo(K, n) = K /\ UpTo(K, 0) = {}
           /\ m \notin K => UpTo(K, m) = UpTo(K, m - 1)
           /\ m \in K => /\ UpTo(K, m) = UpTo(K, m - 1) \cup {m}
                         /\ m \notin UpTo(K, m - 1)
<1>1. \A j \in K : j \in Nat /\ 1 <= j /\ j <= n
  OBVIOUS
<1>2. UpTo(K, n) = K /\ UpTo(K, 0) = {}
  <2>1. \A j \in K : j <= n /\ ~ (j <= 0)
    BY <1>1
  <2> QED
    BY <2>1, Zenon DEF UpTo
<1>3. \A j \in K : j <= m <=> (j <= m - 1 \/ j = m)
  BY <1>1
<1>4. m \notin K => UpTo(K, m) = UpTo(K, m - 1)
  BY <1>3 DEF UpTo
<1>5. ASSUME m \in K
      PROVE  /\ UpTo(K, m) = UpTo(K, m - 1) \cup {m}
             /\ m \notin UpTo(K, m - 1)
  <2>1. ~ (m <= m - 1)
    OBVIOUS
  <2> QED
    BY <1>3, <1>5, <2>1, Zenon DEF UpTo
<1> QED
  BY <1>2, <1>4, <1>5

(* A loop that counts the elements of K reaches the k-th. *)
LEMMA NthExists ==
    ASSUME NEW n \in Nat, NEW K \in SUBSET (1..n),
           NEW k \in Nat, 1 <= k, k <= Cardinality(K)
    PROVE  /\ Nth(K, k) \in K
           /\ Cardinality({j \in K : j < Nth(K, k)}) = k - 1
<1> DEFINE B == {i \in 1..n : Cardinality(UpTo(K, i)) >= k}
<1>1. n # 0
  <2> SUFFICES ASSUME n = 0 PROVE FALSE
    OBVIOUS
  <2>1. K = {}
    OBVIOUS
  <2> QED
    BY <2>1, FS_EmptySet
<1>2. n \in 1..n
  BY <1>1
<1>3. UpTo(K, n) = K /\ UpTo(K, 0) = {}
  BY <1>2, UpToSteps
<1>4. n \in B
  BY <1>2, <1>3
<1>5. PICK m \in B : \A i \in B : m <= i
  <2>1. B \in SUBSET Nat
    OBVIOUS
  <2> HIDE DEF B
  <2> QED
    BY <1>4, <2>1, Least
<1>6. m \in 1..n /\ Cardinality(UpTo(K, m)) >= k
  OBVIOUS
<1>7. ~ (Cardinality(UpTo(K, m - 1)) >= k)
  <2>1. CASE m = 1
    BY <2>1, <1>3, FS_EmptySet
  <2>2. CASE m - 1 \in 1..n
    BY <2>2, <1>5, <1>6
  <2> QED
    BY <2>1, <2>2, <1>6
<1> HIDE DEF B
<1>8. Cardinality(UpTo(K, m)) \in Nat /\ Cardinality(UpTo(K, m - 1)) \in Nat
      /\ IsFiniteSet(UpTo(K, m - 1))
  <2>1. m \in Nat /\ m - 1 \in Nat
    BY <1>6
  <2> QED
    BY <2>1, UpToFinite
<1>9. /\ m \notin K => UpTo(K, m) = UpTo(K, m - 1)
      /\ m \in K => /\ UpTo(K, m) = UpTo(K, m - 1) \cup {m}
                    /\ m \notin UpTo(K, m - 1)
  <2>1. m \in 1..n
    BY <1>6
  <2>2. m \notin K => UpTo(K, m) = UpTo(K, m - 1)
    BY <2>1, UpToSteps
  <2>3. m \in K => UpTo(K, m) = UpTo(K, m - 1) \cup {m}
    BY <2>1, UpToSteps
  <2>4. m \in K => m \notin UpTo(K, m - 1)
    BY <2>1, UpToSteps
  <2> QED
    BY <2>2, <2>3, <2>4
<1>10. m \in K
  BY <1>6, <1>7, <1>9, Zenon
<1>11. Cardinality(UpTo(K, m)) = Cardinality(UpTo(K, m - 1)) + 1
  <2>1. Cardinality(UpTo(K, m - 1) \cup {m}) = Cardinality(UpTo(K, m - 1)) + 1
    <3>1. m \notin UpTo(K, m - 1) /\ IsFiniteSet(UpTo(K, m - 1))
      BY <1>8, <1>9, <1>10, Zenon
    <3> QED
      BY <3>1, FS_AddElement, Zenon
  <2> QED
    BY <2>1, <1>9, <1>10, Zenon
<1>12. Cardinality(UpTo(K, m - 1)) = k - 1
  <2> DEFINE a == Cardinality(UpTo(K, m))
             b == Cardinality(UpTo(K, m - 1))
  <2>1. a \in Nat /\ b \in Nat /\ a >= k /\ ~ (b >= k) /\ a = b + 1
    BY <1>6, <1>7, <1>8, <1>11, Zenon
  <2> HIDE DEF a, b
  <2>2. b = k - 1
    BY <2>1
  <2> QED
    BY <2>2 DEF b
<1>13. Cardinality({j \in K : j < m}) = k - 1
  <2>1. m \in 1..n
    BY <1>6
  <2>2. {j \in K : j < m} = UpTo(K, m - 1)
    <3>1. \A j \in K : j < m <=> j <= m - 1
      BY <2>1
    <3> QED
      BY <3>1, Zenon DEF UpTo
  <2> QED
    BY <1>12, <2>2, Zenon
<1> QED
  BY <1>10, <1>13 DEF Nth

(* The kept indices are finitely many, and no more than there are indices. *)
LEMMA PartFinite ==
    ASSUME NEW n \in Nat, NEW K \in SUBSET (1..n)
    PROVE  IsFiniteSet(K) /\ Cardinality(K) \in Nat /\ Cardinality(K) <= n
<1>1. IsFiniteSet(1..n) /\ Cardinality(1..n) = n
  BY FS_Interval
<1>2. IsFiniteSet(K) /\ Cardinality(K) <= Cardinality(1..n)
  BY <1>1, FS_Subset
<1> QED
  BY <1>1, <1>2, FS_CardinalityType

(* What is below an element is less than what is below a greater one. *)
LEMMA BelowGrows ==
    ASSUME NEW n \in Nat, NEW K \in SUBSET (1..n), NEW i \in K, NEW j \in K,
           i < j
    PROVE  /\ Cardinality({x \in K : x < i}) \in Nat
           /\ Cardinality({x \in K : x < j}) \in Nat
           /\ Cardinality({x \in K : x < i}) < Cardinality({x \in K : x < j})
           /\ Cardinality({x \in K : x < j}) < Cardinality(K)
<1> DEFINE A == {x \in K : x < i}
           B == {x \in K : x < j}
<1>1. \A x \in K : x \in Nat
  OBVIOUS
<1>2. A \cup {i} \in SUBSET B /\ i \notin A
  <2>1. \A x \in K : x < i => x < j
    BY <1>1
  <2>2. ~ (i < i)
    BY <1>1
  <2> QED
    BY <2>1, <2>2, Zenon
<1>3. B \cup {j} \in SUBSET K /\ j \notin B
  <2>1. ~ (j < j)
    BY <1>1
  <2> QED
    BY <2>1, Zenon
<1>4. IsFiniteSet(K)
  BY PartFinite
<1>5. IsFiniteSet(A) /\ IsFiniteSet(B)
  <2>1. A \in SUBSET K /\ B \in SUBSET K
    OBVIOUS
  <2> QED
    BY <2>1, <1>4, FS_Subset
<1> HIDE DEF A, B
<1>6. Cardinality(A \cup {i}) = Cardinality(A) + 1
      /\ Cardinality(A \cup {i}) <= Cardinality(B)
  BY <1>2, <1>5, FS_AddElement, FS_Subset
<1>7. Cardinality(B \cup {j}) = Cardinality(B) + 1
      /\ Cardinality(B \cup {j}) <= Cardinality(K)
  BY <1>3, <1>4, <1>5, FS_AddElement, FS_Subset
<1>8. Cardinality(A) \in Nat /\ Cardinality(B) \in Nat
      /\ Cardinality(K) \in Nat
  BY <1>4, <1>5, FS_CardinalityType
<1>9. Cardinality(A) < Cardinality(B) /\ Cardinality(B) < Cardinality(K)
  BY <1>6, <1>7, <1>8
<1> QED
  BY <1>8, <1>9 DEF A, B

(* Nth counts the elements in their order, and leaves none out. *)
LEMMA NthOrder ==
    ASSUME NEW n \in Nat, NEW K \in SUBSET (1..n),
           NEW k \in 1..Cardinality(K), NEW l \in 1..Cardinality(K), k < l
    PROVE  Nth(K, k) < Nth(K, l)
<1> DEFINE a == Nth(K, k)
           b == Nth(K, l)
<1>1. IsFiniteSet(K) /\ Cardinality(K) \in Nat
  BY PartFinite
<1>2. k \in Nat /\ 1 <= k /\ k <= Cardinality(K)
      /\ l \in Nat /\ 1 <= l /\ l <= Cardinality(K)
  BY <1>1
<1>3. a \in K /\ Cardinality({x \in K : x < a}) = k - 1
  BY <1>2, NthExists
<1>4. b \in K /\ Cardinality({x \in K : x < b}) = l - 1
  BY <1>2, NthExists
<1> HIDE DEF a, b
<1>5. ~ (b < a)
  <2> SUFFICES ASSUME b < a PROVE FALSE
    OBVIOUS
  <2>1. Cardinality({x \in K : x < b}) < Cardinality({x \in K : x < a})
    BY <1>3, <1>4, BelowGrows
  <2>2. l - 1 < k - 1
    BY <2>1, <1>3, <1>4
  <2> QED
    BY <2>2, <1>2
<1>6. a # b
  <2> SUFFICES ASSUME a = b PROVE FALSE
    OBVIOUS
  <2>1. k - 1 = l - 1
    BY <1>3, <1>4
  <2> QED
    BY <2>1, <1>2
<1>7. a \in Nat /\ b \in Nat
  BY <1>3, <1>4
<1>8. a < b
  BY <1>5, <1>6, <1>7
<1> QED
  BY <1>8 DEF a, b

LEMMA NthOnto ==
    ASSUME NEW n \in Nat, NEW K \in SUBSET (1..n), NEW i \in K
    PROVE  \E k \in 1..Cardinality(K) : Nth(K, k) = i
<1> DEFINE B == {x \in K : x < i}
           k == Cardinality(B) + 1
<1>1. IsFiniteSet(K) /\ Cardinality(K) \in Nat
  BY PartFinite
<1>2. IsFiniteSet(B) /\ Cardinality(B) \in Nat
  <2>1. B \in SUBSET K
    OBVIOUS
  <2> QED
    BY <2>1, <1>1, FS_Subset, FS_CardinalityType
<1>3. Cardinality(B) < Cardinality(K)
  <2>1. i \notin B /\ B \cup {i} \in SUBSET K
    OBVIOUS
  <2> HIDE DEF B
  <2>2. Cardinality(B \cup {i}) = Cardinality(B) + 1
        /\ Cardinality(B \cup {i}) <= Cardinality(K)
    BY <2>1, <1>1, <1>2, FS_AddElement, FS_Subset
  <2> QED
    BY <2>2, <1>1, <1>2
<1>4. k \in 1..Cardinality(K) /\ k \in Nat /\ 1 <= k /\ k <= Cardinality(K)
  <2> HIDE DEF B
  <2> QED
    BY <1>1, <1>2, <1>3
<1>5. Cardinality(B) = k - 1
  <2> HIDE DEF B
  <2> QED
    BY <1>2
<1> HIDE DEF k
<1>6. Nth(K, k) \in K /\ Cardinality({x \in K : x < Nth(K, k)}) = k - 1
  BY <1>4, NthExists
<1>7. Nth(K, k) = i
  <2> DEFINE a == Nth(K, k)
  <2>1. a \in K /\ Cardinality({x \in K : x < a}) = Cardinality(B)
    BY <1>5, <1>6
  <2> HIDE DEF a
  <2>2. ~ (a < i)
    <3>1. a < i => Cardinality({x \in K : x < a}) < Cardinality(B)
                   /\ Cardinality(B) \in Nat
      BY <2>1, BelowGrows
    <3> QED
      BY <3>1, <2>1
  <2>3. ~ (i < a)
    <3>1. i < a => Cardinality(B) < Cardinality({x \in K : x < a})
                   /\ Cardinality(B) \in Nat
      BY <2>1, BelowGrows
    <3> QED
      BY <3>1, <2>1
  <2>4. a \in Nat /\ i \in Nat
    BY <2>1
  <2>5. a = i
    BY <2>2, <2>3, <2>4
  <2> QED
    BY <2>5 DEF a
<1> QED
  BY <1>4, <1>7

-----------------------------------------------------------------------------
(* The operations of the registry.                                         *)

LEMMA SoundEmpty == Sound(Empty)
<1>1. Empty.devices \in Seq(Entries) /\ Len(Empty.devices) = 0
  BY DEF Empty
<1> QED
  BY <1>1, RegistryAssumption
     DEF Empty, Sound, Registries, SelectionNamesEntry

LEMMA Added ==
    ASSUME NEW m, Sound(m), Room(m), NEW e \in Entries
    PROVE  Sound([m EXCEPT !.devices = Append(@, e)])
<1> DEFINE r == [m EXCEPT !.devices = Append(@, e)]
<1>1. m.devices \in Seq(Entries) /\ m.selected \in Nat
      /\ m.preferred \in Devices \cup {NoDevice}
  BY DEF Sound, Registries
<1>2. r.devices = Append(m.devices, e) /\ r.selected = m.selected
      /\ r \in Registries
  BY <1>1 DEF Sound, Registries
<1>3. Len(r.devices) = Len(m.devices) + 1
  BY <1>1, <1>2
<1>4. Len(m.devices) \in Nat /\ Len(m.devices) < MaxDevices
  BY <1>1 DEF Room
<1>5. Len(r.devices) <= MaxDevices
  BY <1>3, <1>4, RegistryAssumption
<1>6. m.selected < Len(r.devices)
  <2>1. CASE m.selected < Len(m.devices)
    BY <2>1, <1>1, <1>3, <1>4
  <2>2. CASE m.devices = <<>> /\ m.selected = 0
    BY <2>2, <1>3, <1>4
  <2> QED
    BY <2>1, <2>2 DEF Sound, SelectionNamesEntry
<1> QED
  BY <1>2, <1>5, <1>6 DEF Sound, SelectionNamesEntry

LEMMA SoundManual ==
    ASSUME NEW h \in Hosts
    PROVE  Sound(AddManual(Empty, h))
<1>1. [info |-> [source |-> "sysdvr", serial |-> NoSerial, host |-> h],
       age |-> 0, manual |-> TRUE] \in Entries
  BY RegistryAssumption DEF Entries, Devices, Sources
<1> QED
  BY <1>1, SoundEmpty, Added DEF AddManual

LEMMA SoundSeen ==
    ASSUME NEW m, Sound(m), NEW d \in Devices
    PROVE  Sound(Seen(m, d))
<1> DEFINE e == [info |-> d, age |-> 0, manual |-> FALSE]
<1>1. e \in Entries
  BY RegistryAssumption DEF Entries
<1> HIDE DEF e
<1>2. CASE Matching(m, d) # {}
  <2> DEFINE i == First(Matching(m, d))
             r == [m EXCEPT !.devices[i] = e]
  <2>1. m.devices \in Seq(Entries)
    BY DEF Sound, Registries
  <2>2. Matching(m, d) \in SUBSET Nat
    BY <2>1 DEF Matching
  <2>3. i \in 1..Len(m.devices)
    <3>1. i \in Matching(m, d)
      BY <1>2, <2>2, FirstIsLeast
    <3> QED
      BY <3>1, <2>1 DEF Matching
  <2> HIDE DEF i
  <2>4. /\ [m.devices EXCEPT ![i] = e] \in Seq(Entries)
        /\ Len([m.devices EXCEPT ![i] = e]) = Len(m.devices)
    BY <2>1, <2>3, <1>1, ExceptSeq
  <2>5. r.devices = [m.devices EXCEPT ![i] = e] /\ r.selected = m.selected
        /\ r \in Registries
    BY <2>4 DEF Sound, Registries
  <2>6. m.devices # <<>>
    BY <2>1, <2>3
  <2>7. m.selected < Len(m.devices)
    BY <2>6 DEF Sound, SelectionNamesEntry
  <2>8. Sound(r)
    BY <2>4, <2>5, <2>7 DEF Sound, SelectionNamesEntry
  <2> QED
    BY <1>2, <2>8 DEF Seen, i, e
<1>3. CASE Matching(m, d) = {} /\ Room(m)
  BY <1>3, <1>1, Added DEF Seen, e
<1>4. CASE Matching(m, d) = {} /\ ~Room(m)
  BY <1>4 DEF Seen
<1> QED
  BY <1>2, <1>3, <1>4

LEMMA SoundAged == ASSUME NEW m, Sound(m) PROVE Sound(Aged(m))
<1> DEFINE n == Len(m.devices)
           f == [i \in DOMAIN m.devices |-> Older(m.devices[i])]
<1>1. m.devices \in Seq(Entries) /\ n \in Nat /\ DOMAIN m.devices = 1..n
  BY DEF Sound, Registries
<1>2. \A e \in Entries : Older(e) \in Entries
  BY RegistryAssumption DEF Older, Entries
<1>3. \A i \in 1..n : m.devices[i] \in Entries
  BY <1>1
<1>4. f \in [1..n -> Entries]
  BY <1>1, <1>2, <1>3
<1>5. f \in Seq(Entries) /\ Len(f) = n
  <2> HIDE DEF f, n
  <2> QED
    BY <1>1, <1>4
<1>6. Aged(m).devices = f /\ Aged(m).selected = m.selected
      /\ Aged(m) \in Registries
  BY <1>5 DEF Aged, Sound, Registries
<1>7. n = 0 => f = <<>>
  <2> HIDE DEF f, n
  <2> QED
    BY <1>5
<1>8. m.devices = <<>> => n = 0
  OBVIOUS
<1> HIDE DEF f, n
<1> QED
  BY <1>5, <1>6, <1>7, <1>8 DEF Sound, SelectionNamesEntry, n

LEMMA SoundPruned == ASSUME NEW m, Sound(m) PROVE Sound(Pruned(m))
<1> DEFINE n == Cardinality(Kept(m))
           rest == [m EXCEPT !.devices = Compacted(m)]
<1>1. m.devices \in Seq(Entries) /\ Len(m.devices) \in Nat
      /\ DOMAIN m.devices = 1..Len(m.devices)
  BY DEF Sound, Registries
<1>2. Kept(m) \in SUBSET (1..Len(m.devices))
  BY <1>1 DEF Kept
<1>3. n \in Nat /\ n <= Len(m.devices)
  BY <1>1, <1>2, PartFinite
<1>4. \A k \in 1..n : m.devices[Nth(Kept(m), k)] \in Entries
  <2> SUFFICES ASSUME NEW k \in 1..n
               PROVE  m.devices[Nth(Kept(m), k)] \in Entries
    OBVIOUS
  <2>1. k \in Nat /\ 1 <= k /\ k <= n
    BY <1>3
  <2>2. Nth(Kept(m), k) \in Kept(m)
    BY <2>1, <1>1, <1>2, NthExists
  <2> QED
    BY <2>2, <1>1, <1>2
<1>5. Compacted(m) \in [1..n -> Entries]
  BY <1>4 DEF Compacted
<1> HIDE DEF n
<1>6. Compacted(m) \in Seq(Entries) /\ Len(Compacted(m)) = n
  BY <1>3, <1>5
<1>7. rest \in Registries /\ rest.devices = Compacted(m)
  BY <1>6 DEF Sound, Registries
<1> HIDE DEF rest
<1> DEFINE s == IF n = 0 THEN 0
                ELSE IF Found(rest, m) # {} THEN First(Found(rest, m)) - 1
                ELSE Within(m.selected, n)
<1>8. Found(rest, m) \in SUBSET (1..n)
  BY <1>6, <1>7 DEF Found, Matching
<1>9. s \in Nat /\ (n # 0 => s < n)
  <2>1. CASE n = 0
    BY <2>1
  <2>2. CASE n # 0 /\ Found(rest, m) # {}
    <3>1. First(Found(rest, m)) \in 1..n
      BY <2>2, <1>8, FirstIsLeast
    <3> QED
      BY <2>2, <3>1, <1>3
  <2>3. CASE n # 0 /\ Found(rest, m) = {}
    <3>1. m.selected \in Nat
      BY DEF Sound, Registries
    <3> QED
      BY <2>3, <3>1, <1>3 DEF Within
  <2> QED
    BY <2>1, <2>2, <2>3
<1>10. Pruned(m) = [rest EXCEPT !.selected = s]
  BY DEF Pruned, rest, n
<1> HIDE DEF s
<1>11. /\ Pruned(m) \in Registries /\ Pruned(m).devices = Compacted(m)
       /\ Pruned(m).selected = s
  BY <1>7, <1>9, <1>10 DEF Registries
<1>12. Len(Pruned(m).devices) <= MaxDevices
  BY <1>1, <1>3, <1>6, <1>11, RegistryAssumption DEF Sound
<1>13. SelectionNamesEntry(Pruned(m))
  <2>1. CASE n = 0
    <3>1. Compacted(m) = <<>>
      BY <2>1, <1>6
    <3>2. s = 0
      BY <2>1 DEF s
    <3> QED
      BY <3>1, <3>2, <1>11 DEF SelectionNamesEntry
  <2>2. CASE n # 0
    BY <2>2, <1>6, <1>9, <1>11 DEF SelectionNamesEntry
  <2> QED
    BY <2>1, <2>2
<1> QED
  BY <1>11, <1>12, <1>13 DEF Sound

LEMMA SelectedDevice ==
    ASSUME NEW m, Sound(m), m.devices # <<>>
    PROVE  Selected(m) \in Devices /\ HasSelection(m)
<1>1. /\ m.devices \in Seq(Entries) /\ Len(m.devices) \in Nat
      /\ m.selected \in Nat /\ m.selected < Len(m.devices)
  BY DEF Sound, Registries, SelectionNamesEntry
<1>2. m.devices[m.selected + 1] \in Entries
  BY <1>1
<1> QED
  BY <1>1, <1>2 DEF Selected, HasSelection, Entries

LEMMA SoundMoved ==
    ASSUME NEW m, Sound(m)
    PROVE  Sound(Up(m)) /\ Sound(Down(m)) /\ Sound(Remembered(m))
<1>1. /\ m.devices \in Seq(Entries) /\ Len(m.devices) \in Nat
      /\ m.selected \in Nat
  BY DEF Sound, Registries
<1>2. CASE m.devices = <<>>
  <2>1. ~HasSelection(m)
    BY <1>1, <1>2 DEF HasSelection
  <2> QED
    BY <2>1, <1>2 DEF Up, Down, Remembered
<1>3. CASE m.devices # <<>>
  <2>1. m.selected < Len(m.devices)
    BY <1>3 DEF Sound, SelectionNamesEntry
  <2>2. ASSUME NEW s \in Nat, s < Len(m.devices)
        PROVE  Sound([m EXCEPT !.selected = s])
    BY <2>2 DEF Sound, Registries, SelectionNamesEntry
  <2>3. Sound(Up(m))
    <3> DEFINE s == IF m.selected = 0 THEN Len(m.devices) - 1
                    ELSE m.selected - 1
    <3>1. s \in Nat /\ s < Len(m.devices)
      BY <2>1, <1>1
    <3>2. Up(m) = [m EXCEPT !.selected = s]
      BY <1>3 DEF Up
    <3> QED
      BY <3>1, <3>2, <2>2
  <2>4. Sound(Down(m))
    <3> DEFINE s == IF m.selected + 1 >= Len(m.devices) THEN 0
                    ELSE m.selected + 1
    <3>1. s \in Nat /\ s < Len(m.devices)
      BY <2>1, <1>1
    <3>2. Down(m) = [m EXCEPT !.selected = s]
      BY <1>3 DEF Down
    <3> QED
      BY <3>1, <3>2, <2>2
  <2>5. Sound(Remembered(m))
    <3>1. Selected(m) \in Devices
      BY <1>3, SelectedDevice
    <3> QED
      BY <3>1 DEF Remembered, Sound, Registries, SelectionNamesEntry
  <2> QED
    BY <2>3, <2>4, <2>5
<1> QED
  BY <1>2, <1>3

-----------------------------------------------------------------------------
(* The state machine: the registry stays sound, the queues stay queues of  *)
(* datagrams within the kernel's limit.                                    *)

QueueOK ==
    /\ queue \in [Sources -> Seq(Devices \cup {Junk})]
    /\ \A s \in Sources : Len(queue[s]) <= QueueLimit

ControlOK ==
    /\ loc \in Locs /\ action \in Keys /\ g_signal_stop \in BOOLEAN
    /\ reconnecting \in BOOLEAN

DevicesOK ==
    /\ target \in Devices \cup {NoDevice}
    /\ chosen \in Devices \cup {NoDevice}
    /\ loc = "refresh" => target \in Devices

(* The inductive invariant. *)
Inv == Sound(manager) /\ QueueOK /\ ControlOK /\ DevicesOK

LEMMA InvType == Inv => TypeOK /\ SelectionInRange
BY DEF Inv, Sound, QueueOK, ControlOK, DevicesOK, TypeOK, SelectionInRange

(* A device announced is not one of the two markers. *)
LEMMA Announced ==
    ASSUME NEW s \in Sources, QueueOK, queue[s] # <<>>, Head(queue[s]) # Junk
    PROVE  Head(queue[s]) \in Devices
<1>1. queue[s] \in Seq(Devices \cup {Junk})
  BY DEF QueueOK
<1> QED
  BY <1>1, HeadTailProperties

LEMMA TakeOK ==
    ASSUME NEW s \in Sources, QueueOK, queue[s] # <<>>, Take(s)
    PROVE  QueueOK'
<1> DEFINE D == Devices \cup {Junk}
           q == queue[s]
<1>1. q \in Seq(D) /\ Len(q) <= QueueLimit
  BY DEF QueueOK
<1> HIDE DEF D
<1>2. Tail(q) \in Seq(D) /\ Len(Tail(q)) <= QueueLimit
  <2>1. Len(q) \in Nat /\ Len(Tail(q)) = Len(q) - 1 /\ Tail(q) \in Seq(D)
    BY <1>1, HeadTailProperties
  <2> QED
    BY <2>1, <1>1, SelectorAssumption
<1>3. queue' = [queue EXCEPT ![s] = Tail(q)] /\ queue \in [Sources -> Seq(D)]
  BY DEF Take, QueueOK, D
<1>4. queue' \in [Sources -> Seq(D)]
  BY <1>2, <1>3
<1>5. \A t \in Sources : Len(queue'[t]) <= QueueLimit
  BY <1>2, <1>3 DEF QueueOK
<1> QED
  BY <1>4, <1>5 DEF QueueOK, D

LEMMA ArriveOK ==
    ASSUME NEW s \in Sources, NEW d \in Devices \cup {Junk}, QueueOK,
           Arrive(s, d)
    PROVE  QueueOK'
<1> DEFINE D == Devices \cup {Junk}
           q == queue[s]
<1>1. q \in Seq(D) /\ Len(q) \in Nat /\ Len(q) < QueueLimit
  BY DEF QueueOK, Arrive
<1>2. d \in D
  OBVIOUS
<1> HIDE DEF D
<1>3. Append(q, d) \in Seq(D) /\ Len(Append(q, d)) <= QueueLimit
  <2>1. Append(q, d) \in Seq(D) /\ Len(Append(q, d)) = Len(q) + 1
    BY <1>1, <1>2
  <2> QED
    BY <2>1, <1>1, SelectorAssumption
<1>4. queue' = [queue EXCEPT ![s] = Append(q, d)]
      /\ queue \in [Sources -> Seq(D)]
  BY DEF Arrive, QueueOK, D
<1>5. queue' \in [Sources -> Seq(D)]
  BY <1>3, <1>4
<1>6. \A t \in Sources : Len(queue'[t]) <= QueueLimit
  BY <1>3, <1>4 DEF QueueOK
<1> QED
  BY <1>5, <1>6 DEF QueueOK, D

LEMMA InitInv == Init => Inv
<1> SUFFICES ASSUME Init PROVE Inv
  OBVIOUS
<1>1. Sound(manager)
  BY SoundEmpty, SoundManual DEF Init
<1>2. QueueOK
  <2>1. <<>> \in Seq(Devices \cup {Junk}) /\ Len(<<>>) = 0
    OBVIOUS
  <2> QED
    BY <2>1, SelectorAssumption DEF Init, QueueOK
<1>3. ControlOK /\ DevicesOK
  BY DEF Init, ControlOK, DevicesOK, Locs, Sleeping, Keys
<1> QED
  BY <1>1, <1>2, <1>3 DEF Inv

LEMMA StepLoop == ASSUME Inv, Loop PROVE Inv'
<1> USE DEF Inv
<1>1. ASSUME NEW here \in {"browse", "wait", "error"}, Stop(here)
      PROVE  Inv'
  BY <1>1 DEF Stop, QueueOK, ControlOK, DevicesOK, Locs
<1>2. ASSUME NEW key \in Keys, BrowsePoll(key) PROVE Inv'
  BY <1>2 DEF BrowsePoll, QueueOK, ControlOK, DevicesOK, Locs
<1>3. ASSUME NEW s \in Sources, NEW here, BrowseSeen(s, here) PROVE Inv'
  <2>1. QueueOK'
    BY <1>3, TakeOK DEF BrowseSeen
  <2>2. Sound(manager')
    BY <1>3, Announced, SoundSeen DEF BrowseSeen
  <2> QED
    BY <1>3, <2>1, <2>2 DEF BrowseSeen, ControlOK, DevicesOK
<1>4. ASSUME NEW s \in Sources, NEW here,
             NEW next \in Locs \ {"refresh"}, Drained(s, here, next)
      PROVE  Inv'
  <2>1. QueueOK'
    BY <1>4, TakeOK DEF Drained, QueueOK
  <2> QED
    BY <1>4, <2>1 DEF Drained, ControlOK, DevicesOK
<1>5. CASE BrowseAct
  <2>1. Sound(Pruned(manager))
    BY SoundPruned
  <2>2. Sound(Turned(Pruned(manager)))
    BY <2>1, SoundMoved DEF Turned
  <2>3. manager' = Turned(Pruned(manager)) /\ loc' = "browse"
        /\ action' = "none"
        /\ UNCHANGED <<g_signal_stop, target, reconnecting, queue, chosen>>
    BY <1>5 DEF BrowseAct
  <2> QED
    BY <2>2, <2>3
       DEF QueueOK, ControlOK, DevicesOK, Locs, Sleeping, Keys
<1>6. CASE BrowseOk
  <2>1. Sound(Pruned(manager)) /\ Sound(Remembered(Pruned(manager)))
    BY SoundPruned, SoundMoved
  <2>2. Selected(Pruned(manager)) \in Devices
    BY <2>1, <1>6, SelectedDevice DEF BrowseOk
  <2> QED
    BY <1>6, <2>1, <2>2
       DEF BrowseOk, QueueOK, ControlOK, DevicesOK, Locs, Sleeping, Keys
<1>7. CASE BrowseBack
  BY <1>7, SoundPruned DEF BrowseBack, QueueOK, ControlOK, DevicesOK, Locs, Keys
<1>8. CASE ErrorShown
  BY <1>8 DEF ErrorShown, QueueOK, ControlOK, DevicesOK, Locs, Sleeping
<1>9. CASE WaitPoll \/ WaitBack
  BY <1>9 DEF WaitPoll, WaitBack, QueueOK, ControlOK, DevicesOK, Locs, Sleeping
<1>10. ASSUME NEW s \in Sources, NEW here, WaitSeen(s, here) PROVE Inv'
  <2>1. QueueOK'
    BY <1>10, TakeOK DEF WaitSeen
  <2>2. Head(queue[s]) \in Devices
    BY <1>10, Announced DEF WaitSeen
  <2>3. Sound(manager')
    BY <1>10, <2>2, SoundSeen DEF WaitSeen
  <2>4. ControlOK' /\ DevicesOK'
    BY <1>10, <2>2 DEF WaitSeen, ControlOK, DevicesOK, Locs, Sleeping
  <2> QED
    BY <2>1, <2>3, <2>4
<1>11. CASE WaitPrune
  BY <1>11, SoundPruned
     DEF WaitPrune, QueueOK, ControlOK, DevicesOK, Locs, Sleeping
<1>12. CASE Refresh
  <2>1. Sound(manager')
    BY <1>12, SoundSeen DEF Refresh, DevicesOK
  <2> QED
    BY <1>12, <2>1 DEF Refresh, QueueOK, ControlOK, DevicesOK, Locs, Sleeping
<1>13. CASE SessionStopped
  BY <1>13 DEF SessionStopped, QueueOK, ControlOK, DevicesOK, Locs
<1> QED
  BY <1>1, <1>2, <1>3, <1>4, <1>5, <1>6, <1>7, <1>8, <1>9, <1>10, <1>11,
     <1>12, <1>13 DEF Loop, Turn, Sources, Locs

LEMMA StepNext == Inv /\ [Next]_vars => Inv'
<1> SUFFICES ASSUME Inv, [Next]_vars PROVE Inv'
  OBVIOUS
<1>1. CASE Loop
  BY <1>1, StepLoop
<1>2. ASSUME NEW d \in Announcements, Announce(d) PROVE Inv'
  <2>1. d \in Devices /\ d.source \in Sources
    BY SelectorAssumption DEF Devices
  <2>2. QueueOK'
    BY <1>2, <2>1, ArriveOK DEF Announce, Inv
  <2> QED
    BY <1>2, <2>2 DEF Announce, Arrive, Inv, ControlOK, DevicesOK
<1>3. ASSUME NEW s \in Sources, Arrive(s, Junk) PROVE Inv'
  <2>1. QueueOK'
    BY <1>3, ArriveOK DEF Inv
  <2> QED
    BY <1>3, <2>1 DEF Arrive, Inv, ControlOK, DevicesOK
<1>4. ASSUME NEW r \in DOMAIN AfterSession, SessionEnds(r) PROVE Inv'
  <2>1. AfterSession[r] \in {"browse", "error", "wait"}
    BY DEF AfterSession
  <2> QED
    BY <1>4, <2>1
       DEF SessionEnds, Inv, QueueOK, ControlOK, DevicesOK, Locs, Sleeping
<1>5. ASSUME NEW here, Quit(here) PROVE Inv'
  BY <1>5 DEF Quit, Inv, QueueOK, ControlOK, DevicesOK, Locs
<1>6. CASE Tick
  BY <1>6, SoundAged DEF Tick, Inv, QueueOK, ControlOK, DevicesOK
<1>7. CASE Signal
  BY <1>7 DEF Signal, Inv, QueueOK, ControlOK, DevicesOK
<1>8. CASE UNCHANGED vars
  BY <1>8 DEF vars, Inv, QueueOK, ControlOK, DevicesOK
<1> QED
  BY <1>1, <1>2, <1>3, <1>4, <1>5, <1>6, <1>7, <1>8
     DEF Next, Environment, Terminated

(* Every variable keeps its type, and the registry fits its array. *)
THEOREM TypeCorrect == Spec => []TypeOK
<1>1. Inv => TypeOK
  BY InvType
<1> QED
  BY <1>1, InitInv, StepNext, PTL DEF Spec

(* The selection names an entry: whatever is announced, expires, is moved  *)
(* or remembered, the code that indexes the array with it stays inside.    *)
THEOREM SelectionCorrect == Spec => []SelectionInRange
<1>1. Inv => SelectionInRange
  BY InvType
<1> QED
  BY <1>1, InitInv, StepNext, PTL DEF Spec

-----------------------------------------------------------------------------
(***************************************************************************)
(* Where reconnection leads.  The device the user pressed OK on is the     *)
(* preferred one until OK is pressed again, and a session's device is the  *)
(* same device as that one.                                                *)
(***************************************************************************)
Chosen ==
    /\ chosen = manager.preferred
    /\ loc \in {"session", "refresh"} => SameDevice(chosen, target)

LEMMA PreferredKept ==
    ASSUME NEW m, Sound(m)
    PROVE  /\ \A d \in Devices : Seen(m, d).preferred = m.preferred
           /\ Aged(m).preferred = m.preferred
           /\ Pruned(m).preferred = m.preferred
           /\ Up(m).preferred = m.preferred
           /\ Down(m).preferred = m.preferred
<1>1. m \in Registries
  BY DEF Sound
<1>2. \A d : Seen(m, d).preferred = m.preferred
  BY <1>1 DEF Seen, Registries
<1>3. Aged(m).preferred = m.preferred
  BY <1>1 DEF Aged, Registries
<1>4. Pruned(m).preferred = m.preferred
  BY <1>1 DEF Pruned, Registries
<1>5. Up(m).preferred = m.preferred /\ Down(m).preferred = m.preferred
  BY <1>1 DEF Up, Down, Registries
<1> QED
  BY <1>2, <1>3, <1>4, <1>5

LEMMA ChosenInit == Init => Chosen
<1> SUFFICES ASSUME Init PROVE Chosen
  OBVIOUS
<1>1. \A h \in Hosts : AddManual(Empty, h).preferred = NoDevice
  BY DEF AddManual, Empty
<1>2. Empty.preferred = NoDevice
  BY DEF Empty
<1> QED
  BY <1>1, <1>2 DEF Init, Chosen

LEMMA ChosenNext == Inv /\ Chosen /\ [Next]_vars => Chosen'
<1> SUFFICES ASSUME Inv, Chosen, [Next]_vars PROVE Chosen'
  OBVIOUS
<1> DEFINE Quiet == /\ manager'.preferred = manager.preferred
                    /\ UNCHANGED chosen
                    /\ \/ loc' \notin {"session", "refresh"}
                       \/ /\ loc \in {"session", "refresh"}
                          /\ UNCHANGED target
<1>1. Quiet => Chosen'
  BY DEF Chosen
<1>2. Sound(manager)
  BY DEF Inv
<1>3. ASSUME NEW here \in {"browse", "wait", "error"}, Stop(here) \/ Quit(here)
      PROVE  Quiet
  BY <1>3 DEF Stop, Quit
<1>4. ASSUME NEW key, BrowsePoll(key) PROVE Quiet
  BY <1>4 DEF BrowsePoll
<1>5. ASSUME NEW s \in Sources, NEW here, here \notin {"session", "refresh"},
             BrowseSeen(s, here)
      PROVE  Quiet
  BY <1>2, <1>5, PreferredKept, Announced DEF BrowseSeen, Inv
<1>6. ASSUME NEW s, NEW here, NEW next, next \notin {"session", "refresh"},
             Drained(s, here, next)
      PROVE  Quiet
  BY <1>6 DEF Drained
<1>7. Sound(Pruned(manager)) /\ Pruned(manager).preferred = manager.preferred
  BY <1>2, SoundPruned, PreferredKept
<1>8. CASE BrowseAct
  BY <1>1, <1>7, <1>8, PreferredKept DEF BrowseAct, Turned
<1>9. CASE BrowseOk
  <2>1. HasSelection(Pruned(manager)) /\ Selected(Pruned(manager)) \in Devices
    BY <1>7, <1>9, SelectedDevice DEF BrowseOk
  <2>2. manager'.preferred = Selected(Pruned(manager))
    BY <1>7, <1>9, <2>1 DEF BrowseOk, Remembered, Sound, Registries
  <2>3. SameDevice(target', target')
    BY DEF SameDevice
  <2> QED
    BY <1>9, <2>2, <2>3 DEF BrowseOk, Chosen
<1>10. CASE BrowseBack
  BY <1>1, <1>7, <1>10 DEF BrowseBack
<1>11. CASE ErrorShown \/ WaitPoll \/ WaitBack \/ SessionStopped
  BY <1>1, <1>11 DEF ErrorShown, WaitPoll, WaitBack, SessionStopped
<1>12. ASSUME NEW s \in Sources, NEW here, here \notin {"session", "refresh"},
              WaitSeen(s, here)
       PROVE  Chosen'
  <2>1. Head(queue[s]) \in Devices
    BY <1>12, Announced DEF WaitSeen, Inv
  <2>2. manager'.preferred = manager.preferred
    BY <1>2, <1>12, <2>1, PreferredKept DEF WaitSeen
  <2>3. CASE Returned(manager', Head(queue[s]))
    <3>1. SameDevice(manager'.preferred, Head(queue[s]))
      BY <2>3 DEF Returned, MatchesPreferred
    <3> QED
      BY <1>12, <2>2, <2>3, <3>1 DEF WaitSeen, Chosen
  <2>4. CASE ~Returned(manager', Head(queue[s]))
    BY <1>1, <1>12, <2>2, <2>4 DEF WaitSeen
  <2> QED
    BY <2>3, <2>4
<1>13. CASE WaitPrune
  BY <1>1, <1>7, <1>13 DEF WaitPrune
<1>14. CASE Refresh
  <2>1. target \in Devices
    BY <1>14 DEF Refresh, Inv, DevicesOK
  <2>2. manager'.preferred = manager.preferred
    BY <1>2, <1>14, <2>1, PreferredKept DEF Refresh
  <2> QED
    BY <1>1, <1>14, <2>2 DEF Refresh
<1>15. ASSUME NEW s, NEW d, Arrive(s, d) PROVE Quiet
  BY <1>15 DEF Arrive
<1>16. ASSUME NEW r \in DOMAIN AfterSession, SessionEnds(r) PROVE Quiet
  BY <1>16 DEF SessionEnds, AfterSession
<1>17. CASE Tick
  BY <1>1, <1>2, <1>17, PreferredKept DEF Tick
<1>18. CASE Signal \/ UNCHANGED vars
  BY <1>1, <1>18 DEF Signal, vars
<1> HIDE DEF Quiet
<1>19. CASE Loop
  BY <1>1, <1>3, <1>4, <1>5, <1>6, <1>8, <1>9, <1>10, <1>11, <1>12, <1>13,
     <1>14, <1>19 DEF Loop, Turn, Sources
<1>20. CASE Environment
  BY <1>1, <1>3, <1>15, <1>16, <1>17, <1>18, <1>20
     DEF Environment, Announce
<1> QED
  BY <1>18, <1>19, <1>20 DEF Next, Terminated

(* Automatic reconnection stays with the backend and the serial of the     *)
(* device the user pressed OK on, for any movement of addresses.           *)
THEOREM ReconnectCorrect == Spec => []ReconnectsToChosen
<1>1. Chosen => ReconnectsToChosen
  BY DEF Chosen, ReconnectsToChosen, SameDevice
<1> QED
  BY <1>1, InitInv, StepNext, ChosenInit, ChosenNext, PTL DEF Spec

-----------------------------------------------------------------------------
(***************************************************************************)
(* What an operation of the registry leaves alone.                         *)
(***************************************************************************)

(* The kept entries close up in their order: prune copies every kept entry *)
(* once, moves none in front of another, and brings back none of those it  *)
(* dropped (the loop with the two indices in session_manager_prune).       *)
THEOREM PruneKeepsOrder ==
    ASSUME NEW m, Sound(m)
    PROVE  LET from == [k \in 1..Len(Pruned(m).devices) |-> Nth(Kept(m), k)]
           IN  /\ \A k \in DOMAIN from :
                     /\ from[k] \in Kept(m)
                     /\ Pruned(m).devices[k] = m.devices[from[k]]
               /\ \A k, l \in DOMAIN from : k < l => from[k] < from[l]
               /\ \A i \in Kept(m) : \E k \in DOMAIN from : from[k] = i
<1> DEFINE n == Cardinality(Kept(m))
           from == [k \in 1..Len(Pruned(m).devices) |-> Nth(Kept(m), k)]
<1>1. Len(m.devices) \in Nat /\ Kept(m) \in SUBSET (1..Len(m.devices))
  BY DEF Sound, Registries, Kept
<1>2. n \in Nat
  BY <1>1, PartFinite
<1>3. Pruned(m).devices = Compacted(m)
  BY DEF Pruned, Sound, Registries
<1>4. Len(Pruned(m).devices) = n
  <2>1. Compacted(m) = [k \in 1..n |-> m.devices[Nth(Kept(m), k)]]
    BY DEF Compacted
  <2> HIDE DEF n
  <2> QED
    BY <2>1, <1>2, <1>3
<1>5. \A k \in 1..n : from[k] = Nth(Kept(m), k)
  BY <1>4
<1>6. DOMAIN from = 1..n
  BY <1>4
<1>7. ASSUME NEW k \in 1..n
      PROVE  /\ Nth(Kept(m), k) \in Kept(m)
             /\ Pruned(m).devices[k] = m.devices[Nth(Kept(m), k)]
  <2>1. k \in Nat /\ 1 <= k /\ k <= n
    BY <1>2
  <2>2. Nth(Kept(m), k) \in Kept(m)
    BY <2>1, <1>1, NthExists
  <2> QED
    BY <2>2, <1>3 DEF Compacted
<1>8. ASSUME NEW k \in 1..n, NEW l \in 1..n, k < l
      PROVE  Nth(Kept(m), k) < Nth(Kept(m), l)
  BY <1>8, <1>1, NthOrder
<1>9. ASSUME NEW i \in Kept(m) PROVE \E k \in 1..n : Nth(Kept(m), k) = i
  BY <1>1, NthOnto
<1> HIDE DEF n, from
<1>10. \A k \in DOMAIN from : /\ from[k] \in Kept(m)
                              /\ Pruned(m).devices[k] = m.devices[from[k]]
  BY <1>5, <1>6, <1>7
<1>11. \A k, l \in DOMAIN from : k < l => from[k] < from[l]
  BY <1>5, <1>6, <1>8
<1>12. \A i \in Kept(m) : \E k \in DOMAIN from : from[k] = i
  BY <1>5, <1>6, <1>9
<1> QED
  BY <1>10, <1>11, <1>12, Zenon DEF from

LEMMA SameDeviceEquiv ==
    ASSUME NEW a \in Devices, NEW b \in Devices
    PROVE  SameDevice(a, a) /\ (SameDevice(a, b) => SameDevice(b, a))
BY DEF SameDevice

(* An announcement changes no entry but the first that matches it, which   *)
(* becomes the announced device. *)
LEMMA SeenSpares ==
    ASSUME NEW m, Sound(m), NEW d \in Devices, NEW i \in DOMAIN m.devices
    PROVE  LET r == Seen(m, d)
           IN  /\ i \in DOMAIN r.devices
               /\ \/ r.devices[i] = m.devices[i]
                  \/ r.devices[i].info = d /\ SameDevice(m.devices[i].info, d)
               /\ r.selected = m.selected
               /\ Len(r.devices) >= Len(m.devices)
<1> DEFINE e == [info |-> d, age |-> 0, manual |-> FALSE]
           r == Seen(m, d)
<1>1. m \in Registries /\ m.devices \in Seq(Entries)
      /\ Len(m.devices) \in Nat /\ i \in 1..Len(m.devices)
  BY DEF Sound, Registries
<1>2. e.info = d
  OBVIOUS
<1> HIDE DEF e
<1>3. CASE Matching(m, d) # {}
  <2> DEFINE j == First(Matching(m, d))
  <2>1. Matching(m, d) \in SUBSET Nat
    BY <1>1 DEF Matching
  <2>2. j \in 1..Len(m.devices) /\ SameDevice(m.devices[j].info, d)
    <3>1. j \in Matching(m, d)
      BY <1>3, <2>1, FirstIsLeast
    <3> QED
      BY <3>1, <1>1 DEF Matching
  <2> HIDE DEF j
  <2>3. r = [m EXCEPT !.devices[j] = e]
    BY <1>3 DEF Seen, e, j
  <2>4. r.devices = [m.devices EXCEPT ![j] = e] /\ r.selected = m.selected
    BY <1>1, <2>3 DEF Registries
  <2>5. DOMAIN r.devices = 1..Len(m.devices)
        /\ Len(r.devices) = Len(m.devices)
    BY <1>1, <2>4
  <2>6. r.devices[i] = IF i = j THEN e ELSE m.devices[i]
    BY <1>1, <2>2, <2>4
  <2> HIDE DEF r
  <2>7. Len(r.devices) >= Len(m.devices)
    BY <1>1, <2>5
  <2> QED
    BY <1>1, <1>2, <2>2, <2>4, <2>5, <2>6, <2>7 DEF r
<1>4. CASE Matching(m, d) = {} /\ Room(m)
  <2>1. r.devices = Append(m.devices, e) /\ r.selected = m.selected
    BY <1>1, <1>4 DEF Seen, e, Registries
  <2> HIDE DEF r
  <2>2. Len(r.devices) = Len(m.devices) + 1 /\ r.devices[i] = m.devices[i]
        /\ DOMAIN r.devices = 1..Len(m.devices) + 1
    BY <1>1, <2>1
  <2> QED
    BY <1>1, <2>1, <2>2 DEF r
<1>5. CASE Matching(m, d) = {} /\ ~Room(m)
  BY <1>1, <1>5 DEF Seen
<1> QED
  BY <1>3, <1>4, <1>5

(* The selected server is still the selected one. *)
Stays(m, r) == HasSelection(r) /\ SameDevice(Selected(m), Selected(r))

LEMMA StaysSelf ==
    ASSUME NEW m, Sound(m), HasSelection(m), NEW r,
           r.devices = m.devices, r.selected = m.selected
    PROVE  Stays(m, r)
<1>1. m.devices # <<>>
  BY DEF HasSelection, Sound, Registries
<1>2. Selected(m) \in Devices
  BY <1>1, SelectedDevice
<1> QED
  BY <1>2, SameDeviceEquiv DEF Stays, HasSelection, Selected

LEMMA SelectedIndex ==
    ASSUME NEW m, Sound(m), HasSelection(m)
    PROVE  /\ m.selected + 1 \in DOMAIN m.devices
           /\ m.devices[m.selected + 1] \in Entries
           /\ Selected(m) \in Devices
<1>1. m.devices \in Seq(Entries) /\ m.selected \in Nat
      /\ m.selected < Len(m.devices) /\ Len(m.devices) \in Nat
  BY DEF HasSelection, Sound, Registries
<1>2. m.selected + 1 \in 1..Len(m.devices)
  BY <1>1
<1>3. m.devices[m.selected + 1] \in Entries
  BY <1>1, <1>2
<1> QED
  BY <1>1, <1>2, <1>3 DEF Selected, Entries

LEMMA StaysSeen ==
    ASSUME NEW m, Sound(m), HasSelection(m), NEW d \in Devices
    PROVE  Stays(m, Seen(m, d))
<1> DEFINE r == Seen(m, d)
           i == m.selected + 1
<1>1. i \in DOMAIN m.devices /\ m.devices[i].info \in Devices
  BY SelectedIndex DEF Entries
<1>2. /\ \/ r.devices[i] = m.devices[i]
         \/ r.devices[i].info = d /\ SameDevice(m.devices[i].info, d)
      /\ r.selected = m.selected /\ Len(r.devices) >= Len(m.devices)
  BY <1>1, SeenSpares
<1>3. SameDevice(m.devices[i].info, r.devices[i].info)
  BY <1>1, <1>2, SameDeviceEquiv
<1>4. Sound(r)
  BY SoundSeen
<1>5. m.selected < Len(m.devices) /\ m.selected \in Nat
      /\ Len(m.devices) \in Nat /\ Len(r.devices) \in Nat
  BY <1>4 DEF HasSelection, Sound, Registries
<1> HIDE DEF r
<1>6. r.selected < Len(r.devices)
  BY <1>2, <1>5
<1> QED
  BY <1>2, <1>3, <1>6 DEF Stays, HasSelection, Selected, r

LEMMA StaysAged ==
    ASSUME NEW m, Sound(m), HasSelection(m)
    PROVE  Stays(m, Aged(m))
<1> DEFINE i == m.selected + 1
           n == Len(m.devices)
           f == [j \in DOMAIN m.devices |-> Older(m.devices[j])]
<1>1. i \in DOMAIN m.devices /\ m.devices[i] \in Entries
      /\ Selected(m) \in Devices
  BY SelectedIndex
<1>2. Aged(m).devices = f /\ Aged(m).selected = m.selected
  BY DEF Aged, Sound, Registries
<1>3. f[i].info = m.devices[i].info
  BY <1>1 DEF Older, Entries
<1>4. Len(f) = n
  <2>1. n \in Nat /\ DOMAIN f = 1..n
    BY DEF Sound, Registries
  <2> HIDE DEF f, n
  <2> QED
    BY <2>1
<1> HIDE DEF f
<1>5. HasSelection(Aged(m)) /\ Selected(Aged(m)) = Selected(m)
  BY <1>2, <1>3, <1>4 DEF HasSelection, Selected
<1> QED
  BY <1>1, <1>5, SameDeviceEquiv DEF Stays

(* Prune: the selected entry, if it is kept, is found again. *)
LEMMA StaysPruned ==
    ASSUME NEW m, Sound(m), HasSelection(m),
           Fresh(m.devices[m.selected + 1])
    PROVE  Stays(m, Pruned(m))
<1> DEFINE n == Cardinality(Kept(m))
           i == m.selected + 1
           rest == [m EXCEPT !.devices = Compacted(m)]
<1>1. i \in DOMAIN m.devices /\ Selected(m) = m.devices[i].info
      /\ Selected(m) \in Devices
  BY SelectedIndex DEF Selected
<1>2. i \in Kept(m)
  BY <1>1 DEF Kept, Fresh
<1>3. Len(m.devices) \in Nat /\ Kept(m) \in SUBSET (1..Len(m.devices))
      /\ m \in Registries
  BY DEF Sound, Registries, Kept
<1>4. n \in Nat
  BY <1>3, PartFinite
<1>5. PICK k \in 1..n : Nth(Kept(m), k) = i
  BY <1>2, <1>3, NthOnto
<1>6. rest.devices = Compacted(m) /\ DOMAIN rest.devices = 1..n
      /\ rest.devices[k].info = Selected(m)
  BY <1>1, <1>3, <1>5 DEF Compacted, Registries
<1>7. n # 0
  BY <1>4, <1>5
<1> HIDE DEF rest, n
<1>8. Found(rest, m) = {j \in 1..n : SameDevice(rest.devices[j].info, Selected(m))}
  BY <1>6 DEF Found, Matching
<1>9. k \in Found(rest, m)
  BY <1>1, <1>5, <1>6, <1>8, SameDeviceEquiv
<1> DEFINE j == First(Found(rest, m))
<1>10. j \in 1..n /\ SameDevice(rest.devices[j].info, Selected(m))
  <2>1. Found(rest, m) \in SUBSET Nat
    BY <1>4, <1>8
  <2>2. j \in Found(rest, m)
    BY <2>1, <1>9, FirstIsLeast
  <2> QED
    BY <2>2, <1>8
<1>11. Pruned(m).selected = j - 1 /\ Pruned(m).devices = rest.devices
  <2>1. Pruned(m) = [rest EXCEPT !.selected = j - 1]
    BY <1>7, <1>9 DEF Pruned, rest, n
  <2>2. DOMAIN rest = {"devices", "selected", "preferred"}
    BY <1>3 DEF rest, Registries
  <2> HIDE DEF j
  <2> QED
    BY <2>1, <2>2
<1> HIDE DEF j
<1>12. Len(rest.devices) = n
  BY <1>4, <1>6 DEF Compacted, n
<1>13. HasSelection(Pruned(m))
       /\ Selected(Pruned(m)) = rest.devices[j].info
  <2>1. j - 1 < n /\ (j - 1) + 1 = j
    BY <1>4, <1>10
  <2> QED
    BY <2>1, <1>11, <1>12 DEF HasSelection, Selected
<1>14. rest.devices[j].info \in Devices
  <2>1. Sound(Pruned(m))
    BY SoundPruned
  <2> QED
    BY <2>1, <1>13, SelectedIndex
<1> QED
  BY <1>1, <1>10, <1>13, <1>14, SameDeviceEquiv DEF Stays

-----------------------------------------------------------------------------
(* The three action properties.  A step that changes the registry or a     *)
(* queue takes a datagram, adds one, or is one of six others.              *)

Taken(s) ==
    /\ queue[s] # <<>> /\ Take(s)
    /\ \/ UNCHANGED manager
       \/ /\ Head(queue[s]) # Junk
          /\ manager' = Seen(manager, Head(queue[s]))

Came(s, d) ==
    /\ d = Junk \/ d.source = s
    /\ Arrive(s, d)

LEMMA StepKinds ==
    ASSUME [Next]_vars
    PROVE  \/ UNCHANGED <<manager, queue>>
           \/ \E s \in Sources : Taken(s)
           \/ \E s \in Sources : \E d \in Devices \cup {Junk} : Came(s, d)
           \/ BrowseAct \/ BrowseOk \/ BrowseBack \/ WaitPrune \/ Refresh
           \/ Tick
<1> DEFINE Kind == \/ UNCHANGED <<manager, queue>>
                   \/ \E s \in Sources : Taken(s)
                   \/ \E s \in Sources : \E d \in Devices \cup {Junk} :
                        Came(s, d)
<1>1. ASSUME NEW here, Stop(here) \/ Quit(here) PROVE Kind
  BY <1>1 DEF Stop, Quit
<1>2. ASSUME NEW key, BrowsePoll(key) PROVE Kind
  BY <1>2 DEF BrowsePoll
<1>3. ASSUME NEW s \in Sources, NEW here,
             BrowseSeen(s, here) \/ WaitSeen(s, here)
      PROVE  Kind
  <2>1. Taken(s)
    BY <1>3 DEF BrowseSeen, WaitSeen, Taken
  <2> QED
    BY <2>1
<1>4. ASSUME NEW s \in Sources, NEW here, NEW next, Drained(s, here, next)
      PROVE  Kind
  <2>1. UNCHANGED <<manager, queue>> \/ Taken(s)
    BY <1>4 DEF Drained, Taken
  <2> QED
    BY <2>1
<1>5. ASSUME ErrorShown \/ WaitPoll \/ WaitBack \/ SessionStopped \/ Signal
               \/ UNCHANGED vars
      PROVE  Kind
  BY <1>5 DEF ErrorShown, WaitPoll, WaitBack, SessionStopped, Signal, vars
<1>6. ASSUME NEW d \in Announcements, Announce(d) PROVE Kind
  <2>1. d \in Devices /\ d.source \in Sources
    BY SelectorAssumption DEF Devices
  <2>2. Came(d.source, d)
    BY <1>6 DEF Announce, Came
  <2> QED
    BY <2>1, <2>2
<1>7. ASSUME NEW s \in Sources, Arrive(s, Junk) PROVE Kind
  <2>1. Came(s, Junk)
    BY <1>7 DEF Came
  <2> QED
    BY <2>1
<1>8. ASSUME NEW r, SessionEnds(r) PROVE Kind
  BY <1>8 DEF SessionEnds
<1> HIDE DEF Kind
<1>9. \/ Kind \/ BrowseAct \/ BrowseOk \/ BrowseBack \/ WaitPrune \/ Refresh
      \/ Tick
  <2>1. CASE Loop
    <3>1. "sysdvr" \in Sources /\ "frametap" \in Sources
      BY DEF Sources
    <3> QED
      BY <1>1, <1>2, <1>3, <1>4, <1>5, <2>1, <3>1 DEF Loop, Turn
  <2>2. CASE Environment
    BY <1>1, <1>5, <1>6, <1>7, <1>8, <2>2 DEF Environment
  <2>3. CASE Terminated \/ UNCHANGED vars
    BY <1>5, <2>3 DEF Terminated
  <2> QED
    BY <2>1, <2>2, <2>3 DEF Next
<1> QED
  BY <1>9, Zenon DEF Kind

LEMMA StaysNext ==
    ASSUME Inv, [Next]_vars, HasSelection(manager),
           action \notin {"up", "down"},
           Fresh(manager.devices[manager.selected + 1])
    PROVE  Stays(manager, manager')
<1>1. Sound(manager) /\ Sound(Pruned(manager)) /\ QueueOK
  BY SoundPruned DEF Inv
<1>2. UNCHANGED manager => Stays(manager, manager')
  BY <1>1, StaysSelf
<1>3. Stays(manager, Pruned(manager))
  BY <1>1, StaysPruned
<1>4. ASSUME NEW s \in Sources, Taken(s) PROVE Stays(manager, manager')
  <2>1. CASE UNCHANGED manager
    BY <1>2, <2>1
  <2>2. CASE Head(queue[s]) # Junk /\ manager' = Seen(manager, Head(queue[s]))
    <3>1. Head(queue[s]) \in Devices
      BY <1>1, <1>4, <2>2, Announced DEF Taken
    <3> QED
      BY <1>1, <2>2, <3>1, StaysSeen
  <2> QED
    BY <1>4, <2>1, <2>2 DEF Taken
<1>5. ASSUME NEW s, NEW d, Came(s, d) PROVE Stays(manager, manager')
  BY <1>2, <1>5 DEF Came, Arrive
<1>6. CASE BrowseAct
  <2>1. manager' = Pruned(manager)
    BY <1>6 DEF BrowseAct, Turned
  <2> QED
    BY <1>3, <2>1
<1>7. CASE BrowseOk
  <2>1. /\ manager'.devices = Pruned(manager).devices
        /\ manager'.selected = Pruned(manager).selected
    BY <1>1, <1>7 DEF BrowseOk, Remembered, Sound, Registries
  <2> QED
    BY <1>3, <2>1 DEF Stays, HasSelection, Selected
<1>8. CASE BrowseBack \/ WaitPrune
  BY <1>3, <1>8 DEF BrowseBack, WaitPrune
<1>9. CASE Refresh
  BY <1>1, <1>9, StaysSeen DEF Refresh, Inv, DevicesOK
<1>10. CASE Tick
  BY <1>1, <1>10, StaysAged DEF Tick
<1> QED
  BY <1>2, <1>4, <1>5, <1>6, <1>7, <1>8, <1>9, <1>10, StepKinds

(* While nobody presses up or down, the selection stays with its server,   *)
(* whatever is announced and whatever expires, unless it expires itself.   *)
THEOREM SelectionKept == Spec => SelectionStays
<1>1. Inv /\ [Next]_vars
        => [HasSelection(manager) /\ action \notin {"up", "down"}
              /\ Fresh(manager.devices[manager.selected + 1])
            => /\ HasSelection(manager')
               /\ SameDevice(Selected(manager), Selected(manager'))]_vars
  BY StaysNext DEF Stays
<1> QED
  BY <1>1, InitInv, StepNext, PTL DEF Spec, SelectionStays

(* A datagram waits on the socket of the backend that sent it. *)
QueueOwn ==
    \A s \in Sources : \A i \in 1..Len(queue[s]) :
        queue[s][i] = Junk \/ queue[s][i].source = s

LEMMA OwnInit == Init => QueueOwn
BY DEF Init, QueueOwn

LEMMA OwnNext == Inv /\ QueueOwn /\ [Next]_vars => QueueOwn'
<1> SUFFICES ASSUME Inv, QueueOwn, [Next]_vars PROVE QueueOwn'
  OBVIOUS
<1>1. QueueOK
  BY DEF Inv
<1>2. CASE UNCHANGED queue
  BY <1>2 DEF QueueOwn
<1>3. ASSUME NEW s \in Sources, Taken(s) PROVE QueueOwn'
  <2>1. queue[s] \in Seq(Devices \cup {Junk}) /\ queue[s] # <<>>
    BY <1>1, <1>3 DEF QueueOK, Taken
  <2>2. Len(queue[s]) \in Nat /\ Len(Tail(queue[s])) = Len(queue[s]) - 1
        /\ \A i \in 1..Len(Tail(queue[s])) : Tail(queue[s])[i] = queue[s][i + 1]
    BY <2>1, HeadTailProperties
  <2>3. \A i \in 1..Len(Tail(queue[s])) : i + 1 \in 1..Len(queue[s])
    BY <2>2
  <2>4. \A t \in Sources : queue'[t] = IF t = s THEN Tail(queue[s]) ELSE queue[t]
    BY <1>1, <1>3 DEF Taken, Take, QueueOK
  <2>5. ASSUME NEW t \in Sources, NEW i \in 1..Len(queue'[t])
        PROVE  queue'[t][i] = Junk \/ queue'[t][i].source = t
    <3>1. CASE t = s
      <4>1. queue'[t] = Tail(queue[s])
        BY <2>4, <3>1
      <4>2. queue'[t][i] = queue[s][i + 1] /\ i + 1 \in 1..Len(queue[s])
        BY <2>2, <2>3, <2>5, <4>1
      <4> QED
        BY <3>1, <4>2 DEF QueueOwn
    <3>2. CASE t # s
      BY <2>4, <2>5, <3>2 DEF QueueOwn
    <3> QED
      BY <3>1, <3>2
  <2> QED
    BY <2>5 DEF QueueOwn
<1>4. ASSUME NEW s \in Sources, NEW d \in Devices \cup {Junk}, Came(s, d)
      PROVE  QueueOwn'
  <2>1. queue[s] \in Seq(Devices \cup {Junk}) /\ Len(queue[s]) \in Nat
    BY <1>1 DEF QueueOK
  <2>2. /\ Len(Append(queue[s], d)) = Len(queue[s]) + 1
        /\ \A i \in 1..Len(queue[s]) : Append(queue[s], d)[i] = queue[s][i]
        /\ Append(queue[s], d)[Len(queue[s]) + 1] = d
    BY <2>1, AppendProperties
  <2>3. \A i \in 1..Len(Append(queue[s], d)) :
           i \in 1..Len(queue[s]) \/ i = Len(queue[s]) + 1
    BY <2>1, <2>2
  <2>4. \A t \in Sources :
           queue'[t] = IF t = s THEN Append(queue[s], d) ELSE queue[t]
    BY <1>1, <1>4 DEF Came, Arrive, QueueOK
  <2>5. d = Junk \/ d.source = s
    BY <1>4 DEF Came
  <2>6. ASSUME NEW t \in Sources, NEW i \in 1..Len(queue'[t])
        PROVE  queue'[t][i] = Junk \/ queue'[t][i].source = t
    <3>1. CASE t = s /\ i \in 1..Len(queue[s])
      <4>1. queue'[t][i] = queue[s][i]
        BY <2>2, <2>4, <3>1
      <4> QED
        BY <3>1, <4>1 DEF QueueOwn
    <3>2. CASE t = s /\ i = Len(queue[s]) + 1
      BY <2>2, <2>4, <2>5, <3>2
    <3>3. CASE t # s
      BY <2>4, <2>6, <3>3 DEF QueueOwn
    <3> QED
      BY <2>3, <2>4, <2>6, <3>1, <3>2, <3>3
  <2> QED
    BY <2>6 DEF QueueOwn
<1>5. CASE BrowseAct \/ BrowseOk \/ BrowseBack \/ WaitPrune \/ Refresh \/ Tick
  BY <1>2, <1>5
     DEF BrowseAct, BrowseOk, BrowseBack, WaitPrune, Refresh, Tick
<1> QED
  BY <1>2, <1>3, <1>4, <1>5, StepKinds

LEMMA ApartNext ==
    ASSUME Inv, QueueOwn, [Next]_vars,
           NEW s \in Sources, Len(queue'[s]) < Len(queue[s]),
           NEW i \in DOMAIN manager.devices,
           manager.devices[i].info.source # s
    PROVE  manager'.devices[i] = manager.devices[i]
<1>1. QueueOK /\ Sound(manager)
  BY DEF Inv
<1>2. \A t \in Sources : queue[t] \in Seq(Devices \cup {Junk})
                         /\ Len(queue[t]) \in Nat
  BY <1>1 DEF QueueOK
<1>3. queue'[s] # queue[s]
  BY <1>2
<1>4. ASSUME NEW t \in Sources, NEW d \in Devices \cup {Junk}, Came(t, d)
      PROVE  FALSE
  <2>1. queue' = [queue EXCEPT ![t] = Append(queue[t], d)]
    BY <1>4 DEF Came, Arrive
  <2>2. queue'[s] = Append(queue[s], d)
    BY <1>1, <1>3, <2>1 DEF QueueOK
  <2>3. Len(queue'[s]) = Len(queue[s]) + 1
    BY <1>2, <2>2
  <2> QED
    BY <1>2, <2>3
<1>5. ASSUME NEW t \in Sources, Taken(t)
      PROVE  manager'.devices[i] = manager.devices[i]
  <2>1. t = s
    BY <1>1, <1>3, <1>5 DEF Taken, Take, QueueOK
  <2>2. CASE UNCHANGED manager
    BY <2>2
  <2>3. CASE Head(queue[s]) # Junk /\ manager' = Seen(manager, Head(queue[s]))
    <3>1. queue[s] # <<>>
      BY <1>5, <2>1 DEF Taken
    <3>2. Head(queue[s]) \in Devices
      BY <1>1, <2>3, <3>1, Announced
    <3>3. Head(queue[s]) = queue[s][1] /\ 1 \in 1..Len(queue[s])
      BY <1>2, <3>1, HeadTailProperties
    <3>4. Head(queue[s]).source = s
      BY <2>3, <3>3 DEF QueueOwn
    <3>5. ~ SameDevice(manager.devices[i].info, Head(queue[s]))
      BY <3>4 DEF SameDevice
    <3> QED
      BY <1>1, <2>3, <3>2, <3>5, SeenSpares
  <2> QED
    BY <1>5, <2>1, <2>2, <2>3 DEF Taken
<1>6. CASE BrowseAct \/ BrowseOk \/ BrowseBack \/ WaitPrune \/ Refresh \/ Tick
  BY <1>3, <1>6 DEF BrowseAct, BrowseOk, BrowseBack, WaitPrune, Refresh, Tick
<1> QED
  BY <1>3, <1>4, <1>5, <1>6, StepKinds

(* The two backends share a list and nothing else: taking a datagram from  *)
(* the socket of one leaves every entry of the other untouched.            *)
THEOREM BackendsKeptApart == Spec => BackendsApart
<1>1. Inv /\ QueueOwn /\ [Next]_vars
        => [\A s \in Sources : Len(queue'[s]) < Len(queue[s]) =>
              \A i \in DOMAIN manager.devices :
                 manager.devices[i].info.source # s =>
                     manager'.devices[i] = manager.devices[i]]_vars
  BY ApartNext
<1> QED
  BY <1>1, InitInv, StepNext, OwnInit, OwnNext, PTL DEF Spec, BackendsApart

-----------------------------------------------------------------------------
(***************************************************************************)
(* The clock.  The registry is modelled with ages, the code has readings   *)
(* of a clock that wraps.                                                  *)
(***************************************************************************)

LEMMA DivMod ==
    ASSUME NEW w \in Nat \ {0}, NEW t \in Nat
    PROVE  /\ t \div w \in Nat /\ t % w \in 0..w - 1
           /\ t = w * (t \div w) + (t % w)
OBVIOUS

(* Two moments less than a turn of the clock apart are in the same turn,   *)
(* or the later one is in the next turn and reads less.                    *)
LEMMA OneTurn ==
    ASSUME NEW w \in Nat \ {0}, NEW a \in Nat, NEW b \in Nat,
           NEW x \in 0..w - 1, NEW y \in 0..w - 1,
           w * a + x <= w * b + y, (w * b + y) - (w * a + x) < w
    PROVE  \/ b = a /\ x <= y
           \/ b = a + 1 /\ y < x
<1>1. CASE b < a
  <2>1. w * (b + 1) <= w * a
    BY <1>1
  <2> QED
    BY <2>1
<1>2. CASE b = a
  BY <1>2
<1>3. CASE b = a + 1
  BY <1>3
<1>4. CASE b > a + 1
  <2>1. w * (a + 2) <= w * b
    BY <1>4
  <2> QED
    BY <2>1
<1> QED
  BY <1>1, <1>2, <1>3, <1>4

(* An entry seen at time s and looked at less than a turn of the clock     *)
(* later, at time t, is kept by the code exactly if its age is within the  *)
(* limit, as in Kept, as long as the clock has not wrapped in between; if  *)
(* it has, the entry is kept however old it is, and no entry is ever lost  *)
(* early.  A manual entry, last seen at UINT64_MAX, is kept by the same    *)
(* test.  The waits that subtract unsigned readings are exact in any case. *)
THEOREM ClockAgesEntries ==
    ASSUME NEW wrap \in Nat \ {0}, NEW s \in Nat, NEW t \in Nat,
           s <= t, t - s < wrap
    PROVE  /\ s \div wrap = t \div wrap =>
                (KeptByClock(Ticks(t, wrap), Ticks(s, wrap))
                    <=> t - s <= StaleAge)
           /\ s \div wrap # t \div wrap =>
                KeptByClock(Ticks(t, wrap), Ticks(s, wrap))
           /\ t - s <= StaleAge =>
                KeptByClock(Ticks(t, wrap), Ticks(s, wrap))
           /\ \A seen \in Nat : seen >= wrap =>
                KeptByClock(Ticks(t, wrap), seen)
           /\ Since(Ticks(t, wrap), Ticks(s, wrap), wrap) = t - s
<1> DEFINE a == s \div wrap
           b == t \div wrap
           x == s % wrap
           y == t % wrap
<1>1. a \in Nat /\ x \in 0..wrap - 1 /\ s = wrap * a + x
  BY DivMod
<1>2. b \in Nat /\ y \in 0..wrap - 1 /\ t = wrap * b + y
  BY DivMod
<1>3. Ticks(s, wrap) = x /\ Ticks(t, wrap) = y
  BY DEF Ticks
<1>4. StaleAge \in Nat
  BY RegistryAssumption
<1> HIDE DEF a, b, x, y
<1>5. \/ b = a /\ x <= y
      \/ b = a + 1 /\ y < x
  BY <1>1, <1>2, OneTurn
<1>6. CASE b = a /\ x <= y
  <2>1. t - s = y - x
    BY <1>1, <1>2, <1>6
  <2>2. (y - x) % wrap = y - x
    BY <1>1, <1>2, <1>6
  <2>3. KeptByClock(y, x) <=> t - s <= StaleAge
    BY <1>1, <1>2, <1>4, <1>6, <2>1 DEF KeptByClock
  <2>4. \A seen \in Nat : seen >= wrap => KeptByClock(y, seen)
    BY <1>2 DEF KeptByClock
  <2> QED
    BY <1>3, <1>6, <2>1, <2>2, <2>3, <2>4 DEF Since, a, b
<1>7. CASE b = a + 1 /\ y < x
  <2>1. t - s = (y - x) + wrap
    BY <1>1, <1>2, <1>7
  <2>2. (y - x) % wrap = (y - x) + wrap
    BY <1>1, <1>2, <1>7
  <2>3. KeptByClock(y, x)
    BY <1>7 DEF KeptByClock
  <2>4. \A seen \in Nat : seen >= wrap => KeptByClock(y, seen)
    BY <1>2 DEF KeptByClock
  <2>5. a # b
    BY <1>1, <1>7
  <2> QED
    BY <1>3, <2>1, <2>2, <2>3, <2>4, <2>5 DEF Since, a, b
<1> QED
  BY <1>5, <1>6, <1>7

-----------------------------------------------------------------------------
(***************************************************************************)
(* How far the UI thread is from the exit once the stop flag is set: what  *)
(* StopExits says, without fairness.                                       *)
(***************************************************************************)

(* Where a turn is: how many locations are left of it, and then the exit.  *)
StepsLeft ==
    CASE loc = "exit"                                             -> 0
      [] loc \in {"browse", "wait", "error", "session", "refresh"} -> 1
      [] loc \in {"browse_act", "wait_prune"}                     -> 2
      [] loc \in {"browse_frametap", "wait_frametap"}             -> 3
      [] loc \in {"browse_sysdvr", "wait_sysdvr"}                 -> 4

Queued == Len(queue["sysdvr"]) + Len(queue["frametap"])

(* Once the stop flag is set, every step of the UI thread brings it nearer *)
(* to the exit, from whichever of the nested loops it is in, or takes a    *)
(* datagram of those that wait; no loop makes another turn, no session and *)
(* no wait is begun that goes on, and nothing but the thread's own step    *)
(* moves it or adds to what it still has to drain.                         *)
StopIsNear ==
    [][g_signal_stop =>
         \/ Loop /\ \/ StepsLeft' < StepsLeft
                    \/ loc' = loc /\ Queued' < Queued
         \/ ~Loop /\ loc' = loc /\ (loc \notin Sleeping => UNCHANGED queue)]_vars

LEMMA TakeShrinks ==
    ASSUME TypeOK, NEW s \in Sources, queue[s] # <<>>, Take(s)
    PROVE  Queued' < Queued
<1>1. /\ \A r \in Sources : queue[r] \in Seq(Devices \cup {Junk})
      /\ queue' = [queue EXCEPT ![s] = Tail(queue[s])]
      /\ DOMAIN queue = Sources
  BY DEF TypeOK, Take
<1>2. Len(Tail(queue[s])) < Len(queue[s]) /\ Len(Tail(queue[s])) \in Nat
  BY <1>1
<1>3. \A r \in Sources : Len(queue[r]) \in Nat
  BY <1>1
<1>4. /\ queue'[s] = Tail(queue[s])
      /\ \A r \in Sources \ {s} : queue'[r] = queue[r]
  BY <1>1
<1>5. CASE s = "sysdvr"
  <2>1. /\ Len(queue["sysdvr"]) \in Nat /\ Len(queue["frametap"]) \in Nat
        /\ queue'["sysdvr"] = Tail(queue["sysdvr"])
        /\ queue'["frametap"] = queue["frametap"]
    BY <1>3, <1>4, <1>5 DEF Sources
  <2>2. Len(queue'["sysdvr"]) < Len(queue["sysdvr"]) /\ Len(queue'["sysdvr"]) \in Nat
    BY <1>2, <1>5, <2>1
  <2>3. Len(queue'["frametap"]) = Len(queue["frametap"])
    BY <2>1
  <2>4. \A x, y, z \in Nat : x < y => x + z < y + z /\ z + x < z + y
    OBVIOUS
  <2>5. /\ Queued = Len(queue["sysdvr"]) + Len(queue["frametap"])
        /\ Queued' = Len(queue'["sysdvr"]) + Len(queue'["frametap"])
    BY Zenon DEF Queued
  <2> QED
    BY <2>1, <2>2, <2>3, <2>4, <2>5
<1>6. CASE s = "frametap"
  <2>1. /\ Len(queue["frametap"]) \in Nat /\ Len(queue["sysdvr"]) \in Nat
        /\ queue'["frametap"] = Tail(queue["frametap"])
        /\ queue'["sysdvr"] = queue["sysdvr"]
    BY <1>3, <1>4, <1>6 DEF Sources
  <2>2. Len(queue'["frametap"]) < Len(queue["frametap"]) /\ Len(queue'["frametap"]) \in Nat
    BY <1>2, <1>6, <2>1
  <2>3. Len(queue'["sysdvr"]) = Len(queue["sysdvr"])
    BY <2>1
  <2>4. \A x, y, z \in Nat : x < y => x + z < y + z /\ z + x < z + y
    OBVIOUS
  <2>5. /\ Queued = Len(queue["sysdvr"]) + Len(queue["frametap"])
        /\ Queued' = Len(queue'["sysdvr"]) + Len(queue'["frametap"])
    BY Zenon DEF Queued
  <2> QED
    BY <2>1, <2>2, <2>3, <2>4, <2>5
<1> QED
  BY <1>5, <1>6 DEF Sources

LEMMA LoopNearer ==
    ASSUME TypeOK, g_signal_stop, Loop
    PROVE  StepsLeft' < StepsLeft \/ (loc' = loc /\ Queued' < Queued)
<1> DEFINE Nearer == StepsLeft' < StepsLeft
                     \/ (loc' = loc /\ Queued' < Queued)
<1>1. ASSUME NEW here \in {"browse", "wait", "error"}, Stop(here)
      PROVE  Nearer
  BY <1>1 DEF Stop, StepsLeft
<1>2. ASSUME NEW s \in Sources, NEW here, BrowseSeen(s, here)
      PROVE  Nearer
  BY <1>2, TakeShrinks DEF BrowseSeen
<1>3. CASE \/ Drained("sysdvr", "browse_sysdvr", "browse_frametap")
           \/ Drained("frametap", "browse_frametap", "browse_act")
           \/ Drained("sysdvr", "wait_sysdvr", "wait_frametap")
           \/ Drained("frametap", "wait_frametap", "wait_prune")
  <2>1. \/ loc = "browse_sysdvr" /\ loc' = "browse_frametap"
        \/ loc = "browse_frametap" /\ loc' = "browse_act"
        \/ loc = "wait_sysdvr" /\ loc' = "wait_frametap"
        \/ loc = "wait_frametap" /\ loc' = "wait_prune"
    BY <1>3 DEF Drained
  <2> QED
    BY <2>1 DEF StepsLeft
<1>4. CASE BrowseAct \/ BrowseOk \/ BrowseBack
  <2>1. loc = "browse_act" /\ loc' \in {"browse", "session", "exit"}
    BY <1>4, Zenon DEF BrowseAct, BrowseOk, BrowseBack
  <2> QED
    BY <2>1 DEF StepsLeft
<1>5. ASSUME NEW s \in Sources, NEW here \in {"wait_sysdvr", "wait_frametap"},
             WaitSeen(s, here)
      PROVE  Nearer
  <2>1. Queued' < Queued
    BY <1>5, TakeShrinks DEF WaitSeen
  <2>2. loc = here /\ loc' \in {here, "session", "refresh"}
    BY <1>5 DEF WaitSeen
  <2> QED
    BY <1>5, <2>1, <2>2 DEF StepsLeft
<1>6. CASE WaitPrune \/ Refresh \/ SessionStopped
  <2>1. \/ loc = "wait_prune" /\ loc' = "wait"
        \/ loc \in {"refresh", "session"} /\ loc' = "exit"
    BY <1>6 DEF WaitPrune, Refresh, SessionStopped
  <2> QED
    BY <2>1 DEF StepsLeft
<1>7. ~ErrorShown /\ ~WaitPoll /\ ~WaitBack /\ \A key : ~BrowsePoll(key)
  BY DEF ErrorShown, WaitPoll, WaitBack, BrowsePoll
<1> QED
  BY <1>1, <1>2, <1>3, <1>4, <1>5, <1>6, <1>7 DEF Loop, Turn, Sources

(* What is not a step of the UI thread. *)
LEMMA OthersWait ==
    ASSUME g_signal_stop, [Next]_vars, ~Loop
    PROVE  loc' = loc /\ (loc \notin Sleeping => UNCHANGED queue)
<1>1. CASE UNCHANGED vars \/ Terminated
  BY <1>1 DEF Terminated, vars
<1>2. ASSUME NEW s, NEW d, Arrive(s, d)
      PROVE  loc' = loc /\ loc \in Sleeping
  BY <1>2 DEF Arrive
<1>3. CASE Tick
  BY <1>3 DEF Tick
<1>4. /\ ~Signal
      /\ \A result : ~SessionEnds(result)
      /\ \A here : ~Quit(here)
  BY DEF Signal, SessionEnds, Quit
<1> QED
  BY <1>1, <1>2, <1>3, <1>4 DEF Next, Environment, Announce

(* A stop request is at most a turn and the waiting datagrams away from    *)
(* the exit, from every screen.                                            *)
THEOREM StopIsNearCorrect == Spec => StopIsNear
<1>1. TypeOK /\ [Next]_vars
        => [g_signal_stop =>
              \/ Loop /\ \/ StepsLeft' < StepsLeft
                         \/ loc' = loc /\ Queued' < Queued
              \/ ~Loop /\ loc' = loc
                       /\ (loc \notin Sleeping => UNCHANGED queue)]_vars
  BY LoopNearer, OthersWait
<1> QED
  BY <1>1, TypeCorrect, PTL DEF Spec, StopIsNear
=============================================================================

------------------------------ MODULE DataProofs ------------------------------
(***************************************************************************)
(* Facts about finite sums, sequences and hashes that other proofs need.   *)
(* Those about sums go by induction, stated for a set of numbers instead of*)
(* a predicate: a set that holds 0 and, with every n, n + 1 holds every    *)
(* number.                                                                 *)
(***************************************************************************)
EXTENDS MerkleHash, SequencesExt, FiniteSetsExt, FiniteSetTheorems, SequenceTheorems, TLAPS

(* Induction over the natural numbers: otherwise there were a least number *)
(* outside S, and the one before it were in S.                             *)
LEMMA NatSetInduction ==
    ASSUME NEW S, 0 \in S, \A n \in Nat : n \in S => n + 1 \in S
    PROVE  Nat \subseteq S
<1>1. SUFFICES ASSUME Nat \ S # {}
               PROVE  FALSE
  OBVIOUS
<1>2. PICK n \in Nat \ S : \A m \in Nat \ S : ~(<<m, n>> \in OpToRel(<, Nat))
  BY <1>1, NatLessThanWellFounded, WFMin
<1>3. n - 1 \in Nat /\ n - 1 < n /\ (n - 1) + 1 = n
  <2>1. n \in Nat /\ n # 0
    OBVIOUS
  <2>2. QED
    BY <2>1, SMT
<1>4. n - 1 \in S
  BY <1>2, <1>3 DEF OpToRel
<1>5. QED
  BY <1>2, <1>3, <1>4

--------------------------------------------------------------------------------
(* Sums over finite sets *)

\* The element that the fold of the community modules takes first.
Some(T) == CHOOSE x \in T : TRUE

\* f is the running sum of g over the subsets of S.
IsSum(f, g, S) ==
    f = [T \in SUBSET S |-> IF T = {} THEN 0 ELSE g[Some(T)] + f[T \ {Some(T)}]]

(* The recursive function that the fold is defined by exists: it is built  *)
(* for the sets of at most n elements, for every n.                        *)
LEMMA SumExists ==
    ASSUME NEW S, IsFiniteSet(S), NEW g \in [S -> Nat]
    PROVE  \E f \in [SUBSET S -> Nat] : IsSum(f, g, S)
<1> DEFINE Eq(f, T) == f[T] = IF T = {} THEN 0 ELSE g[Some(T)] + f[T \ {Some(T)}]
           Upto == {n \in Nat : \E f \in [SUBSET S -> Nat] :
                       \A T \in SUBSET S : Cardinality(T) <= n => Eq(f, T)}
<1>0. \A T \in SUBSET S : IsFiniteSet(T) /\ Cardinality(T) \in Nat
  BY FS_Subset, FS_CardinalityType
<1>1. 0 \in Upto
  <2> DEFINE f == [T \in SUBSET S |-> 0]
  <2>1. ASSUME NEW T \in SUBSET S, Cardinality(T) <= 0
        PROVE  Eq(f, T)
    <3>1. T = {}
      BY <1>0, <2>1, FS_EmptySet
    <3>2. QED
      BY <3>1
  <2>2. f \in [SUBSET S -> Nat]
    OBVIOUS
  <2> HIDE DEF f, Eq
  <2>3. QED
    BY <2>1, <2>2
<1>2. ASSUME NEW n \in Nat, n \in Upto
      PROVE  n + 1 \in Upto
  <2>1. PICK f \in [SUBSET S -> Nat] :
            \A T \in SUBSET S : Cardinality(T) <= n => Eq(f, T)
    BY <1>2
  <2> DEFINE h == [T \in SUBSET S |->
                     IF Cardinality(T) = n + 1 THEN g[Some(T)] + f[T \ {Some(T)}]
                     ELSE f[T]]
  <2>2. ASSUME NEW T \in SUBSET S, T # {}
        PROVE  /\ Some(T) \in T /\ T \ {Some(T)} \in SUBSET S
               /\ Cardinality(T \ {Some(T)}) = Cardinality(T) - 1
    <3>1. Some(T) \in T
      BY <2>2 DEF Some
    <3>2. QED
      BY <3>1, <1>0, FS_RemoveElement
  <2>3. ASSUME NEW T \in SUBSET S, Cardinality(T) = n + 1
        PROVE  T # {}
    <3>1. n + 1 # 0
      BY SMT
    <3>2. QED
      BY <2>3, <3>1, FS_EmptySet
  <2>4. h \in [SUBSET S -> Nat]
    <3> SUFFICES ASSUME NEW T \in SUBSET S, Cardinality(T) = n + 1
                 PROVE  g[Some(T)] + f[T \ {Some(T)}] \in Nat
      OBVIOUS
    <3>1. g[Some(T)] \in Nat /\ f[T \ {Some(T)}] \in Nat
      BY <2>2, <2>3
    <3>2. QED
      BY <3>1, SMT
  <2>5. ASSUME NEW T \in SUBSET S, Cardinality(T) <= n + 1
        PROVE  Eq(h, T)
    <3>1. CASE T = {}
      <4>1. Cardinality(T) = 0 /\ h[T] = f[T]
        BY <3>1, FS_EmptySet, SMT
      <4>2. QED
        BY <3>1, <4>1, <2>1, SMT
    <3>2. CASE T # {}
      <4> DEFINE U == T \ {Some(T)}
      <4>1. U \in SUBSET S /\ Cardinality(U) = Cardinality(T) - 1
        BY <2>2, <3>2
      <4> HIDE DEF U
      <4>2. h[U] = f[U]
        BY <1>0, <2>5, <4>1, SMT
      <4>3. h[T] = g[Some(T)] + f[U]
        <5>1. CASE Cardinality(T) = n + 1
          BY <5>1 DEF U
        <5>2. CASE Cardinality(T) # n + 1
          <6>1. Cardinality(T) <= n /\ h[T] = f[T]
            BY <1>0, <2>5, <5>2, SMT
          <6>2. QED
            BY <6>1, <2>1, <3>2 DEF U
        <5>3. QED
          BY <5>1, <5>2
      <4>4. QED
        BY <3>2, <4>2, <4>3 DEF U
    <3>3. QED
      BY <3>1, <3>2
  <2> HIDE DEF h, Eq
  <2>6. QED
    BY <2>4, <2>5, SMT
<1>3. Nat \subseteq Upto
  <2> HIDE DEF Upto
  <2>1. QED
    BY <1>1, <1>2, NatSetInduction
<1>4. Cardinality(S) \in Upto
  BY <1>0, <1>3
<1>5. PICK f \in [SUBSET S -> Nat] :
            \A T \in SUBSET S : Cardinality(T) <= Cardinality(S) => Eq(f, T)
  BY <1>4
<1>6. \A T \in SUBSET S : Eq(f, T)
  BY <1>5, FS_Subset
<1>7. IsSum(f, g, S)
  BY <1>6 DEF IsSum
<1>8. QED
  BY <1>7

\* The sum of g over S, as a fold of the community modules.
SumOf(g, S) == MapThenSumSet(LAMBDA x : g[x], S)

(* The fold applies the function its definition recurses over.             *)
LEMMA SumOfIsSum ==
    ASSUME NEW S, NEW g
    PROVE  SumOf(g, S) = (CHOOSE f : IsSum(f, g, S))[S]
  BY DEF SumOf, MapThenSumSet, MapThenFoldSet, IsSum, Some

(* There is only one such function.                                        *)
LEMMA SumUnique ==
    ASSUME NEW S, IsFiniteSet(S), NEW g, NEW f, IsSum(f, g, S), NEW h, IsSum(h, g, S)
    PROVE  f = h
<1> DEFINE Upto == {n \in Nat : \A T \in SUBSET S : Cardinality(T) <= n => f[T] = h[T]}
<1>1. \A T \in SUBSET S : IsFiniteSet(T) /\ Cardinality(T) \in Nat
  BY FS_Subset, FS_CardinalityType
<1>2. \A T \in SUBSET S : /\ f[T] = IF T = {} THEN 0 ELSE g[Some(T)] + f[T \ {Some(T)}]
                          /\ h[T] = IF T = {} THEN 0 ELSE g[Some(T)] + h[T \ {Some(T)}]
  BY DEF IsSum
<1>3. 0 \in Upto
  <2>1. ASSUME NEW T \in SUBSET S, Cardinality(T) <= 0
        PROVE  T = {}
    BY <1>1, <2>1, FS_EmptySet
  <2>2. QED
    BY <1>2, <2>1
<1>4. ASSUME NEW n \in Nat, n \in Upto
      PROVE  n + 1 \in Upto
  <2>1. ASSUME NEW T \in SUBSET S, Cardinality(T) <= n + 1, T # {}
        PROVE  f[T] = h[T]
    <3> DEFINE U == T \ {Some(T)}
    <3>1. Some(T) \in T
      BY <2>1 DEF Some
    <3>2. U \in SUBSET S /\ Cardinality(U) = Cardinality(T) - 1
      BY <1>1, <3>1, FS_RemoveElement
    <3>3. Cardinality(U) <= n
      <4> HIDE DEF U
      <4>1. QED
        BY <1>1, <2>1, <3>2, SMT
    <3>4. f[U] = h[U]
      BY <1>4, <3>2, <3>3
    <3>5. QED
      BY <1>2, <2>1, <3>4
  <2>2. f[{}] = h[{}]
    BY <1>2
  <2>3. \A T \in SUBSET S : Cardinality(T) <= n + 1 => f[T] = h[T]
    BY <2>1, <2>2
  <2>4. QED
    BY <2>3
<1>5. Nat \subseteq Upto
  <2> HIDE DEF Upto
  <2>1. QED
    BY <1>3, <1>4, NatSetInduction
<1>6. \A T \in SUBSET S : f[T] = h[T]
  BY <1>1, <1>5
<1>7. f = [T \in SUBSET S |-> f[T]] /\ h = [T \in SUBSET S |-> h[T]]
  BY DEF IsSum
<1>8. QED
  BY <1>6, <1>7

(* The running sum over S gives the sum over each of its subsets.          *)
LEMMA SumOfSubset ==
    ASSUME NEW S, IsFiniteSet(S), NEW g, NEW f, IsSum(f, g, S), NEW T \in SUBSET S
    PROVE  SumOf(g, T) = f[T]
<1> DEFINE h == [U \in SUBSET T |-> f[U]]
<1>1. h = [U \in SUBSET T |-> IF U = {} THEN 0 ELSE g[Some(U)] + h[U \ {Some(U)}]]
  BY DEF IsSum
<1>2. IsSum(h, g, T) /\ IsFiniteSet(T)
  BY <1>1, FS_Subset DEF IsSum
<1> HIDE DEF h
<1>3. IsSum(CHOOSE k : IsSum(k, g, T), g, T)
  BY <1>2
<1>4. (CHOOSE k : IsSum(k, g, T)) = h
  BY <1>2, <1>3, SumUnique
<1>5. QED
  BY <1>4, SumOfIsSum DEF h

(* The equation of the fold, for every subset of a finite set.             *)
LEMMA SumStep ==
    ASSUME NEW S, IsFiniteSet(S), NEW g \in [S -> Nat], NEW T \in SUBSET S
    PROVE  /\ SumOf(g, T) \in Nat
           /\ SumOf(g, T) = IF T = {} THEN 0 ELSE g[Some(T)] + SumOf(g, T \ {Some(T)})
<1>1. PICK f \in [SUBSET S -> Nat] : IsSum(f, g, S)
  BY SumExists
<1>2. SumOf(g, T) = f[T] /\ SumOf(g, T \ {Some(T)}) = f[T \ {Some(T)}]
  BY <1>1, SumOfSubset
<1>3. QED
  BY <1>1, <1>2 DEF IsSum

(* Any element of a set can be taken out of the sum over it.               *)
LEMMA SumRemove ==
    ASSUME NEW S, IsFiniteSet(S), NEW g \in [S -> Nat], NEW T \in SUBSET S, NEW x \in T
    PROVE  SumOf(g, T) = g[x] + SumOf(g, T \ {x})
<1> DEFINE Upto == {n \in Nat : \A U \in SUBSET S : \A y \in U :
                       Cardinality(U) <= n => SumOf(g, U) = g[y] + SumOf(g, U \ {y})}
<1>1. \A U \in SUBSET S : /\ IsFiniteSet(U) /\ Cardinality(U) \in Nat
                          /\ Cardinality(U) = 0 => U = {}
                          /\ SumOf(g, U) \in Nat
                          /\ \A y \in U : Cardinality(U \ {y}) = Cardinality(U) - 1
  BY FS_Subset, FS_CardinalityType, FS_EmptySet, FS_RemoveElement, SumStep
<1>2. 0 \in Upto
  BY <1>1
<1>3. ASSUME NEW n \in Nat, n \in Upto
      PROVE  n + 1 \in Upto
  <2>1. ASSUME NEW U \in SUBSET S, NEW y \in U, Cardinality(U) <= n + 1
        PROVE  SumOf(g, U) = g[y] + SumOf(g, U \ {y})
    <3>1. CASE y = Some(U)
      BY <3>1, SumStep
    <3>2. CASE y # Some(U)
      <4> DEFINE z == Some(U)
                 Rest == (U \ {z}) \ {y}
      <4>1. z \in U
        BY DEF Some
      <4>2. /\ SumOf(g, U) = g[z] + SumOf(g, U \ {z})
            /\ U \ {z} \in SUBSET S /\ U \ {y} \in SUBSET S
            /\ y \in U \ {z} /\ z \in U \ {y}
            /\ Rest = (U \ {y}) \ {z} /\ Rest \in SUBSET S
        BY <3>2, <4>1, SumStep
      <4> HIDE DEF z, Rest
      <4>3. Cardinality(U \ {z}) <= n /\ Cardinality(U \ {y}) <= n
        BY <1>1, <2>1, <4>1, SMT
      <4>4. SumOf(g, U \ {z}) = g[y] + SumOf(g, Rest)
        BY <1>3, <4>2, <4>3 DEF Rest
      <4>5. SumOf(g, U \ {y}) = g[z] + SumOf(g, Rest)
        BY <1>3, <4>2, <4>3
      <4>6. g[y] \in Nat /\ g[z] \in Nat /\ SumOf(g, Rest) \in Nat
        BY <1>1, <4>1, <4>2
      <4>7. QED
        BY <4>2, <4>4, <4>5, <4>6, SMT
    <3>3. QED
      BY <3>1, <3>2
  <2>2. QED
    BY <2>1
<1>4. Nat \subseteq Upto
  <2> HIDE DEF Upto
  <2>1. QED
    BY <1>2, <1>3, NatSetInduction
<1>5. QED
  BY <1>1, <1>4

(* A sum depends only on the values at the elements of the set.            *)
LEMMA SumSame ==
    ASSUME NEW S, IsFiniteSet(S), NEW g \in [S -> Nat], NEW h \in [S -> Nat],
           NEW T \in SUBSET S, \A x \in T : g[x] = h[x]
    PROVE  SumOf(g, T) = SumOf(h, T)
<1>1. PICK f \in [SUBSET S -> Nat] : IsSum(f, g, S)
  BY SumExists
<1> DEFINE k == [U \in SUBSET T |-> f[U]]
<1>2. k = [U \in SUBSET T |-> IF U = {} THEN 0 ELSE h[Some(U)] + k[U \ {Some(U)}]]
  <2>1. ASSUME NEW U \in SUBSET T, U # {}
        PROVE  h[Some(U)] = g[Some(U)]
    BY <2>1 DEF Some
  <2>2. QED
    BY <1>1, <2>1 DEF IsSum
<1>3. IsSum(k, h, T) /\ IsFiniteSet(T)
  BY <1>2, FS_Subset DEF IsSum
<1> HIDE DEF k
<1>4. SumOf(h, T) = k[T]
  BY <1>3, SumOfSubset
<1>5. SumOf(g, T) = f[T]
  BY <1>1, SumOfSubset
<1>6. QED
  BY <1>4, <1>5 DEF k

(* Changing the value at one element changes the sum by the difference.    *)
LEMMA SumChange ==
    ASSUME NEW S, IsFiniteSet(S), NEW g \in [S -> Nat], NEW h \in [S -> Nat],
           NEW x \in S, \A y \in S \ {x} : g[y] = h[y]
    PROVE  /\ SumOf(g, S) \in Nat /\ SumOf(h, S) \in Nat
           /\ SumOf(h, S) + g[x] = SumOf(g, S) + h[x]
<1>1. SumOf(g, S \ {x}) = SumOf(h, S \ {x})
  BY SumSame
<1>2. /\ SumOf(g, S) = g[x] + SumOf(g, S \ {x}) /\ SumOf(h, S) = h[x] + SumOf(h, S \ {x})
      /\ SumOf(g, S \ {x}) \in Nat /\ SumOf(h, S \ {x}) \in Nat
      /\ SumOf(g, S) \in Nat /\ SumOf(h, S) \in Nat
  <2>1. S \in SUBSET S /\ S \ {x} \in SUBSET S
    OBVIOUS
  <2>2. SumOf(g, S) = g[x] + SumOf(g, S \ {x}) /\ SumOf(h, S) = h[x] + SumOf(h, S \ {x})
    BY <2>1, SumRemove
  <2>3. \A T \in SUBSET S : SumOf(g, T) \in Nat /\ SumOf(h, T) \in Nat
    BY SumStep
  <2>4. QED
    BY <2>1, <2>2, <2>3
<1>3. g[x] \in Nat /\ h[x] \in Nat
  OBVIOUS
<1>4. QED
  BY <1>1, <1>2, <1>3, SMT

LEMMA SumOfZeros ==
    ASSUME NEW S, IsFiniteSet(S), NEW g \in [S -> Nat], \A x \in S : g[x] = 0
    PROVE  SumOf(g, S) = 0
<1>1. \A T \in SUBSET S : SumOf(g, T) \in Nat
  BY SumStep
<1> DEFINE f == [T \in SUBSET S |-> 0]
<1>2. f = [T \in SUBSET S |-> IF T = {} THEN 0 ELSE g[Some(T)] + f[T \ {Some(T)}]]
  <2>1. ASSUME NEW T \in SUBSET S, T # {}
        PROVE  g[Some(T)] = 0
    BY <2>1 DEF Some
  <2>2. QED
    BY <2>1
<1>3. IsSum(f, g, S)
  BY <1>2 DEF IsSum
<1>4. SumOf(g, S) = f[S]
  BY <1>3, SumOfSubset
<1>5. QED
  BY <1>4

(* Induction over the subsets of a finite set: P holds the empty set, and  *)
(* every set that it holds without one of its elements.                    *)
LEMMA SubsetInduction ==
    ASSUME NEW S, IsFiniteSet(S), NEW P, {} \in P,
           \A T \in SUBSET S : \A x \in T : T \ {x} \in P => T \in P
    PROVE  SUBSET S \subseteq P
<1> DEFINE Upto == {n \in Nat : \A T \in SUBSET S : Cardinality(T) <= n => T \in P}
<1>1. \A T \in SUBSET S : /\ Cardinality(T) \in Nat
                          /\ Cardinality(T) = 0 => T = {}
                          /\ \A x \in T : Cardinality(T \ {x}) = Cardinality(T) - 1
  BY FS_Subset, FS_CardinalityType, FS_EmptySet, FS_RemoveElement
<1>2. 0 \in Upto
  BY <1>1
<1>3. ASSUME NEW n \in Nat, n \in Upto
      PROVE  n + 1 \in Upto
  <2>1. ASSUME NEW T \in SUBSET S, Cardinality(T) <= n + 1
        PROVE  T \in P
    <3>1. ASSUME NEW x \in T
          PROVE  T \ {x} \in SUBSET S /\ Cardinality(T \ {x}) <= n
      BY <1>1, <2>1
    <3>2. QED
      BY <1>3, <3>1
  <2>2. QED
    BY <2>1
<1>4. Nat \subseteq Upto
  <2> HIDE DEF Upto
  <2>1. QED
    BY <1>2, <1>3, NatSetInduction
<1>5. QED
  BY <1>1, <1>4

(* Taking fewer elements never makes a sum larger.                         *)
LEMMA SumMonotone ==
    ASSUME NEW S, IsFiniteSet(S), NEW g \in [S -> Nat], NEW T \in SUBSET S
    PROVE  SumOf(g, T) <= SumOf(g, S)
<1> DEFINE P == {U \in SUBSET S : SumOf(g, U \cap T) <= SumOf(g, U)}
<1>1. \A U \in SUBSET S : SumOf(g, U) \in Nat /\ SumOf(g, U \cap T) \in Nat
  BY SumStep
<1>2. {} \in P
  <2>1. {} \cap T = {} /\ {} \in SUBSET S
    OBVIOUS
  <2>2. SumOf(g, {}) <= SumOf(g, {})
    BY <1>1, <2>1, SMT
  <2>3. QED
    BY <2>1, <2>2
<1>3. ASSUME NEW U \in SUBSET S, NEW x \in U, U \ {x} \in P
      PROVE  U \in P
  <2> DEFINE V == U \ {x}
  <2>1. SumOf(g, U) = g[x] + SumOf(g, V) /\ g[x] \in Nat
    BY SumRemove
  <2>2. V \in SUBSET S /\ SumOf(g, V \cap T) <= SumOf(g, V)
    BY <1>3
  <2>3. CASE x \in T
    <3>1. (U \cap T) \ {x} = V \cap T /\ U \cap T \in SUBSET S /\ x \in U \cap T
      BY <2>3
    <3>2. SumOf(g, U \cap T) = g[x] + SumOf(g, V \cap T)
      BY <3>1, SumRemove
    <3> HIDE DEF V, P
    <3>3. SumOf(g, U \cap T) <= SumOf(g, U)
      BY <1>1, <2>1, <2>2, <3>2, SMT
    <3>4. QED
      BY <3>3 DEF P
  <2>4. CASE x \notin T
    <3>1. U \cap T = V \cap T
      BY <2>4
    <3> HIDE DEF V, P
    <3>2. SumOf(g, U \cap T) <= SumOf(g, U)
      BY <1>1, <2>1, <2>2, <3>1, SMT
    <3>3. QED
      BY <3>2 DEF P
  <2>5. QED
    BY <2>3, <2>4
<1>4. S \in P
  <2> HIDE DEF P
  <2>1. QED
    BY <1>2, <1>3, SubsetInduction
<1>5. S \cap T = T
  OBVIOUS
<1>6. QED
  BY <1>4, <1>5

(* If f gives each x in D a place of its own in L that is worth at least   *)
(* g[x], the sum of g is at most the worth of L.                           *)
LEMMA SumInjects ==
    ASSUME NEW S, IsFiniteSet(S), NEW L, IsFiniteSet(L),
           NEW g \in [S -> Nat], NEW w \in [L -> Nat],
           NEW D \in SUBSET S, NEW f \in [D -> L],
           \A x, y \in D : f[x] = f[y] => x = y,
           \A x \in D : g[x] <= w[f[x]],
           \A x \in S \ D : g[x] = 0
    PROVE  SumOf(g, S) <= SumOf(w, L)
<1> DEFINE Places(T) == {f[x] : x \in T \cap D}
           P == {T \in SUBSET S : SumOf(g, T) <= SumOf(w, Places(T))}
<1>1. \A T \in SUBSET S : /\ SumOf(g, T) \in Nat
                          /\ Places(T) \in SUBSET L
  <2>1. \A T \in SUBSET S : SumOf(g, T) \in Nat
    BY SumStep
  <2>2. QED
    BY <2>1
<1>2. \A M \in SUBSET L : SumOf(w, M) \in Nat
  BY SumStep
<1>3. {} \in P
  <2>1. Places({}) = {} /\ {} \in SUBSET S /\ {} \in SUBSET L
    OBVIOUS
  <2>2. SumOf(g, {}) = 0
    BY <2>1, SumStep
  <2>3. SumOf(g, {}) <= SumOf(w, {})
    BY <1>2, <2>1, <2>2, SMT
  <2>4. QED
    BY <2>1, <2>3
<1>4. ASSUME NEW T \in SUBSET S, NEW x \in T, T \ {x} \in P
      PROVE  T \in P
  <2> DEFINE U == T \ {x}
  <2>1. SumOf(g, T) = g[x] + SumOf(g, U) /\ g[x] \in Nat
    BY SumRemove
  <2>2. U \in SUBSET S /\ SumOf(g, U) <= SumOf(w, Places(U))
    BY <1>4
  <2>3. CASE x \in D
    <3>1. /\ f[x] \in Places(T) /\ Places(T) \ {f[x]} = Places(U)
          /\ f[x] \in L /\ g[x] <= w[f[x]]
      BY <2>3
    <3>2. SumOf(w, Places(T)) = w[f[x]] + SumOf(w, Places(U))
      BY <1>1, <3>1, SumRemove
    <3>3. w[f[x]] \in Nat
      BY <3>1
    <3>4. SumOf(w, Places(U)) \in Nat /\ SumOf(g, U) \in Nat
      BY <1>1, <1>2, <2>2
    <3> HIDE DEF U, P, Places
    <3>5. SumOf(g, T) <= SumOf(w, Places(T))
      BY <2>1, <2>2, <3>1, <3>2, <3>3, <3>4, SMT
    <3>6. QED
      BY <3>5 DEF P
  <2>4. CASE x \notin D
    <3>1. Places(T) = Places(U) /\ g[x] = 0
      BY <2>4
    <3>2. SumOf(w, Places(U)) \in Nat /\ SumOf(g, U) \in Nat
      BY <1>1, <1>2, <2>2
    <3> HIDE DEF U, P, Places
    <3>3. SumOf(g, T) <= SumOf(w, Places(T))
      BY <2>1, <2>2, <3>1, <3>2, SMT
    <3>4. QED
      BY <3>3 DEF P
  <2>5. QED
    BY <2>3, <2>4
<1>5. S \in P
  <2> HIDE DEF P
  <2>1. QED
    BY <1>3, <1>4, SubsetInduction
<1>6. SumOf(w, Places(S)) <= SumOf(w, L)
  BY <1>1, SumMonotone
<1>7. SumOf(g, S) \in Nat /\ SumOf(w, Places(S)) \in Nat /\ SumOf(w, L) \in Nat
  <2>1. S \in SUBSET S /\ L \in SUBSET L
    OBVIOUS
  <2>2. QED
    BY <1>1, <1>2, <2>1
<1>8. SumOf(g, S) <= SumOf(w, Places(S))
  BY <1>5
<1>9. QED
  BY <1>6, <1>7, <1>8, SMT

LEMMA SumOfSingle ==
    ASSUME NEW S, IsFiniteSet(S), NEW g \in [S -> Nat], NEW x \in S
    PROVE  SumOf(g, {x}) = g[x]
<1>1. SumOf(g, {x}) = g[x] + SumOf(g, {x} \ {x})
  BY SumRemove
<1>2. SumOf(g, {x} \ {x}) = 0
  BY SumStep
<1>3. QED
  BY <1>1, <1>2

(* The same values at other places have the same sum.                      *)
LEMMA SumReindexed ==
    ASSUME NEW S, IsFiniteSet(S), NEW L, IsFiniteSet(L),
           NEW g \in [S -> Nat], NEW w \in [L -> Nat], NEW b \in [S -> L],
           \A x, y \in S : b[x] = b[y] => x = y,
           \A y \in L : \E x \in S : b[x] = y,
           \A x \in S : g[x] = w[b[x]]
    PROVE  SumOf(g, S) = SumOf(w, L)
<1> DEFINE a == [y \in L |-> CHOOSE x \in S : b[x] = y]
<1>1. /\ a \in [L -> S]
      /\ \A y \in L : b[a[y]] = y
  OBVIOUS
<1> HIDE DEF a
<1>2. SumOf(g, S) \in Nat /\ SumOf(w, L) \in Nat
  BY SumStep
<1>3. SumOf(g, S) <= SumOf(w, L)
  <2>1. \A x \in S : g[x] <= w[b[x]]
    OBVIOUS
  <2>2. QED
    BY <2>1, SumInjects
<1>4. SumOf(w, L) <= SumOf(g, S)
  <2>1. \A y \in L : w[y] <= g[a[y]]
    BY <1>1
  <2>2. \A x, y \in L : a[x] = a[y] => x = y
    BY <1>1
  <2>3. QED
    BY <1>1, <2>1, <2>2, SumInjects
<1>5. QED
  BY <1>2, <1>3, <1>4, SMT

(* The sum over two sets that share no element.                            *)
LEMMA SumOfUnion ==
    ASSUME NEW S, IsFiniteSet(S), NEW g \in [S -> Nat],
           NEW T \in SUBSET S, NEW U \in SUBSET S, T \cap U = {}
    PROVE  SumOf(g, T \cup U) = SumOf(g, T) + SumOf(g, U)
<1> DEFINE P == {V \in SUBSET U : SumOf(g, T \cup V) = SumOf(g, T) + SumOf(g, V)}
<1>1. SumOf(g, T) \in Nat
  BY SumStep
<1>2. {} \in P
  <2>1. SumOf(g, {}) = 0 /\ T \cup {} = T
    BY SumStep
  <2>2. QED
    BY <1>1, <2>1
<1>3. ASSUME NEW V \in SUBSET U, NEW x \in V, V \ {x} \in P
      PROVE  V \in P
  <2>1. /\ SumOf(g, T \cup V) = g[x] + SumOf(g, (T \cup V) \ {x})
        /\ SumOf(g, V) = g[x] + SumOf(g, V \ {x})
    BY SumRemove
  <2>2. (T \cup V) \ {x} = T \cup (V \ {x})
    OBVIOUS
  <2>3. SumOf(g, T \cup (V \ {x})) = SumOf(g, T) + SumOf(g, V \ {x})
    BY <1>3
  <2>4. g[x] \in Nat /\ SumOf(g, V \ {x}) \in Nat
    BY SumStep
  <2>5. SumOf(g, T \cup V) = SumOf(g, T) + SumOf(g, V)
    <3>1. \A m, k, l \in Nat : k + (m + l) = m + (k + l)
      BY SMT
    <3>2. SumOf(g, T \cup V) = g[x] + (SumOf(g, T) + SumOf(g, V \ {x}))
      BY <2>1, <2>2, <2>3
    <3>3. QED
      BY <1>1, <2>1, <2>4, <3>1, <3>2
  <2>6. QED
    BY <2>5
<1>4. IsFiniteSet(U)
  BY FS_Subset
<1>5. U \in P
  <2> HIDE DEF P
  <2>1. QED
    BY <1>2, <1>3, <1>4, SubsetInduction
<1>6. QED
  BY <1>5

LEMMA TimesSum ==
    ASSUME NEW a \in Nat, NEW b \in Nat, NEW u \in Nat
    PROVE  (a + b) * u = a * u + b * u /\ a * u \in Nat
  BY SMT

(* If u times each value is at most another one, so are the sums.          *)
LEMMA SumScaled ==
    ASSUME NEW S, IsFiniteSet(S), NEW g \in [S -> Nat], NEW h \in [S -> Nat],
           NEW u \in Nat, \A x \in S : g[x] * u <= h[x]
    PROVE  SumOf(g, S) * u <= SumOf(h, S)
<1> DEFINE P == {V \in SUBSET S : SumOf(g, V) * u <= SumOf(h, V)}
<1>1. \A V \in SUBSET S : SumOf(g, V) \in Nat /\ SumOf(h, V) \in Nat
  BY SumStep
<1>2. {} \in P
  <2>1. SumOf(g, {}) = 0 /\ SumOf(h, {}) = 0
    BY SumStep
  <2>2. 0 * u <= 0
    BY SMT
  <2>3. QED
    BY <2>1, <2>2
<1>3. ASSUME NEW V \in SUBSET S, NEW x \in V, V \ {x} \in P
      PROVE  V \in P
  <2> DEFINE a == SumOf(g, V \ {x})
             b == SumOf(h, V \ {x})
  <2>1. SumOf(g, V) = g[x] + a /\ SumOf(h, V) = h[x] + b
    BY SumRemove
  <2>2. a \in Nat /\ b \in Nat /\ g[x] \in Nat /\ h[x] \in Nat /\ g[x] * u <= h[x]
    BY <1>1
  <2>3. a * u <= b
    BY <1>3
  <2> HIDE DEF a, b
  <2>4. (g[x] + a) * u = g[x] * u + a * u /\ g[x] * u \in Nat /\ a * u \in Nat
    BY <2>2, TimesSum
  <2>5. (g[x] + a) * u <= h[x] + b
    BY <2>2, <2>3, <2>4, SMT
  <2>6. QED
    BY <2>1, <2>5
<1>4. S \in P
  <2> HIDE DEF P
  <2>1. QED
    BY <1>2, <1>3, SubsetInduction
<1>5. QED
  BY <1>4

(* A sum does not see where else its values are defined.                   *)
LEMMA SumAgrees ==
    ASSUME NEW S, IsFiniteSet(S), NEW h \in [S -> Nat], NEW T \in SUBSET S,
           NEW g \in [T -> Nat], \A x \in T : g[x] = h[x]
    PROVE  SumOf(g, T) = SumOf(h, T)
<1> DEFINE f == [U \in SUBSET T |-> SumOf(h, U)]
<1>1. IsFiniteSet(T)
  BY FS_Subset
<1>2. \A U \in SUBSET T : U \ {Some(U)} \in SUBSET T /\ U \in SUBSET S
  OBVIOUS
<1>3. \A U \in SUBSET T : U # {} => Some(U) \in U /\ g[Some(U)] = h[Some(U)]
  <2>1. ASSUME NEW U \in SUBSET T, U # {}
        PROVE  Some(U) \in U
    BY <2>1 DEF Some
  <2>2. QED
    BY <2>1
<1>4. \A U \in SUBSET T :
        SumOf(h, U) = IF U = {} THEN 0 ELSE h[Some(U)] + SumOf(h, U \ {Some(U)})
  BY <1>2, SumStep
<1>5. f = [U \in SUBSET T |-> IF U = {} THEN 0 ELSE g[Some(U)] + f[U \ {Some(U)}]]
  <2>1. \A U \in SUBSET T : f[U \ {Some(U)}] = SumOf(h, U \ {Some(U)})
    BY <1>2
  <2>2. ASSUME NEW U \in SUBSET T
        PROVE  SumOf(h, U) = IF U = {} THEN 0 ELSE g[Some(U)] + f[U \ {Some(U)}]
    BY <1>3, <1>4, <2>1
  <2>3. QED
    BY <2>2
<1>6. IsSum(f, g, T)
  BY <1>5 DEF IsSum
<1>7. SumOf(g, T) = f[T]
  <2> HIDE DEF f
  <2>1. QED
    BY <1>1, <1>6, SumOfSubset
<1>8. QED
  BY <1>7

(* The same for values at some of the places only.                         *)
LEMMA SumMoved ==
    ASSUME NEW S, IsFiniteSet(S), NEW g \in [S -> Nat], NEW T \in SUBSET S,
           NEW L, IsFiniteSet(L), NEW w \in [L -> Nat], NEW M \in SUBSET L,
           NEW b \in [T -> M],
           \A x, y \in T : b[x] = b[y] => x = y,
           \A y \in M : \E x \in T : b[x] = y,
           \A x \in T : g[x] = w[b[x]]
    PROVE  SumOf(g, T) = SumOf(w, M)
<1> DEFINE gT == [x \in T |-> g[x]]
           wM == [y \in M |-> w[y]]
<1>1. /\ gT \in [T -> Nat] /\ \A x \in T : gT[x] = g[x]
      /\ wM \in [M -> Nat] /\ \A y \in M : wM[y] = w[y]
  OBVIOUS
<1> HIDE DEF gT, wM
<1>2. IsFiniteSet(T) /\ IsFiniteSet(M)
  BY FS_Subset
<1>3. SumOf(gT, T) = SumOf(g, T) /\ SumOf(wM, M) = SumOf(w, M)
  BY <1>1, SumAgrees
<1>4. \A x \in T : gT[x] = wM[b[x]]
  BY <1>1
<1>5. SumOf(gT, T) = SumOf(wM, M)
  BY <1>1, <1>2, <1>4, SumReindexed
<1>6. QED
  BY <1>3, <1>5

(* The sum of a sequence with one more value.                              *)
LEMMA SumOfLonger ==
    ASSUME NEW n \in Nat, NEW g \in [1 .. n -> Nat], NEW h \in [1 .. n + 1 -> Nat],
           \A k \in 1 .. n : h[k] = g[k]
    PROVE  /\ SumOf(g, 1 .. n) \in Nat
           /\ SumOf(h, 1 .. n + 1) = SumOf(g, 1 .. n) + h[n + 1]
<1>1. /\ IsFiniteSet(1 .. n) /\ IsFiniteSet(1 .. n + 1)
      /\ (1 .. n + 1) \ {n + 1} = 1 .. n /\ n + 1 \in 1 .. n + 1
      /\ 1 .. n \in SUBSET (1 .. n + 1)
  <2>1. n \in Int /\ n + 1 \in Int /\ 1 \in Int
    OBVIOUS
  <2>2. IsFiniteSet(1 .. n) /\ IsFiniteSet(1 .. n + 1)
    BY <2>1, FS_Interval
  <2>3. QED
    BY <2>2, SMT
<1>2. SumOf(h, 1 .. n + 1) = h[n + 1] + SumOf(h, 1 .. n)
  BY <1>1, SumRemove
<1>3. SumOf(g, 1 .. n) = SumOf(h, 1 .. n)
  BY <1>1, SumAgrees
<1>4. SumOf(g, 1 .. n) \in Nat /\ h[n + 1] \in Nat
  BY <1>1, SumStep
<1>5. QED
  BY <1>2, <1>3, <1>4, SMT

(* The sums of the community modules are folds of the same kind.           *)
LEMMA SumFunctionIs ==
    ASSUME NEW f, NEW S
    PROVE  SumFunction(f) = SumOf(f, DOMAIN f) /\ SumFunctionOnSet(f, S) = SumOf(f, S)
  BY DEF SumFunction, SumFunctionOnSet, FoldFunctionOnSet, SumOf, MapThenSumSet

--------------------------------------------------------------------------------
(* The elements of a sequence *)

LEMMA SeqToSet ==
    ASSUME NEW S, NEW s \in Seq(S)
    PROVE  /\ ToSet(s) \in SUBSET S /\ ToSet(<<>>) = {}
           /\ s # <<>> => ToSet(s) # {}
           /\ \A x : x \in ToSet(s) <=> \E i \in 1 .. Len(s) : s[i] = x
<1>1. /\ Len(s) \in Nat /\ DOMAIN s = 1 .. Len(s) /\ s \in [1 .. Len(s) -> S]
      /\ s # <<>> => 1 \in 1 .. Len(s)
  BY LenProperties, EmptySeq
<1>2. ToSet(<<>>) = {}
  BY DEF ToSet
<1>3. QED
  BY <1>1, <1>2 DEF ToSet

LEMMA AppendToSet ==
    ASSUME NEW S, NEW s \in Seq(S), NEW x \in S
    PROVE  /\ Append(s, x) \in Seq(S) /\ Len(Append(s, x)) = Len(s) + 1
           /\ ToSet(Append(s, x)) = ToSet(s) \cup {x}
<1> DEFINE t == Append(s, x)
<1>1. /\ t \in Seq(S) /\ Len(t) = Len(s) + 1 /\ Len(s) \in Nat
      /\ \A i \in 1 .. Len(s) : t[i] = s[i]
      /\ t[Len(s) + 1] = x
  BY AppendProperties, LenProperties
<1> HIDE DEF t
<1>2. 1 .. Len(t) = 1 .. Len(s) \cup {Len(s) + 1}
  BY <1>1, SMT
<1>3. \A y : y \in ToSet(t) <=> y \in ToSet(s) \cup {x}
  BY <1>1, <1>2, SeqToSet
<1>4. QED
  BY <1>1, <1>3 DEF t

LEMMA HeadTailToSet ==
    ASSUME NEW S, NEW s \in Seq(S), s # <<>>
    PROVE  /\ Head(s) \in S /\ Tail(s) \in Seq(S)
           /\ ToSet(s) = ToSet(Tail(s)) \cup {Head(s)}
           /\ IsInjective(s) => IsInjective(Tail(s)) /\ Head(s) \notin ToSet(Tail(s))
<1> DEFINE t == Tail(s)
<1>1. /\ Head(s) \in S /\ t \in Seq(S) /\ Len(t) = Len(s) - 1
      /\ \A i \in 1 .. Len(t) : t[i] = s[i + 1]
      /\ Len(s) \in Nat /\ Len(s) # 0
  BY HeadTailProperties, LenProperties, EmptySeq
<1>2. Head(s) = s[1]
  OBVIOUS
<1> HIDE DEF t
<1>3. \A i : i \in 1 .. Len(s) <=> i = 1 \/ \E j \in 1 .. Len(t) : i = j + 1
  <2>1. \A i \in 1 .. Len(s) : i = 1 \/ (i - 1 \in 1 .. Len(t) /\ i = (i - 1) + 1)
    BY <1>1, SMT
  <2>2. \A j \in 1 .. Len(t) : j + 1 \in 1 .. Len(s)
    BY <1>1, SMT
  <2>3. 1 \in 1 .. Len(s)
    BY <1>1, SMT
  <2>4. QED
    BY <2>1, <2>2, <2>3
<1>4. \A y : y \in ToSet(s) <=> y \in ToSet(t) \cup {Head(s)}
  <2>1. ASSUME NEW y
        PROVE  (\E i \in 1 .. Len(s) : s[i] = y)
                 <=> y = s[1] \/ \E j \in 1 .. Len(t) : t[j] = y
    <3>1. ASSUME NEW i \in 1 .. Len(s), s[i] = y
          PROVE  y = s[1] \/ \E j \in 1 .. Len(t) : t[j] = y
      <4>1. CASE i = 1
        BY <3>1, <4>1
      <4>2. CASE \E j \in 1 .. Len(t) : i = j + 1
        BY <1>1, <3>1, <4>2
      <4>3. QED
        BY <1>3, <4>1, <4>2
    <3>2. ASSUME y = s[1] \/ \E j \in 1 .. Len(t) : t[j] = y
          PROVE  \E i \in 1 .. Len(s) : s[i] = y
      <4>1. 1 \in 1 .. Len(s) /\ \A j \in 1 .. Len(t) : j + 1 \in 1 .. Len(s)
        BY <1>3
      <4>2. QED
        BY <1>1, <3>2, <4>1
    <3>3. QED
      BY <3>1, <3>2
  <2>2. \A y : y \in ToSet(s) <=> \E i \in 1 .. Len(s) : s[i] = y
    BY SeqToSet
  <2>3. \A y : y \in ToSet(t) <=> \E j \in 1 .. Len(t) : t[j] = y
    BY <1>1, SeqToSet
  <2>4. QED
    BY <1>2, <2>1, <2>2, <2>3
<1>5. ASSUME IsInjective(s)
      PROVE  IsInjective(t) /\ Head(s) \notin ToSet(t)
  <2>1. DOMAIN s = 1 .. Len(s) /\ DOMAIN t = 1 .. Len(t)
    BY <1>1, LenProperties
  <2>2. \A i, j \in 1 .. Len(s) : s[i] = s[j] => i = j
    BY <1>5, <2>1 DEF IsInjective
  <2>3. \A j \in 1 .. Len(t) : j + 1 \in 1 .. Len(s) /\ j + 1 # 1 /\ t[j] = s[j + 1]
    BY <1>1, SMT
  <2>4. 1 \in 1 .. Len(s)
    BY <1>1, SMT
  <2>5. ASSUME NEW i \in 1 .. Len(t), NEW j \in 1 .. Len(t), t[i] = t[j]
        PROVE  i = j
    <3>1. i + 1 = j + 1
      BY <2>2, <2>3, <2>5
    <3>2. QED
      BY <3>1, SMT
  <2>6. Head(s) \notin ToSet(t)
    BY <1>1, <1>2, <2>2, <2>3, <2>4, SeqToSet
  <2>7. QED
    BY <2>1, <2>5, <2>6 DEF IsInjective
<1>6. QED
  BY <1>1, <1>4, <1>5 DEF t

(* A listing of a finite set names each element once.                      *)
LEMMA ListingOfSet ==
    ASSUME NEW S, IsFiniteSet(S), NEW s \in SetToSeqs(S)
    PROVE  s \in Seq(S) /\ IsInjective(s) /\ ToSet(s) = S
<1> DEFINE n == Cardinality(S)
<1>1. n \in Nat /\ s \in [1 .. n -> S] /\ \A i, j \in 1 .. n : i # j => s[i] # s[j]
  BY FS_CardinalityType DEF SetToSeqs
<1> HIDE DEF n
<1>2. s \in Seq(S) /\ IsInjective(s) /\ DOMAIN s = 1 .. n
  BY <1>1 DEF IsInjective
<1>3. s \in Injection(1 .. n, S)
  BY <1>1, <1>2 DEF Injection
<1>4. Cardinality(1 .. n) = n
  BY <1>1, FS_Interval, SMT
<1>5. s \in Surjection(1 .. n, S)
  BY <1>3, <1>4, FS_Injection DEF n
<1>6. ToSet(s) = S
  BY <1>2, <1>5 DEF Surjection, ToSet
<1>7. QED
  BY <1>2, <1>6

LEMMA SetToSeqOf ==
    ASSUME NEW S, IsFiniteSet(S)
    PROVE  SetToSeq(S) \in Seq(S) /\ ToSet(SetToSeq(S)) \in SUBSET S
<1> DEFINE n == Cardinality(S)
<1>1. n \in Nat /\ \E f \in [1 .. n -> S] : IsInjective(f)
  <2>1. n \in Nat /\ ExistsBijection(1 .. n, S)
    BY FS_CardinalityType
  <2>2. PICK f : f \in Bijection(1 .. n, S)
    BY <2>1 DEF ExistsBijection
  <2>3. f \in [1 .. n -> S] /\ IsInjective(f)
    BY <2>2 DEF Bijection, Injection, IsInjective
  <2>4. QED
    BY <2>1, <2>3
<1>2. SetToSeq(S) \in [1 .. n -> S]
  BY <1>1 DEF SetToSeq
<1>3. SetToSeq(S) \in Seq(S)
  BY <1>1, <1>2
<1>4. QED
  BY <1>3, SeqToSet

--------------------------------------------------------------------------------
(* Largest and smallest elements *)

LEMMA MaxIs ==
    ASSUME NEW S \in SUBSET Nat, NEW x \in S, \A y \in S : y <= x
    PROVE  Max(S) = x
<1>1. x \in S /\ \A y \in S : x >= y
  BY SMT
<1>2. Max(S) \in S /\ \A y \in S : Max(S) >= y
  BY <1>1 DEF Max
<1> DEFINE m == Max(S)
<1>3. m \in Nat /\ x \in Nat /\ m >= x /\ x >= m
  BY <1>1, <1>2
<1> HIDE DEF m
<1>4. m = x
  BY <1>3, SMT
<1>5. QED
  BY <1>4 DEF m

LEMMA MaxOfBounded ==
    ASSUME NEW n \in Nat, NEW S \in SUBSET (0 .. n), S # {}
    PROVE  Max(S) \in S /\ \A y \in S : y <= Max(S)
<1> DEFINE Upto == {k \in Nat : \A T \in SUBSET (0 .. k) :
                       T # {} => \E x \in T : \A y \in T : y <= x}
<1>1. 0 \in Upto
  <2>1. ASSUME NEW T \in SUBSET (0 .. 0), T # {}
        PROVE  \E x \in T : \A y \in T : y <= x
    <3>1. T \subseteq {0}
      BY SMT
    <3>2. 0 \in T
      BY <2>1, <3>1
    <3>3. QED
      BY <3>1, <3>2, SMT
  <2>2. QED
    BY <2>1
<1>2. ASSUME NEW k \in Nat, k \in Upto
      PROVE  k + 1 \in Upto
  <2>1. ASSUME NEW T \in SUBSET (0 .. k + 1), T # {}
        PROVE  \E x \in T : \A y \in T : y <= x
    <3>1. CASE k + 1 \in T
      <4>1. \A y \in T : y <= k + 1
        BY SMT
      <4>2. QED
        BY <3>1, <4>1
    <3>2. CASE k + 1 \notin T
      <4>1. \A y \in T : y \in 0 .. k
        BY <3>2, SMT
      <4>2. QED
        BY <1>2, <2>1, <4>1
    <3>3. QED
      BY <3>1, <3>2
  <2>2. k + 1 \in Nat
    OBVIOUS
  <2>3. QED
    BY <2>1, <2>2
<1>3. Nat \subseteq Upto
  <2> HIDE DEF Upto
  <2>1. QED
    BY <1>1, <1>2, NatSetInduction
<1>4. PICK x \in S : \A y \in S : y <= x
  BY <1>3
<1>5. Max(S) = x
  BY <1>4, MaxIs
<1>6. QED
  BY <1>4, <1>5

LEMMA MinOfPair ==
    ASSUME NEW a \in Nat, NEW b \in Nat
    PROVE  Min({a, b}) \in {a, b} /\ Min({a, b}) <= a /\ Min({a, b}) <= b
<1>1. \E x \in {a, b} : \A y \in {a, b} : x =< y
  <2>1. CASE a <= b
    BY <2>1, SMT
  <2>2. CASE ~(a <= b)
    BY <2>2, SMT
  <2>3. QED
    BY <2>1, <2>2
<1>2. Min({a, b}) \in {a, b} /\ \A y \in {a, b} : Min({a, b}) =< y
  BY <1>1 DEF Min
<1>3. QED
  BY <1>2

--------------------------------------------------------------------------------
(* Hashes *)

LEMMA SortedCancel ==
    /\ \A x, y, s : Sorted(x, s) = Sorted(y, s) => x = y
    /\ \A x, y : Sorted(x, y) = Sorted(y, x)
<1>1. ASSUME NEW x, NEW y, NEW s, Sorted(x, s) = Sorted(y, s)
      PROVE  x = y
  <2>1. {x, s} = {y, s}
    BY <1>1 DEF Sorted
  <2>2. QED
    BY <2>1
<1>2. ASSUME NEW x, NEW y
      PROVE  Sorted(x, y) = Sorted(y, x)
  <2>1. {x, y} = {y, x}
    OBVIOUS
  <2>2. QED
    BY <2>1 DEF Sorted
<1>3. QED
  BY <1>1, <1>2

LEMMA UnsortedCancel ==
    \A x, y, s, t : Unsorted(x, s) = Unsorted(y, t) => x = y /\ s = t
BY DEF Unsorted

--------------------------------------------------------------------------------
(* The verifier on chain *)

\* The hash after each element of a proof.
IsRun(f, proof, leaf) ==
    f = [k \in 0 .. Len(proof) |-> IF k = 0 THEN leaf ELSE Sorted(f[k - 1], proof[k])]

(* The recursive function that computed_hash is defined by exists.         *)
LEMMA RunExists ==
    ASSUME NEW proof, Len(proof) \in Nat, NEW leaf
    PROVE  \E f : IsRun(f, proof, leaf)
<1> DEFINE Step(f, n) ==
             f = [k \in 0 .. n |-> IF k = 0 THEN leaf ELSE Sorted(f[k - 1], proof[k])]
           Upto == {n \in Nat : \E f : Step(f, n)}
<1>1. 0 \in Upto
  <2> DEFINE f == [k \in 0 .. 0 |-> leaf]
  <2>1. f = [k \in 0 .. 0 |-> IF k = 0 THEN leaf ELSE Sorted(f[k - 1], proof[k])]
    <3>1. \A k \in 0 .. 0 : k = 0
      BY SMT
    <3>2. QED
      BY <3>1
  <2>2. QED
    BY <2>1
<1>2. ASSUME NEW n \in Nat, n \in Upto
      PROVE  n + 1 \in Upto
  <2>1. PICK f : Step(f, n)
    BY <1>2
  <2> DEFINE h == [k \in 0 .. n + 1 |->
                     IF k = n + 1 THEN Sorted(f[n], proof[n + 1]) ELSE f[k]]
  <2>2. ASSUME NEW k \in 0 .. n + 1
        PROVE  h[k] = IF k = 0 THEN leaf ELSE Sorted(h[k - 1], proof[k])
    <3>1. CASE k = n + 1
      <4>1. k # 0 /\ k - 1 = n /\ n \in 0 .. n + 1 /\ n # n + 1
        BY <3>1, SMT
      <4>2. h[k] = Sorted(f[n], proof[k]) /\ h[n] = f[n]
        BY <3>1, <4>1
      <4> HIDE DEF h
      <4>3. QED
        BY <4>1, <4>2
    <3>2. CASE k # n + 1
      <4>1. k \in 0 .. n /\ (k # 0 => k - 1 \in 0 .. n + 1 /\ k - 1 # n + 1)
        BY <3>2, SMT
      <4>2. h[k] = f[k] /\ (k # 0 => h[k - 1] = f[k - 1])
        BY <3>2, <4>1
      <4> HIDE DEF h
      <4>3. f[k] = IF k = 0 THEN leaf ELSE Sorted(f[k - 1], proof[k])
        BY <2>1, <4>1
      <4>4. QED
        BY <4>2, <4>3
    <3>3. QED
      BY <3>1, <3>2
  <2>3. h = [k \in 0 .. n + 1 |-> h[k]]
    OBVIOUS
  <2> HIDE DEF h
  <2>4. Step(h, n + 1)
    BY <2>2, <2>3
  <2>5. QED
    BY <2>4
<1>3. Nat \subseteq Upto
  <2> HIDE DEF Upto
  <2>1. QED
    BY <1>1, <1>2, NatSetInduction
<1>4. PICK f : Step(f, Len(proof))
  BY <1>3
<1>5. QED
  BY <1>4 DEF IsRun

LEMMA ComputedHash ==
    ASSUME NEW proof, Len(proof) \in Nat, NEW leaf
    PROVE  \E f : /\ computed_hash(proof, leaf) = f[Len(proof)]
                  /\ f[0] = leaf
                  /\ \A k \in 1 .. Len(proof) : f[k] = Sorted(f[k - 1], proof[k])
<1> DEFINE f == CHOOSE g : IsRun(g, proof, leaf)
<1>1. IsRun(f, proof, leaf)
  BY RunExists
<1>2. computed_hash(proof, leaf) = f[Len(proof)]
  BY DEF computed_hash, IsRun
<1> HIDE DEF f
<1>3. \A k \in 1 .. Len(proof) : k \in 0 .. Len(proof) /\ k # 0
  BY SMT
<1>4. 0 \in 0 .. Len(proof)
  BY SMT
<1>5. QED
  BY <1>1, <1>2, <1>3, <1>4 DEF IsRun

(* A proof leads different leaves to different roots.                      *)
LEMMA ComputedHashDiffers ==
    ASSUME NEW proof, Len(proof) \in Nat, NEW x, NEW y,
           computed_hash(proof, x) = computed_hash(proof, y)
    PROVE  x = y
<1>1. PICK f : /\ computed_hash(proof, x) = f[Len(proof)]
               /\ f[0] = x
               /\ \A k \in 1 .. Len(proof) : f[k] = Sorted(f[k - 1], proof[k])
  BY ComputedHash
<1>2. PICK g : /\ computed_hash(proof, y) = g[Len(proof)]
               /\ g[0] = y
               /\ \A k \in 1 .. Len(proof) : g[k] = Sorted(g[k - 1], proof[k])
  BY ComputedHash
<1> DEFINE Upto == {n \in Nat : n <= Len(proof) /\ f[n] = g[n] => x = y}
<1>3. 0 \in Upto
  BY <1>1, <1>2
<1>4. ASSUME NEW n \in Nat, n \in Upto
      PROVE  n + 1 \in Upto
  <2> SUFFICES ASSUME n + 1 <= Len(proof), f[n + 1] = g[n + 1]
               PROVE  x = y
    OBVIOUS
  <2>1. n <= Len(proof) /\ n + 1 \in 1 .. Len(proof) /\ (n + 1) - 1 = n
    BY SMT
  <2>2. f[n + 1] = Sorted(f[n], proof[n + 1]) /\ g[n + 1] = Sorted(g[n], proof[n + 1])
    BY <1>1, <1>2, <2>1
  <2>3. f[n] = g[n]
    <3>1. Sorted(f[n], proof[n + 1]) = Sorted(g[n], proof[n + 1])
      BY <2>2
    <3>2. {f[n], proof[n + 1]} = {g[n], proof[n + 1]}
      BY <3>1 DEF Sorted
    <3>3. QED
      BY <3>2
  <2>4. QED
    BY <1>4, <2>1, <2>3
<1>5. Nat \subseteq Upto
  <2> HIDE DEF Upto
  <2>1. QED
    BY <1>3, <1>4, NatSetInduction
<1>6. Len(proof) \in Upto /\ Len(proof) <= Len(proof)
  BY <1>5, SMT
<1>7. QED
  BY <1>1, <1>2, <1>6

--------------------------------------------------------------------------------
(* The levels of a tree *)

IsLevels(f, leaves, b) ==
    f = [h \in 0 .. Len(leaves) |-> IF h = 0 THEN leaves ELSE ParentsOf(f[h - 1], b)]

LEMMA LevelsExist ==
    ASSUME NEW leaves, Len(leaves) \in Nat, NEW b
    PROVE  \E f : IsLevels(f, leaves, b)
<1> DEFINE Step(f, n) ==
             f = [h \in 0 .. n |-> IF h = 0 THEN leaves ELSE ParentsOf(f[h - 1], b)]
           Upto == {n \in Nat : \E f : Step(f, n)}
<1>1. 0 \in Upto
  <2> DEFINE f == [k \in 0 .. 0 |-> leaves]
  <2>1. f = [k \in 0 .. 0 |-> IF k = 0 THEN leaves ELSE ParentsOf(f[k - 1], b)]
    <3>1. \A k \in 0 .. 0 : k = 0
      BY SMT
    <3>2. QED
      BY <3>1
  <2>2. QED
    BY <2>1
<1>2. ASSUME NEW n \in Nat, n \in Upto
      PROVE  n + 1 \in Upto
  <2>1. PICK f : Step(f, n)
    BY <1>2
  <2> DEFINE h == [k \in 0 .. n + 1 |->
                     IF k = n + 1 THEN ParentsOf(f[n], b) ELSE f[k]]
  <2>2. ASSUME NEW k \in 0 .. n + 1
        PROVE  h[k] = IF k = 0 THEN leaves ELSE ParentsOf(h[k - 1], b)
    <3>1. CASE k = n + 1
      <4>1. k # 0 /\ k - 1 = n /\ n \in 0 .. n + 1 /\ n # n + 1
        BY <3>1, SMT
      <4>2. h[k] = ParentsOf(f[n], b) /\ h[n] = f[n]
        BY <3>1, <4>1
      <4> HIDE DEF h
      <4>3. QED
        BY <4>1, <4>2
    <3>2. CASE k # n + 1
      <4>1. k \in 0 .. n /\ (k # 0 => k - 1 \in 0 .. n + 1 /\ k - 1 # n + 1)
        BY <3>2, SMT
      <4>2. h[k] = f[k] /\ (k # 0 => h[k - 1] = f[k - 1])
        BY <3>2, <4>1
      <4> HIDE DEF h
      <4>3. f[k] = IF k = 0 THEN leaves ELSE ParentsOf(f[k - 1], b)
        BY <2>1, <4>1
      <4>4. QED
        BY <4>2, <4>3
    <3>3. QED
      BY <3>1, <3>2
  <2>3. h = [k \in 0 .. n + 1 |-> h[k]]
    OBVIOUS
  <2> HIDE DEF h
  <2>4. Step(h, n + 1)
    BY <2>2, <2>3
  <2>5. QED
    BY <2>4
<1>3. Nat \subseteq Upto
  <2> HIDE DEF Upto
  <2>1. QED
    BY <1>1, <1>2, NatSetInduction
<1>4. PICK f : Step(f, Len(leaves))
  BY <1>3
<1>5. QED
  BY <1>4 DEF IsLevels

LEMMA LevelsStep ==
    ASSUME NEW leaves, Len(leaves) \in Nat, NEW b
    PROVE  /\ LevelsOf(leaves, b)[0] = leaves
           /\ \A h \in 1 .. Len(leaves) :
                LevelsOf(leaves, b)[h] = ParentsOf(LevelsOf(leaves, b)[h - 1], b)
<1> DEFINE f == CHOOSE g : IsLevels(g, leaves, b)
<1>1. IsLevels(f, leaves, b)
  BY LevelsExist
<1>2. LevelsOf(leaves, b) = f
  BY DEF LevelsOf, IsLevels
<1> HIDE DEF f
<1>3. 0 \in 0 .. Len(leaves) /\ \A h \in 1 .. Len(leaves) : h \in 0 .. Len(leaves) /\ h # 0
  BY SMT
<1>4. QED
  BY <1>1, <1>2, <1>3 DEF IsLevels

LEMMA ParentsLen ==
    ASSUME NEW level, Len(level) \in Nat, NEW b
    PROVE  Len(ParentsOf(level, b)) = (Len(level) + 1) \div 2
<1> DEFINE m == (Len(level) + 1) \div 2
           S == {ParentsOf(level, b)[k] : k \in 1 .. m}
<1>1. m \in Nat
  BY SMT
<1>2. ParentsOf(level, b) \in [1 .. m -> S]
  BY DEF ParentsOf
<1> HIDE DEF m, S
<1>3. Len(ParentsOf(level, b)) = m
  BY <1>1, <1>2, SMT
<1>4. QED
  BY <1>3 DEF m

(* A level of more than one node is longer than the one above it.          *)
LEMMA LevelLens ==
    ASSUME NEW leaves, Len(leaves) \in Nat \ {0}, NEW b, NEW levels,
           levels = LevelsOf(leaves, b)
    PROVE  /\ \A h \in 0 .. Len(leaves) :
                /\ Len(levels[h]) \in Nat \ {0}
                /\ Len(levels[h]) = 1 \/ Len(levels[h]) + h <= Len(leaves)
           /\ \A h \in 1 .. Len(leaves) :
                Len(levels[h]) = (Len(levels[h - 1]) + 1) \div 2
<1> DEFINE n == Len(leaves)
           len(h) == Len(levels[h])
           Good(h) == len(h) \in Nat \ {0} /\ (len(h) = 1 \/ len(h) + h <= n)
           Upto == {h \in Nat : h <= n => Good(h)}
<1>1. /\ levels[0] = leaves
      /\ \A h \in 1 .. n : levels[h] = ParentsOf(levels[h - 1], b)
  BY LevelsStep
<1>2. n \in Nat /\ len(0) = n
  BY <1>1
<1>3. ASSUME NEW h \in 1 .. n, len(h - 1) \in Nat
      PROVE  len(h) = (len(h - 1) + 1) \div 2
  BY <1>1, <1>3, ParentsLen
<1> HIDE DEF n, len
<1>4. 0 \in Upto
  BY <1>2 DEF n
<1>5. ASSUME NEW h \in Nat, h \in Upto
      PROVE  h + 1 \in Upto
  <2> SUFFICES ASSUME h + 1 <= n
               PROVE  Good(h + 1)
    OBVIOUS
  <2>1. Good(h) /\ h + 1 \in 1 .. n /\ (h + 1) - 1 = h
    BY <1>2, <1>5, SMT
  <2>2. len(h + 1) = (len(h) + 1) \div 2
    BY <1>3, <2>1
  <2>3. QED
    BY <1>2, <2>1, <2>2, SMT
<1>6. Nat \subseteq Upto
  <2> HIDE DEF Upto
  <2>1. QED
    BY <1>4, <1>5, NatSetInduction
<1>7. \A h \in 0 .. n : Good(h)
  BY <1>2, <1>6, SMT
<1>8. \A h \in 1 .. n : h - 1 \in 0 .. n
  BY <1>2, SMT
<1>9. \A h \in 1 .. n : len(h) = (len(h - 1) + 1) \div 2
  BY <1>3, <1>7, <1>8
<1>10. QED
  BY <1>7, <1>9 DEF n, len

(* The root is alone on its level, which is the first such one.            *)
LEMMA HeightIs ==
    ASSUME NEW leaves, Len(leaves) \in Nat \ {0}, NEW b, NEW levels,
           levels = LevelsOf(leaves, b)
    PROVE  /\ Height(leaves, b) \in 0 .. Len(leaves)
           /\ \A h \in 0 .. Len(leaves) : h < Height(leaves, b) <=> Len(levels[h]) > 1
<1> DEFINE n == Len(leaves)
           len(h) == Len(levels[h])
           Alone == {h \in 0 .. n : len(h) <= 1}
<1>1. /\ \A h \in 0 .. n : len(h) \in Nat \ {0} /\ (len(h) = 1 \/ len(h) + h <= n)
      /\ \A h \in 1 .. n : len(h) = (len(h - 1) + 1) \div 2
      /\ n \in Nat
  BY LevelLens
<1> HIDE DEF n, len
<1>2. n \in Alone
  <2>1. n \in 0 .. n
    BY <1>1, SMT
  <2>2. len(n) = 1
    BY <1>1, <2>1, SMT
  <2>3. QED
    BY <2>1, <2>2
<1>3. PICK first \in Alone : \A g \in 0 .. first - 1 : len(g) > 1
  <2> DEFINE Below == {k \in Nat : \A h \in Alone : h <= k =>
                          \E f \in Alone : \A g \in 0 .. f - 1 : len(g) > 1}
  <2>1. 0 \in Below
    <3>1. ASSUME NEW h \in Alone, h <= 0
          PROVE  \A g \in 0 .. h - 1 : len(g) > 1
      BY <3>1, SMT
    <3>2. QED
      BY <3>1
  <2>2. ASSUME NEW k \in Nat, k \in Below
        PROVE  k + 1 \in Below
    <3> SUFFICES ASSUME NEW h \in Alone, h <= k + 1
                 PROVE  \E f \in Alone : \A g \in 0 .. f - 1 : len(g) > 1
      OBVIOUS
    <3>1. CASE \E g \in 0 .. h - 1 : ~(len(g) > 1)
      <4>1. PICK g \in 0 .. h - 1 : ~(len(g) > 1)
        BY <3>1
      <4>2. h \in 0 .. n
        OBVIOUS
      <4>3. g \in 0 .. n /\ g <= k
        BY <1>1, <4>2, SMT
      <4>4. len(g) <= 1
        BY <1>1, <4>1, <4>3, SMT
      <4>5. g \in Alone
        BY <4>3, <4>4
      <4>6. QED
        BY <2>2, <4>3, <4>5
    <3>2. CASE \A g \in 0 .. h - 1 : len(g) > 1
      BY <3>2
    <3>3. QED
      BY <3>1, <3>2
  <2>3. Nat \subseteq Below
    <3> HIDE DEF Below
    <3>1. QED
      BY <2>1, <2>2, NatSetInduction
  <2>4. n \in Below
    BY <1>1, <2>3
  <2>5. n <= n
    BY <1>1, SMT
  <2>6. QED
    BY <1>2, <2>4, <2>5
<1>4. \E h \in 0 .. n : len(h) <= 1 /\ \A g \in 0 .. h - 1 : len(g) > 1
  BY <1>3
<1> DEFINE height == Height(leaves, b)
<1>5. height = CHOOSE h \in 0 .. n : len(h) <= 1 /\ \A g \in 0 .. h - 1 : len(g) > 1
  BY DEF Height, n, len
<1> HIDE DEF height
<1>6. height \in 0 .. n /\ len(height) <= 1 /\ \A g \in 0 .. height - 1 : len(g) > 1
  BY <1>4, <1>5
<1> DEFINE Upto == {h \in Nat : h <= n /\ height <= h => len(h) = 1}
<1>7. 0 \in Upto
  <2> SUFFICES ASSUME height <= 0
               PROVE  len(0) = 1
    OBVIOUS
  <2>1. height = 0 /\ 0 \in 0 .. n
    BY <1>1, <1>6, SMT
  <2>2. len(0) \in Nat \ {0} /\ len(0) <= 1
    BY <1>1, <1>6, <2>1
  <2>3. QED
    BY <2>2, SMT
<1>8. ASSUME NEW h \in Nat, h \in Upto
      PROVE  h + 1 \in Upto
  <2> SUFFICES ASSUME h + 1 <= n, height <= h + 1
               PROVE  len(h + 1) = 1
    OBVIOUS
  <2>1. h + 1 \in 0 .. n /\ h + 1 \in 1 .. n /\ (h + 1) - 1 = h /\ h <= n
    BY <1>1, SMT
  <2>2. CASE height = h + 1
    <3>1. len(h + 1) \in Nat \ {0} /\ len(h + 1) <= 1
      BY <1>1, <1>6, <2>1, <2>2
    <3>2. QED
      BY <3>1, SMT
  <2>3. CASE height # h + 1
    <3>1. height <= h
      BY <1>1, <1>6, <2>3, SMT
    <3>2. len(h) = 1
      BY <1>8, <2>1, <3>1
    <3>3. len(h + 1) = (len(h) + 1) \div 2
      BY <1>1, <2>1
    <3>4. QED
      BY <3>2, <3>3, SMT
  <2>4. QED
    BY <2>2, <2>3
<1>9. Nat \subseteq Upto
  <2> HIDE DEF Upto
  <2>1. QED
    BY <1>7, <1>8, NatSetInduction
<1>10. ASSUME NEW h \in 0 .. n
       PROVE  h < height <=> len(h) > 1
  <2>1. h < height => h \in 0 .. height - 1
    BY <1>1, <1>6, SMT
  <2>2. ~(h < height) => len(h) = 1
    <3>1. h \in Nat /\ h <= n /\ (~(h < height) => height <= h)
      BY <1>1, <1>6, SMT
    <3>2. QED
      BY <1>9, <3>1
  <2>3. ~(1 > 1)
    BY SMT
  <2>4. QED
    BY <1>6, <2>1, <2>2, <2>3
<1>11. QED
  BY <1>6, <1>10 DEF n, len, height

IsPath(f, index, last) ==
    f = [h \in 0 .. last |-> IF h = 0 THEN index ELSE f[h - 1] \div 2]

LEMMA PathExists ==
    ASSUME NEW index \in Nat, NEW last \in Nat
    PROVE  \E f : IsPath(f, index, last)
<1> DEFINE Step(f, n) ==
             f = [h \in 0 .. n |-> IF h = 0 THEN index ELSE f[h - 1] \div 2]
           Upto == {n \in Nat : \E f : Step(f, n)}
<1>1. 0 \in Upto
  <2> DEFINE f == [k \in 0 .. 0 |-> index]
  <2>1. f = [k \in 0 .. 0 |-> IF k = 0 THEN index ELSE f[k - 1] \div 2]
    <3>1. \A k \in 0 .. 0 : k = 0
      BY SMT
    <3>2. QED
      BY <3>1
  <2>2. QED
    BY <2>1
<1>2. ASSUME NEW n \in Nat, n \in Upto
      PROVE  n + 1 \in Upto
  <2>1. PICK f : Step(f, n)
    BY <1>2
  <2> DEFINE h == [k \in 0 .. n + 1 |->
                     IF k = n + 1 THEN f[n] \div 2 ELSE f[k]]
  <2>2. ASSUME NEW k \in 0 .. n + 1
        PROVE  h[k] = IF k = 0 THEN index ELSE h[k - 1] \div 2
    <3>1. CASE k = n + 1
      <4>1. k # 0 /\ k - 1 = n /\ n \in 0 .. n + 1 /\ n # n + 1
        BY <3>1, SMT
      <4>2. h[k] = f[n] \div 2 /\ h[n] = f[n]
        BY <3>1, <4>1
      <4> HIDE DEF h
      <4>3. QED
        BY <4>1, <4>2
    <3>2. CASE k # n + 1
      <4>1. k \in 0 .. n /\ (k # 0 => k - 1 \in 0 .. n + 1 /\ k - 1 # n + 1)
        BY <3>2, SMT
      <4>2. h[k] = f[k] /\ (k # 0 => h[k - 1] = f[k - 1])
        BY <3>2, <4>1
      <4> HIDE DEF h
      <4>3. f[k] = IF k = 0 THEN index ELSE f[k - 1] \div 2
        BY <2>1, <4>1
      <4>4. QED
        BY <4>2, <4>3
    <3>3. QED
      BY <3>1, <3>2
  <2>3. h = [k \in 0 .. n + 1 |-> h[k]]
    OBVIOUS
  <2> HIDE DEF h
  <2>4. Step(h, n + 1)
    BY <2>2, <2>3
  <2>5. QED
    BY <2>4
<1>3. Nat \subseteq Upto
  <2> HIDE DEF Upto
  <2>1. QED
    BY <1>1, <1>2, NatSetInduction
<1>4. PICK f : Step(f, last)
  BY <1>3
<1>5. QED
  BY <1>4 DEF IsPath

(* The path of a leaf stays within the levels.                             *)
LEMMA PathStep ==
    ASSUME NEW index \in Nat, NEW last \in Nat
    PROVE  /\ PathOf(index, last)[0] = index
           /\ \A h \in 1 .. last :
                PathOf(index, last)[h] = PathOf(index, last)[h - 1] \div 2
           /\ \A h \in 0 .. last : PathOf(index, last)[h] \in Nat
<1> DEFINE p == CHOOSE g : IsPath(g, index, last)
<1>1. IsPath(p, index, last)
  BY PathExists
<1>2. PathOf(index, last) = p
  BY DEF PathOf, IsPath
<1> HIDE DEF p
<1>3. /\ 0 \in 0 .. last
      /\ \A h \in 1 .. last : h \in 0 .. last /\ h # 0
  BY SMT
<1>4. p[0] = index /\ \A h \in 1 .. last : p[h] = p[h - 1] \div 2
  BY <1>1, <1>3 DEF IsPath
<1> DEFINE Upto == {h \in Nat : h <= last => p[h] \in Nat}
<1>5. 0 \in Upto
  BY <1>4
<1>6. ASSUME NEW h \in Nat, h \in Upto
       PROVE  h + 1 \in Upto
  <2> SUFFICES ASSUME h + 1 <= last
               PROVE  p[h + 1] \in Nat
    OBVIOUS
  <2>1. h + 1 \in 1 .. last /\ (h + 1) - 1 = h /\ h <= last
    BY SMT
  <2>2. p[h] \in Nat /\ p[h + 1] = p[h] \div 2
    BY <1>4, <1>6, <2>1
  <2>3. QED
    BY <2>2, SMT
<1>7. Nat \subseteq Upto
  <2> HIDE DEF Upto
  <2>1. QED
    BY <1>5, <1>6, NatSetInduction
<1>8. \A h \in 0 .. last : p[h] \in Nat
  BY <1>7, SMT
<1>9. QED
  BY <1>2, <1>4, <1>8

LEMMA PathWithin ==
    ASSUME NEW leaves, Len(leaves) \in Nat \ {0}, NEW b, NEW levels,
           levels = LevelsOf(leaves, b), NEW index \in 0 .. Len(leaves) - 1,
           NEW h \in 0 .. Len(leaves)
    PROVE  PathOf(index, Len(leaves))[h] \in 0 .. Len(levels[h]) - 1
<1> DEFINE n == Len(leaves)
           len(g) == Len(levels[g])
           p == PathOf(index, n)
           Upto == {g \in Nat : g <= n => p[g] \in 0 .. len(g) - 1}
<1>1. /\ \A g \in 0 .. n : len(g) \in Nat \ {0}
      /\ \A g \in 1 .. n : len(g) = (len(g - 1) + 1) \div 2
      /\ n \in Nat
  BY LevelLens
<1>2. len(0) = n
  BY LevelsStep
<1>3. p[0] = index /\ \A g \in 1 .. n : p[g] = p[g - 1] \div 2
  <2>1. index \in Nat /\ n \in Nat
    BY SMT
  <2>2. QED
    BY <2>1, PathStep
<1> HIDE DEF n, len, p
<1>4. 0 \in Upto
  BY <1>2, <1>3 DEF n
<1>5. ASSUME NEW g \in Nat, g \in Upto
      PROVE  g + 1 \in Upto
  <2> SUFFICES ASSUME g + 1 <= n
               PROVE  p[g + 1] \in 0 .. len(g + 1) - 1
    OBVIOUS
  <2>1. g + 1 \in 1 .. n /\ (g + 1) - 1 = g /\ g <= n /\ g \in 0 .. n
    BY <1>1, SMT
  <2>2. p[g] \in 0 .. len(g) - 1 /\ p[g + 1] = p[g] \div 2
        /\ len(g + 1) = (len(g) + 1) \div 2 /\ len(g) \in Nat
    BY <1>1, <1>3, <1>5, <2>1
  <2>3. QED
    BY <2>2, SMT
<1>6. Nat \subseteq Upto
  <2> HIDE DEF Upto
  <2>1. QED
    BY <1>4, <1>5, NatSetInduction
<1>7. h \in Nat /\ h <= n
  BY <1>1, SMT DEF n
<1>8. QED
  BY <1>6, <1>7 DEF n, len, p

(* The node above one joins it with its sibling, on the side they have.    *)
LEMMA ParentAt ==
    ASSUME NEW level, Len(level) \in Nat, NEW b, NEW p \in 0 .. Len(level) - 1
    PROVE  ParentsOf(level, b)[p \div 2 + 1] =
             IF p % 2 = 0 THEN hash_intermediate(b, level[p + 1], SiblingAt(level, p))
             ELSE hash_intermediate(b, SiblingAt(level, p), level[p + 1])
<1> DEFINE n == Len(level)
           k == p \div 2 + 1
<1>1. n \in Nat
  OBVIOUS
<1>2. k \in 1 .. (n + 1) \div 2
  BY SMT
<1>3. ParentsOf(level, b)[k] =
        hash_intermediate(b, level[2 * k - 1],
            level[IF 2 * k <= n THEN 2 * k ELSE 2 * k - 1])
  BY <1>2 DEF ParentsOf
<1>4. CASE p % 2 = 0
  <2>1. /\ 2 * k - 1 = p + 1
        /\ (IF 2 * k <= n THEN 2 * k ELSE 2 * k - 1) =
             1 + (IF p % 2 = 1 THEN p - 1 ELSE IF p + 1 < n THEN p + 1 ELSE p)
    BY <1>1, <1>4, SMT
  <2> HIDE DEF k
  <2>2. QED
    BY <1>3, <1>4, <2>1 DEF SiblingAt, k
<1>5. CASE p % 2 # 0
  <2>1. /\ p % 2 = 1
        /\ 2 * k - 1 = 1 + (p - 1)
        /\ (IF 2 * k <= n THEN 2 * k ELSE 2 * k - 1) = p + 1
    BY <1>1, <1>5, SMT
  <2> HIDE DEF k
  <2>2. QED
    BY <1>3, <1>5, <2>1 DEF SiblingAt, k
<1>6. QED
  BY <1>4, <1>5

(* What the reference proof of a leaf of a sorted tree leads to.           *)
LEMMA ProofLeadsToRoot ==
    ASSUME NEW leaves, Len(leaves) \in Nat \ {0}, NEW index \in 0 .. Len(leaves) - 1
    PROVE  computed_hash(ProofOf(leaves, TRUE, index), leaves[index + 1])
             = RootOf(leaves, TRUE)
<1> DEFINE n == Len(leaves)
           levels == LevelsOf(leaves, TRUE)
           height == Height(leaves, TRUE)
           p == PathOf(index, n)
           proof == ProofOf(leaves, TRUE, index)
           leaf == leaves[index + 1]
<1>1. n \in Nat \ {0}
  OBVIOUS
<1>2. /\ levels[0] = leaves
      /\ \A h \in 1 .. n : levels[h] = ParentsOf(levels[h - 1], TRUE)
  BY LevelsStep
<1>3. \A h \in 0 .. n : Len(levels[h]) \in Nat \ {0}
  BY LevelLens
<1>4. height \in 0 .. n /\ ~(Len(levels[height]) > 1)
  <2>1. /\ height \in 0 .. n
        /\ \A h \in 0 .. n : h < height <=> Len(levels[h]) > 1
    BY HeightIs
  <2> HIDE DEF height, n
  <2>2. ~(height < height)
    BY <2>1, SMT
  <2>3. QED
    BY <2>1, <2>2
<1>5. p[0] = index /\ \A h \in 1 .. n : p[h] = p[h - 1] \div 2
  <2>1. index \in Nat /\ n \in Nat
    BY SMT
  <2>2. QED
    BY <2>1, PathStep
<1>6. \A h \in 0 .. n : p[h] \in 0 .. Len(levels[h]) - 1
  BY PathWithin
<1>7. proof = [h \in 1 .. height |-> SiblingAt(levels[h - 1], p[h - 1])]
  BY DEF ProofOf
<1>8. RootOf(leaves, TRUE) = levels[height][1]
  BY DEF RootOf
<1> HIDE DEF n, levels, height, p, proof
<1>9. Len(proof) = height
  <2> DEFINE S == {proof[h] : h \in 1 .. height}
  <2>1. proof \in [1 .. height -> S] /\ height \in Nat
    BY <1>1, <1>4, <1>7, SMT
  <2> HIDE DEF S
  <2>2. QED
    BY <2>1, SMT
<1>10. PICK f : /\ computed_hash(proof, leaf) = f[height]
                /\ f[0] = leaf
                /\ \A h \in 1 .. height : f[h] = Sorted(f[h - 1], proof[h])
  <2>1. height \in Nat
    BY <1>1, <1>4, SMT
  <2> HIDE DEF leaf
  <2>2. Len(proof) \in Nat
    BY <1>9, <2>1
  <2>3. \E f : /\ computed_hash(proof, leaf) = f[Len(proof)]
               /\ f[0] = leaf
               /\ \A h \in 1 .. Len(proof) : f[h] = Sorted(f[h - 1], proof[h])
    BY <2>2, ComputedHash
  <2>4. QED
    BY <1>9, <2>3
<1> DEFINE Follows == {h \in Nat : h <= height => f[h] = levels[h][p[h] + 1]}
<1>11. 0 \in Follows
  BY <1>2, <1>5, <1>10
<1>12. ASSUME NEW h \in Nat, h \in Follows
       PROVE  h + 1 \in Follows
  <2> SUFFICES ASSUME h + 1 <= height
               PROVE  f[h + 1] = levels[h + 1][p[h + 1] + 1]
    OBVIOUS
  <2> DEFINE level == levels[h]
             q == p[h]
  <2>1. /\ h + 1 \in 1 .. height /\ h + 1 \in 1 .. n /\ (h + 1) - 1 = h
        /\ h <= height /\ h \in 0 .. n
    BY <1>1, <1>4, SMT
  <2>2. f[h] = level[q + 1]
    BY <1>12, <2>1
  <2>3. f[h + 1] = Sorted(level[q + 1], SiblingAt(level, q))
    <3>1. proof[h + 1] = SiblingAt(level, q)
      BY <1>7, <2>1
    <3>2. QED
      BY <1>10, <2>1, <2>2, <3>1
  <2>4. Len(level) \in Nat /\ q \in 0 .. Len(level) - 1
    BY <1>3, <1>6, <2>1
  <2>5. p[h + 1] = q \div 2 /\ levels[h + 1] = ParentsOf(level, TRUE)
    BY <1>2, <1>5, <2>1
  <2> HIDE DEF level, q
  <2>6. ParentsOf(level, TRUE)[q \div 2 + 1] =
          IF q % 2 = 0 THEN hash_intermediate(TRUE, level[q + 1], SiblingAt(level, q))
          ELSE hash_intermediate(TRUE, SiblingAt(level, q), level[q + 1])
    BY <2>4, ParentAt
  <2>7. QED
    BY <2>3, <2>5, <2>6, SortedCancel DEF hash_intermediate
<1>13. Nat \subseteq Follows
  <2> HIDE DEF Follows
  <2>1. QED
    BY <1>11, <1>12, NatSetInduction
<1>14. height \in Nat /\ height <= height
  BY <1>1, <1>4, SMT
<1>15. f[height] = levels[height][p[height] + 1]
  BY <1>13, <1>14
<1>16. p[height] + 1 = 1
  <2>1. Len(levels[height]) \in Nat \ {0} /\ p[height] \in 0 .. Len(levels[height]) - 1
    BY <1>3, <1>4, <1>6
  <2>2. QED
    BY <1>4, <2>1, SMT
<1>17. QED
  BY <1>8, <1>10, <1>15, <1>16 DEF proof
================================================================================

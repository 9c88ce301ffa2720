---------------------------- MODULE MassSendProofs ----------------------------
(***************************************************************************)
(* Proofs about mass-send and resend, for every list, every batch size and *)
(* every number of transactions and faults.                                *)
(***************************************************************************)
EXTENDS MassSend, DataProofs

--------------------------------------------------------------------------------
(* Selecting from a list *)

\* One step of the recursion that Selected is defined by.
Selects(f, s, chosen, i) ==
    f[i] = IF i = 0 THEN <<>>
           ELSE IF s[i] \in chosen THEN Append(f[i - 1], s[i]) ELSE f[i - 1]

IsSelection(f, s, chosen) ==
    f = [i \in 0 .. Len(s) |->
            IF i = 0 THEN <<>>
            ELSE IF s[i] \in chosen THEN Append(f[i - 1], s[i]) ELSE f[i - 1]]

(* The recursive function exists.                                          *)
LEMMA SelectionExists ==
    ASSUME NEW S, NEW s \in Seq(S), NEW chosen
    PROVE  \E f : IsSelection(f, s, chosen)
<1> DEFINE Upto == {n \in Nat : n <= Len(s) =>
                       \E f \in [0 .. n -> Seq(S)] :
                          \A i \in 0 .. n : Selects(f, s, chosen, i)}
<1>1. Len(s) \in Nat /\ \A i \in 1 .. Len(s) : s[i] \in S
  BY LenProperties, ElementOfSeq
<1>2. 0 \in Upto
  <2> DEFINE f == [i \in 0 .. 0 |-> <<>>]
  <2>1. f \in [0 .. 0 -> Seq(S)]
    BY EmptySeq
  <2>2. \A i \in 0 .. 0 : Selects(f, s, chosen, i)
    BY SMT DEF Selects
  <2>3. QED
    BY <2>1, <2>2
<1>3. ASSUME NEW n \in Nat, n \in Upto
      PROVE  n + 1 \in Upto
  <2> SUFFICES ASSUME n + 1 <= Len(s)
               PROVE  \E f \in [0 .. n + 1 -> Seq(S)] :
                         \A i \in 0 .. n + 1 : Selects(f, s, chosen, i)
    OBVIOUS
  <2>1. n <= Len(s) /\ n + 1 \in 1 .. Len(s)
    BY <1>1, SMT
  <2>2. PICK f \in [0 .. n -> Seq(S)] : \A i \in 0 .. n : Selects(f, s, chosen, i)
    BY <1>3, <2>1
  <2> DEFINE h == [i \in 0 .. n + 1 |->
                     IF i = n + 1
                     THEN IF s[n + 1] \in chosen THEN Append(f[n], s[n + 1]) ELSE f[n]
                     ELSE f[i]]
  <2>3. f[n] \in Seq(S) /\ Append(f[n], s[n + 1]) \in Seq(S)
    BY <1>1, <2>1, AppendProperties
  <2>4. h \in [0 .. n + 1 -> Seq(S)]
    BY <2>3, SMT
  <2>5. ASSUME NEW i \in 0 .. n + 1
        PROVE  Selects(h, s, chosen, i)
    <3>1. CASE i = n + 1
      <4>1. i # 0 /\ i - 1 = n /\ n \in 0 .. n + 1 /\ n # n + 1
        BY <3>1, SMT
      <4>2. h[n] = f[n]
        BY <4>1
      <4>3. h[i] = IF s[i] \in chosen THEN Append(f[n], s[i]) ELSE f[n]
        BY <3>1
      <4> HIDE DEF h
      <4>4. QED
        BY <4>1, <4>2, <4>3 DEF Selects
    <3>2. CASE i # n + 1
      <4>1. i \in 0 .. n /\ (i # 0 => i - 1 \in 0 .. n + 1 /\ i - 1 # n + 1)
        BY <3>2, SMT
      <4>2. h[i] = f[i] /\ (i # 0 => h[i - 1] = f[i - 1])
        BY <3>2, <4>1
      <4> HIDE DEF h
      <4>3. Selects(f, s, chosen, i)
        BY <2>2, <4>1
      <4>4. QED
        BY <4>2, <4>3 DEF Selects
    <3>3. QED
      BY <3>1, <3>2
  <2> HIDE DEF h
  <2>6. QED
    BY <2>4, <2>5
<1>4. Nat \subseteq Upto
  <2> HIDE DEF Upto
  <2>1. QED
    BY <1>2, <1>3, NatSetInduction
<1>5. PICK f \in [0 .. Len(s) -> Seq(S)] :
          \A i \in 0 .. Len(s) : Selects(f, s, chosen, i)
  BY <1>1, <1>4, SMTT(30)
<1>6. IsSelection(f, s, chosen)
  BY <1>5 DEF IsSelection, Selects
<1>7. QED
  BY <1>6

(* What is selected comes from different places of the list: place is      *)
(* where each selected element was.                                        *)
LEMMA SelectedOf ==
    ASSUME NEW S, NEW s \in Seq(S), NEW chosen
    PROVE  LET r == Selected(s, chosen)
           IN  /\ r \in Seq(S)
               /\ \E place \in [1 .. Len(r) -> 1 .. Len(s)] :
                    /\ \A j \in 1 .. Len(r) : r[j] = s[place[j]] /\ r[j] \in chosen
                    /\ \A j, k \in 1 .. Len(r) : j < k => place[j] < place[k]
<1> DEFINE f == CHOOSE g : IsSelection(g, s, chosen)
<1>1. IsSelection(f, s, chosen)
  BY SelectionExists
<1>2. Selected(s, chosen) = f[Len(s)]
  BY DEF Selected, IsSelection
<1> HIDE DEF f
<1> DEFINE Fits(r, n) ==
             /\ r \in Seq(S)
             /\ \E place \in [1 .. Len(r) -> 1 .. n] :
                  /\ \A j \in 1 .. Len(r) : r[j] = s[place[j]] /\ r[j] \in chosen
                  /\ \A j, k \in 1 .. Len(r) : j < k => place[j] < place[k]
           Upto == {n \in Nat : n <= Len(s) => Fits(f[n], n)}
<1>3. Len(s) \in Nat /\ \A i \in 1 .. Len(s) : s[i] \in S
  BY LenProperties, ElementOfSeq
<1>4. 0 \in Upto
  <2>1. f[0] = <<>>
    BY <1>1, <1>3, SMT DEF IsSelection
  <2>2. <<>> \in Seq(S) /\ Len(<<>>) = 0
    BY EmptySeq
  <2>3. 1 .. 0 = {}
    BY SMT
  <2>4. Fits(<<>>, 0)
    <3> DEFINE place == [j \in 1 .. 0 |-> j]
    <3>1. place \in [1 .. Len(<<>>) -> 1 .. 0]
      BY <2>2
    <3>2. QED
      BY <2>2, <2>3, <3>1
  <2> HIDE DEF Fits
  <2>5. QED
    BY <2>1, <2>4
<1>5. ASSUME NEW n \in Nat, n \in Upto
      PROVE  n + 1 \in Upto
  <2> SUFFICES ASSUME n + 1 <= Len(s) PROVE Fits(f[n + 1], n + 1)
    OBVIOUS
  <2>1. n <= Len(s) /\ n + 1 \in 1 .. Len(s) /\ n + 1 \in 0 .. Len(s)
        /\ n + 1 # 0 /\ (n + 1) - 1 = n
    BY <1>3, SMT
  <2>2. Fits(f[n], n)
    BY <1>5, <2>1
  <2>3. f[n + 1] = IF s[n + 1] \in chosen THEN Append(f[n], s[n + 1]) ELSE f[n]
    BY <1>1, <2>1 DEF IsSelection
  <2> DEFINE r == f[n]
             x == s[n + 1]
             t == Append(r, x)
  <2>4. r \in Seq(S) /\ Len(r) \in Nat /\ x \in S
    BY <1>3, <2>1, <2>2, LenProperties
  <2>5. PICK place \in [1 .. Len(r) -> 1 .. n] :
            /\ \A j \in 1 .. Len(r) : r[j] = s[place[j]] /\ r[j] \in chosen
            /\ \A j, k \in 1 .. Len(r) : j < k => place[j] < place[k]
    BY <2>2
  <2> HIDE DEF r, x
  <2>6. ASSUME x \in chosen
        PROVE  Fits(t, n + 1)
    <3>1. /\ t \in Seq(S) /\ Len(t) = Len(r) + 1
          /\ \A j \in 1 .. Len(r) : t[j] = r[j]
          /\ t[Len(r) + 1] = x
      BY <2>4, AppendProperties
    <3> HIDE DEF t
    <3> DEFINE to == [j \in 1 .. Len(t) |-> IF j = Len(t) THEN n + 1 ELSE place[j]]
    <3>2. \A j \in 1 .. Len(t) : j # Len(t) => j \in 1 .. Len(r) /\ place[j] \in 1 .. n
      BY <2>4, <2>5, <3>1, SMT
    <3>3. to \in [1 .. Len(t) -> 1 .. n + 1]
      BY <3>2, SMT
    <3>4. ASSUME NEW j \in 1 .. Len(t)
          PROVE  t[j] = s[to[j]] /\ t[j] \in chosen
      <4>1. CASE j = Len(t)
        BY <2>6, <3>1, <4>1 DEF x
      <4>2. CASE j # Len(t)
        BY <2>5, <3>1, <3>2, <4>2
      <4>3. QED
        BY <4>1, <4>2
    <3>5. ASSUME NEW j \in 1 .. Len(t), NEW k \in 1 .. Len(t), j < k
          PROVE  to[j] < to[k]
      <4>1. j # Len(t) /\ Len(t) \in Nat
        BY <2>4, <3>1, <3>5, SMT
      <4>2. CASE k = Len(t)
        <5>1. to[j] = place[j] /\ to[k] = n + 1 /\ place[j] \in 1 .. n
          BY <3>2, <4>1, <4>2
        <5>2. QED
          BY <5>1, SMT
      <4>3. CASE k # Len(t)
        BY <2>5, <3>2, <3>5, <4>1, <4>3
      <4>4. QED
        BY <4>2, <4>3
    <3> HIDE DEF to
    <3>6. QED
      BY <3>1, <3>3, <3>4, <3>5
  <2>7. ASSUME x \notin chosen
        PROVE  Fits(r, n + 1)
    <3>1. place \in [1 .. Len(r) -> 1 .. n + 1]
      <4>1. \A j \in 1 .. Len(r) : place[j] \in 1 .. n + 1
        BY <2>5, SMT
      <4>2. QED
        BY <2>5, <4>1
    <3>2. QED
      BY <2>4, <2>5, <3>1
  <2> HIDE DEF Fits
  <2>8. QED
    BY <2>3, <2>6, <2>7 DEF r, x
<1>6. Nat \subseteq Upto
  <2> HIDE DEF Upto
  <2>1. QED
    BY <1>4, <1>5, NatSetInduction
<1>7. Fits(f[Len(s)], Len(s))
  BY <1>3, <1>6, SMT
<1>8. QED
  BY <1>2, <1>7

--------------------------------------------------------------------------------
(* Cutting a list into batches *)

LEMMA ProductBounds ==
    ASSUME NEW n \in Nat \ {0}, NEW i \in Nat, NEW k \in Nat, i <= k
    PROVE  i * n \in Nat /\ k * n \in Nat /\ i * n <= k * n /\ (i + 1) * n = i * n + n
  BY SMT

(* Every batch has a place of its own in the list.                         *)
LEMMA ChunksApart ==
    ASSUME NEW n \in Nat \ {0}, NEW i \in Nat \ {0}, NEW k \in Nat \ {0},
           NEW j \in 1 .. n, NEW l \in 1 .. n, (i - 1) * n + j = (k - 1) * n + l
    PROVE  i = k
<1>1. ASSUME NEW x \in Nat, NEW y \in Nat, x < y, NEW u \in 1 .. n, NEW v \in 1 .. n
      PROVE  x * n + u < y * n + v
  <2>1. (x + 1) * n <= y * n /\ (x + 1) * n = x * n + n /\ x * n \in Nat /\ y * n \in Nat
    <3>1. x + 1 \in Nat /\ x + 1 <= y /\ x <= x + 1
      BY <1>1, SMT
    <3>2. QED
      BY <3>1, ProductBounds
  <2> DEFINE a == x * n
             b == y * n
  <2>2. a + n <= b /\ a \in Nat /\ b \in Nat
    BY <2>1
  <2> HIDE DEF a, b
  <2>3. a + u < b + v
    BY <2>2, SMT
  <2>4. QED
    BY <2>3 DEF a, b
<1>2. i - 1 \in Nat /\ k - 1 \in Nat
  BY SMT
<1>3. (i - 1) * n + j \in Nat /\ (k - 1) * n + l \in Nat
  BY <1>2, ProductBounds
<1>4. ~(i - 1 < k - 1) /\ ~(k - 1 < i - 1)
  BY <1>1, <1>2, <1>3
<1>5. QED
  BY <1>2, <1>4, SMT

LEMMA BatchesOfList ==
    ASSUME NEW S, NEW s \in Seq(S), NEW n \in Nat \ {0}
    PROVE  /\ BatchesOf(s, n) \in Seq(Seq(S))
           /\ \A i \in DOMAIN BatchesOf(s, n) :
                /\ i \in Nat \ {0}
                /\ \A j \in 1 .. Len(BatchesOf(s, n)[i]) :
                     /\ j \in 1 .. n /\ (i - 1) * n + j \in 1 .. Len(s)
                     /\ BatchesOf(s, n)[i][j] = s[(i - 1) * n + j]
<1>1. Len(s) \in Nat /\ \A i \in 1 .. Len(s) : s[i] \in S
  BY LenProperties, ElementOfSeq
<1> DEFINE N == NumChunks(s, n)
<1>2. N \in Nat /\ N * n <= Len(s) + n - 1
  <2>1. Len(s) + n - 1 \in Nat
    BY <1>1, SMT
  <2>2. \A a \in Nat : a \div n \in Nat /\ (a \div n) * n <= a
    BY SMT
  <2>3. QED
    BY <2>1, <2>2 DEF NumChunks
<1> HIDE DEF N
<1>3. ASSUME NEW i \in 1 .. N
      PROVE  /\ i \in Nat \ {0}
             /\ Chunk(s, n, i) \in Seq(S)
             /\ \A j \in 1 .. Len(Chunk(s, n, i)) :
                  /\ j \in 1 .. n /\ (i - 1) * n + j \in 1 .. Len(s)
                  /\ Chunk(s, n, i)[j] = s[(i - 1) * n + j]
  <2> DEFINE a == (i - 1) * n
             e == Min({i * n, Len(s)})
  <2>1. i \in Nat \ {0} /\ i - 1 \in Nat /\ (i - 1) + 1 = i /\ i - 1 <= i /\ i <= N
    BY <1>2, SMT
  <2>2. a \in Nat /\ i * n = a + n /\ i * n \in Nat /\ i * n <= N * n /\ N * n \in Nat
    BY <1>2, <2>1, ProductBounds
  <2>3. a + n <= Len(s) + n - 1
    <3> DEFINE b == i * n
               c == N * n
    <3>1. b \in Nat /\ c \in Nat /\ b <= c /\ c <= Len(s) + n - 1
      BY <1>2, <2>2
    <3> HIDE DEF b, c, a
    <3>2. b <= Len(s) + n - 1
      BY <1>1, <3>1, SMT
    <3>3. QED
      BY <2>2, <3>2 DEF b
  <2>4. e \in {i * n, Len(s)} /\ e <= i * n /\ e <= Len(s)
    BY <1>1, <2>2, MinOfPair
  <2> HIDE DEF a, e
  <2>5. a + 1 <= e /\ e <= Len(s) /\ e <= a + n /\ e \in Nat /\ a + 1 \in Int /\ e \in Int
    BY <1>1, <2>2, <2>3, <2>4, SMT
  <2>6. \A j \in a + 1 .. e : s[j] \in S
    <3>1. \A j \in a + 1 .. e : j \in 1 .. Len(s)
      BY <1>1, <2>2, <2>5, SMT
    <3>2. QED
      BY <1>1, <3>1
  <2>7. /\ SubSeq(s, a + 1, e) \in Seq(S)
        /\ Len(SubSeq(s, a + 1, e)) = e - (a + 1) + 1
        /\ \A j \in 1 .. e - (a + 1) + 1 : SubSeq(s, a + 1, e)[j] = s[(a + 1) + j - 1]
    BY <2>5, <2>6, SubSeqProperties
  <2>8. \A j \in 1 .. e - (a + 1) + 1 :
            j \in 1 .. n /\ a + j \in 1 .. Len(s) /\ (a + 1) + j - 1 = a + j
    BY <1>1, <2>2, <2>5, SMT
  <2>9. Chunk(s, n, i) = SubSeq(s, a + 1, e)
    BY DEF Chunk, a, e
  <2>10. QED
    BY <2>1, <2>7, <2>8, <2>9 DEF a
<1>4. DOMAIN BatchesOf(s, n) = 1 .. N /\ \A i \in 1 .. N : BatchesOf(s, n)[i] = Chunk(s, n, i)
  BY DEF BatchesOf, N
<1>5. BatchesOf(s, n) \in Seq(Seq(S))
  <2>1. BatchesOf(s, n) \in [1 .. N -> Seq(S)]
    BY <1>3 DEF BatchesOf, N
  <2>2. QED
    BY <1>2, <2>1
<1>6. QED
  BY <1>3, <1>4, <1>5

(* The address of a place that is listed once has no other place.          *)
LEMMA OnePlace ==
    ASSUME csv \in Seq(Address), NEW a, ListedOnce(a),
           NEW p \in 1 .. Len(csv), NEW q \in 1 .. Len(csv), csv[p] = a, csv[q] = a
    PROVE  p = q
<1> DEFINE places == {i \in DOMAIN csv : csv[i] = a}
<1>1. Len(csv) \in Nat /\ DOMAIN csv = 1 .. Len(csv)
  BY LenProperties
<1>2. IsFiniteSet(places)
  <2>1. IsFiniteSet(1 .. Len(csv))
    BY <1>1, FS_Interval
  <2>2. places \in SUBSET (1 .. Len(csv))
    BY <1>1
  <2>3. QED
    BY <2>1, <2>2, FS_Subset
<1>3. \E x : places = {x}
  BY <1>2, FS_Singleton DEF ListedOnce
<1>4. QED
  BY <1>1, <1>3

(* The batches that mass_send starts with hold addresses without a         *)
(* signature, and one that is listed once is in one batch.                 *)
LEMMA BatchesOfUnsent ==
    ASSUME csv \in Seq(Address), NEW record
    PROVE  LET b == BatchesOf(NotSentYet(record), MaxPerSend)
           IN  /\ b \in Seq(Seq(Address))
               /\ \A i \in DOMAIN b : \A a \in ToSet(b[i]) :
                    /\ record[a] = NoSignature
                    /\ \A k \in DOMAIN b : ListedOnce(a) /\ a \in ToSet(b[k]) => k = i
<1> DEFINE n == MaxPerSend
           unsent == {a \in Address : record[a] = NoSignature}
           r == Selected(csv, unsent)
           b == BatchesOf(r, n)
<1>1. n \in Nat \ {0} /\ NotSentYet(record) = r
  BY MassSendAssumption DEF NotSentYet
<1>2. r \in Seq(Address)
  BY SelectedOf
<1>3. PICK place \in [1 .. Len(r) -> 1 .. Len(csv)] :
          /\ \A j \in 1 .. Len(r) : r[j] = csv[place[j]] /\ r[j] \in unsent
          /\ \A j, k \in 1 .. Len(r) : j < k => place[j] < place[k]
  BY SelectedOf
<1> HIDE DEF r, n
<1>4. /\ b \in Seq(Seq(Address))
      /\ \A i \in DOMAIN b :
           /\ i \in Nat \ {0}
           /\ \A j \in 1 .. Len(b[i]) :
                /\ j \in 1 .. n /\ (i - 1) * n + j \in 1 .. Len(r)
                /\ b[i][j] = r[(i - 1) * n + j]
  BY <1>1, <1>2, BatchesOfList
<1>5. \A i \in DOMAIN b : b[i] \in Seq(Address)
  BY <1>4, LenProperties, ElementOfSeq
<1> HIDE DEF b
<1>6. ASSUME NEW i \in DOMAIN b, NEW a \in ToSet(b[i])
      PROVE  /\ record[a] = NoSignature
             /\ \A k \in DOMAIN b : ListedOnce(a) /\ a \in ToSet(b[k]) => k = i
  <2>1. PICK j \in 1 .. Len(b[i]) : b[i][j] = a
    BY <1>5, <1>6, SeqToSet
  <2> DEFINE p == (i - 1) * n + j
  <2>2. p \in 1 .. Len(r) /\ r[p] = a
    BY <1>4, <2>1
  <2> HIDE DEF p
  <2>3. record[a] = NoSignature
    BY <1>3, <2>2
  <2>4. ASSUME NEW k \in DOMAIN b, ListedOnce(a), a \in ToSet(b[k])
        PROVE  k = i
    <3>1. PICK l \in 1 .. Len(b[k]) : b[k][l] = a
      BY <1>5, <2>4, SeqToSet
    <3> DEFINE q == (k - 1) * n + l
    <3>2. q \in 1 .. Len(r) /\ r[q] = a
      BY <1>4, <3>1
    <3> HIDE DEF q
    <3>3. place[p] = place[q]
      <4>1. /\ place[p] \in 1 .. Len(csv) /\ place[q] \in 1 .. Len(csv)
            /\ csv[place[p]] = a /\ csv[place[q]] = a
        BY <1>3, <2>2, <3>2
      <4>2. QED
        BY <2>4, <4>1, OnePlace
    <3>4. p = q
      <4>1. ~(p < q) /\ ~(q < p)
        <5>1. place[p] \in 1 .. Len(csv)
          BY <2>2
        <5>2. ~(place[p] < place[p])
          BY <5>1, SMT
        <5>3. QED
          BY <1>3, <2>2, <3>2, <3>3, <5>2
      <4>2. p \in Int /\ q \in Int
        BY <2>2, <3>2, SMT
      <4>3. QED
        BY <4>1, <4>2, SMT
    <3>5. /\ i \in Nat \ {0} /\ k \in Nat \ {0} /\ j \in 1 .. n /\ l \in 1 .. n
      BY <1>4, <2>1, <3>1
    <3>6. QED
      BY <1>1, <3>4, <3>5, ChunksApart DEF p, q
  <2>5. QED
    BY <2>3, <2>4
<1>7. BatchesOf(NotSentYet(record), MaxPerSend) = b
  BY <1>1 DEF b, n
<1>8. QED
  BY <1>4, <1>6, <1>7

--------------------------------------------------------------------------------
(* The last transaction with an address, of a given sequence of them       *)

LastIn(ts, sigs, a) ==
    Max({sig \in sigs : Contains(ts[sig].to, a)} \cup {NoSignature})

LEMMA LastInIsLast ==
    ASSUME NEW n \in Nat, NEW ts, NEW sigs \in SUBSET (1 .. n), NEW a
    PROVE  /\ LastIn(ts, sigs, a) \in Nat
           /\ \A sig \in sigs : Contains(ts[sig].to, a) => sig <= LastIn(ts, sigs, a)
           /\ LastIn(ts, sigs, a) # NoSignature =>
                LastIn(ts, sigs, a) \in sigs /\ Contains(ts[LastIn(ts, sigs, a)].to, a)
<1> DEFINE those == {sig \in sigs : Contains(ts[sig].to, a)} \cup {NoSignature}
<1>1. those \in SUBSET (0 .. n) /\ those # {}
  <2>1. \A sig \in those : sig \in 0 .. n
    BY SMT DEF NoSignature
  <2>2. QED
    BY <2>1
<1>2. Max(those) \in those /\ \A sig \in those : sig <= Max(those)
  BY <1>1, MaxOfBounded
<1>3. LastIn(ts, sigs, a) = Max(those)
  BY DEF LastIn
<1>4. Max(those) \in Nat
  BY <1>1, <1>2
<1>5. QED
  BY <1>2, <1>3, <1>4

(* Only what the transactions pay to matters.                              *)
LEMMA LastInSame ==
    ASSUME NEW ts, NEW us, NEW sigs, NEW a, \A sig \in sigs : us[sig].to = ts[sig].to
    PROVE  LastIn(us, sigs, a) = LastIn(ts, sigs, a)
<1>1. {sig \in sigs : Contains(us[sig].to, a)} = {sig \in sigs : Contains(ts[sig].to, a)}
  OBVIOUS
<1>2. QED
  BY <1>1 DEF LastIn

LEMMA LastInNew ==
    ASSUME NEW n \in Nat, NEW ts, NEW us, NEW sigs \in SUBSET (1 .. n), NEW a,
           \A sig \in sigs : us[sig].to = ts[sig].to
    PROVE  LastIn(us, sigs \cup {n + 1}, a) =
             IF Contains(us[n + 1].to, a) THEN n + 1 ELSE LastIn(ts, sigs, a)
<1> DEFINE those == {sig \in sigs \cup {n + 1} : Contains(us[sig].to, a)} \cup {NoSignature}
<1>1. CASE Contains(us[n + 1].to, a)
  <2>1. those \in SUBSET Nat /\ n + 1 \in those /\ \A sig \in those : sig <= n + 1
    <3>1. \A sig \in sigs \cup {n + 1} \cup {NoSignature} : sig \in Nat /\ sig <= n + 1
      BY SMT DEF NoSignature
    <3>2. QED
      BY <1>1, <3>1
  <2>2. Max(those) = n + 1
    BY <2>1, MaxIs
  <2>3. QED
    BY <1>1, <2>2 DEF LastIn
<1>2. CASE ~Contains(us[n + 1].to, a)
  <2>1. those = {sig \in sigs : Contains(us[sig].to, a)} \cup {NoSignature}
    BY <1>2
  <2>2. LastIn(us, sigs \cup {n + 1}, a) = LastIn(us, sigs, a)
    BY <2>1 DEF LastIn
  <2>3. LastIn(us, sigs, a) = LastIn(ts, sigs, a)
    <3>1. {sig \in sigs : Contains(us[sig].to, a)} = {sig \in sigs : Contains(ts[sig].to, a)}
      OBVIOUS
    <3>2. QED
      BY <3>1 DEF LastIn
  <2>4. QED
    BY <1>2, <2>2, <2>3
<1>3. QED
  BY <1>1, <1>2

LEMMA LastOfIsLastIn ==
    /\ \A sigs, a : LastOf(sigs, a) = LastIn(transactions, sigs, a)
    /\ \A a : LastOf(Remembered, a)' = LastIn(transactions', Remembered', a)
BY DEF LastOf, LastIn

--------------------------------------------------------------------------------
(* One transaction more *)

LEMMA QualifiedOf ==
    ASSUME NEW batch \in Seq(Address)
    PROVE  /\ Qualified(batch) \in Seq(Address)
           /\ ToSet(Qualified(batch)) \subseteq ToSet(batch)
           /\ \A a : Contains(Qualified(batch), a) <=> a \in ToSet(Qualified(batch))
<1> DEFINE q == Qualified(batch)
<1>1. /\ q \in Seq(Address)
      /\ \E place \in [1 .. Len(q) -> 1 .. Len(batch)] :
           \A j \in 1 .. Len(q) : q[j] = batch[place[j]]
  <2>1. q = Selected(batch, Valid)
    BY DEF Qualified
  <2>2. QED
    BY <2>1, SelectedOf
<1> HIDE DEF q
<1>2. \A x : x \in ToSet(q) <=> \E i \in 1 .. Len(q) : q[i] = x
  BY <1>1, SeqToSet
<1>3. \A x : x \in ToSet(batch) <=> \E i \in 1 .. Len(batch) : batch[i] = x
  BY SeqToSet
<1>4. ToSet(q) \subseteq ToSet(batch)
  BY <1>1, <1>2, <1>3
<1>5. QED
  BY <1>1, <1>2, <1>4 DEF q, Contains

LEMMA Signed ==
    ASSUME TypeOK, NEW batch \in Seq(Address), SignAndSend(batch)
    PROVE  /\ transactions' \in Seq(Transaction)
           /\ Len(transactions) \in Nat /\ DOMAIN transactions = 1 .. Len(transactions)
           /\ Len(transactions') = Len(transactions) + 1
           /\ DOMAIN transactions' = DOMAIN transactions \cup {Len(transactions) + 1}
           /\ Len(transactions) + 1 \notin DOMAIN transactions
           /\ \A sig \in DOMAIN transactions : transactions'[sig] = transactions[sig]
           /\ transactions'[Len(transactions) + 1].to = Qualified(batch)
<1> DEFINE tx == [to |-> Qualified(batch), status |-> "pending"]
           n == Len(transactions)
<1>1. transactions \in Seq(Transaction) /\ transactions' = Append(transactions, tx)
  BY DEF TypeOK, SignAndSend
<1>2. tx \in Transaction
  BY QualifiedOf DEF Transaction
<1>3. tx.to = Qualified(batch)
  OBVIOUS
<1> HIDE DEF tx
<1>4. /\ transactions' \in Seq(Transaction) /\ Len(transactions') = n + 1
      /\ \A sig \in 1 .. n : transactions'[sig] = transactions[sig]
      /\ transactions'[n + 1] = tx
  BY <1>1, <1>2, AppendProperties
<1>5. n \in Nat /\ DOMAIN transactions = 1 .. n /\ DOMAIN transactions' = 1 .. n + 1
  BY <1>1, <1>4, LenProperties
<1> HIDE DEF n
<1>6. 1 .. n + 1 = 1 .. n \cup {n + 1} /\ n + 1 \notin 1 .. n
  BY <1>5, SMT
<1>7. QED
  BY <1>3, <1>4, <1>5, <1>6 DEF n

(* If all that were signed for the addresses of a batch before are no      *)
(* longer waited for, the batch may be signed.                             *)
LEMMA SupersededByNew ==
    ASSUME TypeOK, Superseded, NEW batch \in Seq(Address), SignAndSend(batch),
           csv' = csv, forgotten \subseteq forgotten', written_off \subseteq written_off',
           \A a \in ToSet(batch) : \A s \in DOMAIN transactions :
              ListedOnce(a) /\ Contains(transactions[s].to, a) => NeverAgain(s)'
    PROVE  Superseded'
<1> DEFINE n == Len(transactions)
<1>1. /\ n \in Nat /\ DOMAIN transactions = 1 .. n
      /\ DOMAIN transactions' = DOMAIN transactions \cup {n + 1}
      /\ \A sig \in DOMAIN transactions : transactions'[sig] = transactions[sig]
      /\ transactions'[n + 1].to = Qualified(batch)
  BY Signed
<1> HIDE DEF n
<1> SUFFICES ASSUME NEW s \in DOMAIN transactions', NEW t \in DOMAIN transactions',
                    NEW a \in Address, s < t, ListedOnce(a)',
                    Contains(transactions'[s].to, a), Contains(transactions'[t].to, a)
             PROVE  NeverAgain(s)'
  BY DEF Superseded
<1>2. ListedOnce(a)
  BY DEF ListedOnce
<1>3. s \in DOMAIN transactions
  BY <1>1, SMT
<1>4. CASE t \in DOMAIN transactions
  <2>1. NeverAgain(s)
    BY <1>1, <1>2, <1>3, <1>4 DEF Superseded
  <2>2. QED
    BY <1>1, <1>3, <2>1 DEF NeverAgain
<1>5. CASE t = n + 1
  <2>1. a \in ToSet(batch)
    BY <1>1, <1>5, QualifiedOf
  <2>2. QED
    BY <1>1, <1>2, <1>3, <2>1
<1>6. QED
  BY <1>1, <1>4, <1>5

LEMMA SupersededStays ==
    ASSUME Superseded, UNCHANGED <<csv, transactions>>,
           forgotten \subseteq forgotten', written_off \subseteq written_off'
    PROVE  Superseded'
<1> SUFFICES ASSUME NEW s \in DOMAIN transactions, NEW t \in DOMAIN transactions,
                    NEW a \in Address, s < t, ListedOnce(a),
                    Contains(transactions[s].to, a), Contains(transactions[t].to, a)
             PROVE  NeverAgain(s)'
  BY DEF Superseded, ListedOnce
<1>1. NeverAgain(s)
  BY DEF Superseded
<1>2. QED
  BY <1>1 DEF NeverAgain

--------------------------------------------------------------------------------
(* The record of the signatures *)

(* A map is no truncated file, unless there is no address at all.          *)
LEMMA MapsAreNoTruncated ==
    ASSUME NEW f \in [Address -> Nat], NEW g \in [Address -> Nat], f # Truncated
    PROVE  g # Truncated
<1>1. DOMAIN <<>> = {}
  <2>1. <<>> \in Seq(Nat) /\ Len(<<>>) = 0
    BY EmptySeq
  <2>2. DOMAIN <<>> = 1 .. 0
    BY <2>1, LenProperties
  <2>3. QED
    BY <2>2, SMT
<1>2. ASSUME Address = {}
      PROVE  f = <<>>
  <2>1. f \in [1 .. 0 -> Nat] /\ DOMAIN f = {}
    <3>1. 1 .. 0 = {}
      BY SMT
    <3>2. QED
      BY <1>2, <3>1
  <2>2. f \in Seq(Nat)
    BY <2>1
  <2>3. Len(f) \in Nat /\ 1 .. Len(f) = {}
    BY <2>1, <2>2, LenProperties
  <2>4. Len(f) # 0 => 1 \in 1 .. Len(f)
    BY <2>3, SMT
  <2>5. QED
    BY <2>2, <2>3, <2>4, EmptySeq
<1>3. QED
  BY <1>1, <1>2 DEF Truncated

LEMMA FileAndSent ==
    ASSUME TypeOK, RecordKept, Idle, running # "no"
    PROVE  /\ file = sent /\ sent \in [Address -> Nat] /\ file # Truncated
           /\ Remembered \subseteq DOMAIN transactions
           /\ \A a \in Address : sent[a] = LastIn(transactions, Remembered, a)
BY LastOfIsLastIn DEF TypeOK, RecordKept, Records, Remembered

LEMMA SentBatchKeeps ==
    ASSUME TypeOK, RecordKept, running # "no", Idle, NEW batch \in Seq(Address),
           SentBatch(batch), UNCHANGED <<file, running>>
    PROVE  /\ SignAndSend(batch) /\ transactions' \in Seq(Transaction)
           /\ sent' \in [Address -> Nat] /\ writing' = "create"
           /\ faults' = faults /\ forgotten' = forgotten
           /\ forgotten' \subseteq DOMAIN transactions'
           /\ \A a \in Address : a \notin ToSet(batch) => sent'[a] = sent[a]
           /\ RecordKept'
<1> DEFINE n == Len(transactions)
<1>1. /\ SignAndSend(batch) /\ forgotten' = forgotten /\ faults' = faults
      /\ sent' = [a \in Address |-> IF a \in ToSet(Qualified(batch)) THEN n + 1 ELSE sent[a]]
      /\ writing' = "create"
  BY DEF SentBatch
<1>2. /\ transactions' \in Seq(Transaction)
      /\ n \in Nat /\ DOMAIN transactions = 1 .. n
      /\ Len(transactions') = n + 1
      /\ DOMAIN transactions' = DOMAIN transactions \cup {n + 1}
      /\ n + 1 \notin DOMAIN transactions
      /\ \A sig \in DOMAIN transactions : transactions'[sig] = transactions[sig]
      /\ transactions'[n + 1].to = Qualified(batch)
  BY <1>1, Signed
<1>3. /\ file = sent /\ sent \in [Address -> Nat] /\ file # Truncated
      /\ Remembered \subseteq DOMAIN transactions
      /\ \A a \in Address : sent[a] = LastIn(transactions, Remembered, a)
  BY FileAndSent
<1> HIDE DEF n
<1>4. sent' \in [Address -> Nat]
  <2>1. n + 1 \in Nat
    BY <1>2, SMT
  <2>2. QED
    BY <1>1, <1>3, <2>1
<1>5. \A a \in Address : a \notin ToSet(batch) => sent'[a] = sent[a]
  BY <1>1, QualifiedOf
<1>6. forgotten \subseteq DOMAIN transactions
  BY DEF TypeOK
<1>7. /\ Remembered' = Remembered \cup {n + 1} /\ n + 1 \in Remembered'
      /\ Remembered' \ {n + 1} = Remembered
  BY <1>1, <1>2, <1>6 DEF Remembered
<1>8. \A sig \in Remembered : transactions'[sig].to = transactions[sig].to
  BY <1>2, <1>3
<1>9. ASSUME NEW a \in Address
      PROVE  /\ sent'[a] = LastIn(transactions', Remembered', a)
             /\ file[a] = LastIn(transactions', Remembered' \ {n + 1}, a)
  <2>1. LastIn(transactions', Remembered', a) =
          IF Contains(Qualified(batch), a) THEN n + 1 ELSE LastIn(transactions, Remembered, a)
    BY <1>2, <1>3, <1>7, <1>8, LastInNew
  <2>2. Contains(Qualified(batch), a) <=> a \in ToSet(Qualified(batch))
    BY QualifiedOf
  <2>3. LastIn(transactions', Remembered, a) = LastIn(transactions, Remembered, a)
    BY <1>8, LastInSame
  <2>4. QED
    BY <1>1, <1>3, <1>7, <2>1, <2>2, <2>3
<1>10. sent' # Truncated
  BY <1>3, <1>4, MapsAreNoTruncated
<1>11. Records(sent, Remembered)' /\ Records(file, Remembered \ {Len(transactions)})'
  BY <1>2, <1>9, LastOfIsLastIn DEF Records, LastOf, LastIn
<1>12. RecordKept'
  BY <1>1, <1>2, <1>3, <1>7, <1>10, <1>11 DEF RecordKept, Idle
<1>13. QED
  BY <1>1, <1>2, <1>4, <1>5, <1>6, <1>12

LEMMA FailedBatchKeeps ==
    ASSUME TypeOK, RecordKept, running # "no", Idle, NEW batch \in Seq(Address),
           FailedBatch(batch), UNCHANGED <<file, running>>
    PROVE  /\ (transactions' = transactions /\ forgotten' = forgotten) \/ SignAndSend(batch)
           /\ transactions' \in Seq(Transaction)
           /\ sent' = sent /\ writing' = writing /\ faults' \in Nat
           /\ forgotten \subseteq forgotten' /\ forgotten' \subseteq DOMAIN transactions'
           /\ RecordKept'
<1> DEFINE n == Len(transactions)
<1>1. /\ sent' = sent /\ writing' = writing /\ faults' = faults + 1
      /\ \/ transactions' = transactions /\ forgotten' = forgotten
         \/ SignAndSend(batch) /\ forgotten' = forgotten \cup {n + 1}
  BY DEF FailedBatch, Fault
<1>2. faults' \in Nat
  BY <1>1, SMT DEF TypeOK
<1>3. /\ file = sent /\ sent \in [Address -> Nat] /\ file # Truncated
      /\ Remembered \subseteq DOMAIN transactions
      /\ \A a \in Address : sent[a] = LastIn(transactions, Remembered, a)
  BY FileAndSent
<1>4. transactions \in Seq(Transaction) /\ forgotten \subseteq DOMAIN transactions
  BY DEF TypeOK
<1> HIDE DEF n
<1>5. /\ transactions' \in Seq(Transaction)
      /\ forgotten \subseteq forgotten' /\ forgotten' \subseteq DOMAIN transactions'
      /\ Remembered' = Remembered
      /\ \A sig \in Remembered : transactions'[sig].to = transactions[sig].to
  <2>1. CASE transactions' = transactions /\ forgotten' = forgotten
    BY <1>4, <2>1 DEF Remembered
  <2>2. CASE SignAndSend(batch) /\ forgotten' = forgotten \cup {n + 1}
    <3>1. /\ transactions' \in Seq(Transaction)
          /\ DOMAIN transactions' = DOMAIN transactions \cup {n + 1}
          /\ n + 1 \notin DOMAIN transactions
          /\ \A sig \in DOMAIN transactions : transactions'[sig] = transactions[sig]
      BY <2>2, Signed DEF n
    <3>2. QED
      BY <1>3, <1>4, <2>2, <3>1 DEF Remembered
  <2>3. QED
    BY <1>1, <2>1, <2>2
<1>6. \A a \in Address : LastIn(transactions', Remembered', a) = LastIn(transactions, Remembered, a)
  BY <1>5, LastInSame
<1>7. Records(sent, Remembered)' /\ Records(file, Remembered)'
  BY <1>1, <1>3, <1>6, LastOfIsLastIn DEF Records
<1>8. RecordKept'
  BY <1>1, <1>3, <1>7 DEF RecordKept, Idle
<1>9. QED
  BY <1>1, <1>2, <1>5, <1>8

--------------------------------------------------------------------------------
(* The steps that sign nothing *)

LEMMA InitInv == Init => Inv
<1> SUFFICES ASSUME Init PROVE Inv
  OBVIOUS
<1>1. /\ csv \in Lists /\ transactions = <<>> /\ file = NothingSent /\ running = "no"
      /\ sent = NothingSent /\ batches = <<>> /\ doubtful = {} /\ writing = "no"
      /\ faults = 0 /\ forgotten = {} /\ written_off = {}
  BY DEF Init
<1>2. DOMAIN transactions = {}
  <2>1. <<>> \in Seq(Nat) /\ Len(<<>>) = 0 /\ 1 .. 0 = {}
    BY EmptySeq, SMT
  <2>2. QED
    BY <1>1, <2>1, LenProperties
<1>3. TypeOK
  <2>1. NothingSent \in [Address -> Nat]
    BY DEF NothingSent, NoSignature
  <2>2. csv \in Seq(Address)
    BY <1>1, MassSendAssumption
  <2>3. <<>> \in Seq(Transaction) /\ <<>> \in Seq(Seq(Address))
    BY EmptySeq
  <2>4. QED
    BY <1>1, <2>1, <2>2, <2>3 DEF TypeOK
<1>4. Records(file, Remembered)
  <2>1. Remembered \in SUBSET (1 .. 0)
    BY <1>2 DEF Remembered
  <2>2. \A a \in Address : LastIn(transactions, Remembered, a) = NoSignature
    <3>1. Remembered = {}
      BY <1>2 DEF Remembered
    <3>2. \A a \in Address : LastIn(transactions, Remembered, a) # NoSignature =>
              LastIn(transactions, Remembered, a) \in Remembered
      BY <2>1, LastInIsLast
    <3>3. QED
      BY <3>1, <3>2
  <2>3. QED
    BY <1>1, <2>2, LastOfIsLastIn DEF Records, NothingSent
<1>5. RecordKept
  BY <1>1, <1>4 DEF RecordKept, Idle
<1>6. Superseded /\ BatchesNotSent /\ GroupsCurrent
  BY <1>1, <1>2 DEF Superseded, BatchesNotSent, GroupsCurrent
<1>7. QED
  BY <1>3, <1>5, <1>6 DEF Inv

LEMMA RecordsStay ==
    ASSUME UNCHANGED <<transactions, forgotten>>
    PROVE  /\ Remembered' = Remembered
           /\ UNCHANGED sent => (Records(sent, Remembered)' <=> Records(sent, Remembered))
           /\ UNCHANGED file => (Records(file, Remembered)' <=> Records(file, Remembered))
           /\ UNCHANGED file => (Records(file, Remembered \ {Len(transactions)})' <=>
                                   Records(file, Remembered \ {Len(transactions)}))
           /\ file' = sent => (Records(file, Remembered)' <=> Records(sent, Remembered))
           /\ sent' = file => (Records(sent, Remembered)' <=> Records(file, Remembered))
BY DEF Remembered, Records, LastOf

LEMMA CreateFileInv == Inv /\ CreateFile => Inv'
<1> SUFFICES ASSUME Inv, CreateFile PROVE Inv'
  OBVIOUS
<1>1. /\ writing = "create" /\ file' = Truncated /\ writing' = "write"
      /\ UNCHANGED <<csv, transactions, running, sent, batches, doubtful, faults,
                     forgotten, written_off>>
  BY DEF CreateFile, history
<1>2. TypeOK /\ RecordKept /\ Superseded /\ BatchesNotSent /\ GroupsCurrent
  BY DEF Inv
<1>3. TypeOK'
  BY <1>1, <1>2 DEF TypeOK
<1>4. RecordKept'
  BY <1>1, <1>2, RecordsStay DEF RecordKept, Idle
<1>5. Superseded'
  BY <1>1, <1>2, SupersededStays
<1>6. BatchesNotSent' /\ GroupsCurrent'
  <2>1. BatchesNotSent'
    BY <1>1, <1>2 DEF BatchesNotSent, ListedOnce
  <2>2. GroupsCurrent'
    BY <1>1, <1>2 DEF GroupsCurrent
  <2>3. QED
    BY <2>1, <2>2
<1>7. QED
  BY <1>3, <1>4, <1>5, <1>6 DEF Inv

LEMMA WriteFileInv == Inv /\ WriteFile => Inv'
<1> SUFFICES ASSUME Inv, WriteFile PROVE Inv'
  OBVIOUS
<1>1. /\ writing = "write" /\ file' = sent /\ writing' = "no"
      /\ UNCHANGED <<csv, transactions, running, sent, batches, doubtful, faults,
                     forgotten, written_off>>
  BY DEF WriteFile, FileFilled, history
<1>2. TypeOK /\ RecordKept /\ Superseded /\ BatchesNotSent /\ GroupsCurrent
  BY DEF Inv
<1>3. TypeOK'
  BY <1>1, <1>2 DEF TypeOK
<1>4. RecordKept'
  BY <1>1, <1>2, RecordsStay DEF RecordKept, Idle
<1>5. Superseded'
  BY <1>1, <1>2, SupersededStays
<1>6. BatchesNotSent' /\ GroupsCurrent'
  <2>1. BatchesNotSent'
    BY <1>1, <1>2 DEF BatchesNotSent, ListedOnce
  <2>2. GroupsCurrent'
    BY <1>1, <1>2 DEF GroupsCurrent
  <2>3. QED
    BY <2>1, <2>2
<1>7. QED
  BY <1>3, <1>4, <1>5, <1>6 DEF Inv

LEMMA StartMassSendInv == Inv /\ StartMassSend => Inv'
<1> SUFFICES ASSUME Inv, StartMassSend PROVE Inv'
  OBVIOUS
<1>1. /\ running = "no" /\ file # Truncated /\ running' = "mass_send" /\ sent' = file
      /\ batches' = BatchesOf(NotSentYet(file), MaxPerSend)
      /\ UNCHANGED <<csv, transactions, file, doubtful, writing, faults,
                     forgotten, written_off>>
  BY DEF StartMassSend, history
<1>2. TypeOK /\ RecordKept /\ Superseded
  BY DEF Inv
<1>3. /\ batches' \in Seq(Seq(Address))
      /\ \A i \in DOMAIN batches' : \A a \in ToSet(batches'[i]) :
           /\ file[a] = NoSignature
           /\ \A k \in DOMAIN batches' : ListedOnce(a) /\ a \in ToSet(batches'[k]) => k = i
  BY <1>1, <1>2, BatchesOfUnsent DEF TypeOK
<1>4. TypeOK'
  BY <1>1, <1>2, <1>3 DEF TypeOK
<1>5. RecordKept'
  BY <1>1, <1>2, RecordsStay DEF RecordKept, Idle
<1>6. Superseded'
  BY <1>1, <1>2, SupersededStays
<1>7. BatchesNotSent'
  BY <1>1, <1>3 DEF BatchesNotSent, ListedOnce
<1>8. GroupsCurrent'
  BY <1>1 DEF GroupsCurrent
<1>9. QED
  BY <1>4, <1>5, <1>6, <1>7, <1>8 DEF Inv

LEMMA StartResendInv == Inv /\ StartResend => Inv'
<1> SUFFICES ASSUME Inv, StartResend PROVE Inv'
  OBVIOUS
<1>1. /\ running = "no" /\ file # Truncated /\ running' = "resend" /\ sent' = file
      /\ doubtful' = GroupsOf(file)
      /\ UNCHANGED <<csv, transactions, file, batches, writing, faults,
                     forgotten, written_off>>
  BY DEF StartResend, history
<1>2. TypeOK /\ RecordKept /\ Superseded
  BY DEF Inv
<1>3. file \in [Address -> Nat]
  BY <1>1, <1>2 DEF TypeOK
<1>4. ASSUME NEW group \in doubtful'
      PROVE  /\ group \in Group /\ group.signature # NoSignature /\ group.addresses # {}
             /\ group.addresses = {a \in Address : file[a] = group.signature}
             /\ group = [signature |-> group.signature, addresses |-> group.addresses]
  <2>1. PICK sig \in {file[a] : a \in Address} \ {NoSignature} :
            group = [signature |-> sig, addresses |-> {a \in Address : file[a] = sig}]
    BY <1>1 DEF GroupsOf
  <2>2. sig \in Nat /\ \E a \in Address : file[a] = sig
    BY <1>3, <2>1
  <2>3. QED
    BY <2>1, <2>2 DEF Group
<1>5. TypeOK'
  BY <1>1, <1>2, <1>3, <1>4 DEF TypeOK
<1>6. RecordKept'
  BY <1>1, <1>2, RecordsStay DEF RecordKept, Idle
<1>7. Superseded'
  BY <1>1, <1>2, SupersededStays
<1>8. GroupsCurrent'
  <2>1. ASSUME NEW group \in doubtful', NEW other \in doubtful',
               group.signature = other.signature
        PROVE  group = other
    BY <1>4, <2>1
  <2>2. QED
    BY <1>1, <1>4, <2>1 DEF GroupsCurrent
<1>9. BatchesNotSent'
  BY <1>1 DEF BatchesNotSent
<1>10. QED
  BY <1>5, <1>6, <1>7, <1>8, <1>9 DEF Inv

LEMMA FinishInv == Inv /\ Finish => Inv'
<1> SUFFICES ASSUME Inv, Finish PROVE Inv'
  OBVIOUS
<1>1. /\ running # "no" /\ Idle /\ running' = "no" /\ sent' = NothingSent
      /\ batches' = <<>> /\ doubtful' = {} /\ writing' = "no"
      /\ UNCHANGED <<csv, transactions, file, faults, forgotten, written_off>>
  BY DEF Finish, Forget, history
<1>2. TypeOK /\ RecordKept /\ Superseded
  BY DEF Inv
<1>3. TypeOK'
  <2>1. NothingSent \in [Address -> Nat] /\ <<>> \in Seq(Seq(Address))
    BY EmptySeq DEF NothingSent, NoSignature
  <2>2. QED
    BY <1>1, <1>2, <2>1 DEF TypeOK
<1>4. RecordKept'
  BY <1>1, <1>2, RecordsStay DEF RecordKept, Idle
<1>5. Superseded'
  BY <1>1, <1>2, SupersededStays
<1>6. BatchesNotSent' /\ GroupsCurrent'
  BY <1>1 DEF BatchesNotSent, GroupsCurrent
<1>7. QED
  BY <1>3, <1>4, <1>5, <1>6 DEF Inv

(* A death while the file is written loses the signature on its way, and   *)
(* either the file is left as it was before that one or it is empty.       *)
LEMMA CrashInv == Inv /\ Crash => Inv'
<1> SUFFICES ASSUME Inv, Crash PROVE Inv'
  OBVIOUS
<1>1. /\ running # "no" /\ running' = "no" /\ sent' = NothingSent
      /\ batches' = <<>> /\ doubtful' = {} /\ writing' = "no" /\ faults' = faults + 1
      /\ forgotten' = IF Idle THEN forgotten ELSE forgotten \cup {Len(transactions)}
      /\ UNCHANGED <<csv, transactions, file, written_off>>
  BY DEF Crash, Forget, Fault
<1>2. TypeOK /\ RecordKept /\ Superseded
  BY DEF Inv
<1>3. forgotten' \subseteq DOMAIN transactions
  BY <1>1, <1>2 DEF RecordKept, Remembered, TypeOK
<1>4. TypeOK'
  <2>1. NothingSent \in [Address -> Nat] /\ <<>> \in Seq(Seq(Address))
    BY EmptySeq DEF NothingSent, NoSignature
  <2>2. faults' \in Nat
    BY <1>1, <1>2, SMT DEF TypeOK
  <2>3. QED
    BY <1>1, <1>2, <1>3, <2>1, <2>2 DEF TypeOK
<1>5. RecordKept'
  <2>1. CASE Idle
    BY <1>1, <1>2, <2>1, RecordsStay DEF RecordKept, Idle
  <2>2. CASE writing = "create"
    <3>1. Remembered' = Remembered \ {Len(transactions)}
      BY <1>1, <2>2 DEF Remembered, Idle
    <3>2. Records(file, Remembered)'
      BY <1>1, <1>2, <2>2, <3>1 DEF RecordKept, Records, LastOf
    <3>3. QED
      BY <1>1, <3>2 DEF RecordKept, Idle
  <2>3. CASE writing = "write"
    BY <1>1, <1>2, <2>3 DEF RecordKept, Idle
  <2>4. QED
    BY <1>2, <2>1, <2>2, <2>3 DEF TypeOK, Idle
<1>6. Superseded'
  BY <1>1, <1>2, SupersededStays
<1>7. BatchesNotSent' /\ GroupsCurrent'
  BY <1>1 DEF BatchesNotSent, GroupsCurrent
<1>8. QED
  BY <1>4, <1>5, <1>6, <1>7 DEF Inv

LEMMA SettleInv == \A sig \in Signature : Inv /\ Settle(sig) => Inv'
<1> SUFFICES ASSUME NEW sig \in Signature, Inv, Settle(sig) PROVE Inv'
  OBVIOUS
<1>1. PICK status \in {"ok", "failed", "expired"} :
          /\ sig <= Len(transactions) /\ transactions[sig].status = "pending"
          /\ transactions' = [transactions EXCEPT ![sig].status = status]
  BY DEF Settle
<1>2. faults' = faults \/ faults' = faults + 1
  BY DEF Settle, Fault
<1>3. UNCHANGED <<csv, file, running, sent, batches, doubtful, writing,
                  forgotten, written_off>>
  BY DEF Settle, memory, history
<1>4. TypeOK /\ RecordKept /\ Superseded /\ BatchesNotSent /\ GroupsCurrent
  BY DEF Inv
<1>5. /\ transactions \in Seq(Transaction) /\ Len(transactions) \in Nat
      /\ DOMAIN transactions = 1 .. Len(transactions)
      /\ sig \in 1 .. Len(transactions)
  <2>1. transactions \in Seq(Transaction)
    BY <1>4 DEF TypeOK
  <2>2. Len(transactions) \in Nat /\ DOMAIN transactions = 1 .. Len(transactions)
    BY <2>1, LenProperties
  <2>3. sig \in Nat /\ sig >= 1
    BY MassSendAssumption, SMT DEF Signature
  <2>4. QED
    BY <1>1, <2>1, <2>2, <2>3, SMT
<1>6. /\ DOMAIN transactions' = DOMAIN transactions
      /\ transactions' \in Seq(Transaction)
      /\ Len(transactions') = Len(transactions)
      /\ \A s \in DOMAIN transactions :
           /\ transactions'[s].to = transactions[s].to
           /\ s # sig => transactions'[s] = transactions[s]
  <2> DEFINE tx == [transactions[sig] EXCEPT !.status = status]
  <2>1. transactions' = [transactions EXCEPT ![sig] = tx]
    BY <1>1
  <2>2. transactions[sig] \in Transaction
    BY <1>5, ElementOfSeq
  <2>3. tx \in Transaction /\ tx.to = transactions[sig].to
    BY <2>2 DEF Transaction
  <2> HIDE DEF tx
  <2>4. /\ transactions' \in Seq(Transaction)
        /\ Len(transactions') = Len(transactions)
        /\ \A s \in 1 .. Len(transactions) :
             transactions'[s] = IF s = sig THEN tx ELSE transactions[s]
    BY <1>5, <2>1, <2>3, ExceptSeq
  <2>5. DOMAIN transactions' = DOMAIN transactions
    BY <2>1
  <2>6. QED
    BY <1>5, <2>3, <2>4, <2>5
<1>7. TypeOK'
  <2>1. faults' \in Nat
    BY <1>2, <1>4, SMT DEF TypeOK
  <2>2. QED
    BY <1>3, <1>4, <1>6, <2>1 DEF TypeOK
<1>8. RecordKept'
  <2>1. Remembered' = Remembered /\ Remembered \subseteq DOMAIN transactions
    BY <1>3, <1>6 DEF Remembered
  <2>2. /\ \A a : LastOf(Remembered, a)' = LastOf(Remembered, a)
        /\ \A a : LastOf(Remembered \ {Len(transactions)}, a)' =
                    LastOf(Remembered \ {Len(transactions)}, a)
    <3>1. ASSUME NEW a, NEW sigs, sigs \subseteq DOMAIN transactions
          PROVE  {s \in sigs : Contains(transactions'[s].to, a)} =
                   {s \in sigs : Contains(transactions[s].to, a)}
      BY <1>6, <3>1
    <3>2. QED
      BY <1>6, <2>1, <3>1 DEF LastOf
  <2>3. QED
    BY <1>3, <1>4, <1>6, <2>1, <2>2 DEF RecordKept, Records, Idle
<1>9. Superseded'
  <2> SUFFICES ASSUME NEW s \in DOMAIN transactions, NEW t \in DOMAIN transactions,
                      NEW a \in Address, s < t, ListedOnce(a),
                      Contains(transactions[s].to, a), Contains(transactions[t].to, a)
               PROVE  NeverAgain(s)'
    BY <1>3, <1>6 DEF Superseded, ListedOnce
  <2>1. NeverAgain(s)
    BY <1>4 DEF Superseded
  <2>2. QED
    BY <1>1, <1>3, <1>6, <2>1 DEF NeverAgain
<1>10. BatchesNotSent' /\ GroupsCurrent'
  BY <1>3, <1>4, SMTT(30) DEF BatchesNotSent, GroupsCurrent, ListedOnce
<1>11. QED
  BY <1>7, <1>8, <1>9, <1>10 DEF Inv

--------------------------------------------------------------------------------
(* The steps that sign                                                     *)

(* mass_send signs for addresses without a signature: what was signed for  *)
(* one of them before is forgotten.                                        *)
LEMMA SendBatchInv == Inv /\ SendBatch => Inv'
<1> SUFFICES ASSUME Inv, SendBatch PROVE Inv'
  OBVIOUS
<1> DEFINE batch == Head(batches)
<1>1. /\ running = "mass_send" /\ Idle /\ batches # <<>>
      /\ SentBatch(batch) \/ FailedBatch(batch)
      /\ batches' = Tail(batches)
      /\ UNCHANGED <<csv, file, running, doubtful, written_off>>
  BY DEF SendBatch
<1>2. TypeOK /\ RecordKept /\ Superseded /\ BatchesNotSent
  BY DEF Inv
<1>3. /\ batch \in Seq(Address) /\ batches' \in Seq(Seq(Address)) /\ batch = batches[1]
      /\ 1 \in DOMAIN batches
      /\ \A i \in DOMAIN batches' : i \in Nat \ {0} /\ i + 1 \in DOMAIN batches
                                    /\ batches'[i] = batches[i + 1]
  <2>1. batches \in Seq(Seq(Address))
    BY <1>2 DEF TypeOK
  <2>2. /\ batch \in Seq(Address) /\ batches' \in Seq(Seq(Address))
        /\ Len(batches') = Len(batches) - 1
        /\ \A i \in 1 .. Len(batches') : batches'[i] = batches[i + 1]
        /\ Len(batches) \in Nat \ {0}
    BY <1>1, <2>1, HeadTailProperties, EmptySeq
  <2>3. DOMAIN batches = 1 .. Len(batches) /\ DOMAIN batches' = 1 .. Len(batches')
    BY <2>1, <2>2, LenProperties
  <2>4. /\ 1 \in 1 .. Len(batches)
        /\ \A i \in 1 .. Len(batches') : i \in Nat \ {0} /\ i + 1 \in 1 .. Len(batches)
    BY <2>2, SMT
  <2>5. QED
    BY <1>1, <2>2, <2>3, <2>4
<1> HIDE DEF batch
<1>4. /\ Remembered \subseteq DOMAIN transactions /\ sent \in [Address -> Nat]
      /\ \A a \in Address : sent[a] = LastIn(transactions, Remembered, a)
  BY <1>1, <1>2, FileAndSent
<1>5. \A a \in Address : ListedOnce(a) /\ a \in ToSet(batch) =>
        /\ sent[a] = NoSignature
        /\ \A i \in DOMAIN batches' : a \notin ToSet(batches'[i])
  <2>1. \A i \in DOMAIN batches' : i + 1 # 1
    BY <1>3, SMT
  <2>2. QED
    BY <1>1, <1>2, <1>3, <2>1 DEF BatchesNotSent
<1>6. ASSUME NEW a \in ToSet(batch), NEW s \in DOMAIN transactions,
             ListedOnce(a), Contains(transactions[s].to, a)
      PROVE  s \in forgotten
  <2>1. a \in Address
    BY <1>3, SeqToSet
  <2>2. LastIn(transactions, Remembered, a) = NoSignature
    BY <1>4, <1>5, <1>6, <2>1
  <2>3. Len(transactions) \in Nat /\ DOMAIN transactions = 1 .. Len(transactions)
    BY <1>2, LenProperties DEF TypeOK
  <2>4. s \in Remembered => s <= NoSignature
    BY <1>4, <1>6, <2>2, <2>3, LastInIsLast
  <2>5. ~(s <= NoSignature)
    BY <2>3, SMT DEF NoSignature
  <2>6. QED
    BY <2>4, <2>5 DEF Remembered
<1>7. /\ transactions' \in Seq(Transaction) /\ sent' \in [Address -> Nat]
      /\ writing' \in {"no", "create", "write"} /\ faults' \in Nat
      /\ forgotten \subseteq forgotten' /\ forgotten' \subseteq DOMAIN transactions'
      /\ \A a \in Address : a \notin ToSet(batch) => sent'[a] = sent[a]
      /\ FailedBatch(batch) => sent' = sent
      /\ transactions' = transactions \/ SignAndSend(batch)
      /\ RecordKept'
  <2>1. running # "no"
    BY <1>1
  <2>2. CASE SentBatch(batch)
    <3>1. /\ SignAndSend(batch) /\ transactions' \in Seq(Transaction)
          /\ sent' \in [Address -> Nat] /\ writing' = "create"
          /\ faults' = faults /\ forgotten' = forgotten
          /\ forgotten' \subseteq DOMAIN transactions'
          /\ \A a \in Address : a \notin ToSet(batch) => sent'[a] = sent[a]
          /\ RecordKept'
      BY <1>1, <1>2, <1>3, <2>1, <2>2, SentBatchKeeps
    <3>2. ~FailedBatch(batch) \/ sent' = sent
      BY DEF FailedBatch
    <3>3. faults' \in Nat
      BY <1>2, <3>1 DEF TypeOK
    <3>4. QED
      BY <3>1, <3>2, <3>3
  <2>3. CASE FailedBatch(batch)
    <3>1. /\ transactions' = transactions \/ SignAndSend(batch)
          /\ transactions' \in Seq(Transaction)
          /\ sent' = sent /\ writing' = writing /\ faults' \in Nat
          /\ forgotten \subseteq forgotten' /\ forgotten' \subseteq DOMAIN transactions'
          /\ RecordKept'
      BY <1>1, <1>2, <1>3, <2>1, <2>3, FailedBatchKeeps
    <3>2. writing' \in {"no", "create", "write"}
      BY <1>2, <3>1 DEF TypeOK
    <3>3. QED
      BY <1>4, <3>1, <3>2
  <2>4. QED
    BY <1>1, <2>2, <2>3
<1>8. TypeOK'
  BY <1>1, <1>2, <1>3, <1>7 DEF TypeOK
<1>9. Superseded'
  <2>1. CASE SignAndSend(batch)
    <3>1. \A a \in ToSet(batch) : \A s \in DOMAIN transactions :
             ListedOnce(a) /\ Contains(transactions[s].to, a) => NeverAgain(s)'
      BY <1>6, <1>7 DEF NeverAgain
    <3>2. QED
      BY <1>1, <1>2, <1>3, <1>7, <2>1, <3>1, SupersededByNew
  <2>2. CASE transactions' = transactions
    BY <1>1, <1>2, <1>7, <2>2, SupersededStays
  <2>3. QED
    BY <1>7, <2>1, <2>2
<1>10. BatchesNotSent'
  <2>0. \A a : ListedOnce(a)' <=> ListedOnce(a)
    BY <1>1 DEF ListedOnce
  <2> SUFFICES ASSUME NEW i \in DOMAIN batches', NEW a \in ToSet(batches'[i]), ListedOnce(a)
               PROVE  /\ sent'[a] = NoSignature
                      /\ \A k \in DOMAIN batches' : a \in ToSet(batches'[k]) => k = i
    BY <2>0 DEF BatchesNotSent
  <2>1. a \in Address
    <3>1. batches'[i] \in Seq(Address)
      BY <1>3, LenProperties, ElementOfSeq
    <3>2. QED
      BY <3>1, SeqToSet
  <2>2. sent[a] = NoSignature /\ a \notin ToSet(batch)
    BY <1>1, <1>2, <1>3, <1>5, <2>1 DEF BatchesNotSent
  <2>3. ASSUME NEW k \in DOMAIN batches', a \in ToSet(batches'[k])
        PROVE  k = i
    <3>1. k + 1 = i + 1
      BY <1>1, <1>2, <1>3, <2>3 DEF BatchesNotSent
    <3>2. k \in Nat /\ i \in Nat
      BY <1>3
    <3>3. QED
      BY <3>1, <3>2, SMT
  <2>4. QED
    BY <1>7, <2>1, <2>2, <2>3
<1>11. GroupsCurrent'
  BY <1>1 DEF GroupsCurrent
<1>12. QED
  BY <1>7, <1>8, <1>9, <1>10, <1>11 DEF Inv

(* resend signs for addresses of a group: its signature is their last, and *)
(* it expired, failed or is written off; earlier ones were superseded by it *)
(* already.                                                                 *)
LEMMA LookAtGroupInv == Inv /\ LookAtGroup => Inv'
<1> SUFFICES ASSUME Inv, LookAtGroup PROVE Inv'
  OBVIOUS
<1>1. /\ running = "resend" /\ Idle
      /\ UNCHANGED <<csv, file, running, batches>>
  BY DEF LookAtGroup
<1>2. PICK group \in doubtful :
          (ResendGroup(group) \/ SkipGroup(group)) /\ doubtful' = doubtful \ {group}
  BY DEF LookAtGroup
<1>3. TypeOK /\ RecordKept /\ Superseded /\ GroupsCurrent
  BY DEF Inv
<1>4. /\ Remembered \subseteq DOMAIN transactions /\ sent \in [Address -> Nat]
      /\ \A a \in Address : sent[a] = LastIn(transactions, Remembered, a)
  BY <1>1, <1>3, FileAndSent
<1>5. /\ group.addresses \in SUBSET Address /\ group.signature # NoSignature
      /\ \A a \in group.addresses : sent[a] = group.signature
      /\ \A other \in doubtful \ {group} :
           /\ other.signature # group.signature /\ other.addresses \in SUBSET Address
           /\ \A a \in other.addresses : sent[a] = other.signature
  <2>1. \A other \in doubtful : other \in Group /\ other.addresses \in SUBSET Address
    BY <1>3 DEF TypeOK, Group
  <2>2. QED
    BY <1>1, <1>3, <2>1 DEF GroupsCurrent
<1>6. BatchesNotSent'
  BY <1>1 DEF BatchesNotSent
<1>7. CASE SkipGroup(group)
  <2>1. /\ UNCHANGED <<transactions, sent, writing, forgotten, written_off>>
        /\ faults' = faults \/ faults' = faults + 1
    BY <1>7 DEF SkipGroup, Fault, history
  <2>2. TypeOK'
    <3>1. faults' \in Nat
      BY <1>3, <2>1, SMT DEF TypeOK
    <3>2. QED
      BY <1>1, <1>2, <1>3, <2>1, <3>1 DEF TypeOK
  <2>3. RecordKept'
    BY <1>1, <1>3, <2>1, RecordsStay DEF RecordKept, Idle
  <2>4. Superseded'
    BY <1>1, <1>3, <2>1, SupersededStays
  <2>5. GroupsCurrent'
    BY <1>1, <1>2, <1>3, <2>1 DEF GroupsCurrent
  <2>6. QED
    BY <1>6, <2>2, <2>3, <2>4, <2>5 DEF Inv
<1>8. CASE ResendGroup(group)
  <2> DEFINE g == group.signature
  <2>1. PICK batch \in ResendBatches(group.addresses) :
            SentBatch(batch) \/ FailedBatch(batch)
    BY <1>8 DEF ResendGroup
  <2>2. /\ transactions[g].status # "ok"
        /\ written_off' = IF transactions[g].status = "pending"
                          THEN written_off \cup {g} ELSE written_off
    BY <1>8 DEF ResendGroup, ShouldResend
  <2>3. batch \in Seq(Address) /\ ToSet(batch) \subseteq group.addresses
    <3>1. PICK some \in SUBSET group.addresses : batch = SetToSeq(some)
      BY <2>1 DEF ResendBatches, kSubset
    <3>2. some \in SUBSET Address
      BY <1>5
    <3>3. IsFiniteSet(some)
      BY <3>2, MassSendAssumption, FS_Subset
    <3>4. batch \in Seq(some) /\ ToSet(batch) \in SUBSET some
      BY <3>1, <3>3, SetToSeqOf
    <3>5. QED
      BY <3>2, <3>4, SeqMonotonic
  <2> HIDE DEF g
  <2>4. ASSUME NEW a \in ToSet(batch), NEW s \in DOMAIN transactions,
               ListedOnce(a), Contains(transactions[s].to, a)
        PROVE  \/ s \in forgotten \cup written_off'
               \/ transactions[s].status \in {"failed", "expired"}
    <3>1. Len(transactions) \in Nat /\ DOMAIN transactions = 1 .. Len(transactions)
      BY <1>3, LenProperties DEF TypeOK
    <3>2. a \in Address /\ LastIn(transactions, Remembered, a) = g /\ g # NoSignature
      BY <1>4, <1>5, <2>3, <2>4 DEF g
    <3>3. /\ g \in Remembered /\ Contains(transactions[g].to, a)
          /\ s \in Remembered => s <= g
      BY <1>4, <2>4, <3>1, <3>2, LastInIsLast
    <3>4. CASE s \notin Remembered
      BY <3>4 DEF Remembered
    <3>5. CASE s = g
      <4>1. transactions[g] \in Transaction
        BY <1>3, <1>4, <3>1, <3>3, ElementOfSeq DEF TypeOK
      <4>2. transactions[g].status \in {"pending", "failed", "expired"}
        BY <2>2, <4>1 DEF Transaction
      <4>3. QED
        BY <2>2, <3>5, <4>2
    <3>6. CASE s \in Remembered /\ s # g
      <4>1. s < g /\ g \in DOMAIN transactions
        BY <1>4, <3>1, <3>3, <3>6, SMT
      <4>2. NeverAgain(s)
        BY <1>3, <2>4, <3>2, <3>3, <4>1 DEF Superseded
      <4>3. written_off \subseteq written_off'
        BY <2>2
      <4>4. QED
        BY <4>2, <4>3 DEF NeverAgain
    <3>7. QED
      BY <3>4, <3>5, <3>6
  <2>5. /\ transactions' \in Seq(Transaction) /\ sent' \in [Address -> Nat]
        /\ writing' \in {"no", "create", "write"} /\ faults' \in Nat
        /\ forgotten \subseteq forgotten' /\ forgotten' \subseteq DOMAIN transactions'
        /\ \A a \in Address : a \notin ToSet(batch) => sent'[a] = sent[a]
        /\ transactions' = transactions \/ SignAndSend(batch)
        /\ RecordKept'
    <3>1. running # "no"
      BY <1>1
    <3>2. CASE SentBatch(batch)
      <4>1. /\ SignAndSend(batch) /\ transactions' \in Seq(Transaction)
            /\ sent' \in [Address -> Nat] /\ writing' = "create"
            /\ faults' = faults /\ forgotten' = forgotten
            /\ forgotten' \subseteq DOMAIN transactions'
            /\ \A a \in Address : a \notin ToSet(batch) => sent'[a] = sent[a]
            /\ RecordKept'
        BY <1>1, <1>3, <2>3, <3>1, <3>2, SentBatchKeeps
      <4>2. faults' \in Nat
        BY <1>3, <4>1 DEF TypeOK
      <4>3. QED
        BY <4>1, <4>2
    <3>3. CASE FailedBatch(batch)
      <4>1. /\ transactions' = transactions \/ SignAndSend(batch)
            /\ transactions' \in Seq(Transaction)
            /\ sent' = sent /\ writing' = writing /\ faults' \in Nat
            /\ forgotten \subseteq forgotten' /\ forgotten' \subseteq DOMAIN transactions'
            /\ RecordKept'
        BY <1>1, <1>3, <2>3, <3>1, <3>3, FailedBatchKeeps
      <4>2. writing' \in {"no", "create", "write"}
        BY <1>3, <4>1 DEF TypeOK
      <4>3. QED
        BY <1>4, <4>1, <4>2
    <3>4. QED
      BY <2>1, <3>2, <3>3
  <2>6. TypeOK'
    BY <1>1, <1>2, <1>3, <2>5 DEF TypeOK
  <2>7. Superseded'
    <3>1. written_off \subseteq written_off'
      BY <2>2
    <3>2. CASE SignAndSend(batch)
      <4>1. \A s \in DOMAIN transactions : transactions'[s] = transactions[s]
        BY <1>3, <2>3, <3>2, Signed
      <4>2. \A a \in ToSet(batch) : \A s \in DOMAIN transactions :
               ListedOnce(a) /\ Contains(transactions[s].to, a) => NeverAgain(s)'
        BY <2>4, <2>5, <4>1 DEF NeverAgain
      <4>3. QED
        BY <1>1, <1>3, <2>3, <2>5, <3>1, <3>2, <4>2, SupersededByNew
    <3>3. CASE transactions' = transactions
      BY <1>1, <1>3, <2>5, <3>1, <3>3, SupersededStays
    <3>4. QED
      BY <2>5, <3>2, <3>3
  <2>8. GroupsCurrent'
    <3>1. ASSUME NEW other \in doubtful', NEW a \in other.addresses
          PROVE  sent'[a] = other.signature
      <4>1. other \in doubtful \ {group} /\ a \in Address /\ sent[a] # g
        BY <1>2, <1>5, <3>1 DEF g
      <4>2. a \notin ToSet(batch)
        BY <1>5, <2>3, <4>1 DEF g
      <4>3. QED
        BY <1>5, <2>5, <3>1, <4>1, <4>2
    <3>2. QED
      BY <1>1, <1>2, <1>3, <3>1 DEF GroupsCurrent
  <2>9. QED
    BY <1>6, <2>5, <2>6, <2>7, <2>8 DEF Inv
<1>9. QED
  BY <1>2, <1>7, <1>8

LEMMA StutterInv == Inv /\ UNCHANGED vars => Inv'
<1> SUFFICES ASSUME Inv, UNCHANGED vars PROVE Inv'
  OBVIOUS
<1>1. UNCHANGED <<csv, transactions, file, running, sent, batches, doubtful, writing,
                  faults, forgotten, written_off>>
  BY DEF vars
<1>2. TypeOK /\ RecordKept /\ Superseded /\ BatchesNotSent /\ GroupsCurrent
  BY DEF Inv
<1>3. TypeOK'
  BY <1>1, <1>2 DEF TypeOK
<1>4. RecordKept'
  BY <1>1, <1>2, RecordsStay DEF RecordKept, Idle
<1>5. Superseded'
  BY <1>1, <1>2, SupersededStays
<1>6. BatchesNotSent'
  BY <1>1, <1>2 DEF BatchesNotSent, ListedOnce
<1>7. GroupsCurrent'
  BY <1>1, <1>2 DEF GroupsCurrent
<1>8. QED
  BY <1>3, <1>4, <1>5, <1>6, <1>7 DEF Inv

--------------------------------------------------------------------------------
(* Theorems *)

(* The tool's map is up to date, the file lacks at most the signature on   *)
(* its way into it, and of two transactions with the same address the      *)
(* first was given up before the second was signed (send_for_batch_address, *)
(* process_mass_send, process_resend).                                      *)
THEOREM MassSendInvariance == Spec => []Inv
<1>1. Inv /\ [Next]_vars => Inv'
  <2> SUFFICES ASSUME Inv, [Next]_vars PROVE Inv'
    OBVIOUS
  <2>1. CASE StartMassSend
    BY <2>1, StartMassSendInv
  <2>2. CASE StartResend
    BY <2>2, StartResendInv
  <2>3. CASE SendBatch
    BY <2>3, SendBatchInv
  <2>4. CASE LookAtGroup
    BY <2>4, LookAtGroupInv
  <2>5. CASE CreateFile
    BY <2>5, CreateFileInv
  <2>6. CASE WriteFile
    BY <2>6, WriteFileInv
  <2>7. CASE Finish
    BY <2>7, FinishInv
  <2>8. CASE Crash
    BY <2>8, CrashInv
  <2>9. CASE \E sig \in Signature : Settle(sig)
    BY <2>9, SettleInv
  <2>10. CASE UNCHANGED vars
    BY <2>10, StutterInv
  <2>11. QED
    BY <2>1, <2>2, <2>3, <2>4, <2>5, <2>6, <2>7, <2>8, <2>9, <2>10 DEF Next, Step
<1>2. QED
  BY InitInv, <1>1, PTL DEF Spec

(* Nobody who is listed once is paid twice, except when the first payment  *)
(* was never written down or was taken for lost while it was in flight.    *)
THEOREM PaidOnceUnlessLost == Spec => []PaidTwiceOnlyIfLost
<1>1. Inv => PaidTwiceOnlyIfLost
  <2> SUFFICES ASSUME Inv, NEW s \in DOMAIN transactions, NEW t \in DOMAIN transactions,
                      NEW a \in Address, s < t, ListedOnce(a), PaidBy(s, a), PaidBy(t, a)
               PROVE  s \in forgotten \cup written_off
    BY DEF PaidTwiceOnlyIfLost
  <2>1. NeverAgain(s)
    BY DEF Inv, Superseded, PaidBy
  <2>2. QED
    BY <2>1 DEF NeverAgain, PaidBy
<1>2. QED
  BY MassSendInvariance, <1>1, PTL

(* Between two steps of the tool the file names the last transaction of    *)
(* every address that was not forgotten: mass_send and resend decide by it. *)
THEOREM FileStaysCurrent == Spec => []FileIsCurrent
<1>1. Inv => FileIsCurrent
  BY DEF Inv, RecordKept, Records, FileIsCurrent, LastWith
<1>2. QED
  BY MassSendInvariance, <1>1, PTL
================================================================================

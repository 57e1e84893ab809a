-------------------------- MODULE LanProtocolProofs --------------------------
(***************************************************************************)
(* Proofs about LanProtocol, for any header, buffer and run, and for any   *)
(* messages.                                                               *)
(***************************************************************************)
EXTENDS LanProtocol, SequenceTheorems, WellFoundedInduction, TLAPS

-----------------------------------------------------------------------------
(* Induction. *)

\* What contains a number whenever it contains all smaller ones contains them all.
LEMMA NumbersByInduction ==
    ASSUME NEW S, \A n \in Nat : (\A m \in Nat : m < n => m \in S) => n \in S
    PROVE  Nat \subseteq S
<1> DEFINE Bad == Nat \ S
<1> SUFFICES ASSUME Bad # {} PROVE FALSE
  OBVIOUS
<1>1. PICK n \in Bad : \A m \in Bad : <<m, n>> \notin OpToRel(<, Nat)
  BY WFMin, NatLessThanWellFounded
<1>2. \A m \in Nat : m < n => m \in S
  BY <1>1 DEF OpToRel
<1> QED
  BY <1>1, <1>2

\* A set of numbers that is not empty has a least member.
LEMMA MinIsMember ==
    ASSUME NEW S, S \subseteq Nat, S # {}
    PROVE  Min(S) \in S /\ \A j \in S : Min(S) <= j
<1>1. PICK k \in S : \A j \in S : <<j, k>> \notin OpToRel(<, Nat)
  BY WFMin, NatLessThanWellFounded
<1>2. \A j \in S : ~(j < k)
  BY <1>1 DEF OpToRel
<1>3. \A j \in S : k <= j
  BY <1>2
<1> QED
  BY <1>3 DEF Min
-----------------------------------------------------------------------------
(* Sequences. *)

\* What follows a part of the first of two sequences, joined with the second, is what
\* follows that part of both joined.
LEMMA RestOfJoin ==
    ASSUME NEW S, NEW a \in Seq(S), NEW t \in Seq(S), NEW k \in 0 .. Len(a)
    PROVE  /\ SubSeq(a, k + 1, Len(a)) \in Seq(S)
           /\ Len(SubSeq(a, k + 1, Len(a))) = Len(a) - k
           /\ SubSeq(a, k + 1, Len(a)) \o t = SubSeq(a \o t, k + 1, Len(a \o t))
<1> DEFINE A == Len(a)
           T == Len(t)
           v == SubSeq(a, k + 1, A)
           l == v \o t
           w == a \o t
           r == SubSeq(w, k + 1, A + T)
<1>1. A \in Nat /\ T \in Nat /\ k \in 0 .. A
  OBVIOUS
<1>2. v \in Seq(S) /\ Len(v) = A - k
  <2>1. \A i \in k + 1 .. A : a[i] \in S
    BY <1>1, ElementOfSeq
  <2>2. k + 1 \in Int /\ A \in Int
    BY <1>1
  <2>3. v \in Seq(S) /\ Len(v) = IF k + 1 <= A THEN A - (k + 1) + 1 ELSE 0
    BY <2>1, <2>2, SubSeqProperties
  <2> HIDE DEF v
  <2> QED
    BY <1>1, <2>3
<1>3. \A i \in 1 .. A - k : v[i] = a[k + i]
  <2>1. \A i \in k + 1 .. A : a[i] \in S
    BY <1>1, ElementOfSeq
  <2>2. k + 1 \in Int /\ A \in Int
    BY <1>1
  <2>3. \A i \in 1 .. A - (k + 1) + 1 : v[i] = a[(k + 1) + i - 1]
    BY <2>1, <2>2, SubSeqProperties
  <2> HIDE DEF v
  <2> SUFFICES ASSUME NEW i \in 1 .. A - k PROVE v[i] = a[k + i]
    OBVIOUS
  <2>4. i \in 1 .. A - (k + 1) + 1 /\ (k + 1) + i - 1 = k + i
    BY <1>1
  <2> QED
    BY <2>3, <2>4
<1>4. w \in Seq(S) /\ Len(w) = A + T
  BY ConcatProperties
<1>5. \A i \in 1 .. A + T : w[i] = IF i <= A THEN a[i] ELSE t[i - A]
  BY ConcatProperties
<1> HIDE DEF v, w
<1>6. l \in Seq(S) /\ Len(l) = A - k + T
  <2>1. v \in Seq(S)
    BY <1>2
  <2>2. l \in Seq(S) /\ Len(l) = Len(v) + Len(t)
    BY <2>1, ConcatProperties
  <2> HIDE DEF l
  <2> QED
    BY <1>2, <2>2
<1>7. \A i \in 1 .. A - k + T : l[i] = IF i <= A - k THEN v[i] ELSE t[i - (A - k)]
  <2>1. v \in Seq(S)
    BY <1>2
  <2>2. \A i \in 1 .. Len(v) + Len(t) : l[i] = IF i <= Len(v) THEN v[i] ELSE t[i - Len(v)]
    BY <2>1, ConcatProperties
  <2> HIDE DEF l
  <2> QED
    BY <1>2, <2>2
<1>8. r \in Seq(S) /\ Len(r) = A + T - k
  <2>1. \A i \in k + 1 .. A + T : w[i] \in S
    BY <1>1, <1>4, ElementOfSeq
  <2>2. k + 1 \in Int /\ A + T \in Int
    BY <1>1
  <2>3. r \in Seq(S) /\ Len(r) = IF k + 1 <= A + T THEN A + T - (k + 1) + 1 ELSE 0
    BY <2>1, <2>2, SubSeqProperties
  <2> HIDE DEF r
  <2> QED
    BY <1>1, <2>3
<1>9. \A i \in 1 .. A + T - k : r[i] = w[k + i]
  <2>1. \A i \in k + 1 .. A + T : w[i] \in S
    BY <1>1, <1>4, ElementOfSeq
  <2>2. k + 1 \in Int /\ A + T \in Int
    BY <1>1
  <2>3. \A i \in 1 .. A + T - (k + 1) + 1 : r[i] = w[(k + 1) + i - 1]
    BY <2>1, <2>2, SubSeqProperties
  <2> HIDE DEF r
  <2> SUFFICES ASSUME NEW i \in 1 .. A + T - k PROVE r[i] = w[k + i]
    OBVIOUS
  <2>4. i \in 1 .. A + T - (k + 1) + 1 /\ (k + 1) + i - 1 = k + i
    BY <1>1
  <2> QED
    BY <2>3, <2>4
<1> HIDE DEF l, r, A, T
<1>10. ASSUME NEW i \in 1 .. A - k + T PROVE l[i] = r[i]
  <2>1. i \in 1 .. A + T - k /\ k + i \in 1 .. A + T
    BY <1>1
  <2>2. CASE i <= A - k
    <3>1. i \in 1 .. A - k /\ k + i <= A
      BY <1>1, <2>2
    <3> QED
      BY <1>3, <1>5, <1>7, <1>9, <2>1, <2>2, <3>1
  <2>3. CASE i > A - k
    <3>1. ~(i <= A - k) /\ ~(k + i <= A) /\ i - (A - k) = k + i - A
      BY <1>1, <2>3
    <3> QED
      <4>1. l[i] = t[i - (A - k)]
        BY <1>7, <3>1
      <4> DEFINE j == k + i
      <4>2. r[i] = w[j]
        BY <1>9, <2>1
      <4>3. j \in 1 .. A + T /\ ~(j <= A) /\ i - (A - k) = j - A
        BY <1>1, <2>1, <3>1
      <4> HIDE DEF j
      <4>4. w[j] = t[j - A]
        BY <1>5, <4>3
      <4> QED
        BY <4>1, <4>2, <4>3, <4>4
  <2> QED
    BY <1>1, <2>2, <2>3
<1>11. A - k + T = A + T - k
  BY <1>1
<1>12. l = r
  BY <1>6, <1>8, <1>10, <1>11, SeqEqual
<1> QED
  BY <1>2, <1>4, <1>12 DEF l, r, v, w, A, T

-----------------------------------------------------------------------------
(* compress and decompress. *)

\* A run is of zeros only, is not longer than its count can say and ends in the message.
LEMMA RunIsOfZeros ==
    ASSUME NEW p \in Seq(Nat), NEW i \in 1 .. Len(p)
    PROVE  /\ RunAfter(p, i) \in Nat
           /\ i + RunAfter(p, i) \in 1 .. Len(p)
           /\ \A k \in i + 1 .. i + RunAfter(p, i) : p[k] = 0
<1> DEFINE N == Len(p)
           ends == {j \in i + 1 .. N : p[j] # 0} \cup {N + 1}
           stop == Min(ends)
<1>1. N \in Nat /\ i \in 1 .. N /\ MaxRun \in Nat
  BY FramingAssumption
<1>2. ends \subseteq Nat /\ ends # {}
  BY <1>1
<1>3. stop \in ends /\ \A j \in ends : stop <= j
  BY <1>2, MinIsMember
<1>4. stop \in i + 1 .. N + 1
  BY <1>1, <1>3
<1>5. \A k \in i + 1 .. stop - 1 : p[k] = 0
  <2> SUFFICES ASSUME NEW k \in i + 1 .. stop - 1, p[k] # 0 PROVE FALSE
    OBVIOUS
  <2>1. k \in i + 1 .. N /\ k < stop
    BY <1>1, <1>4
  <2> QED
    BY <1>3, <2>1
<1> HIDE DEF stop
<1> DEFINE few == stop - i - 1
           run == Min({few, MaxRun})
<1>6. few \in Nat
  BY <1>1, <1>4
<1>7. run \in {few, MaxRun} /\ run <= few
  BY <1>1, <1>6, MinIsMember
<1>8. RunAfter(p, i) = run
  BY DEF RunAfter, stop
<1> HIDE DEF run
<1>9. run \in Nat /\ i + run \in 1 .. N /\ i + run <= stop - 1
  BY <1>1, <1>4, <1>6, <1>7
<1>10. \A k \in i + 1 .. i + run : p[k] = 0
  BY <1>1, <1>4, <1>5, <1>9
<1> QED
  BY <1>8, <1>9, <1>10

\* One step of compress: what it makes of p from i on, given what it makes of the rest.
PackStep(p, from, i) ==
    IF i > Len(p) THEN <<>>
    ELSE IF p[i] # 0 THEN <<p[i]>> \o from[i + 1]
    ELSE <<0, RunAfter(p, i)>> \o from[i + RunAfter(p, i) + 1]

PackFrom(p) == CHOOSE from : from = [i \in 1 .. Len(p) + 1 |-> PackStep(p, from, i)]

LEMMA PackedIsFrom == \A p : Packed(p) = PackFrom(p)[1]
BY DEF Packed, PackFrom, PackStep

\* A step looks at what comes after i only.
LEMMA PackStepLooksAhead ==
    ASSUME NEW p \in Seq(Nat), NEW i \in 1 .. Len(p) + 1, NEW f, NEW g,
           \A j \in i + 1 .. Len(p) + 1 : f[j] = g[j]
    PROVE  PackStep(p, f, i) = PackStep(p, g, i)
<1>1. CASE i > Len(p)
  BY <1>1 DEF PackStep
<1>2. CASE i <= Len(p)
  <2>1. i \in 1 .. Len(p) /\ i + 1 \in i + 1 .. Len(p) + 1
    BY <1>2
  <2> DEFINE run == RunAfter(p, i)
  <2>2. i + run + 1 \in i + 1 .. Len(p) + 1
    <3>1. run \in Nat /\ i + run \in 1 .. Len(p)
      BY <2>1, RunIsOfZeros
    <3> HIDE DEF run
    <3> QED
      BY <2>1, <3>1
  <2>3. f[i + 1] = g[i + 1] /\ f[i + RunAfter(p, i) + 1] = g[i + RunAfter(p, i) + 1]
    BY <2>1, <2>2
  <2> QED
    BY <2>3 DEF PackStep
<1>3. i \in Nat /\ Len(p) \in Nat
  OBVIOUS
<1> QED
  BY <1>1, <1>2, <1>3

\* compress is defined: from the end of the message, step by step.
LEMMA PackFromIsDefined ==
    ASSUME NEW p \in Seq(Nat)
    PROVE  PackFrom(p) = [i \in 1 .. Len(p) + 1 |-> PackStep(p, PackFrom(p), i)]
<1> DEFINE N == Len(p)
           Solves(f, n) == \A i \in N + 1 - n .. N + 1 : f[i] = PackStep(p, f, i)
           S == {n \in Nat : n <= N => \E f : Solves(f, n)}
<1>1. N \in Nat
  OBVIOUS
<1>2. ASSUME NEW n \in Nat, \A m \in Nat : m < n => m \in S PROVE n \in S
  <2> SUFFICES ASSUME n <= N PROVE \E f : Solves(f, n)
    OBVIOUS
  <2>1. \E f : \A i \in N + 2 - n .. N + 1 : f[i] = PackStep(p, f, i)
    <3>1. CASE n = 0
      <4>1. N + 2 - n .. N + 1 = {}
        BY <1>1, <3>1
      <4> QED
        BY <4>1
    <3>2. CASE n # 0
      <4>1. n - 1 \in Nat /\ n - 1 < n /\ n - 1 <= N /\ N + 1 - (n - 1) = N + 2 - n
        BY <1>1, <3>2
      <4>2. PICK f : Solves(f, n - 1)
        BY <1>2, <4>1
      <4> QED
        BY <4>1, <4>2
    <3> QED
      BY <3>1, <3>2
  <2>2. PICK f : \A i \in N + 2 - n .. N + 1 : f[i] = PackStep(p, f, i)
    BY <2>1
  <2> DEFINE a == N + 1 - n
             g == [i \in a .. N + 1 |-> IF i = a THEN PackStep(p, f, i) ELSE f[i]]
  <2>3. a \in 1 .. N + 1 /\ a + 1 = N + 2 - n
    BY <1>1
  <2>4. \A j \in a + 1 .. N + 1 : f[j] = g[j]
    BY <1>1, <2>3
  <2>5. g[a] = PackStep(p, f, a)
    BY <1>1, <2>3
  <2>6. ASSUME NEW i \in a .. N + 1 PROVE g[i] = PackStep(p, g, i)
    <3>1. i \in 1 .. N + 1 /\ \A j \in i + 1 .. N + 1 : f[j] = g[j]
      BY <1>1, <2>3, <2>4
    <3>2. PackStep(p, f, i) = PackStep(p, g, i)
      BY <3>1, PackStepLooksAhead
    <3>3. CASE i = a
      BY <2>5, <3>2, <3>3
    <3>4. CASE i # a
      <4>1. i \in a + 1 .. N + 1
        BY <1>1, <2>3, <3>4
      <4> QED
        BY <2>2, <2>3, <2>4, <3>2, <4>1
    <3> QED
      BY <3>3, <3>4
  <2>7. Solves(g, n)
    BY <2>6
  <2> QED
    BY <2>7
<1> HIDE DEF Solves
<1>3. Nat \subseteq S
  <2> HIDE DEF S
  <2> QED
    BY <1>2, NumbersByInduction
<1>4. PICK f : Solves(f, N)
  BY <1>1, <1>3
<1> DEFINE g == [i \in 1 .. N + 1 |-> f[i]]
<1>5. g = [i \in 1 .. N + 1 |-> PackStep(p, g, i)]
  <2>1. ASSUME NEW i \in 1 .. N + 1 PROVE f[i] = PackStep(p, g, i)
    <3>1. N + 1 - N = 1
      BY <1>1
    <3>2. f[i] = PackStep(p, f, i)
      BY <1>4, <3>1 DEF Solves
    <3>3. \A j \in i + 1 .. N + 1 : f[j] = g[j]
      BY <1>1
    <3>4. PackStep(p, f, i) = PackStep(p, g, i)
      BY <3>3, PackStepLooksAhead
    <3> QED
      BY <3>2, <3>4
  <2> QED
    BY <2>1
<1> HIDE DEF g
<1> QED
  BY <1>5 DEF PackFrom

\* compress, case by case, and what it yields.
LEMMA PackFromCases ==
    ASSUME NEW p \in Seq(Nat), NEW i \in 1 .. Len(p) + 1
    PROVE  /\ i = Len(p) + 1 => PackFrom(p)[i] = <<>>
           /\ i <= Len(p) /\ p[i] # 0 => PackFrom(p)[i] = <<p[i]>> \o PackFrom(p)[i + 1]
           /\ i <= Len(p) /\ p[i] = 0 =>
                 PackFrom(p)[i] = <<0, RunAfter(p, i)>> \o PackFrom(p)[i + RunAfter(p, i) + 1]
<1>1. PackFrom(p)[i] = PackStep(p, PackFrom(p), i)
  <2> DEFINE g == PackFrom(p)
  <2>1. g = [k \in 1 .. Len(p) + 1 |-> PackStep(p, g, k)]
    BY PackFromIsDefined
  <2> HIDE DEF g
  <2>2. g[i] = PackStep(p, g, i)
    BY <2>1
  <2> QED
    BY <2>2 DEF g
<1>2. i \in Nat /\ Len(p) \in Nat
  OBVIOUS
<1>3. (i > Len(p) <=> i = Len(p) + 1) /\ (i <= Len(p) <=> ~(i > Len(p)))
  BY <1>2
<1> QED
  BY <1>1, <1>3 DEF PackStep

LEMMA PackFromType ==
    ASSUME NEW p \in Seq(Nat), NEW i \in 1 .. Len(p) + 1
    PROVE  PackFrom(p)[i] \in Seq(Nat)
<1> DEFINE N == Len(p)
           S == {n \in Nat : n <= N => PackFrom(p)[N + 1 - n] \in Seq(Nat)}
<1>1. N \in Nat
  OBVIOUS
<1>2. ASSUME NEW n \in Nat, \A m \in Nat : m < n => m \in S PROVE n \in S
  <2> DEFINE a == N + 1 - n
  <2> SUFFICES ASSUME n <= N PROVE PackFrom(p)[a] \in Seq(Nat)
    OBVIOUS
  <2>1. a \in 1 .. N + 1
    BY <1>1
  <2>3. ASSUME a <= N, NEW b \in a + 1 .. N + 1 PROVE PackFrom(p)[b] \in Seq(Nat)
    <3>1. N + 1 - b \in Nat /\ N + 1 - b < n /\ N + 1 - b <= N /\ N + 1 - (N + 1 - b) = b
      BY <1>1, <2>1, <2>3
    <3>2. N + 1 - b \in S
      BY <1>2, <3>1
    <3> QED
      BY <3>1, <3>2
  <2> HIDE DEF a
  <2>2. CASE a = N + 1
    <3>1. PackFrom(p)[a] = <<>>
      BY <2>1, <2>2, PackFromCases
    <3> QED
      BY <3>1, EmptySeq
  <2>4. CASE a <= N /\ p[a] # 0
    <3>1. PackFrom(p)[a + 1] \in Seq(Nat)
      BY <1>1, <2>1, <2>3, <2>4
    <3>2. <<p[a]>> \in Seq(Nat)
      BY <1>1, <2>1, <2>4
    <3>3. PackFrom(p)[a] = <<p[a]>> \o PackFrom(p)[a + 1]
      BY <2>1, <2>4, PackFromCases
    <3> QED
      BY <3>1, <3>2, <3>3, ConcatProperties
  <2>5. CASE a <= N /\ p[a] = 0
    <3> DEFINE run == RunAfter(p, a)
    <3>1. run \in Nat /\ a + run \in 1 .. N
      BY <1>1, <2>1, <2>5, RunIsOfZeros
    <3>2. PackFrom(p)[a] = <<0, run>> \o PackFrom(p)[a + run + 1]
      BY <2>1, <2>5, PackFromCases
    <3> HIDE DEF run
    <3>3. a + run + 1 \in a + 1 .. N + 1
      BY <1>1, <2>1, <3>1
    <3>4. PackFrom(p)[a + run + 1] \in Seq(Nat)
      BY <2>3, <2>5, <3>3
    <3>5. <<0, run>> \in Seq(Nat)
      BY <3>1
    <3> QED
      BY <3>2, <3>4, <3>5, ConcatProperties
  <2>6. a = N + 1 \/ a <= N
    BY <1>1, <2>1
  <2> QED
    BY <2>2, <2>4, <2>5, <2>6
<1>3. Nat \subseteq S
  <2> HIDE DEF S
  <2> QED
    BY <1>2, NumbersByInduction
<1>4. N + 1 - i \in Nat /\ N + 1 - i <= N /\ N + 1 - (N + 1 - i) = i
  BY <1>1
<1> QED
  BY <1>3, <1>4

\* What compress yields is a message of bytes.
LEMMA PackedType == \A p \in Seq(Nat) : Packed(p) \in Seq(Nat)
<1> SUFFICES ASSUME NEW p \in Seq(Nat) PROVE Packed(p) \in Seq(Nat)
  OBVIOUS
<1>1. 1 \in 1 .. Len(p) + 1
  OBVIOUS
<1> QED
  BY <1>1, PackFromType, PackedIsFrom

\* One step of decompress: what b stands for from i on, given what the rest stands for.
UnpackStep(b, from, i) ==
    IF i > Len(b) THEN {<<>>}
    ELSE IF b[i] # 0 THEN {<<b[i]>> \o rest : rest \in from[i + 1]}
    ELSE IF i = Len(b) THEN {}
    ELSE {[k \in 1 .. b[i + 1] + 1 |-> 0] \o rest : rest \in from[i + 2]}

UnpackFrom(b) == CHOOSE from : from = [i \in 1 .. Len(b) + 1 |-> UnpackStep(b, from, i)]

LEMMA UnpackedIsFrom == \A b : Unpacked(b) = UnpackFrom(b)[1]
BY DEF Unpacked, UnpackFrom, UnpackStep

LEMMA UnpackStepLooksAhead ==
    ASSUME NEW b \in Seq(Nat), NEW i \in 1 .. Len(b) + 1, NEW f, NEW g,
           \A j \in i + 1 .. Len(b) + 1 : f[j] = g[j]
    PROVE  UnpackStep(b, f, i) = UnpackStep(b, g, i)
<1>1. CASE i > Len(b)
  BY <1>1 DEF UnpackStep
<1>2. CASE i < Len(b)
  <2>1. i + 1 \in i + 1 .. Len(b) + 1 /\ i + 2 \in i + 1 .. Len(b) + 1
    BY <1>2
  <2>2. f[i + 1] = g[i + 1] /\ f[i + 2] = g[i + 2]
    BY <2>1
  <2> QED
    BY <2>2 DEF UnpackStep
<1>3. CASE i = Len(b)
  <2>1. i + 1 \in i + 1 .. Len(b) + 1
    BY <1>3
  <2>2. f[i + 1] = g[i + 1]
    BY <2>1
  <2> QED
    BY <1>3, <2>2 DEF UnpackStep
<1>4. i \in Nat /\ Len(b) \in Nat
  OBVIOUS
<1> QED
  BY <1>1, <1>2, <1>3, <1>4

\* decompress is defined, from the end.
LEMMA UnpackFromIsDefined ==
    ASSUME NEW b \in Seq(Nat)
    PROVE  UnpackFrom(b) = [i \in 1 .. Len(b) + 1 |-> UnpackStep(b, UnpackFrom(b), i)]
<1> DEFINE N == Len(b)
           Solves(f, n) == \A i \in N + 1 - n .. N + 1 : f[i] = UnpackStep(b, f, i)
           S == {n \in Nat : n <= N => \E f : Solves(f, n)}
<1>1. N \in Nat
  OBVIOUS
<1>2. ASSUME NEW n \in Nat, \A m \in Nat : m < n => m \in S PROVE n \in S
  <2> SUFFICES ASSUME n <= N PROVE \E f : Solves(f, n)
    OBVIOUS
  <2>1. \E f : \A i \in N + 2 - n .. N + 1 : f[i] = UnpackStep(b, f, i)
    <3>1. CASE n = 0
      <4>1. N + 2 - n .. N + 1 = {}
        BY <1>1, <3>1
      <4> QED
        BY <4>1
    <3>2. CASE n # 0
      <4>1. n - 1 \in Nat /\ n - 1 < n /\ n - 1 <= N /\ N + 1 - (n - 1) = N + 2 - n
        BY <1>1, <3>2
      <4>2. PICK f : Solves(f, n - 1)
        BY <1>2, <4>1
      <4> QED
        BY <4>1, <4>2
    <3> QED
      BY <3>1, <3>2
  <2>2. PICK f : \A i \in N + 2 - n .. N + 1 : f[i] = UnpackStep(b, f, i)
    BY <2>1
  <2> DEFINE a == N + 1 - n
             g == [i \in a .. N + 1 |-> IF i = a THEN UnpackStep(b, f, i) ELSE f[i]]
  <2>3. a \in 1 .. N + 1 /\ a + 1 = N + 2 - n
    BY <1>1
  <2>4. \A j \in a + 1 .. N + 1 : f[j] = g[j]
    BY <1>1, <2>3
  <2>5. g[a] = UnpackStep(b, f, a)
    BY <1>1, <2>3
  <2>6. ASSUME NEW i \in a .. N + 1 PROVE g[i] = UnpackStep(b, g, i)
    <3>1. i \in 1 .. N + 1 /\ \A j \in i + 1 .. N + 1 : f[j] = g[j]
      BY <1>1, <2>3, <2>4
    <3>2. UnpackStep(b, f, i) = UnpackStep(b, g, i)
      BY <3>1, UnpackStepLooksAhead
    <3>3. CASE i = a
      BY <2>5, <3>2, <3>3
    <3>4. CASE i # a
      <4>1. i \in a + 1 .. N + 1
        BY <1>1, <2>3, <3>4
      <4> QED
        BY <2>2, <2>3, <2>4, <3>2, <4>1
    <3> QED
      BY <3>3, <3>4
  <2>7. Solves(g, n)
    BY <2>6
  <2> QED
    BY <2>7
<1> HIDE DEF Solves
<1>3. Nat \subseteq S
  <2> HIDE DEF S
  <2> QED
    BY <1>2, NumbersByInduction
<1>4. PICK f : Solves(f, N)
  BY <1>1, <1>3
<1> DEFINE g == [i \in 1 .. N + 1 |-> f[i]]
<1>5. g = [i \in 1 .. N + 1 |-> UnpackStep(b, g, i)]
  <2>1. ASSUME NEW i \in 1 .. N + 1 PROVE f[i] = UnpackStep(b, g, i)
    <3>1. N + 1 - N = 1
      BY <1>1
    <3>2. f[i] = UnpackStep(b, f, i)
      BY <1>4, <3>1 DEF Solves
    <3>3. \A j \in i + 1 .. N + 1 : f[j] = g[j]
      BY <1>1
    <3>4. UnpackStep(b, f, i) = UnpackStep(b, g, i)
      BY <3>3, UnpackStepLooksAhead
    <3> QED
      BY <3>2, <3>4
  <2> QED
    BY <2>1
<1> HIDE DEF g
<1> QED
  BY <1>5 DEF UnpackFrom

LEMMA UnpackFromCases ==
    ASSUME NEW b \in Seq(Nat), NEW i \in 1 .. Len(b) + 1
    PROVE  /\ i = Len(b) + 1 => UnpackFrom(b)[i] = {<<>>}
           /\ i <= Len(b) /\ b[i] # 0 =>
                 UnpackFrom(b)[i] = {<<b[i]>> \o rest : rest \in UnpackFrom(b)[i + 1]}
           /\ i < Len(b) /\ b[i] = 0 =>
                 UnpackFrom(b)[i] =
                    {[k \in 1 .. b[i + 1] + 1 |-> 0] \o rest : rest \in UnpackFrom(b)[i + 2]}
<1>1. UnpackFrom(b)[i] = UnpackStep(b, UnpackFrom(b), i)
  <2> DEFINE g == UnpackFrom(b)
  <2>1. g = [k \in 1 .. Len(b) + 1 |-> UnpackStep(b, g, k)]
    BY UnpackFromIsDefined
  <2> HIDE DEF g
  <2>2. g[i] = UnpackStep(b, g, i)
    BY <2>1
  <2> QED
    BY <2>2 DEF g
<1>2. i \in Nat /\ Len(b) \in Nat
  OBVIOUS
<1>3. CASE i = Len(b) + 1
  <2>1. i > Len(b) /\ ~(i <= Len(b)) /\ ~(i < Len(b))
    BY <1>2, <1>3
  <2> QED
    BY <1>1, <1>3, <2>1 DEF UnpackStep
<1>4. CASE i <= Len(b)
  <2>1. ~(i > Len(b)) /\ i # Len(b) + 1 /\ (i < Len(b) <=> i # Len(b))
    BY <1>2, <1>4
  <2> QED
    BY <1>1, <2>1 DEF UnpackStep
<1>5. i = Len(b) + 1 \/ i <= Len(b)
  BY <1>2
<1> QED
  BY <1>3, <1>4, <1>5

\* The rest of message p from i on.
Rest(p, i) == SubSeq(p, i, Len(p))

\* The rest of a message is what comes first of it and the rest after that.
LEMMA RestSplits ==
    ASSUME NEW p \in Seq(Nat), NEW i \in 1 .. Len(p), NEW n \in Nat, i + n <= Len(p) + 1,
           NEW u \in Seq(Nat), Len(u) = n, \A j \in 1 .. n : u[j] = p[i + j - 1]
    PROVE  u \o Rest(p, i + n) = Rest(p, i)
<1> DEFINE v == SubSeq(p, i, i + n - 1)
<1>1. /\ i + n - 1 \in Int /\ i \in Int /\ (i + n - 1) + 1 = i + n
      /\ \A j \in i .. i + n - 1 : p[j] \in Nat
  OBVIOUS
<1>2. v \in Seq(Nat) /\ Len(v) = n /\ \A j \in 1 .. n : v[j] = p[i + j - 1]
  <2>1. /\ v \in Seq(Nat)
        /\ Len(v) = IF i <= i + n - 1 THEN (i + n - 1) - i + 1 ELSE 0
        /\ \A j \in 1 .. (i + n - 1) - i + 1 : v[j] = p[i + j - 1]
    BY <1>1, SubSeqProperties
  <2> HIDE DEF v
  <2>2. (i + n - 1) - i + 1 = n /\ (n # 0 <=> i <= i + n - 1)
    OBVIOUS
  <2> QED
    BY <2>1, <2>2
<1> HIDE DEF v
<1>3. u = v
  BY <1>2, SeqEqual
<1>4. i \in 1 .. Len(p) + 1 /\ i + n - 1 \in i - 1 .. Len(p) /\ Len(p) \in i + n - 1 .. Len(p)
  OBVIOUS
<1>5. v \o SubSeq(p, (i + n - 1) + 1, Len(p)) = SubSeq(p, i, Len(p))
  BY <1>4, ConcatAdjacentSubSeq DEF v
<1> QED
  BY <1>1, <1>3, <1>5 DEF Rest

\* What a set of one is mapped to.
LEMMA ImageOfOne == \A u, x : {u \o y : y \in {x}} = {u \o x}
OBVIOUS

\* A prefix, then two more parts, is the prefix with the first of them, and the second.
Regrouped(a, u, q, au) ==
    /\ a \o (u \o q) = au \o q
    /\ au \in Seq(Nat) /\ Len(au) = Len(a) + Len(u)
    /\ au \o q \in Seq(Nat) /\ Len(au \o q) = Len(a) + Len(u) + Len(q)
    /\ \A j \in 1 .. Len(u) : (au \o q)[Len(a) + j] = u[j]

LEMMA PartsRegrouped ==
    ASSUME NEW a \in Seq(Nat), NEW u \in Seq(Nat), NEW q \in Seq(Nat)
    PROVE  Regrouped(a, u, q, a \o u)
<1>1. a \o u \in Seq(Nat) /\ Len(a \o u) = Len(a) + Len(u)
  BY ConcatProperties
<1>2. (a \o u) \o q \in Seq(Nat) /\ Len((a \o u) \o q) = Len(a) + Len(u) + Len(q)
  BY <1>1, ConcatProperties
<1>3. ASSUME NEW j \in 1 .. Len(u) PROVE ((a \o u) \o q)[Len(a) + j] = u[j]
  <2>1. (a \o u)[Len(a) + j] = u[j]
    <3>1. Len(a) + j \in 1 .. Len(a) + Len(u) /\ ~(Len(a) + j <= Len(a)) /\ Len(a) + j - Len(a) = j
      OBVIOUS
    <3> QED
      BY <3>1, ConcatProperties
  <2> DEFINE w == a \o u
  <2>2. Len(a) + j \in 1 .. Len(w) + Len(q) /\ Len(a) + j <= Len(w)
    BY <1>1
  <2>3. w \in Seq(Nat)
    BY <1>1
  <2> HIDE DEF w
  <2>4. (w \o q)[Len(a) + j] = w[Len(a) + j]
    BY <2>2, <2>3, ConcatProperties
  <2> QED
    BY <2>1, <2>4 DEF w
<1>4. (a \o u) \o q = a \o (u \o q)
  BY ConcatAssociative, SMTT(20)
<1> QED
  <2> DEFINE au == a \o u
             all == au \o q
  <2>1. a \o (u \o q) = all
    BY <1>4
  <2>2. /\ au \in Seq(Nat) /\ Len(au) = Len(a) + Len(u)
        /\ all \in Seq(Nat) /\ Len(all) = Len(a) + Len(u) + Len(q)
        /\ \A j \in 1 .. Len(u) : all[Len(a) + j] = u[j]
    BY <1>1, <1>2, <1>3
  <2> HIDE DEF all
  <2>3. Regrouped(a, u, q, au) <=>
            /\ a \o (u \o q) = all
            /\ au \in Seq(Nat) /\ Len(au) = Len(a) + Len(u)
            /\ all \in Seq(Nat) /\ Len(all) = Len(a) + Len(u) + Len(q)
            /\ \A j \in 1 .. Len(u) : all[Len(a) + j] = u[j]
    BY Zenon DEF Regrouped, all
  <2> QED
    BY <2>1, <2>2, <2>3

\* Where a packed message goes on with what compress made of the rest, decompress goes on
\* with the rest.
StandsFor(b, k, message) == UnpackFrom(b)[k] = {message}

LEMMA PackedIsUnpacked ==
    ASSUME NEW p \in Seq(Nat), NEW b \in Seq(Nat), NEW i \in 1 .. Len(p) + 1, NEW a \in Seq(Nat),
           b = a \o PackFrom(p)[i]
    PROVE  StandsFor(b, Len(a) + 1, Rest(p, i))
<1> DEFINE N == Len(p)
           S == {n \in Nat : n <= N => \A before \in Seq(Nat) :
                    b = before \o PackFrom(p)[N + 1 - n] =>
                    UnpackFrom(b)[Len(before) + 1] = {Rest(p, N + 1 - n)}}
<1>1. N \in Nat
  OBVIOUS
<1>2. ASSUME NEW n \in Nat, \A m \in Nat : m < n => m \in S PROVE n \in S
  <2> DEFINE at == N + 1 - n
  <2> SUFFICES ASSUME n <= N, NEW before \in Seq(Nat), b = before \o PackFrom(p)[at]
               PROVE  UnpackFrom(b)[Len(before) + 1] = {Rest(p, at)}
    OBVIOUS
  <2>1. at \in 1 .. N + 1
    BY <1>1
  <2>6. at = N + 1 \/ at <= N
    BY <1>1
  <2>2. ASSUME NEW c \in at + 1 .. N + 1, NEW more \in Seq(Nat), b = more \o PackFrom(p)[c]
        PROVE  UnpackFrom(b)[Len(more) + 1] = {Rest(p, c)}
    <3>1. N + 1 - c \in Nat /\ N + 1 - c < n /\ N + 1 - c <= N /\ N + 1 - (N + 1 - c) = c
      BY <1>1, <2>1
    <3>2. N + 1 - c \in S
      BY <1>2, <3>1
    <3> QED
      BY <2>2, <3>1, <3>2
  <2> HIDE DEF at, S
  <2> DEFINE k == Len(before) + 1
  <2>3. CASE at = N + 1
    <3>1. PackFrom(p)[at] = <<>>
      BY <2>1, <2>3, PackFromCases
    <3>2. b = before
      BY <3>1, ConcatEmptySeq
    <3>3. k \in 1 .. Len(b) + 1 /\ k = Len(b) + 1
      BY <3>2
    <3>4. UnpackFrom(b)[k] = {<<>>}
      BY <3>3, UnpackFromCases
    <3>5. Rest(p, at) = <<>>
      BY <1>1, <2>3, SubSeqEmpty DEF Rest
    <3> QED
      BY <3>4, <3>5
  <2>4. CASE at <= N /\ p[at] # 0
    <3> DEFINE x == p[at]
               q == PackFrom(p)[at + 1]
               u == <<x>>
               more == before \o u
    <3>1. at + 1 \in at + 1 .. N + 1 /\ x \in Nat /\ at \in 1 .. N /\ at + 1 \in 1 .. N + 1
      BY <1>1, <2>1, <2>4
    <3>2. PackFrom(p)[at] = u \o q
      BY <2>1, <2>4, PackFromCases
    <3>3. q \in Seq(Nat)
      BY <3>1, PackFromType
    <3>4. u \in Seq(Nat) /\ Len(u) = 1 /\ u[1] = x /\ 1 \in 1 .. Len(u)
      BY <3>1
    <3> HIDE DEF q, x, u
    <3> HIDE DEF more
    <3>14. Regrouped(before, u, q, more)
      BY <3>3, <3>4, PartsRegrouped DEF more
    <3>5. b = more \o q
      BY <3>2, <3>14 DEF Regrouped
    <3>6. more \in Seq(Nat) /\ Len(more) = k
      BY <3>4, <3>14 DEF Regrouped
    <3>7. Len(b) = Len(before) + 1 + Len(q)
      BY <3>4, <3>5, <3>14 DEF Regrouped
    <3>8. b[k] = x
      BY <3>4, <3>5, <3>14 DEF Regrouped
    <3>9. UnpackFrom(b)[k + 1] = {Rest(p, at + 1)}
      BY <2>2, <3>1, <3>5, <3>6 DEF q
    <3>10. k \in 1 .. Len(b) + 1 /\ k <= Len(b)
      BY <3>3, <3>7
    <3>11. UnpackFrom(b)[k] = {<<b[k]>> \o rest : rest \in UnpackFrom(b)[k + 1]}
      <4>1. b[k] # 0
        BY <2>4, <3>8 DEF x
      <4> QED
        BY <3>10, <4>1, UnpackFromCases
    <3>12. UnpackFrom(b)[k] = {u \o rest : rest \in {Rest(p, at + 1)}}
      BY <3>8, <3>9, <3>11 DEF u
    <3>13. u \o Rest(p, at + 1) = Rest(p, at)
      <4>1. \A j \in 1 .. 1 : u[j] = p[at + j - 1]
        BY <3>1, <3>4 DEF x
      <4>2. at \in 1 .. Len(p) /\ 1 \in Nat /\ at + 1 <= Len(p) + 1
        BY <3>1, <1>1
      <4> QED
        BY <3>4, <4>1, <4>2, RestSplits
    <3> QED
      BY <3>12, <3>13, ImageOfOne
  <2>5. CASE at <= N /\ p[at] = 0
    <3> DEFINE run == RunAfter(p, at)
               q == PackFrom(p)[at + run + 1]
               u == <<0, run>>
               more == before \o u
               zeros == [j \in 1 .. run + 1 |-> 0]
    <3>1. /\ run \in Nat /\ at \in 1 .. N /\ at + run \in 1 .. N
          /\ \A j \in at + 1 .. at + run : p[j] = 0
      <4>1. at \in 1 .. N
        BY <1>1, <2>1, <2>5
      <4> QED
        BY <4>1, RunIsOfZeros
    <3>2. PackFrom(p)[at] = u \o q
      BY <2>1, <2>5, PackFromCases
    <3> HIDE DEF run
    <3>3. at + run + 1 \in at + 1 .. N + 1 /\ at + run + 1 \in 1 .. N + 1
      BY <1>1, <3>1
    <3>4. q \in Seq(Nat)
      BY <3>3, PackFromType
    <3>5. /\ u \in Seq(Nat) /\ Len(u) = 2 /\ u[1] = 0 /\ u[2] = run
          /\ 1 \in 1 .. Len(u) /\ 2 \in 1 .. Len(u)
      BY <3>1
    <3> HIDE DEF q, u
    <3> HIDE DEF more
    <3>16. Regrouped(before, u, q, more)
      BY <3>4, <3>5, PartsRegrouped DEF more
    <3>6. b = more \o q
      BY <3>2, <3>16 DEF Regrouped
    <3>7. more \in Seq(Nat) /\ Len(more) = k + 1
      BY <3>5, <3>16 DEF Regrouped
    <3>8. Len(b) = Len(before) + 2 + Len(q)
      BY <3>5, <3>6, <3>16 DEF Regrouped
    <3>9. b[k] = 0
      BY <3>5, <3>6, <3>16 DEF Regrouped
    <3>10. b[k + 1] = run
      <4>1. b[Len(before) + 2] = run
        BY <3>5, <3>6, <3>16 DEF Regrouped
      <4>2. Len(before) + 2 = k + 1
        OBVIOUS
      <4> QED
        BY <4>1, <4>2
    <3>11. UnpackFrom(b)[k + 2] = {Rest(p, at + run + 1)}
      <4>1. UnpackFrom(b)[Len(more) + 1] = {Rest(p, at + run + 1)}
        BY <2>2, <3>3, <3>6, <3>7 DEF q
      <4>2. Len(more) + 1 = k + 2
        BY <3>7
      <4> QED
        BY <4>1, <4>2
    <3>12. k \in 1 .. Len(b) + 1 /\ k < Len(b)
      BY <3>4, <3>8
    <3>13. UnpackFrom(b)[k] = {[j \in 1 .. b[k + 1] + 1 |-> 0] \o rest : rest \in UnpackFrom(b)[k + 2]}
      BY <3>9, <3>12, UnpackFromCases
    <3>14. UnpackFrom(b)[k] = {zeros \o rest : rest \in {Rest(p, at + run + 1)}}
      BY <3>10, <3>11, <3>13
    <3>15. zeros \o Rest(p, at + run + 1) = Rest(p, at)
      <4>1. zeros \in Seq(Nat) /\ Len(zeros) = run + 1 /\ \A j \in 1 .. run + 1 : zeros[j] = 0
        BY <3>1
      <4> HIDE DEF zeros
      <4>2. \A j \in 1 .. run + 1 : zeros[j] = p[at + j - 1]
        <5> SUFFICES ASSUME NEW j \in 1 .. run + 1 PROVE zeros[j] = p[at + j - 1]
          OBVIOUS
        <5>1. at + j - 1 = at \/ at + j - 1 \in at + 1 .. at + run
          BY <3>1
        <5> QED
          BY <2>5, <3>1, <4>1, <5>1
      <4>3. /\ at \in 1 .. Len(p) /\ run + 1 \in Nat /\ at + (run + 1) <= Len(p) + 1
            /\ at + (run + 1) = at + run + 1
        BY <1>1, <3>1
      <4>4. zeros \o Rest(p, at + (run + 1)) = Rest(p, at)
        BY <4>1, <4>2, <4>3, RestSplits
      <4> QED
        BY <4>3, <4>4
    <3> QED
      BY <3>14, <3>15, ImageOfOne
  <2>7. at <= N => p[at] # 0 \/ p[at] = 0
    OBVIOUS
  <2> QED
    BY <2>3, <2>4, <2>5, <2>6, <2>7
<1>3. Nat \subseteq S
  <2> HIDE DEF S
  <2> QED
    BY <1>2, NumbersByInduction
<1>4. N + 1 - i \in Nat /\ N + 1 - i <= N /\ N + 1 - (N + 1 - i) = i
  BY <1>1
<1>5. N + 1 - i \in S
  BY <1>3, <1>4
<1> QED
  BY <1>4, <1>5 DEF StandsFor

\* decompress undoes compress, for every message and every longest run: runs cut at the
\* largest count, runs at the end and messages without a zero are put together again.
THEOREM CompressionIsUndone == \A p \in Seq(Nat) : Unpacked(Packed(p)) = {p}
<1> SUFFICES ASSUME NEW p \in Seq(Nat) PROVE Unpacked(Packed(p)) = {p}
  OBVIOUS
<1> DEFINE b == Packed(p)
<1>1. b \in Seq(Nat)
  BY PackedType
<1>2. 1 \in 1 .. Len(p) + 1
  OBVIOUS
<1>3. b = PackFrom(p)[1]
  BY PackedIsFrom
<1> HIDE DEF b
<1> DEFINE none == <<>>
<1>4. none \in Seq(Nat) /\ Len(none) + 1 = 1 /\ b = none \o PackFrom(p)[1]
  BY <1>1, <1>3, EmptySeq, ConcatEmptySeq
<1> HIDE DEF none
<1>5. UnpackFrom(b)[1] = {Rest(p, 1)}
  <2>1. StandsFor(b, Len(none) + 1, Rest(p, 1))
    BY <1>1, <1>2, <1>4, PackedIsUnpacked
  <2> QED
    BY <1>4, <2>1 DEF StandsFor
<1>6. Rest(p, 1) = p
  BY DEF Rest
<1> QED
  BY <1>5, <1>6, UnpackedIsFrom DEF b

-----------------------------------------------------------------------------
(* Frames. *)

\* What a frame of the protocol holds fits the receive buffer, and is the message.
LEMMA FrameHolds ==
    ASSUME NEW p \in Payloads
    PROVE  /\ p \in Seq(Nat) /\ FrameOf(p) \in Frame /\ FrameOf(p).body \in Seq(Nat)
           /\ Size(FrameOf(p)) \in Nat /\ HeaderSize <= Size(FrameOf(p))
           /\ Size(FrameOf(p)) <= BufferSize
           /\ Content(FrameOf(p)) = {p}
<1>1. p \in Seq(Nat) /\ Packed(p) \in Seq(Nat) /\ FrameOf(p) \in Frame
  BY FramingAssumption, PackedType DEF Frame
<1>2. HeaderSize \in Nat /\ HeaderSize + Len(p) <= BufferSize /\ BufferSize \in Nat
  BY FramingAssumption
<1>3. Len(p) \in Nat /\ Len(Packed(p)) \in Nat /\ Len(p) <= BufferSize
  BY <1>1, <1>2
<1> DEFINE f == FrameOf(p)
<1>4. CASE p # <<>> /\ Len(Packed(p)) <= Len(p)
  <2>1. f = [compressed |-> TRUE, body |-> Packed(p), decompress_length |-> Len(p)]
    BY <1>4 DEF FrameOf
  <2> HIDE DEF f
  <2>2. f.compressed = TRUE /\ f.body = Packed(p) /\ f.decompress_length = Len(p)
    BY <2>1
  <2>3. Content(f) = {q \in {p} : Len(q) = Len(p) /\ Len(q) <= BufferSize}
    <3>1. Unpacked(f.body) = {p}
      BY <1>1, <2>2, CompressionIsUndone
    <3> QED
      BY <2>2, <3>1 DEF Content
  <2>4. Content(f) = {p}
    BY <1>3, <2>3
  <2> QED
    BY <1>1, <1>2, <1>3, <1>4, <2>2, <2>4 DEF f, Size
<1>5. CASE ~(p # <<>> /\ Len(Packed(p)) <= Len(p))
  <2>1. f = [compressed |-> FALSE, body |-> p, decompress_length |-> 0]
    BY <1>5 DEF FrameOf
  <2> HIDE DEF f
  <2>2. f.compressed = FALSE /\ f.body = p
    BY <2>1
  <2>3. Content(f) = {p}
    BY <2>2 DEF Content
  <2> QED
    BY <1>1, <1>2, <1>3, <2>2, <2>3 DEF f, Size
<1> QED
  BY <1>4, <1>5

\* The bytes of a frame, and of no frame.
Byte == {b \in [of : Frame \cup {FrameOf(<<>>)}, at : Nat] : IsByte(b)}

LEMMA BytesOfFrame ==
    ASSUME NEW p \in Payloads
    PROVE  LET f == FrameOf(p) IN
           /\ Bytes(f) \in Seq(Byte) /\ Len(Bytes(f)) = Size(f)
           /\ \A k \in 1 .. Size(f) : Bytes(f)[k] = [of |-> f, at |-> k]
<1> DEFINE f == FrameOf(p)
           N == Size(f)
<1>1. f \in Frame /\ N \in Nat
  BY FrameHolds
<1>2. ASSUME NEW k \in 1 .. N PROVE [of |-> f, at |-> k] \in Byte
  BY <1>1 DEF Byte, IsByte
<1>3. Bytes(f) = [k \in 1 .. N |-> [of |-> f, at |-> k]]
  BY DEF Bytes
<1> HIDE DEF f, N
<1>4. /\ [k \in 1 .. N |-> [of |-> f, at |-> k]] \in Seq(Byte)
      /\ Len([k \in 1 .. N |-> [of |-> f, at |-> k]]) = N
  BY <1>1, <1>2
<1> QED
  BY <1>3, <1>4 DEF f, N

LEMMA NoiseIsByte == Noise \in Byte /\ Noise.at = 0
BY DEF Noise, Byte, IsByte

-----------------------------------------------------------------------------
(* The bytes of a connection. *)

\* The frames of all messages after the r-th lie in bytes one after the other, and
\* nothing else does: the i-th ends at at[i].
Laid(messages, r, bytes, at) ==
    /\ at \in [Nat -> Nat] /\ at[r] = 0 /\ at[Len(messages)] = Len(bytes)
    /\ \A i \in r .. Len(messages) : \A j \in i + 1 .. Len(messages) : at[i] < at[j]
    /\ \A i \in r + 1 .. Len(messages) :
          /\ at[i] = at[i - 1] + Size(FrameOf(messages[i]))
          /\ \A k \in 1 .. Size(FrameOf(messages[i])) :
                bytes[at[i - 1] + k] = [of |-> FrameOf(messages[i]), at |-> k]

\* Where there are bytes the first is the first of the frame of the next message, and all
\* of the frame is there.
LEMMA LaidFirst ==
    ASSUME NEW m \in Seq(Payloads), NEW r \in 0 .. Len(m), NEW bytes, NEW at,
           Len(bytes) \in Nat \ {0}, Laid(m, r, bytes, at)
    PROVE  /\ r + 1 \in 1 .. Len(m) /\ m[r + 1] \in Payloads
           /\ at[r + 1] = Size(FrameOf(m[r + 1]))
           /\ at[r + 1] <= Len(bytes)
           /\ bytes[1] = [of |-> FrameOf(m[r + 1]), at |-> 1]
<1> DEFINE s == Len(m)
           N == Size(FrameOf(m[r + 1]))
<1>1. s \in Nat /\ r \in 0 .. s
  OBVIOUS
<1>2. at \in [Nat -> Nat] /\ at[r] = 0 /\ at[s] = Len(bytes)
  BY DEF Laid
<1>3. r # s
  BY <1>2
<1>4. r + 1 \in 1 .. s /\ r + 1 \in r + 1 .. s /\ (r + 1) - 1 = r
  BY <1>1, <1>3
<1>5. m[r + 1] \in Payloads
  BY <1>4, ElementOfSeq
<1>6. N \in Nat /\ N >= 1
  BY <1>5, FrameHolds, FramingAssumption
<1>7. at[r + 1] = at[(r + 1) - 1] + N
  BY <1>4 DEF Laid
<1>8. at[r + 1] = N
  BY <1>2, <1>4, <1>6, <1>7
<1>9. bytes[1] = [of |-> FrameOf(m[r + 1]), at |-> 1]
  <2>1. \A k \in 1 .. N : bytes[at[(r + 1) - 1] + k] = [of |-> FrameOf(m[r + 1]), at |-> k]
    BY <1>4 DEF Laid
  <2> HIDE DEF N
  <2>2. 1 \in 1 .. N /\ at[(r + 1) - 1] + 1 = 1
    BY <1>2, <1>4, <1>6
  <2> QED
    BY <2>1, <2>2
<1>10. at[r + 1] <= at[s]
  <2> HIDE DEF s
  <2>0. at[s] \in Nat
    BY <1>1, <1>2
  <2>1. CASE r + 1 = s
    <3>1. at[r + 1] = at[s]
      BY <2>1
    <3> QED
      BY <2>0, <3>1
  <2>2. CASE r + 1 # s
    <3>1. r + 1 \in r .. s /\ s \in (r + 1) + 1 .. s
      BY <1>1, <1>4, <2>2
    <3>2. at[r + 1] < at[s]
      BY <3>1 DEF Laid, s
    <3> QED
      BY <1>2, <1>6, <1>8, <2>0, <3>2
  <2> QED
    BY <2>1, <2>2
<1> QED
  BY <1>2, <1>4, <1>5, <1>8, <1>9, <1>10

\* A message that is sent: its frame comes last.
LEMMA LaidSent ==
    ASSUME NEW m \in Seq(Payloads), NEW r \in 0 .. Len(m), NEW bytes \in Seq(Byte), NEW at,
           NEW p \in Payloads, Laid(m, r, bytes, at)
    PROVE  \E new : Laid(Append(m, p), r, bytes \o Bytes(FrameOf(p)), new)
<1> DEFINE s == Len(m)
           f == FrameOf(p)
           N == Size(f)
           B == Len(bytes)
           tail == Bytes(f)
           all == bytes \o tail
           mp == Append(m, p)
           new == [at EXCEPT ![s + 1] = B + N]
<1>1. s \in Nat /\ r \in 0 .. s /\ B \in Nat
  OBVIOUS
<1>2. at \in [Nat -> Nat] /\ at[r] = 0 /\ at[s] = B
  BY DEF Laid
<1>3. N \in Nat /\ N >= 1
  BY FrameHolds, FramingAssumption
<1>4. /\ tail \in Seq(Byte) /\ Len(tail) = N
      /\ \A k \in 1 .. N : tail[k] = [of |-> f, at |-> k]
  BY BytesOfFrame
<1>5. mp \in Seq(Payloads) /\ Len(mp) = s + 1 /\ mp[s + 1] = p /\ \A i \in 1 .. s : mp[i] = m[i]
  BY AppendProperties
<1> HIDE DEF tail
<1>6. all \in Seq(Byte) /\ Len(all) = B + N
  <2>1. tail \in Seq(Byte)
    BY <1>4
  <2>2. all \in Seq(Byte) /\ Len(all) = B + Len(tail)
    BY <2>1, ConcatProperties
  <2> HIDE DEF all
  <2> QED
    BY <1>4, <2>2
<1>7. \A j \in 1 .. B + N : all[j] = IF j <= B THEN bytes[j] ELSE tail[j - B]
  <2>1. tail \in Seq(Byte)
    BY <1>4
  <2>2. \A j \in 1 .. B + Len(tail) : all[j] = IF j <= B THEN bytes[j] ELSE tail[j - B]
    BY <2>1, ConcatProperties
  <2> HIDE DEF all
  <2> QED
    BY <1>4, <2>2
<1> HIDE DEF N, all, mp, s, B
<1>8. new \in [Nat -> Nat] /\ new[s + 1] = B + N /\ \A i \in Nat : i # s + 1 => new[i] = at[i]
  <2>1. s + 1 \in Nat /\ B + N \in Nat
    BY <1>1, <1>3
  <2>2. at \in [Nat -> Nat]
    BY <1>2
  <2> QED
    BY <2>1, <2>2
<1> HIDE DEF new
<1>9. new[r] = 0 /\ new[Len(mp)] = Len(all)
  <2>1. r \in Nat /\ r # s + 1
    BY <1>1
  <2> QED
    BY <1>2, <1>5, <1>6, <1>8, <2>1
<1>10. \A i \in r .. s : \A j \in i + 1 .. s : at[i] < at[j]
  BY DEF Laid, s
<1>11. ASSUME NEW i \in r .. s + 1, NEW j \in i + 1 .. s + 1 PROVE new[i] < new[j]
  <2>1. i \in Nat /\ j \in Nat /\ i # s + 1 /\ i \in r .. s
    BY <1>1
  <2>2. new[i] = at[i] /\ at[i] \in Nat
    BY <1>2, <1>8, <2>1
  <2>3. CASE j = s + 1
    <3>1. at[i] <= at[s]
      <4>1. CASE i = s
        BY <1>1, <1>2, <2>2, <4>1
      <4>2. CASE i # s
        <5>1. s \in i + 1 .. s
          BY <1>1, <2>1, <4>2
        <5>2. at[i] < at[s]
          BY <1>10, <2>1, <5>1
        <5> QED
          BY <1>1, <1>2, <2>2, <5>2
      <4> QED
        BY <4>1, <4>2
    <3> QED
      <4>1. new[j] = B + N /\ at[i] <= B
        BY <1>2, <1>8, <2>3, <3>1
      <4> QED
        BY <1>1, <1>3, <2>2, <4>1
  <2>4. CASE j # s + 1
    <3>1. j \in i + 1 .. s
      BY <1>1, <2>1, <2>4
    <3> QED
      BY <1>8, <1>10, <2>1, <2>2, <2>4, <3>1
  <2> QED
    BY <2>3, <2>4
<1>12. ASSUME NEW i \in r + 1 .. s + 1
       PROVE  /\ new[i] = new[i - 1] + Size(FrameOf(mp[i]))
              /\ \A k \in 1 .. Size(FrameOf(mp[i])) :
                    all[new[i - 1] + k] = [of |-> FrameOf(mp[i]), at |-> k]
  <2>1. i \in Nat /\ i - 1 \in Nat /\ i - 1 \in r .. s /\ i - 1 # s + 1
    BY <1>1
  <2>2. new[i - 1] = at[i - 1] /\ at[i - 1] \in Nat
    BY <1>2, <1>8, <2>1
  <2>3. CASE i = s + 1
    <3>1. i - 1 = s /\ new[i - 1] = B
      BY <1>1, <1>2, <2>2, <2>3
    <3>2. FrameOf(mp[i]) = f /\ Size(FrameOf(mp[i])) = N
      BY <1>5, <2>3 DEF N
    <3>3. ASSUME NEW k \in 1 .. N PROVE all[B + k] = [of |-> f, at |-> k]
      <4> DEFINE j == B + k
      <4>1. j \in 1 .. B + N /\ ~(j <= B) /\ j - B = k
        BY <1>1, <1>3
      <4> HIDE DEF j
      <4>2. all[j] = tail[k]
        BY <1>7, <4>1
      <4> QED
        BY <1>4, <4>2 DEF j, N
    <3> QED
      BY <1>8, <2>3, <3>1, <3>2, <3>3
  <2>4. CASE i # s + 1
    <3> DEFINE g == FrameOf(m[i])
               M == Size(g)
    <3>1. i \in r + 1 .. s /\ i \in 1 .. s /\ i - 1 \in Nat
      BY <1>1, <2>1, <2>4
    <3>2. mp[i] = m[i]
      BY <1>5, <3>1
    <3>3. new[i] = at[i]
      BY <1>8, <2>1, <2>4
    <3>4. at[i] = at[i - 1] + M /\ \A k \in 1 .. M : bytes[at[i - 1] + k] = [of |-> g, at |-> k]
      BY <3>1 DEF Laid, s
    <3>5. M \in Nat
      <4>1. m[i] \in Payloads
        BY <3>1, ElementOfSeq DEF s
      <4> QED
        BY <4>1, FrameHolds
    <3>6. at[i] <= B
      <4>1. CASE i = s
        BY <1>1, <1>2, <4>1
      <4>2. CASE i # s
        <5>1. i \in r .. s /\ s \in i + 1 .. s
          BY <1>1, <3>1, <4>2
        <5>2. at[i] < at[s]
          BY <1>10, <5>1
        <5> QED
          BY <1>1, <1>2, <2>1, <5>2
      <4> QED
        BY <4>1, <4>2
    <3> HIDE DEF M
    <3>7. ASSUME NEW k \in 1 .. M PROVE all[at[i - 1] + k] = [of |-> g, at |-> k]
      <4> DEFINE j == at[i - 1] + k
      <4>1. j \in 1 .. B + N /\ j <= B
        BY <1>1, <1>3, <2>2, <3>4, <3>5, <3>6
      <4>2. bytes[j] = [of |-> g, at |-> k]
        BY <3>4
      <4> HIDE DEF j
      <4>3. all[j] = bytes[j]
        BY <1>7, <4>1
      <4> QED
        BY <4>2, <4>3 DEF j
    <3> QED
      BY <2>2, <3>2, <3>3, <3>4, <3>7 DEF M
  <2> QED
    BY <2>3, <2>4
<1>13. Laid(mp, r, all, new)
  BY <1>5, <1>8, <1>9, <1>11, <1>12 DEF Laid
<1> QED
  BY <1>13 DEF mp, all, tail

\* The frame of the next message cut from the head: the others are laid out as they were.
LEMMA LaidCut ==
    ASSUME NEW m \in Seq(Payloads), NEW r \in 0 .. Len(m), NEW bytes \in Seq(Byte), NEW at,
           Len(bytes) # 0, Laid(m, r, bytes, at)
    PROVE  \E new : Laid(m, r + 1, SubSeq(bytes, Size(FrameOf(m[r + 1])) + 1, Len(bytes)), new)
<1> DEFINE s == Len(m)
           N == Size(FrameOf(m[r + 1]))
           B == Len(bytes)
           rest == SubSeq(bytes, N + 1, B)
           new == [i \in Nat |-> IF at[i] >= N THEN at[i] - N ELSE 0]
<1>1. s \in Nat /\ r \in 0 .. s /\ B \in Nat \ {0}
  OBVIOUS
<1>2. at \in [Nat -> Nat] /\ at[r] = 0 /\ at[s] = B
  BY DEF Laid
<1>3. r + 1 \in 1 .. s /\ m[r + 1] \in Payloads /\ at[r + 1] = N /\ at[r + 1] <= B
  BY <1>1, LaidFirst
<1>4. N \in Nat /\ N >= 1 /\ N <= B
  BY <1>3, FrameHolds, FramingAssumption
<1>5. /\ \A i \in r .. s : \A j \in i + 1 .. s : at[i] < at[j]
      /\ \A i \in r + 1 .. s :
            /\ at[i] = at[i - 1] + Size(FrameOf(m[i]))
            /\ \A k \in 1 .. Size(FrameOf(m[i])) :
                  bytes[at[i - 1] + k] = [of |-> FrameOf(m[i]), at |-> k]
  BY DEF Laid
<1>6. rest \in Seq(Byte) /\ Len(rest) = B - N
  <2> HIDE DEF N
  <2>1. \A i \in N + 1 .. B : bytes[i] \in Byte
    BY <1>1, <1>4, ElementOfSeq
  <2>2. N + 1 \in Int /\ B \in Int
    BY <1>1, <1>4
  <2>3. rest \in Seq(Byte)
    BY <2>1, <2>2, SubSeqProperties
  <2>4. Len(rest) = IF N + 1 <= B THEN B - (N + 1) + 1 ELSE 0
    BY <2>1, <2>2, SubSeqProperties
  <2> HIDE DEF rest
  <2> QED
    BY <1>1, <1>4, <2>3, <2>4
<1>7. \A j \in 1 .. B - N : rest[j] = bytes[N + j]
  <2> HIDE DEF N
  <2>1. \A i \in N + 1 .. B : bytes[i] \in Byte
    BY <1>1, <1>4, ElementOfSeq
  <2>2. N + 1 \in Int /\ B \in Int
    BY <1>1, <1>4
  <2>3. \A i \in 1 .. B - (N + 1) + 1 : rest[i] = bytes[(N + 1) + i - 1]
    BY <2>1, <2>2, SubSeqProperties
  <2> HIDE DEF rest
  <2> SUFFICES ASSUME NEW i \in 1 .. B - N PROVE rest[i] = bytes[N + i]
    OBVIOUS
  <2>4. i \in 1 .. B - (N + 1) + 1 /\ (N + 1) + i - 1 = N + i
    BY <1>1, <1>4
  <2> QED
    BY <2>3, <2>4
<1> HIDE DEF s, N, B, rest
<1>8. ASSUME NEW i \in r + 1 .. s PROVE i \in Nat /\ at[i] \in Nat /\ at[i] >= N /\ at[i] <= B
  <2>0. i \in Nat
    BY <1>1
  <2>1. i \in Nat /\ at[i] \in Nat
    BY <1>2, <2>0
  <2>2. at[i] >= N
    <3>1. CASE i = r + 1
      BY <1>3, <1>4, <3>1
    <3>2. CASE i # r + 1
      <4>1. r + 1 \in r .. s /\ i \in (r + 1) + 1 .. s
        BY <1>1, <3>2
      <4>2. at[r + 1] < at[i]
        BY <1>5, <4>1
      <4> QED
        BY <1>3, <1>4, <2>1, <4>2
    <3> QED
      BY <3>1, <3>2
  <2>3. at[i] <= B
    <3>1. CASE i = s
      BY <1>1, <1>2, <3>1
    <3>2. CASE i # s
      <4>1. i \in r .. s /\ s \in i + 1 .. s
        BY <1>1, <3>2
      <4>2. at[i] < at[s]
        BY <1>5, <4>1
      <4> QED
        BY <1>1, <1>2, <2>1, <4>2
    <3> QED
      BY <3>1, <3>2
  <2> QED
    BY <2>1, <2>2, <2>3
<1>9. new \in [Nat -> Nat] /\ \A i \in r + 1 .. s : new[i] = at[i] - N
  <2>1. ASSUME NEW i \in Nat PROVE (IF at[i] >= N THEN at[i] - N ELSE 0) \in Nat
    <3>1. at[i] \in Nat
      BY <1>2
    <3> QED
      BY <1>4, <3>1
  <2>2. ASSUME NEW i \in r + 1 .. s PROVE new[i] = at[i] - N
    BY <1>8
  <2> QED
    BY <2>1, <2>2
<1> HIDE DEF new
<1>10. new[r + 1] = 0 /\ new[s] = Len(rest)
  <2>1. r + 1 \in r + 1 .. s /\ s \in r + 1 .. s
    BY <1>1, <1>3
  <2>2. new[r + 1] = at[r + 1] - N /\ new[s] = at[s] - N
    BY <1>9, <2>1
  <2> QED
    BY <1>2, <1>3, <1>4, <1>6, <2>2
<1>11. ASSUME NEW i \in r + 1 .. s, NEW j \in i + 1 .. s PROVE new[i] < new[j]
  <2>1. j \in r + 1 .. s /\ i \in r .. s
    BY <1>1
  <2>2. at[i] < at[j]
    BY <1>5, <2>1
  <2>3. at[i] \in Nat /\ at[j] \in Nat /\ new[i] = at[i] - N /\ new[j] = at[j] - N
    BY <1>8, <1>9, <2>1
  <2> QED
    BY <1>4, <2>2, <2>3
<1>12. ASSUME NEW i \in (r + 1) + 1 .. s
       PROVE  /\ new[i] = new[i - 1] + Size(FrameOf(m[i]))
              /\ \A k \in 1 .. Size(FrameOf(m[i])) :
                    rest[new[i - 1] + k] = [of |-> FrameOf(m[i]), at |-> k]
  <2> DEFINE g == FrameOf(m[i])
             M == Size(g)
  <2>1. i \in r + 1 .. s /\ i - 1 \in r + 1 .. s /\ i \in 1 .. s
    BY <1>1
  <2>2. /\ at[i] = at[i - 1] + M
        /\ \A k \in 1 .. M : bytes[at[i - 1] + k] = [of |-> g, at |-> k]
    BY <1>5, <2>1
  <2>3. M \in Nat
    <3>1. m[i] \in Payloads
      BY <2>1, ElementOfSeq DEF s
    <3> QED
      BY <3>1, FrameHolds
  <2> HIDE DEF M
  <2>4. /\ at[i] \in Nat /\ at[i] <= B /\ at[i - 1] \in Nat /\ at[i - 1] >= N
        /\ new[i] = at[i] - N /\ new[i - 1] = at[i - 1] - N
    BY <1>8, <1>9, <2>1
  <2>5. new[i] = new[i - 1] + M
    BY <1>4, <2>2, <2>3, <2>4
  <2>6. ASSUME NEW k \in 1 .. M PROVE rest[new[i - 1] + k] = [of |-> g, at |-> k]
    <3>1. bytes[at[i - 1] + k] = [of |-> g, at |-> k]
      BY <2>2
    <3> DEFINE j == new[i - 1] + k
               low == at[i - 1]
    <3>2. j \in 1 .. B - N /\ N + j = low + k
      <4>1. j = low - N + k /\ low \in Nat /\ low >= N
        BY <2>4
      <4>2. low + M <= B
        BY <2>2, <2>4
      <4> HIDE DEF j, low
      <4> QED
        BY <1>1, <1>4, <2>3, <4>1, <4>2
    <3> HIDE DEF j
    <3>3. rest[j] = bytes[N + j]
      BY <1>7, <3>2
    <3> QED
      BY <3>1, <3>2, <3>3 DEF j
  <2> QED
    BY <2>5, <2>6 DEF M
<1>13. Laid(m, r + 1, rest, new)
  BY <1>9, <1>10, <1>11, <1>12 DEF Laid, s
<1> QED
  BY <1>13 DEF rest, N, B

-----------------------------------------------------------------------------
(* The inductive invariant, in named parts. *)

Types ==
    /\ ordered \in BOOLEAN /\ fin \in BOOLEAN /\ broken \in BOOLEAN /\ open \in BOOLEAN
    /\ sent \in Seq(Payloads) /\ received \in Seq(Payloads)
    /\ stream \in Seq(Byte) /\ buffer \in Seq(Byte)
    /\ Len(buffer) <= BufferSize
    /\ frames \in Nat /\ noise \in Nat

\* On a connection the messages handed over are the first of those sent; what has been sent
\* beyond them lies, frame by frame, in the buffer and the stream; and no read fills the
\* buffer, because a frame that fits it is cut from it first.
Connection ==
    ordered =>
        /\ datagrams = <<>>
        /\ Len(received) <= Len(sent) /\ \A i \in 1 .. Len(received) : received[i] = sent[i]
        /\ open => \E at : Laid(sent, Len(received), buffer \o stream, at)
        /\ ~open => fin \/ broken
        /\ Len(buffer) # 0 => Len(buffer) < BufferSize

\* A datagram is a frame of a message that was sent, or of another program.
Datagram(messages) ==
    {Bytes(FrameOf(p)) : p \in Range(messages)} \cup
        {[k \in 1 .. n |-> Noise] : n \in Nat \ {0}}

\* By datagrams what is handed over was sent; the buffer holds what is left of another
\* program's datagrams, too short for a header, and costs the next frame at most.
Datagrams ==
    ~ordered =>
        /\ open \/ broken
        /\ stream = <<>>
        /\ datagrams \in Seq(Datagram(sent))
        /\ \A i \in 1 .. Len(received) : received[i] \in Range(sent)
        /\ Len(buffer) < HeaderSize /\ \A k \in 1 .. Len(buffer) : buffer[k] = Noise
        /\ frames + (IF buffer = <<>> THEN 0 ELSE 1) <= Len(received) + noise

IInv == Types /\ Connection /\ Datagrams

\* A read with a frame at the head: it waits for the rest, or its message is handed over.
LEMMA CutOfFrame ==
    ASSUME NEW new, NEW b \in Seq(Byte), b = buffer \o new, NEW p \in Payloads,
           b[1] = [of |-> FrameOf(p), at |-> 1], Cut(new)
    PROVE  /\ open' = open
           /\ \/ Len(b) < Size(FrameOf(p)) /\ buffer' = b /\ received' = received
              \/ /\ Len(b) >= Size(FrameOf(p))
                 /\ buffer' = SubSeq(b, Size(FrameOf(p)) + 1, Len(b))
                 /\ received' = Append(received, p)
<1> DEFINE f == FrameOf(p)
           N == Size(f)
           B == Len(b)
<1>1. b[1].of = f /\ b[1].at = 1
  OBVIOUS
<1>2. N \in Nat /\ HeaderSize \in Nat /\ HeaderSize <= N /\ N <= BufferSize /\ Content(f) = {p}
  BY FrameHolds, FramingAssumption
<1>3. B \in Nat
  OBVIOUS
<1> HIDE DEF f, N, B
<1>4. \/ /\ ~(B >= HeaderSize) \/ B < N
         /\ buffer' = b /\ open' = open /\ received' = received
      \/ /\ B >= HeaderSize /\ ~(N <= BufferSize)
      \/ /\ B >= HeaderSize /\ ~(B < N)
         /\ buffer' = SubSeq(b, N + 1, B)
         /\ \/ \E q \in Content(f) : received' = Append(received, q) /\ open' = open
            \/ Content(f) = {}
  BY <1>1 DEF Cut, Incomplete, AfterFrame, N, B
<1>5. ~(B >= HeaderSize) => B < N
  BY <1>2, <1>3
<1>6. ~(B < N) => B >= N
  BY <1>2, <1>3
<1>7. \A q \in Content(f) : q = p
  BY <1>2
<1>8. Content(f) # {} /\ N <= BufferSize
  BY <1>2
<1> QED
  BY <1>4, <1>5, <1>6, <1>7, <1>8 DEF f, N, B

\* A read with another program's byte at the head, or with nothing: it waits for a header,
\* or all is dropped.
LEMMA CutOfNoise ==
    ASSUME NEW new, NEW b \in Seq(Byte), b = buffer \o new, Len(b) # 0 => b[1] = Noise, Cut(new)
    PROVE  /\ open' = open /\ received' = received
           /\ \/ Len(b) < HeaderSize /\ buffer' = b
              \/ Len(b) >= HeaderSize /\ buffer' = <<>>
<1> DEFINE B == Len(b)
<1>1. B \in Nat /\ HeaderSize \in Nat /\ HeaderSize # 0
  BY FramingAssumption
<1>2. B >= HeaderSize => b[1].at # 1
  <2>1. B >= HeaderSize => B # 0
    BY <1>1
  <2>2. Noise.at # 1
    BY NoiseIsByte
  <2> QED
    BY <2>1, <2>2
<1> HIDE DEF B
<1>3. \/ /\ ~(B >= HeaderSize) \/ b[1].at = 1
         /\ buffer' = b /\ open' = open /\ received' = received
      \/ /\ B >= HeaderSize
         /\ buffer' = <<>> /\ open' = open /\ received' = received
      \/ B >= HeaderSize /\ b[1].at = 1
  BY DEF Cut, AfterNoise, B
<1>4. CASE B >= HeaderSize
  BY <1>2, <1>3, <1>4 DEF B
<1>5. CASE ~(B >= HeaderSize)
  <2>1. B < HeaderSize
    BY <1>1, <1>5
  <2> QED
    BY <1>3, <1>5, <2>1 DEF B
<1> QED
  BY <1>4, <1>5

\* A part of a sequence from the start, and what comes after it.
LEMMA PartOfSeq ==
    ASSUME NEW S, NEW s \in Seq(S), NEW n \in 0 .. Len(s)
    PROVE  /\ SubSeq(s, 1, n) \in Seq(S) /\ Len(SubSeq(s, 1, n)) = n
           /\ \A i \in 1 .. n : SubSeq(s, 1, n)[i] = s[i]
           /\ SubSeq(s, n + 1, Len(s)) \in Seq(S)
           /\ SubSeq(s, 1, n) \o SubSeq(s, n + 1, Len(s)) = s
<1>1. /\ \A i \in 1 .. n : s[i] \in S
      /\ \A i \in n + 1 .. Len(s) : s[i] \in S
      /\ 1 \in Int /\ n \in Int /\ n + 1 \in Int /\ Len(s) \in Int
  BY ElementOfSeq
<1> DEFINE u == SubSeq(s, 1, n)
           v == SubSeq(s, n + 1, Len(s))
<1>2. u \in Seq(S)
  BY <1>1, SubSeqProperties
<1>3. Len(u) = n
  <2>1. Len(u) = IF 1 <= n THEN n - 1 + 1 ELSE 0
    BY <1>1, SubSeqProperties
  <2> HIDE DEF u
  <2> QED
    BY <2>1
<1>4. \A i \in 1 .. n : u[i] = s[i]
  <2>1. \A i \in 1 .. n - 1 + 1 : u[i] = s[1 + i - 1]
    BY <1>1, SubSeqProperties
  <2> HIDE DEF u
  <2> SUFFICES ASSUME NEW i \in 1 .. n PROVE u[i] = s[i]
    OBVIOUS
  <2>2. i \in 1 .. n - 1 + 1 /\ 1 + i - 1 = i
    OBVIOUS
  <2> QED
    BY <2>1, <2>2
<1>5. v \in Seq(S)
  BY <1>1, SubSeqProperties
<1>6. u \o v = s
  <2>1. 1 \in 1 .. Len(s) + 1 /\ n \in 1 - 1 .. Len(s) /\ Len(s) \in n .. Len(s)
    OBVIOUS
  <2>2. u \o v = SubSeq(s, 1, Len(s))
    BY <2>1, ConcatAdjacentSubSeq
  <2> HIDE DEF u, v
  <2>3. SubSeq(s, 1, Len(s)) = s
    BY SubSeqFull
  <2> QED
    BY <2>2, <2>3
<1> QED
  BY <1>2, <1>3, <1>4, <1>5, <1>6

LEMMA InitInv == Init => IInv
<1> SUFFICES ASSUME Init PROVE IInv
  OBVIOUS
<1>1. Types
  <2>1. <<>> \in Seq(Payloads) /\ <<>> \in Seq(Byte) /\ Len(<<>>) = 0
    BY EmptySeq
  <2>2. Len(<<>>) <= BufferSize
    BY <2>1, FramingAssumption
  <2>3. /\ ordered \in BOOLEAN /\ fin \in BOOLEAN /\ broken \in BOOLEAN /\ open \in BOOLEAN
        /\ frames \in Nat /\ noise \in Nat
    BY DEF Init
  <2> QED
    BY <2>1, <2>2, <2>3, Zenon DEF Init, Types
<1>2. Connection
  <2> SUFFICES ASSUME ordered PROVE \E at : Laid(<<>>, 0, <<>>, at)
    BY EmptySeq, ConcatEmptySeq DEF Init, Connection
  <2> DEFINE at == [i \in Nat |-> 0]
  <2>1. Laid(<<>>, 0, <<>>, at)
    BY DEF Laid
  <2> QED
    BY <2>1
<1>3. Datagrams
  BY FramingAssumption DEF Init, Datagrams
<1> QED
  BY <1>1, <1>2, <1>3 DEF IInv

-----------------------------------------------------------------------------
(* Each action keeps the invariant. *)

LEMMA SentGrows ==
    ASSUME NEW m \in Seq(Payloads), NEW p \in Payloads
    PROVE  /\ Append(m, p) \in Seq(Payloads) /\ Len(Append(m, p)) = Len(m) + 1
           /\ \A i \in 1 .. Len(m) : Append(m, p)[i] = m[i]
           /\ Range(m) \subseteq Range(Append(m, p)) /\ p \in Range(Append(m, p))
           /\ Datagram(m) \subseteq Datagram(Append(m, p))
           /\ Bytes(FrameOf(p)) \in Datagram(Append(m, p))
<1> DEFINE mp == Append(m, p)
<1>1. mp \in Seq(Payloads) /\ Len(mp) = Len(m) + 1 /\ mp[Len(m) + 1] = p
  BY AppendProperties
<1>2. \A i \in 1 .. Len(m) : mp[i] = m[i]
  BY AppendProperties
<1> HIDE DEF mp
<1>3. Range(m) = {m[i] : i \in 1 .. Len(m)}
  BY DEF Range
<1>4. Range(mp) = {mp[i] : i \in 1 .. Len(mp)}
  BY <1>1 DEF Range
<1>5. Range(m) \subseteq Range(mp)
  <2>1. \A i \in 1 .. Len(m) : i \in 1 .. Len(mp)
    BY <1>1
  <2> QED
    BY <1>2, <1>3, <1>4, <2>1
<1>6. p \in Range(mp)
  <2>1. Len(m) + 1 \in 1 .. Len(mp)
    BY <1>1
  <2> QED
    BY <1>1, <1>4, <2>1
<1>7. Datagram(m) \subseteq Datagram(mp)
  BY <1>5 DEF Datagram
<1>8. Bytes(FrameOf(p)) \in Datagram(mp)
  BY <1>6 DEF Datagram
<1> QED
  BY <1>1, <1>2, <1>5, <1>6, <1>7, <1>8 DEF mp

LEMMA SendKeeps ==
    ASSUME IInv, NEW p \in Payloads, Send(p)
    PROVE  IInv'
<1> DEFINE tail == Bytes(FrameOf(p))
<1>1. /\ sent \in Seq(Payloads) /\ stream \in Seq(Byte) /\ buffer \in Seq(Byte)
      /\ tail \in Seq(Byte)
  BY BytesOfFrame DEF IInv, Types
<1>2. /\ sent' = Append(sent, p)
      /\ ordered' = ordered /\ fin' = fin /\ broken' = broken /\ buffer' = buffer /\ open' = open
      /\ received' = received /\ frames' = frames /\ noise' = noise
  BY DEF Send
<1>3. /\ ordered => stream' = stream \o tail /\ datagrams' = datagrams
      /\ ~ordered => stream' = stream /\ datagrams' = Append(datagrams, tail)
  BY DEF Send
<1> HIDE DEF tail
<1>4. Types'
  <2>1. sent' \in Seq(Payloads)
    BY <1>1, <1>2, SentGrows
  <2>2. stream' \in Seq(Byte)
    BY <1>1, <1>3, ConcatProperties
  <2> QED
    BY <1>2, <2>1, <2>2 DEF IInv, Types
<1>5. ASSUME ordered PROVE Connection'
  <2>1. /\ Len(received) \in Nat /\ Len(received) <= Len(sent)
        /\ \A i \in 1 .. Len(received) : received[i] = sent[i]
    BY <1>5 DEF IInv, Types, Connection
  <2>2. Len(received) <= Len(sent') /\ \A i \in 1 .. Len(received) : received[i] = sent'[i]
    <3>1. /\ Len(sent') = Len(sent) + 1 /\ Len(sent) \in Nat
          /\ \A i \in 1 .. Len(sent) : sent'[i] = sent[i]
      BY <1>1, <1>2, SentGrows
    <3>2. \A i \in 1 .. Len(received) : i \in 1 .. Len(sent)
      BY <2>1, <3>1
    <3> QED
      BY <2>1, <3>1, <3>2
  <2>3. open => \E new : Laid(sent', Len(received), buffer \o stream', new)
    <3> SUFFICES ASSUME open PROVE \E new : Laid(sent', Len(received), buffer \o stream', new)
      OBVIOUS
    <3>1. PICK at : Laid(sent, Len(received), buffer \o stream, at)
      BY <1>5 DEF IInv, Connection
    <3>2. buffer \o stream \in Seq(Byte) /\ Len(received) \in 0 .. Len(sent)
      BY <1>1, <2>1, ConcatProperties
    <3>3. \E new : Laid(Append(sent, p), Len(received), (buffer \o stream) \o tail, new)
      BY <1>1, <3>1, <3>2, LaidSent, Zenon DEF tail
    <3>4. (buffer \o stream) \o tail = buffer \o (stream \o tail)
      BY <1>1, ConcatAssociative, SMTT(20)
    <3> QED
      BY <1>2, <1>3, <1>5, <3>3, <3>4
  <2> QED
    BY <1>2, <1>3, <1>5, <2>2, <2>3 DEF IInv, Connection
<1>6. ASSUME ~ordered PROVE Datagrams'
  <2>1. datagrams' \in Seq(Datagram(sent'))
    <3>1. datagrams \in Seq(Datagram(sent'))
      <4>1. datagrams \in Seq(Datagram(sent)) /\ Datagram(sent) \subseteq Datagram(sent')
        BY <1>1, <1>2, <1>6, SentGrows DEF IInv, Datagrams
      <4> QED
        BY <4>1, SeqMonotonic
    <3>2. tail \in Datagram(sent')
      BY <1>1, <1>2, SentGrows DEF tail
    <3> QED
      BY <1>3, <1>6, <3>1, <3>2, AppendProperties
  <2>2. \A i \in 1 .. Len(received) : received[i] \in Range(sent')
    BY <1>1, <1>2, <1>6, SentGrows DEF IInv, Datagrams
  <2> QED
    BY <1>2, <1>3, <1>6, <2>1, <2>2 DEF IInv, Datagrams
<1>7. (ordered => Datagrams') /\ (~ordered => Connection')
  BY <1>2 DEF Datagrams, Connection
<1> QED
  BY <1>4, <1>5, <1>6, <1>7 DEF IInv

LEMMA SenderClosesKeeps ==
    ASSUME IInv, SenderCloses
    PROVE  IInv'
<1>1. Types'
  BY DEF IInv, Types, SenderCloses
<1>2. Connection'
  BY DEF IInv, Connection, SenderCloses
<1>3. Datagrams'
  BY DEF IInv, Datagrams, SenderCloses
<1> QED
  BY <1>1, <1>2, <1>3 DEF IInv

LEMMA BreaksKeeps ==
    ASSUME IInv, Breaks
    PROVE  IInv'
<1>1. Types'
  BY DEF IInv, Types, Breaks
<1>2. Connection'
  BY DEF IInv, Connection, Breaks
<1>3. Datagrams'
  BY DEF IInv, Datagrams, Breaks
<1> QED
  BY <1>1, <1>2, <1>3 DEF IInv

LEMMA StrayKeeps ==
    ASSUME IInv, NEW n \in 1 .. HeaderSize + 1, Stray(n)
    PROVE  IInv'
<1>1. Types'
  BY DEF IInv, Types, Stray
<1>2. Connection'
  BY DEF Connection, Stray
<1>3. Datagrams'
  <2> DEFINE d == [k \in 1 .. n |-> Noise]
  <2>1. d \in Datagram(sent)
    <3>1. n \in Nat \ {0}
      BY FramingAssumption
    <3> QED
      BY <3>1 DEF Datagram
  <2>2. ~ordered /\ datagrams \in Seq(Datagram(sent)) /\ datagrams' = Append(datagrams, d)
    BY DEF IInv, Datagrams, Stray
  <2> HIDE DEF d
  <2>3. datagrams' \in Seq(Datagram(sent))
    BY <2>1, <2>2, AppendProperties
  <2> QED
    BY <2>2, <2>3 DEF IInv, Datagrams, Stray
<1> QED
  BY <1>1, <1>2, <1>3 DEF IInv

\* A read that returns nothing: the buffer is not full, so the sender has closed.
LEMMA ReadNothingKeeps ==
    ASSUME IInv, ReadNothing
    PROVE  IInv'
<1>1. fin
  <2> SUFFICES ASSUME stream # <<>>, Room = 0 PROVE FALSE
    BY DEF ReadNothing
  <2>1. /\ ordered /\ open /\ stream \in Seq(Byte) /\ buffer \in Seq(Byte)
        /\ sent \in Seq(Payloads) /\ received \in Seq(Payloads)
        /\ Len(received) <= Len(sent)
        /\ Len(buffer) # 0 => Len(buffer) < BufferSize
    BY DEF IInv, Types, Connection, ReadNothing
  <2>2. BufferSize - Len(buffer) = 0 /\ BufferSize \in Nat
    BY FramingAssumption DEF Room
  <2>3. Len(buffer) = 0 /\ BufferSize = 0
    BY <2>1, <2>2
  <2>4. PICK at : Laid(sent, Len(received), buffer \o stream, at)
    BY <2>1 DEF IInv, Connection
  <2>5. Len(buffer \o stream) \in Nat \ {0}
    <3>1. Len(stream) \in Nat \ {0}
      BY <2>1, EmptySeq
    <3>2. Len(buffer \o stream) = Len(buffer) + Len(stream)
      BY <2>1, ConcatProperties
    <3> QED
      BY <2>1, <3>1, <3>2
  <2>6. Len(received) \in 0 .. Len(sent)
    BY <2>1
  <2>7. sent[Len(received) + 1] \in Payloads
    BY <2>1, <2>4, <2>5, <2>6, LaidFirst
  <2>8. HeaderSize <= Size(FrameOf(sent[Len(received) + 1])) /\ Size(FrameOf(sent[Len(received) + 1])) <= BufferSize
        /\ Size(FrameOf(sent[Len(received) + 1])) \in Nat
    BY <2>7, FrameHolds
  <2> QED
    BY <2>3, <2>8, FramingAssumption
<1>2. Types'
  BY DEF IInv, Types, ReadNothing
<1>3. Connection'
  BY <1>1 DEF IInv, Connection, ReadNothing
<1>4. Datagrams'
  BY DEF Datagrams, ReadNothing
<1> QED
  BY <1>2, <1>3, <1>4 DEF IInv

LEMMA HangUpKeeps ==
    ASSUME IInv, HangUp
    PROVE  IInv'
<1>1. Types'
  BY DEF IInv, Types, HangUp
<1>2. Connection'
  BY DEF IInv, Connection, HangUp
<1>3. Datagrams'
  BY DEF IInv, Datagrams, HangUp
<1> QED
  BY <1>1, <1>2, <1>3 DEF IInv

\* The next message, on a connection.
NextTaken == Len(received) + 1 \in 1 .. Len(sent) /\ received' = Append(received, sent[Len(received) + 1])

LEMMA ReadStreamKeeps ==
    ASSUME IInv, ReadStream
    PROVE  IInv' /\ (received' = received \/ NextTaken)
<1> DEFINE room == BufferSize - Len(buffer)
           r == Len(received)
<1>1. /\ ordered /\ open /\ stream \in Seq(Byte) /\ buffer \in Seq(Byte)
      /\ sent \in Seq(Payloads) /\ received \in Seq(Payloads)
      /\ r <= Len(sent) /\ \A i \in 1 .. r : received[i] = sent[i]
  BY DEF IInv, Types, Connection, ReadStream
<1>2. /\ ordered' = ordered /\ sent' = sent /\ fin' = fin /\ broken' = broken /\ datagrams' = datagrams
      /\ frames' = frames /\ noise' = noise
  BY DEF ReadStream
<1>3. room \in Nat /\ Len(stream) \in Nat /\ Len(buffer) \in Nat
  BY <1>1, FramingAssumption DEF IInv, Types
<1>4. PICK n \in 1 .. Min({room, Len(stream)}) :
         Cut(SubSeq(stream, 1, n)) /\ stream' = SubSeq(stream, n + 1, Len(stream))
  BY DEF ReadStream, Room
<1>5. n \in 1 .. Len(stream) /\ n <= room
  <2>1. /\ Min({room, Len(stream)}) \in {room, Len(stream)}
        /\ Min({room, Len(stream)}) <= room /\ Min({room, Len(stream)}) <= Len(stream)
    BY <1>3, MinIsMember
  <2> QED
    BY <1>3, <2>1
<1> HIDE DEF r
<1> DEFINE new == SubSeq(stream, 1, n)
           rest == SubSeq(stream, n + 1, Len(stream))
           b == buffer \o new
           all == buffer \o stream
<1>6. /\ new \in Seq(Byte) /\ Len(new) = n /\ rest \in Seq(Byte) /\ new \o rest = stream
  <2>1. n \in 0 .. Len(stream)
    BY <1>5
  <2> QED
    BY <1>1, <2>1, PartOfSeq
<1>7. Cut(new) /\ stream' = rest
  BY <1>4
<1> HIDE DEF new, rest
<1>8. b \in Seq(Byte) /\ Len(b) = Len(buffer) + n
  <2>1. new \in Seq(Byte)
    BY <1>6
  <2>2. b \in Seq(Byte) /\ Len(b) = Len(buffer) + Len(new)
    BY <1>1, <2>1, ConcatProperties
  <2> HIDE DEF b
  <2> QED
    BY <1>6, <2>2
<1>9. b \o rest = all
  <2>1. buffer \in Seq(Byte) /\ new \in Seq(Byte) /\ rest \in Seq(Byte)
    BY <1>1, <1>6
  <2>2. (buffer \o new) \o rest = buffer \o (new \o rest)
    BY <2>1, ConcatAssociative, SMTT(20)
  <2> QED
    BY <1>6, <2>2
<1>10. all \in Seq(Byte) /\ Len(all) = Len(buffer) + Len(stream)
  BY <1>1, ConcatProperties
<1>11. b[1] = all[1]
  <2> HIDE DEF b
  <2>1. b \in Seq(Byte) /\ rest \in Seq(Byte)
    BY <1>6, <1>8
  <2>2. \A i \in 1 .. Len(b) + Len(rest) : (b \o rest)[i] = IF i <= Len(b) THEN b[i] ELSE rest[i - Len(b)]
    BY <2>1, ConcatProperties
  <2>3. 1 \in 1 .. Len(b) + Len(rest) /\ 1 <= Len(b)
    <3>1. Len(rest) \in Nat /\ Len(b) \in Nat /\ Len(b) >= 1
      BY <1>3, <1>5, <1>6, <1>8
    <3> QED
      BY <3>1
  <2> QED
    BY <1>9, <2>2, <2>3
<1>12. PICK at : Laid(sent, r, all, at)
  BY <1>1 DEF IInv, Connection, r
<1>13. Len(all) \in Nat \ {0} /\ r \in 0 .. Len(sent)
  BY <1>1, <1>3, <1>5, <1>10 DEF r
<1> HIDE DEF b, all
<1> DEFINE p == sent[r + 1]
           N == Size(FrameOf(p))
<1>14. r + 1 \in 1 .. Len(sent) /\ p \in Payloads /\ all[1] = [of |-> FrameOf(p), at |-> 1]
  BY <1>1, <1>12, <1>13, LaidFirst
<1>15. N \in Nat /\ N >= 1 /\ N <= BufferSize
  BY <1>14, FrameHolds, FramingAssumption
<1>16. /\ open' = open
       /\ \/ Len(b) < N /\ buffer' = b /\ received' = received
          \/ /\ Len(b) >= N /\ buffer' = SubSeq(b, N + 1, Len(b))
             /\ received' = Append(received, p)
  <2>1. p \in Payloads /\ b \in Seq(Byte) /\ b[1] = [of |-> FrameOf(p), at |-> 1]
    BY <1>8, <1>11, <1>14
  <2> HIDE DEF p
  <2> QED
    BY <1>7, <2>1, CutOfFrame DEF b
<1> HIDE DEF p, N
<1>17. Len(b) <= BufferSize /\ Len(b) \in Nat /\ BufferSize \in Nat
  BY <1>3, <1>5, <1>8, FramingAssumption
<1>18. Datagrams'
  BY <1>1, <1>2 DEF Datagrams
<1>19. CASE Len(b) < N /\ buffer' = b /\ received' = received
  <2>1. Len(buffer') < BufferSize
    BY <1>15, <1>17, <1>19
  <2>2. buffer' \o stream' = all
    BY <1>7, <1>9, <1>19
  <2>3. Types'
    BY <1>1, <1>2, <1>6, <1>7, <1>8, <1>16, <1>17, <1>19 DEF IInv, Types
  <2>4. Connection'
    BY <1>1, <1>2, <1>12, <1>16, <1>19, <2>1, <2>2 DEF IInv, Connection, r
  <2> QED
    BY <1>18, <1>19, <2>3, <2>4 DEF IInv
<1>20. CASE /\ Len(b) >= N /\ buffer' = SubSeq(b, N + 1, Len(b))
            /\ received' = Append(received, p)
  <2>1. /\ buffer' \in Seq(Byte) /\ Len(buffer') = Len(b) - N
        /\ buffer' \o rest = SubSeq(b \o rest, N + 1, Len(b \o rest))
    <3>1. N \in 0 .. Len(b)
      BY <1>15, <1>17, <1>20
    <3> QED
      BY <1>6, <1>8, <1>20, <3>1, RestOfJoin
  <2>2. Len(buffer') < BufferSize
    BY <1>15, <1>17, <1>20, <2>1
  <2>3. buffer' \o stream' = SubSeq(all, N + 1, Len(all))
    BY <1>7, <1>9, <2>1
  <2>4. \E next : Laid(sent, r + 1, buffer' \o stream', next)
    <3>1. \E next : Laid(sent, r + 1, SubSeq(all, Size(FrameOf(sent[r + 1])) + 1, Len(all)), next)
      BY <1>1, <1>10, <1>12, <1>13, LaidCut DEF all
    <3> QED
      BY <2>3, <3>1 DEF p, N
  <2>5. /\ received' \in Seq(Payloads) /\ Len(received') = r + 1 /\ received'[r + 1] = p
        /\ \A i \in 1 .. r : received'[i] = received[i]
    BY <1>1, <1>14, <1>20, AppendProperties DEF r
  <2>6. Types'
    BY <1>1, <1>2, <1>6, <1>7, <1>16, <1>17, <2>1, <2>2, <2>5 DEF IInv, Types
  <2>7. Len(received') <= Len(sent) /\ \A i \in 1 .. Len(received') : received'[i] = sent[i]
    <3>1. r + 1 <= Len(sent) /\ r \in Nat
      BY <1>13, <1>14
    <3>2. ASSUME NEW i \in 1 .. r + 1 PROVE received'[i] = sent[i]
      <4>1. i = r + 1 \/ i \in 1 .. r
        BY <3>1
      <4> QED
        BY <1>1, <2>5, <4>1 DEF p
    <3> QED
      BY <2>5, <3>1, <3>2
  <2>8. Connection'
    BY <1>1, <1>2, <1>16, <2>2, <2>4, <2>5, <2>7 DEF IInv, Connection
  <2>9. NextTaken
    BY <1>14, <1>20 DEF NextTaken, p, r
  <2> QED
    BY <1>18, <2>6, <2>8, <2>9 DEF IInv
<1> QED
  BY <1>16, <1>19, <1>20

\* A datagram that is not a frame of a sent message is of another program.
LEMMA DatagramCases ==
    ASSUME NEW m \in Seq(Payloads), NEW d \in Datagram(m)
    PROVE  \/ \E p \in Range(m) : p \in Payloads /\ d = Bytes(FrameOf(p)) /\ d[1] # Noise
           \/ /\ d \in Seq(Byte) /\ Len(d) # 0 /\ d[1] = Noise
              /\ \A k \in 1 .. Len(d) : d[k] = Noise
<1>1. CASE d \in {Bytes(FrameOf(p)) : p \in Range(m)}
  <2>1. PICK p \in Range(m) : d = Bytes(FrameOf(p))
    BY <1>1
  <2>2. p \in Payloads
    BY RangeOfSeq
  <2> DEFINE N == Size(FrameOf(p))
  <2>3. 1 \in 1 .. N
    <3>1. N \in Nat /\ N >= 1
      BY <2>2, FrameHolds, FramingAssumption
    <3> QED
      BY <3>1
  <2>4. d[1] = [of |-> FrameOf(p), at |-> 1]
    BY <2>1, <2>2, <2>3, BytesOfFrame
  <2>5. d[1].at = 1
    BY <2>4
  <2>6. d[1] # Noise
    BY <2>5, NoiseIsByte
  <2> QED
    BY <2>1, <2>2, <2>6
<1>2. CASE d \in {[k \in 1 .. n |-> Noise] : n \in Nat \ {0}}
  <2>1. PICK n \in Nat \ {0} : d = [k \in 1 .. n |-> Noise]
    BY <1>2
  <2>2. d \in Seq(Byte) /\ Len(d) = n
    BY <2>1, NoiseIsByte
  <2>3. \A k \in 1 .. n : d[k] = Noise
    BY <2>1
  <2>4. 1 \in 1 .. n
    OBVIOUS
  <2> QED
    BY <2>2, <2>3, <2>4
<1> QED
  BY <1>1, <1>2 DEF Datagram

\* A message by datagram: one of those sent.
SentTaken == \E p \in Range(sent) : received' = Append(received, p)

LEMMA ReadDatagramKeeps ==
    ASSUME IInv, ReadDatagram
    PROVE  IInv' /\ (received' = received \/ SentTaken)
<1>1. /\ ~ordered /\ open /\ stream = <<>> /\ buffer \in Seq(Byte)
      /\ sent \in Seq(Payloads) /\ received \in Seq(Payloads)
      /\ datagrams \in Seq(Datagram(sent)) /\ frames \in Nat /\ noise \in Nat
      /\ Len(buffer) <= BufferSize /\ Len(buffer) < HeaderSize
  BY DEF IInv, Types, Datagrams, ReadDatagram
<1>2. ordered' = ordered /\ sent' = sent /\ fin' = fin /\ broken' = broken /\ stream' = stream
  BY DEF ReadDatagram
<1>3. PICK i \in DOMAIN datagrams :
         LET d == datagrams[i] IN
         /\ Cut(SubSeq(d, 1, Min({Room, Len(d)})))
         /\ datagrams' = RemoveAt(datagrams, i)
         /\ frames' = IF d[1] = Noise THEN frames ELSE frames + 1
         /\ noise' = IF d[1] = Noise THEN noise + 1 ELSE noise
  BY DEF ReadDatagram
<1>4. i \in 1 .. Len(datagrams) /\ datagrams[i] \in Datagram(sent)
  BY <1>1, ElementOfSeq
<1>5. datagrams' \in Seq(Datagram(sent))
  <2> DEFINE before == SubSeq(datagrams, 1, i - 1)
             after == SubSeq(datagrams, i + 1, Len(datagrams))
  <2>1. i - 1 \in 0 .. Len(datagrams) /\ i \in 0 .. Len(datagrams)
    BY <1>1, <1>4
  <2>2. before \in Seq(Datagram(sent)) /\ after \in Seq(Datagram(sent))
    BY <1>1, <2>1, PartOfSeq
  <2>3. datagrams' = before \o after
    BY <1>3 DEF RemoveAt
  <2> HIDE DEF before, after
  <2> QED
    BY <2>2, <2>3, ConcatProperties
<1> DEFINE d == datagrams[i]
           room == BufferSize - Len(buffer)
           n == Min({room, Len(d)})
           new == SubSeq(d, 1, n)
           b == buffer \o new
<1>6. /\ Cut(new)
      /\ frames' = IF d[1] = Noise THEN frames ELSE frames + 1
      /\ noise' = IF d[1] = Noise THEN noise + 1 ELSE noise
  BY <1>3 DEF Room
<1>7. d \in Datagram(sent)
  BY <1>4
<1> HIDE DEF d
<1>8. d \in Seq(Byte) /\ Len(d) \in Nat
  <2>1. CASE \E p \in Range(sent) : p \in Payloads /\ d = Bytes(FrameOf(p)) /\ d[1] # Noise
    BY <2>1, BytesOfFrame
  <2>2. CASE d \in Seq(Byte)
    BY <2>2
  <2> QED
    BY <1>1, <1>7, <2>1, <2>2, DatagramCases
<1>9. room \in Nat /\ Len(buffer) \in Nat /\ BufferSize \in Nat /\ HeaderSize \in Nat \ {0}
  BY <1>1, FramingAssumption
<1>10. n \in {room, Len(d)} /\ n <= room /\ n <= Len(d) /\ n \in Nat
  <2>1. n \in {room, Len(d)} /\ n <= room /\ n <= Len(d)
    BY <1>8, <1>9, MinIsMember
  <2> HIDE DEF n, room
  <2> QED
    BY <1>8, <1>9, <2>1
<1> HIDE DEF n
<1>11. new \in Seq(Byte) /\ Len(new) = n /\ \A k \in 1 .. n : new[k] = d[k]
  <2>1. n \in 0 .. Len(d)
    BY <1>8, <1>10
  <2> QED
    BY <1>8, <2>1, PartOfSeq
<1> HIDE DEF new
<1>12. b \in Seq(Byte) /\ Len(b) = Len(buffer) + n
  <2>1. new \in Seq(Byte)
    BY <1>11
  <2>2. b \in Seq(Byte) /\ Len(b) = Len(buffer) + Len(new)
    BY <1>1, <2>1, ConcatProperties
  <2> HIDE DEF b
  <2> QED
    BY <1>11, <2>2
<1>13. \A k \in 1 .. Len(buffer) + n : b[k] = IF k <= Len(buffer) THEN buffer[k] ELSE new[k - Len(buffer)]
  <2>1. new \in Seq(Byte)
    BY <1>11
  <2>2. \A k \in 1 .. Len(buffer) + Len(new) :
           b[k] = IF k <= Len(buffer) THEN buffer[k] ELSE new[k - Len(buffer)]
    BY <1>1, <2>1, ConcatProperties
  <2> HIDE DEF b
  <2> QED
    BY <1>11, <2>2
<1>14. \A k \in 1 .. Len(buffer) : buffer[k] = Noise
  BY <1>1 DEF IInv, Datagrams
<1>15. frames + (IF buffer = <<>> THEN 0 ELSE 1) <= Len(received) + noise /\ Len(received) \in Nat
  BY <1>1 DEF IInv, Datagrams
<1>16. \A k \in 1 .. Len(received) : received[k] \in Range(sent)
  BY <1>1 DEF IInv, Datagrams
<1> HIDE DEF b
<1>17. Connection'
  BY <1>1, <1>2 DEF Connection
<1>18. Len(b) <= BufferSize /\ Len(b) \in Nat
  BY <1>9, <1>10, <1>12
<1>19. CASE d[1] = Noise
  <2>1. /\ d \in Seq(Byte) /\ \A k \in 1 .. Len(d) : d[k] = Noise
    BY <1>1, <1>7, <1>19, DatagramCases
  <2>2. \A k \in 1 .. Len(b) : b[k] = Noise
    <3> SUFFICES ASSUME NEW k \in 1 .. Len(b) PROVE b[k] = Noise
      OBVIOUS
    <3>1. k \in 1 .. Len(buffer) + n
      BY <1>12
    <3>2. CASE k <= Len(buffer)
      <4>1. b[k] = buffer[k]
        BY <1>13, <3>1, <3>2
      <4>2. k \in 1 .. Len(buffer)
        BY <1>9, <3>1, <3>2
      <4> QED
        BY <1>14, <4>1, <4>2
    <3>3. CASE ~(k <= Len(buffer))
      <4> DEFINE j == k - Len(buffer)
      <4>1. j \in 1 .. n /\ j \in 1 .. Len(d)
        BY <1>8, <1>9, <1>10, <3>1, <3>3
      <4>2. b[k] = new[j]
        BY <1>13, <3>1, <3>3
      <4> HIDE DEF j
      <4> QED
        BY <1>11, <2>1, <4>1, <4>2
    <3> QED
      BY <3>2, <3>3
  <2>3. Len(b) # 0 => b[1] = Noise
    <3>1. Len(b) # 0 => 1 \in 1 .. Len(b)
      BY <1>18
    <3> QED
      BY <2>2, <3>1
  <2>4. /\ open' = open /\ received' = received
        /\ \/ Len(b) < HeaderSize /\ buffer' = b
           \/ Len(b) >= HeaderSize /\ buffer' = <<>>
    BY <1>6, <1>12, <2>3, CutOfNoise DEF b
  <2>5. /\ buffer' \in Seq(Byte) /\ Len(buffer') <= BufferSize /\ Len(buffer') < HeaderSize
        /\ \A k \in 1 .. Len(buffer') : buffer'[k] = Noise
    <3>1. CASE Len(b) < HeaderSize /\ buffer' = b
      BY <1>12, <1>18, <2>2, <3>1
    <3>2. CASE buffer' = <<>>
      BY <1>9, <3>2, EmptySeq
    <3> QED
      BY <2>4, <3>1, <3>2
  <2>6. frames' = frames /\ noise' = noise + 1
    BY <1>6, <1>19
  <2>7. frames' + (IF buffer' = <<>> THEN 0 ELSE 1) <= Len(received') + noise'
    BY <1>1, <1>15, <2>4, <2>6
  <2>8. Types'
    BY <1>1, <1>2, <2>4, <2>5, <2>6 DEF IInv, Types
  <2>9. Datagrams'
    BY <1>1, <1>2, <1>5, <1>16, <2>4, <2>5, <2>7 DEF Datagrams
  <2> QED
    BY <1>17, <2>4, <2>8, <2>9 DEF IInv
<1>20. CASE d[1] # Noise
  <2>1. PICK p \in Range(sent) : p \in Payloads /\ d = Bytes(FrameOf(p))
    BY <1>1, <1>7, <1>20, DatagramCases
  <2> DEFINE N == Size(FrameOf(p))
  <2>2. N \in Nat /\ HeaderSize <= N /\ N <= BufferSize
    BY <2>1, FrameHolds
  <2>3. Len(d) = N /\ \A k \in 1 .. N : d[k] = [of |-> FrameOf(p), at |-> k]
    BY <2>1, BytesOfFrame
  <2> HIDE DEF N
  <2>4. frames' = frames + 1 /\ noise' = noise
    BY <1>6, <1>20
  <2>5. CASE Len(buffer) = 0
    <3>1. buffer = <<>>
      BY <1>1, <2>5, EmptySeq
    <3>2. n = N /\ Len(b) = N
      BY <1>9, <1>10, <1>12, <2>2, <2>3, <2>5
    <3>3. 1 \in 1 .. N
      BY <1>9, <2>2
    <3>4. b[1] = new[1]
      <4>1. 1 \in 1 .. Len(buffer) + n /\ ~(1 <= Len(buffer)) /\ 1 - Len(buffer) = 1
        BY <2>5, <3>2, <3>3
      <4> QED
        BY <1>13, <4>1
    <3>5. b[1] = [of |-> FrameOf(p), at |-> 1]
      BY <1>11, <2>3, <3>2, <3>3, <3>4
    <3>6. /\ open' = open
          /\ \/ Len(b) < N /\ buffer' = b /\ received' = received
             \/ /\ Len(b) >= N /\ buffer' = SubSeq(b, N + 1, Len(b))
                /\ received' = Append(received, p)
      BY <1>6, <1>12, <2>1, <3>5, CutOfFrame DEF b, N
    <3>7. ~(Len(b) < N)
      BY <2>2, <3>2
    <3>8. open' = open /\ received' = Append(received, p) /\ buffer' = <<>>
      <4>1. SubSeq(b, N + 1, Len(b)) = <<>>
        BY <2>2, <3>2, SubSeqEmpty
      <4> QED
        BY <3>6, <3>7, <4>1
    <3>9. /\ received' \in Seq(Payloads) /\ Len(received') = Len(received) + 1
          /\ received'[Len(received) + 1] = p
          /\ \A k \in 1 .. Len(received) : received'[k] = received[k]
      BY <1>1, <2>1, <3>8, AppendProperties
    <3>10. \A k \in 1 .. Len(received') : received'[k] \in Range(sent)
      <4> SUFFICES ASSUME NEW k \in 1 .. Len(received') PROVE received'[k] \in Range(sent)
        OBVIOUS
      <4>1. k = Len(received) + 1 \/ k \in 1 .. Len(received)
        BY <1>15, <3>9
      <4> QED
        BY <1>16, <2>1, <3>9, <4>1
    <3>11. frames' + (IF buffer' = <<>> THEN 0 ELSE 1) <= Len(received') + noise'
      BY <1>1, <1>15, <2>4, <3>1, <3>8, <3>9
    <3>12. buffer' \in Seq(Byte) /\ Len(buffer') = 0
      BY <3>8, EmptySeq
    <3>13. Types'
      BY <1>1, <1>2, <1>9, <2>4, <3>8, <3>9, <3>12 DEF IInv, Types
    <3>14. Datagrams'
      BY <1>1, <1>2, <1>5, <1>9, <3>8, <3>10, <3>11, <3>12 DEF Datagrams
    <3>15. SentTaken
      BY <3>8 DEF SentTaken
    <3> QED
      BY <1>17, <3>13, <3>14, <3>15 DEF IInv
  <2>6. CASE Len(buffer) # 0
    <3>1. buffer # <<>> /\ frames + 1 <= Len(received) + noise
      BY <1>15, <2>6, EmptySeq
    <3>2. b[1] = Noise
      <4>1. 1 \in 1 .. Len(buffer) + n /\ 1 <= Len(buffer) /\ 1 \in 1 .. Len(buffer)
        BY <1>9, <1>10, <2>6
      <4> QED
        BY <1>13, <1>14, <4>1
    <3>3. Len(b) >= HeaderSize
      <4>1. n = room \/ n = N
        BY <1>10, <2>3
      <4>2. CASE n = room
        BY <1>9, <1>12, <2>2, <4>2
      <4>3. CASE n = N
        BY <1>9, <1>12, <2>2, <4>3
      <4> QED
        BY <4>1, <4>2, <4>3
    <3>4. open' = open /\ received' = received /\ buffer' = <<>>
      <4>1. ~(Len(b) < HeaderSize)
        BY <1>9, <1>18, <3>3
      <4> QED
        BY <1>6, <1>12, <3>2, <4>1, CutOfNoise DEF b
    <3>5. frames' + (IF buffer' = <<>> THEN 0 ELSE 1) <= Len(received') + noise'
      BY <1>1, <1>15, <2>4, <3>1, <3>4
    <3>6. buffer' \in Seq(Byte) /\ Len(buffer') = 0
      BY <3>4, EmptySeq
    <3>7. Types'
      BY <1>1, <1>2, <1>9, <2>4, <3>4, <3>6 DEF IInv, Types
    <3>8. Datagrams'
      BY <1>1, <1>2, <1>5, <1>9, <1>16, <3>4, <3>5, <3>6 DEF Datagrams
    <3> QED
      BY <1>17, <3>4, <3>7, <3>8 DEF IInv
  <2> QED
    BY <2>5, <2>6
<1> QED
  BY <1>19, <1>20

-----------------------------------------------------------------------------
(* The results. *)

LEMMA NextInv == IInv /\ [Next]_vars => IInv'
<1> SUFFICES ASSUME IInv, [Next]_vars PROVE IInv'
  OBVIOUS
<1>1. CASE UNCHANGED vars
  <2>1. Types' /\ Connection' /\ Datagrams'
    BY <1>1 DEF IInv, Types, Connection, Datagrams, vars
  <2> QED
    BY <2>1 DEF IInv
<1>2. CASE \E p \in Payloads : Send(p)
  BY <1>2, SendKeeps
<1>3. CASE SenderCloses
  BY <1>3, SenderClosesKeeps
<1>4. CASE \E n \in 1 .. HeaderSize + 1 : Stray(n)
  BY <1>4, StrayKeeps
<1>5. CASE ReadStream
  BY <1>5, ReadStreamKeeps
<1>6. CASE ReadNothing
  BY <1>6, ReadNothingKeeps
<1>7. CASE HangUp
  BY <1>7, HangUpKeeps
<1>8. CASE ReadDatagram
  BY <1>8, ReadDatagramKeeps
<1>9. CASE Breaks
  BY <1>9, BreaksKeeps
<1> QED
  BY <1>1, <1>2, <1>3, <1>4, <1>5, <1>6, <1>7, <1>8, <1>9 DEF Next

\* The inductive invariant holds in every state.
THEOREM Invariance == Spec => []IInv
<1>1. IInv /\ [Next]_vars => IInv'
  BY NextInv
<1> QED
  BY InitInv, <1>1, PTL DEF Spec

LEMMA InvTypes == IInv => TypeOK
<1> SUFFICES ASSUME IInv PROVE TypeOK
  OBVIOUS
<1>1. \A b \in Byte : IsByte(b)
  BY DEF Byte
<1>2. Range(stream) \subseteq Byte /\ Range(buffer) \subseteq Byte
  BY RangeOfSeq DEF IInv, Types
<1>3. ASSUME NEW d \in Range(datagrams) PROVE Range(d) \subseteq Byte
  <2>1. CASE ordered
    <3>1. datagrams = <<>>
      BY <2>1 DEF IInv, Connection
    <3> QED
      BY <3>1 DEF Range
  <2>2. CASE ~ordered
    <3>1. sent \in Seq(Payloads) /\ datagrams \in Seq(Datagram(sent))
      BY <2>2 DEF IInv, Types, Datagrams
    <3>2. d \in Datagram(sent)
      BY <3>1, RangeOfSeq
    <3>3. d \in Seq(Byte)
      <4>1. CASE \E p \in Range(sent) : p \in Payloads /\ d = Bytes(FrameOf(p)) /\ d[1] # Noise
        BY <4>1, BytesOfFrame
      <4>2. CASE d \in Seq(Byte)
        BY <4>2
      <4> QED
        BY <3>1, <3>2, <4>1, <4>2, DatagramCases
    <3> QED
      BY <3>3, RangeOfSeq
  <2> QED
    BY <2>1, <2>2
<1>4. \A d \in Range(datagrams) : \A b \in Range(d) : IsByte(b)
  BY <1>1, <1>3
<1>5. \A b \in Range(stream) \cup Range(buffer) : IsByte(b)
  BY <1>1, <1>2
<1>6. /\ ordered \in BOOLEAN /\ fin \in BOOLEAN /\ broken \in BOOLEAN /\ open \in BOOLEAN
      /\ sent \in Seq(Payloads) /\ received \in Seq(Payloads)
      /\ Len(buffer) <= BufferSize
      /\ frames \in Nat /\ noise \in Nat
  BY DEF IInv, Types
<1> QED
  BY <1>4, <1>5, <1>6, Zenon DEF TypeOK

\* The socket's variables have their types: what is handed over is a message, the receive
\* buffer is never overrun (m_recvSize), and all bytes under way are of a frame or stray.
THEOREM TypeCorrect == Spec => []TypeOK
BY Invariance, InvTypes, PTL

\* decompress undoes compress, on all the messages asked about.
THEOREM CompressionHolds == Spec => []CompressionUndone
<1>1. CompressionUndone
  BY CompressionIsUndone, FramingAssumption DEF CompressionUndone
<1> QED
  BY <1>1, PTL

\* A connection is taken for closed by the peer only when it was, unless the socket failed:
\* the buffer has room at every read, whatever the pieces the bytes came in.
THEOREM OnlySenderEnds == Spec => []EndsBySender
<1>1. IInv => EndsBySender
  BY DEF IInv, Connection, EndsBySender
<1> QED
  BY Invariance, <1>1, PTL

\* However many stray datagrams there are, of any lengths and in any order, each costs one
\* message at most and none closes the socket: only its own failure does.
THEOREM StrayIsBounded == Spec => []StrayCostsOne
<1>1. IInv => StrayCostsOne
  <2> SUFFICES ASSUME IInv, ~ordered PROVE (open \/ broken) /\ frames <= Len(received) + noise
    BY DEF StrayCostsOne
  <2>1. /\ frames \in Nat /\ noise \in Nat /\ Len(received) \in Nat /\ (open \/ broken)
        /\ frames + (IF buffer = <<>> THEN 0 ELSE 1) <= Len(received) + noise
    BY DEF IInv, Types, Datagrams
  <2> QED
    BY <2>1
<1> QED
  BY Invariance, <1>1, PTL

\* The socket implements the message channel: compression, framing, the buffer and the
\* pieces a read returns are invisible in what is handed over.
THEOREM SocketIsChannel == Spec => ImplementsChannel
<1>1. Init => Channel!Init
  BY DEF Init, Channel!Init
<1>2. ASSUME IInv, [Next]_vars
      PROVE  [Channel!Send \/ Channel!Take]_<<ordered, sent, received>>
  <2>1. CASE UNCHANGED vars
    BY <2>1 DEF vars
  <2>2. CASE \E p \in Payloads : Send(p)
    BY <2>2 DEF Send, Channel!Send
  <2>3. CASE SenderCloses
    BY <2>3 DEF SenderCloses
  <2>4. CASE \E n \in 1 .. HeaderSize + 1 : Stray(n)
    BY <2>4 DEF Stray
  <2>5. CASE ReadStream
    <3>1. ordered' = ordered /\ sent' = sent /\ ordered
      BY <2>5 DEF ReadStream
    <3>2. CASE received' = received
      BY <3>1, <3>2
    <3>3. CASE NextTaken
      <4>1. DOMAIN sent = 1 .. Len(sent)
        BY <1>2 DEF IInv, Types
      <4>2. Channel!Take
        BY <3>1, <3>3, <4>1 DEF NextTaken, Channel!Take, Channel!Next1
      <4> QED
        BY <4>2
    <3> QED
      BY <1>2, <2>5, <3>2, <3>3, ReadStreamKeeps
  <2>6. CASE ReadNothing
    BY <2>6 DEF ReadNothing
  <2>7. CASE HangUp \/ Breaks
    BY <2>7 DEF HangUp, Breaks
  <2>8. CASE ReadDatagram
    <3>1. ordered' = ordered /\ sent' = sent /\ ~ordered
      BY <2>8 DEF ReadDatagram
    <3>2. CASE received' = received
      BY <3>1, <3>2
    <3>3. CASE SentTaken
      <4>1. PICK i \in DOMAIN sent : received' = Append(received, sent[i])
        BY <3>3 DEF SentTaken, Range
      <4>2. Channel!Take
        BY <3>1, <4>1 DEF Channel!Take
      <4> QED
        BY <4>2
    <3> QED
      BY <1>2, <2>8, <3>2, <3>3, ReadDatagramKeeps
  <2> QED
    BY <1>2, <2>1, <2>2, <2>3, <2>4, <2>5, <2>6, <2>7, <2>8 DEF Next
<1>3. IInv /\ [Next]_vars => [Channel!Send \/ Channel!Take]_<<ordered, sent, received>>
  BY <1>2
<1> QED
  BY Invariance, <1>1, <1>3, PTL DEF Spec, ImplementsChannel, Channel!Spec

=============================================================================

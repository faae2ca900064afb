------------------------- MODULE MessageCodecProofs -------------------------
(***************************************************************************)
(* Theorems about the byte strings of ByteRuns and the codecs of           *)
(* SharedMessages, ProgramMessages and MintPayload: what is written, how   *)
(* large it is, and what each decoder reads of it, for every message.      *)
(***************************************************************************)
EXTENDS ProgramMessages, MintPayload, FiniteSetTheorems,
        WellFoundedInduction, SequenceTheorems, TLAPS

\* A set of natural numbers that is not empty has a least one: the proofs
\* below that go along a byte string take the first position that fails.
LEMMA LeastNatural ==
  ASSUME NEW T, T \subseteq Nat, T # {}
  PROVE  \E x \in T : \A y \in T : x <= y
<1>1. IsWellFoundedOn(OpToRel(<, Nat), Nat)
  BY NatLessThanWellFounded
<1>2. \E x \in T : \A y \in T : <<y, x>> \notin OpToRel(<, Nat)
  BY <1>1, WFMin
<1>3. ASSUME NEW x \in Nat, NEW y \in Nat, <<y, x>> \notin OpToRel(<, Nat)
      PROVE  x <= y
  <2>1. <<y, x>> \in Nat \X Nat /\ <<y, x>>[1] = y /\ <<y, x>>[2] = x
    OBVIOUS
  <2>2. ~(y < x)
    BY <1>3, <2>1, Zenon DEF OpToRel
  <2> QED BY <2>2
<1> QED BY <1>2, <1>3

\* Min, of the community modules, is the least of such a set.
LEMMA MinOfNat ==
  ASSUME NEW T, T \subseteq Nat, T # {}
  PROVE  Min(T) \in T /\ \A y \in T : Min(T) <= y
BY LeastNatural DEF Min

\* What is least in a set is its Min.
LEMMA MinIs ==
  ASSUME NEW T, T \subseteq Int, NEW m \in T, \A y \in T : m <= y
  PROVE  Min(T) = m
<1>1. Min(T) \in T /\ \A y \in T : Min(T) <= y
  BY DEF Min
<1>2. Min(T) \in Int /\ m \in Int /\ Min(T) <= m /\ m <= Min(T)
  BY <1>1
<1> HIDE <1>1
<1> QED BY <1>2

\* What is greatest in a set is its Max.
LEMMA MaxIs ==
  ASSUME NEW T, T \subseteq Int, NEW m \in T, \A y \in T : y <= m
  PROVE  Max(T) = m
<1>1. Max(T) \in T /\ \A y \in T : Max(T) >= y
  BY DEF Max
<1>2. Max(T) \in Int /\ m \in Int /\ Max(T) <= m /\ m <= Max(T)
  BY <1>1
<1> HIDE <1>1
<1> QED BY <1>2

\* A function e of the positions 0..n adds up the widths w.
Adds(e, n, w) ==
  /\ e \in [0..n -> Nat]
  /\ e[0] = 0
  /\ \A i \in 1..n : e[i] = e[i - 1] + w[i]

\* There is a function that adds up given widths.
LEMMA SumsExist ==
  ASSUME NEW n \in Nat, NEW w, \A i \in 1..n : w[i] \in Nat
  PROVE  \E e : Adds(e, n, w)
<1> DEFINE Bad == {k \in 0..n : ~\E e : Adds(e, k, w)}
<1>0. Bad \subseteq Nat
  OBVIOUS
<1>1. ASSUME Bad # {} PROVE FALSE
  <2>1. PICK k \in Bad : \A y \in Bad : k <= y
    <3> HIDE DEF Bad
    <3> QED BY <1>0, <1>1, LeastNatural
  <2>2. k # 0
    <3> DEFINE e == [i \in 0..0 |-> 0]
    <3>1. Adds(e, 0, w)
      BY DEF Adds
    <3> QED BY <3>1
  <2>3. k - 1 \in 0..n /\ k \in 1..n
    BY <2>2
  <2>4. k - 1 \notin Bad
    BY <2>1, <2>3
  <2>5. PICK e : Adds(e, k - 1, w)
    BY <2>3, <2>4
  <2> DEFINE f == [i \in 0..k |-> IF i = k THEN e[k - 1] + w[k] ELSE e[i]]
  <2>6. Adds(f, k, w)
    BY <2>3, <2>5 DEF Adds
  <2> QED BY <2>1, <2>6
<1> QED BY <1>1

\* Only one function adds up given widths.
LEMMA SumsUnique ==
  ASSUME NEW n \in Nat, NEW w, NEW e, Adds(e, n, w), NEW f,
         f = [i \in 0..n |-> IF i = 0 THEN 0 ELSE f[i - 1] + w[i]]
  PROVE  e = f
<1> DEFINE Bad == {k \in 0..n : e[k] # f[k]}
<1>0. Bad \subseteq Nat
  OBVIOUS
<1>1. ASSUME Bad # {} PROVE FALSE
  <2>1. PICK k \in Bad : \A y \in Bad : k <= y
    <3> HIDE DEF Bad
    <3> QED BY <1>0, <1>1, LeastNatural
  <2>2. k # 0
    BY DEF Adds
  <2>3. k - 1 \in 0..n /\ k \in 1..n
    BY <2>2
  <2>4. k - 1 \notin Bad
    BY <2>1, <2>3
  <2> QED BY <2>3, <2>4 DEF Adds
<1>2. \A k \in 0..n : e[k] = f[k]
  BY <1>1
<1>3. e = [k \in 0..n |-> e[k]] /\ f = [k \in 0..n |-> f[k]]
  BY DEF Adds
<1> HIDE DEF Bad
<1> QED BY <1>2, <1>3

\* A byte string is a sequence of runs of a byte or more.
LEMMA BytesShape ==
  ASSUME NEW b, IsBytes(b)
  PROVE  /\ Len(b) \in Nat /\ DOMAIN b = 1..Len(b)
         /\ \A i \in 1..Len(b) : Width(b[i]) \in Nat /\ Width(b[i]) > 0
BY LenProperties DEF IsBytes, IsRun

Widths(b) == [i \in 1..Len(b) |-> Width(b[i])]

\* Ends adds up the widths of the runs.
LEMMA EndsAdd ==
  ASSUME NEW b, IsBytes(b)
  PROVE  Adds(Ends(b), Len(b), Widths(b))
<1> DEFINE n == Len(b)
           w == Widths(b)
           Eq(e) == e = [i \in 0..n |-> IF i = 0 THEN 0 ELSE e[i - 1] + Width(b[i])]
<1>1. n \in Nat /\ \A i \in 1..n : w[i] \in Nat /\ w[i] = Width(b[i])
  BY BytesShape DEF Widths
<1>2. PICK e : Adds(e, n, w)
  BY <1>1, SumsExist
<1>3. Eq(e)
  BY <1>1, <1>2 DEF Adds
<1>4. Ends(b) = CHOOSE f : Eq(f)
  BY DEF Ends
<1>5. Eq(Ends(b))
  BY <1>3, <1>4
<1>6. Ends(b) = [i \in 0..n |-> IF i = 0 THEN 0 ELSE Ends(b)[i - 1] + w[i]]
  BY <1>1, <1>5
<1> HIDE DEF n, w
<1>7. e = Ends(b)
  BY <1>1, <1>2, <1>6, SumsUnique
<1> QED BY <1>2, <1>7 DEF n, w

\* Where a run ends: behind where it starts by its width.
LEMMA EndsOf ==
  ASSUME NEW b, IsBytes(b)
  PROVE  /\ DOMAIN Ends(b) = 0..Len(b)
         /\ \A i \in 0..Len(b) : Ends(b)[i] \in Nat
         /\ Ends(b)[0] = 0
         /\ \A i \in 1..Len(b) : Ends(b)[i] = Ends(b)[i - 1] + Width(b[i])
         /\ Size(b) \in Nat
<1> DEFINE e == Ends(b)
           w == Widths(b)
<1>1. Adds(e, Len(b), w)
  BY EndsAdd
<1>2. \A i \in 1..Len(b) : w[i] = Width(b[i])
  BY DEF Widths
<1>3. Len(b) \in Nat
  BY BytesShape
<1> HIDE DEF e, w
<1>4. /\ DOMAIN e = 0..Len(b)
      /\ \A i \in 0..Len(b) : e[i] \in Nat
      /\ e[0] = 0
      /\ \A i \in 1..Len(b) : e[i] = e[i - 1] + w[i]
  BY <1>1 DEF Adds
<1>5. Len(b) \in 0..Len(b)
  BY <1>3
<1>6. Size(b) \in Nat
  BY <1>4, <1>5 DEF Size, e
<1> QED BY <1>2, <1>4, <1>6 DEF e

\* A later run ends later.
LEMMA EndsIncrease ==
  ASSUME NEW b, IsBytes(b), NEW i \in 0..Len(b), NEW j \in 0..Len(b)
  PROVE  i < j <=> Ends(b)[i] < Ends(b)[j]
<1> DEFINE e == Ends(b)
           Bad(m) == {k \in 0..Len(b) : m < k /\ e[k] <= e[m]}
<1>0. Len(b) \in Nat
  BY BytesShape
<1>1. ASSUME NEW m \in 0..Len(b), Bad(m) # {} PROVE FALSE
  <2>1. Bad(m) \subseteq Nat
    BY <1>0
  <2>2. PICK k \in Bad(m) : \A y \in Bad(m) : k <= y
    <3> HIDE DEF Bad
    <3> QED BY <1>1, <2>1, LeastNatural
  <2>3. k - 1 \in 0..Len(b) /\ k \in 1..Len(b) /\ k - 1 \notin Bad(m)
    BY <1>0, <2>2
  <2>4. e[k] = e[k - 1] + Width(b[k]) /\ Width(b[k]) > 0 /\ Width(b[k]) \in Nat
        /\ e[k - 1] \in Nat /\ e[k] \in Nat /\ e[m] \in Nat
    BY <2>3, EndsOf, BytesShape
  <2>5. k - 1 = m \/ (m < k - 1 /\ e[m] < e[k - 1])
    <3> HIDE DEF e
    <3> QED BY <1>0, <2>3, <2>4
  <2> HIDE DEF e
  <2> QED BY <2>4, <2>5
<1>2. \A k, m \in 0..Len(b) : m < k => e[m] < e[k]
  BY <1>1, EndsOf
<1>3. e[i] \in Nat /\ e[j] \in Nat
  BY EndsOf
<1> HIDE DEF e
<1> QED BY <1>0, <1>2, <1>3 DEF e
-----------------------------------------------------------------------------
\* The runs of one byte string behind those of another.
LEMMA ConcatShape ==
  ASSUME NEW b, IsBytes(b), NEW c, IsBytes(c)
  PROVE  /\ IsBytes(b \o c)
         /\ Len(b \o c) = Len(b) + Len(c)
         /\ \A i \in 1..Len(b) : (b \o c)[i] = b[i]
         /\ \A i \in 1..Len(c) : (b \o c)[Len(b) + i] = c[i]
<1> DEFINE S == ToSet(b) \cup ToSet(c)
           d == b \o c
<1>1. b \in Seq(S) /\ c \in Seq(S)
  <2> b \in Seq(ToSet(b)) /\ c \in Seq(ToSet(c)) /\ ToSet(b) \subseteq S
      /\ ToSet(c) \subseteq S
    BY DEF IsBytes
  <2> HIDE DEF S
  <2> QED BY SeqMonotonic
<1> HIDE DEF S
<1>2. /\ d \in Seq(S)
      /\ Len(d) = Len(b) + Len(c)
      /\ \A i \in 1..Len(b) + Len(c) :
           d[i] = IF i <= Len(b) THEN b[i] ELSE c[i - Len(b)]
  BY <1>1, ConcatProperties
<1>3. Len(b) \in Nat /\ Len(c) \in Nat
  BY BytesShape
<1> HIDE DEF d
<1>4. \A i \in 1..Len(b) : d[i] = b[i]
  BY <1>2, <1>3
<1>5. \A i \in 1..Len(c) : d[Len(b) + i] = c[i]
  BY <1>2, <1>3
<1>6. DOMAIN d = 1..Len(d)
  BY <1>2, LenProperties
<1>7. d \in Seq(ToSet(d))
  <2>1. d \in [1..Len(d) -> ToSet(d)] /\ Len(d) \in Nat
    BY <1>2, <1>6, LenProperties DEF ToSet
  <2> QED BY <2>1, SeqDef
<1>8. \A i \in DOMAIN d : IsRun(d[i])
  <2> TAKE i \in DOMAIN d
  <2>1. i \in 1..Len(b) \/ i - Len(b) \in 1..Len(c)
    BY <1>2, <1>3, <1>6
  <2>2. CASE i \in 1..Len(b)
    BY <1>4, <2>2, BytesShape DEF IsBytes
  <2>3. CASE i - Len(b) \in 1..Len(c)
    <3>1. d[i] = c[i - Len(b)]
      BY <1>2, <1>3, <1>6, <2>3
    <3> QED BY <2>3, <3>1, BytesShape DEF IsBytes
  <2> QED BY <2>1, <2>2, <2>3
<1> QED BY <1>2, <1>4, <1>5, <1>7, <1>8 DEF IsBytes, d

\* Where the runs of two byte strings end, one behind the other; the size is
\* that of both.
LEMMA ConcatEnds ==
  ASSUME NEW b, IsBytes(b), NEW c, IsBytes(c)
  PROVE  /\ \A i \in 0..Len(b) : Ends(b \o c)[i] = Ends(b)[i]
         /\ \A i \in 0..Len(c) : Ends(b \o c)[Len(b) + i] = Size(b) + Ends(c)[i]
         /\ Size(b \o c) = Size(b) + Size(c)
<1> DEFINE d == b \o c
           m == Len(b)
           n == Len(c)
           e == Ends(b)
           f == Ends(c)
           g == Ends(d)
           w == Widths(d)
           h == [i \in 0..m + n |-> IF i <= m THEN e[i] ELSE e[m] + f[i - m]]
<1>1. m \in Nat /\ n \in Nat
  BY BytesShape
<1>2. IsBytes(d) /\ Len(d) = m + n
  BY ConcatShape
<1>3. Adds(g, m + n, w)
  BY <1>2, EndsAdd
<1>4. /\ \A i \in 1..m : w[i] = Width(b[i])
      /\ \A i \in 1..n : w[m + i] = Width(c[i])
  <2>1. \A i \in 1..m + n : w[i] = Width(d[i])
    BY <1>2 DEF Widths
  <2>2. \A i \in 1..m : d[i] = b[i]
    BY ConcatShape
  <2>3. \A i \in 1..n : d[m + i] = c[i]
    BY ConcatShape
  <2> HIDE DEF d, m, n, w
  <2> QED BY <1>1, <2>1, <2>2, <2>3
<1>5. /\ \A i \in 0..m : e[i] \in Nat
      /\ \A i \in 0..n : f[i] \in Nat
      /\ e[0] = 0 /\ f[0] = 0
      /\ \A i \in 1..m : e[i] = e[i - 1] + Width(b[i])
      /\ \A i \in 1..n : f[i] = f[i - 1] + Width(c[i])
  BY EndsOf
<1> HIDE DEF d, e, f, g, m, n, w
<1>6. \A i \in 0..m : h[i] = e[i]
  BY <1>1
<1>7. \A i \in 0..n : h[m + i] = e[m] + f[i]
  <2> TAKE i \in 0..n
  <2>1. m + i \in 0..m + n /\ (m + i) - m = i /\ (m + i <= m <=> i = 0)
    BY <1>1
  <2>2. e[m] \in Nat /\ f[0] = 0
    BY <1>1, <1>5
  <2>3. h[m + i] = IF m + i <= m THEN e[m + i] ELSE e[m] + f[(m + i) - m]
    BY <2>1
  <2>4. CASE i = 0
    BY <1>1, <2>2, <2>4
  <2>5. CASE i # 0
    BY <2>1, <2>3, <2>5
  <2> QED BY <2>4, <2>5
<1>8. Adds(h, m + n, w)
  <2>1. h \in [0..m + n -> Nat]
    <3>1. \A i \in 0..m + n : i \in 0..m \/ i - m \in 0..n
      BY <1>1
    <3> QED BY <1>1, <1>5, <3>1
  <2>2. h[0] = 0
    BY <1>1, <1>5
  <2>3. ASSUME NEW i \in 1..m PROVE h[i] = h[i - 1] + w[i]
    BY <1>1, <1>4, <1>5, <1>6
  <2>4. ASSUME NEW i \in 1..n PROVE h[m + i] = h[m + i - 1] + w[m + i]
    <3>1. h[m + i] = e[m] + f[i] /\ h[m + (i - 1)] = e[m] + f[i - 1]
      BY <1>1, <1>7
    <3>2. f[i] \in Nat /\ f[i - 1] \in Nat /\ e[m] \in Nat
          /\ f[i] = f[i - 1] + Width(c[i]) /\ w[m + i] = Width(c[i])
      BY <1>1, <1>4, <1>5
    <3>3. m + (i - 1) = m + i - 1
      BY <1>1
    <3>4. Width(c[i]) \in Int
      BY BytesShape DEF n
    <3> HIDE DEF h
    <3> QED BY <3>1, <3>2, <3>3, <3>4
  <2>5. ASSUME NEW i \in 1..m + n PROVE h[i] = h[i - 1] + w[i]
    <3>1. CASE i <= m
      <4> i \in 1..m
        BY <1>1, <3>1
      <4> HIDE DEF h
      <4> QED BY <2>3
    <3>2. CASE i > m
      <4> HIDE DEF h
      <4>1. ASSUME NEW j \in 1..n, i = m + j
            PROVE  h[i] = h[i - 1] + w[i]
        <5>1. h[m + j] = h[m + j - 1] + w[m + j]
          BY <2>4
        <5> QED BY <1>1, <4>1, <5>1
      <4>2. i - m \in 1..n /\ i = m + (i - m)
        BY <1>1, <3>2
      <4> QED BY <4>1, <4>2
    <3> QED BY <1>1, <3>1, <3>2
  <2> QED BY <2>1, <2>2, <2>5 DEF Adds
<1>9. g = [i \in 0..m + n |-> IF i = 0 THEN 0 ELSE g[i - 1] + w[i]]
  BY <1>1, <1>3 DEF Adds
<1>10. h = g
  <2> HIDE DEF h
  <2> m + n \in Nat
    BY <1>1
  <2> QED BY <1>8, <1>9, SumsUnique
<1>11. \A i \in 0..m : g[i] = e[i]
  BY <1>6, <1>10
<1>12. \A i \in 0..n : g[m + i] = e[m] + f[i]
  BY <1>7, <1>10
<1>13. n \in 0..n
  BY <1>1
<1>14. Size(b) = e[m] /\ Size(c) = f[n] /\ Size(d) = g[m + n]
  BY <1>2 DEF Size, e, f, g, m, n
<1> QED BY <1>11, <1>12, <1>13, <1>14 DEF d, e, f, g, m, n
-----------------------------------------------------------------------------
\* The byte string without bytes.
LEMMA EmptyBytes == IsBytes(<<>>) /\ Size(<<>>) = 0 /\ Len(<<>>) = 0
<1>1. IsBytes(<<>>)
  BY EmptySeq DEF IsBytes, ToSet
<1>2. Ends(<<>>)[0] = 0
  BY <1>1, EndsOf
<1> QED BY <1>1, <1>2, EmptySeq DEF Size

\* Slice finds what lies between two others.
LEMMA SliceMiddle ==
  ASSUME NEW a, IsBytes(a), NEW b, IsBytes(b), NEW c, IsBytes(c)
  PROVE  Slice((a \o b) \o c, Size(a), Size(b)) = b
<1> DEFINE d == (a \o b) \o c
           e == Ends(d)
           m == Len(a)
           n == Len(b)
           inside == {i \in DOMAIN d : e[i - 1] >= Size(a) /\ e[i] <= Size(a) + Size(b)}
<1>1. /\ m \in Nat /\ n \in Nat /\ Len(c) \in Nat
      /\ IsBytes(a \o b) /\ Len(a \o b) = m + n
      /\ IsBytes(d) /\ Len(d) = m + n + Len(c) /\ DOMAIN d = 1..Len(d)
  BY BytesShape, ConcatShape
<1>2. Size(a) = e[m] /\ Size(a) + Size(b) = e[m + n]
  <2>1. \A i \in 0..m + n : e[i] = Ends(a \o b)[i]
    <3>1. \A i \in 0..Len(a \o b) : Ends((a \o b) \o c)[i] = Ends(a \o b)[i]
      BY <1>1, ConcatEnds
    <3>2. Len(a \o b) = m + n
      BY <1>1
    <3> QED BY <3>1, <3>2, Zenon
  <2>2. /\ Ends(a \o b)[m] = Size(a)
    BY <1>1, ConcatEnds DEF Size
  <2>3. Ends(a \o b)[m + n] = Size(a) + Size(b)
    BY <1>1, ConcatEnds DEF Size
  <2> QED BY <1>1, <2>1, <2>2, <2>3
<1>3. inside = (m + 1)..(m + n)
  <2>1. \A i, j \in 0..Len(d) : i < j <=> e[i] < e[j]
    BY <1>1, EndsIncrease
  <2>2. \A i \in 0..Len(d) : e[i] \in Nat
    BY <1>1, EndsOf
  <2> HIDE DEF d, e, m, n
  <2>3. ASSUME NEW i \in 1..Len(d)
        PROVE  /\ e[i - 1] >= e[m] <=> i - 1 >= m
               /\ e[i] <= e[m + n] <=> i <= m + n
    <3>1. i - 1 \in 0..Len(d) /\ m \in 0..Len(d) /\ i \in 0..Len(d) /\ m + n \in 0..Len(d)
      BY <1>1
    <3>2. e[i - 1] < e[m] <=> i - 1 < m
      BY <2>1, <3>1
    <3>3. e[m + n] < e[i] <=> m + n < i
      BY <2>1, <3>1
    <3>4. e[i - 1] \in Nat /\ e[m] \in Nat /\ e[i] \in Nat /\ e[m + n] \in Nat
      BY <2>2, <3>1
    <3> QED BY <1>1, <3>1, <3>2, <3>3, <3>4
  <2>4. \A i \in 1..Len(d) : i \in inside <=> i - 1 >= m /\ i <= m + n
    BY <1>1, <1>2, <2>3
  <2>5. inside \subseteq 1..Len(d)
    BY <1>1
  <2>6. \A i : i \in (m + 1)..(m + n) <=> i \in 1..Len(d) /\ i - 1 >= m /\ i <= m + n
    BY <1>1
  <2> HIDE DEF inside
  <2> QED BY <2>4, <2>5, <2>6
<1>4. Slice(d, Size(a), Size(b)) =
        IF inside = {} THEN Cut(Size(b))
        ELSE Cut(e[Min(inside) - 1] - Size(a)) \o SubSeq(d, Min(inside), Max(inside))
             \o Cut(Size(b) - (e[Min(inside) - 1] - Size(a))
                     - Size(SubSeq(d, Min(inside), Max(inside))))
  BY DEF Slice
<1>5. CASE b = <<>>
  <2>1. inside = {} /\ Size(b) = 0
    BY <1>1, <1>3, <1>5, EmptyBytes
  <2> QED BY <1>4, <1>5, <2>1 DEF Cut
<1>6. CASE b # <<>>
  <2>1. n > 0
    BY <1>1, <1>6, EmptySeq DEF IsBytes
  <2>2. Min(inside) = m + 1
    <3>1. /\ inside \subseteq Int /\ m + 1 \in inside
          /\ \A y \in inside : m + 1 <= y
      <4> HIDE DEF inside, d, e, m, n
      <4> QED BY <1>1, <1>3, <2>1
    <3> HIDE DEF inside
    <3> QED BY <3>1, MinIs
  <2>3. Max(inside) = m + n
    <3>1. /\ inside \subseteq Int /\ m + n \in inside
          /\ \A y \in inside : y <= m + n
      <4> HIDE DEF inside, d, e, m, n
      <4> QED BY <1>1, <1>3, <2>1
    <3> HIDE DEF inside
    <3> QED BY <3>1, MaxIs
  <2>4. SubSeq(d, m + 1, m + n) = b
    <3>1. /\ \A i \in 1..m + n : d[i] = (a \o b)[i]
          /\ \A i \in 1..n : (a \o b)[m + i] = b[i]
      BY <1>1, ConcatShape
    <3>2. \A i \in 1..n : d[m + i] = b[i]
      BY <1>1, <3>1
    <3>3. /\ b \in Seq(ToSet(b)) /\ DOMAIN b = 1..n
      BY BytesShape DEF IsBytes
    <3>4. \A i \in (m + 1)..(m + n) : d[i] \in ToSet(b)
      <4> TAKE i \in (m + 1)..(m + n)
      <4> i - m \in 1..n /\ m + (i - m) = i
        BY <1>1
      <4> d[i] = b[i - m]
        BY <3>2
      <4> QED BY <3>3 DEF ToSet
    <3> DEFINE t == SubSeq(d, m + 1, m + n)
    <3>5. /\ t \in Seq(ToSet(b))
          /\ Len(t) = IF m + 1 <= m + n THEN (m + n) - (m + 1) + 1 ELSE 0
          /\ \A i \in 1..((m + n) - (m + 1) + 1) : t[i] = d[(m + 1) + i - 1]
      BY <1>1, <3>4, SubSeqProperties
    <3> HIDE DEF t, d, m, n
    <3>6. Len(t) = n
      BY <1>1, <2>1, <3>5
    <3>7. \A i \in 1..n : t[i] = b[i]
      <4> TAKE i \in 1..n
      <4>1. t[i] = d[(m + 1) + i - 1] /\ (m + 1) + i - 1 = m + i
        BY <1>1, <3>5
      <4> QED BY <3>2, <4>1
    <3> QED BY <3>3, <3>5, <3>6, <3>7, SeqEqual DEF t, n
  <2>5. inside # {} /\ e[Min(inside) - 1] - Size(a) = 0
    <3>1. m + 1 \in inside
      <4> HIDE DEF inside, d, e, m, n
      <4> QED BY <1>1, <1>3, <2>1
    <3>2. e[Min(inside) - 1] = e[m]
      BY <1>1, <2>2
    <3>3. Size(a) \in Nat
      BY EndsOf
    <3> QED BY <1>2, <3>1, <3>2, <3>3
  <2>6. Size(b) - 0 - Size(b) = 0
    BY EndsOf
  <2>7. Cut(0) = <<>>
    BY DEF Cut
  <2>8. (<<>> \o b) \o <<>> = b
    BY ConcatEmptySeq DEF IsBytes
  <2>9. Slice(d, Size(a), Size(b)) =
          Cut(0) \o b \o Cut(Size(b) - 0 - Size(b))
    <3> HIDE DEF d, e, m, n, inside
    <3> QED BY <1>4, <2>2, <2>3, <2>4, <2>5
  <2> QED BY <2>6, <2>7, <2>8, <2>9
<1> QED BY <1>5, <1>6
-----------------------------------------------------------------------------
\* A byte string of a single run.
LEMMA RunIs ==
  ASSUME NEW w \in Nat, w > 0, NEW kind, NEW v, kind \in {"be", "le"} => v \in Nat
  PROVE  /\ IsBytes(Run(w, kind, v)) /\ Size(Run(w, kind, v)) = w
         /\ Len(Run(w, kind, v)) = 1
         /\ Width(Run(w, kind, v)[1]) = w
         /\ Kind(Run(w, kind, v)[1]) = kind /\ Value(Run(w, kind, v)[1]) = v
<1> DEFINE r == <<w, kind, v>>
           b == <<r>>
<1>1. Width(r) = w /\ Kind(r) = kind /\ Value(r) = v
  BY DEF Width, Kind, Value
<1> HIDE DEF r
<1>2. Len(b) = 1 /\ DOMAIN b = {1} /\ b[1] = r
  OBVIOUS
<1>3. b \in Seq(ToSet(b))
  <2> b \in Seq({r}) /\ ToSet(b) = {r}
    BY DEF ToSet
  <2> QED OBVIOUS
<1>4. IsBytes(b)
  BY <1>1, <1>2, <1>3 DEF IsBytes, IsRun
<1>5. Size(b) = w
  <2>1. Ends(b)[1] = Ends(b)[1 - 1] + Width(b[1]) /\ Ends(b)[0] = 0
    BY <1>2, <1>4, EndsOf
  <2> QED BY <1>1, <1>2, <2>1 DEF Size
<1>6. Run(w, kind, v) = b
  BY DEF Run, r
<1> QED BY <1>1, <1>2, <1>4, <1>5, <1>6

\* A number, least byte first.
LEMMA LeIs ==
  ASSUME NEW w \in Nat, w > 0, NEW n \in Nat
  PROVE  IsBytes(Le(w, n)) /\ Size(Le(w, n)) = w
BY RunIs DEF Le

\* A number, greatest byte first.
LEMMA BeIs ==
  ASSUME NEW w \in Nat, w > 0, NEW n \in Nat
  PROVE  IsBytes(Be(w, n)) /\ Size(Be(w, n)) = w
BY RunIs DEF Be

\* Zeros.
LEMMA ZerosIs ==
  ASSUME NEW w \in Nat
  PROVE  IsBytes(Zeros(w)) /\ Size(Zeros(w)) = w
BY RunIs, EmptyBytes DEF Zeros

\* A key.
LEMMA KeyIs ==
  ASSUME NEW k
  PROVE  /\ IsBytes(Key(k)) /\ Size(Key(k)) = 32 /\ Len(Key(k)) = 1
         /\ Kind(Key(k)[1]) = "key"
BY RunIs DEF Key

\* In which order byte strings are put together does not matter.
LEMMA ConcatAssoc ==
  ASSUME NEW a, IsBytes(a), NEW b, IsBytes(b), NEW c, IsBytes(c)
  PROVE  (a \o b) \o c = a \o (b \o c)
<1> DEFINE S == ToSet(a) \cup ToSet(b) \cup ToSet(c)
<1>1. a \in Seq(S) /\ b \in Seq(S) /\ c \in Seq(S)
  <2> /\ a \in Seq(ToSet(a)) /\ b \in Seq(ToSet(b)) /\ c \in Seq(ToSet(c))
      /\ ToSet(a) \subseteq S /\ ToSet(b) \subseteq S /\ ToSet(c) \subseteq S
    BY DEF IsBytes
  <2> HIDE DEF S
  <2> QED BY SeqMonotonic
<1> QED BY <1>1, ConcatAssociative

\* Two byte strings make one of the size of both.
LEMMA Built ==
  ASSUME NEW a, IsBytes(a), NEW b, IsBytes(b)
  PROVE  IsBytes(a \o b) /\ Size(a \o b) = Size(a) + Size(b)
BY ConcatShape, ConcatEnds

-----------------------------------------------------------------------------
\* The fields of a byte string, read off from the front of it.
StartsWith(data, front) == \E rest : IsBytes(rest) /\ data = front \o rest

\* A byte string is at its own front.
LEMMA StartsWithSelf ==
  ASSUME NEW data, IsBytes(data)
  PROVE  StartsWith(data, data)
BY EmptyBytes, ConcatEmptySeq DEF StartsWith, IsBytes

\* A field behind a front part is read at the end of that part.
LEMMA Field ==
  ASSUME NEW a, IsBytes(a), NEW b, IsBytes(b), NEW data, StartsWith(data, a \o b)
  PROVE  /\ StartsWith(data, a)
         /\ Slice(data, Size(a), Size(b)) = b
<1>1. PICK rest : IsBytes(rest) /\ data = (a \o b) \o rest
  BY DEF StartsWith
<1>2. Slice(data, Size(a), Size(b)) = b
  BY <1>1, SliceMiddle
<1>3. data = a \o (b \o rest) /\ IsBytes(b \o rest)
  BY <1>1, ConcatAssoc, Built
<1> QED BY <1>2, <1>3 DEF StartsWith

\* A number behind a front part is read as the number it is.
LEMMA NumberField ==
  ASSUME NEW a, IsBytes(a), NEW w \in Nat, w > 0, NEW n \in Nat,
         NEW order \in {"be", "le"}, NEW data,
         StartsWith(data, a \o Run(w, order, n))
  PROVE  /\ StartsWith(data, a)
         /\ Number(order, data, Size(a), w) = n
<1>1. /\ StartsWith(data, a)
      /\ Slice(data, Size(a), w) = Run(w, order, n)
  BY RunIs, Field
<1> QED BY <1>1, RunIs DEF Number, NumberIn

\* So is a number at the front.
LEMMA FirstNumber ==
  ASSUME NEW w \in Nat, w > 0, NEW n \in Nat, NEW order \in {"be", "le"},
         NEW data, StartsWith(data, Run(w, order, n))
  PROVE  Number(order, data, 0, w) = n
<1> DEFINE none == <<>>
           run == Run(w, order, n)
<1>1. IsBytes(run)
  BY RunIs
<1>2. none \o run = run /\ IsBytes(none) /\ Size(none) = 0
  BY <1>1, ConcatEmptySeq, EmptyBytes DEF IsBytes
<1> HIDE DEF none
<1>3. StartsWith(data, none \o run)
  BY <1>2
<1>4. Slice(data, Size(none), Size(run)) = run
  BY <1>1, <1>2, <1>3, Field
<1>5. Slice(data, 0, w) = run
  BY <1>2, <1>4, RunIs
<1> HIDE DEF run
<1>6. Len(run) = 1 /\ Kind(run[1]) = order /\ Value(run[1]) = n
  BY RunIs DEF run
<1> QED BY <1>5, <1>6 DEF Number, NumberIn

-----------------------------------------------------------------------------
\* The runs from one to another, and where they end.
LEMMA Segment ==
  ASSUME NEW d, IsBytes(d), NEW a \in 1..Len(d), NEW b \in a..Len(d)
  PROVE  /\ IsBytes(SubSeq(d, a, b))
         /\ Len(SubSeq(d, a, b)) = b - a + 1
         /\ \A i \in 1..(b - a + 1) : SubSeq(d, a, b)[i] = d[a + i - 1]
         /\ Size(SubSeq(d, a, b)) = Ends(d)[b] - Ends(d)[a - 1]
<1> DEFINE t == SubSeq(d, a, b)
           n == b - a + 1
           e == Ends(d)
           w == Widths(t)
           h == [i \in 0..n |-> e[a + i - 1] - e[a - 1]]
<1>1. Len(d) \in Nat /\ a \in Nat /\ b \in Nat /\ a > 0 /\ a <= b /\ b <= Len(d)
      /\ n \in Nat /\ n > 0 /\ DOMAIN d = 1..Len(d)
  BY BytesShape
<1>2. \A i \in a..b : d[i] \in ToSet(d)
  BY <1>1 DEF ToSet
<1>3. /\ t \in Seq(ToSet(d)) /\ Len(t) = n
      /\ \A i \in 1..n : t[i] = d[a + i - 1]
  BY <1>1, <1>2, SubSeqProperties
<1> HIDE DEF t, n
<1>4. DOMAIN t = 1..n
  BY <1>3, LenProperties
<1>5. IsBytes(t)
  <2>1. t \in Seq(ToSet(t))
    <3>1. t \in [1..Len(t) -> ToSet(t)] /\ Len(t) \in Nat
      BY <1>3, <1>4, LenProperties DEF ToSet
    <3> QED BY <3>1, SeqDef
  <2>2. \A i \in 1..n : IsRun(t[i])
    <3> TAKE i \in 1..n
    <3>1. a + i - 1 \in DOMAIN d /\ t[i] = d[a + i - 1]
      BY <1>1, <1>3 DEF n
    <3> QED BY <3>1 DEF IsBytes
  <2> QED BY <1>4, <2>1, <2>2 DEF IsBytes
<1>6. /\ \A i \in 0..Len(d) : e[i] \in Nat
      /\ \A i \in 1..Len(d) : e[i] = e[i - 1] + Width(d[i])
  BY EndsOf
<1>7. \A i \in 0..n : a + i - 1 \in 0..Len(d) /\ e[a - 1] <= e[a + i - 1]
  <2> TAKE i \in 0..n
  <2>1. a + i - 1 \in 0..Len(d) /\ a - 1 \in 0..Len(d) /\ ~(a + i - 1 < a - 1)
    BY <1>1 DEF n
  <2>2. ~(e[a + i - 1] < e[a - 1])
    BY <2>1, EndsIncrease
  <2>3. e[a + i - 1] \in Nat /\ e[a - 1] \in Nat
    BY <1>6, <2>1
  <2> HIDE DEF e
  <2> QED BY <2>1, <2>2, <2>3
<1>8. \A i \in 1..n : w[i] = Width(d[a + i - 1]) /\ a + i - 1 \in 1..Len(d)
  <2>1. \A i \in 1..n : w[i] = Width(t[i])
    BY <1>3 DEF Widths
  <2> HIDE DEF w
  <2> QED BY <1>1, <1>3, <2>1 DEF n
<1> HIDE DEF e, w
<1>9. Adds(h, n, w)
  <2>1. h \in [0..n -> Nat]
    <3>1. \A i \in 0..n : e[a + i - 1] - e[a - 1] \in Nat
      <4> TAKE i \in 0..n
      <4>1. a + i - 1 \in 0..Len(d) /\ a - 1 \in 0..Len(d)
        BY <1>1, <1>7
      <4>2. e[a + i - 1] \in Nat /\ e[a - 1] \in Nat /\ e[a - 1] <= e[a + i - 1]
        BY <1>6, <1>7, <4>1
      <4> QED BY <4>2
    <3> QED BY <3>1
  <2>2. h[0] = 0
    <3>1. a + 0 - 1 = a - 1 /\ 0 \in 0..n /\ a - 1 \in 0..Len(d)
      BY <1>1
    <3>2. e[a - 1] - e[a - 1] = 0
      BY <1>6, <3>1
    <3> QED BY <3>1, <3>2
  <2>3. ASSUME NEW i \in 1..n PROVE h[i] = h[i - 1] + w[i]
    <3>1. /\ a + i - 1 \in 1..Len(d) /\ (a + i - 1) - 1 = a + (i - 1) - 1
          /\ w[i] = Width(d[a + i - 1]) /\ i \in 0..n /\ i - 1 \in 0..n
          /\ a - 1 \in 0..Len(d) /\ a + (i - 1) - 1 \in 0..Len(d)
      BY <1>1, <1>7, <1>8
    <3>2. /\ e[a + i - 1] = e[a + (i - 1) - 1] + w[i]
          /\ e[a + (i - 1) - 1] \in Nat /\ e[a - 1] \in Nat
      BY <1>6, <3>1
    <3>3. Width(d[a + i - 1]) \in Nat
      BY <3>1, BytesShape
    <3>4. h[i] = e[a + i - 1] - e[a - 1] /\ h[i - 1] = e[a + (i - 1) - 1] - e[a - 1]
      BY <3>1
    <3> HIDE DEF h
    <3> QED BY <3>1, <3>2, <3>3, <3>4
  <2> QED BY <2>1, <2>2, <2>3 DEF Adds
<1>10. h = Ends(t)
  <2>1. Adds(Ends(t), n, w)
    BY <1>3, <1>5, EndsAdd DEF w
  <2>2. Ends(t) = [i \in 0..n |-> IF i = 0 THEN 0 ELSE Ends(t)[i - 1] + w[i]]
    BY <1>1, <2>1 DEF Adds
  <2> HIDE DEF h
  <2> QED BY <1>1, <1>9, <2>2, SumsUnique
<1>11. Size(t) = e[b] - e[a - 1]
  <2>1. a + n - 1 = b /\ n \in 0..n
    BY <1>1 DEF n
  <2> QED BY <1>3, <1>10, <2>1 DEF Size
<1> QED BY <1>3, <1>5, <1>11 DEF t, e, n

\* Max is the greatest of a set of natural numbers that has a bound.
LEMMA MaxOfNat ==
  ASSUME NEW T, T \subseteq Nat, T # {}, NEW m \in Nat, \A y \in T : y <= m
  PROVE  Max(T) \in T /\ \A y \in T : y <= Max(T)
<1> DEFINE U == {m - y : y \in T}
<1>1. U \subseteq Nat /\ U # {}
  <2>1. \A y \in T : y \in Nat /\ m - y \in Nat
    OBVIOUS
  <2> QED BY <2>1
<1>2. PICK z \in U : \A y \in U : z <= y
  <2> HIDE DEF U
  <2> QED BY <1>1, LeastNatural
<1>3. PICK x \in T : z = m - x
  BY <1>2
<1>4. \A y \in T : x >= y
  <2> TAKE y \in T
  <2>1. z <= m - y
    BY <1>2
  <2> QED BY <1>3, <2>1
<1> QED BY <1>4 DEF Max

\* Bytes that are cut off are a byte string of their number.
LEMMA CutIs ==
  ASSUME NEW w \in Nat
  PROVE  /\ IsBytes(Cut(w)) /\ Size(Cut(w)) = w
         /\ w > 0 => Len(Cut(w)) = 1 /\ Kind(Cut(w)[1]) = "cut"
         /\ w = 0 => Cut(w) = <<>>
BY RunIs, EmptyBytes DEF Cut

\* What is in a slice: bytes cut off, the whole runs a to b, bytes cut off.
SliceHolds(d, at, n, a, b, h, t) ==
  /\ a \in 1..Len(d) /\ b \in a..Len(d) /\ h \in Nat /\ t \in Nat
  /\ Slice(d, at, n) = Cut(h) \o SubSeq(d, a, b) \o Cut(t)
  /\ h + Size(SubSeq(d, a, b)) + t = n
  /\ Ends(d)[a - 1] = at + h /\ Ends(d)[b] = at + n - t
  /\ b < Len(d) => Ends(d)[b + 1] > at + n

\* A slice that holds no whole run is cut off all through.
LEMMA SliceParts ==
  ASSUME NEW d, IsBytes(d), NEW at \in Nat, NEW n \in Nat
  PROVE  \/ Slice(d, at, n) = Cut(n)
         \/ \E a, b, h, t : SliceHolds(d, at, n, a, b, h, t)
<1> DEFINE e == Ends(d)
           inside == {i \in DOMAIN d : e[i - 1] >= at /\ e[i] <= at + n}
           a == Min(inside)
           b == Max(inside)
           runs == SubSeq(d, a, b)
           h == e[a - 1] - at
           t == n - h - Size(runs)
<1>1. Slice(d, at, n) = IF inside = {} THEN Cut(n) ELSE Cut(h) \o runs \o Cut(t)
  BY DEF Slice
<1>2. Len(d) \in Nat /\ DOMAIN d = 1..Len(d)
  BY BytesShape
<1>3. ASSUME inside # {}
      PROVE  /\ a \in 1..Len(d) /\ b \in a..Len(d) /\ a \in inside /\ b \in inside
             /\ \A y \in inside : y <= b
  <2>1. inside \subseteq 1..Len(d) /\ inside \subseteq Nat
    BY <1>2
  <2> HIDE DEF inside
  <2>2. a \in inside /\ \A y \in inside : a <= y
    BY <1>3, <2>1, MinOfNat
  <2>3. b \in inside /\ \A y \in inside : y <= b
    <3>1. \A y \in inside : y <= Len(d)
      BY <2>1
    <3> QED BY <1>2, <1>3, <2>1, <3>1, MaxOfNat
  <2> HIDE DEF a, b
  <2> QED BY <2>1, <2>2, <2>3
<1>4. ASSUME inside # {}
      PROVE  SliceHolds(d, at, n, a, b, h, t)
  <2>1. /\ a \in 1..Len(d) /\ b \in a..Len(d)
        /\ e[a - 1] >= at /\ e[b] <= at + n
    BY <1>3, <1>4
  <2>2. b < Len(d) => e[b + 1] > at + n
    <3> SUFFICES ASSUME b < Len(d) PROVE e[b + 1] > at + n
      OBVIOUS
    <3>1. b + 1 \in 1..Len(d) /\ b + 1 - 1 = b /\ ~(b + 1 <= b) /\ b \in 0..Len(d) /\ b - 1 \in 0..Len(d)
      <4> HIDE DEF a, b
      <4> QED BY <1>2, <2>1
    <3>2. b + 1 \notin inside
      BY <1>3, <1>4, <3>1
    <3>3. e[b + 1] \in Nat /\ e[b] \in Nat /\ e[b - 1] \in Nat
      BY <3>1, EndsOf
    <3>4. e[b] >= at
      <4>1. e[b - 1] >= at
        BY <1>3, <1>4
      <4>2. e[b - 1] < e[b]
        <5> HIDE DEF b, e
        <5>1. b - 1 < b
          BY <2>1, <1>2
        <5> QED BY <3>1, <5>1, EndsIncrease DEF e
      <4> HIDE DEF b, e
      <4> QED BY <3>3, <4>1, <4>2
    <3>5. ~(e[b + 1] <= at + n)
      BY <1>2, <3>1, <3>2, <3>4
    <3> HIDE DEF e, b
    <3> QED BY <3>3, <3>5
  <2> HIDE DEF a, b
  <2>3. /\ a - 1 \in 0..Len(d) /\ b \in 0..Len(d)
    BY <1>2, <2>1
  <2>4. /\ e[a - 1] \in Nat /\ e[b] \in Nat
    BY <2>3, EndsOf
  <2>5. Size(runs) = e[b] - e[a - 1]
    BY <2>1, Segment
  <2> DEFINE s == Size(runs)
  <2>6. s = e[b] - e[a - 1]
    BY <2>5
  <2>7. t = n - h - s
    OBVIOUS
  <2> HIDE DEF runs, s, t
  <2>8. a - 1 < b
    BY <1>2, <2>1
  <2>9. e[a - 1] < e[b]
    BY <2>3, <2>8, EndsIncrease
  <2> HIDE DEF e
  <2>10. h \in Nat /\ t \in Nat /\ h + s + t = n /\ e[a - 1] = at + h /\ e[b] = at + n - t
    <3>1. e[a - 1] >= at /\ e[b] <= at + n
      BY <2>1
    <3> DEFINE x == e[a - 1]
               y == e[b]
    <3>2. /\ x \in Nat /\ y \in Nat /\ x < y /\ s = y - x /\ h = x - at /\ t = n - h - s
          /\ x >= at /\ y <= at + n
      BY <2>4, <2>6, <2>7, <2>9, <3>1
    <3> HIDE DEF h, x, y
    <3>3. h \in Nat /\ t \in Nat /\ h + s + t = n /\ x = at + h /\ y = at + n - t
      BY <3>2
    <3> QED BY <3>3 DEF x, y
  <2> HIDE DEF h
  <2>11. Slice(d, at, n) = Cut(h) \o runs \o Cut(t)
    BY <1>1, <1>4
  <2> HIDE DEF inside
  <2> QED BY <2>1, <2>2, <2>10, <2>11 DEF SliceHolds, runs, s, e
<1> QED BY <1>1, <1>4

\* A slice is a byte string of the size asked for.
LEMMA SliceIs ==
  ASSUME NEW d, IsBytes(d), NEW at \in Nat, NEW n \in Nat
  PROVE  IsBytes(Slice(d, at, n)) /\ Size(Slice(d, at, n)) = n
<1>1. CASE Slice(d, at, n) = Cut(n)
  BY <1>1, CutIs
<1>2. ASSUME NEW a \in 1..Len(d), NEW b \in a..Len(d), NEW h \in Nat, NEW t \in Nat,
             Slice(d, at, n) = Cut(h) \o SubSeq(d, a, b) \o Cut(t),
             h + Size(SubSeq(d, a, b)) + t = n
      PROVE  IsBytes(Slice(d, at, n)) /\ Size(Slice(d, at, n)) = n
  <2> DEFINE runs == SubSeq(d, a, b)
  <2>1. IsBytes(runs)
    BY Segment
  <2>2. IsBytes(Cut(h)) /\ Size(Cut(h)) = h /\ IsBytes(Cut(t)) /\ Size(Cut(t)) = t
    BY CutIs
  <2> HIDE DEF runs
  <2>3. IsBytes(Cut(h) \o runs) /\ Size(Cut(h) \o runs) = h + Size(runs)
    BY <2>1, <2>2, Built
  <2>4. IsBytes((Cut(h) \o runs) \o Cut(t))
        /\ Size((Cut(h) \o runs) \o Cut(t)) = h + Size(runs) + t
    BY <2>2, <2>3, Built
  <2> QED BY <1>2, <2>4 DEF runs
<1>3. CASE \E a, b, h, t : SliceHolds(d, at, n, a, b, h, t)
  BY <1>2, <1>3 DEF SliceHolds
<1> QED BY <1>1, <1>3, SliceParts

\* The end of a slice at the end: the last run, or cut out of it.
LEMMA SliceEnd ==
  ASSUME NEW d, IsBytes(d), NEW n \in Nat, n > 0, n <= Size(d)
  PROVE  LET s == Slice(d, Size(d) - n, n)
         IN  Kind(s[Len(s)]) = "cut" \/ s[Len(s)] = d[Len(d)]
<1> DEFINE at == Size(d) - n
           s == Slice(d, at, n)
<1>1. at \in Nat /\ at + n <= Size(d) /\ at + n = Size(d)
  BY EndsOf
<1> HIDE DEF at
<1>2. ASSUME s = Cut(n) PROVE Kind(s[Len(s)]) = "cut"
  <2>1. Len(Cut(n)) = 1 /\ Kind(Cut(n)[1]) = "cut"
    BY CutIs
  <2> HIDE DEF s
  <2> QED BY <1>2, <2>1
<1>3. ASSUME NEW a \in 1..Len(d), NEW b \in a..Len(d), NEW h \in Nat, NEW t \in Nat,
             s = Cut(h) \o SubSeq(d, a, b) \o Cut(t),
             Ends(d)[b] = at + n - t,
             b < Len(d) => Ends(d)[b + 1] > at + n
      PROVE  s[Len(s)] = d[Len(d)]
  <2> DEFINE runs == SubSeq(d, a, b)
             e == Ends(d)
  <2>1. Len(d) \in Nat /\ b \in Nat /\ a \in Nat /\ b \in 1..Len(d)
    BY BytesShape
  <2>2. e[Len(d)] = Size(d)
    BY DEF Size
  <2>3. b = Len(d)
    <3> SUFFICES ASSUME b < Len(d) PROVE FALSE
      BY <2>1
    <3>1. b + 1 \in 0..Len(d) /\ Len(d) \in 0..Len(d) /\ ~(Len(d) < b + 1)
      BY <2>1
    <3>2. ~(e[Len(d)] < e[b + 1])
      BY <3>1, EndsIncrease
    <3>3. e[Len(d)] \in Nat /\ e[b + 1] \in Nat
      BY <3>1, EndsOf
    <3>4. e[b + 1] > at + n
      BY <1>3
    <3> HIDE DEF e
    <3> QED BY <1>1, <2>2, <3>2, <3>3, <3>4
  <2>4. t = 0
    <3>1. e[b] = at + n - t
      BY <1>3
    <3> HIDE DEF e
    <3> QED BY <1>1, <2>2, <2>3, <3>1
  <2>5. IsBytes(runs) /\ Len(runs) = b - a + 1 /\ runs[b - a + 1] = d[b]
    <3>1. b - a + 1 \in 1..(b - a + 1) /\ a + (b - a + 1) - 1 = b
      BY <2>1
    <3> QED BY <3>1, Segment
  <2>6. IsBytes(Cut(h)) /\ Cut(t) = <<>>
    BY <2>4, CutIs
  <2> HIDE DEF runs
  <2>7. s = Cut(h) \o runs
    <3>1. IsBytes(Cut(h) \o runs)
      BY <2>5, <2>6, Built
    <3>2. (Cut(h) \o runs) \o <<>> = Cut(h) \o runs
      BY <3>1, ConcatEmptySeq DEF IsBytes
    <3>3. s = (Cut(h) \o runs) \o <<>>
      BY <1>3, <2>6 DEF runs
    <3> QED BY <3>2, <3>3
  <2>8. Len(runs) \in 1..Len(runs)
    BY <2>1, <2>5
  <2>9. /\ Len(Cut(h) \o runs) = Len(Cut(h)) + Len(runs)
        /\ (Cut(h) \o runs)[Len(Cut(h)) + Len(runs)] = runs[Len(runs)]
    BY <2>5, <2>6, <2>8, ConcatShape
  <2> HIDE DEF s
  <2> QED BY <2>3, <2>5, <2>7, <2>9
<1>4. ASSUME \E a, b, h, t : SliceHolds(d, at, n, a, b, h, t)
      PROVE  s[Len(s)] = d[Len(d)]
  BY <1>3, <1>4 DEF SliceHolds
<1>5. Kind(s[Len(s)]) = "cut" \/ s[Len(s)] = d[Len(d)]
  BY <1>1, <1>2, <1>4, SliceParts, Zenon
<1> QED BY <1>5 DEF at

\* What Number reads is a natural number, or Unknown.
LEMMA NumberIs ==
  ASSUME NEW d, IsBytes(d), NEW at \in Nat, NEW n \in Nat,
         NEW order \in {"be", "le"}
  PROVE  Number(order, d, at, n) \in Nat \cup {Unknown}
<1> DEFINE f == Slice(d, at, n)
<1>1. IsBytes(f)
  BY SliceIs
<1> HIDE DEF f
<1>2. ASSUME Len(f) = 1, Kind(f[1]) = order
      PROVE  Value(f[1]) \in Nat
  <2> 1 \in DOMAIN f
    BY <1>1, <1>2, BytesShape
  <2> QED BY <1>1, <1>2 DEF IsBytes, IsRun
<1> QED BY <1>2 DEF Number, NumberIn, f

-----------------------------------------------------------------------------
Is32(bytes) == IsBytes(bytes) /\ Size(bytes) = 32
IsString(bytes) == IsBytes(bytes) /\ IsText(bytes)
IsId(bytes) ==
  Is32(bytes) /\ Len(bytes) = 1 /\ Kind(bytes[1]) = "key"

\* The messages of the shared library.
SharedOK(m) ==
  /\ m = [token_id |-> m.token_id, metadata_uri |-> m.metadata_uri,
          recipient |-> m.recipient, origin_chain |-> m.origin_chain,
          destination_chain |-> m.destination_chain,
          message_id |-> m.message_id, timestamp |-> m.timestamp,
          origin_contract |-> m.origin_contract, nonce |-> m.nonce]
  /\ m.token_id \in Nat /\ m.origin_chain \in Nat
  /\ m.destination_chain \in Nat /\ m.timestamp \in Nat /\ m.nonce \in Nat
  /\ IsString(m.metadata_uri)
  /\ Is32(m.recipient) /\ Is32(m.origin_contract) /\ IsId(m.message_id)

\* What the proofs use of a message of the shared library.
LEMMA SharedFacts ==
  ASSUME NEW m, SharedOK(m)
  PROVE  /\ Size(m.metadata_uri) \in Nat
         /\ m.token_id \in Nat /\ m.origin_chain \in Nat
         /\ m.destination_chain \in Nat /\ m.timestamp \in Nat /\ m.nonce \in Nat
         /\ IsBytes(m.metadata_uri) /\ IsText(m.metadata_uri)
         /\ IsBytes(m.recipient) /\ Size(m.recipient) = 32
         /\ IsBytes(m.origin_contract) /\ Size(m.origin_contract) = 32
         /\ IsBytes(m.message_id) /\ Size(m.message_id) = 32
BY EndsOf DEF SharedOK, IsString, Is32, IsId

\* A borsh string behind other bytes: its length, then its text.
LEMMA BorshStringBehind ==
  ASSUME NEW front, IsBytes(front), NEW text, IsBytes(text)
  PROVE  front \o BorshString(text) = (front \o Le(4, Size(text))) \o text
<1>1. IsBytes(Le(4, Size(text)))
  BY EndsOf, LeIs
<1> QED BY <1>1, ConcatAssoc DEF BorshString

\* The same with the length in big-endian order.
LEMMA BeStringBehind ==
  ASSUME NEW front, IsBytes(front), NEW text, IsBytes(text)
  PROVE  front \o BeString(text) = (front \o Be(4, Size(text))) \o text
<1>1. IsBytes(Be(4, Size(text)))
  BY EndsOf, BeIs
<1> QED BY <1>1, ConcatAssoc DEF BeString

\* What the shared library encodes it decodes.
THEOREM DecodeEncode ==
  ASSUME NEW m, SharedOK(m)
  PROVE  Decode(Encode(m)) = {m}
<1> DEFINE d == Encode(m)
           n == Size(m.metadata_uri)
           end == 12 + n
           p1 == Le(8, m.token_id)
           p2 == p1 \o Le(4, n)
           p3 == p2 \o m.metadata_uri
           p4 == p3 \o m.recipient
           p5 == p4 \o Le(4, m.origin_chain)
           p6 == p5 \o Le(4, m.destination_chain)
           p7 == p6 \o m.message_id
           p8 == p7 \o Le(8, m.timestamp)
           p9 == p8 \o m.origin_contract
           p10 == p9 \o Le(8, m.nonce)
<1>1. SharedOK(m) /\ n \in Nat /\ end \in Nat
      /\ m.token_id \in Nat /\ m.origin_chain \in Nat
      /\ m.destination_chain \in Nat /\ m.timestamp \in Nat /\ m.nonce \in Nat
      /\ IsBytes(m.metadata_uri) /\ IsText(m.metadata_uri)
      /\ IsBytes(m.recipient) /\ Size(m.recipient) = 32
      /\ IsBytes(m.origin_contract) /\ Size(m.origin_contract) = 32
      /\ IsBytes(m.message_id) /\ Size(m.message_id) = 32
  BY SharedFacts
<1>2. d = p10
  <2>1. IsBytes(p1) /\ IsBytes(Le(4, n))
    BY <1>1, LeIs
  <2>2. p1 \o BorshString(m.metadata_uri) = p3
    <3> HIDE DEF p1
    <3> QED BY <1>1, <2>1, BorshStringBehind
  <2> QED BY <2>2 DEF Encode
<1>3. IsBytes(p1) /\ Size(p1) = 8
  BY <1>1, LeIs
<1> HIDE DEF p1
<1>4. IsBytes(p2) /\ Size(p2) = 12
  BY <1>1, <1>3, LeIs, Built
<1> HIDE DEF p2
<1>5. IsBytes(p3) /\ Size(p3) = end
  BY <1>1, <1>4, Built
<1> HIDE DEF p3, end
<1>6. IsBytes(p4) /\ Size(p4) = end + 32
  BY <1>1, <1>5, Built
<1> HIDE DEF p4
<1>7. IsBytes(p5) /\ Size(p5) = end + 36
  BY <1>1, <1>6, LeIs, Built
<1> HIDE DEF p5
<1>8. IsBytes(p6) /\ Size(p6) = end + 40
  BY <1>1, <1>7, LeIs, Built
<1> HIDE DEF p6
<1>9. IsBytes(p7) /\ Size(p7) = end + 72
  BY <1>1, <1>8, Built
<1> HIDE DEF p7
<1>10. IsBytes(p8) /\ Size(p8) = end + 80
  BY <1>1, <1>9, LeIs, Built
<1> HIDE DEF p8
<1>11. IsBytes(p9) /\ Size(p9) = end + 112
  BY <1>1, <1>10, Built
<1> HIDE DEF p9
<1>12. IsBytes(p10) /\ Size(p10) = end + 120
  BY <1>1, <1>11, LeIs, Built
<1> HIDE DEF p10
<1> HIDE DEF d
<1>13. StartsWith(d, p10)
  BY <1>2, <1>12, StartsWithSelf
<1>14. StartsWith(d, p9) /\ Number("le", d, end + 112, 8) = m.nonce
  BY <1>1, <1>11, <1>13, NumberField DEF p10, Le
<1>15. StartsWith(d, p8) /\ Slice(d, end + 80, 32) = m.origin_contract
  BY <1>1, <1>10, <1>14, Field DEF p9
<1>16. StartsWith(d, p7) /\ Number("le", d, end + 72, 8) = m.timestamp
  BY <1>1, <1>9, <1>15, NumberField DEF p8, Le
<1>17. StartsWith(d, p6) /\ Slice(d, end + 40, 32) = m.message_id
  BY <1>1, <1>8, <1>16, Field DEF p7
<1>18. StartsWith(d, p5) /\ Number("le", d, end + 36, 4) = m.destination_chain
  BY <1>1, <1>7, <1>17, NumberField DEF p6, Le
<1>19. StartsWith(d, p4) /\ Number("le", d, end + 32, 4) = m.origin_chain
  BY <1>1, <1>6, <1>18, NumberField DEF p5, Le
<1>20. StartsWith(d, p3) /\ Slice(d, end, 32) = m.recipient
  BY <1>1, <1>5, <1>19, Field DEF p4
<1>21. StartsWith(d, p2) /\ Slice(d, 12, n) = m.metadata_uri
  BY <1>1, <1>4, <1>20, Field DEF p3
<1>22. StartsWith(d, p1) /\ Number("le", d, 8, 4) = n
  BY <1>1, <1>3, <1>21, NumberField DEF p2, Le
<1>23. Number("le", d, 0, 8) = m.token_id
  BY <1>1, <1>22, FirstNumber DEF p1, Le
<1>24. n # Unknown /\ 12 + n <= end + 120
  BY <1>1 DEF Unknown, end
<1>25. HasString(d, 12, n) /\ Size(d) = end + 120
  BY <1>1, <1>2, <1>12, <1>21, <1>24 DEF HasString
<1>26. Decode(d) =
        {[token_id |-> m.token_id, metadata_uri |-> m.metadata_uri,
          recipient |-> m.recipient, origin_chain |-> m.origin_chain,
          destination_chain |-> m.destination_chain,
          message_id |-> m.message_id, timestamp |-> m.timestamp,
          origin_contract |-> m.origin_contract, nonce |-> m.nonce]}
  BY <1>23, <1>22, <1>21, <1>20, <1>19, <1>18, <1>17, <1>16, <1>15, <1>14,
     <1>25 DEF Decode, end
<1> QED BY <1>1, <1>26 DEF SharedOK, d

\* A word of the ABI behind other bytes: zeros, then a number of 4 bytes.
LEMMA Word4Behind ==
  ASSUME NEW front, IsBytes(front), NEW v \in Nat
  PROVE  front \o UintWord(4, v) = (front \o Zeros(28)) \o Be(4, v)
<1> DEFINE a == Zeros(28)
           b == Be(4, v)
<1>1. IsBytes(a) /\ IsBytes(b)
  BY ZerosIs, BeIs
<1>2. UintWord(4, v) = a \o b
  BY DEF UintWord
<1> HIDE DEF a, b
<1>3. (front \o a) \o b = front \o (a \o b)
  BY <1>1, ConcatAssoc
<1> QED BY <1>2, <1>3 DEF a, b

\* The same for a number of 8 bytes.
LEMMA Word8Behind ==
  ASSUME NEW front, IsBytes(front), NEW v \in Nat
  PROVE  front \o UintWord(8, v) = (front \o Zeros(24)) \o Be(8, v)
<1> DEFINE a == Zeros(24)
           b == Be(8, v)
<1>1. IsBytes(a) /\ IsBytes(b)
  BY ZerosIs, BeIs
<1>2. UintWord(8, v) = a \o b
  BY DEF UintWord
<1> HIDE DEF a, b
<1>3. (front \o a) \o b = front \o (a \o b)
  BY <1>1, ConcatAssoc
<1> QED BY <1>2, <1>3 DEF a, b

\* What the shared library writes for the EVM it reads back.
THEOREM FromEvmToEvm ==
  ASSUME NEW m, SharedOK(m)
  PROVE  FromEvmFormat(ToEvmFormat(m)) = {m}
<1> DEFINE d == ToEvmFormat(m)
           n == Size(m.metadata_uri)
           pad == PaddedSize(n) - n
           p1 == Zeros(24)
           p2 == p1 \o Be(8, m.token_id)
           p3 == p2 \o Zeros(28)
           p4 == p3 \o Be(4, 288)
           p5 == p4 \o m.recipient
           p6 == p5 \o Zeros(28)
           p7 == p6 \o Be(4, m.origin_chain)
           p8 == p7 \o Zeros(28)
           p9 == p8 \o Be(4, m.destination_chain)
           p10 == p9 \o m.message_id
           p11 == p10 \o Zeros(24)
           p12 == p11 \o Be(8, m.timestamp)
           p13 == p12 \o m.origin_contract
           p14 == p13 \o Zeros(24)
           p15 == p14 \o Be(8, m.nonce)
           p16 == p15 \o Zeros(28)
           p17 == p16 \o Be(4, n)
           p18 == p17 \o m.metadata_uri
           p19 == p18 \o Zeros(pad)
<1>1. SharedOK(m) /\ n \in Nat /\ pad \in Nat
      /\ m.token_id \in Nat /\ m.origin_chain \in Nat
      /\ m.destination_chain \in Nat /\ m.timestamp \in Nat /\ m.nonce \in Nat
      /\ IsBytes(m.metadata_uri) /\ IsText(m.metadata_uri)
      /\ IsBytes(m.recipient) /\ Size(m.recipient) = 32
      /\ IsBytes(m.origin_contract) /\ Size(m.origin_contract) = 32
      /\ IsBytes(m.message_id) /\ Size(m.message_id) = 32
  <2>1. \A k \in Nat : PaddedSize(k) - k \in Nat
    BY DEF PaddedSize
  <2> QED BY <2>1, SharedFacts
<1> HIDE DEF pad
<1>2. IsBytes(p1) /\ Size(p1) = 24
  BY <1>1, ZerosIs
<1> HIDE DEF p1
<1>3. IsBytes(p2) /\ Size(p2) = 32
  BY <1>1, <1>2, BeIs, Built
<1> HIDE DEF p2
<1>4. IsBytes(p3) /\ Size(p3) = 60
  BY <1>1, <1>3, ZerosIs, Built
<1> HIDE DEF p3
<1>5. IsBytes(p4) /\ Size(p4) = 64
  BY <1>1, <1>4, BeIs, Built
<1> HIDE DEF p4
<1>6. IsBytes(p5) /\ Size(p5) = 96
  BY <1>1, <1>5, Built
<1> HIDE DEF p5
<1>7. IsBytes(p6) /\ Size(p6) = 124
  BY <1>1, <1>6, ZerosIs, Built
<1> HIDE DEF p6
<1>8. IsBytes(p7) /\ Size(p7) = 128
  BY <1>1, <1>7, BeIs, Built
<1> HIDE DEF p7
<1>9. IsBytes(p8) /\ Size(p8) = 156
  BY <1>1, <1>8, ZerosIs, Built
<1> HIDE DEF p8
<1>10. IsBytes(p9) /\ Size(p9) = 160
  BY <1>1, <1>9, BeIs, Built
<1> HIDE DEF p9
<1>11. IsBytes(p10) /\ Size(p10) = 192
  BY <1>1, <1>10, Built
<1> HIDE DEF p10
<1>12. IsBytes(p11) /\ Size(p11) = 216
  BY <1>1, <1>11, ZerosIs, Built
<1> HIDE DEF p11
<1>13. IsBytes(p12) /\ Size(p12) = 224
  BY <1>1, <1>12, BeIs, Built
<1> HIDE DEF p12
<1>14. IsBytes(p13) /\ Size(p13) = 256
  BY <1>1, <1>13, Built
<1> HIDE DEF p13
<1>15. IsBytes(p14) /\ Size(p14) = 280
  BY <1>1, <1>14, ZerosIs, Built
<1> HIDE DEF p14
<1>16. IsBytes(p15) /\ Size(p15) = 288
  BY <1>1, <1>15, BeIs, Built
<1> HIDE DEF p15
<1>17. IsBytes(p16) /\ Size(p16) = 316
  BY <1>1, <1>16, ZerosIs, Built
<1> HIDE DEF p16
<1>18. IsBytes(p17) /\ Size(p17) = 320
  BY <1>1, <1>17, BeIs, Built
<1> HIDE DEF p17
<1>19. IsBytes(p18) /\ Size(p18) = 320 + n
  BY <1>1, <1>18, Built
<1> HIDE DEF p18
<1>20. IsBytes(p19) /\ Size(p19) = 320 + n + pad
  BY <1>1, <1>19, ZerosIs, Built
<1> HIDE DEF p19
<1> HIDE DEF d
<1>21. d = p19
  <2>1. UintWord(8, m.token_id) = p2
    BY DEF p1, p2, UintWord
  <2>2. p2 \o UintWord(4, 288) = p4
    <3>1. (p2 \o Zeros(28)) \o Be(4, 288) = p4
      BY DEF p3, p4
    <3>2. p2 \o UintWord(4, 288) = (p2 \o Zeros(28)) \o Be(4, 288)
      <4>1. IsBytes(p2) /\ 288 \in Nat
        BY <1>1, <1>3
      <4> QED BY <4>1, Word4Behind, Zenon
    <3> QED BY <3>1, <3>2
  <2>3. p5 \o UintWord(4, m.origin_chain) = p7
    <3>1. (p5 \o Zeros(28)) \o Be(4, m.origin_chain) = p7
      BY DEF p6, p7
    <3>2. p5 \o UintWord(4, m.origin_chain) = (p5 \o Zeros(28)) \o Be(4, m.origin_chain)
      <4>1. IsBytes(p5) /\ m.origin_chain \in Nat
        BY <1>1, <1>6
      <4> QED BY <4>1, Word4Behind, Zenon
    <3> QED BY <3>1, <3>2
  <2>4. p7 \o UintWord(4, m.destination_chain) = p9
    <3>1. (p7 \o Zeros(28)) \o Be(4, m.destination_chain) = p9
      BY DEF p8, p9
    <3>2. p7 \o UintWord(4, m.destination_chain) = (p7 \o Zeros(28)) \o Be(4, m.destination_chain)
      <4>1. IsBytes(p7) /\ m.destination_chain \in Nat
        BY <1>1, <1>8
      <4> QED BY <4>1, Word4Behind, Zenon
    <3> QED BY <3>1, <3>2
  <2>5. p10 \o UintWord(8, m.timestamp) = p12
    <3>1. (p10 \o Zeros(24)) \o Be(8, m.timestamp) = p12
      BY DEF p11, p12
    <3>2. p10 \o UintWord(8, m.timestamp) = (p10 \o Zeros(24)) \o Be(8, m.timestamp)
      <4>1. IsBytes(p10) /\ m.timestamp \in Nat
        BY <1>1, <1>11
      <4> QED BY <4>1, Word8Behind, Zenon
    <3> QED BY <3>1, <3>2
  <2>6. p13 \o UintWord(8, m.nonce) = p15
    <3>1. (p13 \o Zeros(24)) \o Be(8, m.nonce) = p15
      BY DEF p14, p15
    <3>2. p13 \o UintWord(8, m.nonce) = (p13 \o Zeros(24)) \o Be(8, m.nonce)
      <4>1. IsBytes(p13) /\ m.nonce \in Nat
        BY <1>1, <1>14
      <4> QED BY <4>1, Word8Behind, Zenon
    <3> QED BY <3>1, <3>2
  <2>7. p15 \o UintWord(4, n) = p17
    <3>1. (p15 \o Zeros(28)) \o Be(4, n) = p17
      BY DEF p16, p17
    <3>2. p15 \o UintWord(4, n) = (p15 \o Zeros(28)) \o Be(4, n)
      <4>1. IsBytes(p15) /\ n \in Nat
        BY <1>1, <1>16
      <4> QED BY <4>1, Word4Behind, Zenon
    <3> QED BY <3>1, <3>2
  <2>8. 32 * Words = 288
    BY DEF Words
  <2> QED BY <2>1, <2>2, <2>3, <2>4, <2>5, <2>6, <2>7, <2>8
          DEF ToEvmFormat, d, n, pad, p5, p10, p13, p18, p19
<1>22. StartsWith(d, p19)
  BY <1>21, <1>20, StartsWithSelf
<1>23. StartsWith(d, p18)
  BY <1>1, <1>19, <1>22, ZerosIs, Field DEF p19
<1>24. StartsWith(d, p17) /\ Slice(d, 320, n) = m.metadata_uri
  BY <1>1, <1>18, <1>23, Field DEF p18
<1>25. StartsWith(d, p16) /\ Number("be", d, 316, 4) = n
  BY <1>1, <1>17, <1>24, NumberField DEF p17, Be
<1>26. StartsWith(d, p15)
  BY <1>1, <1>16, <1>25, ZerosIs, Field DEF p16
<1>27. StartsWith(d, p14) /\ Number("be", d, 280, 8) = m.nonce
  BY <1>1, <1>15, <1>26, NumberField DEF p15, Be
<1>28. StartsWith(d, p13)
  BY <1>1, <1>14, <1>27, ZerosIs, Field DEF p14
<1>29. StartsWith(d, p12) /\ Slice(d, 224, 32) = m.origin_contract
  BY <1>1, <1>13, <1>28, Field DEF p13
<1>30. StartsWith(d, p11) /\ Number("be", d, 216, 8) = m.timestamp
  BY <1>1, <1>12, <1>29, NumberField DEF p12, Be
<1>31. StartsWith(d, p10)
  BY <1>1, <1>11, <1>30, ZerosIs, Field DEF p11
<1>32. StartsWith(d, p9) /\ Slice(d, 160, 32) = m.message_id
  BY <1>1, <1>10, <1>31, Field DEF p10
<1>33. StartsWith(d, p8) /\ Number("be", d, 156, 4) = m.destination_chain
  BY <1>1, <1>9, <1>32, NumberField DEF p9, Be
<1>34. StartsWith(d, p7)
  BY <1>1, <1>8, <1>33, ZerosIs, Field DEF p8
<1>35. StartsWith(d, p6) /\ Number("be", d, 124, 4) = m.origin_chain
  BY <1>1, <1>7, <1>34, NumberField DEF p7, Be
<1>36. StartsWith(d, p5)
  BY <1>1, <1>6, <1>35, ZerosIs, Field DEF p6
<1>37. StartsWith(d, p4) /\ Slice(d, 64, 32) = m.recipient
  BY <1>1, <1>5, <1>36, Field DEF p5
<1>38. StartsWith(d, p3) /\ Number("be", d, 60, 4) = 288
  BY <1>1, <1>4, <1>37, NumberField DEF p4, Be
<1>39. StartsWith(d, p2)
  BY <1>1, <1>3, <1>38, ZerosIs, Field DEF p3
<1>40. StartsWith(d, p1) /\ Number("be", d, 24, 8) = m.token_id
  BY <1>1, <1>2, <1>39, NumberField DEF p2, Be
<1>41. Size(d) \in Nat /\ Size(d) >= 320 + n
  BY <1>1, <1>21, <1>20
<1> HIDE DEF n
<1>42. HasString(d, 288 + 32, n) /\ Size(d) >= 32 * Words /\ 288 < Size(d)
  BY <1>1, <1>24, <1>41 DEF HasString, Words, Unknown
<1>43. /\ Number("be", d, 60, 4) = 288 /\ 288 # Unknown
      /\ Number("be", d, 288 + 28, 4) = n
      /\ Slice(d, 288 + 32, n) = m.metadata_uri
  BY <1>38, <1>25, <1>24 DEF Unknown
<1>44. FromEvmFormat(d) =
        {[token_id |-> m.token_id, metadata_uri |-> m.metadata_uri,
          recipient |-> m.recipient, origin_chain |-> m.origin_chain,
          destination_chain |-> m.destination_chain,
          message_id |-> m.message_id, timestamp |-> m.timestamp,
          origin_contract |-> m.origin_contract, nonce |-> m.nonce]}
  BY <1>40, <1>39, <1>38, <1>37, <1>36, <1>35, <1>34, <1>33, <1>32, <1>31,
     <1>30, <1>29, <1>28, <1>27, <1>26, <1>25, <1>24, <1>23, <1>42, <1>43 DEF
     FromEvmFormat
<1> QED BY <1>1, <1>44 DEF SharedOK, d

-----------------------------------------------------------------------------
\* The messages of the Solana program.
NftOK(m) ==
  /\ m = [message_type |-> m.message_type, token_id |-> m.token_id,
          metadata_uri |-> m.metadata_uri, name |-> m.name,
          symbol |-> m.symbol, origin_chain_id |-> m.origin_chain_id,
          origin_address |-> m.origin_address,
          recipient_address |-> m.recipient_address,
          timestamp |-> m.timestamp, message_id |-> m.message_id,
          additional_metadata |-> m.additional_metadata]
  /\ m.message_type \in MessageTypes /\ m.token_id \in Nat
  /\ IsString(m.metadata_uri) /\ IsString(m.name) /\ IsString(m.symbol)
  /\ m.origin_chain_id \in 0..255
  /\ Is32(m.origin_address) /\ Is32(m.recipient_address)
  /\ m.timestamp \in Nat /\ IsId(m.message_id)
  /\ IsBytes(m.additional_metadata)

\* What the proofs use of a message of the Solana program.
LEMMA NftFacts ==
  ASSUME NEW m, NftOK(m)
  PROVE  /\ Size(m.metadata_uri) \in Nat /\ Size(m.name) \in Nat
         /\ Size(m.symbol) \in Nat /\ Size(m.additional_metadata) \in Nat
         /\ m.message_type \in Nat /\ m.token_id \in Nat
         /\ m.origin_chain_id \in Nat /\ m.timestamp \in Nat
         /\ IsBytes(m.metadata_uri) /\ IsText(m.metadata_uri)
         /\ IsBytes(m.name) /\ IsText(m.name)
         /\ IsBytes(m.symbol) /\ IsText(m.symbol)
         /\ IsBytes(m.origin_address) /\ Size(m.origin_address) = 32
         /\ IsBytes(m.recipient_address) /\ Size(m.recipient_address) = 32
         /\ IsBytes(m.message_id) /\ Size(m.message_id) = 32
         /\ IsBytes(m.additional_metadata)
<1>1. MessageTypes \subseteq Nat /\ 0..255 \subseteq Nat
  BY DEF MessageTypes
<1> QED BY <1>1, EndsOf DEF NftOK, IsString, Is32, IsId

\* Three texts, read one after the other.
LEMMA TextsRead ==
  ASSUME NEW order, NEW data, NEW at \in Nat,
         NEW u \in Nat, NEW n \in Nat, NEW s \in Nat, Size(data) \in Nat,
         Number(order, data, at, 4) = u,
         Number(order, data, at + 4 + u, 4) = n,
         Number(order, data, at + 8 + u + n, 4) = s,
         at + 12 + u + n + s <= Size(data),
         NEW uri, NEW name, NEW symbol, IsText(uri), IsText(name), IsText(symbol),
         Slice(data, at + 4, u) = uri, Slice(data, at + 8 + u, n) = name,
         Slice(data, at + 12 + u + n, s) = symbol
  PROVE  /\ TextEnds(order, data, at)[4] = at + 12 + u + n + s
         /\ HasTexts(data, TextEnds(order, data, at))
         /\ Text(data, TextEnds(order, data, at), 1) = uri
         /\ Text(data, TextEnds(order, data, at), 2) = name
         /\ Text(data, TextEnds(order, data, at), 3) = symbol
<1> DEFINE ends == TextEnds(order, data, at)
           e2 == at + 4 + u
           e3 == at + 8 + u + n
           e4 == at + 12 + u + n + s
<1>1. /\ e2 \in Nat /\ e3 \in Nat /\ e4 \in Nat
      /\ e2 = at + 4 + Number(order, data, at, 4)
      /\ e3 = e2 + 4 + n /\ n = Number(order, data, e2, 4)
      /\ e4 = e3 + 4 + s /\ s = Number(order, data, e3, 4)
  OBVIOUS
<1>2. e2 - at - 4 = u /\ e3 - e2 - 4 = n /\ e4 - e3 - 4 = s
  OBVIOUS
<1>3. /\ Slice(data, at + 4, u) = uri /\ Slice(data, e2 + 4, n) = name
      /\ Slice(data, e3 + 4, s) = symbol
  <2>1. e2 + 4 = at + 8 + u /\ e3 + 4 = at + 12 + u + n
    OBVIOUS
  <2> QED BY <2>1
<1>4. /\ at + 4 + u <= Size(data) /\ e2 + 4 + n <= Size(data)
      /\ e3 + 4 + s <= Size(data)
  OBVIOUS
<1> HIDE DEF e2, e3, e4
<1>5. ends = <<at, e2, e3, e4>>
  BY <1>1 DEF TextEnds
<1> HIDE DEF ends
<1>6. /\ ends[1] = at /\ ends[2] = e2 /\ ends[3] = e3 /\ ends[4] = e4
  BY <1>5
<1>7. TextSize(ends, 1) = u /\ TextSize(ends, 2) = n /\ TextSize(ends, 3) = s
  BY <1>2, <1>6 DEF TextSize
<1>8. /\ Text(data, ends, 1) = uri /\ Text(data, ends, 2) = name
      /\ Text(data, ends, 3) = symbol
  BY <1>3, <1>6, <1>7 DEF Text
<1>9. HasTexts(data, ends)
  <2>1. HasString(data, ends[1] + 4, TextSize(ends, 1))
    BY <1>3, <1>4, <1>6, <1>7 DEF HasString, Unknown
  <2>2. HasString(data, ends[2] + 4, TextSize(ends, 2))
    BY <1>3, <1>4, <1>6, <1>7 DEF HasString, Unknown
  <2>3. HasString(data, ends[3] + 4, TextSize(ends, 3))
    BY <1>3, <1>4, <1>6, <1>7 DEF HasString, Unknown
  <2> QED BY <2>1, <2>2, <2>3 DEF HasTexts
<1> QED BY <1>6, <1>8, <1>9 DEF ends, e4

\* What comes before the optional metadata.
FixedPart(m) ==
  Le(1, m.message_type) \o Le(8, m.token_id) \o BorshString(m.metadata_uri)
  \o BorshString(m.name) \o BorshString(m.symbol) \o Le(1, m.origin_chain_id)
  \o m.origin_address \o m.recipient_address \o Le(8, m.timestamp)
  \o m.message_id
Rest(m) == 21 + Size(m.metadata_uri) + Size(m.name) + Size(m.symbol)

\* Whatever follows the part before the optional metadata, each of its
\* fields is read as it was written.
LEMMA FixedPartReads ==
  ASSUME NEW m, NftOK(m), NEW more, IsBytes(more)
  PROVE  LET d == FixedPart(m) \o more
             ends == TextEnds("le", d, 9)
         IN  /\ Rest(m) \in Nat
             /\ IsBytes(FixedPart(m)) /\ Size(FixedPart(m)) = Rest(m) + 105
             /\ IsBytes(d) /\ Size(d) = Rest(m) + 105 + Size(more)
             /\ HasTexts(d, ends) /\ ends[4] = Rest(m)
             /\ Number("le", d, 0, 1) = m.message_type
             /\ Number("le", d, 1, 8) = m.token_id
             /\ Text(d, ends, 1) = m.metadata_uri
             /\ Text(d, ends, 2) = m.name
             /\ Text(d, ends, 3) = m.symbol
             /\ Number("le", d, Rest(m), 1) = m.origin_chain_id
             /\ Slice(d, Rest(m) + 1, 32) = m.origin_address
             /\ Slice(d, Rest(m) + 33, 32) = m.recipient_address
             /\ Number("le", d, Rest(m) + 65, 8) = m.timestamp
             /\ Slice(d, Rest(m) + 73, 32) = m.message_id
<1> DEFINE d == FixedPart(m) \o more
           u == Size(m.metadata_uri)
           n == Size(m.name)
           s == Size(m.symbol)
           e2 == 13 + u
           e3 == e2 + 4 + n
           rest == e3 + 4 + s
           p1 == Le(1, m.message_type)
           p2 == p1 \o Le(8, m.token_id)
           p3 == p2 \o Le(4, u)
           p4 == p3 \o m.metadata_uri
           p5 == p4 \o Le(4, n)
           p6 == p5 \o m.name
           p7 == p6 \o Le(4, s)
           p8 == p7 \o m.symbol
           p9 == p8 \o Le(1, m.origin_chain_id)
           p10 == p9 \o m.origin_address
           p11 == p10 \o m.recipient_address
           p12 == p11 \o Le(8, m.timestamp)
           p13 == p12 \o m.message_id
<1>1. NftOK(m) /\ u \in Nat /\ n \in Nat /\ s \in Nat /\ e2 \in Nat
      /\ e3 \in Nat /\ rest \in Nat
      /\ m.message_type \in Nat /\ m.token_id \in Nat
      /\ m.origin_chain_id \in Nat /\ m.timestamp \in Nat
      /\ IsBytes(m.metadata_uri) /\ IsText(m.metadata_uri)
      /\ IsBytes(m.name) /\ IsText(m.name)
      /\ IsBytes(m.symbol) /\ IsText(m.symbol)
      /\ IsBytes(m.origin_address) /\ Size(m.origin_address) = 32
      /\ IsBytes(m.recipient_address) /\ Size(m.recipient_address) = 32
      /\ IsBytes(m.message_id) /\ Size(m.message_id) = 32
  BY NftFacts
<1>2. IsBytes(p1) /\ Size(p1) = 1
  BY <1>1, LeIs
<1> HIDE DEF p1
<1>3. IsBytes(p2) /\ Size(p2) = 9
  BY <1>1, <1>2, LeIs, Built
<1> HIDE DEF p2
<1>4. IsBytes(p3) /\ Size(p3) = 13
  BY <1>1, <1>3, LeIs, Built
<1> HIDE DEF p3
<1>5. IsBytes(p4) /\ Size(p4) = e2
  BY <1>1, <1>4, Built
<1> HIDE DEF p4, e2
<1>6. IsBytes(p5) /\ Size(p5) = e2 + 4
  BY <1>1, <1>5, LeIs, Built
<1> HIDE DEF p5
<1>7. IsBytes(p6) /\ Size(p6) = e3
  BY <1>1, <1>6, Built
<1> HIDE DEF p6, e3
<1>8. IsBytes(p7) /\ Size(p7) = e3 + 4
  BY <1>1, <1>7, LeIs, Built
<1> HIDE DEF p7
<1>9. IsBytes(p8) /\ Size(p8) = rest
  BY <1>1, <1>8, Built
<1> HIDE DEF p8, rest
<1>10. IsBytes(p9) /\ Size(p9) = rest + 1
  BY <1>1, <1>9, LeIs, Built
<1> HIDE DEF p9
<1>11. IsBytes(p10) /\ Size(p10) = rest + 33
  BY <1>1, <1>10, Built
<1> HIDE DEF p10
<1>12. IsBytes(p11) /\ Size(p11) = rest + 65
  BY <1>1, <1>11, Built
<1> HIDE DEF p11
<1>13. IsBytes(p12) /\ Size(p12) = rest + 73
  BY <1>1, <1>12, LeIs, Built
<1> HIDE DEF p12
<1>14. IsBytes(p13) /\ Size(p13) = rest + 105
  BY <1>1, <1>13, Built
<1> HIDE DEF p13
<1>15. FixedPart(m) = p13
  <2>1. IsBytes(p2)
    BY <1>3
  <2>2. p2 \o BorshString(m.metadata_uri) = p4
    <3>1. (p2 \o Le(4, u)) \o m.metadata_uri = p4
      BY DEF p3, p4
    <3>2. p2 \o BorshString(m.metadata_uri) = (p2 \o Le(4, u)) \o m.metadata_uri
      BY <1>1, <2>1, BorshStringBehind, Zenon DEF u
    <3> QED BY <3>1, <3>2
  <2>3. p4 \o BorshString(m.name) = p6
    <3>1. (p4 \o Le(4, n)) \o m.name = p6
      BY DEF p5, p6
    <3>2. p4 \o BorshString(m.name) = (p4 \o Le(4, n)) \o m.name
      BY <1>1, <1>5, BorshStringBehind, Zenon DEF n
    <3> QED BY <3>1, <3>2
  <2>4. p6 \o BorshString(m.symbol) = p8
    <3>1. (p6 \o Le(4, s)) \o m.symbol = p8
      BY DEF p7, p8
    <3>2. p6 \o BorshString(m.symbol) = (p6 \o Le(4, s)) \o m.symbol
      BY <1>1, <1>7, BorshStringBehind, Zenon DEF s
    <3> QED BY <3>1, <3>2
  <2> QED BY <2>2, <2>3, <2>4 DEF FixedPart, p1, p2, p9, p10, p11, p12, p13
<1>16. /\ StartsWith(d, p13) /\ IsBytes(d)
      /\ Size(d) = rest + 105 + Size(more) /\ Size(more) \in Nat
  BY <1>15, <1>14, Built, EndsOf DEF StartsWith
<1> HIDE DEF d
<1>17. StartsWith(d, p12) /\ Slice(d, rest + 73, 32) = m.message_id
  BY <1>1, <1>13, <1>16, Field DEF p13
<1>18. StartsWith(d, p11) /\ Number("le", d, rest + 65, 8) = m.timestamp
  BY <1>1, <1>12, <1>17, NumberField DEF p12, Le
<1>19. StartsWith(d, p10) /\ Slice(d, rest + 33, 32) = m.recipient_address
  BY <1>1, <1>11, <1>18, Field DEF p11
<1>20. StartsWith(d, p9) /\ Slice(d, rest + 1, 32) = m.origin_address
  BY <1>1, <1>10, <1>19, Field DEF p10
<1>21. StartsWith(d, p8) /\ Number("le", d, rest, 1) = m.origin_chain_id
  BY <1>1, <1>9, <1>20, NumberField DEF p9, Le
<1>22. StartsWith(d, p7) /\ Slice(d, e3 + 4, s) = m.symbol
  BY <1>1, <1>8, <1>21, Field DEF p8
<1>23. StartsWith(d, p6) /\ Number("le", d, e3, 4) = s
  BY <1>1, <1>7, <1>22, NumberField DEF p7, Le
<1>24. StartsWith(d, p5) /\ Slice(d, e2 + 4, n) = m.name
  BY <1>1, <1>6, <1>23, Field DEF p6
<1>25. StartsWith(d, p4) /\ Number("le", d, e2, 4) = n
  BY <1>1, <1>5, <1>24, NumberField DEF p5, Le
<1>26. StartsWith(d, p3) /\ Slice(d, 13, u) = m.metadata_uri
  BY <1>1, <1>4, <1>25, Field DEF p4
<1>27. StartsWith(d, p2) /\ Number("le", d, 9, 4) = u
  BY <1>1, <1>3, <1>26, NumberField DEF p3, Le
<1>28. StartsWith(d, p1) /\ Number("le", d, 1, 8) = m.token_id
  BY <1>1, <1>2, <1>27, NumberField DEF p2, Le
<1>29. Number("le", d, 0, 1) = m.message_type
  BY <1>1, <1>28, FirstNumber DEF p1, Le
<1>30. Rest(m) = rest
  BY <1>1 DEF Rest, rest, e3, e2
<1>31. /\ e2 = 9 + 4 + u /\ e3 = 9 + 8 + u + n /\ rest = 9 + 12 + u + n + s
      /\ e2 + 4 = 9 + 8 + u /\ e3 + 4 = 9 + 12 + u + n
  BY <1>1 DEF rest, e3, e2
<1>32. /\ Number("le", d, 9, 4) = u
      /\ Number("le", d, 9 + 4 + u, 4) = n
      /\ Number("le", d, 9 + 8 + u + n, 4) = s
      /\ Slice(d, 9 + 4, u) = m.metadata_uri
      /\ Slice(d, 9 + 8 + u, n) = m.name
      /\ Slice(d, 9 + 12 + u + n, s) = m.symbol
  BY <1>27, <1>26, <1>25, <1>24, <1>23, <1>22, <1>31
<1>33. Size(d) \in Nat /\ 9 + 12 + u + n + s <= Size(d)
  BY <1>1, <1>16, <1>31
<1> HIDE DEF u, n, s
<1>34. /\ TextEnds("le", d, 9)[4] = 9 + 12 + u + n + s
      /\ HasTexts(d, TextEnds("le", d, 9))
      /\ Text(d, TextEnds("le", d, 9), 1) = m.metadata_uri
      /\ Text(d, TextEnds("le", d, 9), 2) = m.name
      /\ Text(d, TextEnds("le", d, 9), 3) = m.symbol
  BY <1>1, <1>32, <1>33, TextsRead
<1> QED BY <1>29, <1>28, <1>21, <1>20, <1>19, <1>18, <1>17,
           <1>1, <1>14, <1>15, <1>16, <1>30, <1>31, <1>34 DEF d

\* The size of an Option, by whether there is something in it.
LEMMA OptionIs ==
  ASSUME NEW bytes, IsBytes(bytes)
  PROVE  /\ IsBytes(BorshOption(bytes))
         /\ Size(BorshOption(bytes)) =
              IF bytes = NoMetadata THEN 1 ELSE 5 + Size(bytes)
<1>1. IsBytes(Le(1, 0)) /\ Size(Le(1, 0)) = 1
      /\ IsBytes(Le(1, 1)) /\ Size(Le(1, 1)) = 1
  BY LeIs
<1>2. IsBytes(Le(4, Size(bytes))) /\ Size(Le(4, Size(bytes))) = 4
  BY LeIs, EndsOf
<1>3. IsBytes(BorshString(bytes)) /\ Size(BorshString(bytes)) = 4 + Size(bytes)
  BY <1>2, Built DEF BorshString
<1>4. IsBytes(Le(1, 1) \o BorshString(bytes))
      /\ Size(Le(1, 1) \o BorshString(bytes)) = 1 + (4 + Size(bytes))
  BY <1>1, <1>3, Built
<1>5. 1 + (4 + Size(bytes)) = 5 + Size(bytes)
  BY EndsOf
<1> QED BY <1>1, <1>4, <1>5 DEF BorshOption

\* The size of what serialize writes.
LEMMA SizeOfSerialize ==
  ASSUME NEW m, NftOK(m)
  PROVE  /\ Rest(m) \in Nat /\ Size(m.additional_metadata) \in Nat
         /\ IsBytes(Serialize(m))
         /\ Size(Serialize(m)) =
              Rest(m) + (IF m.additional_metadata = NoMetadata THEN 106
                         ELSE 110 + Size(m.additional_metadata))
<1> DEFINE more == BorshOption(m.additional_metadata)
<1>1. IsBytes(m.additional_metadata) /\ Size(m.additional_metadata) \in Nat
  BY NftFacts
<1>2. /\ IsBytes(more)
      /\ Size(more) = IF m.additional_metadata = NoMetadata THEN 1
                      ELSE 5 + Size(m.additional_metadata)
  BY <1>1, OptionIs
<1>3. Serialize(m) = FixedPart(m) \o more
  BY DEF Serialize, FixedPart
<1> HIDE DEF more
<1>4. /\ Rest(m) \in Nat /\ IsBytes(FixedPart(m) \o more)
      /\ Size(FixedPart(m) \o more) = Rest(m) + 105 + Size(more)
  BY <1>2, FixedPartReads
<1> DEFINE z == Size(more)
           a == Size(m.additional_metadata)
           r == Rest(m)
           none == m.additional_metadata = NoMetadata
<1>5. /\ r \in Nat /\ a \in Nat /\ Size(Serialize(m)) = r + 105 + z
      /\ z = IF none THEN 1 ELSE 5 + a
  BY <1>1, <1>2, <1>3, <1>4
<1>6. IsBytes(Serialize(m))
  BY <1>3, <1>4
<1> HIDE DEF z, r, a, none
<1>7. Size(Serialize(m)) = r + (IF none THEN 106 ELSE 110 + a)
  <2>1. CASE none
    BY <1>5, <2>1
  <2>2. CASE ~none
    BY <1>5, <2>2
  <2> QED BY <2>1, <2>2
<1> QED BY <1>5, <1>6, <1>7 DEF r, a, none

\* What the program serializes it reads back, unless it is too large.
THEOREM DeserializeSerialize ==
  ASSUME NEW m, NftOK(m),
         Size(Serialize(m)) <= CROSS_CHAIN_MAX_MESSAGE_SIZE
  PROVE  Deserialize(Serialize(m)) = {m}
<1> DEFINE d == Serialize(m)
           ends == TextEnds("le", d, 9)
           more == BorshOption(m.additional_metadata)
           a == m.additional_metadata
           rest == Rest(m)
           some == Number("le", d, rest + 105, 1)
           size == IF some = 1 THEN Number("le", d, rest + 106, 4) ELSE -4
<1>1. IsBytes(a) /\ Size(a) \in Nat /\ IsBytes(more)
  BY NftFacts, OptionIs
<1>2. d = FixedPart(m) \o more
  BY DEF Serialize, FixedPart
<1> HIDE DEF more
<1>3. /\ HasTexts(d, ends) /\ ends[4] = rest
      /\ Number("le", d, 0, 1) = m.message_type
      /\ Number("le", d, 1, 8) = m.token_id
      /\ Text(d, ends, 1) = m.metadata_uri
      /\ Text(d, ends, 2) = m.name
      /\ Text(d, ends, 3) = m.symbol
      /\ Number("le", d, rest, 1) = m.origin_chain_id
      /\ Slice(d, rest + 1, 32) = m.origin_address
      /\ Slice(d, rest + 33, 32) = m.recipient_address
      /\ Number("le", d, rest + 65, 8) = m.timestamp
      /\ Slice(d, rest + 73, 32) = m.message_id
  BY <1>1, <1>2, FixedPartReads
<1>4. /\ IsBytes(FixedPart(m)) /\ Size(FixedPart(m)) = rest + 105
      /\ IsBytes(d) /\ rest \in Nat
  BY <1>1, <1>2, FixedPartReads
<1>5. Size(d) = rest + (IF a = NoMetadata THEN 106 ELSE 110 + Size(a))
  BY SizeOfSerialize
<1> HIDE DEF d, ends, rest
<1>6. /\ Size(d) = rest + 110 + size
      /\ a = IF some = 1 THEN Slice(d, rest + 110, size) ELSE NoMetadata
  <2>1. CASE a = NoMetadata
    <3>1. more = Le(1, 0)
      BY <2>1 DEF more, BorshOption
    <3>2. StartsWith(d, FixedPart(m) \o Le(1, 0))
      <4>1. IsBytes(FixedPart(m) \o Le(1, 0))
        BY <1>1, <1>4, <3>1, Built
      <4> QED BY <1>2, <3>1, <4>1, StartsWithSelf
    <3>3. some = 0
      BY <1>4, <3>2, NumberField DEF Le
    <3> HIDE DEF some
    <3> QED BY <1>4, <1>5, <2>1, <3>3
  <2>2. CASE a # NoMetadata
    <3> DEFINE p1 == FixedPart(m) \o Le(1, 1)
               p2 == p1 \o Le(4, Size(a))
               p3 == p2 \o a
    <3>1. IsBytes(p1) /\ Size(p1) = rest + 106
      BY <1>4, LeIs, Built
    <3>2. IsBytes(Le(1, 1)) /\ IsBytes(Le(4, Size(a))) /\ IsBytes(BorshString(a))
      BY <1>1, LeIs, Built DEF BorshString
    <3>3. more = Le(1, 1) \o BorshString(a)
      BY <2>2 DEF more, BorshOption
    <3>4. d = p1 \o BorshString(a)
      <4> DEFINE f == FixedPart(m)
                 one == Le(1, 1)
                 string == BorshString(a)
      <4>1. IsBytes(f) /\ IsBytes(one) /\ IsBytes(string)
        BY <1>4, <3>2
      <4>2. d = f \o (one \o string) /\ p1 = f \o one
        BY <1>2, <3>3
      <4> HIDE DEF f, one, string, p1
      <4>3. (f \o one) \o string = f \o (one \o string)
        BY <4>1, ConcatAssoc
      <4> QED BY <4>2, <4>3 DEF string
    <3> HIDE DEF p1
    <3>5. p1 \o BorshString(a) = p3
      <4>1. p1 \o BorshString(a) = (p1 \o Le(4, Size(a))) \o a
        BY <1>1, <3>1, BorshStringBehind
      <4> QED BY <4>1
    <3>6. IsBytes(p2) /\ Size(p2) = rest + 110
      BY <1>4, <1>1, <3>1, LeIs, Built
    <3> HIDE DEF p2
    <3>7. IsBytes(p3)
      BY <1>1, <3>6, Built
    <3>8. StartsWith(d, p3)
      BY <3>4, <3>5, <3>7, StartsWithSelf
    <3>9. StartsWith(d, p2) /\ Slice(d, rest + 110, Size(a)) = a
      BY <1>1, <3>6, <3>8, Field
    <3>10. StartsWith(d, p1) /\ Number("le", d, rest + 106, 4) = Size(a)
      BY <1>1, <3>1, <3>9, NumberField DEF p2, Le
    <3>11. some = 1
      BY <1>4, <3>10, NumberField DEF p1, Le
    <3>12. size = Size(a)
      BY <3>10, <3>11
    <3> HIDE DEF some, size
    <3> QED BY <1>1, <1>4, <1>5, <2>2, <3>9, <3>11, <3>12
  <2> QED BY <2>1, <2>2
<1>7. Size(d) \in 1..CROSS_CHAIN_MAX_MESSAGE_SIZE
  <2>1. Size(d) \in Nat /\ Size(d) >= 1
    BY <1>1, <1>4, <1>5
  <2> QED BY <2>1 DEF d, CROSS_CHAIN_MAX_MESSAGE_SIZE
<1>8. Deserialize(d) =
        {[message_type |-> m.message_type, token_id |-> m.token_id,
          metadata_uri |-> m.metadata_uri, name |-> m.name,
          symbol |-> m.symbol, origin_chain_id |-> m.origin_chain_id,
          origin_address |-> m.origin_address,
          recipient_address |-> m.recipient_address,
          timestamp |-> m.timestamp, message_id |-> m.message_id,
          additional_metadata |-> m.additional_metadata]}
  BY <1>3, <1>6, <1>7 DEF Deserialize, ends
<1> QED BY <1>8 DEF NftOK, d

-----------------------------------------------------------------------------
\* The size of a string behind its length.
LEMMA BeStringIs ==
  ASSUME NEW text, IsBytes(text)
  PROVE  /\ IsBytes(BeString(text)) /\ Size(text) \in Nat
         /\ Size(BeString(text)) = 4 + Size(text)
<1>1. Size(text) \in Nat
  BY EndsOf
<1>2. IsBytes(Be(4, Size(text))) /\ Size(Be(4, Size(text))) = 4
  BY <1>1, BeIs
<1> QED BY <1>1, <1>2, Built DEF BeString

\* The size of what encode_for_evm writes.
LEMMA SizeOfEncodeForEvm ==
  ASSUME NEW m, NftOK(m)
  PROVE  /\ IsBytes(EncodeForEvm(m))
         /\ Size(EncodeForEvm(m)) = 129 + Size(m.metadata_uri) + Size(m.name)
                                    + Size(m.symbol)
<1> DEFINE u == Size(m.metadata_uri)
           n == Size(m.name)
           s == Size(m.symbol)
           p1 == EVM_FUNCTION_SELECTORS
           p2 == p1 \o Be(8, m.token_id)
           p3 == p2 \o BeString(m.metadata_uri)
           p4 == p3 \o BeString(m.name)
           p5 == p4 \o BeString(m.symbol)
           p6 == p5 \o Be(1, m.origin_chain_id)
           p7 == p6 \o m.origin_address
           p8 == p7 \o m.recipient_address
           p9 == p8 \o Be(8, m.timestamp)
           p10 == p9 \o m.message_id
<1>1. /\ u \in Nat /\ n \in Nat /\ s \in Nat
      /\ m.token_id \in Nat /\ m.origin_chain_id \in Nat /\ m.timestamp \in Nat
      /\ IsBytes(m.metadata_uri) /\ IsBytes(m.name) /\ IsBytes(m.symbol)
      /\ IsBytes(m.origin_address) /\ Size(m.origin_address) = 32
      /\ IsBytes(m.recipient_address) /\ Size(m.recipient_address) = 32
      /\ IsBytes(m.message_id) /\ Size(m.message_id) = 32
  BY NftFacts
<1>2. EncodeForEvm(m) = p10
  BY DEF EncodeForEvm
<1>3. IsBytes(p1) /\ Size(p1) = 4
  BY RunIs DEF EVM_FUNCTION_SELECTORS
<1> HIDE DEF p1
<1>4. IsBytes(p2) /\ Size(p2) = 12
  BY <1>1, <1>3, BeIs, Built
<1> HIDE DEF p2
<1>5. IsBytes(p3) /\ Size(p3) = 16 + u
  BY <1>1, <1>4, BeStringIs, Built
<1> HIDE DEF p3
<1>6. IsBytes(p4) /\ Size(p4) = 20 + u + n
  BY <1>1, <1>5, BeStringIs, Built
<1> HIDE DEF p4
<1>7. IsBytes(p5) /\ Size(p5) = 24 + u + n + s
  BY <1>1, <1>6, BeStringIs, Built
<1> HIDE DEF p5
<1>8. IsBytes(p6) /\ Size(p6) = 25 + u + n + s
  BY <1>1, <1>7, BeIs, Built
<1> HIDE DEF p6
<1>9. IsBytes(p7) /\ Size(p7) = 57 + u + n + s
  BY <1>1, <1>8, Built
<1> HIDE DEF p7
<1>10. IsBytes(p8) /\ Size(p8) = 89 + u + n + s
  BY <1>1, <1>9, Built
<1> HIDE DEF p8
<1>11. IsBytes(p9) /\ Size(p9) = 97 + u + n + s
  BY <1>1, <1>10, BeIs, Built
<1> HIDE DEF p9
<1>12. IsBytes(p10) /\ Size(p10) = 129 + u + n + s
  BY <1>1, <1>11, Built
<1> HIDE DEF p10
<1> QED BY <1>2, <1>12

\* A text that is read is as long as its length field says.
LEMMA TextReadIs ==
  ASSUME NEW d, IsBytes(d), NEW at \in Nat, NEW n \in Nat, HasString(d, at, n)
  PROVE  Size(Slice(d, at, n)) = n
BY SliceIs DEF HasString

\* What the program encodes for the EVM it never reads back: the reader
\* skips more bytes than the encoder writes.
THEOREM EvmNeverReadBack ==
  ASSUME NEW m, NftOK(m)
  PROVE  m \notin DecodeFromEvm(EncodeForEvm(m))
<1> DEFINE d == EncodeForEvm(m)
           ends == TextEnds("be", d, 36)
           u == Number("be", d, 36, 4)
           e2 == 36 + 4 + u
           n == Number("be", d, e2, 4)
           e3 == e2 + 4 + n
           s == Number("be", d, e3, 4)
           e4 == e3 + 4 + s
           U == Size(m.metadata_uri)
           N == Size(m.name)
           S == Size(m.symbol)
<1> SUFFICES ASSUME m \in DecodeFromEvm(d) PROVE FALSE
  OBVIOUS
<1>1. /\ U \in Nat /\ N \in Nat /\ S \in Nat /\ IsBytes(d)
      /\ Size(d) = 129 + U + N + S
  BY NftFacts, SizeOfEncodeForEvm
<1>2. /\ HasTexts(d, ends) /\ Size(d) >= ends[4] + 129
      /\ m.metadata_uri = Text(d, ends, 1) /\ m.name = Text(d, ends, 2)
      /\ m.symbol = Text(d, ends, 3)
  BY DEF DecodeFromEvm, NoMessage
<1>3. ends = <<36, e2, e3, e4>>
  BY DEF TextEnds
<1> HIDE DEF d, ends
<1>4. ends[1] = 36 /\ ends[2] = e2 /\ ends[3] = e3 /\ ends[4] = e4
  BY <1>3
<1>5. u \in Nat \cup {Unknown}
  BY <1>1, NumberIs
<1>6. u \in Nat /\ U = u
  <2>1. /\ HasString(d, 36 + 4, e2 - 36 - 4)
        /\ m.metadata_uri = Slice(d, 36 + 4, e2 - 36 - 4)
    BY <1>2, <1>4 DEF HasTexts, Text, TextSize
  <2>2. e2 - 36 - 4 = u
    BY <1>5 DEF Unknown
  <2>3. u # Unknown
    BY <2>1, <2>2 DEF HasString
  <2>4. HasString(d, 40, u) /\ m.metadata_uri = Slice(d, 40, u)
    BY <2>1, <2>2
  <2> QED BY <1>1, <1>5, <2>3, <2>4, TextReadIs
<1>7. e2 \in Nat /\ e2 = 40 + U
  BY <1>6
<1> HIDE DEF e2
<1>8. n \in Nat \cup {Unknown}
  BY <1>1, <1>7, NumberIs
<1>9. n \in Nat /\ N = n
  <2>1. /\ HasString(d, e2 + 4, e3 - e2 - 4)
        /\ m.name = Slice(d, e2 + 4, e3 - e2 - 4)
    BY <1>2, <1>4 DEF HasTexts, Text, TextSize
  <2>2. e3 - e2 - 4 = n /\ e2 + 4 \in Nat
    BY <1>7, <1>8 DEF Unknown
  <2>3. n # Unknown
    BY <2>1, <2>2 DEF HasString
  <2>4. HasString(d, e2 + 4, n) /\ m.name = Slice(d, e2 + 4, n)
    BY <2>1, <2>2
  <2> QED BY <1>1, <1>8, <2>2, <2>3, <2>4, TextReadIs
<1>10. e3 \in Nat /\ e3 = 44 + U + N
  BY <1>1, <1>7, <1>9
<1> HIDE DEF e3
<1>11. s \in Nat \cup {Unknown}
  BY <1>1, <1>10, NumberIs
<1>12. s \in Nat /\ S = s
  <2>1. /\ HasString(d, e3 + 4, e4 - e3 - 4)
        /\ m.symbol = Slice(d, e3 + 4, e4 - e3 - 4)
    BY <1>2, <1>4 DEF HasTexts, Text, TextSize
  <2>2. e4 - e3 - 4 = s /\ e3 + 4 \in Nat
    BY <1>10, <1>11 DEF Unknown
  <2>3. s # Unknown
    BY <2>1, <2>2 DEF HasString
  <2>4. HasString(d, e3 + 4, s) /\ m.symbol = Slice(d, e3 + 4, s)
    BY <2>1, <2>2
  <2> QED BY <1>1, <1>11, <2>2, <2>3, <2>4, TextReadIs
<1>13. e4 = 48 + U + N + S
  BY <1>1, <1>10, <1>12
<1> HIDE DEF e4, U, N, S
<1> QED BY <1>1, <1>2, <1>4, <1>13

\* A chain id of one byte does not fit where two are copied to.
LEMMA NeverOptimized ==
  ASSUME NEW m, NEW destination, NEW time
  PROVE  ConstructChainOptimizedMessage(m, destination, time) = NoMessage
<1>1. "origin_chain" \in DOMAIN ChainSpecificIdParts
      /\ ChainSpecificIdParts["origin_chain"] = <<2, 1>>
  BY DEF ChainSpecificIdParts
<1>2. ~CanGenerateChainSpecificMessageId
  BY <1>1 DEF CanGenerateChainSpecificMessageId
<1> QED BY <1>2 DEF ConstructChainOptimizedMessage

-----------------------------------------------------------------------------
\* What on_call's payload is built from.
PayloadOK(p) ==
  /\ p = [token_id |-> p.token_id, origin_chain_id |-> p.origin_chain_id,
          gateway_message_id |-> p.gateway_message_id,
          metadata_uri |-> p.metadata_uri, name |-> p.name,
          symbol |-> p.symbol, recipient_address |-> p.recipient_address]
  /\ p.token_id \in Nat
  /\ IsId(p.origin_chain_id) /\ IsId(p.gateway_message_id)
  /\ IsString(p.metadata_uri) /\ IsString(p.name) /\ IsString(p.symbol)
  /\ Is32(p.recipient_address)

FrontOf(p) == Le(8, p.token_id) \o p.origin_chain_id \o p.gateway_message_id

\* The three fixed fields of a payload are read from every payload that
\* starts with them.
LEMMA FrontIs ==
  ASSUME NEW p, PayloadOK(p)
  PROVE  /\ IsBytes(FrontOf(p)) /\ Size(FrontOf(p)) = 72 /\ Len(FrontOf(p)) = 3
         /\ \A d : StartsWith(d, FrontOf(p)) =>
              /\ Number("le", d, 0, 8) = p.token_id
              /\ Slice(d, 8, 32) = p.origin_chain_id
              /\ Slice(d, 40, 32) = p.gateway_message_id
<1> DEFINE p1 == Le(8, p.token_id)
           p2 == p1 \o p.origin_chain_id
           p3 == p2 \o p.gateway_message_id
<1>1. /\ p.token_id \in Nat
      /\ IsBytes(p.origin_chain_id) /\ Size(p.origin_chain_id) = 32
      /\ Len(p.origin_chain_id) = 1
      /\ IsBytes(p.gateway_message_id) /\ Size(p.gateway_message_id) = 32
      /\ Len(p.gateway_message_id) = 1
  BY DEF PayloadOK, IsId, Is32
<1>2. FrontOf(p) = p3
  BY DEF FrontOf
<1>3. IsBytes(p1) /\ Size(p1) = 8 /\ Len(p1) = 1
  BY <1>1, RunIs DEF Le
<1> HIDE DEF p1
<1>4. IsBytes(p2) /\ Size(p2) = 40 /\ Len(p2) = 2
  <2>1. IsBytes(p2) /\ Size(p2) = 40
    BY <1>1, <1>3, Built
  <2>2. Len(p2) = 2
    <3>1. Len(p1 \o p.origin_chain_id) = Len(p1) + Len(p.origin_chain_id)
      <4>1. IsBytes(p1) /\ IsBytes(p.origin_chain_id)
        BY <1>1, <1>3
      <4> HIDE <1>1, <1>3
      <4> QED BY <4>1, ConcatShape
    <3> QED BY <1>1, <1>3, <3>1
  <2> QED BY <2>1, <2>2
<1> HIDE DEF p2
<1>5. IsBytes(p3) /\ Size(p3) = 72 /\ Len(p3) = 3
  <2>1. IsBytes(p3) /\ Size(p3) = 72
    BY <1>1, <1>4, Built
  <2>2. Len(p3) = 3
    <3>1. Len(p2 \o p.gateway_message_id) = Len(p2) + Len(p.gateway_message_id)
      <4>1. IsBytes(p2) /\ IsBytes(p.gateway_message_id)
        BY <1>1, <1>4
      <4> QED BY <4>1, ConcatShape
    <3> QED BY <1>1, <1>4, <3>1
  <2> QED BY <2>1, <2>2
<1> HIDE DEF p3
<1>6. ASSUME NEW d, StartsWith(d, p3)
      PROVE  /\ Number("le", d, 0, 8) = p.token_id
             /\ Slice(d, 8, 32) = p.origin_chain_id
             /\ Slice(d, 40, 32) = p.gateway_message_id
  <2>1. StartsWith(d, p2) /\ Slice(d, 40, 32) = p.gateway_message_id
    BY <1>1, <1>4, <1>6, Field DEF p3
  <2>2. StartsWith(d, p1) /\ Slice(d, 8, 32) = p.origin_chain_id
    BY <1>1, <1>3, <2>1, Field DEF p2
  <2>3. Number("le", d, 0, 8) = p.token_id
    BY <1>1, <2>2, FirstNumber DEF p1, Le
  <2> QED BY <2>1, <2>2, <2>3
<1> QED BY <1>2, <1>5, <1>6

\* The layout up to the end of each text.
AfterUri(p) == FrontOf(p) \o p.metadata_uri \o Nul
AfterName(p) == AfterUri(p) \o p.name \o Nul
AfterSymbol(p) == AfterName(p) \o p.symbol \o Nul

\* The byte that closes a text, which no text has in it.
LEMMA NulIs ==
  /\ IsBytes(Nul) /\ Size(Nul) = 1 /\ Len(Nul) = 1
  /\ Kind(Nul[1]) = "zeros"
BY RunIs DEF Nul, Zeros

\* The size of a payload, and what it starts with.
LEMMA PayloadIs ==
  ASSUME NEW p, PayloadOK(p), NEW more, IsBytes(more)
  PROVE  LET d == BuildPayload(p, more)
             texts == Size(p.metadata_uri) + Size(p.name) + Size(p.symbol)
         IN  /\ IsBytes(d) /\ texts \in Nat /\ Size(more) \in Nat
             /\ Size(d) = 107 + texts + Size(more)
             /\ d = AfterSymbol(p) \o p.recipient_address \o more
             /\ IsBytes(AfterUri(p)) /\ StartsWith(d, AfterUri(p))
             /\ IsBytes(AfterName(p)) /\ StartsWith(d, AfterName(p))
             /\ IsBytes(AfterSymbol(p)) /\ StartsWith(d, AfterSymbol(p))
             /\ Size(AfterSymbol(p)) = 75 + texts
             /\ StartsWith(d, FrontOf(p))
             /\ Slice(d, 75 + texts, 32) = p.recipient_address
<1> DEFINE d == BuildPayload(p, more)
           u == Size(p.metadata_uri)
           n == Size(p.name)
           s == Size(p.symbol)
           a == Size(more)
           p0 == FrontOf(p)
           p1 == p0 \o p.metadata_uri
           p2 == p1 \o Nul
           p3 == p2 \o p.name
           p4 == p3 \o Nul
           p5 == p4 \o p.symbol
           p6 == p5 \o Nul
           p7 == p6 \o p.recipient_address
           p8 == p7 \o more
<1>1. /\ u \in Nat /\ n \in Nat /\ s \in Nat /\ a \in Nat
      /\ IsBytes(p.metadata_uri) /\ IsBytes(p.name) /\ IsBytes(p.symbol)
      /\ IsBytes(p.recipient_address) /\ Size(p.recipient_address) = 32
      /\ IsBytes(Nul) /\ Size(Nul) = 1
  BY EndsOf, NulIs DEF PayloadOK, IsString, Is32
<1>2. d = p8
  BY DEF BuildPayload, FrontOf
<1>3. AfterUri(p) = p2 /\ AfterName(p) = p4 /\ AfterSymbol(p) = p6
  BY DEF AfterUri, AfterName, AfterSymbol
<1>4. IsBytes(p0) /\ Size(p0) = 72
  BY FrontIs
<1> HIDE DEF p0, d
<1>5. IsBytes(p1) /\ Size(p1) = 72 + u
  BY <1>1, <1>4, Built
<1> HIDE DEF p1
<1>6. IsBytes(p2) /\ Size(p2) = 73 + u
  BY <1>1, <1>5, Built
<1> HIDE DEF p2
<1>7. IsBytes(p3) /\ Size(p3) = 73 + u + n
  BY <1>1, <1>6, Built
<1> HIDE DEF p3
<1>8. IsBytes(p4) /\ Size(p4) = 74 + u + n
  BY <1>1, <1>7, Built
<1> HIDE DEF p4
<1>9. IsBytes(p5) /\ Size(p5) = 74 + u + n + s
  BY <1>1, <1>8, Built
<1> HIDE DEF p5
<1>10. IsBytes(p6) /\ Size(p6) = 75 + u + n + s
  BY <1>1, <1>9, Built
<1> HIDE DEF p6
<1>11. IsBytes(p7) /\ Size(p7) = 107 + u + n + s
  BY <1>1, <1>10, Built
<1>12. IsBytes(p8) /\ Size(p8) = 107 + u + n + s + a
  BY <1>1, <1>11, Built
<1>13. StartsWith(d, p8)
  BY <1>2, <1>12, StartsWithSelf
<1>14. StartsWith(d, p7)
  BY <1>11, <1>13, Field
<1>15. StartsWith(d, p6) /\ Slice(d, 75 + u + n + s, 32) = p.recipient_address
  BY <1>1, <1>10, <1>14, Field
<1> HIDE DEF p7, p8
<1>16. StartsWith(d, p5)
  BY <1>1, <1>9, <1>15, Field DEF p6
<1>17. StartsWith(d, p4)
  BY <1>1, <1>8, <1>16, Field DEF p5
<1>18. StartsWith(d, p3)
  BY <1>1, <1>7, <1>17, Field DEF p4
<1>19. StartsWith(d, p2)
  BY <1>1, <1>6, <1>18, Field DEF p3
<1>20. StartsWith(d, p1)
  BY <1>1, <1>5, <1>19, Field DEF p2
<1>21. StartsWith(d, p0)
  BY <1>1, <1>4, <1>20, Field DEF p1
<1>22. d = AfterSymbol(p) \o p.recipient_address \o more
  BY <1>2, <1>3 DEF p7, p8
<1> HIDE DEF u, n, s, a
<1>23. /\ u + n + s \in Nat /\ 107 + u + n + s + a = 107 + (u + n + s) + a
       /\ 75 + u + n + s = 75 + (u + n + s)
  BY <1>1
<1> QED BY <1>1, <1>2, <1>3, <1>6, <1>8, <1>10, <1>12, <1>15, <1>17, <1>19, <1>21,
           <1>22, <1>23
        DEF u, n, s, a, p0, d

\* Where a front part of a byte string ends.
LEMMA EndOfFront ==
  ASSUME NEW d, NEW front, IsBytes(front), StartsWith(d, front)
  PROVE  /\ Ends(d)[Len(front)] = Size(front) /\ Len(front) <= Len(d)
         /\ Len(front) \in Nat /\ Len(d) \in Nat
         /\ \A i \in 1..Len(front) : d[i] = front[i]
<1>1. PICK rest : IsBytes(rest) /\ d = front \o rest
  BY DEF StartsWith
<1>2. Len(front) \in Nat /\ Len(rest) \in Nat /\ Len(d) = Len(front) + Len(rest)
  BY <1>1, BytesShape, ConcatShape
<1>3. \A i \in 0..Len(front) : Ends(d)[i] = Ends(front)[i]
  BY <1>1, ConcatEnds
<1>4. \A i \in 1..Len(front) : d[i] = front[i]
  BY <1>1, ConcatShape
<1> QED BY <1>2, <1>3, <1>4 DEF Size

-----------------------------------------------------------------------------
\* The legacy decoder: a text ends where its NUL is.

NulsFrom(d, k) == {i \in k..Len(d) : d[i] = Nul[1]}

\* Behind a front part, the first NUL is that which closes the text there.
LEMMA NulAfterText ==
  ASSUME NEW d, NEW x, IsBytes(x), NEW t, IsString(t),
         StartsWith(d, (x \o t) \o Nul)
  PROVE  LET k == Len(x) + 1
             m == Len((x \o t) \o Nul)
             nuls == NulsFrom(d, k)
         IN  /\ Min(nuls) = m /\ SubSeq(d, k, m - 1) = t
             /\ AfterFirst(nuls) = NulsFrom(d, m + 1)
<1> DEFINE f == (x \o t) \o Nul
           l == Len(x)
           j == Len(t)
           k == l + 1
           m == Len(f)
           nuls == NulsFrom(d, k)
<1>1. IsBytes(t) /\ IsBytes(x \o t) /\ IsBytes(f)
  BY NulIs, Built DEF IsString
<1>2. l \in Nat /\ j \in Nat /\ Len(x \o t) = l + j /\ m = l + j + 1
  <2>1. l \in Nat /\ j \in Nat
    BY <1>1, BytesShape
  <2>2. Len(x \o t) = l + j
    BY <1>1, ConcatShape
  <2>3. m = Len(x \o t) + 1
    <3>1. Len((x \o t) \o Nul) = Len(x \o t) + Len(Nul)
      BY <1>1, NulIs, ConcatShape, Zenon
    <3> QED BY <3>1, NulIs
  <2> HIDE DEF l, j, m
  <2> QED BY <2>1, <2>2, <2>3
<1>3. /\ Len(d) \in Nat /\ m <= Len(d)
      /\ \A i \in 1..m : d[i] = f[i]
  BY <1>1, EndOfFront
<1>4. \A i \in 1..j : d[l + i] = t[i]
  <2>1. \A i \in 1..l + j : f[i] = (x \o t)[i]
    BY <1>1, <1>2, NulIs, ConcatShape
  <2>2. \A i \in 1..j : (x \o t)[l + i] = t[i]
    BY <1>1, ConcatShape
  <2> HIDE DEF f, l, j, m
  <2>3. \A i \in 1..j : l + i \in 1..l + j /\ l + i \in 1..m
    BY <1>2
  <2> QED BY <1>3, <2>1, <2>2, <2>3
<1>5. d[m] = Nul[1]
  <2>1. f[l + j + 1] = Nul[1]
    BY <1>1, <1>2, NulIs, ConcatShape
  <2> HIDE DEF f, l, j
  <2> QED BY <1>2, <1>3, <2>1
<1>6. \A i \in 1..j : t[i] # Nul[1]
  <2>1. DOMAIN t = 1..j
    BY <1>1, BytesShape
  <2> QED BY <2>1, NulIs DEF IsString, IsText, IsAscii, AsciiKinds
<1> HIDE DEF f, l, j, m
<1>7. m \in nuls /\ \A i \in nuls : m <= i
  <2>1. m \in nuls
    BY <1>2, <1>3, <1>5 DEF NulsFrom
  <2>2. ASSUME NEW i \in nuls, i < m PROVE FALSE
    <3>1. i - l \in 1..j /\ l + (i - l) = i /\ d[i] = Nul[1]
      BY <1>2, <1>3, <2>2 DEF NulsFrom
    <3> QED BY <1>4, <1>6, <3>1
  <2>3. nuls \subseteq Int
    BY <1>2, <1>3 DEF NulsFrom
  <2> HIDE DEF nuls
  <2> QED BY <1>2, <2>1, <2>2, <2>3
<1>8. Min(nuls) = m
  <2> nuls \subseteq Int
    BY <1>2, <1>3 DEF NulsFrom
  <2> HIDE DEF nuls
  <2> QED BY <1>7, MinIs
<1>9. AfterFirst(nuls) = NulsFrom(d, m + 1)
  <2>1. ASSUME NEW i \in AfterFirst(nuls) PROVE i \in NulsFrom(d, m + 1)
    <3>1. i \in nuls /\ \E h \in nuls : h < i
      BY DEF AfterFirst
    <3>2. m < i
      <4> nuls \subseteq Int
        BY <1>2, <1>3 DEF NulsFrom
      <4> HIDE DEF nuls
      <4> QED BY <1>2, <1>7, <3>1
    <3> QED BY <1>2, <1>3, <3>1, <3>2 DEF NulsFrom
  <2>2. ASSUME NEW i \in NulsFrom(d, m + 1) PROVE i \in AfterFirst(nuls)
    <3>1. i \in nuls /\ m < i
      BY <1>2, <1>3 DEF NulsFrom
    <3> HIDE DEF nuls
    <3> QED BY <1>7, <3>1 DEF AfterFirst
  <2> QED BY <2>1, <2>2
<1>10. SubSeq(d, k, m - 1) = t
  <2> DEFINE r == SubSeq(d, k, m - 1)
  <2>1. t \in Seq(ToSet(t)) /\ DOMAIN t = 1..j /\ Len(t) = j
    BY <1>1, BytesShape DEF IsBytes, j
  <2>2. \A i \in k..(m - 1) : d[i] \in ToSet(t)
    <3> TAKE i \in k..(m - 1)
    <3>1. i - l \in 1..j /\ l + (i - l) = i
      BY <1>2
    <3> QED BY <1>4, <2>1, <3>1 DEF ToSet
  <2>3. k \in Int /\ m - 1 \in Int /\ k + j = m /\ k = l + 1
    BY <1>2
  <2> HIDE DEF k
  <2>4. /\ r \in Seq(ToSet(t))
        /\ Len(r) = IF k <= m - 1 THEN (m - 1) - k + 1 ELSE 0
        /\ \A i \in 1..((m - 1) - k + 1) : r[i] = d[k + i - 1]
    BY <2>2, <2>3, SubSeqProperties
  <2> HIDE DEF r
  <2>5. Len(r) = j
    BY <1>2, <2>3, <2>4
  <2>6. \A i \in 1..j : r[i] = t[i]
    <3> TAKE i \in 1..j
    <3>1. i \in 1..((m - 1) - k + 1) /\ k + i - 1 = l + i
      BY <1>2, <2>3
    <3>2. r[i] = d[k + i - 1]
      BY <2>4, <3>1
    <3> QED BY <1>4, <3>1, <3>2
  <2> QED BY <2>1, <2>4, <2>5, <2>6, SeqEqual DEF r, k
<1> QED BY <1>8, <1>9, <1>10 DEF f, l, m, k

\* The legacy decoder reads what was sent, or nothing.
THEOREM LegacyDecoderReads ==
  ASSUME NEW p, PayloadOK(p), NEW more, IsBytes(more)
  PROVE  DecodeLegacyMintPayload(BuildPayload(p, more)) \subseteq {p}
<1> DEFINE d == BuildPayload(p, more)
           nuls == {i \in 4..Len(d) : d[i] = Nul[1]}
           f0 == FrontOf(p)
           f2 == (f0 \o p.metadata_uri) \o Nul
           f4 == (f2 \o p.name) \o Nul
           f6 == (f4 \o p.symbol) \o Nul
           texts == Size(p.metadata_uri) + Size(p.name) + Size(p.symbol)
<1>1. AfterUri(p) = f2 /\ AfterName(p) = f4 /\ AfterSymbol(p) = f6
  BY DEF AfterUri, AfterName, AfterSymbol
<1>2. /\ IsBytes(f0) /\ Len(f0) = 3 /\ StartsWith(d, f0)
      /\ IsBytes(f2) /\ StartsWith(d, f2)
      /\ IsBytes(f4) /\ StartsWith(d, f4)
      /\ IsBytes(f6) /\ StartsWith(d, f6) /\ Size(f6) = 75 + texts
      /\ Slice(d, 75 + texts, 32) = p.recipient_address
  BY <1>1, FrontIs, PayloadIs
<1>3. /\ Number("le", d, 0, 8) = p.token_id
      /\ Slice(d, 8, 32) = p.origin_chain_id
      /\ Slice(d, 40, 32) = p.gateway_message_id
  BY <1>2, FrontIs
<1>4. IsString(p.metadata_uri) /\ IsString(p.name) /\ IsString(p.symbol)
  BY DEF PayloadOK
<1> HIDE DEF d, texts, f0
<1>5. nuls = NulsFrom(d, 4)
  BY DEF NulsFrom
<1> HIDE DEF nuls
<1>6. /\ Min(nuls) = Len(f2) /\ SubSeq(d, 4, Len(f2) - 1) = p.metadata_uri
      /\ AfterFirst(nuls) = NulsFrom(d, Len(f2) + 1)
  <2>1. Len(f0) + 1 = 4
    BY <1>2
  <2>2. LET k == Len(f0) + 1
            nul == NulsFrom(d, k)
        IN  /\ Min(nul) = Len(f2) /\ SubSeq(d, k, Len(f2) - 1) = p.metadata_uri
            /\ AfterFirst(nul) = NulsFrom(d, Len(f2) + 1)
    BY <1>2, <1>4, NulAfterText
  <2> QED BY <1>5, <2>1, <2>2
<1> HIDE DEF f2
<1>7. /\ Min(AfterFirst(nuls)) = Len(f4)
      /\ SubSeq(d, Len(f2) + 1, Len(f4) - 1) = p.name
      /\ AfterFirst(AfterFirst(nuls)) = NulsFrom(d, Len(f4) + 1)
  <2>1. LET k == Len(f2) + 1
            nul == NulsFrom(d, k)
        IN  /\ Min(nul) = Len(f4) /\ SubSeq(d, k, Len(f4) - 1) = p.name
            /\ AfterFirst(nul) = NulsFrom(d, Len(f4) + 1)
    BY <1>2, <1>4, NulAfterText
  <2> QED BY <1>6, <2>1
<1> HIDE DEF f4
<1>8. /\ Min(AfterFirst(AfterFirst(nuls))) = Len(f6)
      /\ SubSeq(d, Len(f4) + 1, Len(f6) - 1) = p.symbol
  <2>1. LET k == Len(f4) + 1
            nul == NulsFrom(d, k)
        IN  /\ Min(nul) = Len(f6) /\ SubSeq(d, k, Len(f6) - 1) = p.symbol
    BY <1>2, <1>4, NulAfterText
  <2> QED BY <1>7, <2>1
<1>9. Start(d, Len(f6) + 1) = 75 + texts
  <2>1. Ends(d)[Len(f6)] = Size(f6) /\ Len(f6) \in Nat
    BY <1>2, EndOfFront
  <2> HIDE DEF f6
  <2>2. Len(f6) + 1 - 1 = Len(f6)
    BY <2>1
  <2> QED BY <1>2, <2>1, <2>2 DEF Start
<1> HIDE DEF f6
<1>10. ASSUME NEW q \in DecodeLegacyMintPayload(d) PROVE q = p
  <2>1. q = IncomingMintPayload(d, p.metadata_uri, p.name, p.symbol,
                                p.recipient_address)
    BY <1>2, <1>6, <1>7, <1>8, <1>9 DEF DecodeLegacyMintPayload, NoMessage, nuls
  <2> QED BY <1>3, <2>1 DEF IncomingMintPayload, PayloadOK
<1> QED BY <1>10 DEF d

-----------------------------------------------------------------------------
\* A string the decoder finds: a run of ASCII bytes.
IsPlain(text) == Len(text) = 1 /\ IsAscii(text[1])

\* One run, on its own.
LEMMA SingleRun ==
  ASSUME NEW r, IsRun(r)
  PROVE  IsBytes(<<r>>) /\ Size(<<r>>) = Width(r) /\ Width(r) \in Nat /\ Width(r) > 0
<1> DEFINE b == <<r>>
<1>1. Len(b) = 1 /\ DOMAIN b = {1} /\ b[1] = r
  OBVIOUS
<1>2. b \in Seq(ToSet(b))
  <2> b \in Seq({r}) /\ ToSet(b) = {r}
    BY DEF ToSet
  <2> QED OBVIOUS
<1>3. IsBytes(b)
  BY <1>1, <1>2 DEF IsBytes
<1>4. Width(r) \in Nat /\ Width(r) > 0
  BY DEF IsRun
<1>5. Size(b) = Width(r)
  <2>1. Ends(b)[1] = Ends(b)[1 - 1] + Width(b[1]) /\ Ends(b)[0] = 0
    BY <1>1, <1>3, EndsOf
  <2> QED BY <1>1, <1>4, <2>1 DEF Size
<1> QED BY <1>3, <1>4, <1>5

\* The first ASCII run, or the default string, is plain and not empty.
LEMMA FirstIsPlain ==
  ASSUME NEW c, IsBytes(c), NEW at, at \subseteq {i \in DOMAIN c : IsAscii(c[i])}
  PROVE  LET text == IF at = {} THEN DefaultString ELSE <<c[Min(at)]>>
         IN  IsPlain(text) /\ Size(text) > 0
<1>1. CASE at = {}
  <2>1. IsPlain(DefaultString) /\ Size(DefaultString) = 7
    <3>1. /\ Len(DefaultString) = 1 /\ Kind(DefaultString[1]) = "word"
          /\ Size(DefaultString) = 7
      BY RunIs DEF DefaultString
    <3> QED BY <3>1 DEF IsPlain, IsAscii, AsciiKinds
  <2> QED BY <1>1, <2>1
<1>2. CASE at # {}
  <2>1. DOMAIN c \subseteq Nat
    BY BytesShape
  <2>2. Min(at) \in at
    BY <1>2, <2>1, MinOfNat
  <2> DEFINE r == c[Min(at)]
  <2>3. IsAscii(r) /\ IsRun(r)
    BY <2>2 DEF IsBytes
  <2> HIDE DEF r
  <2>4. Size(<<r>>) > 0
    BY <2>3, SingleRun
  <2>5. IsPlain(<<r>>)
    BY <2>3 DEF IsPlain
  <2> QED BY <1>2, <2>4, <2>5 DEF r
<1> QED BY <1>1, <1>2

\* Whatever the content, three strings are found in it.
LEMMA StringsArePlain ==
  ASSUME NEW c, IsBytes(c), NEW i \in 1..3
  PROVE  IsPlain(Strings(c)[i]) /\ Size(Strings(c)[i]) > 0
<1> DEFINE ascii == {j \in DOMAIN c : IsAscii(c[j])}
           First(at) == IF at = {} THEN DefaultString ELSE <<c[Min(at)]>>
           x == First(ascii)
           y == First(AfterFirst(ascii))
           z == First(AfterFirst(AfterFirst(ascii)))
<1>1. AfterFirst(ascii) \subseteq ascii /\ AfterFirst(AfterFirst(ascii)) \subseteq ascii
  BY DEF AfterFirst
<1>2. IsPlain(x) /\ Size(x) > 0
  BY FirstIsPlain
<1>3. IsPlain(y) /\ Size(y) > 0
  BY <1>1, FirstIsPlain
<1>4. IsPlain(z) /\ Size(z) > 0
  BY <1>1, FirstIsPlain
<1>5. Strings(c) = <<x, y, z>>
  BY DEF Strings
<1> HIDE DEF x, y, z
<1> QED BY <1>2, <1>3, <1>4, <1>5

\* The size of a payload that is valid.
LEMMA ValidSize ==
  ASSUME NEW d, IsBytes(d), ValidateIncomingPayload(d)
  PROVE  Size(d) \in Nat /\ Size(d) >= 104 /\ Size(d) >= 32 /\ Size(d) <= 2048
<1>1. Size(d) \in Nat
  BY EndsOf
<1>2. Size(d) \in 104..2048
  BY DEF ValidateIncomingPayload, MinPayload, MaxPayload
<1> QED BY <1>1, <1>2

\* on_call goes on with one payload, of three plain strings.
LEMMA OnCallDecodes ==
  ASSUME NEW d, IsBytes(d), ValidateIncomingPayload(d)
  PROVE  \E x, y, z :
           /\ IsPlain(x) /\ IsPlain(y) /\ IsPlain(z)
           /\ Size(x) > 0 /\ Size(y) > 0 /\ Size(z) > 0
           /\ DecodedByOnCall(d) = {IncomingMintPayload(d, x, y, z, Recipient(d))}
           /\ Size(d) > MinPayload =>
                <<x, y, z>> = Strings(ContentBytes(d))
<1>1. Size(d) \in Nat /\ Size(d) >= 104 /\ Size(d) <= 2048
      /\ ValidateCrossChainMessageFormatEnhanced(d)
  <2>1. Size(d) \in Nat /\ Size(d) >= 104 /\ Size(d) <= 2048
    BY ValidSize
  <2> QED BY <2>1 DEF ValidateCrossChainMessageFormatEnhanced, MinPayload
<1>2. CASE Size(d) > MinPayload
  <2> DEFINE c == ContentBytes(d)
             t == Strings(c)
  <2>1. IsBytes(c)
    <3>1. Size(d) - MinPayload \in Nat
      BY <1>1, <1>2 DEF MinPayload
    <3> QED BY <3>1, SliceIs DEF ContentBytes
  <2>2. /\ IsPlain(t[1]) /\ IsPlain(t[2]) /\ IsPlain(t[3])
        /\ Size(t[1]) > 0 /\ Size(t[2]) > 0 /\ Size(t[3]) > 0
    <3> HIDE DEF c
    <3> QED BY <2>1, StringsArePlain
  <2>3. t = <<t[1], t[2], t[3]>>
    BY DEF Strings
  <2>4. DecodedByOnCall(d) = {IncomingMintPayload(d, t[1], t[2], t[3], Recipient(d))}
    BY <1>1, <1>2 DEF DecodedByOnCall, DecodeIncomingMintPayloadEnhanced, NoMessage
  <2> HIDE DEF t
  <2> QED BY <2>2, <2>3, <2>4 DEF t
<1>3. CASE ~(Size(d) > MinPayload)
  <2> DEFINE x == Run(14, "ascii", "ipfs://default")
             y == Run(11, "phrase", "Default NFT")
             z == Run(4, "word", "DNFT")
  <2>1. /\ IsPlain(x) /\ IsPlain(y) /\ IsPlain(z)
        /\ Size(x) > 0 /\ Size(y) > 0 /\ Size(z) > 0
    <3>1. Len(x) = 1 /\ Kind(x[1]) = "ascii" /\ Size(x) = 14
      <4>1. \A v : /\ Len(Run(14, "ascii", v)) = 1
                  /\ Kind(Run(14, "ascii", v)[1]) = "ascii"
                  /\ Size(Run(14, "ascii", v)) = 14
        BY RunIs
      <4> QED BY <4>1, Zenon
    <3>2. Len(y) = 1 /\ Kind(y[1]) = "phrase" /\ Size(y) = 11
      <4>1. \A v : /\ Len(Run(11, "phrase", v)) = 1
                  /\ Kind(Run(11, "phrase", v)[1]) = "phrase"
                  /\ Size(Run(11, "phrase", v)) = 11
        BY RunIs
      <4> QED BY <4>1, Zenon
    <3>3. Len(z) = 1 /\ Kind(z[1]) = "word" /\ Size(z) = 4
      BY RunIs
    <3> HIDE DEF x, y, z
    <3> QED BY <3>1, <3>2, <3>3 DEF IsPlain, IsAscii, AsciiKinds
  <2>2. DecodedByOnCall(d) = {IncomingMintPayload(d, x, y, z, Recipient(d))}
    BY <1>1, <1>3 DEF DecodedByOnCall, DecodeIncomingMintPayloadEnhanced, NoMessage,
                      DecodeIncomingMintPayloadFallback
  <2> HIDE DEF x, y, z
  <2> QED BY <1>3, <2>1, <2>2
<1> QED BY <1>2, <1>3

\* The fixed fields are read from any payload that starts with them.
THEOREM OnCallReadsFront ==
  ASSUME NEW p, PayloadOK(p), NEW d, IsBytes(d), StartsWith(d, FrontOf(p)),
         ValidateIncomingPayload(d)
  PROVE  \E decoded \in DecodedByOnCall(d) :
           /\ decoded.token_id = p.token_id
           /\ decoded.origin_chain_id = p.origin_chain_id
           /\ decoded.gateway_message_id = p.gateway_message_id
           /\ Size(decoded.metadata_uri) > 0
           /\ Size(decoded.name) > 0 /\ Size(decoded.symbol) > 0
<1>1. /\ Number("le", d, 0, 8) = p.token_id
      /\ Slice(d, 8, 32) = p.origin_chain_id
      /\ Slice(d, 40, 32) = p.gateway_message_id
  BY FrontIs
<1>2. PICK x, y, z :
        /\ Size(x) > 0 /\ Size(y) > 0 /\ Size(z) > 0
        /\ DecodedByOnCall(d) = {IncomingMintPayload(d, x, y, z, Recipient(d))}
  BY OnCallDecodes
<1> QED BY <1>1, <1>2 DEF IncomingMintPayload

\* What is read as the recipient ends in the last run of the payload, or in
\* a piece of it.
LEMMA RecipientEnd ==
  ASSUME NEW d, IsBytes(d), Size(d) >= 32
  PROVE  LET r == Slice(d, Size(d) - 32, 32)
         IN  Kind(r[Len(r)]) = "cut" \/ r[Len(r)] = d[Len(d)]
<1>1. Size(d) \in Nat
  BY EndsOf
<1>2. 32 \in Nat /\ 32 > 0 /\ 32 <= Size(d)
  BY <1>1
<1> QED BY <1>2, SliceEnd

\* What on_call reads as it was sent has plain texts and no metadata.
THEOREM OnCallReadsOnly ==
  ASSUME NEW p, PayloadOK(p), NEW more, IsBytes(more),
         ValidateIncomingPayload(BuildPayload(p, more)),
         p \in DecodedByOnCall(BuildPayload(p, more)),
         Kind(p.recipient_address[Len(p.recipient_address)]) # "cut",
         more # NoMetadata =>
           more[Len(more)] # p.recipient_address[Len(p.recipient_address)]
  PROVE  /\ IsPlain(p.metadata_uri) /\ IsPlain(p.name) /\ IsPlain(p.symbol)
         /\ more = NoMetadata
<1> DEFINE d == BuildPayload(p, more)
           r == p.recipient_address
<1>1. IsBytes(d)
  BY PayloadIs
<1>2. d = (AfterSymbol(p) \o r) \o more /\ IsBytes(AfterSymbol(p) \o r)
  BY PayloadIs, Built DEF PayloadOK, Is32
<1>3. ValidateIncomingPayload(d) /\ p \in DecodedByOnCall(d)
  OBVIOUS
<1> HIDE DEF d
<1>4. Size(d) \in Nat /\ Size(d) >= 32
  BY <1>1, <1>3, ValidSize
<1>5. PICK x, y, z :
        /\ IsPlain(x) /\ IsPlain(y) /\ IsPlain(z)
        /\ DecodedByOnCall(d) = {IncomingMintPayload(d, x, y, z, Recipient(d))}
  BY <1>1, <1>3, OnCallDecodes
<1>6. p.metadata_uri = x /\ p.name = y /\ p.symbol = z /\ r = Recipient(d)
  BY <1>3, <1>5 DEF IncomingMintPayload
<1>7. r[Len(r)] = d[Len(d)]
  <2>1. Kind(r[Len(r)]) = "cut" \/ r[Len(r)] = d[Len(d)]
    <3>1. r = Slice(d, Size(d) - 32, 32)
      BY <1>6 DEF Recipient
    <3> QED BY <1>1, <1>4, <3>1, RecipientEnd, Zenon DEF Recipient
  <2> QED BY <2>1
<1>8. ASSUME more # NoMetadata PROVE FALSE
  <2>1. Len(more) \in 1..Len(more)
    <3>1. Len(more) \in Nat /\ Len(more) # 0
      BY <1>8, BytesShape, EmptySeq DEF NoMetadata, IsBytes
    <3> QED BY <3>1
  <2> DEFINE front == AfterSymbol(p) \o r
  <2>2. /\ Len(front \o more) = Len(front) + Len(more)
        /\ (front \o more)[Len(front) + Len(more)] = more[Len(more)]
    BY <1>2, <2>1, ConcatShape
  <2> QED BY <1>2, <1>7, <1>8, <2>2
<1> QED BY <1>5, <1>6, <1>8

\* The content of a payload without metadata.
Closed(a, b, c) == a \o Nul \o b \o Nul \o c \o Nul
Content(p) == Closed(p.metadata_uri, p.name, p.symbol)

\* The content behind other bytes, text by text.
LEMMA ContentBehind ==
  ASSUME NEW f, IsBytes(f), NEW a, IsBytes(a), NEW b, IsBytes(b), NEW c, IsBytes(c)
  PROVE  /\ IsBytes(Closed(a, b, c))
         /\ f \o Closed(a, b, c) = f \o a \o Nul \o b \o Nul \o c \o Nul
<1> DEFINE n == Nul
           c2 == a \o n
           c3 == c2 \o b
           c4 == c3 \o n
           c5 == c4 \o c
           c6 == c5 \o n
<1>0. IsBytes(n)
  BY NulIs
<1> HIDE DEF n
<1>1. f \o c2 = (f \o a) \o n
  BY <1>0, ConcatAssoc
<1>2. IsBytes(c2)
  BY <1>0, Built
<1> HIDE DEF c2
<1>3. f \o c3 = (f \o c2) \o b
  BY <1>0, <1>2, ConcatAssoc
<1>4. IsBytes(c3)
  BY <1>0, <1>2, Built
<1> HIDE DEF c3
<1>5. f \o c4 = (f \o c3) \o n
  BY <1>0, <1>4, ConcatAssoc
<1>6. IsBytes(c4)
  BY <1>0, <1>4, Built
<1> HIDE DEF c4
<1>7. f \o c5 = (f \o c4) \o c
  BY <1>0, <1>6, ConcatAssoc, SMTT(30)
<1>8. IsBytes(c5)
  BY <1>0, <1>6, Built
<1> HIDE DEF c5
<1>9. f \o c6 = (f \o c5) \o n
  BY <1>0, <1>8, ConcatAssoc
<1>10. IsBytes(c6)
  BY <1>0, <1>8, Built
<1> HIDE DEF c6
<1>11. f \o c6 = f \o a \o n \o b \o n \o c \o n
  BY <1>1, <1>3, <1>5, <1>7, <1>9
<1> QED BY <1>10, <1>11 DEF Closed, n, c2, c3, c4, c5, c6

\* A run of the second of two byte strings.
LEMMA BehindFront ==
  ASSUME NEW s, IsBytes(s), NEW t, IsBytes(t), NEW j \in 1..Len(t)
  PROVE  (s \o t)[Len(s) + j] = t[j]
BY ConcatShape

\* One run more at the end.
LEMMA PushRun ==
  ASSUME NEW s, IsBytes(s), NEW t, IsBytes(t), Len(t) = 1
  PROVE  /\ IsBytes(s \o t) /\ Len(s \o t) = Len(s) + 1
         /\ \A i \in 1..Len(s) : (s \o t)[i] = s[i]
         /\ (s \o t)[Len(s) + 1] = t[1]
<1>1. Len(s \o t) = Len(s) + Len(t)
  BY ConcatShape
<1>2. (s \o t)[Len(s) + 1] = t[1]
  <2>1. \A j : j = Len(t) /\ j \in 1..Len(t) => (s \o t)[Len(s) + j] = t[j]
    BY BehindFront
  <2> QED BY <2>1
<1>3. \A i \in 1..Len(s) : (s \o t)[i] = s[i]
  BY ConcatShape, Zenon
<1> QED BY <1>1, <1>2, <1>3, Built

\* The content of three plain texts: each with its NUL behind it.
LEMMA SixRuns ==
  ASSUME NEW a, IsBytes(a), NEW b, IsBytes(b), NEW c, IsBytes(c),
         Len(a) = 1, Len(b) = 1, Len(c) = 1
  PROVE  LET t == Closed(a, b, c)
         IN  /\ IsBytes(t) /\ Len(t) = 6
             /\ t[1] = a[1] /\ t[2] = Nul[1] /\ t[3] = b[1]
             /\ t[4] = Nul[1] /\ t[5] = c[1] /\ t[6] = Nul[1]
<1> DEFINE n == Nul
           c2 == a \o n
           c3 == c2 \o b
           c4 == c3 \o n
           c5 == c4 \o c
           c6 == c5 \o n
<1>1. IsBytes(n) /\ Len(n) = 1
  BY NulIs
<1> HIDE DEF n
<1>2. IsBytes(c2) /\ Len(c2) = 2 /\ c2[1] = a[1] /\ c2[2] = n[1]
  <2>1. /\ IsBytes(c2) /\ Len(c2) = Len(a) + 1
        /\ \A i \in 1..Len(a) : c2[i] = a[i]
        /\ c2[Len(a) + 1] = n[1]
    BY <1>1, PushRun, Zenon
  <2> HIDE DEF c2
  <2> QED BY <1>1, <2>1
<1> HIDE DEF c2
<1>3. IsBytes(c3) /\ Len(c3) = 3 /\ c3[1] = a[1] /\ c3[2] = n[1] /\ c3[3] = b[1]
  <2>1. /\ IsBytes(c3) /\ Len(c3) = Len(c2) + 1
        /\ \A i \in 1..Len(c2) : c3[i] = c2[i]
        /\ c3[Len(c2) + 1] = b[1]
    BY <1>1, <1>2, PushRun, Zenon
  <2> HIDE DEF c3
  <2> QED BY <1>2, <2>1
<1> HIDE DEF c3
<1>4. IsBytes(c4) /\ Len(c4) = 4 /\ c4[1] = a[1] /\ c4[2] = n[1] /\ c4[3] = b[1]
      /\ c4[4] = n[1]
  <2>1. /\ IsBytes(c4) /\ Len(c4) = Len(c3) + 1
        /\ \A i \in 1..Len(c3) : c4[i] = c3[i]
        /\ c4[Len(c3) + 1] = n[1]
    BY <1>1, <1>3, PushRun, Zenon
  <2> HIDE DEF c4
  <2> QED BY <1>3, <2>1
<1> HIDE DEF c4
<1>5. IsBytes(c5) /\ Len(c5) = 5 /\ c5[1] = a[1] /\ c5[2] = n[1] /\ c5[3] = b[1]
      /\ c5[4] = n[1] /\ c5[5] = c[1]
  <2>1. /\ IsBytes(c5) /\ Len(c5) = Len(c4) + 1
        /\ \A i \in 1..Len(c4) : c5[i] = c4[i]
        /\ c5[Len(c4) + 1] = c[1]
    BY <1>1, <1>4, PushRun, Zenon
  <2> HIDE DEF c5
  <2> QED BY <1>4, <2>1
<1> HIDE DEF c5
<1>6. IsBytes(c6) /\ Len(c6) = 6 /\ c6[1] = a[1] /\ c6[2] = n[1] /\ c6[3] = b[1]
      /\ c6[4] = n[1] /\ c6[5] = c[1] /\ c6[6] = n[1]
  <2>1. /\ IsBytes(c6) /\ Len(c6) = Len(c5) + 1
        /\ \A i \in 1..Len(c5) : c6[i] = c5[i]
        /\ c6[Len(c5) + 1] = n[1]
    BY <1>1, <1>5, PushRun, Zenon
  <2> HIDE DEF c6
  <2> QED BY <1>5, <2>1
<1> HIDE DEF c6
<1> QED BY <1>6 DEF Closed, n, c2, c3, c4, c5, c6

\* The content of a payload without metadata, and its recipient, are read as
\* they were put in.
LEMMA ContentRead ==
  ASSUME NEW p, PayloadOK(p)
  PROVE  /\ ContentBytes(BuildPayload(p, NoMetadata)) = Content(p)
         /\ Recipient(BuildPayload(p, NoMetadata)) = p.recipient_address
         /\ Size(BuildPayload(p, NoMetadata)) > MinPayload
<1> DEFINE d == BuildPayload(p, NoMetadata)
           f == FrontOf(p)
           r == p.recipient_address
           c1 == p.metadata_uri
           c6 == Content(p)
           texts == Size(p.metadata_uri) + Size(p.name) + Size(p.symbol)
<1>1. /\ IsBytes(c1) /\ IsBytes(p.name) /\ IsBytes(p.symbol) /\ IsBytes(Nul)
      /\ IsBytes(r) /\ Size(r) = 32 /\ IsBytes(f) /\ Size(f) = 72
  BY NulIs, FrontIs DEF PayloadOK, IsString, Is32
<1>2. IsBytes(NoMetadata) /\ Size(NoMetadata) = 0
  BY EmptyBytes DEF NoMetadata
<1>3. /\ IsBytes(d) /\ texts \in Nat /\ Size(d) = 107 + texts
      /\ d = (AfterSymbol(p) \o r) \o NoMetadata
      /\ IsBytes(AfterSymbol(p)) /\ Size(AfterSymbol(p)) = 75 + texts
      /\ Slice(d, 75 + texts, 32) = r
  <2>1. LET e == BuildPayload(p, NoMetadata)
            size == Size(p.metadata_uri) + Size(p.name) + Size(p.symbol)
        IN  /\ IsBytes(e) /\ size \in Nat
            /\ Size(e) = 107 + size + Size(NoMetadata)
            /\ e = AfterSymbol(p) \o p.recipient_address \o NoMetadata
            /\ IsBytes(AfterSymbol(p)) /\ Size(AfterSymbol(p)) = 75 + size
            /\ Slice(e, 75 + size, 32) = p.recipient_address
    BY <1>2, PayloadIs
  <2> QED BY <1>2, <2>1
<1>4. d = AfterSymbol(p) \o r
  <2>1. IsBytes(AfterSymbol(p) \o r)
    BY <1>1, <1>3, Built
  <2> QED BY <1>3, <2>1, ConcatEmptySeq DEF NoMetadata, IsBytes
<1> HIDE DEF d, texts
<1>5. AfterSymbol(p) = f \o c6 /\ IsBytes(c6)
  <2> DEFINE b == p.name
             c == p.symbol
  <2>1. IsBytes(c1) /\ IsBytes(b) /\ IsBytes(c) /\ IsBytes(f)
    BY <1>1
  <2> HIDE DEF f, b, c, c1
  <2>2. IsBytes(Closed(c1, b, c))
    BY <2>1, ContentBehind
  <2>3. f \o Closed(c1, b, c) = f \o c1 \o Nul \o b \o Nul \o c \o Nul
    BY <2>1, ContentBehind
  <2> QED BY <2>2, <2>3 DEF Content, AfterSymbol, AfterName, AfterUri, f, b, c, c1
<1> HIDE DEF f, c6
<1>7. Size(c6) = 3 + texts
  <2>1. Size(f \o c6) = Size(f) + Size(c6) /\ Size(c6) \in Nat
    BY <1>1, <1>5, Built, EndsOf
  <2> QED BY <1>1, <1>3, <1>5, <2>1
<1>8. d = (f \o c6) \o r
  BY <1>4, <1>5
<1>9. Slice(d, 72, 3 + texts) = c6
  BY <1>1, <1>5, <1>7, <1>8, SliceMiddle
<1>10. Size(d) - 104 = 3 + texts /\ Size(d) - 32 = 75 + texts /\ Size(d) > 104
  BY <1>3
<1> QED BY <1>3, <1>9, <1>10 DEF ContentBytes, Recipient, MinPayload, d, c6

\* The strings found in plain texts are these texts.
LEMMA ContentStrings ==
  ASSUME NEW p, PayloadOK(p),
         IsPlain(p.metadata_uri), IsPlain(p.name), IsPlain(p.symbol)
  PROVE  Strings(Content(p)) = <<p.metadata_uri, p.name, p.symbol>>
<1> DEFINE a == p.metadata_uri
           b == p.name
           c == p.symbol
<1>1. /\ IsBytes(a) /\ IsBytes(b) /\ IsBytes(c) /\ IsBytes(Nul)
      /\ Len(a) = 1 /\ Len(b) = 1 /\ Len(c) = 1 /\ Len(Nul) = 1
      /\ IsAscii(a[1]) /\ IsAscii(b[1]) /\ IsAscii(c[1])
  BY NulIs DEF PayloadOK, IsString, IsPlain
<1>2. a = <<a[1]>> /\ b = <<b[1]>> /\ c = <<c[1]>>
  <2>1. ASSUME NEW x, IsBytes(x), Len(x) = 1 PROVE x = <<x[1]>>
    <3>1. x \in Seq(ToSet(x)) /\ DOMAIN x = {1}
      BY <2>1, BytesShape DEF IsBytes
    <3>2. <<x[1]>> \in Seq(ToSet(x)) /\ Len(<<x[1]>>) = 1
      BY <3>1 DEF ToSet
    <3> QED BY <2>1, <3>1, <3>2, SeqEqual
  <2> QED BY <1>1, <2>1
<1> HIDE DEF a, b, c
<1> DEFINE t == Closed(a, b, c)
           ascii == {j \in DOMAIN t : IsAscii(t[j])}
<1>3. Content(p) = t
  BY DEF Content, a, b, c
<1>4. /\ IsBytes(t) /\ Len(t) = 6
      /\ t[1] = a[1] /\ t[2] = Nul[1] /\ t[3] = b[1] /\ t[4] = Nul[1]
      /\ t[5] = c[1] /\ t[6] = Nul[1]
  BY <1>1, SixRuns
<1> HIDE DEF t
<1>5. ~IsAscii(Nul[1])
  BY NulIs DEF IsAscii, AsciiKinds
<1>6. ascii = {1, 3, 5}
  <2>1. DOMAIN t = 1..6
    BY <1>4, BytesShape
  <2> QED BY <1>1, <1>4, <1>5, <2>1
<1>7. AfterFirst(ascii) = {3, 5} /\ AfterFirst(AfterFirst(ascii)) = {5}
  <2>1. AfterFirst({1, 3, 5}) = {3, 5} /\ AfterFirst({3, 5}) = {5}
    BY DEF AfterFirst
  <2> QED BY <1>6, <2>1
<1>8. Min({1, 3, 5}) = 1 /\ Min({3, 5}) = 3 /\ Min({5}) = 5
  BY MinIs
<1>9. Strings(t) = << <<t[1]>>, <<t[3]>>, <<t[5]>> >>
  BY <1>6, <1>7, <1>8 DEF Strings
<1> QED BY <1>2, <1>3, <1>4, <1>9 DEF a, b, c

\* Plain texts without metadata are read as they were sent.
THEOREM OnCallReadsSent ==
  ASSUME NEW p, PayloadOK(p), ValidateIncomingPayload(BuildPayload(p, NoMetadata)),
         IsPlain(p.metadata_uri), IsPlain(p.name), IsPlain(p.symbol)
  PROVE  p \in DecodedByOnCall(BuildPayload(p, NoMetadata))
<1> DEFINE d == BuildPayload(p, NoMetadata)
<1>1. IsBytes(NoMetadata)
  BY EmptyBytes DEF NoMetadata
<1>2. IsBytes(d) /\ StartsWith(d, FrontOf(p)) /\ ValidateIncomingPayload(d)
  BY <1>1, PayloadIs
<1>3. /\ Number("le", d, 0, 8) = p.token_id
      /\ Slice(d, 8, 32) = p.origin_chain_id
      /\ Slice(d, 40, 32) = p.gateway_message_id
  BY <1>2, FrontIs
<1>4. /\ Strings(ContentBytes(d)) = <<p.metadata_uri, p.name, p.symbol>>
      /\ Recipient(d) = p.recipient_address /\ Size(d) > MinPayload
  BY ContentRead, ContentStrings
<1> HIDE DEF d
<1>5. PICK x, y, z :
        /\ DecodedByOnCall(d) = {IncomingMintPayload(d, x, y, z, Recipient(d))}
        /\ <<x, y, z>> = <<p.metadata_uri, p.name, p.symbol>>
  BY <1>2, <1>4, OnCallDecodes
<1>6. IncomingMintPayload(d, x, y, z, Recipient(d)) = p
  BY <1>3, <1>4, <1>5 DEF IncomingMintPayload, PayloadOK
<1> QED BY <1>5, <1>6 DEF d
=============================================================================

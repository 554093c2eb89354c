--------------------------- MODULE BencodeProofs ---------------------------
(***************************************************************************)
(* Lemmas that the proofs about every component share: induction over the  *)
(* natural numbers, recursively defined functions, concatenation, decimal  *)
(* notation, and the order of keys.                                        *)
(***************************************************************************)
EXTENDS Encoding, FiniteSetTheorems, SequenceTheorems, TLAPS

---------------------------------------------------------------------------
(* Induction.  The induction theorems of the library take a predicate as a *)
(* parameter, and the provers at hand do not instantiate those.  These two *)
(* take a set instead, and rest on the well-foundedness of the inclusion   *)
(* of finite sets, which the library states without parameters.            *)

\* A set of natural numbers that has any has a least.
LEMMA LeastNatural ==
  ASSUME NEW T \in SUBSET Nat, T # {}
  PROVE  \E n \in T : \A m \in T : n <= m
<1> DEFINE Below(n) == {k \in Nat : k < n}
           Family == {Below(n) : n \in T}
<1>1. IsWellFoundedOn(StrictSubsetOrdering(Nat), FiniteSubsetsOf(Nat))
  BY FS_StrictSubsetOrderingWellFounded
<1>2. \A n \in T : Below(n) \in FiniteSubsetsOf(Nat)
  <2> TAKE n \in T
  <2>1. Below(n) \in SUBSET Nat /\ \A s \in Below(n) : s <= n
    OBVIOUS
  <2>2. IsFiniteSet(Below(n))
    BY <2>1, FS_BoundedSetOfNaturals
  <2> QED BY <2>1, <2>2 DEF FiniteSubsetsOf
<1>3. Family \subseteq FiniteSubsetsOf(Nat) /\ Family # {}
  BY <1>2
<1>4. \E x \in Family : \A y \in Family : <<y, x>> \notin StrictSubsetOrdering(Nat)
  <2> HIDE DEF Family
  <2> QED BY <1>1, <1>3, WFMin
<1>5. PICK n \in T : \A y \in Family : <<y, Below(n)>> \notin StrictSubsetOrdering(Nat)
  BY <1>4
<1>6. ASSUME NEW m \in T, ~(n <= m)
      PROVE FALSE
  <2>1. Below(m) \in Family
    OBVIOUS
  <2>2. Below(m) \in SUBSET Nat /\ Below(n) \in SUBSET Nat /\ Below(m) \subseteq Below(n) 
    BY <1>6
  <2>2a. m \in Below(n) /\ m \notin Below(m) 
    BY <1>6
  <2>3. <<Below(m), Below(n)>> \in StrictSubsetOrdering(Nat)
    <3> HIDE DEF Below
    <3> QED BY <2>2, <2>2a DEF StrictSubsetOrdering
  <2> QED BY <1>5, <2>1, <2>3
<1> QED BY <1>6

\* A set with 0 and the successors of what it has, has every natural number.
LEMMA InductionOverSet ==
  ASSUME NEW T, 0 \in T, \A n \in Nat : n \in T => n + 1 \in T
  PROVE  Nat \subseteq T
<1> SUFFICES ASSUME Nat \ T # {} PROVE FALSE
  OBVIOUS
<1>1. PICK n \in Nat \ T : \A m \in Nat \ T : n <= m
  BY LeastNatural
<1>2. n # 0 /\ n - 1 \in Nat /\ n - 1 \in T
  BY <1>1
<1> QED BY <1>1, <1>2

---------------------------------------------------------------------------
(* Recursive functions.  f[x \in S] == e is the choice of a function that   *)
(* satisfies its own equation.  One exists when the value at x depends only *)
(* on the values at arguments of a smaller rank; F is e, as a function of f. *)

DependsOnLess(F, S, X, rank) ==
  /\ F \in [[S -> X] -> [S -> X]]
  /\ \A g, h \in [S -> X], s \in S :
       (\A t \in S : rank[t] < rank[s] => g[t] = h[t]) => F[g][s] = F[h][s]

LEMMA RecursiveFunctionExists ==
  ASSUME NEW S, NEW X, NEW rank \in [S -> Nat], NEW g0 \in [S -> X],
         NEW F, DependsOnLess(F, S, X, rank)
  PROVE  \E f \in [S -> X] : f = F[f]
<1> USE DEF DependsOnLess
<1> DEFINE Good(k, g) == \A s \in S : rank[s] < k => g[s] = F[g][s]
           T == {k \in Nat : \E g \in [S -> X] : Good(k, g)}
<1>1. 0 \in T
  OBVIOUS
<1>2. ASSUME NEW k \in Nat, k \in T
      PROVE  k + 1 \in T
  <2>1. PICK g \in [S -> X] : Good(k, g)
    BY <1>2
  <2>2. F[g] \in [S -> X]
    OBVIOUS
  <2>3. ASSUME NEW s \in S, rank[s] < k + 1
        PROVE  F[g][s] = F[F[g]][s]
    <3>1. \A t \in S : rank[t] < rank[s] => rank[t] < k
      BY <2>3
    <3>2. \A t \in S : rank[t] < rank[s] => F[g][t] = g[t]
      BY <2>1, <3>1
    <3> QED BY <2>2, <3>2
  <2>4. Good(k + 1, F[g])
    BY <2>3
  <2> QED BY <2>2, <2>4
<1>3. Nat \subseteq T
  <2> HIDE DEF T
  <2> QED BY <1>1, <1>2, InductionOverSet
<1>4. ASSUME NEW k \in Nat, NEW g \in [S -> X], NEW h \in [S -> X], Good(k, g), Good(k, h),
             NEW s \in S, rank[s] < k
      PROVE  g[s] = h[s]
  <2> DEFINE Apart == {n \in Nat : \E t \in S : rank[t] = n /\ n < k /\ g[t] # h[t]}
  <2>1. ASSUME Apart # {}
        PROVE  FALSE
    <3>1. PICK n \in Apart : \A m \in Apart : n <= m
      <4> HIDE DEF Apart
      <4>1. Apart \in SUBSET Nat
        BY DEF Apart
      <4> QED BY <2>1, <4>1, LeastNatural
    <3>2. PICK t \in S : rank[t] = n /\ n < k /\ g[t] # h[t]
      BY <3>1
    <3>3. \A u \in S : rank[u] < rank[t] => g[u] = h[u]
      <4> SUFFICES ASSUME NEW u \in S, rank[u] < rank[t], g[u] # h[u]
                   PROVE  FALSE
        OBVIOUS
      <4>1. rank[u] \in Apart
        BY <3>2
      <4> QED BY <3>1, <3>2, <4>1
    <3>4. F[g][t] = F[h][t]
      BY <3>3
    <3> QED BY <1>4, <3>2, <3>4
  <2> QED BY <1>4, <2>1
<1>5. \A s \in S : rank[s] + 1 \in Nat
  OBVIOUS
<1> DEFINE best(s) == CHOOSE g \in [S -> X] : Good(rank[s] + 1, g)
           f == [s \in S |-> best(s)[s]]
<1>6. \A s \in S : best(s) \in [S -> X] /\ Good(rank[s] + 1, best(s))
  <2> TAKE s \in S
  <2>1. \E g \in [S -> X] : Good(rank[s] + 1, g)
    BY <1>3, <1>5
  <2> QED BY <2>1
<1>7. f \in [S -> X]
  <2> SUFFICES ASSUME NEW s \in S
               PROVE  best(s)[s] \in X
    BY Zenon
  <2> QED BY <1>6
<1>8. ASSUME NEW s \in S
      PROVE  f[s] = F[f][s]
  <2>1. best(s) \in [S -> X] /\ Good(rank[s] + 1, best(s)) /\ f[s] = best(s)[s]
    BY <1>6
  <2>2. f[s] = F[best(s)][s]
    <3> HIDE DEF best, f
    <3> QED BY <2>1
  <2>3. ASSUME NEW t \in S, rank[t] < rank[s]
        PROVE  f[t] = best(s)[t]
    <3>1. best(t) \in [S -> X] /\ Good(rank[t] + 1, best(t)) /\ f[t] = best(t)[t]
      BY <1>6
    <3>2. Good(rank[t] + 1, best(s))
      BY <2>1, <2>3
    <3>3. rank[t] + 1 \in Nat /\ rank[t] < rank[t] + 1
      OBVIOUS
    <3> HIDE DEF best, f, Good
    <3> QED BY <1>4, <2>1, <3>1, <3>2, <3>3
  <2> HIDE DEF best, f
  <2> QED BY <1>7, <2>1, <2>2, <2>3
<1> QED
  <2>1. F[f] \in [S -> X]
    BY <1>7
  <2>2. f = F[f]
    <3> HIDE DEF f
    <3> QED BY <1>7, <1>8, <2>1
  <2> QED BY <1>7, <2>2

---------------------------------------------------------------------------
(* Byte strings and decimal notation.                                      *)

LEMMA OneByte ==
  ASSUME NEW b \in Byte
  PROVE  <<b>> \in Bytes
BY DEF Bytes

LEMMA BytesConcat ==
  ASSUME NEW a \in Bytes, NEW b \in Bytes
  PROVE  a \o b \in Bytes /\ Len(a) \in Nat /\ Len(b) \in Nat /\ Len(a \o b) = Len(a) + Len(b)
<1>1. a \in Seq(Byte) /\ b \in Seq(Byte)
  BY DEF Bytes
<1>2. a \o b \in Seq(Byte) /\ Len(a \o b) = Len(a) + Len(b)
  BY <1>1, ConcatProperties
<1> QED BY <1>1, <1>2, LenProperties DEF Bytes

LEMMA BytesAssociative ==
  ASSUME NEW a \in Bytes, NEW b \in Bytes, NEW c \in Bytes
  PROVE  (a \o b) \o c = a \o (b \o c)
<1>1. a \in Seq(Byte) /\ b \in Seq(Byte) /\ c \in Seq(Byte)
  BY DEF Bytes
<1> QED BY <1>1, ConcatAssociative

\* Concatenation under a name of its own: left folded, it is a term that the
\* provers match as it stands.
Joined(s, t) == s \o t

LEMMA JoinedAssociative ==
  ASSUME NEW a \in Bytes, NEW b \in Bytes
  PROVE  /\ Joined(a, b) \in Bytes
         /\ \A c \in Bytes : Joined(Joined(a, b), c) = Joined(a, Joined(b, c))
<1>1. a \o b \in Bytes
  BY BytesConcat
<1>2. ASSUME NEW c \in Bytes
      PROVE  (a \o b) \o c = a \o (b \o c)
  BY BytesAssociative
<1> QED BY <1>1, <1>2, Zenon DEF Joined

\* Five parts, grouped from the left.
LEMMA FiveParts ==
  ASSUME NEW s1 \in Bytes, NEW s2 \in Bytes, NEW s3 \in Bytes, NEW s4 \in Bytes, NEW s5 \in Bytes
  PROVE  Joined(Joined(s1, Joined(s2, Joined(s3, s4))), s5)
           = Joined(Joined(Joined(s1, s2), s3), Joined(s4, s5))
<1>1. Joined(s1, s2) \in Bytes /\ Joined(s3, s4) \in Bytes /\ Joined(Joined(s1, s2), s3) \in Bytes
  BY JoinedAssociative
<1>2. Joined(s1, Joined(s2, Joined(s3, s4))) = Joined(Joined(s1, s2), Joined(s3, s4))
  BY <1>1, JoinedAssociative
<1>3. Joined(Joined(s1, s2), Joined(s3, s4)) = Joined(Joined(Joined(s1, s2), s3), s4)
  BY <1>1, JoinedAssociative
<1>4. Joined(Joined(Joined(Joined(s1, s2), s3), s4), s5)
        = Joined(Joined(Joined(s1, s2), s3), Joined(s4, s5))
  BY <1>1, JoinedAssociative
<1> QED BY <1>2, <1>3, <1>4

LEMMA BytesEmpty ==
  ASSUME NEW a \in Bytes
  PROVE  <<>> \in Bytes /\ <<>> \o a = a /\ a \o <<>> = a
<1>1. a \in Seq(Byte)
  BY DEF Bytes
<1> QED BY <1>1, ConcatEmptySeq, EmptySeq DEF Bytes

NextDigit(f, n) == IF n < 10 THEN <<Zero + n>> ELSE f[n \div 10] \o <<Zero + (n % 10)>>

\* A function defined by NextDigit satisfies it, and gives byte strings.
LEMMA DecimalNotation ==
  ASSUME NEW f, f = CHOOSE g : g = [k \in Nat |-> NextDigit(g, k)]
  PROVE  \A n \in Nat : f[n] = NextDigit(f, n) /\ f[n] \in Bytes
<1> DEFINE F == [g \in [Nat -> Bytes] |-> [k \in Nat |-> NextDigit(g, k)]]
           rank == [k \in Nat |-> k]
           g0 == [k \in Nat |-> <<>>]
<1>1. ASSUME NEW g, NEW k \in Nat, k >= 10 => g[k \div 10] \in Bytes
      PROVE  NextDigit(g, k) \in Bytes
  <2>1. CASE k < 10
    <3>1. Zero + k \in Byte
      BY <2>1 DEF Zero, Byte
    <3> QED BY <2>1, <3>1, OneByte DEF NextDigit
  <2>2. CASE k >= 10
    <3>1. Zero + (k % 10) \in Byte
      BY DEF Zero, Byte
    <3>2. <<Zero + (k % 10)>> \in Bytes
      BY <3>1, OneByte
    <3> QED BY <1>1, <2>2, <3>2, BytesConcat DEF NextDigit
  <2> QED BY <2>1, <2>2
<1>2. \A k \in Nat : k >= 10 => k \div 10 \in Nat /\ k \div 10 < k
  OBVIOUS
<1>3. F \in [[Nat -> Bytes] -> [Nat -> Bytes]]
  <2>1. ASSUME NEW g \in [Nat -> Bytes], NEW k \in Nat
        PROVE  NextDigit(g, k) \in Bytes
    BY <1>1, <1>2
  <2> QED BY <2>1
<1>4. ASSUME NEW g \in [Nat -> Bytes], NEW h \in [Nat -> Bytes], NEW k \in Nat,
             \A j \in Nat : rank[j] < rank[k] => g[j] = h[j]
      PROVE  F[g][k] = F[h][k]
  <2>1. NextDigit(g, k) = NextDigit(h, k)
    <3>1. CASE k < 10
      BY <3>1 DEF NextDigit
    <3>2. CASE k >= 10
      <4>1. g[k \div 10] = h[k \div 10]
        BY <1>2, <1>4, <3>2
      <4> HIDE DEF F, rank
      <4> QED BY <3>2, <4>1 DEF NextDigit
    <3> QED BY <3>1, <3>2
  <2>2. F[g] = [j \in Nat |-> NextDigit(g, j)] /\ F[h] = [j \in Nat |-> NextDigit(h, j)]
    OBVIOUS
  <2> HIDE DEF F, rank
  <2> QED BY <2>1, <2>2
<1>5. \E g \in [Nat -> Bytes] : g = F[g]
  <2> DEFINE S == Nat
             X == Bytes
  <2>1. rank \in [S -> Nat]
    OBVIOUS
  <2>2. <<>> \in X
    BY DEF Bytes
  <2>3. g0 \in [S -> X]
    BY <2>2
  <2> HIDE DEF F, rank, g0
  <2>4. DependsOnLess(F, S, X, rank)
    BY <1>3, <1>4, Zenon DEF DependsOnLess
  <2>5. \E g \in [S -> X] : g = F[g]
    <3> HIDE DEF S, X
    <3> QED BY <2>1, <2>3, <2>4, RecursiveFunctionExists
  <2> QED BY <2>5
<1>6. \E g : g = [k \in Nat |-> NextDigit(g, k)]
  <2>1. PICK g \in [Nat -> Bytes] : g = F[g]
    BY <1>5
  <2>2. F[g] = [k \in Nat |-> NextDigit(g, k)]
    OBVIOUS
  <2> HIDE DEF F
  <2> QED BY <2>1, <2>2
<1>7. f = [k \in Nat |-> NextDigit(f, k)]
  BY <1>6, Zenon
<1> DEFINE Short == {k \in Nat : \A j \in 0..k : f[j] \in Bytes}
<1>8. \A k \in Nat : f[k] = NextDigit(f, k)
  BY <1>7
<1>9. 0 \in Short
  BY <1>1, <1>8
<1>10. ASSUME NEW k \in Nat, k \in Short
       PROVE  k + 1 \in Short
  <2>1. k + 1 >= 10 => (k + 1) \div 10 \in 0..k
    BY <1>2
  <2>2. NextDigit(f, k + 1) \in Bytes
    BY <1>1, <1>10, <2>1
  <2>3. f[k + 1] \in Bytes
    BY <1>8, <2>2
  <2>4. \A j \in 0..(k + 1) : j \in 0..k \/ j = k + 1
    OBVIOUS
  <2>5. \A j \in 0..(k + 1) : f[j] \in Bytes
    BY <1>10, <2>3, <2>4
  <2> QED BY <2>5
<1>11. Nat \subseteq Short
  <2> HIDE DEF Short
  <2> QED BY <1>9, <1>10, InductionOverSet
<1> QED BY <1>8, <1>11

\* A further digit multiplies by ten, unless there was but a zero.
LEMMA DecimalGrows ==
  /\ \A n \in Nat : Decimal[n] \in Bytes
  /\ \A d \in 0..9 : Decimal[d] = <<Zero + d>>
  /\ \A n \in Nat \ {0}, d \in 0..9 : Decimal[n * 10 + d] = Decimal[n] \o <<Zero + d>>
<1>1. Decimal = CHOOSE f : f = [k \in Nat |-> NextDigit(f, k)]
  BY DEF Decimal, NextDigit
<1>2. \A n \in Nat : Decimal[n] = NextDigit(Decimal, n) /\ Decimal[n] \in Bytes
  BY <1>1, DecimalNotation
<1>3. ASSUME NEW d \in 0..9
      PROVE  Decimal[d] = <<Zero + d>>
  <2>1. d \in Nat /\ d < 10
    OBVIOUS
  <2> QED BY <1>2, <2>1 DEF NextDigit
<1>4. ASSUME NEW n \in Nat \ {0}, NEW d \in 0..9
      PROVE  Decimal[n * 10 + d] = Decimal[n] \o <<Zero + d>>
  <2>1. /\ n * 10 + d \in Nat /\ ~(n * 10 + d < 10)
        /\ (n * 10 + d) \div 10 = n /\ (n * 10 + d) % 10 = d
    OBVIOUS
  <2> QED BY <1>2, <2>1 DEF NextDigit
<1> QED BY <1>2, <1>3, <1>4

\* The spelling of a number and of a string.
LEMMA EncodedBytes ==
  /\ \A n \in Int : EncodeInt(n) \in Bytes
  /\ \A s \in Bytes : EncodeString(s) \in Bytes
<1>1. /\ <<ch_i>> \in Bytes /\ <<ch_e>> \in Bytes /\ <<Minus>> \in Bytes /\ <<Colon>> \in Bytes
  BY OneByte DEF Byte, ch_i, ch_e, Minus, Colon
<1>2. ASSUME NEW n \in Int
      PROVE  EncodeInt(n) \in Bytes
  <2>1. CASE n < 0
    <3>1. -n \in Nat
      BY <2>1
    <3>2. Decimal[-n] \in Bytes
      BY <3>1, DecimalGrows
    <3> QED BY <1>1, <2>1, <3>2, BytesConcat DEF EncodeInt
  <2>2. CASE ~(n < 0)
    <3>1. n \in Nat
      BY <2>2
    <3>2. Decimal[n] \in Bytes
      BY <3>1, DecimalGrows
    <3> QED BY <1>1, <2>2, <3>2, BytesConcat DEF EncodeInt
  <2> QED BY <2>1, <2>2
<1>3. ASSUME NEW s \in Bytes
      PROVE  EncodeString(s) \in Bytes
  <2>1. Len(s) \in Nat
    BY BytesConcat
  <2> QED BY <1>1, <2>1, DecimalGrows, BytesConcat DEF EncodeString
<1> QED BY <1>2, <1>3

\* No spelling is empty.
LEMMA EncodedSome ==
  /\ \A n \in Int : EncodeInt(n) # <<>>
  /\ \A s \in Bytes : EncodeString(s) # <<>>
  /\ \A c, s \in Bytes : c # <<>> => c \o s # <<>>
  /\ <<ch_l>> \in Bytes /\ <<ch_l>> # <<>> /\ <<ch_d>> \in Bytes /\ <<ch_d>> # <<>>
<1>1. /\ <<ch_i>> \in Bytes /\ <<ch_e>> \in Bytes /\ <<Minus>> \in Bytes /\ <<Colon>> \in Bytes
      /\ <<ch_l>> \in Bytes /\ <<ch_d>> \in Bytes
  BY OneByte DEF Byte, ch_i, ch_e, Minus, Colon, ch_l, ch_d
<1>2. ASSUME NEW a \in Bytes, NEW b \in Bytes, a # <<>> \/ b # <<>>
      PROVE  a \o b # <<>>
  <2>1. Len(a) \in Nat /\ Len(b) \in Nat /\ Len(a \o b) = Len(a) + Len(b)
    BY BytesConcat
  <2>2. (Len(a) = 0 => a = <<>>) /\ (Len(b) = 0 => b = <<>>) /\ Len(<<>>) = 0
    BY EmptySeq DEF Bytes
  <2> QED BY <1>2, <2>1, <2>2
<1>3. ASSUME NEW n \in Int
      PROVE  EncodeInt(n) # <<>>
  <2> DEFINE mid == IF n < 0 THEN <<Minus>> \o Decimal[-n] ELSE Decimal[n]
  <2>1. mid \in Bytes
    <3>1. n < 0 => -n \in Nat
      OBVIOUS
    <3>2. ~(n < 0) => n \in Nat
      OBVIOUS
    <3> QED BY <1>1, <3>1, <3>2, DecimalGrows, BytesConcat
  <2>2. EncodeInt(n) = (<<ch_i>> \o mid) \o <<ch_e>>
    BY DEF EncodeInt
  <2> HIDE DEF mid
  <2>3. <<ch_e>> # <<>> /\ <<ch_i>> \o mid \in Bytes
    BY <1>1, <2>1, BytesConcat
  <2> QED BY <1>1, <1>2, <2>2, <2>3
<1>4. ASSUME NEW s \in Bytes
      PROVE  EncodeString(s) # <<>>
  <2>1. Decimal[Len(s)] \in Bytes
    BY BytesConcat, DecimalGrows
  <2>2. <<Colon>> # <<>> /\ Decimal[Len(s)] \o <<Colon>> \in Bytes
    BY <1>1, <2>1, BytesConcat
  <2>3. Decimal[Len(s)] \o <<Colon>> # <<>>
    BY <1>1, <1>2, <2>1, <2>2
  <2> QED BY <1>2, <2>2, <2>3 DEF EncodeString
<1> QED BY <1>1, <1>2, <1>3, <1>4

\* A byte string, cut in two.
LEMMA CutInTwo ==
  ASSUME NEW s \in Bytes, NEW j \in 0..Len(s)
  PROVE  /\ SubSeq(s, 1, j) \in Bytes /\ Len(SubSeq(s, 1, j)) = j
         /\ SubSeq(s, j + 1, Len(s)) \in Bytes
         /\ s = SubSeq(s, 1, j) \o SubSeq(s, j + 1, Len(s))
<1> DEFINE a == SubSeq(s, 1, j)
           b == SubSeq(s, j + 1, Len(s))
           n == Len(s)
<1>1. s \in Seq(Byte) /\ n \in Nat /\ j \in Nat /\ j <= n
  BY LenProperties DEF Bytes
<1>2. /\ a \in Seq(Byte) /\ Len(a) = j /\ \A i \in 1..j : a[i] = s[i]
  BY <1>1, SubSeqProperties
<1>3. /\ b \in Seq(Byte) /\ Len(b) = n - j /\ \A i \in 1..(n - j) : b[i] = s[j + i]
  BY <1>1, SubSeqProperties
<1> HIDE DEF a, b
<1>4. /\ a \o b \in Seq(Byte) /\ Len(a \o b) = Len(a) + Len(b)
      /\ \A i \in 1..(Len(a) + Len(b)) : (a \o b)[i] = IF i <= Len(a) THEN a[i] ELSE b[i - Len(a)]
  BY <1>2, <1>3, ConcatProperties, Zenon
<1>5. Len(a \o b) = n
  BY <1>1, <1>2, <1>3, <1>4
<1>6. ASSUME NEW i \in 1..n
      PROVE  s[i] = (a \o b)[i]
  <2>1. CASE i <= j
    BY <1>1, <1>2, <1>3, <1>4, <2>1
  <2>2. CASE ~(i <= j)
    <3>1. i - j \in 1..(n - j) /\ j + (i - j) = i
      BY <1>1, <2>2
    <3> QED BY <1>1, <1>2, <1>3, <1>4, <2>2, <3>1
  <2> QED BY <2>1, <2>2
<1>7. s = a \o b
  BY <1>1, <1>4, <1>5, <1>6, SeqEqual
<1> QED BY <1>2, <1>3, <1>7 DEF Bytes, a, b

\* What comes first is a prefix.
LEMMA FirstPart ==
  ASSUME NEW a \in Bytes, NEW b \in Bytes
  PROVE  /\ a = SubSeq(a \o b, 1, Len(a)) /\ Len(a) \in Nat
         /\ Len(a \o b) = Len(a) + Len(b) /\ Len(b) \in Nat
<1>1. /\ a \in Seq(Byte) /\ b \in Seq(Byte) /\ Len(a) \in Nat /\ Len(b) \in Nat
      /\ Len(a \o b) = Len(a) + Len(b)
  BY BytesConcat DEF Bytes
<1>2. /\ a \o b \in Seq(Byte)
      /\ \A i \in 1..(Len(a) + Len(b)) : (a \o b)[i] = IF i <= Len(a) THEN a[i] ELSE b[i - Len(a)]
  BY <1>1, ConcatProperties
<1> DEFINE s == SubSeq(a \o b, 1, Len(a))
<1>3. s \in Seq(Byte) /\ Len(s) = Len(a) /\ \A i \in 1..Len(a) : s[i] = (a \o b)[i]
  BY <1>1, <1>2, SubSeqProperties
<1>4. \A i \in 1..Len(a) : s[i] = a[i]
  BY <1>1, <1>2, <1>3
<1>5. s = a
  <2> HIDE DEF s
  <2> QED BY <1>1, <1>3, <1>4, SeqEqual
<1> QED BY <1>1, <1>5

\* What is the same before the same end.
LEMMA SameBefore ==
  ASSUME NEW a \in Bytes, NEW b \in Bytes, NEW c \in Bytes, a \o c = b \o c
  PROVE  a = b
<1>1. /\ a = SubSeq(a \o c, 1, Len(a)) /\ b = SubSeq(b \o c, 1, Len(b))
      /\ Len(a \o c) = Len(a) + Len(c) /\ Len(b \o c) = Len(b) + Len(c)
      /\ Len(a) \in Nat /\ Len(b) \in Nat /\ Len(c) \in Nat
  BY FirstPart
<1>2. a \o c = b \o c
  OBVIOUS
<1>3. Len(a) + Len(c) = Len(b) + Len(c)
  BY <1>1, <1>2
<1>4. \A i, j, k \in Nat : i + k = j + k => i = j
  OBVIOUS
<1>5. Len(a) = Len(b)
  BY <1>1, <1>3, <1>4, Zenon
<1> QED BY <1>1, <1>2, <1>5

---------------------------------------------------------------------------
(* FlattenSeq.                                                             *)

\* FlattenSeq concatenates the members of ss from the left: f[i] is the
\* concatenation of the first i.
NextPart(ss, f, i) == IF i = 1 THEN ss[i] ELSE f[i - 1] \o ss[i]

LEMMA Flattening ==
  ASSUME NEW ss \in Seq(Bytes), NEW n \in Nat, n = Len(ss),
         NEW f, f = CHOOSE g : g = [i \in 1..n |-> NextPart(ss, g, i)]
  PROVE  \A i \in 1..n : f[i] = NextPart(ss, f, i) /\ f[i] \in Bytes
<1> DEFINE S == 1..n
           F == [g \in [S -> Bytes] |-> [i \in S |-> NextPart(ss, g, i)]]
           rank == [i \in S |-> i]
           g0 == [i \in S |-> <<>>]
<1>1. ASSUME NEW g, NEW i \in S, i # 1 => g[i - 1] \in Bytes
      PROVE  NextPart(ss, g, i) \in Bytes
  <2>1. ss[i] \in Bytes
    BY ElementOfSeq
  <2> QED BY <1>1, <2>1, BytesConcat DEF NextPart
<1>2. \A i \in S : i # 1 => i - 1 \in S
  OBVIOUS
<1>3. F \in [[S -> Bytes] -> [S -> Bytes]]
  <2>1. ASSUME NEW g \in [S -> Bytes], NEW i \in S
        PROVE  NextPart(ss, g, i) \in Bytes
    BY <1>1, <1>2
  <2> QED BY <2>1
<1>4. ASSUME NEW g \in [S -> Bytes], NEW h \in [S -> Bytes], NEW i \in S,
             \A j \in S : rank[j] < rank[i] => g[j] = h[j]
      PROVE  F[g][i] = F[h][i]
  <2>1. i # 1 => g[i - 1] = h[i - 1]
    BY <1>2, <1>4
  <2>2. NextPart(ss, g, i) = NextPart(ss, h, i)
    BY <2>1 DEF NextPart
  <2>3. F[g] = [j \in S |-> NextPart(ss, g, j)] /\ F[h] = [j \in S |-> NextPart(ss, h, j)]
    OBVIOUS
  <2> HIDE DEF F, rank
  <2> QED BY <2>2, <2>3
<1>5. \E g : g = [i \in S |-> NextPart(ss, g, i)]
  <2> DEFINE X == Bytes
  <2>1. <<>> \in X
    BY DEF Bytes
  <2>2. rank \in [S -> Nat] /\ g0 \in [S -> X]
    BY <2>1
  <2>3. PICK g \in [S -> X] : g = F[g]
    <3> HIDE DEF F, rank, g0
    <3>1. DependsOnLess(F, S, X, rank)
      BY <1>3, <1>4, Zenon DEF DependsOnLess
    <3> HIDE DEF S, X
    <3> QED BY <2>2, <3>1, RecursiveFunctionExists
  <2>4. F[g] = [i \in S |-> NextPart(ss, g, i)]
    OBVIOUS
  <2> HIDE DEF F
  <2> QED BY <2>3, <2>4
<1>6. f = [i \in S |-> NextPart(ss, f, i)]
  BY <1>5, Zenon
<1>7. \A i \in S : f[i] = NextPart(ss, f, i)
  BY <1>6
<1> DEFINE T == {k \in Nat : k \in S => f[k] \in Bytes}
<1>8. 0 \in T
  OBVIOUS
<1>9. ASSUME NEW k \in Nat, k \in T
      PROVE  k + 1 \in T
  <2> SUFFICES ASSUME k + 1 \in S
               PROVE  f[k + 1] \in Bytes
    OBVIOUS
  <2>1. k + 1 # 1 => f[(k + 1) - 1] \in Bytes
    BY <1>9
  <2> QED BY <1>1, <1>7, <2>1
<1>10. Nat \subseteq T
  <2> HIDE DEF T
  <2> QED BY <1>8, <1>9, InductionOverSet
<1> QED BY <1>7, <1>10

LEMMA FlattenSeqDef ==
  ASSUME NEW ss
  PROVE  FlattenSeq(ss) =
           IF Len(ss) = 0 THEN ss
           ELSE (CHOOSE g : g = [i \in 1..Len(ss) |-> NextPart(ss, g, i)])[Len(ss)]
BY Zenon DEF FlattenSeq, NextPart

\* One more member comes last.
LEMMA FlattenAppend ==
  ASSUME NEW ss \in Seq(Bytes), NEW x \in Bytes
  PROVE  /\ FlattenSeq(ss) \in Bytes
         /\ FlattenSeq(Append(ss, x)) = FlattenSeq(ss) \o x
<1> DEFINE tt == Append(ss, x)
           f == CHOOSE g : g = [i \in 1..Len(ss) |-> NextPart(ss, g, i)]
           h == CHOOSE g : g = [i \in 1..Len(tt) |-> NextPart(tt, g, i)]
<1>1. PICK n \in Nat : n = Len(ss)
  BY LenProperties
<1>2. /\ tt \in Seq(Bytes) /\ Len(tt) = n + 1 /\ tt[n + 1] = x
      /\ \A i \in 1..n : tt[i] = ss[i]
  BY <1>1, AppendProperties
<1>3. n = 0 => ss = <<>>
  BY <1>1, EmptySeq
<1> HIDE DEF tt
<1>4. /\ FlattenSeq(ss) = IF Len(ss) = 0 THEN ss ELSE f[Len(ss)]
      /\ FlattenSeq(tt) = IF Len(tt) = 0 THEN tt ELSE h[Len(tt)]
  BY FlattenSeqDef
<1>5. \A i \in 1..n : f[i] = NextPart(ss, f, i) /\ f[i] \in Bytes
  <2>1. f = CHOOSE g : g = [i \in 1..n |-> NextPart(ss, g, i)]
    BY <1>1
  <2> HIDE DEF f
  <2> QED BY <1>1, <2>1, Flattening
<1>6. \A i \in 1..(n + 1) : h[i] = NextPart(tt, h, i) /\ h[i] \in Bytes
  <2>1. h = CHOOSE g : g = [i \in 1..(n + 1) |-> NextPart(tt, g, i)]
    BY <1>2
  <2> HIDE DEF h
  <2> QED BY <1>2, <2>1, Flattening
<1> HIDE DEF f, h
<1> DEFINE T == {k \in Nat : k \in 1..n => f[k] = h[k]}
<1>7. 0 \in T
  OBVIOUS
<1>8. ASSUME NEW k \in Nat, k \in T
      PROVE  k + 1 \in T
  <2> SUFFICES ASSUME k + 1 \in 1..n
               PROVE  f[k + 1] = h[k + 1]
    OBVIOUS
  <2>1. k # 0 => f[(k + 1) - 1] = h[(k + 1) - 1]
    BY <1>8
  <2>2. k + 1 = 1 <=> k = 0
    OBVIOUS
  <2>3. NextPart(ss, f, k + 1) = NextPart(tt, h, k + 1)
    BY <1>2, <2>1, <2>2 DEF NextPart
  <2> QED BY <1>5, <1>6, <2>3
<1>9. Nat \subseteq T
  <2> HIDE DEF T
  <2> QED BY <1>7, <1>8, InductionOverSet
<1>10. h[n + 1] = IF n = 0 THEN x ELSE h[n] \o x
  BY <1>2, <1>6 DEF NextPart
<1>11. CASE n = 0
  <2>1. x \in Seq(Byte)
    BY DEF Bytes
  <2>2. <<>> \o x = x
    BY <2>1, ConcatEmptySeq
  <2>3. FlattenSeq(ss) = <<>> /\ FlattenSeq(tt) = x
    BY <1>1, <1>2, <1>3, <1>4, <1>10, <1>11
  <2>4. <<>> \in Bytes
    BY DEF Bytes
  <2> QED BY <2>2, <2>3, <2>4 DEF tt
<1>12. CASE n # 0
  <2>1. n \in 1..n /\ f[n] = h[n] /\ f[n] \in Bytes
    BY <1>5, <1>9, <1>12
  <2>2. FlattenSeq(ss) = f[n] /\ FlattenSeq(tt) = h[n] \o x
    BY <1>1, <1>2, <1>4, <1>10, <1>12
  <2> QED BY <2>1, <2>2 DEF tt
<1> QED BY <1>11, <1>12

\* Nothing flattens to nothing, and one member to itself.
LEMMA FlattenFew ==
  /\ FlattenSeq(<<>>) = <<>>
  /\ \A x \in Bytes : FlattenSeq(<<x>>) = x
<1>1. FlattenSeq(<<>>) = <<>>
  BY FlattenSeqDef
<1>2. ASSUME NEW x \in Bytes
      PROVE  FlattenSeq(<<x>>) = x
  <2>1. <<>> \in Seq(Bytes) /\ Append(<<>>, x) = <<x>>
    OBVIOUS
  <2>2. FlattenSeq(Append(<<>>, x)) = FlattenSeq(<<>>) \o x
    BY <2>1, FlattenAppend
  <2> QED BY <1>1, <2>1, <2>2, BytesEmpty
<1> QED BY <1>1, <1>2

\* Two sequences one after the other.
LEMMA FlattenConcat ==
  ASSUME NEW ss \in Seq(Bytes), NEW tt \in Seq(Bytes)
  PROVE  /\ FlattenSeq(ss) \in Bytes /\ FlattenSeq(tt) \in Bytes
         /\ FlattenSeq(ss \o tt) = FlattenSeq(ss) \o FlattenSeq(tt)
<1> DEFINE Splits(t) == FlattenSeq(ss \o t) = FlattenSeq(ss) \o FlattenSeq(t)
           T == {k \in Nat : \A t \in Seq(Bytes) : Len(t) = k => Splits(t)}
<1>1. <<>> \in Bytes
  BY DEF Bytes
<1>2. \A s \in Seq(Bytes) : FlattenSeq(s) \in Bytes
  BY <1>1, FlattenAppend
<1>3. 0 \in T
  <2> SUFFICES ASSUME NEW t \in Seq(Bytes), Len(t) = 0
               PROVE  Splits(t)
    OBVIOUS
  <2>1. t = <<>> /\ ss \o <<>> = ss
    BY EmptySeq, ConcatEmptySeq
  <2> QED BY <1>2, <2>1, FlattenFew, BytesEmpty
<1>4. ASSUME NEW k \in Nat, k \in T
      PROVE  k + 1 \in T
  <2> SUFFICES ASSUME NEW t \in Seq(Bytes), Len(t) = k + 1
               PROVE  Splits(t)
    OBVIOUS
  <2> DEFINE u == SubSeq(t, 1, k)
             x == t[k + 1]
  <2>1. /\ u \in Seq(Bytes) /\ Len(u) = k /\ x \in Bytes
        /\ \A i \in 1..k : u[i] = t[i]
    BY SubSeqProperties, ElementOfSeq, LenProperties
  <2> HIDE DEF u, x
  <2>2. /\ Append(u, x) \in Seq(Bytes) /\ Len(Append(u, x)) = k + 1 /\ Append(u, x)[k + 1] = x
        /\ \A i \in 1..k : Append(u, x)[i] = u[i]
    BY <2>1, AppendProperties
  <2>3. \A i \in 1..(k + 1) : Append(u, x)[i] = t[i]
    <3>1. \A i \in 1..(k + 1) : i \in 1..k \/ i = k + 1
      OBVIOUS
    <3> QED BY <2>1, <2>2, <3>1 DEF x
  <2>4. t = Append(u, x)
    BY <2>2, <2>3, SeqEqual
  <2>5. ss \o t = Append(ss \o u, x) /\ ss \o u \in Seq(Bytes)
    BY <2>1, <2>4
  <2>6. FlattenSeq(ss \o u) = FlattenSeq(ss) \o FlattenSeq(u)
    BY <1>4, <2>1
  <2>7. /\ FlattenSeq(ss \o t) = FlattenSeq(ss \o u) \o x
        /\ FlattenSeq(t) = FlattenSeq(u) \o x
    BY <2>1, <2>4, <2>5, FlattenAppend
  <2>8. (FlattenSeq(ss) \o FlattenSeq(u)) \o x = FlattenSeq(ss) \o (FlattenSeq(u) \o x)
    <3>1. FlattenSeq(ss) \in Bytes /\ FlattenSeq(u) \in Bytes /\ x \in Bytes
      BY <1>2, <2>1
    <3> QED BY <3>1, BytesAssociative
  <2> QED BY <2>6, <2>7, <2>8
<1>5. Nat \subseteq T
  <2> HIDE DEF T
  <2> QED BY <1>3, <1>4, InductionOverSet
<1>6. Len(tt) \in Nat
  BY LenProperties
<1> QED BY <1>2, <1>5, <1>6

\* One more member comes first.
LEMMA FlattenCons ==
  ASSUME NEW x \in Bytes, NEW tt \in Seq(Bytes)
  PROVE  FlattenSeq(<<x>> \o tt) = x \o FlattenSeq(tt)
<1>1. <<x>> \in Seq(Bytes)
  OBVIOUS
<1> QED BY <1>1, FlattenFew, FlattenConcat

---------------------------------------------------------------------------
(* The order of keys.                                                      *)

\* Lexicographic order: a is a proper prefix of b, or is the smaller where
\* they first differ.
Shorter(a, b) == Len(a) < Len(b) /\ \A i \in 1..Len(a) : a[i] = b[i]
DiffersAt(a, b, k) ==
  k <= Len(b) /\ a[k] < b[k] /\ \A i \in 1..(k - 1) : a[i] = b[i]
Precedes(a, b) == Shorter(a, b) \/ \E k \in 1..Len(a) : DiffersAt(a, b, k)

\* Byte strings have a length, and integers at every position.
LEMMA BytesAreIntegers ==
  ASSUME NEW a \in Bytes
  PROVE  Len(a) \in Nat /\ \A i \in 1..Len(a) : a[i] \in Int
<1>1. a \in Seq(Byte)
  BY DEF Bytes
<1>2. \A i \in 1..Len(a) : a[i] \in Byte
  BY <1>1, ElementOfSeq
<1>3. Len(a) \in Nat
  BY <1>1, LenProperties
<1>4. \A x \in Byte : x \in Int
  BY DEF Byte
<1> QED BY <1>2, <1>3, <1>4

\* bytes_cmp is negative exactly in lexicographic order.
LEMMA KeyBeforeIsPrecedes ==
  ASSUME NEW a \in Bytes, NEW b \in Bytes
  PROVE  KeyBefore(a, b) <=> Precedes(a, b)
<1> DEFINE n == IF Len(a) < Len(b) THEN Len(a) ELSE Len(b)
<1>1. /\ n \in Nat /\ n <= Len(a) /\ n <= Len(b) /\ Len(a) \in Nat /\ Len(b) \in Nat
      /\ \A i \in 1..Len(a) : a[i] \in Int
      /\ \A i \in 1..Len(b) : b[i] \in Int
  BY BytesAreIntegers
<1>2. CASE \A i \in 1..n : a[i] = b[i]
  <2>1. memcmp(a, b, n) = 0
    BY <1>2 DEF memcmp
  <2>2. KeyBefore(a, b) <=> Len(a) < Len(b)
    BY <2>1, <1>1 DEF KeyBefore, bytes_cmp
  <2>3. Precedes(a, b) <=> Len(a) < Len(b)
    BY <1>1, <1>2 DEF Precedes, Shorter, DiffersAt
  <2> QED BY <2>2, <2>3
<1>3. CASE ~ \A i \in 1..n : a[i] = b[i]
  <2>1. memcmp(a, b, n) < 0 <=> \E k \in 1..n : a[k] < b[k] /\ \A i \in 1..(k - 1) : a[i] = b[i]
    BY <1>3 DEF memcmp
  <2>2. memcmp(a, b, n) # 0
    BY <1>3 DEF memcmp
  <2>3. KeyBefore(a, b) <=> memcmp(a, b, n) < 0
    BY <2>2 DEF KeyBefore, bytes_cmp
  <2>4. ~Shorter(a, b)
    BY <1>1, <1>3 DEF Shorter
  <2>5. (\E k \in 1..n : a[k] < b[k] /\ \A i \in 1..(k - 1) : a[i] = b[i])
          <=> \E k \in 1..Len(a) : DiffersAt(a, b, k)
    BY <1>1 DEF DiffersAt
  <2> QED BY <2>1, <2>3, <2>4, <2>5 DEF Precedes
<1> QED BY <1>2, <1>3

\* The order of keys is transitive, so that comparing neighbours is enough.
LEMMA KeyBeforeTransitive ==
  ASSUME NEW a \in Bytes, NEW b \in Bytes, NEW c \in Bytes,
         KeyBefore(a, b), KeyBefore(b, c)
  PROVE  KeyBefore(a, c)
<1>1. Precedes(a, b) /\ Precedes(b, c)
  BY KeyBeforeIsPrecedes
<1>2. /\ Len(a) \in Nat /\ Len(b) \in Nat /\ Len(c) \in Nat
      /\ \A i \in 1..Len(a) : a[i] \in Int
      /\ \A i \in 1..Len(b) : b[i] \in Int
      /\ \A i \in 1..Len(c) : c[i] \in Int
  BY BytesAreIntegers
<1> SUFFICES Precedes(a, c)
  BY KeyBeforeIsPrecedes
<1>3. CASE Shorter(a, b) /\ Shorter(b, c)
  BY <1>2, <1>3 DEF Precedes, Shorter
<1>4. ASSUME Shorter(a, b), NEW k \in 1..Len(b), DiffersAt(b, c, k)
      PROVE  Precedes(a, c)
  <2>1. CASE k <= Len(a)
    <3>1. DiffersAt(a, c, k)
      BY <1>2, <1>4, <2>1 DEF Shorter, DiffersAt
    <3> QED BY <2>1, <3>1 DEF Precedes
  <2>2. CASE k > Len(a)
    <3>1. Shorter(a, c)
      BY <1>2, <1>4, <2>2 DEF Shorter, DiffersAt
    <3> QED BY <3>1 DEF Precedes
  <2> QED BY <1>2, <2>1, <2>2
<1>5. ASSUME Shorter(b, c), NEW k \in 1..Len(a), DiffersAt(a, b, k)
      PROVE  Precedes(a, c)
  <2>1. DiffersAt(a, c, k)
    BY <1>2, <1>5 DEF Shorter, DiffersAt
  <2> QED BY <2>1 DEF Precedes
<1>6. ASSUME NEW j \in 1..Len(a), DiffersAt(a, b, j),
             NEW k \in 1..Len(b), DiffersAt(b, c, k)
      PROVE  Precedes(a, c)
  <2>1. CASE j <= k
    <3>1. DiffersAt(a, c, j)
      BY <1>2, <1>6, <2>1 DEF DiffersAt
    <3> QED BY <3>1 DEF Precedes
  <2>2. CASE j > k
    <3>1. DiffersAt(a, c, k) /\ k \in 1..Len(a)
      BY <1>2, <1>6, <2>2 DEF DiffersAt
    <3> QED BY <3>1 DEF Precedes
  <2> QED BY <1>2, <2>1, <2>2
<1> QED BY <1>1, <1>3, <1>4, <1>5, <1>6 DEF Precedes

\* Strings that differ, neither a prefix of the other, first differ somewhere.
LEMMA FirstDifference ==
  ASSUME NEW a \in Bytes, NEW b \in Bytes, NEW n \in Nat, n <= Len(a), n <= Len(b),
         ~ \A i \in 1..n : a[i] = b[i]
  PROVE  \E k \in 1..n : a[k] # b[k] /\ \A i \in 1..(k - 1) : a[i] = b[i]
<1> DEFINE T == {k \in 1..n : a[k] # b[k]}
<1>1. T \in SUBSET Nat /\ T # {}
  OBVIOUS
<1>2. PICK k \in T : \A m \in T : k <= m
  <2> HIDE DEF T
  <2> QED BY <1>1, LeastNatural
<1>3. ASSUME NEW i \in 1..(k - 1)
      PROVE  a[i] = b[i]
  BY <1>2
<1> QED BY <1>2, <1>3

\* bytes_cmp is zero for equal strings only, and changes its sign when its
\* arguments are swapped.
THEOREM KeyTrichotomy ==
  ASSUME NEW a \in Bytes, NEW b \in Bytes
  PROVE  /\ bytes_cmp(a, b) \in Int
         /\ bytes_cmp(a, b) = 0 <=> a = b
         /\ bytes_cmp(a, b) > 0 <=> KeyBefore(b, a)
<1> DEFINE n == IF Len(a) < Len(b) THEN Len(a) ELSE Len(b)
           m == IF Len(b) < Len(a) THEN Len(b) ELSE Len(a)
<1>1. /\ n \in Nat /\ n <= Len(a) /\ n <= Len(b) /\ Len(a) \in Nat /\ Len(b) \in Nat /\ m = n
      /\ \A i \in 1..Len(a) : a[i] \in Int
      /\ \A i \in 1..Len(b) : b[i] \in Int
  BY BytesAreIntegers
<1>2. CASE \A i \in 1..n : a[i] = b[i]
  <2>1. memcmp(a, b, n) = 0 /\ memcmp(b, a, n) = 0
    BY <1>2 DEF memcmp
  <2>2. bytes_cmp(a, b) = IF Len(a) < Len(b) THEN -1 ELSE IF Len(a) > Len(b) THEN 1 ELSE 0
    BY <2>1 DEF bytes_cmp
  <2>3. bytes_cmp(b, a) = IF Len(b) < Len(a) THEN -1 ELSE IF Len(b) > Len(a) THEN 1 ELSE 0
    BY <1>1, <2>1 DEF bytes_cmp
  <2>4. Len(a) = Len(b) => a = b
    <3>1. a \in Seq(Byte) /\ b \in Seq(Byte)
      BY DEF Bytes
    <3> QED BY <1>1, <1>2, <3>1, SeqEqual
  <2> QED BY <1>1, <2>2, <2>3, <2>4 DEF KeyBefore
<1>3. CASE ~ \A i \in 1..n : a[i] = b[i]
  <2>1. PICK k \in 1..n : a[k] # b[k] /\ \A i \in 1..(k - 1) : a[i] = b[i]
    BY <1>1, <1>3, FirstDifference
  <2>2. a[k] \in Int /\ b[k] \in Int /\ a # b
    BY <1>1, <2>1
  <2>3. CASE a[k] < b[k]
    <3>1. memcmp(a, b, n) = -1
      BY <1>3, <2>1, <2>3 DEF memcmp
    <3>2. ~ \E j \in 1..n : b[j] < a[j] /\ \A i \in 1..(j - 1) : b[i] = a[i]
      <4> SUFFICES ASSUME NEW j \in 1..n, b[j] < a[j], \A i \in 1..(j - 1) : b[i] = a[i]
                   PROVE  FALSE
        OBVIOUS
      <4>1. b[j] \in Int /\ a[j] \in Int
        BY <1>1
      <4>2. CASE j < k
        BY <2>1, <4>1, <4>2
      <4>3. CASE k < j
        BY <2>1, <4>3
      <4> QED BY <1>1, <2>2, <2>3, <4>1, <4>2, <4>3
    <3>3. memcmp(b, a, n) = 1
      BY <1>3, <3>2 DEF memcmp
    <3>4. bytes_cmp(a, b) = -1 /\ bytes_cmp(b, a) = 1
      BY <1>1, <3>1, <3>3 DEF bytes_cmp
    <3> QED BY <2>2, <3>4 DEF KeyBefore
  <2>4. CASE b[k] < a[k]
    <3>1. memcmp(b, a, n) = -1
      BY <1>3, <2>1, <2>4 DEF memcmp
    <3>2. ~ \E j \in 1..n : a[j] < b[j] /\ \A i \in 1..(j - 1) : a[i] = b[i]
      <4> SUFFICES ASSUME NEW j \in 1..n, a[j] < b[j], \A i \in 1..(j - 1) : a[i] = b[i]
                   PROVE  FALSE
        OBVIOUS
      <4>1. b[j] \in Int /\ a[j] \in Int
        BY <1>1
      <4>2. CASE j < k
        BY <2>1, <4>1, <4>2
      <4>3. CASE k < j
        BY <2>1, <4>3
      <4> QED BY <1>1, <2>2, <2>4, <4>1, <4>2, <4>3
    <3>3. memcmp(a, b, n) = 1
      BY <1>3, <3>2 DEF memcmp
    <3>4. bytes_cmp(a, b) = 1 /\ bytes_cmp(b, a) = -1
      BY <1>1, <3>1, <3>3 DEF bytes_cmp
    <3> QED BY <2>2, <3>4 DEF KeyBefore
  <2> QED BY <2>1, <2>2, <2>3, <2>4
<1> QED BY <1>2, <1>3

===========================================================================

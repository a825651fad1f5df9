------------------------- MODULE MessageCodecProofs -------------------------
(***************************************************************************)
(* Proof that a batch comes back as it was, for every width of a number    *)
(* and every batch.  The prover has no induction over the naturals to      *)
(* offer; that every set of naturals has a smallest element takes its      *)
(* place, for the recursive functions Power and UpTo as for what they      *)
(* compute.                                                                *)
(***************************************************************************)
EXTENDS MessageCodec, SequenceTheorems, WellFoundedInduction, TLAPS

-----------------------------------------------------------------------------
(***************************************************************************)
(* Induction.                                                              *)
(***************************************************************************)
Less == {pair \in Nat \X Nat : pair[1] < pair[2]}

\* A set of naturals has a smallest element.
LEMMA Smallest ==
    ASSUME NEW T, T \subseteq Nat, T # {}
    PROVE  \E m \in T : \A n \in T : m <= n
<1>1. IsWellFoundedOn(Less, Nat)
  BY NatLessThanWellFounded, Zenon DEF OpToRel, Less
<1>2. \E m \in T : \A n \in T : ~(<<n, m>> \in Less)
  BY <1>1, WFMin, Zenon
<1>3. PICK m \in T : \A n \in T : ~(<<n, m>> \in Less)
  BY <1>2
<1>4. \A n \in T : ~(n < m)
  BY <1>3 DEF Less
<1> QED
  BY <1>4

\* What holds of 0 and goes from k - 1 to k holds up to n.
LEMMA Induction ==
    ASSUME NEW n \in Nat, NEW T, 0 \in T,
           \A k \in 1 .. n : k - 1 \in T => k \in T
    PROVE  \A k \in 0 .. n : k \in T
<1> DEFINE F == {k \in 0 .. n : k \notin T}
<1> SUFFICES ASSUME F # {}
             PROVE  FALSE
  OBVIOUS
<1>1. PICK m \in F : \A k \in F : m <= k
  <2>1. F \subseteq Nat
    OBVIOUS
  <2> HIDE DEF F
  <2> QED
    BY <2>1, Smallest
<1>2. m # 0 /\ m \in 1 .. n /\ m - 1 \in 0 .. n
  BY <1>1
<1>3. m - 1 \notin F
  BY <1>1, <1>2
<1> QED
  BY <1>1, <1>2, <1>3

\* A recursion over 0 .. n with step S has a solution.
Solves(h, n, V, v, S) ==
    /\ h \in [0 .. n -> V] /\ h[0] = v
    /\ \A k \in 1 .. n : h[k] = S[<<k, h[k - 1]>>]

LEMMA Solution ==
    ASSUME NEW n \in Nat, NEW V, NEW v \in V, NEW S \in [Nat \X V -> V]
    PROVE  \E h : Solves(h, n, V, v, S)
<1> DEFINE T == {k \in 0 .. n : \E h : Solves(h, k, V, v, S)}
<1>1. 0 \in T
  <2>1. Solves([k \in 0 .. 0 |-> v], 0, V, v, S)
    BY DEF Solves
  <2> QED
    BY <2>1
<1>2. ASSUME NEW k \in 1 .. n, k - 1 \in T
      PROVE  k \in T
  <2>1. PICK h : Solves(h, k - 1, V, v, S)
    BY <1>2
  <2> DEFINE g == [j \in 0 .. k |-> IF j = k THEN S[<<k, h[k - 1]>>] ELSE h[j]]
  <2>2. g \in [0 .. k -> V]
    <3>1. h[k - 1] \in V /\ S[<<k, h[k - 1]>>] \in V
      BY <2>1 DEF Solves
    <3>2. \A j \in 0 .. k : j # k => h[j] \in V
      BY <2>1 DEF Solves
    <3> QED
      BY <3>1, <3>2
  <2>3. g[0] = v
    BY <2>1 DEF Solves
  <2>4. \A j \in 1 .. k : g[j] = S[<<j, g[j - 1]>>]
    <3> TAKE j \in 1 .. k
    <3>1. CASE j = k
      BY <3>1
    <3>2. CASE j # k
      <4>1. j \in 1 .. k - 1 /\ j - 1 # k /\ j - 1 \in 0 .. k /\ j \in 0 .. k
        BY <3>2
      <4>2. g[j] = h[j] /\ g[j - 1] = h[j - 1]
        BY <3>2, <4>1
      <4> QED
        BY <2>1, <4>1, <4>2 DEF Solves
    <3> QED
      BY <3>1, <3>2
  <2>5. Solves(g, k, V, v, S)
    BY <2>2, <2>3, <2>4 DEF Solves
  <2> QED
    BY <2>5
<1>3. \A k \in 0 .. n : k \in T
  <2> HIDE DEF T
  <2> QED
    BY <1>1, <1>2, Induction
<1> QED
  BY <1>3

\* Two solutions agree as far as both go.
LEMMA Unique ==
    ASSUME NEW n \in Nat, NEW m \in Nat, NEW V, NEW v, NEW S, NEW g, NEW h,
           Solves(g, n, V, v, S), Solves(h, m, V, v, S), n <= m
    PROVE  \A k \in 0 .. n : g[k] = h[k]
<1> DEFINE T == {k \in 0 .. n : g[k] = h[k]}
<1>1. 0 \in T
  BY DEF Solves
<1>2. ASSUME NEW k \in 1 .. n, k - 1 \in T
      PROVE  k \in T
  <2>1. k \in 1 .. m /\ k \in 0 .. n /\ g[k - 1] = h[k - 1]
    BY <1>2
  <2>2. g[k] = S[<<k, g[k - 1]>>] /\ h[k] = S[<<k, h[k - 1]>>]
    BY <2>1 DEF Solves
  <2> QED
    BY <2>1, <2>2
<1>3. \A k \in 0 .. n : k \in T
  <2> HIDE DEF T
  <2> QED
    BY <1>1, <1>2, Induction
<1> QED
  BY <1>3

-----------------------------------------------------------------------------
(***************************************************************************)
(* Numbers.                                                                *)
(***************************************************************************)
LEMMA PowerIs ==
    /\ Power[0] = 1
    /\ \A w \in Nat : Power[w] \in Nat \ {0} /\ Power[w + 1] = Base * Power[w]
<1> DEFINE V == Nat \ {0}
           S == [x \in Nat \X V |-> Base * x[2]]
           h(n) == CHOOSE f : Solves(f, n, V, 1, S)
           p == [n \in Nat |-> h(n)[n]]
<1>1. 1 \in V /\ S \in [Nat \X V -> V] /\ \A k \in Nat, x \in V : S[<<k, x>>] = Base * x
  <2>1. \A x \in V : Base * x \in V
    BY CodecAssumption
  <2> QED
    BY <2>1
<1>2. \A n \in Nat : Solves(h(n), n, V, 1, S)
  <2> HIDE DEF V, S
  <2> QED
    BY <1>1, Solution
<1> HIDE DEF h
<1>3. ASSUME NEW n \in Nat
      PROVE  h(n)[n] \in V
  <2> HIDE DEF V, S
  <2>1. h(n) \in [0 .. n -> V] /\ n \in 0 .. n
    BY <1>2 DEF Solves
  <2> QED
    BY <2>1
<1>4. h(0)[0] = 1
  BY <1>2 DEF Solves
<1>5. ASSUME NEW n \in Nat
      PROVE  h(n + 1)[n + 1] = Base * h(n)[n]
  <2> HIDE DEF V, S
  <2>1. h(n + 1)[n] = h(n)[n]
    <3>1. Solves(h(n), n, V, 1, S) /\ Solves(h(n + 1), n + 1, V, 1, S)
      BY <1>2
    <3> QED
      BY <3>1, Unique
  <2>2. h(n + 1)[n + 1] = S[<<n + 1, h(n + 1)[n]>>]
    <3>1. Solves(h(n + 1), n + 1, V, 1, S) /\ n + 1 \in 1 .. n + 1 /\ (n + 1) - 1 = n
      BY <1>2
    <3> QED
      BY <3>1 DEF Solves
  <2> QED
    BY <1>1, <1>3, <2>1, <2>2
<1>6. p = [w \in Nat |-> IF w = 0 THEN 1 ELSE Base * p[w - 1]]
  <2>1. ASSUME NEW w \in Nat
        PROVE  p[w] = IF w = 0 THEN 1 ELSE Base * p[w - 1]
    <3>1. CASE w = 0
      BY <1>4, <3>1
    <3>2. CASE w # 0
      <4>1. w - 1 \in Nat /\ (w - 1) + 1 = w
        BY <3>2
      <4> QED
        BY <1>5, <3>2, <4>1
    <3> QED
      BY <3>1, <3>2
  <2> QED
    BY <2>1
<1>7. Power = [w \in Nat |-> IF w = 0 THEN 1 ELSE Base * Power[w - 1]]
  <2> HIDE DEF p
  <2> QED
    BY <1>6, Zenon DEF Power
<1>8. Power[0] = 1 /\ \A w \in Nat : Power[w + 1] = Base * Power[w]
  <2>1. \A w \in Nat : Power[w] = IF w = 0 THEN 1 ELSE Base * Power[w - 1]
    BY <1>7
  <2> QED
    BY <2>1
<1>9. \A w \in Nat : Power[w] \in V
  <2> SUFFICES ASSUME NEW n \in Nat
               PROVE  Power[n] \in V
    OBVIOUS
  <2> DEFINE T == {w \in Nat : Power[w] \in V}
  <2>1. 0 \in T
    BY <1>8
  <2>2. ASSUME NEW k \in 1 .. n, k - 1 \in T
        PROVE  k \in T
    <3>1. k - 1 \in Nat /\ (k - 1) + 1 = k /\ Power[k - 1] \in V
      BY <2>2
    <3>2. Power[k] = Base * Power[k - 1]
      BY <1>8, <3>1
    <3>3. Base * Power[k - 1] \in V
      BY <3>1, CodecAssumption
    <3> QED
      BY <3>2, <3>3
  <2>3. \A k \in 0 .. n : k \in T
    <3> HIDE DEF T
    <3> QED
      BY <2>1, <2>2, Induction
  <2> QED
    BY <2>3
<1> QED
  BY <1>8, <1>9

\* Division with remainder: what there is, and that there is no other.
LEMMA Division ==
    ASSUME NEW v \in Nat, NEW p \in Nat \ {0}
    PROVE  /\ v \div p \in Nat /\ v % p \in 0 .. p - 1
           /\ v = p * (v \div p) + (v % p)
  OBVIOUS

LEMMA DivisionUnique ==
    ASSUME NEW v \in Nat, NEW p \in Nat \ {0}, NEW q \in Nat, NEW r \in 0 .. p - 1,
           v = p * q + r
    PROVE  v \div p = q /\ v % p = r
<1>1. PICK a \in Nat, b \in 0 .. p - 1 :
         a = v \div p /\ b = v % p /\ v = p * a + b
  BY Division
<1>2. ~(a > q)
  <2> SUFFICES ASSUME NEW d \in Nat \ {0}, a = q + d
               PROVE  FALSE
    BY <1>1
  <2>1. p * a = p * q + p * d /\ p * d >= p
    OBVIOUS
  <2> QED
    BY <1>1, <2>1
<1>3. ~(q > a)
  <2> SUFFICES ASSUME NEW d \in Nat \ {0}, q = a + d
               PROVE  FALSE
    BY <1>1
  <2>1. p * q = p * a + p * d /\ p * d >= p
    OBVIOUS
  <2> QED
    BY <1>1, <2>1
<1>4. a = q
  BY <1>1, <1>2, <1>3
<1> QED
  BY <1>1, <1>4

\* One more digit.
LEMMA NextDigit ==
    ASSUME NEW v \in Nat, NEW p \in Nat \ {0}
    PROVE  v % (Base * p) = (v % p) + ((v \div p) % Base) * p
<1>1. Base \in Nat \ {0}
  BY CodecAssumption
<1>2. PICK a \in Nat, r \in 0 .. p - 1 :
         a = v \div p /\ r = v % p /\ v = p * a + r
  BY Division
<1>3. PICK c \in Nat, d \in 0 .. Base - 1 :
         c = a \div Base /\ d = a % Base /\ a = Base * c + d
  BY <1>1, Division
<1>4. Base * p \in Nat \ {0} /\ d * p + r \in Nat
  BY <1>1
<1>5. d * p + r < Base * p
  <2>1. PICK e \in Nat : Base = d + 1 + e
    <3>1. Base - (d + 1) \in Nat /\ Base = d + 1 + (Base - (d + 1))
      BY <1>1, <1>3
    <3> QED
      BY <3>1
  <2>2. Base * p = d * p + p + e * p /\ e * p >= 0
    BY <2>1
  <2> QED
    BY <2>2
<1>6. v = (Base * p) * c + (d * p + r)
  <2>1. p * a = p * (Base * c) + p * d
    BY <1>1, <1>3
  <2>2. p * (Base * c) = (Base * p) * c /\ p * d = d * p
    BY <1>1
  <2> QED
    BY <1>1, <1>2, <2>1, <2>2
<1>7. v % (Base * p) = d * p + r
  <2>1. PICK b \in Nat \ {0} : b = Base * p
    BY <1>4
  <2>2. PICK x \in 0 .. b - 1 : x = d * p + r
    BY <1>4, <1>5, <2>1
  <2>3. v = b * c + x
    BY <1>6, <2>1, <2>2
  <2>4. v % b = x
    BY <2>3, DivisionUnique
  <2> QED
    BY <2>1, <2>2, <2>4
<1> QED
  BY <1>2, <1>3, <1>4, <1>7

LEMMA UpToIs ==
    ASSUME NEW bytes \in Seq(Nat)
    PROVE  /\ UpTo(bytes)[0] = 0
           /\ \A k \in 1 .. Len(bytes) :
                 UpTo(bytes)[k] = UpTo(bytes)[k - 1] + bytes[k] * Power[k - 1]
<1> DEFINE n == Len(bytes)
           S == [x \in Nat \X Nat |->
                   IF x[1] \in 1 .. n THEN x[2] + bytes[x[1]] * Power[x[1] - 1] ELSE 0]
           Fix(f) == f = [k \in 0 .. n |->
                            IF k = 0 THEN 0 ELSE f[k - 1] + bytes[k] * Power[k - 1]]
<1>1. n \in Nat /\ \A k \in 1 .. n : bytes[k] \in Nat /\ Power[k - 1] \in Nat
  <2>1. n \in Nat /\ \A k \in 1 .. n : k - 1 \in Nat /\ bytes[k] \in Nat
    OBVIOUS
  <2>2. \A w \in Nat : Power[w] \in Nat
    BY PowerIs
  <2> HIDE DEF n
  <2> QED
    BY <2>1, <2>2
<1> HIDE DEF n
<1>2. S \in [Nat \X Nat -> Nat]
  <2>1. ASSUME NEW x \in Nat \X Nat
        PROVE  S[x] \in Nat
    <3>1. CASE x[1] \in 1 .. n
      <4>1. PICK a \in Nat, b \in Nat : a = bytes[x[1]] /\ b = Power[x[1] - 1]
        BY <1>1, <3>1
      <4>2. PICK y \in Nat, z \in Nat : y = a * b /\ z = x[2]
        <5>1. a * b \in Nat
          OBVIOUS
        <5>2. x[2] \in Nat
          OBVIOUS
        <5> QED
          BY <5>1, <5>2
      <4>3. S[x] = z + y
        BY <3>1, <4>1, <4>2
      <4> QED
        BY <4>3
    <3>2. CASE x[1] \notin 1 .. n
      BY <3>2
    <3> QED
      BY <3>1, <3>2
  <2> QED
    BY <2>1
<1>3. PICK h : Solves(h, n, Nat, 0, S)
  <2> HIDE DEF S
  <2> QED
    BY <1>1, <1>2, Solution
<1>4. \A k \in 1 .. n : h[k] = h[k - 1] + bytes[k] * Power[k - 1]
  <2> TAKE k \in 1 .. n
  <2>1. h[k] = S[<<k, h[k - 1]>>] /\ h[k - 1] \in Nat
    <3> HIDE DEF S
    <3> QED
      BY <1>1, <1>3 DEF Solves
  <2> QED
    BY <1>1, <2>1
<1>5. Fix(h)
  <2>1. h = [k \in 0 .. n |-> h[k]] /\ h[0] = 0
    BY <1>3 DEF Solves
  <2>2. \A k \in 0 .. n :
           h[k] = IF k = 0 THEN 0 ELSE h[k - 1] + bytes[k] * Power[k - 1]
    <3> TAKE k \in 0 .. n
    <3>1. CASE k = 0
      BY <2>1, <3>1
    <3>2. CASE k # 0
      <4>1. k \in 1 .. n
        BY <1>1, <3>2
      <4> QED
        BY <1>4, <3>2, <4>1
    <3> QED
      BY <3>1, <3>2
  <2> QED
    BY <2>1, <2>2
<1>6. Fix(UpTo(bytes))
  BY <1>5, Zenon DEF UpTo, n
<1>7. /\ UpTo(bytes)[0] = 0
      /\ \A k \in 1 .. n : UpTo(bytes)[k] = UpTo(bytes)[k - 1] + bytes[k] * Power[k - 1]
  <2>1. PICK f : f = UpTo(bytes) /\ Fix(f)
    BY <1>6
  <2>2. \A k \in 0 .. n : f[k] = IF k = 0 THEN 0 ELSE f[k - 1] + bytes[k] * Power[k - 1]
    BY <2>1
  <2>3. 0 \in 0 .. n /\ \A k \in 1 .. n : k \in 0 .. n /\ k # 0
    BY <1>1
  <2> QED
    BY <2>1, <2>2, <2>3
<1> QED
  BY <1>7 DEF n

LEMMA Encoded ==
    ASSUME NEW v \in Nat, NEW w \in Nat
    PROVE  /\ Encode(v, w) \in Seq(Byte) /\ Len(Encode(v, w)) = w
           /\ DOMAIN Encode(v, w) = 1 .. w
           /\ \A k \in 1 .. w : Encode(v, w)[k] = (v \div Power[k - 1]) % Base
<1>1. Base \in Nat \ {0}
  BY CodecAssumption
<1>2. ASSUME NEW k \in 1 .. w
      PROVE  (v \div Power[k - 1]) % Base \in Byte
  <2>1. Power[k - 1] \in Nat \ {0}
    BY PowerIs
  <2>2. v \div Power[k - 1] \in Nat
    BY <2>1, Division
  <2> QED
    BY <1>1, <2>2, Division DEF Byte
<1> QED
  BY <1>2 DEF Encode

\* A value that has w digits comes back.
LEMMA DecodeEncode ==
    ASSUME NEW w \in Nat, NEW v \in 0 .. Power[w] - 1
    PROVE  Decode(Encode(v, w)) = v
<1> DEFINE e == Encode(v, w)
           u == UpTo(e)
           T == {k \in 0 .. w : u[k] = v % Power[k]}
<1>1. v \in Nat /\ Power[w] \in Nat \ {0}
  BY PowerIs
<1>2. e \in Seq(Nat) /\ Len(e) = w
  <2>1. e \in Seq(Byte) /\ Len(e) = w
    BY <1>1, Encoded
  <2>2. Byte \subseteq Nat
    BY CodecAssumption DEF Byte
  <2> HIDE DEF e
  <2> QED
    BY <2>1, <2>2, SeqMonotonic
<1>3. u[0] = 0 /\ \A k \in 1 .. w : u[k] = u[k - 1] + e[k] * Power[k - 1]
  <2> HIDE DEF e
  <2> QED
    BY <1>2, UpToIs
<1>4. \A k \in 1 .. w : e[k] = (v \div Power[k - 1]) % Base
  BY <1>1, Encoded
<1> HIDE DEF u, e
<1>5. 0 \in T
  BY <1>1, <1>3, PowerIs
<1>6. ASSUME NEW k \in 1 .. w, k - 1 \in T
      PROVE  k \in T
  <2>1. k - 1 \in Nat /\ (k - 1) + 1 = k /\ u[k - 1] = v % Power[k - 1]
    BY <1>6
  <2>2. PICK p \in Nat \ {0} : p = Power[k - 1] /\ Power[k] = Base * p
    BY <2>1, PowerIs
  <2>3. v % (Base * p) = (v % p) + ((v \div p) % Base) * p
    BY <1>1, NextDigit
  <2>4. u[k] = v % Power[k]
    BY <1>3, <1>4, <2>1, <2>2, <2>3
  <2> QED
    BY <2>4
<1>7. \A k \in 0 .. w : k \in T
  <2> HIDE DEF T
  <2> QED
    BY <1>5, <1>6, Induction
<1>8. u[w] = v % Power[w]
  BY <1>7
<1>9. v % Power[w] = v
  <2>1. PICK p \in Nat \ {0} : p = Power[w]
    BY <1>1
  <2>2. v = p * 0 + v /\ v \in 0 .. p - 1
    BY <1>1, <2>1
  <2>3. v % p = v
    BY <1>1, <2>2, DivisionUnique
  <2> QED
    BY <2>1, <2>3
<1> QED
  BY <1>2, <1>8, <1>9 DEF Decode, u, e

-----------------------------------------------------------------------------
(***************************************************************************)
(* A body as a row of pieces: P[1] to P[m] follow each other, and P[j]     *)
(* starts behind the first st[j - 1] bytes.                                *)
(***************************************************************************)
Layout(st, m, P) ==
    /\ m \in Nat /\ P \in [1 .. m -> Seq(Nat)]
    /\ st \in [0 .. m -> Nat] /\ st[0] = 0
    /\ \A j \in 1 .. m : st[j] = st[j - 1] + Len(P[j])

\* b is made of the first k pieces.
Held(b, k, st, P) ==
    /\ b \in Seq(Nat) /\ Len(b) = st[k]
    /\ \A j \in 1 .. k : \A x \in 1 .. Len(P[j]) : b[st[j - 1] + x] = P[j][x]

LEMMA LayoutExists ==
    ASSUME NEW m \in Nat, NEW P \in [1 .. m -> Seq(Nat)]
    PROVE  \E st : Layout(st, m, P)
<1> DEFINE S == [x \in Nat \X Nat |->
                   IF x[1] \in 1 .. m THEN x[2] + Len(P[x[1]]) ELSE 0]
<1>1. S \in [Nat \X Nat -> Nat]
  <2>1. \A j \in 1 .. m : Len(P[j]) \in Nat
    BY LenProperties
  <2> QED
    BY <2>1
<1>2. \A j \in 1 .. m, y \in Nat : S[<<j, y>>] = y + Len(P[j])
  OBVIOUS
<1> HIDE DEF S
<1>3. PICK st : Solves(st, m, Nat, 0, S)
  BY <1>1, Solution
<1>4. \A j \in 1 .. m : st[j] = st[j - 1] + Len(P[j])
  <2> TAKE j \in 1 .. m
  <2>1. st[j] = S[<<j, st[j - 1]>>] /\ st[j - 1] \in Nat
    BY <1>3 DEF Solves
  <2> QED
    BY <1>2, <2>1
<1>5. Layout(st, m, P)
  BY <1>3, <1>4 DEF Layout, Solves
<1> QED
  BY <1>5

\* Pieces that come first start first.
LEMMA Ascending ==
    ASSUME NEW st, NEW m, NEW P, Layout(st, m, P), NEW k \in 0 .. m, NEW j \in 0 .. k
    PROVE  st[j] <= st[k] /\ st[j] \in Nat /\ st[k] \in Nat
<1> DEFINE T == {y \in 0 .. k : j <= y => st[j] <= st[y]}
<1>1. k \in Nat /\ \A y \in 0 .. k : y \in 0 .. m /\ st[y] \in Nat
  BY DEF Layout
<1>2. 0 \in T
  BY <1>1
<1>3. ASSUME NEW y \in 1 .. k, y - 1 \in T
      PROVE  y \in T
  <2>1. y \in 1 .. m /\ y \in 0 .. k /\ y - 1 \in 0 .. k
    BY <1>1
  <2>2. st[y] = st[y - 1] + Len(P[y]) /\ Len(P[y]) \in Nat
    BY <2>1, LenProperties DEF Layout
  <2> QED
    BY <1>1, <1>3, <2>1, <2>2
<1>4. \A y \in 0 .. k : y \in T
  <2> HIDE DEF T
  <2> QED
    BY <1>1, <1>2, <1>3, Induction
<1> QED
  BY <1>1, <1>4

\* No fewer bytes than pieces, if none is empty.
LEMMA LayoutBound ==
    ASSUME NEW st, NEW m, NEW P, Layout(st, m, P), NEW k \in 0 .. m,
           \A j \in 1 .. k : Len(P[j]) >= 1
    PROVE  k <= st[k]
<1> DEFINE T == {y \in 0 .. k : y <= st[y]}
<1>1. k \in Nat /\ \A y \in 0 .. k : y \in 0 .. m /\ st[y] \in Nat
  BY DEF Layout
<1>2. 0 \in T
  BY <1>1 DEF Layout
<1>3. ASSUME NEW y \in 1 .. k, y - 1 \in T
      PROVE  y \in T
  <2>1. y \in 1 .. m /\ y \in 0 .. k /\ y - 1 \in 0 .. k /\ y - 1 <= st[y - 1]
    BY <1>1, <1>3
  <2>2. st[y] = st[y - 1] + Len(P[y]) /\ Len(P[y]) \in Nat /\ Len(P[y]) >= 1
    BY <2>1, LenProperties DEF Layout
  <2>3. y <= st[y]
    BY <1>1, <2>1, <2>2
  <2> QED
    BY <2>1, <2>3
<1>4. \A y \in 0 .. k : y \in T
  <2> HIDE DEF T
  <2> QED
    BY <1>1, <1>2, <1>3, Induction
<1> QED
  BY <1>4

\* Where the bytes of a piece are.
LEMMA PieceInside ==
    ASSUME NEW st, NEW m, NEW P, Layout(st, m, P), NEW k \in 0 .. m,
           NEW j \in 1 .. k, NEW x \in 1 .. Len(P[j])
    PROVE  st[j - 1] + x \in 1 .. st[k] /\ st[j - 1] \in Nat
<1>1. j \in 1 .. m /\ j - 1 \in 0 .. m /\ j \in 0 .. k /\ k \in Nat
  BY DEF Layout
<1>2. st[j] = st[j - 1] + Len(P[j]) /\ Len(P[j]) \in Nat /\ st[j - 1] \in Nat
  BY <1>1, LenProperties DEF Layout
<1>3. st[j] <= st[k] /\ st[k] \in Nat
  BY <1>1, Ascending
<1> QED
  BY <1>2, <1>3

LEMMA PushHeld ==
    ASSUME NEW st, NEW m, NEW P, Layout(st, m, P), NEW k \in 0 .. m - 1, NEW b,
           Held(b, k, st, P)
    PROVE  Held(b \o P[k + 1], k + 1, st, P)
<1>1. m \in Nat /\ k \in 0 .. m /\ k + 1 \in 1 .. m /\ (k + 1) - 1 = k
      /\ b \in Seq(Nat) /\ P[k + 1] \in Seq(Nat)
  BY DEF Layout, Held
<1>2. PICK c \in Seq(Nat) : c = P[k + 1]
  BY <1>1
<1>3. /\ b \o c \in Seq(Nat) /\ Len(b \o c) = Len(b) + Len(c)
      /\ Len(b) \in Nat /\ Len(c) \in Nat /\ Len(b) = st[k]
      /\ \A y \in 1 .. Len(b) + Len(c) :
            (b \o c)[y] = IF y <= Len(b) THEN b[y] ELSE c[y - Len(b)]
  BY <1>1, ConcatProperties, LenProperties DEF Held
<1>4. st[k + 1] = st[k] + Len(c)
  BY <1>1, <1>2 DEF Layout
<1> HIDE <1>2
<1>5. ASSUME NEW j \in 1 .. k + 1, NEW x \in 1 .. Len(P[j])
      PROVE  (b \o c)[st[j - 1] + x] = P[j][x]
  <2>1. CASE j = k + 1
    <3>1. st[j - 1] = Len(b) /\ P[j] = c /\ x \in 1 .. Len(c)
      BY <1>1, <1>2, <1>3, <2>1
    <3>2. PICK l \in Nat, n \in Nat : l = Len(b) /\ n = Len(c) /\ x \in 1 .. n
      BY <1>3, <3>1
    <3>3. l + x \in 1 .. l + n /\ ~(l + x <= l) /\ (l + x) - l = x
      BY <3>2
    <3>4. (b \o c)[l + x] = c[x]
      BY <1>3, <3>2, <3>3
    <3> QED
      BY <3>1, <3>2, <3>4
  <2>2. CASE j # k + 1
    <3>1. j \in 1 .. k
      BY <1>1, <2>2
    <3>2. st[j - 1] + x \in 1 .. Len(b)
      BY <1>1, <1>3, <3>1, PieceInside
    <3>3. b[st[j - 1] + x] = P[j][x]
      BY <3>1 DEF Held
    <3> QED
      BY <1>3, <3>2, <3>3
  <2> QED
    BY <2>1, <2>2
<1> QED
  BY <1>1, <1>2, <1>3, <1>4, <1>5 DEF Held

\* A part of b that has the elements of c is c.
LEMMA SubSeqIs ==
    ASSUME NEW b \in Seq(Nat), NEW c \in Seq(Nat), NEW a \in Nat,
           a + Len(c) <= Len(b), \A x \in 1 .. Len(c) : b[a + x] = c[x]
    PROVE  SubSeq(b, a + 1, a + Len(c)) = c
<1>1. PICK n \in Nat : n = Len(c) /\ a + n <= Len(b) /\ Len(b) \in Nat
  BY LenProperties
<1>2. \A y \in a + 1 .. a + n : b[y] \in Nat
  <2>1. \A y \in 1 .. Len(b) : b[y] \in Nat
    BY ElementOfSeq
  <2> QED
    BY <1>1, <2>1
<1>3. /\ SubSeq(b, a + 1, a + n) \in Seq(Nat)
      /\ Len(SubSeq(b, a + 1, a + n)) = n
      /\ \A x \in 1 .. n : SubSeq(b, a + 1, a + n)[x] = b[a + x]
  <2>1. PICK p \in Int, q \in Int : p = a + 1 /\ q = a + n
    OBVIOUS
  <2>2. \A y \in p .. q : b[y] \in Nat
    BY <1>2, <2>1
  <2>3. /\ SubSeq(b, p, q) \in Seq(Nat)
        /\ Len(SubSeq(b, p, q)) = IF p <= q THEN q - p + 1 ELSE 0
        /\ \A x \in 1 .. q - p + 1 : SubSeq(b, p, q)[x] = b[p + x - 1]
    BY <2>2, SubSeqProperties
  <2>4. q - p + 1 = n /\ (p <= q <=> n # 0) /\ \A x \in 1 .. n : p + x - 1 = a + x
    BY <2>1
  <2> HIDE <2>1
  <2>5. /\ SubSeq(b, p, q) \in Seq(Nat) /\ Len(SubSeq(b, p, q)) = n
        /\ \A x \in 1 .. n : SubSeq(b, p, q)[x] = b[a + x]
    BY <2>3, <2>4
  <2> QED
    BY <2>1, <2>5
<1>4. PICK s \in Seq(Nat) : s = SubSeq(b, a + 1, a + n)
  BY <1>3
<1>5. Len(s) = Len(c) /\ \A x \in 1 .. Len(s) : s[x] = c[x]
  BY <1>1, <1>3, <1>4
<1>6. s = c
  BY <1>5, SeqEqual
<1> QED
  BY <1>1, <1>4, <1>6

LEMMA ReadHeld ==
    ASSUME NEW st, NEW m, NEW P, Layout(st, m, P), NEW k \in 0 .. m, NEW b,
           Held(b, k, st, P), NEW j \in 1 .. k
    PROVE  /\ st[j - 1] + Len(P[j]) = st[j] /\ st[j] <= Len(b)
           /\ st[j - 1] \in Nat /\ Len(P[j]) \in Nat
           /\ SubSeq(b, st[j - 1] + 1, st[j - 1] + Len(P[j])) = P[j]
<1>1. /\ j \in 1 .. m /\ j \in 0 .. k /\ j - 1 \in 0 .. m /\ k \in Nat
      /\ P[j] \in Seq(Nat) /\ b \in Seq(Nat) /\ Len(b) = st[k] /\ Len(b) \in Nat
  BY LenProperties DEF Layout, Held
<1>2. /\ st[j] = st[j - 1] + Len(P[j]) /\ Len(P[j]) \in Nat /\ st[j - 1] \in Nat
      /\ st[j] <= Len(b)
  BY <1>1, LenProperties, Ascending DEF Layout
<1>3. PICK a \in Nat, c \in Seq(Nat) : a = st[j - 1] /\ c = P[j]
  BY <1>1, <1>2
<1>4. a + Len(c) <= Len(b) /\ \A x \in 1 .. Len(c) : b[a + x] = c[x]
  BY <1>2, <1>3 DEF Held
<1>5. SubSeq(b, a + 1, a + Len(c)) = c
  BY <1>1, <1>4, SubSeqIs
<1> QED
  BY <1>2, <1>3, <1>5

LEMMA PopHeld ==
    ASSUME NEW st, NEW m, NEW P, Layout(st, m, P), NEW k \in 1 .. m, NEW b,
           Held(b, k, st, P)
    PROVE  Held(SubSeq(b, 1, st[k - 1]), k - 1, st, P)
<1>1. /\ m \in Nat /\ k - 1 \in 0 .. m /\ k - 1 \in 0 .. k /\ k \in 0 .. m
      /\ b \in Seq(Nat) /\ Len(b) = st[k] /\ Len(b) \in Nat
  BY LenProperties DEF Layout, Held
<1>2. st[k - 1] <= Len(b) /\ st[k - 1] \in Nat
  BY <1>1, Ascending
<1>3. PICK a \in Nat : a = st[k - 1]
  BY <1>2
<1>4. \A y \in 1 .. a : b[y] \in Nat
  <2>1. \A y \in 1 .. Len(b) : b[y] \in Nat
    BY <1>1, ElementOfSeq
  <2> QED
    BY <1>1, <1>2, <1>3, <2>1
<1>5. /\ SubSeq(b, 1, a) \in Seq(Nat) /\ Len(SubSeq(b, 1, a)) = a
      /\ \A x \in 1 .. a : SubSeq(b, 1, a)[x] = b[x]
  <2>1. /\ SubSeq(b, 1, a) \in Seq(Nat)
        /\ Len(SubSeq(b, 1, a)) = IF 1 <= a THEN a - 1 + 1 ELSE 0
        /\ \A x \in 1 .. a - 1 + 1 : SubSeq(b, 1, a)[x] = b[1 + x - 1]
    BY <1>4, SubSeqProperties
  <2>2. a - 1 + 1 = a /\ \A x \in 1 .. a : 1 + x - 1 = x
    OBVIOUS
  <2> QED
    BY <2>1, <2>2
<1>6. ASSUME NEW j \in 1 .. k - 1, NEW x \in 1 .. Len(P[j])
      PROVE  SubSeq(b, 1, a)[st[j - 1] + x] = P[j][x]
  <2>1. j \in 1 .. k /\ b[st[j - 1] + x] = P[j][x]
    BY <1>1 DEF Held
  <2>2. st[j - 1] + x \in 1 .. a
    BY <1>1, <1>3, PieceInside
  <2> QED
    BY <1>5, <2>1, <2>2
<1> QED
  BY <1>3, <1>5, <1>6 DEF Held

-----------------------------------------------------------------------------
(***************************************************************************)
(* The pieces of the message of a batch, and the invariant.                *)
(***************************************************************************)
Field == {"lines", "lines_found", "total_matches", "search_id", "task_id"}
N == Len(batch.lines)
BatchOK == batch \in ChunkResult /\ batch.lines_found = N /\ Fits(batch)

Pieces ==
    [j \in 1 .. N + 4 |->
       IF j <= N THEN Encode(Len(batch.lines[j]), W32) \o batch.lines[j]
       ELSE Encode(batch[Pushed[j - N]], Width(Pushed[j - N]))]
Start == CHOOSE st : Layout(st, N + 4, Pieces)

\* The batch, but only its first k lines.
Part(k) == [f \in Field |-> IF f = "lines" THEN SubSeq(batch.lines, 1, k) ELSE batch[f]]

\* The body is built up piece by piece, taken apart from its end as far as the
\* numbers go, and read from its front as far as the lines go.
CodecInv ==
    /\ BatchOK
    /\ step \in {"serialize", "push", "pop", "lines", "done"}
    /\ step = "serialize" =>
          i \in 0 .. N /\ Held(body, i, Start, Pieces) /\ result = NoResult /\ offset = 0
    /\ step = "push" =>
          /\ i \in 0 .. 4 /\ Held(body, N + i, Start, Pieces) /\ size = Len(body)
          /\ result = NoResult /\ offset = 0
    /\ step = "pop" =>
          /\ i \in 0 .. 4 /\ Held(body, N + 4 - i, Start, Pieces) /\ offset = 0
          /\ result = [f \in Field |-> result[f]] /\ result["lines"] = <<>>
          /\ \A k \in 1 .. 4 : k > 4 - i => result[Pushed[k]] = batch[Pushed[k]]
    /\ step = "lines" =>
          /\ i \in 0 .. N /\ Held(body, N, Start, Pieces)
          /\ offset = Start[i] /\ result = Part(i)
    /\ step = "done" => offset = Len(body) /\ result = batch

\* The fields of a batch.
LEMMA BatchIs ==
    ASSUME BatchOK
    PROVE  /\ N \in 0 .. MaxLines
           /\ batch = [f \in Field |-> batch[f]] /\ batch["lines_found"] = N
           /\ \A f \in {"total_matches", "search_id", "task_id"} : batch[f] \in Numbers
           /\ batch.lines \in Seq(Seq(Nat))
           /\ \A j \in 1 .. N : /\ batch.lines[j] \in Seq(Nat)
                                /\ Len(batch.lines[j]) \in Nat
<1>1. PICK n \in 0 .. MaxLines : batch.lines \in [1 .. n -> Line]
  BY DEF BatchOK, ChunkResult, SeqOf
<1>2. n = N /\ n \in Nat
  BY <1>1, CodecAssumption DEF N
<1>3. ASSUME NEW line \in Line
      PROVE  line \in Seq(Nat) /\ Len(line) \in Nat
  <2>1. PICK l \in LineLengths : line \in [1 .. l -> Chars]
    BY DEF Line
  <2>2. l \in Nat /\ \A c \in Chars : c \in Nat
    BY CodecAssumption DEF Byte
  <2>3. line \in [1 .. l -> Nat]
    BY <2>1, <2>2
  <2> QED
    BY <2>2, <2>3
<1>4. batch.lines \in [1 .. n -> Seq(Nat)]
  BY <1>1, <1>3
<1>5. batch.lines \in Seq(Seq(Nat))
  BY <1>2, <1>4
<1>6. \A j \in 1 .. N : Len(batch.lines[j]) \in Nat
  BY <1>1, <1>2, <1>3
<1>7. /\ batch = [f \in Field |-> batch[f]] /\ batch["lines_found"] = N
      /\ \A f \in {"total_matches", "search_id", "task_id"} : batch[f] \in Numbers
  BY DEF BatchOK, ChunkResult, Field
<1> QED
  BY <1>1, <1>2, <1>4, <1>5, <1>6, <1>7

\* The pieces of the numbers.
LEMMA NumbersAre ==
    ASSUME BatchOK, NEW k \in 1 .. 4
    PROVE  /\ Width(Pushed[k]) \in Nat \ {0} /\ batch[Pushed[k]] \in Nat
           /\ Pushed[k] \in Field \ {"lines"}
           /\ Pieces[N + k] = Encode(batch[Pushed[k]], Width(Pushed[k]))
           /\ Width(Pushed[k]) = IF k = 1 THEN W32 ELSE W64
           /\ k = 1 => batch[Pushed[k]] = N
           /\ k # 1 => batch[Pushed[k]] \in 0 .. Power[W64] - 1
<1>1. N \in Nat
  BY BatchIs
<1>2. /\ Pushed[1] = "lines_found" /\ Pushed[2] = "total_matches"
      /\ Pushed[3] = "search_id" /\ Pushed[4] = "task_id"
  BY DEF Pushed
<1>3. k = 1 \/ k = 2 \/ k = 3 \/ k = 4
  OBVIOUS
<1>4. Width(Pushed[k]) = IF k = 1 THEN W32 ELSE W64
  BY <1>2, <1>3 DEF Width
<1>5. Width(Pushed[k]) \in Nat \ {0}
  BY <1>4, CodecAssumption
<1>6. k = 1 => batch[Pushed[k]] = N
  BY <1>2, BatchIs
<1>7. k # 1 => batch[Pushed[k]] \in 0 .. Power[W64] - 1
  <2> SUFFICES ASSUME k # 1
               PROVE  batch[Pushed[k]] \in 0 .. Power[W64] - 1
    OBVIOUS
  <2>1. batch[Pushed[k]] \in Numbers
    BY <1>2, <1>3, BatchIs
  <2> QED
    BY <2>1, CodecAssumption
<1>8. Pushed[k] \in Field \ {"lines"}
  BY <1>2, <1>3 DEF Field
<1>9. Pieces[N + k] = Encode(batch[Pushed[k]], Width(Pushed[k]))
  <2>1. N + k \in 1 .. N + 4 /\ ~(N + k <= N) /\ (N + k) - N = k
    BY <1>1
  <2> QED
    BY <2>1 DEF Pieces
<1>10. batch[Pushed[k]] \in Nat
  BY <1>1, <1>6, <1>7
<1> QED
  BY <1>4, <1>5, <1>6, <1>7, <1>8, <1>9, <1>10

LEMMA LinesAre ==
    ASSUME BatchOK, NEW j \in 1 .. N
    PROVE  /\ Pieces[j] = Encode(Len(batch.lines[j]), W32) \o batch.lines[j]
           /\ Encode(Len(batch.lines[j]), W32) \in Seq(Nat)
           /\ Len(Encode(Len(batch.lines[j]), W32)) = W32 /\ W32 \in Nat
           /\ batch.lines[j] \in Seq(Nat) /\ Len(batch.lines[j]) \in Nat
           /\ Pieces[j] \in Seq(Nat) /\ Len(Pieces[j]) = W32 + Len(batch.lines[j])
<1>1. /\ N \in Nat /\ batch.lines[j] \in Seq(Nat) /\ W32 \in Nat
      /\ Len(batch.lines[j]) \in Nat
  BY BatchIs, CodecAssumption
<1>2. Pieces[j] = Encode(Len(batch.lines[j]), W32) \o batch.lines[j]
  <2>1. j \in 1 .. N + 4 /\ j <= N
    BY <1>1
  <2> QED
    BY <2>1 DEF Pieces
<1>3. PICK e \in Seq(Nat), line \in Seq(Nat) :
         /\ e = Encode(Len(batch.lines[j]), W32) /\ line = batch.lines[j]
         /\ Len(e) = W32
  <2>1. Len(batch.lines[j]) \in Nat /\ Byte \subseteq Nat
    BY <1>1, CodecAssumption DEF Byte
  <2>2. Encode(Len(batch.lines[j]), W32) \in Seq(Byte)
        /\ Len(Encode(Len(batch.lines[j]), W32)) = W32
    BY <1>1, <2>1, Encoded
  <2>3. Encode(Len(batch.lines[j]), W32) \in Seq(Nat)
    BY <2>1, <2>2, SeqMonotonic
  <2> QED
    BY <1>1, <2>2, <2>3
<1>4. e \o line \in Seq(Nat) /\ Len(e \o line) = Len(e) + Len(line)
  BY ConcatProperties
<1> QED
  BY <1>1, <1>2, <1>3, <1>4

\* Where the lines end, as Fits counts it.
LEMMA LengthIs ==
    ASSUME NEW lines, NEW n \in Nat, n = Len(lines), NEW st, st[0] = 0,
           \A k \in 0 .. n : st[k] \in Nat,
           \A k \in 1 .. n : st[k] = st[k - 1] + (W32 + Len(lines[k]))
    PROVE  LinesLength(lines)[n] = st[n]
<1> DEFINE g == [k \in 0 .. n |-> st[k]]
           Fix(f) == f = [k \in 0 .. n |->
                            IF k = 0 THEN 0 ELSE f[k - 1] + (W32 + Len(lines[k]))]
           h == LinesLength(lines)
           T == {k \in 0 .. n : h[k] = st[k]}
<1>1. Fix(g)
  <2>1. \A k \in 0 .. n :
           g[k] = IF k = 0 THEN 0 ELSE g[k - 1] + (W32 + Len(lines[k]))
    <3> TAKE k \in 0 .. n
    <3>1. CASE k = 0
      BY <3>1
    <3>2. CASE k # 0
      <4>1. k \in 1 .. n /\ k - 1 \in 0 .. n
        BY <3>2
      <4>2. g[k] = st[k] /\ g[k - 1] = st[k - 1]
        BY <4>1
      <4> QED
        BY <3>2, <4>1, <4>2
    <3> QED
      BY <3>1, <3>2
  <2> QED
    BY <2>1
<1>2. Fix(h)
  <2> HIDE DEF g
  <2> QED
    BY <1>1, Zenon DEF LinesLength
<1>3. h[0] = 0 /\ \A k \in 1 .. n : h[k] = h[k - 1] + (W32 + Len(lines[k]))
  <2>1. PICK f : f = h /\ Fix(f)
    BY <1>2
  <2>2. \A k \in 0 .. n : f[k] = IF k = 0 THEN 0 ELSE f[k - 1] + (W32 + Len(lines[k]))
    BY <2>1
  <2>3. 0 \in 0 .. n /\ \A k \in 1 .. n : k \in 0 .. n /\ k # 0
    OBVIOUS
  <2> QED
    BY <2>1, <2>2, <2>3
<1> HIDE DEF h
<1>4. 0 \in T
  BY <1>3
<1>5. ASSUME NEW k \in 1 .. n, k - 1 \in T
      PROVE  k \in T
  <2>1. k \in 0 .. n /\ h[k - 1] = st[k - 1]
    BY <1>5
  <2> QED
    BY <1>3, <2>1
<1>6. \A k \in 0 .. n : k \in T
  <2> HIDE DEF T
  <2> QED
    BY <1>4, <1>5, Induction
<1> QED
  BY <1>6 DEF h

LEMMA StartIs ==
    ASSUME BatchOK
    PROVE  /\ Layout(Start, N + 4, Pieces)
           /\ Start[N + 4] < Power[W32]
<1>1. N \in 0 .. MaxLines /\ N \in Nat /\ N + 4 \in Nat
  BY BatchIs
<1>2. ASSUME NEW j \in 1 .. N + 4
      PROVE  Pieces[j] \in Seq(Nat)
  <2>1. CASE j \in 1 .. N
    BY <2>1, LinesAre
  <2>2. CASE j \notin 1 .. N
    <3>1. j - N \in 1 .. 4 /\ N + (j - N) = j
      BY <1>1, <2>2
    <3>2. PICK k \in 1 .. 4 : k = j - N
      BY <3>1
    <3>3. Pieces[N + k] = Encode(batch[Pushed[k]], Width(Pushed[k]))
          /\ batch[Pushed[k]] \in Nat /\ Width(Pushed[k]) \in Nat
      BY NumbersAre
    <3>4. Pieces[N + k] \in Seq(Byte)
      <4>1. PICK v \in Nat, w \in Nat : v = batch[Pushed[k]] /\ w = Width(Pushed[k])
        BY <3>3
      <4>2. Encode(v, w) \in Seq(Byte)
        BY Encoded
      <4> QED
        BY <3>3, <4>1, <4>2
    <3>5. Byte \subseteq Nat
      BY CodecAssumption DEF Byte
    <3>6. Pieces[N + k] \in Seq(Nat)
      BY <3>4, <3>5, SeqMonotonic
    <3> QED
      BY <3>1, <3>2, <3>6
  <2> QED
    BY <2>1, <2>2
<1>3. Pieces \in [1 .. N + 4 -> Seq(Nat)]
  <2>1. Pieces = [j \in 1 .. N + 4 |-> Pieces[j]]
    BY DEF Pieces
  <2> QED
    BY <1>2, <2>1
<1>4. Layout(Start, N + 4, Pieces)
  <2>1. \E st : Layout(st, N + 4, Pieces)
    BY <1>1, <1>3, LayoutExists
  <2> QED
    BY <2>1, Zenon DEF Start
<1>5. ASSUME NEW k \in 1 .. 4
      PROVE  /\ Start[N + k] = Start[N + (k - 1)] + (IF k = 1 THEN W32 ELSE W64)
             /\ Start[N + (k - 1)] \in Nat
  <2>1. N + k \in 1 .. N + 4 /\ (N + k) - 1 = N + (k - 1) /\ N + (k - 1) \in 0 .. N + 4
    BY <1>1
  <2>2. Len(Pieces[N + k]) = IF k = 1 THEN W32 ELSE W64
    <3>1. /\ Pieces[N + k] = Encode(batch[Pushed[k]], Width(Pushed[k]))
          /\ batch[Pushed[k]] \in Nat /\ Width(Pushed[k]) \in Nat
          /\ Width(Pushed[k]) = IF k = 1 THEN W32 ELSE W64
      BY NumbersAre
    <3> QED
      BY <3>1, Encoded
  <2> QED
    BY <1>4, <2>1, <2>2 DEF Layout
<1>6. Start[N + 4] = Start[N] + W32 + 3 * W64 /\ Start[N] \in Nat
  <2>1. /\ Start[N + 1] = Start[N] + W32 /\ Start[N + 2] = Start[N + 1] + W64
        /\ Start[N + 3] = Start[N + 2] + W64 /\ Start[N + 4] = Start[N + 3] + W64
        /\ Start[N] \in Nat
    <3>1. N + (1 - 1) = N /\ 2 - 1 = 1 /\ 3 - 1 = 2 /\ 4 - 1 = 3
      BY <1>1
    <3> QED
      BY <1>5, <3>1
  <2> QED
    BY <2>1, CodecAssumption
<1>7. Start[N] = LinesLength(batch.lines)[N]
  <2>1. /\ Start[0] = 0 /\ \A k \in 0 .. N : Start[k] \in Nat
        /\ \A k \in 1 .. N : Start[k] = Start[k - 1] + (W32 + Len(batch.lines[k]))
    <3>1. \A k \in 1 .. N : k \in 1 .. N + 4 /\ Len(Pieces[k]) = W32 + Len(batch.lines[k])
      <4>1. \A k \in 1 .. N : k \in 1 .. N + 4
        BY <1>1
      <4>2. \A k \in 1 .. N : Len(Pieces[k]) = W32 + Len(batch.lines[k])
        BY LinesAre
      <4> QED
        BY <4>1, <4>2
    <3>2. Start[0] = 0 /\ \A k \in 0 .. N + 4 : Start[k] \in Nat
      BY <1>4 DEF Layout
    <3>3. \A k \in 1 .. N + 4 : Start[k] = Start[k - 1] + Len(Pieces[k])
      BY <1>4 DEF Layout
    <3> QED
      BY <1>1, <3>1, <3>2, <3>3
  <2> QED
    BY <1>1, <2>1, LengthIs DEF N
<1>8. Start[N + 4] < Power[W32]
  BY <1>6, <1>7, CodecAssumption DEF BatchOK, Fits, N
<1> QED
  BY <1>4, <1>8

\* What is written in 32 bits fits.
LEMMA Fitting ==
    ASSUME BatchOK
    PROVE  /\ \A j \in 1 .. N : Len(batch.lines[j]) \in 0 .. Power[W32] - 1
           /\ \A k \in 1 .. 4 : batch[Pushed[k]] \in 0 .. Power[Width(Pushed[k])] - 1
<1>1. /\ N \in Nat /\ N \in 0 .. N + 4 /\ N + 4 \in 0 .. N + 4
      /\ W32 \in Nat \ {0} /\ Power[W32] \in Nat
  <2>1. N \in Nat
    BY BatchIs
  <2>2. W32 \in Nat \ {0} /\ Power[W32] \in Nat
    BY CodecAssumption, PowerIs
  <2> QED
    BY <2>1, <2>2
<1>2. Layout(Start, N + 4, Pieces) /\ Start[N + 4] < Power[W32]
  BY StartIs
<1>3. ASSUME NEW j \in 1 .. N
      PROVE  Len(batch.lines[j]) \in 0 .. Power[W32] - 1
  <2>1. Len(Pieces[j]) = W32 + Len(batch.lines[j]) /\ Len(batch.lines[j]) \in Nat
    BY LinesAre
  <2>2. j \in 1 .. N + 4 /\ j \in 0 .. N + 4 /\ j - 1 \in 0 .. N + 4
    BY <1>1
  <2>3. Start[j] = Start[j - 1] + Len(Pieces[j]) /\ Start[j - 1] \in Nat
    BY <1>2, <2>2 DEF Layout
  <2>4. Start[j] <= Start[N + 4] /\ Start[j] \in Nat /\ Start[N + 4] \in Nat
    BY <1>1, <1>2, <2>2, Ascending
  <2>5. PICK l \in Nat : l = Len(batch.lines[j])
    BY <2>1
  <2>6. Start[j] = Start[j - 1] + (W32 + l)
    BY <2>1, <2>3, <2>5
  <2>7. l \in 0 .. Power[W32] - 1
    BY <1>1, <1>2, <2>3, <2>4, <2>6
  <2> QED
    BY <2>5, <2>7
<1>4. N \in 0 .. Power[W32] - 1
  <2>1. \A j \in 1 .. N : Len(Pieces[j]) >= 1
    <3> TAKE j \in 1 .. N
    <3>1. PICK l \in Nat : Len(Pieces[j]) = W32 + l
      BY LinesAre
    <3> QED
      BY <1>1, <3>1
  <2>2. N <= Start[N]
    BY <1>1, <1>2, <2>1, LayoutBound
  <2>3. Start[N] <= Start[N + 4] /\ Start[N] \in Nat /\ Start[N + 4] \in Nat
    BY <1>1, <1>2, Ascending
  <2> QED
    BY <1>1, <1>2, <2>2, <2>3
<1>5. ASSUME NEW k \in 1 .. 4
      PROVE  batch[Pushed[k]] \in 0 .. Power[Width(Pushed[k])] - 1
  BY <1>4, NumbersAre
<1> QED
  BY <1>3, <1>5

-----------------------------------------------------------------------------
(***************************************************************************)
(* Initially, and what the reading steps find.                             *)
(***************************************************************************)
LEMMA InitCodecInv == Init => CodecInv
<1> SUFFICES ASSUME Init
             PROVE  CodecInv
  OBVIOUS
<1>1. BatchOK
  BY DEF Init, BatchOK, N
<1>2. Layout(Start, N + 4, Pieces)
  BY <1>1, StartIs
<1>3. N \in Nat
  BY <1>1, BatchIs
<1>4. Held(body, 0, Start, Pieces)
  <2>1. body = <<>> /\ Start[0] = 0
    BY <1>2 DEF Init, Layout
  <2>2. body \in Seq(Nat) /\ Len(body) = 0
    BY <2>1, EmptySeq
  <2> QED
    BY <2>1, <2>2 DEF Held
<1> QED
  BY <1>1, <1>3, <1>4 DEF Init, CodecInv

\* A body of some of the pieces is as long as its size says.
LEMMA SizeIs ==
    ASSUME BatchOK, NEW k \in 0 .. N + 4, NEW b, Held(b, k, Start, Pieces)
    PROVE  Size(b) = Len(b) /\ Len(b) \in Nat /\ Len(b) = Start[k]
<1>1. N \in Nat /\ N + 4 \in 0 .. N + 4
  BY BatchIs
<1>2. Start[k] <= Start[N + 4] /\ Start[k] \in Nat /\ Start[N + 4] \in Nat
  BY <1>1, StartIs, Ascending
<1>3. Len(b) = Start[k]
  BY DEF Held
<1>4. PICK p \in Nat \ {0}, l \in Nat : p = Power[W32] /\ l = Len(b)
  BY <1>2, <1>3, PowerIs, CodecAssumption
<1>5. l \in 0 .. p - 1 /\ l = p * 0 + l
  BY <1>2, <1>3, <1>4, StartIs
<1>6. l % p = l
  BY <1>5, DivisionUnique
<1> QED
  BY <1>2, <1>3, <1>4, <1>6 DEF Size

\* A pop finds the number that was pushed in its place.
LEMMA PopIs ==
    ASSUME CodecInv, step = "pop", i < 4
    PROVE  LET field == Popped[i + 1]
               start == Len(body) - Width(field)
           IN  /\ field = Pushed[4 - i] /\ 4 - i \in 1 .. 4
               /\ start = Start[N + 4 - i - 1] /\ start \in Nat
               /\ Decode(SubSeq(body, start + 1, Len(body))) = batch[field]
<1> DEFINE k == 4 - i
<1>1. BatchOK /\ i \in 0 .. 3 /\ k \in 1 .. 4 /\ N \in Nat
  BY BatchIs DEF CodecInv
<1>2. Popped[i + 1] = Pushed[k]
  <2>1. i = 0 \/ i = 1 \/ i = 2 \/ i = 3
    BY <1>1
  <2> QED
    BY <2>1 DEF Popped, Pushed
<1>3. Held(body, N + k, Start, Pieces)
  <2>1. N + 4 - i = N + k
    BY <1>1
  <2> QED
    BY <2>1 DEF CodecInv
<1> HIDE DEF k
<1>4. PICK v \in Nat, w \in Nat :
         /\ v = batch[Pushed[k]] /\ w = Width(Pushed[k])
         /\ v \in 0 .. Power[w] - 1 /\ Pieces[N + k] = Encode(v, w)
  <2>1. /\ batch[Pushed[k]] \in Nat /\ Width(Pushed[k]) \in Nat
        /\ Pieces[N + k] = Encode(batch[Pushed[k]], Width(Pushed[k]))
    BY <1>1, NumbersAre
  <2>2. batch[Pushed[k]] \in 0 .. Power[Width(Pushed[k])] - 1
    BY <1>1, Fitting
  <2> QED
    BY <2>1, <2>2
<1>5. Len(Pieces[N + k]) = w
  <2>1. Len(Encode(v, w)) = w
    BY Encoded
  <2> QED
    BY <1>4, <2>1
<1>6. /\ Start[N + k - 1] + w = Start[N + k] /\ Start[N + k - 1] \in Nat
      /\ SubSeq(body, Start[N + k - 1] + 1, Start[N + k - 1] + w) = Encode(v, w)
  <2>1. N + k \in 0 .. N + 4 /\ N + k \in 1 .. N + k
    BY <1>1
  <2> QED
    BY <1>1, <1>3, <1>4, <1>5, <2>1, StartIs, ReadHeld
<1>7. Len(body) = Start[N + k]
  BY <1>3 DEF Held
<1>8. Len(body) - w = Start[N + k - 1] /\ Start[N + k - 1] + w = Len(body)
  BY <1>6, <1>7
<1>9. Decode(Encode(v, w)) = v
  BY <1>4, DecodeEncode
<1>10. N + 4 - i - 1 = N + k - 1
  BY <1>1 DEF k
<1> QED
  BY <1>1, <1>2, <1>4, <1>6, <1>8, <1>9, <1>10 DEF k

\* A line is read where it is, as long as it is.
LEMMA LineIs ==
    ASSUME CodecInv, step = "lines", i < N
    PROVE  LET from == offset + W32
               next == from + LengthAt(offset)
           IN  /\ offset \in Nat /\ W32 \in Nat /\ LengthAt(offset) \in Nat
               /\ next = Start[i + 1] /\ next <= Len(body) /\ Len(body) \in Nat
               /\ SubSeq(body, from + 1, next) = batch.lines[i + 1]
<1> DEFINE j == i + 1
<1>1. /\ BatchOK /\ N \in Nat /\ i \in 0 .. N /\ j \in 1 .. N /\ j - 1 = i
      /\ Held(body, N, Start, Pieces) /\ offset = Start[j - 1] /\ N \in 0 .. N + 4
  BY BatchIs DEF CodecInv
<1> HIDE DEF j
<1>2. PICK e \in Seq(Nat), line \in Seq(Nat) :
         /\ line = batch.lines[j] /\ e = Encode(Len(line), W32) /\ Len(e) = W32
         /\ Pieces[j] = e \o line /\ W32 \in Nat /\ Len(line) \in Nat
  BY <1>1, LinesAre
<1>3. /\ Len(e \o line) = Len(e) + Len(line)
      /\ \A x \in 1 .. Len(e) + Len(line) :
            (e \o line)[x] = IF x <= Len(e) THEN e[x] ELSE line[x - Len(e)]
  BY ConcatProperties
<1>4. /\ Start[j - 1] \in Nat /\ Start[j] <= Len(body)
      /\ Start[j - 1] + Len(Pieces[j]) = Start[j]
  <2>1. Layout(Start, N + 4, Pieces)
    BY <1>1, StartIs
  <2>2. PICK m : m = N + 4 /\ N \in 0 .. m /\ Layout(Start, m, Pieces)
    BY <1>1, <2>1
  <2> QED
    BY <1>1, <2>2, ReadHeld, SMTT(40)
<1>5. PICK a \in Nat : a = offset
  BY <1>1, <1>4
<1>6. /\ a + (W32 + Len(line)) = Start[j] /\ Start[j] <= Len(body)
      /\ body \in Seq(Nat) /\ Len(body) \in Nat
  <2>1. body \in Seq(Nat)
    BY <1>1 DEF Held
  <2>2. Len(body) \in Nat
    BY <2>1, LenProperties
  <2>3. Len(Pieces[j]) = W32 + Len(line)
    BY <1>2, <1>3
  <2> QED
    BY <1>1, <1>4, <1>5, <2>1, <2>2, <2>3
<1>7. \A x \in 1 .. W32 + Len(line) :
         body[a + x] = IF x <= W32 THEN e[x] ELSE line[x - W32]
  <2>1. \A x \in 1 .. Len(Pieces[j]) : body[Start[j - 1] + x] = Pieces[j][x]
    BY <1>1 DEF Held
  <2>2. Len(Pieces[j]) = W32 + Len(line) /\ a = Start[j - 1]
    BY <1>1, <1>2, <1>3, <1>5
  <2>3. \A x \in 1 .. W32 + Len(line) :
           Pieces[j][x] = IF x <= W32 THEN e[x] ELSE line[x - W32]
    BY <1>2, <1>3
  <2> QED
    BY <2>1, <2>2, <2>3
<1>8. SubSeq(body, a + 1, a + W32) = e
  <2>1. a + Len(e) <= Len(body)
    BY <1>2, <1>6
  <2>2. \A x \in 1 .. Len(e) : body[a + x] = e[x]
    <3> TAKE x \in 1 .. Len(e)
    <3>1. x \in 1 .. W32 + Len(line) /\ x <= W32
      BY <1>2
    <3> QED
      BY <1>7, <3>1
  <2>3. SubSeq(body, a + 1, a + Len(e)) = e
    BY <1>6, <2>1, <2>2, SubSeqIs
  <2> QED
    BY <1>2, <2>3
<1>9. SubSeq(body, (a + W32) + 1, (a + W32) + Len(line)) = line
  <2>1. PICK c \in Nat : c = a + W32
    BY <1>2
  <2>2. c + Len(line) <= Len(body)
    <3>1. PICK l \in Nat : l = Len(line) /\ W32 \in Nat
      BY <1>2
    <3>2. a + (W32 + l) <= Len(body)
      BY <1>6, <3>1
    <3>3. c + l = a + (W32 + l)
      BY <2>1, <3>1
    <3> QED
      BY <3>1, <3>2, <3>3
  <2>3. \A x \in 1 .. Len(line) : body[c + x] = line[x]
    <3> TAKE x \in 1 .. Len(line)
    <3>1. /\ W32 + x \in 1 .. W32 + Len(line) /\ ~(W32 + x <= W32)
          /\ (W32 + x) - W32 = x /\ a + (W32 + x) = c + x
      BY <1>2, <2>1
    <3> QED
      BY <1>7, <3>1
  <2>4. SubSeq(body, c + 1, c + Len(line)) = line
    BY <1>6, <2>2, <2>3, SubSeqIs
  <2> QED
    BY <2>1, <2>4
<1>10. Len(line) \in 0 .. Power[W32] - 1
  BY <1>1, <1>2, Fitting
<1>11. LengthAt(offset) = Len(line)
  <2>1. Decode(Encode(Len(line), W32)) = Len(line)
    BY <1>2, <1>10, DecodeEncode
  <2> QED
    BY <1>2, <1>5, <1>8, <2>1 DEF LengthAt
<1>12. (a + W32) + Len(line) = Start[j]
  BY <1>2, <1>6
<1> QED
  BY <1>2, <1>5, <1>6, <1>9, <1>11, <1>12 DEF j

-----------------------------------------------------------------------------
(***************************************************************************)
(* Every step preserves the invariant.                                     *)
(***************************************************************************)
LEMMA Same ==
    ASSUME batch' = batch
    PROVE  /\ N' = N /\ Pieces' = Pieces /\ Start' = Start /\ BatchOK' = BatchOK
           /\ \A k : Part(k)' = Part(k)
<1>1. N' = N
  BY DEF N
<1>2. Pieces' = Pieces
  BY <1>1 DEF Pieces
<1>3. Start' = Start
  BY <1>1, <1>2 DEF Start
<1>4. BatchOK' = BatchOK
  BY <1>1 DEF BatchOK
<1>5. \A k : Part(k)' = Part(k)
  BY DEF Part
<1> QED
  BY <1>1, <1>2, <1>3, <1>4, <1>5

LEMMA BytesAssociative ==
    ASSUME NEW s \in Seq(Nat), NEW t \in Seq(Nat), NEW u \in Seq(Nat)
    PROVE  (s \o t) \o u = s \o (t \o u)
  BY ConcatAssociative, SMTT(40)

LEMMA SerializeLineInv == CodecInv /\ SerializeLine => CodecInv'
<1> SUFFICES ASSUME CodecInv, SerializeLine
             PROVE  CodecInv'
  OBVIOUS
<1>1. /\ BatchOK /\ N \in Nat /\ i \in 0 .. N - 1 /\ i + 1 \in 1 .. N /\ i + 1 \in 0 .. N
      /\ Held(body, i, Start, Pieces) /\ body \in Seq(Nat)
  BY BatchIs DEF CodecInv, SerializeLine, N, Held
<1>2. PICK e \in Seq(Nat), line \in Seq(Nat) :
         /\ line = batch.lines[i + 1] /\ e = Encode(Len(line), W32)
         /\ Pieces[i + 1] = e \o line
  BY <1>1, LinesAre
<1>3. body' = body \o Pieces[i + 1]
  <2>1. body' = (body \o e) \o line
    BY <1>2 DEF SerializeLine
  <2>2. (body \o e) \o line = body \o (e \o line)
    <3>1. PICK b \in Seq(Nat) : b = body
      BY <1>1
    <3>2. (b \o e) \o line = b \o (e \o line)
      BY BytesAssociative
    <3> QED
      BY <3>1, <3>2
  <2> QED
    BY <1>2, <2>1, <2>2
<1>4. Held(body', i + 1, Start, Pieces)
  <2>1. i \in 0 .. (N + 4) - 1
    BY <1>1
  <2> QED
    BY <1>1, <1>3, <2>1, StartIs, PushHeld
<1>5. batch' = batch /\ step' = "serialize" /\ i' = i + 1 /\ result' = NoResult /\ offset' = 0
  BY DEF SerializeLine, CodecInv
<1> QED
  BY <1>1, <1>4, <1>5, Same DEF CodecInv

LEMMA LinesSerializedInv == CodecInv /\ LinesSerialized => CodecInv'
<1> SUFFICES ASSUME CodecInv, LinesSerialized
             PROVE  CodecInv'
  OBVIOUS
<1>1. BatchOK /\ N \in Nat /\ i = N /\ Held(body, N, Start, Pieces)
  BY BatchIs DEF CodecInv, LinesSerialized, N
<1>2. N + 0 = N /\ N \in 0 .. N + 4
  BY <1>1
<1>3. Size(body) = Len(body)
  BY <1>1, <1>2, SizeIs
<1>4. /\ batch' = batch /\ step' = "push" /\ i' = 0 /\ body' = body
      /\ size' = Len(body) /\ result' = NoResult /\ offset' = 0
  BY <1>3 DEF LinesSerialized, CodecInv
<1> QED
  BY <1>1, <1>2, <1>4, Same DEF CodecInv

LEMMA PushInv == CodecInv /\ Push => CodecInv'
<1> SUFFICES ASSUME CodecInv, Push
             PROVE  CodecInv'
  OBVIOUS
<1>1. /\ BatchOK /\ N \in Nat /\ i \in 0 .. 3 /\ i + 1 \in 1 .. 4
      /\ Held(body, N + i, Start, Pieces)
  BY BatchIs DEF CodecInv, Push, Pushed
<1>2. /\ N + (i + 1) = (N + i) + 1 /\ N + i \in 0 .. (N + 4) - 1
      /\ N + (i + 1) \in 0 .. N + 4
  BY <1>1
<1>3. body' = body \o Pieces[(N + i) + 1]
  BY <1>1, <1>2, NumbersAre DEF Push
<1>4. Held(body', N + (i + 1), Start, Pieces)
  BY <1>1, <1>2, <1>3, StartIs, PushHeld
<1>5. size' = Len(body')
  <2>1. Size(body') = Len(body')
    BY <1>1, <1>2, <1>4, SizeIs
  <2> QED
    BY <2>1 DEF Push
<1>6. batch' = batch /\ step' = "push" /\ i' = i + 1 /\ result' = NoResult /\ offset' = 0
  BY DEF Push, CodecInv
<1> QED
  BY <1>1, <1>4, <1>5, <1>6, Same DEF CodecInv

LEMMA SendTaskDoneInv == CodecInv /\ SendTaskDone => CodecInv'
<1> SUFFICES ASSUME CodecInv, SendTaskDone
             PROVE  CodecInv'
  OBVIOUS
<1>1. /\ BatchOK /\ N \in Nat /\ Held(body, N + 4, Start, Pieces) /\ size = Len(body)
      /\ body \in Seq(Nat) /\ result = NoResult
  BY BatchIs DEF CodecInv, SendTaskDone, Pushed, Held
<1>2. body' = body
  BY <1>1, SubSeqFull DEF SendTaskDone
<1>3. NoResult = [f \in Field |-> NoResult[f]] /\ NoResult["lines"] = <<>>
  BY DEF NoResult, Field
<1>4. batch' = batch /\ step' = "pop" /\ i' = 0 /\ result' = NoResult /\ offset' = 0
  BY <1>1 DEF SendTaskDone, CodecInv
<1>5. N + 4 - 0 = N + 4
  BY <1>1
<1> QED
  BY <1>1, <1>2, <1>3, <1>4, <1>5, Same DEF CodecInv

LEMMA PopInv == CodecInv /\ Pop => CodecInv'
<1> SUFFICES ASSUME CodecInv, Pop
             PROVE  CodecInv'
  OBVIOUS
<1> DEFINE field == Popped[i + 1]
           start == Len(body) - Width(field)
<1>1. /\ BatchOK /\ N \in Nat /\ i \in 0 .. 3 /\ step = "pop" /\ i < 4
      /\ Held(body, N + 4 - i, Start, Pieces)
  BY BatchIs DEF CodecInv, Pop, Popped
<1>2. /\ field = Pushed[4 - i] /\ 4 - i \in 1 .. 4 /\ start = Start[N + 4 - i - 1]
      /\ Decode(SubSeq(body, start + 1, Len(body))) = batch[field]
  BY <1>1, PopIs
<1>3. /\ result' = [result EXCEPT ![field] = batch[field]]
      /\ body' = SubSeq(body, 1, Start[N + 4 - i - 1])
  BY <1>2 DEF Pop
<1> HIDE DEF field, start
<1>4. Held(body', N + 4 - (i + 1), Start, Pieces)
  <2>1. /\ N + 4 - i \in 1 .. N + 4 /\ (N + 4 - i) - 1 = N + 4 - (i + 1)
        /\ N + 4 - i - 1 = (N + 4 - i) - 1
    BY <1>1
  <2>2. PICK k \in 1 .. N + 4 : k = N + 4 - i
    BY <2>1
  <2>3. Held(SubSeq(body, 1, Start[k - 1]), k - 1, Start, Pieces)
    BY <1>1, <2>2, StartIs, PopHeld
  <2> QED
    BY <1>3, <2>1, <2>2, <2>3
<1>5. field \in Field \ {"lines"}
  BY <1>1, <1>2, NumbersAre
<1>6. /\ result' = [f \in Field |-> result'[f]] /\ result'["lines"] = <<>>
      /\ \A f \in Field : result'[f] = IF f = field THEN batch[field] ELSE result[f]
  <2>1. result = [f \in Field |-> result[f]] /\ result["lines"] = <<>> /\ "lines" \in Field
    BY <1>1 DEF CodecInv, Field
  <2> QED
    BY <1>3, <1>5, <2>1
<1>7. \A k \in 1 .. 4 : k > 4 - (i + 1) => result'[Pushed[k]] = batch[Pushed[k]]
  <2> SUFFICES ASSUME NEW k \in 1 .. 4, k > 4 - (i + 1)
               PROVE  result'[Pushed[k]] = batch[Pushed[k]]
    OBVIOUS
  <2>1. Pushed[k] \in Field
    BY <1>1, NumbersAre
  <2>2. CASE k = 4 - i
    BY <1>2, <1>6, <2>1, <2>2
  <2>3. CASE k # 4 - i
    <3>1. k > 4 - i
      BY <1>1, <2>3
    <3>2. result[Pushed[k]] = batch[Pushed[k]]
      BY <1>1, <3>1 DEF CodecInv
    <3> QED
      BY <1>6, <2>1, <3>2
  <2> QED
    BY <2>2, <2>3
<1>8. batch' = batch /\ step' = "pop" /\ i' = i + 1 /\ offset' = 0 /\ i + 1 \in 0 .. 4
  BY <1>1 DEF Pop, CodecInv
<1> QED
  BY <1>1, <1>4, <1>6, <1>7, <1>8, Same DEF CodecInv

LEMMA NumbersReadInv == CodecInv /\ NumbersRead => CodecInv'
<1> SUFFICES ASSUME CodecInv, NumbersRead
             PROVE  CodecInv'
  OBVIOUS
<1>1. /\ BatchOK /\ N \in Nat /\ i = 4 /\ Held(body, N + 4 - i, Start, Pieces)
      /\ result = [f \in Field |-> result[f]] /\ result["lines"] = <<>> /\ offset = 0
      /\ \A k \in 1 .. 4 : result[Pushed[k]] = batch[Pushed[k]]
  BY BatchIs DEF CodecInv, NumbersRead, Popped
<1>2. Held(body, N, Start, Pieces)
  <2>1. N + 4 - i = N
    BY <1>1
  <2> QED
    BY <1>1, <2>1
<1>3. result = Part(0)
  <2>1. SubSeq(batch.lines, 1, 0) = <<>>
    BY SubSeqEmpty
  <2>2. /\ Pushed[1] = "lines_found" /\ Pushed[2] = "total_matches"
        /\ Pushed[3] = "search_id" /\ Pushed[4] = "task_id"
    BY DEF Pushed
  <2>3. \A f \in Field : f # "lines" => result[f] = batch[f]
    BY <1>1, <2>2 DEF Field
  <2> QED
    BY <1>1, <2>1, <2>3 DEF Part
<1>4. Start[0] = 0
  BY <1>1, StartIs DEF Layout
<1>5. /\ batch' = batch /\ step' = "lines" /\ i' = 0 /\ body' = body
      /\ result' = result /\ offset' = Start[0]
  BY <1>1, <1>4 DEF NumbersRead
<1> QED
  BY <1>1, <1>2, <1>3, <1>5, Same DEF CodecInv

\* The Master counts as many lines as there are.
LEMMA FoundIs ==
    ASSUME CodecInv, step = "lines"
    PROVE  result.lines_found = N
<1>1. result = Part(i) /\ batch["lines_found"] = N
  BY BatchIs DEF CodecInv
<1> QED
  BY <1>1 DEF Part, Field

LEMMA ReadLineInv == CodecInv /\ ReadLine => CodecInv'
<1> SUFFICES ASSUME CodecInv, ReadLine
             PROVE  CodecInv'
  OBVIOUS
<1>1. /\ BatchOK /\ N \in Nat /\ i \in 0 .. N /\ step = "lines"
      /\ Held(body, N, Start, Pieces) /\ result = Part(i)
  BY BatchIs DEF CodecInv, ReadLine
<1>2. i < N /\ i + 1 \in 1 .. N
  BY <1>1, FoundIs DEF ReadLine
<1>3. /\ result' = [result EXCEPT !.lines = Append(@, batch.lines[i + 1])]
      /\ offset' = Start[i + 1]
  BY <1>1, <1>2, LineIs DEF ReadLine
<1>4. Append(SubSeq(batch.lines, 1, i), batch.lines[i + 1]) = SubSeq(batch.lines, 1, i + 1)
  <2>1. PICK ls \in Seq(Seq(Nat)) : ls = batch.lines /\ Len(ls) = N
    BY <1>1, BatchIs DEF N
  <2>2. PICK n \in 1 .. Len(ls) : n = i + 1 /\ n - 1 = i /\ 1 \in 1 .. Len(ls)
    BY <1>1, <1>2, <2>1
  <2>3. SubSeq(ls, 1, n) = SubSeq(ls, 1, n - 1) \o <<ls[n]>>
    BY <2>2, SubSeqRecursiveSecond
  <2>4. ls[n] \in Seq(Nat) /\ SubSeq(ls, 1, n - 1) \in Seq(Seq(Nat))
    <3>1. \A y \in 1 .. n - 1 : ls[y] \in Seq(Nat)
      BY <2>2, ElementOfSeq
    <3> QED
      BY <2>2, <3>1, ElementOfSeq, SubSeqProperties
  <2>5. Append(SubSeq(ls, 1, n - 1), ls[n]) = SubSeq(ls, 1, n - 1) \o <<ls[n]>>
    BY <2>4, AppendIsConcat
  <2> QED
    BY <2>1, <2>2, <2>3, <2>5
<1>5. result' = Part(i + 1)
  <2>1. /\ result = [f \in Field |-> result[f]] /\ "lines" \in Field
        /\ result["lines"] = SubSeq(batch.lines, 1, i)
        /\ \A f \in Field : f # "lines" => result[f] = batch[f]
    BY <1>1 DEF Part, Field
  <2>2. result' = [f \in Field |-> IF f = "lines" THEN SubSeq(batch.lines, 1, i + 1)
                                  ELSE result[f]]
    BY <1>3, <1>4, <2>1
  <2> QED
    BY <2>1, <2>2 DEF Part
<1>6. batch' = batch /\ step' = "lines" /\ i' = i + 1 /\ body' = body /\ i + 1 \in 0 .. N
  BY <1>1, <1>2 DEF ReadLine
<1> QED
  BY <1>1, <1>3, <1>5, <1>6, Same DEF CodecInv

LEMMA DeserializedInv == CodecInv /\ Deserialized => CodecInv'
<1> SUFFICES ASSUME CodecInv, Deserialized
             PROVE  CodecInv'
  OBVIOUS
<1>1. /\ BatchOK /\ step = "lines" /\ Held(body, N, Start, Pieces)
      /\ result = Part(i) /\ offset = Start[i]
  BY DEF CodecInv, Deserialized
<1>2. i = N
  BY <1>1, FoundIs DEF Deserialized
<1>3. offset = Len(body)
  BY <1>1, <1>2 DEF Held
<1>4. result = batch
  <2>1. SubSeq(batch.lines, 1, N) = batch.lines
    BY <1>1, BatchIs, SubSeqFull DEF N
  <2>2. batch = [f \in Field |-> batch[f]]
    BY <1>1, BatchIs
  <2>3. Part(N) = [f \in Field |-> batch[f]]
    BY <2>1 DEF Part
  <2> QED
    BY <1>1, <1>2, <2>2, <2>3
<1>5. /\ batch' = batch /\ step' = "done" /\ body' = body /\ result' = result
      /\ offset' = offset
  BY DEF Deserialized
<1> QED
  BY <1>1, <1>3, <1>4, <1>5, Same DEF CodecInv

LEMMA StepCodecInv == CodecInv /\ [Next]_vars => CodecInv'
<1> SUFFICES ASSUME CodecInv, [Next]_vars
             PROVE  CodecInv'
  OBVIOUS
<1>1. CASE UNCHANGED vars
  BY <1>1, Same DEF vars, CodecInv
<1>2. CASE Next
  BY <1>2, SerializeLineInv, LinesSerializedInv, PushInv, SendTaskDoneInv, PopInv,
     NumbersReadInv, ReadLineInv, DeserializedInv DEF Next
<1> QED
  BY <1>1, <1>2

LEMMA InvRoundTrip == CodecInv => RoundTrip
<1> SUFFICES ASSUME CodecInv
             PROVE  RoundTrip
  OBVIOUS
<1>1. ASSUME step = "pop", i < Len(Popped)
      PROVE  Len(body) >= Width(Popped[i + 1])
  <2>1. i < 4
    BY <1>1 DEF Popped
  <2>2. PICK w \in Nat : w = Width(Popped[i + 1])
    BY CodecAssumption DEF Width
  <2>3. Len(body) - w \in Nat
    BY <1>1, <2>1, <2>2, PopIs
  <2>4. Len(body) \in Nat
    <3>1. body \in Seq(Nat)
      BY <1>1 DEF CodecInv, Held
    <3> QED
      BY <3>1, LenProperties
  <2> QED
    BY <2>2, <2>3, <2>4
<1>2. ASSUME step = "lines", i < result.lines_found
      PROVE  /\ offset + W32 <= Len(body)
             /\ offset + W32 + LengthAt(offset) <= Len(body)
  <2>1. i < N
    BY <1>2, FoundIs
  <2>2. /\ offset \in Nat /\ W32 \in Nat /\ LengthAt(offset) \in Nat
        /\ offset + W32 + LengthAt(offset) <= Len(body) /\ Len(body) \in Nat
    BY <1>2, <2>1, LineIs
  <2> QED
    BY <2>2
<1>3. step = "done" => offset = Len(body) /\ result = batch
  BY DEF CodecInv
<1> QED
  BY <1>1, <1>2, <1>3 DEF RoundTrip, InsideBody

\* The Master ends with the ChunkResult the Worker sent, whatever its lines and its
\* numbers, and neither a pop nor DeserializeBatch reads outside the body on the
\* way: for every base, every width of uint32_t and uint64_t, and any number of
\* lines of any length whose body uint32_t can count.
THEOREM BatchesRoundTrip == Spec => []RoundTrip
<1>1. Spec => []CodecInv
  BY InitCodecInv, StepCodecInv, PTL DEF Spec
<1> QED
  BY <1>1, InvRoundTrip, PTL
=============================================================================

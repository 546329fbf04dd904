------------------------------ MODULE Wire_proofs ------------------------------
(***************************************************************************)
(* What goes over a wire as bytes, for any base, any lengths, any messages *)
(* and any window.  Numbers and concatenations are computed by recursive   *)
(* functions, so first come the facts about those, by induction over the   *)
(* natural numbers (UpTo); then the control stream, whose reader is always *)
(* somewhere inside one message (Ahead, OnTheWay); the buckets of a window *)
(* (BucketInv); a bucket's transcript, written, carried and read           *)
(* (TranscriptInv); and why the buckets are as few as can be (GreedyInv).  *)
(***************************************************************************)
EXTENDS PreambleWire, ControlStream, SequenceTheorems, FiniteSetTheorems,
        WellFoundedInduction, TLAPS

\* What is true of 0 and passed on to the next number is true of all up to n.
LEMMA UpTo ==
    ASSUME NEW n \in Nat, NEW T, 0 \in T, \A i \in 1..n : i - 1 \in T => i \in T
    PROVE  0..n \subseteq T
<1> DEFINE U == {i \in 0..n : i \notin T}
           R == OpToRel(<, Nat)
<1>1. SUFFICES ASSUME U # {} PROVE FALSE
  OBVIOUS
<1>2. IsWellFoundedOn(R, Nat)
  BY NatLessThanWellFounded
<1>3. PICK m \in U : \A k \in U : <<k, m>> \notin R
  <2>1. U \subseteq Nat
    OBVIOUS
  <2> HIDE DEF R
  <2> QED BY <1>1, <1>2, <2>1, WFMin
<1>4. \A k \in U : ~(k < m)
  <2>1. U \subseteq Nat
    OBVIOUS
  <2> QED BY <1>3, <2>1 DEF OpToRel
<1>5. m # 0 /\ m \in 1..n /\ m - 1 \in 0..n /\ m - 1 < m
  OBVIOUS
<1>6. m - 1 \in T
  BY <1>4, <1>5
<1> QED BY <1>5, <1>6

\* A function on 0..n that begins with base and goes on with step.
Follows(f, n, base, step) ==
    f = [i \in 0..n |-> IF i = 0 THEN base ELSE step[i][f[i - 1]]]

LEMMA Recursion ==
    ASSUME NEW n \in Nat, NEW V, NEW base \in V, NEW step \in [1..n -> [V -> V]]
    PROVE  \E f \in [0..n -> V] : Follows(f, n, base, step)
<1> DEFINE Stage(m) == \E f \in [0..m -> V] : Follows(f, m, base, step)
           T == {m \in 0..n : Stage(m)}
<1>1. 0 \in T
  <2> DEFINE f == [i \in 0..0 |-> base]
  <2>1. f \in [0..0 -> V]
    OBVIOUS
  <2>2. Follows(f, 0, base, step)
    <3>1. f = [i \in 0..0 |-> IF i = 0 THEN base ELSE step[i][f[i - 1]]]
      OBVIOUS
    <3> QED BY <3>1, Zenon DEF Follows
  <2> HIDE DEF f
  <2>3. Stage(0) /\ 0 \in 0..n
    BY <2>1, <2>2
  <2> QED BY <2>3
<1>2. ASSUME NEW m \in 1..n, m - 1 \in T PROVE m \in T
  <2>1. PICK g \in [0..(m - 1) -> V] : Follows(g, m - 1, base, step)
    BY <1>2
  <2>2. step[m][g[m - 1]] \in V
    <3>1. m - 1 \in 0..(m - 1) /\ m \in 1..n
      OBVIOUS
    <3>2. g[m - 1] \in V
      BY <2>1, <3>1
    <3>3. step[m] \in [V -> V]
      BY <3>1
    <3> QED BY <3>2, <3>3
  <2> DEFINE f == [i \in 0..m |-> IF i = m THEN step[m][g[m - 1]] ELSE g[i]]
  <2>3. f \in [0..m -> V]
    BY <2>2
  <2>4. ASSUME NEW i \in 0..m PROVE f[i] = IF i = 0 THEN base ELSE step[i][f[i - 1]]
    <3>1. CASE i = 0
      BY <2>1, <3>1 DEF Follows
    <3>2. CASE i \in 1..(m - 1)
      <4>1. f[i] = g[i] /\ f[i - 1] = g[i - 1] /\ i # 0
        BY <3>2
      <4>2. g[i] = step[i][g[i - 1]]
        BY <2>1, <3>2 DEF Follows
      <4> QED BY <4>1, <4>2
    <3>3. CASE i = m
      <4>1. f[i] = step[m][g[m - 1]] /\ f[i - 1] = g[m - 1] /\ i # 0
        BY <3>3
      <4> QED BY <3>3, <4>1
    <3>4. i = 0 \/ i \in 1..(m - 1) \/ i = m
      OBVIOUS
    <3> QED BY <3>1, <3>2, <3>3, <3>4
  <2>5. Follows(f, m, base, step)
    <3> DEFINE h == [i \in 0..m |-> IF i = 0 THEN base ELSE step[i][f[i - 1]]]
    <3>1. \A i \in 0..m : f[i] = h[i]
      BY <2>4
    <3>2. f = [i \in 0..m |-> f[i]] /\ h = [i \in 0..m |-> h[i]]
      BY <2>3
    <3> HIDE DEF f, h
    <3>3. f = h
      BY <3>1, <3>2
    <3> QED BY <3>3 DEF Follows, h
  <2> QED BY <2>3, <2>5
<1>3. n \in T
  <2> HIDE DEF T
  <2>1. 0..n \subseteq T
    BY <1>1, <1>2, UpTo
  <2> QED BY <2>1
<1> QED BY <1>3

-----------------------------------------------------------------------------
LEMMA ShiftsStep ==
    ASSUME NEW n \in Nat, NEW w \in Nat
    PROVE  /\ Shifts(n, w) \in [0..w -> Nat]
           /\ Shifts(n, w)[0] = n
           /\ \A k \in 1..w : Shifts(n, w)[k] = Shifts(n, w)[k - 1] \div BASE
<1> DEFINE step == [k \in 1..w |-> [x \in Nat |-> x \div BASE]]
           s[k \in 0..w] == IF k = 0 THEN n ELSE s[k - 1] \div BASE
<1>1. step \in [1..w -> [Nat -> Nat]]
  BY ByteConstants
<1>2. PICK f \in [0..w -> Nat] : Follows(f, w, n, step)
  <2> HIDE DEF step
  <2> QED BY <1>1, Recursion
<1>3. f = [k \in 0..w |-> IF k = 0 THEN n ELSE f[k - 1] \div BASE]
  <2>1. ASSUME NEW k \in 1..w PROVE step[k][f[k - 1]] = f[k - 1] \div BASE
    OBVIOUS
  <2>2. ASSUME NEW k \in 0..w
        PROVE  (IF k = 0 THEN n ELSE step[k][f[k - 1]]) = IF k = 0 THEN n ELSE f[k - 1] \div BASE
    BY <2>1
  <2> HIDE DEF step
  <2>3. [k \in 0..w |-> IF k = 0 THEN n ELSE step[k][f[k - 1]]]
        = [k \in 0..w |-> IF k = 0 THEN n ELSE f[k - 1] \div BASE]
    BY <2>2
  <2> QED BY <1>2, <2>3, Zenon DEF Follows
<1>4. s = [k \in 0..w |-> IF k = 0 THEN n ELSE s[k - 1] \div BASE]
  BY <1>3, Zenon DEF s
<1>5. Shifts(n, w) = s
  BY Zenon DEF Shifts, s
<1> HIDE DEF s, step
<1>6. /\ s[0] = n /\ f[0] = n
      /\ \A k \in 1..w : /\ s[k] = s[k - 1] \div BASE
                         /\ f[k] = f[k - 1] \div BASE
  BY <1>3, <1>4
<1>7. \A k \in 0..w : s[k] = f[k]
  <2> DEFINE T == {k \in 0..w : s[k] = f[k]}
  <2>1. 0 \in T /\ \A k \in 1..w : k - 1 \in T => k \in T
    BY <1>6
  <2> HIDE DEF T
  <2>2. 0..w \subseteq T
    BY <2>1, UpTo
  <2> QED BY <2>2 DEF T
<1>8. \A k \in 0..w : s[k] \in Nat
  BY <1>7
<1>9. s \in [0..w -> Nat]
  BY <1>4, <1>8
<1> QED BY <1>5, <1>6, <1>9

LEMMA ValuesStep ==
    ASSUME NEW s \in Seq(Nat)
    PROVE  /\ Values(s) \in [0..Len(s) -> Nat]
           /\ Values(s)[0] = 0
           /\ \A k \in 1..Len(s) : Values(s)[k] = Values(s)[k - 1] * BASE + s[k]
<1> DEFINE n == Len(s)
           step == [k \in 1..n |-> [x \in Nat |-> x * BASE + s[k]]]
           v[k \in 0..n] == IF k = 0 THEN 0 ELSE v[k - 1] * BASE + s[k]
<1>1. n \in Nat /\ \A k \in 1..n : s[k] \in Nat
  OBVIOUS
<1>2. Values(s) = v
  BY Zenon DEF Values, v, n
<1> HIDE DEF n
<1>3. step \in [1..n -> [Nat -> Nat]]
  BY <1>1, ByteConstants
<1>4. PICK f \in [0..n -> Nat] : Follows(f, n, 0, step)
  <2> HIDE DEF step
  <2> QED BY <1>1, <1>3, Recursion
<1>5. f = [k \in 0..n |-> IF k = 0 THEN 0 ELSE f[k - 1] * BASE + s[k]]
  <2>1. ASSUME NEW k \in 1..n PROVE step[k][f[k - 1]] = f[k - 1] * BASE + s[k]
    BY <1>1
  <2>2. ASSUME NEW k \in 0..n
        PROVE  (IF k = 0 THEN 0 ELSE step[k][f[k - 1]]) = IF k = 0 THEN 0 ELSE f[k - 1] * BASE + s[k]
    BY <1>1, <2>1
  <2> HIDE DEF step
  <2>3. [k \in 0..n |-> IF k = 0 THEN 0 ELSE step[k][f[k - 1]]]
        = [k \in 0..n |-> IF k = 0 THEN 0 ELSE f[k - 1] * BASE + s[k]]
    BY <2>2
  <2> QED BY <1>4, <2>3, Zenon DEF Follows
<1>6. v = [k \in 0..n |-> IF k = 0 THEN 0 ELSE v[k - 1] * BASE + s[k]]
  BY <1>5, Zenon DEF v
<1> HIDE DEF v, step
<1>7. /\ v[0] = 0 /\ f[0] = 0
      /\ \A k \in 1..n : /\ v[k] = v[k - 1] * BASE + s[k]
                         /\ f[k] = f[k - 1] * BASE + s[k]
  BY <1>1, <1>5, <1>6
<1>8. \A k \in 0..n : v[k] = f[k]
  <2> DEFINE T == {k \in 0..n : v[k] = f[k]}
  <2>1. 0 \in T /\ \A k \in 1..n : k - 1 \in T => k \in T
    BY <1>1, <1>7
  <2> HIDE DEF T
  <2>2. 0..n \subseteq T
    BY <1>1, <2>1, UpTo
  <2> QED BY <2>2 DEF T
<1>9. v \in [0..n -> Nat]
  BY <1>6, <1>8
<1> QED BY <1>2, <1>7, <1>9 DEF n

AreBytesOf(b, n, w) ==
    /\ b \in Seq(Byte) /\ Len(b) = w
    /\ \A i \in 1..w : b[i] = Shifts(n, w)[w - i] % BASE

LEMMA BytesOf ==
    ASSUME NEW n \in Nat, NEW w \in Nat
    PROVE  AreBytesOf(BigEndian(n, w), n, w)
<1> DEFINE s == Shifts(n, w)
           b == BigEndian(n, w)
<1>1. b = [i \in 1..w |-> s[w - i] % BASE]
  BY DEF BigEndian
<1>2. s \in [0..w -> Nat]
  BY ShiftsStep
<1> HIDE DEF s, b
<1>3. \A i \in 1..w : s[w - i] % BASE \in Byte
  <2>1. ASSUME NEW i \in 1..w PROVE s[w - i] \in Nat
    BY <1>2
  <2> QED BY <2>1, ByteConstants DEF Byte
<1>4. b \in [1..w -> Byte]
  BY <1>1, <1>3
<1>5. b \in Seq(Byte) /\ Len(b) = w
  BY <1>4
<1> QED BY <1>1, <1>5 DEF AreBytesOf, s, b

LEMMA DivMod ==
    ASSUME NEW x \in Nat
    PROVE  (x \div BASE) * BASE + (x % BASE) = x
BY ByteConstants

LEMMA MulDiv ==
    ASSUME NEW x \in Nat, NEW b \in Byte
    PROVE  (x * BASE + b) \div BASE = x /\ (x * BASE + b) % BASE = b
BY ByteConstants DEF Byte

\* from_be_bytes undoes to_be_bytes, of every number that the width has room for
\* (control.rs:20, 36; transcript.rs:52-55, 70-81).
THEOREM DecodesWhatFits ==
    ASSUME NEW n \in Nat, NEW w \in Nat, FitsIn(n, w)
    PROVE  Value(BigEndian(n, w)) = n
<1> DEFINE s == Shifts(n, w)
           b == BigEndian(n, w)
           v == Values(b)
<1>1. s \in [0..w -> Nat] /\ s[0] = n /\ \A k \in 1..w : s[k] = s[k - 1] \div BASE
  BY ShiftsStep
<1>2. s[w] = 0
  BY DEF FitsIn
<1>3. b \in Seq(Byte) /\ Len(b) = w /\ \A i \in 1..w : b[i] = s[w - i] % BASE
  <2>1. AreBytesOf(b, n, w)
    BY BytesOf
  <2> QED BY <2>1 DEF AreBytesOf
<1>4. v[0] = 0 /\ \A k \in 1..w : v[k] = v[k - 1] * BASE + b[k]
  <2>1. b \in Seq(Nat)
    BY <1>3, ByteConstants DEF Byte
  <2> HIDE DEF b
  <2>2. v[0] = 0 /\ \A k \in 1..Len(b) : v[k] = v[k - 1] * BASE + b[k]
    BY <2>1, ValuesStep
  <2> QED BY <1>3, <2>2
<1> HIDE DEF s, v
<1>5. \A k \in 0..w : v[k] = s[w - k]
  <2> DEFINE T == {k \in 0..w : v[k] = s[w - k]}
  <2>1. 0 \in T
    BY <1>2, <1>4
  <2>2. ASSUME NEW k \in 1..w, k - 1 \in T PROVE k \in T
    <3>1. w - k \in 0..w /\ w - (k - 1) \in 1..w /\ (w - (k - 1)) - 1 = w - k
      OBVIOUS
    <3>2. s[w - k] \in Nat /\ s[w - (k - 1)] = s[w - k] \div BASE
      <4>1. s[w - (k - 1)] = s[(w - (k - 1)) - 1] \div BASE
        BY <1>1, <3>1
      <4> QED BY <1>1, <3>1, <4>1
    <3>3. v[k] = v[k - 1] * BASE + b[k] /\ b[k] = s[w - k] % BASE
      BY <1>3, <1>4
    <3>4. v[k - 1] = s[w - (k - 1)]
      BY <2>2
    <3>5. v[k] = s[w - k]
      <4> DEFINE x == s[w - k]
      <4>1. v[k] = (x \div BASE) * BASE + (x % BASE)
        BY <3>2, <3>3, <3>4
      <4> HIDE DEF x
      <4>2. x \in Nat
        BY <3>2 DEF x
      <4> QED BY <4>1, <4>2, DivMod DEF x
    <3> QED BY <3>5
  <2> HIDE DEF T
  <2>3. 0..w \subseteq T
    BY <2>1, <2>2, UpTo
  <2> QED BY <2>3 DEF T
<1>6. v[w] = s[0]
  BY <1>5
<1> QED BY <1>1, <1>3, <1>6 DEF Value, v

\* to_be_bytes gives back the bytes that were read.
LEMMA EncodesWhatWasRead ==
    ASSUME NEW b \in Seq(Byte)
    PROVE  Value(b) \in Nat /\ BigEndian(Value(b), Len(b)) = b /\ FitsIn(Value(b), Len(b))
<1> DEFINE w == Len(b)
           v == Values(b)
           n == Value(b)
           s == Shifts(n, w)
           c == BigEndian(n, w)
<1>1. w \in Nat /\ \A k \in 1..w : b[k] \in Byte
  OBVIOUS
<1>2. v \in [0..w -> Nat] /\ v[0] = 0 /\ \A k \in 1..w : v[k] = v[k - 1] * BASE + b[k]
  <2>1. b \in Seq(Nat)
    BY ByteConstants DEF Byte
  <2> QED BY <2>1, ValuesStep
<1>3. n = v[w]
  BY DEF Value
<1> HIDE DEF v, n
<1>4. n \in Nat
  BY <1>1, <1>2, <1>3
<1> HIDE DEF w
<1>5. s \in [0..w -> Nat] /\ s[0] = n /\ \A k \in 1..w : s[k] = s[k - 1] \div BASE
  BY <1>1, <1>4, ShiftsStep
<1>6. c \in Seq(Byte) /\ Len(c) = w /\ \A i \in 1..w : c[i] = s[w - i] % BASE
  <2>1. AreBytesOf(c, n, w)
    BY <1>1, <1>4, BytesOf
  <2> QED BY <2>1 DEF AreBytesOf
<1> HIDE DEF s, c
<1>7. \A k \in 0..w : s[k] = v[w - k]
  <2> DEFINE T == {k \in 0..w : s[k] = v[w - k]}
  <2>1. 0 \in T
    BY <1>1, <1>3, <1>5
  <2>2. ASSUME NEW k \in 1..w, k - 1 \in T PROVE k \in T
    <3>1. w - (k - 1) \in 1..w /\ (w - (k - 1)) - 1 = w - k /\ w - k \in 0..w
      BY <1>1
    <3>2. v[w - (k - 1)] = v[w - k] * BASE + b[w - (k - 1)]
      <4>1. v[w - (k - 1)] = v[(w - (k - 1)) - 1] * BASE + b[w - (k - 1)]
        BY <1>2, <3>1
      <4> QED BY <3>1, <4>1
    <3>3. v[w - k] \in Nat /\ b[w - (k - 1)] \in Byte
      BY <1>1, <1>2, <3>1
    <3>4. s[k] = v[w - (k - 1)] \div BASE
      BY <1>5, <2>2
    <3>5. s[k] = v[w - k]
      BY <3>2, <3>3, <3>4, MulDiv
    <3> QED BY <3>5
  <2> HIDE DEF T
  <2>3. 0..w \subseteq T
    BY <1>1, <2>1, <2>2, UpTo
  <2> QED BY <2>3 DEF T
<1>8. ASSUME NEW i \in 1..w PROVE c[i] = b[i]
  <2>1. w - i \in 0..w /\ w - (w - i) = i /\ i \in 0..w /\ i - 1 \in 0..w
    BY <1>1
  <2>2. s[w - i] = v[i]
    <3>1. s[w - i] = v[w - (w - i)]
      BY <1>7, <2>1
    <3> QED BY <2>1, <3>1
  <2>3. v[i] = v[i - 1] * BASE + b[i] /\ v[i - 1] \in Nat /\ b[i] \in Byte
    BY <1>1, <1>2, <2>1
  <2>4. v[i] % BASE = b[i]
    BY <2>3, MulDiv
  <2> QED BY <1>6, <2>2, <2>4
<1>9. c = b
  BY <1>6, <1>8, SeqEqual DEF w
<1>10. s[w] = 0
  BY <1>1, <1>2, <1>7
<1> QED BY <1>4, <1>9, <1>10 DEF FitsIn, s, c, w, n

-----------------------------------------------------------------------------
(* Sequences of bytes joined, and found in a longer one.                   *)

\* F holds the joined beginnings of the sequences in q.
Joins(F, q, B) ==
    /\ F \in [0..Len(q) -> Seq(B)] /\ F[0] = <<>>
    /\ \A k \in 1..Len(q) : F[k] = F[k - 1] \o q[k]

LEMMA JoinsExist ==
    ASSUME NEW B, NEW q \in Seq(Seq(B))
    PROVE  \E F : Joins(F, q, B)
<1> DEFINE n == Len(q)
           step == [k \in 1..n |-> [x \in Seq(B) |-> x \o q[k]]]
<1>1. n \in Nat /\ \A k \in 1..n : q[k] \in Seq(B)
  OBVIOUS
<1> HIDE DEF n
<1>2. step \in [1..n -> [Seq(B) -> Seq(B)]]
  <2>1. ASSUME NEW k \in 1..n, NEW x \in Seq(B) PROVE x \o q[k] \in Seq(B)
    BY <1>1, ConcatProperties
  <2> QED BY <2>1
<1>3. <<>> \in Seq(B)
  OBVIOUS
<1>4. PICK F \in [0..n -> Seq(B)] : Follows(F, n, <<>>, step)
  <2> DEFINE e == <<>>
             V == Seq(B)
  <2>1. e \in V /\ step \in [1..n -> [V -> V]]
    BY <1>2, <1>3
  <2> HIDE DEF step, e, V
  <2>2. \E F \in [0..n -> V] : Follows(F, n, e, step)
    BY <1>1, <2>1, Recursion
  <2> QED BY <2>2 DEF e, V
<1>5. F[0] = <<>> /\ \A k \in 1..n : F[k] = step[k][F[k - 1]]
  <2> HIDE DEF step
  <2> QED BY <1>1, <1>4 DEF Follows
<1>6. ASSUME NEW k \in 1..n PROVE step[k][F[k - 1]] = F[k - 1] \o q[k]
  <2>1. F[k - 1] \in Seq(B)
    BY <1>1, <1>4
  <2> QED BY <2>1
<1> HIDE DEF step
<1>7. Joins(F, q, B)
  BY <1>4, <1>5, <1>6 DEF Joins, n
<1> QED BY <1>7

LEMMA JoinsFlatten ==
    ASSUME NEW B, NEW q \in Seq(Seq(B)), NEW F, Joins(F, q, B)
    PROVE  FlattenSeq(q) = F[Len(q)] /\ FlattenSeq(q) \in Seq(B)
<1> DEFINE n == Len(q)
           f[i \in 1..n] == IF i = 1 THEN q[i] ELSE f[i - 1] \o q[i]
           g == [i \in 1..n |-> F[i]]
<1>1. n \in Nat /\ (n = 0 => q = <<>>) /\ \A k \in 1..n : q[k] \in Seq(B)
  OBVIOUS
<1>2. /\ F \in [0..n -> Seq(B)] /\ F[0] = <<>>
      /\ \A k \in 1..n : F[k] = F[k - 1] \o q[k]
  BY DEF Joins
<1>3. FlattenSeq(q) = IF n = 0 THEN q ELSE f[n]
  BY Zenon DEF FlattenSeq, f, n
<1> HIDE DEF n
<1>4. \A i \in 1..n : g[i] = IF i = 1 THEN q[i] ELSE g[i - 1] \o q[i]
  <2>1. ASSUME NEW i \in 1..n, i = 1 PROVE F[i] = q[i]
    <3>1. F[1] = <<>> \o q[1]
      <4>1. 1 \in 1..n /\ 1 - 1 = 0
        BY <1>1, <2>1
      <4>2. F[1] = F[1 - 1] \o q[1]
        BY <1>2, <4>1
      <4> QED BY <1>2, <4>1, <4>2
    <3>2. q[1] \in Seq(B)
      BY <1>1, <2>1
    <3>3. <<>> \o q[1] = q[1]
      BY <3>2, ConcatEmptySeq
    <3> QED BY <2>1, <3>1, <3>3
  <2>2. ASSUME NEW i \in 1..n, i # 1 PROVE i - 1 \in 1..n /\ F[i] = F[i - 1] \o q[i]
    <3>1. i - 1 \in 1..n
      BY <1>1, <2>2
    <3> QED BY <1>2, <3>1
  <2> QED BY <2>1, <2>2
<1>5. g = [i \in 1..n |-> IF i = 1 THEN q[i] ELSE g[i - 1] \o q[i]]
  <2> DEFINE h == [i \in 1..n |-> IF i = 1 THEN q[i] ELSE g[i - 1] \o q[i]]
  <2>1. g = [i \in 1..n |-> g[i]] /\ h = [i \in 1..n |-> h[i]] /\ \A i \in 1..n : g[i] = h[i]
    BY <1>4
  <2> HIDE DEF g, h
  <2>2. g = h
    BY <2>1
  <2> QED BY <2>2 DEF h
<1>6. f = [i \in 1..n |-> IF i = 1 THEN q[i] ELSE f[i - 1] \o q[i]]
  <2> HIDE DEF g
  <2> QED BY <1>5, Zenon DEF f
<1>7. \A i \in 1..n : f[i] = IF i = 1 THEN q[i] ELSE f[i - 1] \o q[i]
  <2> HIDE DEF f
  <2> QED BY <1>6, Zenon
<1> HIDE DEF f
<1>8. 0..n \subseteq {i \in 0..n : i # 0 => f[i] = F[i]}
  <2> DEFINE T == {i \in 0..n : i # 0 => f[i] = F[i]}
  <2>1. 0 \in T
    BY <1>1
  <2>2. ASSUME NEW i \in 1..n, i - 1 \in T PROVE i \in T
    <3>1. g[i] = F[i] /\ (i # 1 => g[i - 1] = F[i - 1] /\ i - 1 # 0)
      BY <1>1
    <3>2. i # 1 => f[i - 1] = F[i - 1]
      BY <2>2, <3>1
    <3> HIDE DEF g
    <3>3. f[i] = F[i]
      BY <1>4, <1>7, <3>1, <3>2
    <3> QED BY <3>3
  <2>3. \A i \in 1..n : i - 1 \in T => i \in T
    BY <2>2
  <2> HIDE DEF T
  <2>4. 0..n \subseteq T
    BY <1>1, <2>1, <2>3, UpTo
  <2> QED BY <2>4 DEF T
<1>9. n # 0 => f[n] = F[n]
  BY <1>1, <1>8
<1>10. F[n] \in Seq(B)
  BY <1>1, <1>2
<1> QED BY <1>1, <1>2, <1>3, <1>9, <1>10 DEF n

LEMMA FlattenEmpty == FlattenSeq(<<>>) = <<>>
BY Zenon, Len(<<>>) = 0 DEF FlattenSeq

LEMMA FlattenConcat ==
    ASSUME NEW B, NEW a \in Seq(Seq(B)), NEW b \in Seq(Seq(B))
    PROVE  FlattenSeq(a \o b) = FlattenSeq(a) \o FlattenSeq(b)
<1> DEFINE q == a \o b
           n == Len(a)
           m == Len(b)
<1>1. q \in Seq(Seq(B))
  BY ConcatProperties
<1>2. PICK F : Joins(F, q, B)
  BY <1>1, JoinsExist
<1>3. PICK G : Joins(G, a, B)
  BY JoinsExist
<1>4. PICK H : Joins(H, b, B)
  BY JoinsExist
<1>5. /\ FlattenSeq(q) = F[Len(q)]
      /\ FlattenSeq(a) = G[n]
      /\ FlattenSeq(b) = H[m]
  BY <1>1, <1>2, <1>3, <1>4, JoinsFlatten
<1>6. /\ n \in Nat /\ m \in Nat /\ Len(q) = n + m
      /\ \A k \in 1..n : q[k] = a[k]
      /\ \A k \in 1..m : q[n + k] = b[k] /\ b[k] \in Seq(B)
  OBVIOUS
<1> HIDE DEF n, m, q
<1>7. /\ F[0] = <<>>
      /\ \A k \in 1..(n + m) : F[k] = F[k - 1] \o q[k]
      /\ G \in [0..n -> Seq(B)] /\ G[0] = <<>>
      /\ \A k \in 1..n : G[k] = G[k - 1] \o a[k]
      /\ H \in [0..m -> Seq(B)] /\ H[0] = <<>>
      /\ \A k \in 1..m : H[k] = H[k - 1] \o b[k]
  BY <1>2, <1>3, <1>4, <1>6 DEF Joins, n, m
<1>8. F[n] = G[n]
  <2> DEFINE T == {k \in 0..n : F[k] = G[k]}
  <2>1. 0 \in T
    BY <1>6, <1>7
  <2>2. ASSUME NEW k \in 1..n, k - 1 \in T PROVE k \in T
    <3>1. k \in 1..(n + m)
      BY <1>6
    <3>2. F[k] = F[k - 1] \o q[k] /\ G[k] = G[k - 1] \o a[k] /\ q[k] = a[k]
      BY <1>6, <1>7, <3>1
    <3>3. F[k - 1] = G[k - 1]
      BY <2>2
    <3>4. F[k] = G[k]
      <4> HIDE DEF T
      <4> QED BY <3>2, <3>3
    <3>5. k \in 0..n
      BY <1>6
    <3> QED BY <3>4, <3>5, Zenon
  <2>3. \A k \in 1..n : k - 1 \in T => k \in T
    BY <2>2
  <2> HIDE DEF T
  <2>4. 0..n \subseteq T
    BY <1>6, <2>1, <2>3, UpTo
  <2> QED BY <1>6, <2>4 DEF T
<1>9. F[n + m] = G[n] \o H[m]
  <2> DEFINE T == {k \in 0..m : F[n + k] = G[n] \o H[k]}
  <2>1. 0 \in T
    <3>1. G[n] \in Seq(B)
      BY <1>6, <1>7
    <3>2. G[n] \o <<>> = G[n]
      BY <3>1, ConcatEmptySeq
    <3>3. n + 0 = n /\ 0 \in 0..m
      BY <1>6
    <3> QED BY <1>7, <1>8, <3>2, <3>3
  <2>2. ASSUME NEW k \in 1..m, k - 1 \in T PROVE k \in T
    <3>1. n + k \in 1..(n + m) /\ (n + k) - 1 = n + (k - 1)
      BY <1>6
    <3>2. F[n + k] = F[(n + k) - 1] \o q[n + k]
      BY <1>7, <3>1
    <3>3. F[n + k] = F[n + (k - 1)] \o b[k]
      BY <1>6, <3>1, <3>2
    <3>4. F[n + (k - 1)] = G[n] \o H[k - 1]
      BY <2>2
    <3>5. H[k] = H[k - 1] \o b[k] /\ b[k] \in Seq(B)
      BY <1>6, <1>7
    <3>6. G[n] \in Seq(B) /\ H[k - 1] \in Seq(B)
      <4>1. n \in 0..n /\ k - 1 \in 0..m
        BY <1>6
      <4> QED BY <1>7, <4>1
    <3>7. (G[n] \o H[k - 1]) \o b[k] = G[n] \o (H[k - 1] \o b[k])
      <4> DEFINE x == G[n]
                 y == H[k - 1]
                 z == b[k]
      <4>1. x \in Seq(B) /\ y \in Seq(B) /\ z \in Seq(B)
        BY <3>5, <3>6
      <4> HIDE DEF x, y, z
      <4>2. (x \o y) \o z = x \o (y \o z)
        BY <4>1
      <4> QED BY <4>2 DEF x, y, z
    <3>8. F[n + k] = G[n] \o H[k]
      BY <3>3, <3>4, <3>5, <3>7
    <3>9. k \in 0..m
      BY <1>6
    <3> QED BY <3>8, <3>9, Zenon
  <2>3. \A k \in 1..m : k - 1 \in T => k \in T
    BY <2>2
  <2> HIDE DEF T
  <2>4. 0..m \subseteq T
    BY <1>6, <2>1, <2>3, UpTo
  <2>5. m \in T
    BY <1>6, <2>4
  <2> QED BY <2>5 DEF T
<1>10. FlattenSeq(q) = FlattenSeq(a) \o FlattenSeq(b)
  BY <1>5, <1>6, <1>8, <1>9
<1> QED BY <1>10 DEF q

LEMMA FlattenOne ==
    ASSUME NEW B, NEW x \in Seq(B)
    PROVE  FlattenSeq(<<x>>) = x
<1> DEFINE q == <<x>>
<1>1. q \in Seq(Seq(B)) /\ Len(q) = 1 /\ q[1] = x
  OBVIOUS
<1> HIDE DEF q
<1>2. PICK F : Joins(F, q, B)
  BY <1>1, JoinsExist
<1>3. FlattenSeq(q) = F[1]
  BY <1>1, <1>2, JoinsFlatten
<1>4. F[0] = <<>> /\ \A k \in 1..1 : F[k] = F[k - 1] \o q[k]
  BY <1>1, <1>2 DEF Joins
<1>5. F[1] = F[0] \o q[1]
  <2>1. 1 \in 1..1 /\ 1 - 1 = 0
    OBVIOUS
  <2> QED BY <1>4, <2>1
<1>6. FlattenSeq(q) = <<>> \o x
  BY <1>1, <1>3, <1>4, <1>5
<1>7. FlattenSeq(q) = x
  BY <1>6, ConcatEmptySeq
<1> QED BY <1>7 DEF q

\* The bytes of the items in s, when E tells those of each.
Mapped(E, s) == [i \in DOMAIN s |-> E[s[i]]]
Joined(E, s) == FlattenSeq(Mapped(E, s))

IsMapped(m, E, s, T) ==
    m \in Seq(T) /\ Len(m) = Len(s) /\ \A i \in 1..Len(s) : m[i] = E[s[i]]

LEMMA MappedIs ==
    ASSUME NEW S, NEW T, NEW E \in [S -> T], NEW s \in Seq(S)
    PROVE  IsMapped(Mapped(E, s), E, s, T)
<1>1. \A i \in 1..Len(s) : E[s[i]] \in T
  OBVIOUS
<1>2. Mapped(E, s) = [i \in 1..Len(s) |-> E[s[i]]]
  BY DEF Mapped
<1> QED BY <1>1, <1>2 DEF IsMapped

\* z is x and then y.
LaidOut(z, x, y) ==
    /\ Len(z) = Len(x) + Len(y)
    /\ \A i \in 1..Len(x) : z[i] = x[i]
    /\ \A i \in 1..Len(y) : z[Len(x) + i] = y[i]

LEMMA ConcatIs ==
    ASSUME NEW T, NEW x \in Seq(T), NEW y \in Seq(T), NEW z \in Seq(T), LaidOut(z, x, y)
    PROVE  z = x \o y
<1> DEFINE n == Len(x)
           m == Len(y)
<1>0. /\ n \in Nat /\ m \in Nat /\ Len(x) = n /\ Len(y) = m /\ Len(z) = n + m
      /\ (\A i \in 1..n : z[i] = x[i]) /\ \A i \in 1..m : z[n + i] = y[i]
  BY DEF LaidOut
<1> HIDE DEF n, m
<1>1. x \o y \in Seq(T) /\ Len(x \o y) = n + m
  BY <1>0
<1>2. ASSUME NEW i \in 1..(n + m) PROVE z[i] = (x \o y)[i]
  <2>1. CASE i \in 1..n
    <3>1. (x \o y)[i] = x[i]
      BY <1>0, <2>1
    <3> QED BY <1>0, <2>1, <3>1
  <2>2. CASE \E j \in 1..m : i = n + j
    <3>1. PICK j \in 1..m : i = n + j
      BY <2>2
    <3>2. (x \o y)[n + j] = y[j]
      <4>1. j \in 1..Len(y)
        BY <1>0, <3>1
      <4>2. (x \o y)[Len(x) + j] = y[j]
        BY <4>1, ConcatProperties
      <4> QED BY <1>0, <4>2, Zenon
    <3>3. z[n + j] = y[j]
      BY <1>0
    <3> QED BY <3>1, <3>2, <3>3
  <2>3. i \in 1..n \/ \E j \in 1..m : i = n + j
    <3>1. i \in 1..n \/ (i - n \in 1..m /\ i = n + (i - n))
      BY <1>0
    <3> QED BY <3>1
  <2> QED BY <2>1, <2>2, <2>3
<1> QED BY <1>0, <1>1, <1>2, SeqEqual

MapsUp(E, a, b) == Mapped(E, a \o b) = Mapped(E, a) \o Mapped(E, b)

LEMMA MappedConcat ==
    ASSUME NEW S, NEW T, NEW E \in [S -> T], NEW a \in Seq(S), NEW b \in Seq(S)
    PROVE  MapsUp(E, a, b)
<1> DEFINE c == a \o b
           x == Mapped(E, a)
           y == Mapped(E, b)
           z == Mapped(E, c)
           n == Len(a)
           m == Len(b)
<1>1. c \in Seq(S) /\ n \in Nat /\ m \in Nat /\ Len(c) = n + m
      /\ (\A i \in 1..n : c[i] = a[i])
      /\ \A i \in 1..m : c[n + i] = b[i]
  OBVIOUS
<1> HIDE DEF c
<1>2. IsMapped(x, E, a, T) /\ IsMapped(y, E, b, T)
  BY MappedIs
<1>3. IsMapped(z, E, c, T)
  BY <1>1, MappedIs
<1> HIDE DEF x, y, z
<1>4. x \in Seq(T) /\ Len(x) = n /\ y \in Seq(T) /\ Len(y) = m /\ z \in Seq(T) /\ Len(z) = n + m
  BY <1>1, <1>2, <1>3 DEF IsMapped
<1>5. /\ \A i \in 1..n : x[i] = E[a[i]] /\ z[i] = E[c[i]]
      /\ \A i \in 1..m : y[i] = E[b[i]] /\ z[n + i] = E[c[n + i]]
  <2>1. \A i \in 1..(n + m) : z[i] = E[c[i]]
    BY <1>1, <1>3 DEF IsMapped
  <2>2. (\A i \in 1..n : x[i] = E[a[i]]) /\ \A i \in 1..m : y[i] = E[b[i]]
    BY <1>2 DEF IsMapped
  <2> HIDE DEF n, m
  <2>3. (\A i \in 1..n : i \in 1..(n + m)) /\ \A i \in 1..m : n + i \in 1..(n + m)
    BY <1>1
  <2> QED BY <2>1, <2>2, <2>3
<1> HIDE DEF n, m
<1>6. (\A i \in 1..n : z[i] = x[i]) /\ \A i \in 1..m : z[n + i] = y[i]
  BY <1>1, <1>5
<1>7. z = x \o y
  <2>1. LaidOut(z, x, y)
    BY <1>4, <1>6 DEF LaidOut
  <2> QED BY <1>4, <2>1, ConcatIs
<1> QED BY <1>7, Zenon DEF c, x, y, z, MapsUp

LEMMA JoinedIs ==
    ASSUME NEW S, NEW B, NEW E \in [S -> Seq(B)], NEW s \in Seq(S)
    PROVE  Joined(E, s) \in Seq(B)
<1> DEFINE q == Mapped(E, s)
           T == Seq(B)
<1>1. q \in Seq(T)
  BY MappedIs DEF IsMapped
<1> HIDE DEF q
<1>2. PICK F : Joins(F, q, B)
  BY <1>1, JoinsExist
<1> QED BY <1>1, <1>2, JoinsFlatten DEF Joined, q

JoinsUp(E, a, b) == Joined(E, a \o b) = Joined(E, a) \o Joined(E, b)

LEMMA JoinedConcat ==
    ASSUME NEW S, NEW B, NEW E \in [S -> Seq(B)], NEW a \in Seq(S), NEW b \in Seq(S)
    PROVE  JoinsUp(E, a, b)
<1> DEFINE x == Mapped(E, a)
           y == Mapped(E, b)
           T == Seq(B)
<1>1. x \in Seq(T) /\ y \in Seq(T)
  <2>1. E \in [S -> T]
    OBVIOUS
  <2> HIDE DEF T, x, y
  <2>2. IsMapped(x, E, a, T) /\ IsMapped(y, E, b, T)
    BY <2>1, MappedIs DEF x, y
  <2> QED BY <2>2 DEF IsMapped
<1> HIDE DEF x, y
<1>2. Mapped(E, a \o b) = x \o y
  <2>1. E \in [S -> T]
    OBVIOUS
  <2> HIDE DEF T
  <2>2. MapsUp(E, a, b)
    BY <2>1, MappedConcat
  <2> QED BY <2>2, Zenon DEF x, y, MapsUp
<1>3. FlattenSeq(x \o y) = FlattenSeq(x) \o FlattenSeq(y)
  BY <1>1, FlattenConcat
<1> QED BY <1>2, <1>3, Zenon DEF JoinsUp, Joined, x, y

LEMMA JoinedOne ==
    ASSUME NEW S, NEW B, NEW E \in [S -> Seq(B)], NEW x \in S
    PROVE  Joined(E, <<x>>) = E[x]
<1>1. Mapped(E, <<x>>) = <<E[x]>>
  BY DEF Mapped
<1> QED BY <1>1, FlattenOne DEF Joined

LEMMA JoinedNone == ASSUME NEW E PROVE Joined(E, <<>>) = <<>>
<1>1. Mapped(E, <<>>) = <<>>
  BY DEF Mapped
<1> QED BY <1>1, FlattenEmpty DEF Joined

-----------------------------------------------------------------------------
(* Control messages.                                                       *)

LEMMA EncodeMessage ==
    ASSUME NEW msg \in Messages
    PROVE  /\ encode(msg) \in Seq(Byte) /\ Len(encode(msg)) >= 1
           /\ \/ /\ msg = <<"Report", msg[2]>> /\ msg[2] \in Epochs
                 /\ encode(msg) = <<REPORT>> \o BigEndian(msg[2], EPOCH)
                 /\ BigEndian(msg[2], EPOCH) \in Seq(Byte)
                 /\ Len(BigEndian(msg[2], EPOCH)) = EPOCH
                 /\ Value(BigEndian(msg[2], EPOCH)) = msg[2]
              \/ /\ msg = <<"Hello">>
                 /\ encode(msg) = <<HELLO>>
<1>1. REPORT \in Byte /\ HELLO \in Byte
  BY ControlConstants, ByteConstants DEF REPORT, HELLO, Byte
<1>2. CASE msg = <<"Hello">>
  <2>1. encode(msg) = <<HELLO>>
    BY <1>2 DEF encode
  <2>2. <<HELLO>> \in Seq(Byte) /\ Len(<<HELLO>>) >= 1
    BY <1>1
  <2>3. encode(msg) \in Seq(Byte) /\ Len(encode(msg)) >= 1
    BY <2>1, <2>2
  <2> QED BY <1>2, <2>1, <2>3, Zenon
<1>3. CASE \E k \in Epochs : msg = <<"Report", k>>
  <2>1. PICK k \in Epochs : msg = <<"Report", k>>
    BY <1>3
  <2> DEFINE e == BigEndian(k, EPOCH)
  <2>2. k \in Nat /\ FitsIn(k, EPOCH) /\ EPOCH \in Nat
    BY ControlConstants, ByteConstants
  <2>3. e \in Seq(Byte) /\ Len(e) = EPOCH
    <3>1. AreBytesOf(e, k, EPOCH)
      BY <2>2, BytesOf
    <3> QED BY <3>1 DEF AreBytesOf
  <2>4. Value(e) = k
    BY <2>2, DecodesWhatFits
  <2>5. msg[1] = "Report" /\ msg[2] = k
    BY <2>1
  <2>6. encode(msg) = <<REPORT>> \o e
    BY <2>5 DEF encode
  <2> HIDE DEF e
  <2>7. <<REPORT>> \o e \in Seq(Byte) /\ Len(<<REPORT>> \o e) >= 1
    BY <1>1, <2>2, <2>3
  <2> QED BY <2>1, <2>2, <2>3, <2>4, <2>5, <2>6, <2>7 DEF e
<1> QED BY <1>2, <1>3 DEF Messages

Encoder == [msg \in Messages |-> encode(msg)]

LEMMA EncodedJoins ==
    ASSUME NEW a \in Seq(Messages)
    PROVE  Encoder \in [Messages -> Seq(Byte)] /\ Encoded(a) = Joined(Encoder, a)
<1>1. Encoder \in [Messages -> Seq(Byte)]
  BY EncodeMessage DEF Encoder
<1>2. [i \in DOMAIN a |-> encode(a[i])] = Mapped(Encoder, a)
  <2>1. \A i \in DOMAIN a : a[i] \in Messages
    OBVIOUS
  <2>2. \A i \in DOMAIN a : Encoder[a[i]] = encode(a[i])
    BY <2>1 DEF Encoder
  <2> QED BY <2>2 DEF Mapped
<1> QED BY <1>1, <1>2, Zenon DEF Encoded, Joined

LEMMA EncodedOf ==
    ASSUME NEW a \in Seq(Messages)
    PROVE  Encoded(a) \in Seq(Byte)
BY EncodedJoins, JoinedIs

LEMMA EncodedConcat ==
    ASSUME NEW a \in Seq(Messages), NEW b \in Seq(Messages)
    PROVE  Encoded(a \o b) = Encoded(a) \o Encoded(b)
<1>1. a \o b \in Seq(Messages)
  BY ConcatProperties
<1>2. Encoder \in [Messages -> Seq(Byte)]
  BY EncodedJoins
<1>3. JoinsUp(Encoder, a, b)
  BY <1>2, JoinedConcat
<1>4. Encoded(a \o b) = Joined(Encoder, a \o b) /\ Encoded(a) = Joined(Encoder, a)
      /\ Encoded(b) = Joined(Encoder, b)
  BY <1>1, EncodedJoins
<1> QED BY <1>3, <1>4, Zenon DEF JoinsUp

LEMMA EncodedOne ==
    ASSUME NEW msg \in Messages
    PROVE  Encoded(<<msg>>) = encode(msg)
<1>1. [i \in DOMAIN <<msg>> |-> encode(<<msg>>[i])] = <<encode(msg)>>
  OBVIOUS
<1>2. encode(msg) \in Seq(Byte)
  BY EncodeMessage
<1> QED BY <1>1, <1>2, FlattenOne DEF Encoded

LEMMA EncodedNone == Encoded(<<>>) = <<>>
<1>1. [i \in DOMAIN <<>> |-> encode(<<>>[i])] = <<>>
  OBVIOUS
<1> QED BY <1>1, FlattenEmpty DEF Encoded

\* The bytes of messages begin with those of the first.
LEMMA EncodedFirst ==
    ASSUME NEW rest \in Seq(Messages), Encoded(rest) # <<>>
    PROVE  /\ rest # <<>> /\ Head(rest) \in Messages /\ Tail(rest) \in Seq(Messages)
           /\ rest = <<Head(rest)>> \o Tail(rest)
           /\ Encoded(rest) = encode(Head(rest)) \o Encoded(Tail(rest))
<1>1. rest # <<>>
  BY EncodedNone
<1>2. Head(rest) \in Messages /\ Tail(rest) \in Seq(Messages)
  BY <1>1
<1>3. rest = <<Head(rest)>> \o Tail(rest)
  BY <1>1
<1>4. Encoded(rest) = Encoded(<<Head(rest)>>) \o Encoded(Tail(rest))
  <2> DEFINE a == <<Head(rest)>>
             b == Tail(rest)
  <2>1. a \in Seq(Messages) /\ b \in Seq(Messages)
    BY <1>2
  <2> HIDE DEF a, b
  <2>2. Encoded(a \o b) = Encoded(a) \o Encoded(b)
    BY <2>1, EncodedConcat
  <2> QED BY <1>3, <2>2 DEF a, b
<1> QED BY <1>1, <1>2, <1>3, <1>4, EncodedOne

ControlTypes ==
    /\ sent \in Seq(Messages) /\ received \in Seq(Messages)
    /\ unsent \in Seq(Byte) /\ stream \in Seq(Byte) /\ part \in Seq(Byte)
    /\ lost \in BOOLEAN
    /\ writer \in {"open", "failed", "aborted"} /\ reader \in {"open", "ended", "aborted"}

\* The messages still to come, and the bytes of theirs that are not in the stream.
Ahead(rest, tail) ==
    /\ sent = received \o rest
    /\ Encoded(rest) = (part \o stream) \o tail
    /\ ~lost => tail = unsent

OnTheWay == \E rest \in Seq(Messages), tail \in Seq(Byte) : Ahead(rest, tail)

MidReport == part # <<>> => part[1] = REPORT /\ Len(part) <= EPOCH

ControlInv == ControlTypes /\ OnTheWay /\ MidReport

LEMMA Halves ==
    ASSUME NEW S, NEW s \in Seq(S), NEW n \in 0..Len(s)
    PROVE  /\ SubSeq(s, 1, n) \in Seq(S) /\ Len(SubSeq(s, 1, n)) = n
           /\ SubSeq(s, n + 1, Len(s)) \in Seq(S)
           /\ s = SubSeq(s, 1, n) \o SubSeq(s, n + 1, Len(s))
<1> DEFINE u == SubSeq(s, 1, n)
           v == SubSeq(s, n + 1, Len(s))
<1>1. u \in Seq(S) /\ Len(u) = n /\ v \in Seq(S) /\ Len(v) = Len(s) - n
  OBVIOUS
<1>2. \A i \in 1..n : u[i] = s[i]
  OBVIOUS
<1>3. \A i \in (n + 1)..Len(s) : v[i - n] = s[i]
  OBVIOUS
<1> HIDE DEF u, v
<1>4. u \o v \in Seq(S) /\ Len(u \o v) = Len(s)
  BY <1>1
<1>5. ASSUME NEW i \in 1..Len(s) PROVE s[i] = (u \o v)[i]
  BY <1>1, <1>2, <1>3
<1>6. s = u \o v
  BY <1>4, <1>5, SeqEqual
<1> QED BY <1>1, <1>6 DEF u, v

Grouped(a, b, c) == (a \o b) \o c = a \o (b \o c)

LEMMA Group ==
    ASSUME NEW S, NEW a \in Seq(S), NEW b \in Seq(S), NEW c \in Seq(S)
    PROVE  Grouped(a, b, c)
BY ConcatAssociative DEF Grouped

Regrouped(a, b, c, d) == (a \o b) \o (c \o d) = (a \o (b \o c)) \o d

LEMMA Regroup ==
    ASSUME NEW S, NEW a \in Seq(S), NEW b \in Seq(S), NEW c \in Seq(S), NEW d \in Seq(S)
    PROVE  Regrouped(a, b, c, d)
<1>1. a \o b \in Seq(S) /\ b \o c \in Seq(S)
  BY ConcatProperties
<1>2. (a \o b) \o (c \o d) = ((a \o b) \o c) \o d
  <2> DEFINE ab == a \o b
  <2>1. ab \in Seq(S)
    BY <1>1
  <2> HIDE DEF ab
  <2>2. Grouped(ab, c, d)
    BY <2>1, Group
  <2> QED BY <2>2, Zenon DEF ab, Grouped
<1>3. (a \o b) \o c = a \o (b \o c)
  <2>1. Grouped(a, b, c)
    BY Group
  <2> QED BY <2>1, Zenon DEF Grouped
<1>4. (a \o b) \o (c \o d) = (a \o (b \o c)) \o d
  BY <1>2, <1>3, Zenon
<1> QED BY <1>4, Zenon DEF Regrouped

LEMMA ControlStarts == ControlInit => ControlInv
<1> SUFFICES ASSUME ControlInit PROVE ControlInv
  OBVIOUS
<1>1. ControlTypes
  <2>1. <<>> \in Seq(Messages) /\ <<>> \in Seq(Byte)
    OBVIOUS
  <2> QED BY <2>1, Zenon DEF ControlInit, ControlTypes
<1>2. MidReport
  BY DEF ControlInit, MidReport
<1>3. <<>> \in Seq(Messages) /\ <<>> \in Seq(Byte)
  OBVIOUS
<1>4. Ahead(<<>>, <<>>)
  BY EncodedNone DEF ControlInit, Ahead
<1>5. OnTheWay
  BY <1>3, <1>4, Zenon DEF OnTheWay
<1> QED BY <1>1, <1>2, <1>5 DEF ControlInv

LEMMA WriteMessageKeeps ==
    ASSUME ControlInv, NEW msg \in Messages, WriteMessage(msg)
    PROVE  ControlInv'
<1>1. PICK rest \in Seq(Messages), tail \in Seq(Byte) : Ahead(rest, tail)
  BY DEF ControlInv, OnTheWay
<1>2. ControlTypes'
  BY EncodeMessage DEF ControlInv, ControlTypes, WriteMessage, reading
<1>3. MidReport'
  BY DEF ControlInv, MidReport, WriteMessage, reading
<1> DEFINE rest2 == rest \o <<msg>>
           tail2 == encode(msg)
<1>4. rest2 \in Seq(Messages) /\ tail2 \in Seq(Byte)
  BY EncodeMessage
<1>5. sent' = received' \o rest2
  <2>1. sent' = Append(sent, msg) /\ received' = received /\ sent = received \o rest
    BY <1>1 DEF WriteMessage, reading, Ahead
  <2>2. received \in Seq(Messages)
    BY DEF ControlInv, ControlTypes
  <2>3. Append(sent, msg) = sent \o <<msg>>
    BY DEF ControlInv, ControlTypes
  <2> DEFINE b == <<msg>>
  <2>4. b \in Seq(Messages)
    OBVIOUS
  <2> HIDE DEF b
  <2>5. (received \o rest) \o b = received \o (rest \o b)
    BY <2>2, <2>4, ConcatAssociative
  <2> QED BY <2>1, <2>3, <2>5 DEF b
<1>6. Encoded(rest2) = (part' \o stream') \o tail2
  <2>1. tail = <<>> /\ part' = part /\ stream' = stream
    BY <1>1 DEF WriteMessage, Ahead, reading
  <2> DEFINE b == <<msg>>
  <2>2. b \in Seq(Messages) /\ Encoded(b) = encode(msg)
    BY EncodedOne
  <2> HIDE DEF b
  <2>3. Encoded(rest \o b) = Encoded(rest) \o Encoded(b)
    BY <2>2, EncodedConcat
  <2>4. part \o stream \in Seq(Byte) /\ (part \o stream) \o <<>> = part \o stream
    BY DEF ControlInv, ControlTypes
  <2> QED BY <1>1, <2>1, <2>2, <2>3, <2>4 DEF b, Ahead
<1>7. tail2 = unsent'
  BY DEF WriteMessage
<1> HIDE DEF rest2, tail2
<1>8. OnTheWay'
  BY <1>4, <1>5, <1>6, <1>7, Zenon DEF OnTheWay, Ahead
<1> QED BY <1>2, <1>3, <1>8 DEF ControlInv

LEMMA WriteAllKeeps == ASSUME ControlInv, WriteAll PROVE ControlInv'
<1>1. PICK rest \in Seq(Messages), tail \in Seq(Byte) : Ahead(rest, tail)
  BY DEF ControlInv, OnTheWay
<1>2. PICK n \in 1..Credit : WritePiece(n, SubSeq(unsent, n + 1, Len(unsent)))
  BY DEF WriteAll
<1>3. n \in 0..Len(unsent) /\ unsent \in Seq(Byte) /\ stream \in Seq(Byte) /\ part \in Seq(Byte)
  BY <1>2 DEF WritePiece, ControlInv, ControlTypes
<1> DEFINE u == SubSeq(unsent, 1, n)
           v == SubSeq(unsent, n + 1, Len(unsent))
<1>4. u \in Seq(Byte) /\ v \in Seq(Byte) /\ unsent = u \o v
  BY <1>3, Halves
<1>5. unsent' = v /\ stream' = stream \o u /\ ~lost
  BY <1>2 DEF WritePiece
<1>6. part' = part /\ received' = received /\ reader' = reader
      /\ sent' = sent /\ writer' = writer /\ lost' = lost
  BY <1>2 DEF WritePiece, reading
<1> HIDE DEF u, v
<1>7. ControlTypes'
  BY <1>3, <1>4, <1>5, <1>6 DEF ControlInv, ControlTypes
<1>8. MidReport'
  BY <1>6 DEF ControlInv, MidReport
<1>9. Encoded(rest) = (part' \o stream') \o v
  <2>1. Encoded(rest) = (part \o stream) \o (u \o v)
    BY <1>1, <1>4, <1>5 DEF Ahead
  <2>2. Regrouped(part, stream, u, v)
    BY <1>3, <1>4, Regroup
  <2> QED BY <1>5, <1>6, <2>1, <2>2, Zenon DEF Regrouped
<1>10. sent' = received' \o rest
  BY <1>1, <1>6 DEF Ahead
<1>11. OnTheWay'
  BY <1>4, <1>5, <1>9, <1>10, Zenon DEF OnTheWay, Ahead
<1> QED BY <1>7, <1>8, <1>11 DEF ControlInv

LEMMA LossKeeps == ASSUME ControlInv, ConnectionLost PROVE ControlInv'
<1>1. PICK rest \in Seq(Messages), tail \in Seq(Byte) : Ahead(rest, tail)
  BY DEF ControlInv, OnTheWay
<1>2. PICK n \in 0..Len(stream) : stream' = SubSeq(stream, 1, n)
  BY DEF ConnectionLost
<1>3. stream \in Seq(Byte) /\ part \in Seq(Byte)
  BY DEF ControlInv, ControlTypes
<1> DEFINE u == SubSeq(stream, 1, n)
           v == SubSeq(stream, n + 1, Len(stream))
           tail2 == v \o tail
<1>4. u \in Seq(Byte) /\ v \in Seq(Byte) /\ stream = u \o v
  BY <1>2, <1>3, Halves
<1>5. stream' = u
  BY <1>2
<1>6. part' = part /\ received' = received /\ reader' = reader
      /\ sent' = sent /\ writer' = writer /\ lost' = TRUE /\ unsent' = unsent
  BY DEF ConnectionLost, reading, writing
<1> HIDE DEF u, v
<1>7. ControlTypes'
  BY <1>3, <1>4, <1>5, <1>6 DEF ControlInv, ControlTypes
<1>8. MidReport'
  BY <1>6 DEF ControlInv, MidReport
<1>9. Encoded(rest) = (part' \o stream') \o tail2
  <2>1. Encoded(rest) = (part \o (u \o v)) \o tail
    BY <1>1, <1>4 DEF Ahead
  <2>2. Regrouped(part, u, v, tail)
    BY <1>3, <1>4, Regroup
  <2> QED BY <1>5, <1>6, <2>1, <2>2, Zenon DEF Regrouped
<1>10. sent' = received' \o rest /\ tail2 \in Seq(Byte)
  BY <1>1, <1>4, <1>6 DEF Ahead
<1> HIDE DEF tail2
<1>11. OnTheWay'
  BY <1>6, <1>9, <1>10, Zenon DEF OnTheWay, Ahead
<1> QED BY <1>7, <1>8, <1>11 DEF ControlInv

\* Ends of the tasks move no bytes.
LEMMA EndKeeps ==
    ASSUME ControlInv, UNCHANGED <<sent, unsent, stream, lost, part, received>>,
           writer' \in {"open", "failed", "aborted"}, reader' \in {"open", "ended", "aborted"}
    PROVE  ControlInv'
<1>1. ControlTypes'
  BY DEF ControlInv, ControlTypes
<1>2. MidReport'
  BY DEF ControlInv, MidReport
<1>3. OnTheWay'
  <2>1. PICK rest \in Seq(Messages), tail \in Seq(Byte) : Ahead(rest, tail)
    BY DEF ControlInv, OnTheWay
  <2>2. /\ sent' = received' \o rest
        /\ Encoded(rest) = (part' \o stream') \o tail
        /\ ~lost' => tail = unsent'
    BY <2>1 DEF Ahead
  <2> QED BY <2>2, Zenon DEF OnTheWay, Ahead
<1> QED BY <1>1, <1>2, <1>3 DEF ControlInv

LEMMA TagKeeps == ASSUME ControlInv, Tag PROVE ControlInv'
<1>1. PICK rest \in Seq(Messages), tail \in Seq(Byte) : Ahead(rest, tail)
  BY DEF ControlInv, OnTheWay
<1>2. stream \in Seq(Byte) /\ stream # <<>> /\ part = <<>>
  BY DEF ControlInv, ControlTypes, Tag
<1> DEFINE h == Head(stream)
           s == Tail(stream)
           first == Head(rest)
           more == Tail(rest)
<1>3. h \in Byte /\ s \in Seq(Byte) /\ stream = <<h>> \o s /\ stream' = s
  BY <1>2 DEF Tag
<1>4. sent' = sent /\ unsent' = unsent /\ writer' = writer /\ lost' = lost
  BY DEF Tag, writing
<1>5. Encoded(rest) = <<h>> \o (s \o tail)
  <2>1. Encoded(rest) = stream \o tail
    BY <1>1, <1>2 DEF Ahead
  <2> HIDE DEF h, s
  <2>2. (<<h>> \o s) \o tail = <<h>> \o (s \o tail)
    <3> DEFINE x == <<h>>
    <3>1. x \in Seq(Byte)
      BY <1>3
    <3> HIDE DEF x
    <3>2. Grouped(x, s, tail)
      BY <1>3, <3>1, Group
    <3> QED BY <3>2, Zenon DEF x, Grouped
  <2> QED BY <1>3, <2>1, <2>2
<1>6. /\ first \in Messages /\ more \in Seq(Messages)
      /\ rest = <<first>> \o more
      /\ Encoded(rest) = encode(first) \o Encoded(more)
  <2>1. Encoded(rest) # <<>>
    <3> HIDE DEF h, s
    <3>1. s \o tail \in Seq(Byte)
      BY <1>3
    <3> QED BY <1>3, <1>5, <3>1
  <2> QED BY <2>1, EncodedFirst
<1>7. Encoded(more) \in Seq(Byte)
  BY <1>6, EncodedOf
<1> HIDE DEF h, s, first, more
<1>8. s \o tail \in Seq(Byte)
  BY <1>3
<1>9. CASE encode(first) = <<REPORT>> \o BigEndian(first[2], EPOCH)
           /\ BigEndian(first[2], EPOCH) \in Seq(Byte)
  <2>1. h = REPORT
    <3> DEFINE e == BigEndian(first[2], EPOCH)
               f == s \o tail
               g == Encoded(more)
    <3>1. <<h>> \o f = (<<REPORT>> \o e) \o g
      BY <1>5, <1>6, <1>9
    <3>2. e \in Seq(Byte) /\ f \in Seq(Byte) /\ g \in Seq(Byte)
      BY <1>7, <1>8, <1>9
    <3> HIDE DEF e, f, g
    <3>3. (<<h>> \o f)[1] = h
      BY <3>2
    <3>4. ((<<REPORT>> \o e) \o g)[1] = REPORT
      BY <3>2
    <3> QED BY <3>1, <3>3, <3>4
  <2>2. part' = <<REPORT>> /\ received' = received /\ reader' = reader
    <3>1. Head(stream) = REPORT /\ Head(stream) # HELLO
      BY <2>1 DEF h, HELLO, REPORT
    <3> QED BY <3>1 DEF Tag
  <2>3. ControlTypes'
    BY <1>3, <1>4, <2>1, <2>2 DEF ControlInv, ControlTypes
  <2>4. MidReport'
    <3>1. part'[1] = REPORT /\ Len(part') = 1
      BY <2>2
    <3> QED BY <3>1, ByteConstants DEF MidReport
  <2>5. sent' = received' \o rest
    BY <1>1, <1>4, <2>2 DEF Ahead
  <2>6. Encoded(rest) = (part' \o stream') \o tail
    BY <1>1, <1>2, <1>3, <2>1, <2>2 DEF Ahead
  <2>7. OnTheWay'
    BY <1>1, <1>4, <2>5, <2>6, Zenon DEF OnTheWay, Ahead
  <2> QED BY <2>3, <2>4, <2>7 DEF ControlInv
<1>10. CASE first = <<"Hello">> /\ encode(first) = <<HELLO>>
  <2>1. h = HELLO /\ s \o tail = Encoded(more)
    <3> DEFINE f == s \o tail
               g == Encoded(more)
    <3>1. <<h>> \o f = <<HELLO>> \o g
      BY <1>5, <1>6, <1>10
    <3>2. f \in Seq(Byte) /\ g \in Seq(Byte)
      BY <1>7, <1>8
    <3> HIDE DEF f, g
    <3>3. (<<h>> \o f)[1] = h /\ (<<HELLO>> \o g)[1] = HELLO
      BY <3>2
    <3>4. f = Tail(<<h>> \o f) /\ g = Tail(<<HELLO>> \o g)
      BY <3>2
    <3>5. h = HELLO /\ f = g
      BY <3>1, <3>3, <3>4
    <3> QED BY <3>5 DEF f, g
  <2>2. part' = part /\ received' = Append(received, first) /\ reader' = reader
    <3>1. Head(stream) = HELLO /\ Head(stream) # REPORT
      BY <2>1 DEF h, HELLO, REPORT
    <3>2. part' = part /\ reader' = reader
      BY <3>1 DEF Tag
    <3>3. received' = Append(received, <<"Hello">>)
      BY <3>1 DEF Tag
    <3> QED BY <1>10, <3>2, <3>3
  <2>3. ControlTypes'
    BY <1>3, <1>4, <1>6, <2>2 DEF ControlInv, ControlTypes
  <2>4. MidReport'
    BY <1>2, <2>2 DEF MidReport
  <2>5. sent' = received' \o more
    <3> DEFINE x == <<first>>
    <3>1. received \in Seq(Messages) /\ x \in Seq(Messages) /\ received' = received \o x
      BY <1>6, <2>2 DEF ControlInv, ControlTypes
    <3>2. sent' = received \o (x \o more)
      BY <1>1, <1>4, <1>6 DEF Ahead
    <3> HIDE DEF x
    <3>3. Grouped(received, x, more)
      BY <1>6, <3>1, Group
    <3> QED BY <3>1, <3>2, <3>3, Zenon DEF Grouped
  <2>6. Encoded(more) = (part' \o stream') \o tail
    BY <1>2, <1>3, <2>1, <2>2
  <2>7. ~lost' => tail = unsent'
    BY <1>1, <1>4 DEF Ahead
  <2>8. OnTheWay'
    BY <1>6, <2>5, <2>6, <2>7, Zenon DEF OnTheWay, Ahead
  <2> QED BY <2>3, <2>4, <2>8 DEF ControlInv
<1> QED BY <1>6, <1>9, <1>10, EncodeMessage

\* A report is whole when all its bytes are there, and they are those of the next message.
LEMMA WholeReport ==
    ASSUME NEW got \in Seq(Byte), NEW rest \in Seq(Messages), NEW left \in Seq(Byte),
           Encoded(rest) = got \o left, got # <<>>, got[1] = REPORT, Len(got) = 1 + EPOCH
    PROVE  /\ rest # <<>> /\ Tail(rest) \in Seq(Messages) /\ rest = <<Head(rest)>> \o Tail(rest)
           /\ Head(rest) \in Messages /\ Head(rest) = <<"Report", Value(Tail(got))>>
           /\ Encoded(Tail(rest)) = left
<1> DEFINE first == Head(rest)
           more == Tail(rest)
           e == BigEndian(first[2], EPOCH)
           g == Encoded(more)
<1>1. Encoded(rest) # <<>>
  BY ConcatProperties
<1>2. /\ rest # <<>> /\ first \in Messages /\ more \in Seq(Messages)
      /\ rest = <<first>> \o more
      /\ Encoded(rest) = encode(first) \o g
  BY <1>1, EncodedFirst
<1>3. g \in Seq(Byte)
  BY <1>2, EncodedOf
<1>4. EPOCH \in Nat
  BY ByteConstants
<1>5. \/ /\ first = <<"Report", first[2]>>
         /\ encode(first) = <<REPORT>> \o e /\ e \in Seq(Byte) /\ Len(e) = EPOCH
         /\ Value(e) = first[2]
      \/ encode(first) = <<HELLO>>
  BY <1>2, EncodeMessage
<1> HIDE DEF first, more, e, g
<1>6. encode(first) # <<HELLO>>
  <2>1. SUFFICES ASSUME encode(first) = <<HELLO>> PROVE FALSE
    OBVIOUS
  <2>2. (<<HELLO>> \o g)[1] = HELLO
    BY <1>3
  <2>3. (got \o left)[1] = REPORT
    BY <1>4
  <2> QED BY <1>2, <2>1, <2>2, <2>3 DEF HELLO, REPORT
<1>7. /\ first = <<"Report", Value(e)>>
      /\ encode(first) = <<REPORT>> \o e /\ e \in Seq(Byte) /\ Len(e) = EPOCH
  BY <1>5, <1>6
<1> DEFINE x == <<REPORT>> \o e
<1>8. x \in Seq(Byte) /\ Len(x) = 1 + EPOCH /\ e = Tail(x)
  <2>1. REPORT \in Byte
    BY ControlConstants, ByteConstants DEF REPORT, Byte
  <2> QED BY <1>7, <1>4, <2>1
<1>9. got \o left = x \o g
  BY <1>2, <1>7
<1> HIDE DEF x
<1>10. got = x /\ left = g
  <2>1. ASSUME NEW i \in 1..Len(got) PROVE got[i] = x[i]
    <3>1. (got \o left)[i] = got[i] /\ (x \o g)[i] = x[i]
      BY <1>3, <1>8
    <3> QED BY <1>9, <3>1
  <2>2. got = x
    BY <1>8, <2>1, SeqEqual
  <2>3. left = SubSeq(got \o left, Len(got) + 1, Len(got \o left))
    OBVIOUS
  <2>4. g = SubSeq(x \o g, Len(x) + 1, Len(x \o g))
    BY <1>3, <1>8
  <2> QED BY <1>9, <2>2, <2>3, <2>4
<1>11. first = <<"Report", Value(Tail(got))>>
  BY <1>7, <1>8, <1>10
<1> QED BY <1>2, <1>10, <1>11 DEF first, more, g

LEMMA ReadU64Keeps == ASSUME ControlInv, ReadU64 PROVE ControlInv'
<1>1. PICK rest \in Seq(Messages), tail \in Seq(Byte) : Ahead(rest, tail)
  BY DEF ControlInv, OnTheWay
<1>2. PICK n \in 1..EPOCH : EpochBytes(n, LAMBDA got : Len(got) = 1 + EPOCH)
  BY DEF ReadU64
<1> DEFINE u == SubSeq(stream, 1, n)
           v == SubSeq(stream, n + 1, Len(stream))
           got == part \o u
<1>3. /\ part # <<>> /\ n \in 0..Len(stream) /\ Len(got) <= 1 + EPOCH
      /\ stream' = v
      /\ IF Len(got) = 1 + EPOCH
         THEN part' = <<>> /\ received' = Append(received, <<"Report", Value(Tail(got))>>)
         ELSE part' = got /\ received' = received
      /\ sent' = sent /\ unsent' = unsent /\ writer' = writer /\ lost' = lost /\ reader' = reader
  BY <1>2 DEF EpochBytes, writing
<1>4. stream \in Seq(Byte) /\ part \in Seq(Byte)
  BY DEF ControlInv, ControlTypes
<1>5. u \in Seq(Byte) /\ v \in Seq(Byte) /\ stream = u \o v
  BY <1>3, <1>4, Halves
<1>6. part[1] = REPORT /\ Len(part) <= EPOCH
  BY <1>3 DEF ControlInv, MidReport
<1> HIDE DEF u, v
<1>7. got \in Seq(Byte) /\ got # <<>> /\ got[1] = REPORT
  BY <1>3, <1>4, <1>5, <1>6
<1>8. Encoded(rest) = got \o (v \o tail)
  <2>1. Encoded(rest) = (part \o (u \o v)) \o tail
    BY <1>1, <1>5 DEF Ahead
  <2>2. Regrouped(part, u, v, tail)
    BY <1>4, <1>5, Regroup
  <2> QED BY <2>1, <2>2, Zenon DEF Regrouped, got
<1>9. CASE Len(got) # 1 + EPOCH
  <2>1. part' = got /\ received' = received
    BY <1>3, <1>9
  <2>2. ControlTypes'
    BY <1>3, <1>5, <1>7, <2>1 DEF ControlInv, ControlTypes
  <2> HIDE DEF got
  <2>3. MidReport'
    <3>1. Len(got) \in Nat /\ EPOCH \in Nat
      BY <1>7, ByteConstants
    <3> QED BY <1>3, <1>7, <1>9, <2>1, <3>1 DEF MidReport
  <2>4. Encoded(rest) = (part' \o stream') \o tail
    <3>1. Grouped(got, v, tail)
      BY <1>5, <1>7, Group
    <3> QED BY <1>3, <1>8, <2>1, <3>1, Zenon DEF Grouped
  <2>5. sent' = received' \o rest /\ (~lost' => tail = unsent')
    BY <1>1, <1>3, <2>1 DEF Ahead
  <2>6. OnTheWay'
    BY <2>4, <2>5, Zenon DEF OnTheWay, Ahead
  <2> QED BY <2>2, <2>3, <2>6 DEF ControlInv
<1>10. CASE Len(got) = 1 + EPOCH
  <2> DEFINE left == v \o tail
             first == Head(rest)
             more == Tail(rest)
  <2>1. left \in Seq(Byte)
    BY <1>5
  <2> HIDE DEF got, left
  <2>2. /\ more \in Seq(Messages) /\ rest = <<first>> \o more
        /\ first \in Messages /\ first = <<"Report", Value(Tail(got))>>
        /\ Encoded(more) = left
    BY <1>7, <1>8, <1>10, <2>1, WholeReport DEF left
  <2> HIDE DEF first, more
  <2>3. part' = <<>> /\ received' = Append(received, first)
    BY <1>3, <1>10, <2>2
  <2>4. received \in Seq(Messages)
    BY DEF ControlInv, ControlTypes
  <2>5. ControlTypes'
    <3>1. received' \in Seq(Messages) /\ part' \in Seq(Byte)
      BY <2>2, <2>3, <2>4
    <3> QED BY <1>3, <1>5, <3>1 DEF ControlInv, ControlTypes
  <2>6. MidReport'
    BY <2>3 DEF MidReport
  <2>7. sent' = received' \o more
    <3> DEFINE x == <<first>>
    <3>1. x \in Seq(Messages)
      BY <2>2
    <3>4. received' = received \o x
      <4> DEFINE f == first
      <4>1. f \in Messages
        BY <2>2
      <4> HIDE DEF f
      <4>2. Append(received, f) = received \o <<f>>
        BY <2>4, <4>1
      <4> QED BY <2>3, <4>2 DEF f
    <3>2. sent' = received \o (x \o more)
      BY <1>1, <1>3, <2>2 DEF Ahead
    <3> HIDE DEF x
    <3>3. Grouped(received, x, more)
      BY <2>2, <2>4, <3>1, Group
    <3> QED BY <3>2, <3>3, <3>4, Zenon DEF Grouped
  <2>8. Encoded(more) = (part' \o stream') \o tail
    <3>1. <<>> \o v = v
      BY <1>5, ConcatEmptySeq
    <3> QED BY <1>3, <2>2, <2>3, <3>1 DEF left
  <2>9. ~lost' => tail = unsent'
    BY <1>1, <1>3 DEF Ahead
  <2>10. OnTheWay'
    BY <2>2, <2>7, <2>8, <2>9, Zenon DEF OnTheWay, Ahead
  <2> QED BY <2>5, <2>6, <2>10 DEF ControlInv
<1> QED BY <1>9, <1>10

\* The invariant of read_message and write_message (control.rs:31-50).
THEOREM ControlInvHolds == ControlSpec => []ControlInv
<1>1. ControlInv /\ [ControlNext]_controlVars => ControlInv'
  <2> SUFFICES ASSUME ControlInv, [ControlNext]_controlVars PROVE ControlInv'
    OBVIOUS
  <2>1. CASE \E msg \in Messages : WriteMessage(msg)
    BY <2>1, WriteMessageKeeps
  <2>2. CASE WriteAll
    BY <2>2, WriteAllKeeps
  <2>3. CASE WriteFails \/ WriterAborted
    BY <2>3, EndKeeps DEF WriteFails, WriterAborted, reading, ControlInv, ControlTypes
  <2>4. CASE ConnectionLost
    BY <2>4, LossKeeps
  <2>5. CASE Tag
    BY <2>5, TagKeeps
  <2>6. CASE ReadU64
    BY <2>6, ReadU64Keeps
  <2>7. CASE ReadFails \/ ReaderAborted
    BY <2>7, EndKeeps DEF ReadFails, ReaderAborted, writing, ControlInv, ControlTypes
  <2>8. CASE UNCHANGED controlVars
    BY <2>8, EndKeeps DEF controlVars, reading, writing, ControlInv, ControlTypes
  <2> QED BY <2>1, <2>2, <2>3, <2>4, <2>5, <2>6, <2>7, <2>8 DEF ControlNext, WriterRuns, ReaderRuns
<1> QED BY ControlStarts, <1>1, PTL DEF ControlSpec

\* ReaderInStep: the bytes of the messages read, of the one being read, of those in the
\* stream and of those still to be written are those of the messages written.
THEOREM ReaderKeepsStep == ControlSpec => []ReaderInStep
<1>1. ControlInv => ReaderInStep
  <2> SUFFICES ASSUME ControlInv PROVE ReaderInStep
    OBVIOUS
  <2>1. PICK rest \in Seq(Messages), tail \in Seq(Byte) : Ahead(rest, tail)
    BY DEF ControlInv, OnTheWay
  <2> DEFINE r == Encoded(received)
             x == (r \o part) \o stream
  <2>2. received \in Seq(Messages) /\ part \in Seq(Byte) /\ stream \in Seq(Byte)
    BY DEF ControlInv, ControlTypes
  <2>3. r \in Seq(Byte)
    BY <2>2, EncodedOf
  <2>4. Encoded(sent) = r \o ((part \o stream) \o tail)
    <3>1. Encoded(received \o rest) = Encoded(received) \o Encoded(rest)
      BY <2>2, EncodedConcat
    <3> QED BY <2>1, <3>1 DEF Ahead
  <2> HIDE DEF r
  <2>5. r \o ((part \o stream) \o tail) = x \o tail
    <3> DEFINE ps == part \o stream
    <3>1. ps \in Seq(Byte)
      BY <2>2
    <3>2. Grouped(r, part, stream)
      BY <2>2, <2>3, Group
    <3> HIDE DEF ps
    <3>3. Grouped(r, ps, tail)
      BY <2>3, <3>1, Group
    <3>4. (r \o ps) \o tail = r \o (ps \o tail)
      BY <3>3, Zenon DEF Grouped
    <3>5. r \o ps = x
      BY <3>2, Zenon DEF Grouped, ps, x
    <3> QED BY <3>4, <3>5, Zenon DEF ps
  <2>6. x \in Seq(Byte)
    BY <2>2, <2>3
  <2> HIDE DEF x
  <2>7. Encoded(sent) = x \o tail
    BY <2>4, <2>5
  <2>8. IsPrefix(x, x \o tail)
    <3>1. Len(x) <= Len(x \o tail)
      BY <2>6
    <3>2. SubSeq(x, 1, Len(x)) = SubSeq(x \o tail, 1, Len(x))
      BY <2>6
    <3> QED BY <3>1, <3>2 DEF IsPrefix
  <2>9. ~lost => x \o unsent = Encoded(sent)
    BY <2>1, <2>7 DEF Ahead
  <2> QED BY <2>7, <2>8, <2>9, Zenon DEF ReaderInStep, x, r
<1> QED BY <1>1, ControlInvHolds, PTL

\* What a step of the reader adds to the messages received is the next one written.
LEMMA TakesNext ==
    ASSUME ControlInv, ControlInv', sent' = sent, NEW msg, received' = Append(received, msg)
    PROVE  Len(received) < Len(sent) /\ msg = sent[Len(received) + 1]
<1>1. PICK rest \in Seq(Messages), tail \in Seq(Byte) :
         sent' = received' \o rest
  BY DEF ControlInv, OnTheWay, Ahead
<1>2. received \in Seq(Messages) /\ received' \in Seq(Messages)
  BY DEF ControlInv, ControlTypes
<1>3. Len(received') = Len(received) + 1 /\ received'[Len(received) + 1] = msg
  BY <1>2
<1>4. Len(sent) >= Len(received') /\ \A i \in 1..Len(received') : sent[i] = received'[i]
  BY <1>1, <1>2
<1>5. Len(received) \in Nat
  BY <1>2
<1> QED BY <1>3, <1>4, <1>5

\* The stream is a channel of messages: none is torn, doubled or made up, and they come
\* in the order they were written.
THEOREM ChannelKept == ControlSpec => Channel!Init /\ [][Channel!Next]_Channel!vars
<1>1. ControlInit => Channel!Init
  BY DEF ControlInit, Channel!Init
<1>2. ControlInv /\ ControlInv' /\ [ControlNext]_controlVars => [Channel!Next]_Channel!vars
  <2> SUFFICES ASSUME ControlInv, ControlInv', [ControlNext]_controlVars
               PROVE  Channel!Next \/ UNCHANGED Channel!vars
    OBVIOUS
  <2> DEFINE ended == lost \/ writer # "open" \/ reader = "aborted"
  <2>1. ASSUME NEW msg \in Messages, WriteMessage(msg) PROVE Channel!Next
    <3>1. Channel!Send(msg)
      BY <2>1 DEF WriteMessage, Channel!Send, reading
    <3> QED BY <3>1 DEF Channel!Next
  <2>2. ASSUME ended', sent' = sent, received' = received PROVE Channel!Next
    <3>1. Channel!Break
      BY <2>2 DEF Channel!Break
    <3> QED BY <3>1 DEF Channel!Next
  <2>3. ASSUME ended' = ended, sent' = sent, received' = received PROVE UNCHANGED Channel!vars
    BY <2>3 DEF Channel!vars
  <2>4. ASSUME ended' = ended, sent' = sent, NEW msg, received' = Append(received, msg)
        PROVE  Channel!Next
    <3>1. Len(received) < Len(sent) /\ msg = sent[Len(received) + 1]
      BY <2>4, TakesNext
    <3>2. Channel!Receive
      BY <2>4, <3>1 DEF Channel!Receive
    <3> QED BY <3>2 DEF Channel!Next
  <2>5. CASE \E msg \in Messages : WriteMessage(msg)
    BY <2>1, <2>5
  <2>6. CASE WriteAll
    BY <2>3, <2>6 DEF WriteAll, WritePiece, reading
  <2>7. CASE WriteFails \/ WriterAborted \/ ConnectionLost \/ ReaderAborted
    BY <2>2, <2>7 DEF WriteFails, WriterAborted, ConnectionLost, ReaderAborted, reading, writing
  <2>8. CASE Tag
    <3>1. sent' = sent /\ lost' = lost /\ writer' = writer
      BY <2>8 DEF Tag, writing
    <3>2. (reader' = reader \/ (reader = "open" /\ reader' = "ended"))
          /\ (received' = received \/ received' = Append(received, <<"Hello">>))
      BY <2>8 DEF Tag, REPORT, HELLO
    <3>3. ended' = ended
      BY <3>1, <3>2
    <3> QED BY <2>3, <2>4, <3>1, <3>2, <3>3
  <2>9. CASE ReadU64
    <3>1. PICK n \in 1..EPOCH : EpochBytes(n, LAMBDA got : Len(got) = 1 + EPOCH)
      BY <2>9 DEF ReadU64
    <3> DEFINE got == part \o SubSeq(stream, 1, n)
    <3>2. sent' = sent /\ lost' = lost /\ writer' = writer /\ reader' = reader
          /\ (received' = received \/ received' = Append(received, <<"Report", Value(Tail(got))>>))
      BY <3>1 DEF EpochBytes, writing
    <3>3. ended' = ended
      BY <3>2
    <3> QED BY <2>3, <2>4, <3>2, <3>3
  <2>10. CASE ReadFails
    BY <2>3, <2>10 DEF ReadFails, writing
  <2>11. CASE UNCHANGED controlVars
    BY <2>3, <2>11 DEF controlVars, writing, reading
  <2> QED BY <2>5, <2>6, <2>7, <2>8, <2>9, <2>10, <2>11 DEF ControlNext, WriterRuns, ReaderRuns
<1> QED BY <1>1, <1>2, ControlInvHolds, PTL DEF ControlSpec
-----------------------------------------------------------------------------
(* The buckets of a window.                                                *)

Entries == [epoch : Nat, bytes : Seq(Byte)]
Known   == {e \in Entries : FitsIn(e.epoch, EPOCH)}
Takable == {e \in Known : TRANSCRIPT_HEADER_LEN + entry_wire_len(e) <= PerDatagramBudget}

LEMMA EntryLens ==
    ASSUME NEW e \in Entries
    PROVE  entry_wire_len(e) \in Nat \ {0} /\ Len(e.bytes) \in Nat
<1>1. Len(e.bytes) \in Nat
  BY DEF Entries
<1> QED BY <1>1, BucketConstants DEF entry_wire_len

LEMMA WindowKnown ==
    ASSUME window \in Windows
    PROVE  window \in Seq(Known)
<1> DEFINE R == [epoch : Nat, bytes : Seq(Nat)]
           n == Len(window)
<1>1. window \in Seq(R)
  BY BucketConstants
<1>2. \A k \in DOMAIN window : window[k].bytes \in Seq(Byte) /\ FitsIn(window[k].epoch, EPOCH)
  BY WireConstants
<1>3. n \in Nat /\ DOMAIN window = 1..n /\ window = [k \in 1..n |-> window[k]]
      /\ \A k \in 1..n : window[k] \in R
  <2> HIDE DEF R
  <2> QED BY <1>1
<1> HIDE DEF n
<1>4. ASSUME NEW k \in 1..n PROVE window[k] \in Known
  <2>1. window[k] \in R /\ window[k].bytes \in Seq(Byte) /\ FitsIn(window[k].epoch, EPOCH)
    BY <1>2, <1>3
  <2>2. window[k] \in Entries
    BY <2>1 DEF Entries
  <2> QED BY <2>1, <2>2 DEF Known
<1>5. window \in [1..n -> Known]
  BY <1>3, <1>4
<1> QED BY <1>3, <1>5

LEMMA WireLensStep ==
    ASSUME NEW b \in Seq(Entries)
    PROVE  /\ WireLens(b) \in [0..Len(b) -> Nat]
           /\ WireLens(b)[0] = 0
           /\ \A k \in 1..Len(b) : WireLens(b)[k] = WireLens(b)[k - 1] + entry_wire_len(b[k])
<1> DEFINE n == Len(b)
           l == [k \in 1..n |-> entry_wire_len(b[k])]
           step == [k \in 1..n |-> [x \in Nat |-> x + l[k]]]
           v[k \in 0..n] == IF k = 0 THEN 0 ELSE v[k - 1] + entry_wire_len(b[k])
<1>1. n \in Nat /\ \A k \in 1..n : entry_wire_len(b[k]) \in Nat /\ l[k] = entry_wire_len(b[k])
  <2>1. \A k \in 1..n : b[k] \in Entries
    OBVIOUS
  <2> QED BY <2>1, EntryLens
<1>2. WireLens(b) = v
  BY Zenon DEF WireLens, v, n
<1> HIDE DEF n, l
<1>3. step \in [1..n -> [Nat -> Nat]]
  BY <1>1
<1>4. PICK f \in [0..n -> Nat] : Follows(f, n, 0, step)
  <2> HIDE DEF step
  <2> QED BY <1>1, <1>3, Recursion
<1>5. f = [k \in 0..n |-> IF k = 0 THEN 0 ELSE f[k - 1] + entry_wire_len(b[k])]
  <2>1. ASSUME NEW k \in 1..n PROVE step[k][f[k - 1]] = f[k - 1] + entry_wire_len(b[k])
    BY <1>1
  <2>2. ASSUME NEW k \in 0..n
        PROVE  (IF k = 0 THEN 0 ELSE step[k][f[k - 1]])
               = IF k = 0 THEN 0 ELSE f[k - 1] + entry_wire_len(b[k])
    BY <1>1, <2>1
  <2> HIDE DEF step
  <2>3. [k \in 0..n |-> IF k = 0 THEN 0 ELSE step[k][f[k - 1]]]
        = [k \in 0..n |-> IF k = 0 THEN 0 ELSE f[k - 1] + entry_wire_len(b[k])]
    BY <2>2
  <2> QED BY <1>4, <2>3, Zenon DEF Follows
<1>6. v = [k \in 0..n |-> IF k = 0 THEN 0 ELSE v[k - 1] + entry_wire_len(b[k])]
  BY <1>5, Zenon DEF v
<1> HIDE DEF v, step
<1>7. /\ v[0] = 0 /\ f[0] = 0
      /\ \A k \in 1..n : /\ v[k] = v[k - 1] + entry_wire_len(b[k])
                         /\ f[k] = f[k - 1] + entry_wire_len(b[k])
  BY <1>1, <1>5, <1>6
<1>8. \A k \in 0..n : v[k] = f[k]
  <2> DEFINE T == {k \in 0..n : v[k] = f[k]}
  <2>1. 0 \in T /\ \A k \in 1..n : k - 1 \in T => k \in T
    BY <1>1, <1>7
  <2> HIDE DEF T
  <2>2. 0..n \subseteq T
    BY <1>1, <2>1, UpTo
  <2> QED BY <2>2 DEF T
<1>9. v \in [0..n -> Nat]
  BY <1>6, <1>8
<1> QED BY <1>2, <1>7, <1>9 DEF n

\* One entry more adds its length.
LEMMA WireLenAppend ==
    ASSUME NEW b \in Seq(Entries), NEW e \in Entries
    PROVE  /\ WireLen(b) \in Nat
           /\ WireLen(Append(b, e)) = WireLen(b) + entry_wire_len(e)
<1> DEFINE n == Len(b)
           c == Append(b, e)
           v == WireLens(b)
           u == WireLens(c)
<1>1. n \in Nat /\ c \in Seq(Entries) /\ Len(c) = n + 1 /\ c[n + 1] = e
      /\ \A k \in 1..n : c[k] = b[k]
  OBVIOUS
<1> HIDE DEF c
<1>2. v \in [0..n -> Nat] /\ v[0] = 0 /\ \A k \in 1..n : v[k] = v[k - 1] + entry_wire_len(b[k])
  BY WireLensStep
<1>3. u[0] = 0 /\ \A k \in 1..(n + 1) : u[k] = u[k - 1] + entry_wire_len(c[k])
  BY <1>1, WireLensStep
<1>4. WireLen(b) = v[n] /\ WireLen(c) = u[n + 1]
  BY <1>1 DEF WireLen
<1> HIDE DEF n, v, u
<1>5. v[n] = u[n]
  <2> DEFINE T == {k \in 0..n : v[k] = u[k]}
  <2>1. 0 \in T
    BY <1>1, <1>2, <1>3
  <2>2. ASSUME NEW k \in 1..n, k - 1 \in T PROVE k \in T
    <3>1. k \in 1..(n + 1) /\ k \in 0..n
      BY <1>1
    <3>2. v[k] = v[k - 1] + entry_wire_len(b[k]) /\ u[k] = u[k - 1] + entry_wire_len(c[k])
      BY <1>2, <1>3, <3>1
    <3>3. v[k - 1] = u[k - 1] /\ c[k] = b[k]
      BY <1>1, <2>2
    <3>4. v[k] = u[k]
      BY <3>2, <3>3, Zenon
    <3> QED BY <3>1, <3>4, Zenon
  <2>3. \A k \in 1..n : k - 1 \in T => k \in T
    BY <2>2
  <2> HIDE DEF T
  <2>4. 0..n \subseteq T
    BY <1>1, <2>1, <2>3, UpTo
  <2> QED BY <1>1, <2>4 DEF T
<1>6. v[n] \in Nat
  BY <1>1, <1>2
<1>7. u[n + 1] = u[n] + entry_wire_len(e)
  <2>1. n + 1 \in 1..(n + 1) /\ (n + 1) - 1 = n
    BY <1>1
  <2>2. u[n + 1] = u[(n + 1) - 1] + entry_wire_len(c[n + 1])
    BY <1>3, <2>1
  <2> QED BY <1>1, <2>1, <2>2
<1>8. WireLen(c) = WireLen(b) + entry_wire_len(e)
  BY <1>4, <1>5, <1>7, Zenon
<1> QED BY <1>4, <1>6, <1>8 DEF c

LEMMA WireLenNone == WireLen(<<>>) = 0
<1> DEFINE b == <<>>
<1>1. Len(b) = 0 /\ b \in Seq(Entries)
  OBVIOUS
<1> HIDE DEF b
<1>2. WireLens(b)[0] = 0
  BY <1>1, WireLensStep
<1> QED BY <1>1, <1>2 DEF WireLen, b

LEMMA PrefixGrows ==
    ASSUME NEW S, NEW s \in Seq(S), NEW n \in 1..Len(s)
    PROVE  /\ s[n] \in S /\ SubSeq(s, 1, n - 1) \in Seq(S) /\ SubSeq(s, 1, n) \in Seq(S)
           /\ SubSeq(s, 1, n) = Append(SubSeq(s, 1, n - 1), s[n])
<1> DEFINE u == SubSeq(s, 1, n - 1)
           v == SubSeq(s, 1, n)
           w == Append(u, s[n])
<1>1. s[n] \in S /\ n - 1 \in 0..Len(s) /\ n \in 0..Len(s) /\ n \in Nat
  OBVIOUS
<1>2. u \in Seq(S) /\ Len(u) = n - 1 /\ v \in Seq(S) /\ Len(v) = n
  BY <1>1, Halves
<1>3. (\A i \in 1..(n - 1) : u[i] = s[i]) /\ \A i \in 1..n : v[i] = s[i]
  OBVIOUS
<1> HIDE DEF u, v
<1>4. w \in Seq(S) /\ Len(w) = n /\ w[n] = s[n] /\ \A i \in 1..(n - 1) : w[i] = u[i]
  BY <1>1, <1>2
<1> HIDE DEF w
<1>5. ASSUME NEW i \in 1..n PROVE v[i] = w[i]
  <2>1. i = n \/ i \in 1..(n - 1)
    OBVIOUS
  <2> QED BY <1>3, <1>4, <2>1
<1>6. v = w
  BY <1>1, <1>2, <1>4, <1>5, SeqEqual
<1> QED BY <1>1, <1>2, <1>6 DEF u, v, w

LEMMA FlattenAppend ==
    ASSUME NEW B, NEW q \in Seq(Seq(B)), NEW x \in Seq(B)
    PROVE  /\ FlattenSeq(q) \in Seq(B)
           /\ FlattenSeq(Append(q, x)) = FlattenSeq(q) \o x
<1> DEFINE T == Seq(B)
           y == <<x>>
<1>1. y \in Seq(T)
  OBVIOUS
<1>2. Append(q, x) = q \o y
  <2> HIDE DEF T
  <2>1. q \in Seq(T) /\ x \in T
    BY DEF T
  <2> QED BY <2>1, AppendIsConcat
<1>3. FlattenSeq(y) = x
  BY FlattenOne
<1> HIDE DEF y
<1>4. FlattenSeq(q \o y) = FlattenSeq(q) \o FlattenSeq(y)
  BY <1>1, FlattenConcat
<1>5. FlattenSeq(q) \in Seq(B)
  <2>1. PICK F : Joins(F, q, B)
    BY JoinsExist
  <2> QED BY <2>1, JoinsFlatten
<1> QED BY <1>2, <1>3, <1>4, <1>5

\* A longer front part takes no fewer bytes.
LEMMA WireLenUp ==
    ASSUME NEW s \in Seq(Entries), NEW n \in 0..Len(s), NEW m \in 0..Len(s), n <= m
    PROVE  /\ WireLen(SubSeq(s, 1, n)) \in Nat /\ WireLen(SubSeq(s, 1, m)) \in Nat
           /\ WireLen(SubSeq(s, 1, n)) <= WireLen(SubSeq(s, 1, m))
<1> DEFINE l(k) == WireLen(SubSeq(s, 1, k))
           top == Len(s)
           T == {k \in 0..top : k >= n => l(n) <= l(k)}
<1>1. ASSUME NEW k \in 0..top PROVE l(k) \in Nat
  <2>1. SubSeq(s, 1, k) \in Seq(Entries)
    BY Halves
  <2>2. \E e : e \in Entries
    <3>1. [epoch |-> 0, bytes |-> <<>>] \in Entries
      BY DEF Entries
    <3> QED BY <3>1
  <2> QED BY <2>1, <2>2, WireLenAppend
<1>2. ASSUME NEW k \in 1..top PROVE l(k) >= l(k - 1)
  <2>1. s[k] \in Entries /\ SubSeq(s, 1, k - 1) \in Seq(Entries)
        /\ SubSeq(s, 1, k) = Append(SubSeq(s, 1, k - 1), s[k])
    BY PrefixGrows
  <2>2. l(k) = l(k - 1) + entry_wire_len(s[k]) /\ l(k - 1) \in Nat
    BY <2>1, WireLenAppend
  <2>3. entry_wire_len(s[k]) \in Nat
    BY <2>1, EntryLens
  <2> QED BY <2>2, <2>3
<1>3. top \in Nat /\ n \in 0..top /\ m \in 0..top
  OBVIOUS
<1> HIDE DEF l, top
<1>4. 0 \in T
  BY <1>1, <1>3
<1>5. ASSUME NEW k \in 1..top, k - 1 \in T PROVE k \in T
  <2>1. k \in 0..top /\ k - 1 \in 0..top /\ l(k) >= l(k - 1)
    BY <1>2, <1>3
  <2>2. l(k) \in Nat /\ l(k - 1) \in Nat /\ l(n) \in Nat
    BY <1>1, <1>3, <2>1
  <2>3. k - 1 >= n => l(n) <= l(k - 1)
    BY <1>5
  <2>4. k >= n => k - 1 >= n \/ k = n
    BY <1>3
  <2> QED BY <2>1, <2>2, <2>3, <2>4
<1> HIDE DEF T
<1>6. 0..top \subseteq T
  BY <1>3, <1>4, <1>5, UpTo
<1>7. m \in T
  BY <1>3, <1>6
<1>8. l(n) <= l(m)
  BY <1>7 DEF T
<1>9. l(n) \in Nat /\ l(m) \in Nat
  BY <1>1, <1>3
<1> QED BY <1>8, <1>9 DEF l

-----------------------------------------------------------------------------
BucketTypes ==
    /\ window \in Windows /\ total_budget \in Budgets /\ done \in BOOLEAN
    /\ next \in 1..(Len(window) + 1)
    /\ buckets \in Seq(Seq(Takable)) /\ current \in Seq(Takable)

\* What has been taken is the front part of the window, and its bytes are counted.
Gathered ==
    /\ FlattenSeq(buckets) \o current = SubSeq(window, 1, next - 1)
    /\ total_len = WireLen(SubSeq(window, 1, next - 1)) /\ total_len <= total_budget

Stopped == done => current = <<>> /\ (next <= Len(window) => ~Fits)

Holds(b) == TRANSCRIPT_HEADER_LEN + WireLen(b) <= PerDatagramBudget

Sized ==
    /\ ~done => current_len = TRANSCRIPT_HEADER_LEN + WireLen(current)
    /\ current # <<>> => Holds(current)
    /\ \A i \in DOMAIN buckets : Holds(buckets[i])

BucketInv == BucketTypes /\ Gathered /\ Stopped /\ Sized

LEMMA BucketStarts == BucketInit => BucketInv
<1> SUFFICES ASSUME BucketInit PROVE BucketInv
  OBVIOUS
<1>1. window \in Windows /\ total_budget \in Budgets /\ total_budget \in Nat /\ done = FALSE
      /\ next = 1 /\ buckets = <<>> /\ current = <<>> /\ total_len = 0
      /\ current_len = TRANSCRIPT_HEADER_LEN /\ TRANSCRIPT_HEADER_LEN \in Nat
  BY BucketConstants DEF BucketInit
<1>2. window \in Seq(Known)
  BY <1>1, WindowKnown
<1>3. SubSeq(window, 1, 0) = <<>> /\ Len(window) \in Nat
  BY <1>2
<1>4. BucketTypes
  <2>1. next \in 1..(Len(window) + 1) /\ done \in BOOLEAN
    <3> DEFINE n == Len(window)
    <3>1. next = 1 /\ n \in Nat /\ done = FALSE
      BY <1>1, <1>3
    <3> HIDE DEF n
    <3>2. next \in 1..(n + 1)
      BY <3>1
    <3> QED BY <3>1, <3>2 DEF n
  <2>2. buckets \in Seq(Seq(Takable)) /\ current \in Seq(Takable)
    BY <1>1
  <2> QED BY <1>1, <2>1, <2>2 DEF BucketTypes
<1>5. Gathered
  <2>1. FlattenSeq(buckets) \o current = <<>>
    <3>1. FlattenSeq(buckets) = <<>>
      BY <1>1, FlattenEmpty
    <3> QED BY <1>1, <3>1
  <2>2. next - 1 = 0
    BY <1>1
  <2>3. total_len <= total_budget
    BY <1>1
  <2> QED BY <1>1, <1>3, <2>1, <2>2, <2>3, WireLenNone DEF Gathered
<1>6. Stopped /\ Sized
  BY <1>1, WireLenNone DEF Stopped, Sized
<1> QED BY <1>4, <1>5, <1>6 DEF BucketInv

LEMMA StopKeeps == ASSUME BucketInv, Stop PROVE BucketInv'
<1>1. /\ ~done /\ (next <= Len(window) => ~Fits)
      /\ buckets' = IF current = <<>> THEN buckets ELSE Append(buckets, current)
      /\ current' = <<>> /\ done' = TRUE
      /\ UNCHANGED <<window, total_budget, next, total_len>>
  BY DEF Stop
<1>2. BucketTypes'
  BY <1>1 DEF BucketInv, BucketTypes
<1>3. FlattenSeq(buckets') \o current' = FlattenSeq(buckets) \o current
  <2>1. buckets \in Seq(Seq(Takable)) /\ current \in Seq(Takable)
    BY DEF BucketInv, BucketTypes
  <2>2. /\ FlattenSeq(buckets) \in Seq(Takable)
        /\ FlattenSeq(Append(buckets, current)) = FlattenSeq(buckets) \o current
    BY <2>1, FlattenAppend
  <2>3. FlattenSeq(buckets) \o current \in Seq(Takable)
    BY <2>1, <2>2, ConcatProperties
  <2>4. CASE current = <<>>
    BY <1>1, <2>4
  <2>5. CASE current # <<>>
    <3> DEFINE z == FlattenSeq(buckets) \o current
    <3>1. FlattenSeq(buckets') = z
      BY <1>1, <2>2, <2>5
    <3> HIDE DEF z
    <3>2. z \o <<>> = z
      BY <2>3, ConcatEmptySeq DEF z
    <3> QED BY <1>1, <3>1, <3>2 DEF z
  <2> QED BY <2>4, <2>5
<1>4. Gathered'
  BY <1>1, <1>3 DEF BucketInv, Gathered
<1>5. Stopped'
  BY <1>1 DEF Stopped, Fits
<1>6. Sized'
  <2>1. buckets \in Seq(Seq(Takable)) /\ current \in Seq(Takable)
    BY DEF BucketInv, BucketTypes
  <2>2. (\A i \in DOMAIN buckets : Holds(buckets[i])) /\ (current # <<>> => Holds(current))
    BY DEF BucketInv, Sized
  <2>3. \A i \in DOMAIN buckets' : Holds(buckets'[i])
    BY <1>1, <2>1, <2>2
  <2> QED BY <1>1, <2>3 DEF Sized, Holds
<1> QED BY <1>2, <1>4, <1>5, <1>6 DEF BucketInv

LEMMA TakeKeeps == ASSUME BucketInv, Take PROVE BucketInv'
<1> DEFINE e == window[next]
           b == IF Full THEN <<>> ELSE current
           H == TRANSCRIPT_HEADER_LEN
<1>1. /\ ~done /\ next <= Len(window) /\ Fits
      /\ buckets' = IF Full THEN Append(buckets, current) ELSE buckets
      /\ current' = Append(b, e)
      /\ current_len' = (IF Full THEN H ELSE current_len) + entry_wire_len(e)
      /\ total_len' = total_len + entry_wire_len(e)
      /\ next' = next + 1
      /\ window' = window /\ total_budget' = total_budget /\ done' = done
  BY DEF Take, TakeInto
<1>2. /\ window \in Windows /\ done \in BOOLEAN /\ next \in 1..(Len(window) + 1)
      /\ buckets \in Seq(Seq(Takable)) /\ current \in Seq(Takable) /\ b \in Seq(Takable)
  BY DEF BucketInv, BucketTypes
<1>3. window \in Seq(Known) /\ Len(window) \in Nat
  BY <1>2, WindowKnown
<1>4. next \in 1..Len(window) /\ next + 1 \in 1..(Len(window) + 1) /\ (next + 1) - 1 = next
  BY <1>1, <1>2, <1>3
<1>5. /\ e \in Known /\ SubSeq(window, 1, next - 1) \in Seq(Known)
      /\ SubSeq(window, 1, next) = Append(SubSeq(window, 1, next - 1), e)
  BY <1>3, <1>4, PrefixGrows
<1>6. e \in Takable /\ e \in Entries
  BY <1>1, <1>5 DEF Fits, Takable, Known
<1>7. entry_wire_len(e) \in Nat /\ H \in Nat /\ PerDatagramBudget \in Int
  BY <1>6, EntryLens, BucketConstants DEF PerDatagramBudget
<1>8. Seq(Takable) \subseteq Seq(Entries) /\ Seq(Known) \subseteq Seq(Entries)
  BY DEF Takable, Known
<1>9. WireLen(b) \in Nat /\ WireLen(Append(b, e)) = WireLen(b) + entry_wire_len(e)
  BY <1>2, <1>6, <1>8, WireLenAppend
<1> HIDE DEF e, b
<1>10. BucketTypes'
  <2>1. buckets' \in Seq(Seq(Takable))
    BY <1>1, <1>2
  <2>2. current' \in Seq(Takable)
    BY <1>1, <1>2, <1>6
  <2> QED BY <1>1, <1>2, <1>4, <2>1, <2>2 DEF BucketInv, BucketTypes
<1>11. Gathered'
  <2> DEFINE u == SubSeq(window, 1, next - 1)
             f == FlattenSeq(buckets)
  <2>1. f \o current = u /\ total_len = WireLen(u)
    BY DEF BucketInv, Gathered
  <2>2. /\ f \in Seq(Takable)
        /\ FlattenSeq(Append(buckets, current)) = f \o current
    BY <1>2, FlattenAppend
  <2>3. FlattenSeq(buckets') \o b = u
    <3>1. CASE Full
      <4>1. FlattenSeq(buckets') = u /\ b = <<>>
        BY <1>1, <2>1, <2>2, <3>1 DEF b
      <4> HIDE DEF u
      <4>2. u \o <<>> = u
        BY <1>5, ConcatEmptySeq DEF u
      <4> QED BY <4>1, <4>2
    <3>2. CASE ~Full
      BY <1>1, <2>1, <3>2 DEF b
    <3> QED BY <3>1, <3>2
  <2>4. FlattenSeq(buckets') \in Seq(Takable)
    <3>1. CASE Full
      BY <1>1, <1>2, <2>2, <3>1, ConcatProperties
    <3>2. CASE ~Full
      BY <1>1, <2>2, <3>2
    <3> QED BY <3>1, <3>2
  <2> HIDE DEF f
  <2> DEFINE g == FlattenSeq(buckets')
  <2>5. g \o Append(b, e) = Append(g \o b, e)
    <3> HIDE DEF g
    <3>1. g \in Seq(Takable)
      BY <2>4 DEF g
    <3> QED BY <1>2, <1>6, <3>1
  <2>6. g \o current' = SubSeq(window, 1, next)
    BY <1>1, <1>5, <2>3, <2>5, Zenon
  <2>7. FlattenSeq(buckets') \o current' = SubSeq(window', 1, next' - 1)
    BY <1>1, <1>4, <2>6
  <2>8. total_len' = WireLen(SubSeq(window, 1, next))
    <3> HIDE DEF u
    <3>1. u \in Seq(Entries)
      BY <1>5, <1>8 DEF u
    <3>2. WireLen(Append(u, e)) = WireLen(u) + entry_wire_len(e)
      BY <1>6, <3>1, WireLenAppend
    <3> QED BY <1>1, <1>5, <2>1, <3>2, Zenon DEF u
  <2>9. total_len' <= total_budget'
    BY <1>1 DEF Fits, e
  <2> QED BY <1>1, <1>4, <2>7, <2>8, <2>9 DEF Gathered
<1>12. Stopped'
  BY <1>1 DEF Stopped
<1>13. Sized'
  <2>1. current_len = H + WireLen(current) /\ (current # <<>> => Holds(current))
        /\ \A i \in DOMAIN buckets : Holds(buckets[i])
    BY <1>1 DEF BucketInv, Sized
  <2>2. H + entry_wire_len(e) <= PerDatagramBudget
    BY <1>1 DEF Fits, e
  <2>3. CASE Full
    <3>1. b = <<>> /\ WireLen(b) = 0
      BY <2>3, WireLenNone DEF b
    <3>2. current # <<>>
      <4>1. SUFFICES ASSUME current = <<>> PROVE FALSE
        OBVIOUS
      <4>2. current_len = H
        BY <1>7, <2>1, <4>1, WireLenNone
      <4> QED BY <1>7, <2>2, <2>3, <4>2 DEF Full, e
    <3>3. Holds(current')
      BY <1>1, <1>7, <1>9, <2>2, <3>1 DEF Holds
    <3>4. buckets' = Append(buckets, current) /\ Holds(current)
      BY <1>1, <2>1, <2>3, <3>2
    <3>5. \A i \in DOMAIN buckets' : Holds(buckets'[i])
      BY <1>2, <2>1, <3>4
    <3>6. current_len' = H + WireLen(current')
      BY <1>1, <1>7, <1>9, <2>3, <3>1
    <3> QED BY <3>3, <3>5, <3>6 DEF Sized, Holds
  <2>4. CASE ~Full
    <3>1. b = current /\ buckets' = buckets
      BY <1>1, <2>4 DEF b
    <3>2. current_len' = H + WireLen(current')
      BY <1>1, <1>7, <1>9, <2>1, <2>4, <3>1
    <3>3. current_len' <= PerDatagramBudget
      <4>1. current_len' = current_len + entry_wire_len(e) /\ current_len \in Nat
        BY <1>1, <1>7, <1>9, <2>1, <2>4, <3>1
      <4> QED BY <1>7, <2>4, <4>1 DEF Full, e
    <3> QED BY <2>1, <3>1, <3>2, <3>3 DEF Sized, Holds
  <2> QED BY <2>3, <2>4
<1> QED BY <1>10, <1>11, <1>12, <1>13 DEF BucketInv

LEMMA BucketInvHolds == Spec => []BucketInv
<1>1. BucketInv /\ [Next]_vars => BucketInv'
  <2> SUFFICES ASSUME BucketInv, [Next]_vars PROVE BucketInv'
    OBVIOUS
  <2>1. CASE Stop
    BY <2>1, StopKeeps
  <2>2. CASE Take
    BY <2>2, TakeKeeps
  <2>3. CASE UNCHANGED bucketVars
    BY <2>3 DEF bucketVars, BucketInv, BucketTypes, Gathered, Stopped, Fits, Sized
  <2> QED BY <2>1, <2>2, <2>3 DEF Next, CutWindow, BucketLoop, EncodeBucket, CodeAndCarry, vars
<1>2. Init => BucketInv
  BY BucketStarts DEF Init
<1> QED BY <1>1, <1>2, PTL DEF Spec

\* LongestPrefixGoesOut: the buckets joined are the longest front part of the window whose
\* entries each fit a datagram and together fit the budget (preamble.rs:63-84).
THEOREM SendsLongestPrefix == Spec => []LongestPrefixGoesOut
<1>1. ASSUME BucketInv PROVE LongestPrefixGoesOut
  <2> SUFFICES ASSUME done PROVE FlattenSeq(buckets) =
                   SubSeq(window, 1, Max({n \in 0..Len(window) : Allowed(n)}))
    BY DEF LongestPrefixGoesOut
  <2> DEFINE l(k) == WireLen(SubSeq(window, 1, k))
             N == Len(window)
             A == {n \in 0..N : Allowed(n)}
             m == next - 1
  <2>1. /\ window \in Seq(Known) /\ next \in 1..(N + 1)
        /\ buckets \in Seq(Seq(Takable)) /\ current = <<>>
        /\ FlattenSeq(buckets) \o current = SubSeq(window, 1, m)
        /\ l(m) <= total_budget /\ total_len = l(m)
        /\ next <= N => ~Fits
        /\ total_budget \in Nat
    BY <1>1, WindowKnown, BucketConstants DEF BucketInv, BucketTypes, Gathered, Stopped
  <2>2. N \in Nat /\ m \in 0..N /\ window \in Seq(Entries) /\ m + 1 = next
    <3>1. N \in Nat /\ window \in Seq(Entries)
      BY <2>1 DEF Known
    <3> HIDE DEF N
    <3> QED BY <2>1, <3>1
  <2>3. FlattenSeq(buckets) \in Seq(Takable)
    BY <2>1, FlattenAppend
  <2>4. FlattenSeq(buckets) = SubSeq(window, 1, m)
    <3> DEFINE g == FlattenSeq(buckets)
    <3> HIDE DEF g
    <3>1. g \o <<>> = g
      BY <2>3, ConcatEmptySeq DEF g
    <3> QED BY <2>1, <3>1 DEF g
  <2>5. \A k \in 1..m : TRANSCRIPT_HEADER_LEN + entry_wire_len(window[k]) <= PerDatagramBudget
    <3> DEFINE g == FlattenSeq(buckets)
    <3> HIDE DEF g
    <3>1. g \in Seq(Takable) /\ Len(g) = m /\ \A k \in 1..m : g[k] = window[k]
      <4>1. Len(SubSeq(window, 1, m)) = m /\ \A k \in 1..m : SubSeq(window, 1, m)[k] = window[k]
        BY <2>2
      <4> QED BY <2>3, <2>4, <4>1 DEF g
    <3>2. \A k \in 1..m : window[k] \in Takable
      BY <3>1
    <3> QED BY <3>2 DEF Takable
  <2>6. m \in A
    BY <2>1, <2>2, <2>5 DEF Allowed
  <2>7. ASSUME NEW n \in A PROVE n <= m
    <3>1. n \in 0..N /\ Allowed(n)
      OBVIOUS
    <3>2. SUFFICES ASSUME n > m PROVE FALSE
      BY <2>2, <3>1
    <3>3. next \in 1..N /\ next \in 1..n /\ next <= n /\ next \in 0..N
      <4> HIDE DEF N
      <4> QED BY <2>1, <2>2, <3>1, <3>2
    <3>4. l(next) <= l(n) /\ l(n) <= total_budget /\ l(n) \in Nat /\ l(next) \in Nat
      BY <2>2, <3>1, <3>3, WireLenUp DEF Allowed
    <3>5. l(next) = l(m) + entry_wire_len(window[next])
      <4>1. /\ window[next] \in Entries /\ SubSeq(window, 1, m) \in Seq(Entries)
            /\ SubSeq(window, 1, next) = Append(SubSeq(window, 1, m), window[next])
        BY <2>2, <3>3, PrefixGrows
      <4> QED BY <4>1, WireLenAppend
    <3>6. TRANSCRIPT_HEADER_LEN + entry_wire_len(window[next]) <= PerDatagramBudget
      BY <3>1, <3>3 DEF Allowed
    <3> HIDE DEF l, N
    <3>7. Fits
      <4>1. total_len + entry_wire_len(window[next]) <= total_budget
        BY <2>1, <3>4, <3>5
      <4> QED BY <3>6, <4>1 DEF Fits
    <3> QED BY <2>1, <3>3, <3>7
  <2> HIDE DEF A
  <2>8. Max(A) = m
    <3>1. \A x \in A : m >= x /\ x \in Int
      BY <2>2, <2>7 DEF A
    <3>2. Max(A) \in A /\ \A x \in A : Max(A) >= x
      BY <2>6, <3>1 DEF Max
    <3>3. Max(A) >= m /\ m >= Max(A) /\ Max(A) \in Int /\ m \in Int
      BY <2>2, <2>6, <3>1, <3>2
    <3> HIDE DEF m
    <3> QED BY <3>3
  <2> QED BY <2>4, <2>8 DEF A
<1> QED BY <1>1, BucketInvHolds, PTL

-----------------------------------------------------------------------------
(* The bytes of a bucket.                                                  *)

EntryFn == [e \in Entries |-> Entry(e)]
Body(s) == Joined(EntryFn, s)

LEMMA EntryIs ==
    ASSUME NEW e \in Entries
    PROVE  /\ Entry(e) \in Seq(Byte) /\ Len(Entry(e)) = EntryLen(e) /\ EntryLen(e) \in Nat
           /\ BigEndian(e.epoch, EPOCH) \in Seq(Byte) /\ Len(BigEndian(e.epoch, EPOCH)) = EPOCH
           /\ BigEndian(Len(e.bytes), WORD) \in Seq(Byte)
           /\ Len(BigEndian(Len(e.bytes), WORD)) = WORD
<1> DEFINE a == BigEndian(e.epoch, EPOCH)
           n == Len(e.bytes)
           b == BigEndian(n, WORD)
           c == e.bytes
<1>1. e.epoch \in Nat /\ c \in Seq(Byte) /\ n \in Nat
  BY DEF Entries
<1>2. EPOCH \in Nat /\ WORD \in Nat
  BY ByteConstants, TranscriptConstants
<1>3. a \in Seq(Byte) /\ Len(a) = EPOCH
  <2>1. AreBytesOf(a, e.epoch, EPOCH)
    BY <1>1, <1>2, BytesOf
  <2> QED BY <2>1 DEF AreBytesOf
<1>4. b \in Seq(Byte) /\ Len(b) = WORD
  <2> HIDE DEF n
  <2>1. AreBytesOf(b, n, WORD)
    BY <1>1, <1>2, BytesOf
  <2> QED BY <2>1 DEF AreBytesOf
<1>5. Entry(e) = (a \o b) \o c /\ EntryLen(e) = EPOCH + WORD + n
  BY Zenon DEF Entry, EntryLen
<1>6. n = Len(c)
  OBVIOUS
<1> HIDE DEF a, b, c, n
<1>7. (a \o b) \in Seq(Byte) /\ Len(a \o b) = EPOCH + WORD
  BY <1>3, <1>4, ConcatProperties
<1> DEFINE ab == a \o b
<1>8. ab \in Seq(Byte) /\ Len(ab) = EPOCH + WORD
  BY <1>7
<1> HIDE DEF ab
<1>9. ab \o c \in Seq(Byte) /\ Len(ab \o c) = EPOCH + WORD + n
  BY <1>1, <1>2, <1>6, <1>8, ConcatProperties
<1>10. Entry(e) \in Seq(Byte) /\ Len(Entry(e)) = EntryLen(e) /\ EntryLen(e) \in Nat
  BY <1>1, <1>2, <1>5, <1>9 DEF ab
<1> QED BY <1>3, <1>4, <1>10 DEF a, b, n

LEMMA EntryFnIs == EntryFn \in [Entries -> Seq(Byte)] /\ \A e \in Entries : EntryFn[e] = Entry(e)
<1>1. \A e \in Entries : Entry(e) \in Seq(Byte)
  BY EntryIs
<1> QED BY <1>1 DEF EntryFn

LEMMA BodyNone == Body(<<>>) = <<>>
BY JoinedNone DEF Body

LEMMA BodyIs == ASSUME NEW s \in Seq(Entries) PROVE Body(s) \in Seq(Byte)
BY EntryFnIs, JoinedIs DEF Body

LEMMA BodyConcat ==
    ASSUME NEW s \in Seq(Entries), NEW t \in Seq(Entries)
    PROVE  Body(s \o t) = Body(s) \o Body(t)
<1>1. JoinsUp(EntryFn, s, t)
  BY EntryFnIs, JoinedConcat
<1> QED BY <1>1, Zenon DEF JoinsUp, Body

LEMMA BodyAppend ==
    ASSUME NEW s \in Seq(Entries), NEW e \in Entries
    PROVE  Body(Append(s, e)) = Body(s) \o Entry(e)
<1> DEFINE t == <<e>>
<1>1. t \in Seq(Entries) /\ Append(s, e) = s \o t
  BY AppendIsConcat
<1>2. Body(t) = Entry(e)
  <2>1. Joined(EntryFn, <<e>>) = EntryFn[e]
    BY EntryFnIs, JoinedOne
  <2> QED BY <2>1, EntryFnIs DEF Body
<1> HIDE DEF t
<1>3. Body(s \o t) = Body(s) \o Body(t)
  BY <1>1, BodyConcat
<1> QED BY <1>1, <1>2, <1>3, Zenon

HeaderOf(n) == MAGIC \o BigEndian(n, WORD)

LEMMA FrontIs ==
    ASSUME NEW n \in Nat
    PROVE  /\ HeaderOf(n) \in Seq(Byte) /\ Len(HeaderOf(n)) = HeaderLen
           /\ HeaderLen \in Nat /\ HeaderLen > 0
           /\ MAGIC \in Seq(Byte)
           /\ BigEndian(n, WORD) \in Seq(Byte) /\ Len(BigEndian(n, WORD)) = WORD
<1> DEFINE b == BigEndian(n, WORD)
<1>1. MAGIC \in Seq(Byte) /\ WORD \in Nat \ {0} /\ WORD \in Nat
  BY TranscriptConstants
<1>2. b \in Seq(Byte) /\ Len(b) = WORD
  <2>1. AreBytesOf(b, n, WORD)
    BY <1>1, BytesOf
  <2> QED BY <2>1 DEF AreBytesOf
<1> HIDE DEF b
<1>3. MAGIC \o b \in Seq(Byte) /\ Len(MAGIC \o b) = Len(MAGIC) + WORD
  BY <1>1, <1>2, ConcatProperties
<1>4. Len(MAGIC) \in Nat
  BY <1>1
<1>5. HeaderLen \in Nat /\ HeaderLen > 0
  BY <1>1, <1>4 DEF HeaderLen
<1> QED BY <1>1, <1>2, <1>3, <1>5 DEF HeaderOf, b, HeaderLen

LEMMA BlobIs ==
    ASSUME NEW n \in Nat, NEW s \in Seq(Entries)
    PROVE  /\ Blob(n, s) = HeaderOf(n) \o Body(s)
           /\ Blob(n, s) \in Seq(Byte)
           /\ Len(Blob(n, s)) = HeaderLen + Len(Body(s))
<1>1. [i \in DOMAIN s |-> Entry(s[i])] = Mapped(EntryFn, s)
  <2>1. \A i \in DOMAIN s : s[i] \in Entries
    OBVIOUS
  <2>2. \A i \in DOMAIN s : EntryFn[s[i]] = Entry(s[i])
    BY <2>1, EntryFnIs
  <2> QED BY <2>2 DEF Mapped
<1>2. Blob(n, s) = HeaderOf(n) \o Body(s)
  BY <1>1, Zenon DEF Blob, HeaderOf, Body, Joined
<1> DEFINE f == HeaderOf(n)
           b == Body(s)
<1>3. f \in Seq(Byte) /\ Len(f) = HeaderLen /\ b \in Seq(Byte)
  BY FrontIs, BodyIs
<1> HIDE DEF f, b
<1>4. f \o b \in Seq(Byte) /\ Len(f \o b) = HeaderLen + Len(b)
  BY <1>3, ConcatProperties
<1> QED BY <1>2, <1>4 DEF f, b

LEMMA BlobNone == ASSUME NEW n \in Nat PROVE Blob(n, <<>>) = HeaderOf(n)
<1> DEFINE s == <<>>
           f == HeaderOf(n)
<1>1. s \in Seq(Entries) /\ Body(s) = <<>>
  BY BodyNone
<1> HIDE DEF s
<1>2. Blob(n, s) = f \o Body(s) /\ f \in Seq(Byte)
  BY <1>1, BlobIs, FrontIs
<1> HIDE DEF f
<1>3. f \o <<>> = f
  BY <1>2, ConcatEmptySeq
<1> QED BY <1>1, <1>2, <1>3 DEF s, f

LEMMA BlobAppend ==
    ASSUME NEW n \in Nat, NEW s \in Seq(Entries), NEW e \in Entries
    PROVE  Blob(n, Append(s, e)) = Blob(n, s) \o Entry(e)
<1> DEFINE f == HeaderOf(n)
           b == Body(s)
           c == Entry(e)
           t == Append(s, e)
<1>1. f \in Seq(Byte) /\ b \in Seq(Byte) /\ c \in Seq(Byte) /\ t \in Seq(Entries)
  BY FrontIs, BodyIs, EntryIs
<1>2. Body(t) = b \o c
  BY BodyAppend
<1>3. Blob(n, t) = f \o Body(t) /\ Blob(n, s) = f \o b
  BY <1>1, BlobIs
<1> HIDE DEF f, b, c, t
<1>4. Grouped(f, b, c)
  BY <1>1, Group
<1>5. Blob(n, t) = Blob(n, s) \o c
  BY <1>2, <1>3, <1>4, Zenon DEF Grouped
<1> QED BY <1>5 DEF c, t

LEMMA LenBodyAppend ==
    ASSUME NEW s \in Seq(Entries), NEW e \in Entries
    PROVE  /\ Len(Body(s)) \in Nat /\ EntryLen(e) \in Nat
           /\ Len(Body(Append(s, e))) = Len(Body(s)) + EntryLen(e)
<1> DEFINE b == Body(s)
           c == Entry(e)
<1>1. b \in Seq(Byte) /\ c \in Seq(Byte) /\ Len(c) = EntryLen(e) /\ EntryLen(e) \in Nat
  BY BodyIs, EntryIs
<1>2. Body(Append(s, e)) = b \o c
  BY BodyAppend
<1> HIDE DEF b, c
<1>3. Len(b \o c) = Len(b) + Len(c) /\ Len(b) \in Nat
  BY <1>1
<1> QED BY <1>1, <1>2, <1>3 DEF b

\* The lengths that preamble.rs and transcript.rs have are the same.
LengthsAgree == TRANSCRIPT_HEADER_LEN = HeaderLen /\ EntryHeaderLen = EPOCH + WORD

\* Each entry counts, and what is counted is what is written.
LEMMA WireLenCounts ==
    ASSUME NEW s \in Seq(Entries)
    PROVE  /\ WireLen(s) \in Nat /\ WireLen(s) >= Len(s)
           /\ LengthsAgree => WireLen(s) = Len(Body(s))
<1> DEFINE top == Len(s)
           u(k) == SubSeq(s, 1, k)
           l(k) == WireLen(u(k))
           T == {k \in 0..top : /\ l(k) \in Nat /\ l(k) >= k
                                /\ LengthsAgree => l(k) = Len(Body(u(k)))}
<1>1. top \in Nat /\ u(0) = <<>> /\ u(top) = s
  OBVIOUS
<1>2. ASSUME NEW k \in 1..top
      PROVE  /\ s[k] \in Entries /\ u(k - 1) \in Seq(Entries)
             /\ u(k) = Append(u(k - 1), s[k])
  BY PrefixGrows
<1> HIDE DEF top, u
<1>3. 0 \in T
  <2>1. l(0) = 0 /\ Len(Body(u(0))) = 0
    BY <1>1, WireLenNone, BodyNone
  <2> QED BY <1>1, <2>1
<1>4. ASSUME NEW k \in 1..top, k - 1 \in T PROVE k \in T
  <2>1. l(k) = l(k - 1) + entry_wire_len(s[k])
    BY <1>2, WireLenAppend
  <2>2. Len(Body(u(k))) = Len(Body(u(k - 1))) + EntryLen(s[k])
    BY <1>2, LenBodyAppend
  <2>3. entry_wire_len(s[k]) \in Nat \ {0} /\ Len(s[k].bytes) \in Nat
    BY <1>2, EntryLens
  <2>4. LengthsAgree => entry_wire_len(s[k]) = EntryLen(s[k])
    BY <2>3, Zenon DEF LengthsAgree, entry_wire_len, EntryLen
  <2>5. l(k - 1) \in Nat /\ l(k - 1) >= k - 1 /\ (LengthsAgree => l(k - 1) = Len(Body(u(k - 1))))
    BY <1>4
  <2> HIDE DEF l
  <2>6. l(k) \in Nat /\ l(k) >= k
    BY <1>1, <2>1, <2>3, <2>5
  <2>7. LengthsAgree => l(k) = Len(Body(u(k)))
    BY <2>1, <2>2, <2>4, <2>5, Zenon
  <2>8. k \in 0..top
    BY <1>1
  <2> QED BY <2>6, <2>7, <2>8 DEF l
<1> HIDE DEF T
<1>5. 0..top \subseteq T
  BY <1>1, <1>3, <1>4, UpTo
<1>6. top \in T
  BY <1>1, <1>5
<1> QED BY <1>1, <1>6 DEF T, top

-----------------------------------------------------------------------------
(* A bucket encoded, carried and decoded.                                  *)

Taken  == SubSeq(bucket, 1, included)
Unsent == result \in {"idle", "encoding", "sent"}

TranscriptTypes ==
    /\ bucket \in Seq(Entries) /\ max_bytes \in Nat /\ included \in 0..Len(bucket)
    /\ bytes \in Seq(Byte) /\ datagram \in Seq(Byte)
    /\ pos \in Nat /\ count \in Nat /\ out \in Seq(Entries)
    /\ result \in {"idle", "encoding", "sent", "decoding", "ok", "Truncated", "BadMagic"}
    /\ fate \in {"whole", "cut", "padded", "altered"}

\* There are bytes enough for every number, and room for every entry.
Countable(b) ==
    /\ \A n \in 0..Len(b) : FitsIn(n, WORD)
    /\ \A k \in DOMAIN b : FitsIn(b[k].epoch, EPOCH) /\ FitsIn(Len(b[k].bytes), WORD)
    /\ LengthsAgree /\ b # <<>> => HeaderLen + Len(Body(b)) <= PerDatagramBudget

Written ==
    /\ IF result = "idle" THEN included = 0 ELSE Countable(bucket)
    /\ body_len = Len(Body(Taken))
    /\ result \notin {"idle", "encoding"} =>
           /\ ~NextFits
           /\ bytes = IF included = 0 THEN <<>> ELSE Blob(included, Taken)
    /\ ~Unsent => included > 0

Agree(d, b) == \A i \in 1..Len(d) : i <= Len(b) => d[i] = b[i]

Arrived ==
    ~Unsent /\ fate # "altered" =>
        Agree(datagram, bytes) /\ (fate = "cut" <=> Len(datagram) < Len(bytes))

ReadSoFar ==
    /\ pos <= Len(datagram) /\ Len(out) <= count
    /\ Unsent => pos = 0
    /\ IF pos = 0 THEN out = <<>> /\ count = 0 ELSE Blob(count, out) = SubSeq(datagram, 1, pos)

InStep == pos > 0 /\ fate # "altered" => count = included /\ out = SubSeq(bucket, 1, Len(out))

Ended ==
    /\ result = "ok" => pos > 0 /\ Len(out) = count
    /\ result = "Truncated" => fate \in {"cut", "altered"}
    /\ result = "BadMagic" => fate = "altered"

TranscriptInv ==
    TranscriptTypes /\ Written /\ Arrived /\ ReadSoFar /\ InStep /\ Ended

LEMMA TranscriptStarts == TranscriptInit => TranscriptInv
<1> SUFFICES ASSUME TranscriptInit PROVE TranscriptInv
  OBVIOUS
<1>1. /\ bucket = <<>> /\ max_bytes = 0 /\ included = 0 /\ body_len = 0 /\ bytes = <<>>
      /\ fate = "whole" /\ datagram = <<>> /\ pos = 0 /\ count = 0 /\ out = <<>> /\ result = "idle"
  BY DEF TranscriptInit
<1>2. Len(bucket) = 0 /\ Len(out) = 0 /\ Len(datagram) = 0 /\ Taken = <<>>
  BY <1>1 DEF Taken
<1>3. TranscriptTypes
  BY <1>1, <1>2 DEF TranscriptTypes
<1>4. Written
  <2>1. body_len = Len(Body(Taken))
    <3>1. Body(Taken) = <<>>
      BY <1>2, BodyNone
    <3> QED BY <1>1, <3>1
  <2> QED BY <1>1, <2>1 DEF Written, Unsent
<1>5. Arrived /\ InStep /\ Ended
  BY <1>1 DEF Arrived, InStep, Ended, Unsent
<1>6. ReadSoFar
  BY <1>1, <1>2 DEF ReadSoFar
<1> QED BY <1>3, <1>4, <1>5, <1>6 DEF TranscriptInv

LEMMA BucketsCountable ==
    ASSUME BucketTypes, Sized, NEW i \in DOMAIN buckets
    PROVE  buckets[i] \in Seq(Entries) /\ Countable(buckets[i])
<1> DEFINE b == buckets[i]
           M == MAX_DATAGRAM_PAYLOAD
<1>1. buckets \in Seq(Seq(Takable)) /\ Holds(b)
  BY DEF BucketTypes, Sized
<1>2. b \in Seq(Takable) /\ b \in Seq(Entries) /\ Len(b) \in Nat
  <2>1. b \in Seq(Takable)
    BY <1>1
  <2> HIDE DEF b
  <2> QED BY <2>1 DEF Takable, Known
<1> HIDE DEF b
<1>3. WireLen(b) \in Nat /\ WireLen(b) >= Len(b) /\ (LengthsAgree => WireLen(b) = Len(Body(b)))
  BY <1>2, WireLenCounts
<1>4. TRANSCRIPT_HEADER_LEN \in Nat /\ M \in Nat /\ PerDatagramBudget = M - 1
  BY BucketConstants DEF PerDatagramBudget
<1>5. ASSUME NEW n \in 0..Len(b) PROVE FitsIn(n, WORD)
  <2>1. Len(b) \in 0..M
    BY <1>1, <1>2, <1>3, <1>4 DEF Holds
  <2>2. n \in 0..M
    BY <1>4, <2>1
  <2> QED BY <2>2, WireConstants
<1>6. ASSUME NEW k \in DOMAIN b
      PROVE  FitsIn(b[k].epoch, EPOCH) /\ FitsIn(Len(b[k].bytes), WORD)
  <2> DEFINE e == b[k]
  <2>1. e \in Takable
    BY <1>2
  <2> HIDE DEF e
  <2>2. e \in Entries /\ FitsIn(e.epoch, EPOCH)
        /\ TRANSCRIPT_HEADER_LEN + entry_wire_len(e) <= PerDatagramBudget
    BY <2>1 DEF Takable, Known
  <2>3. Len(e.bytes) \in Nat
    BY <2>2, EntryLens
  <2>4. Len(e.bytes) \in 0..M
    BY <1>4, <2>2, <2>3, BucketConstants DEF entry_wire_len
  <2>5. FitsIn(Len(e.bytes), WORD)
    BY <2>4, WireConstants
  <2> QED BY <2>2, <2>5 DEF e
<1>7. LengthsAgree => HeaderLen + Len(Body(b)) <= PerDatagramBudget
  <2> SUFFICES ASSUME LengthsAgree PROVE HeaderLen + Len(Body(b)) <= PerDatagramBudget
    OBVIOUS
  <2>1. WireLen(b) = Len(Body(b)) /\ TRANSCRIPT_HEADER_LEN = HeaderLen
    BY <1>3 DEF LengthsAgree
  <2> QED BY <1>1, <2>1 DEF Holds
<1> QED BY <1>2, <1>5, <1>6, <1>7 DEF Countable, b

LEMMA EncodeBucketKeeps == ASSUME BucketInv, TranscriptInv, EncodeBucket PROVE TranscriptInv'
<1>1. PICK i \in DOMAIN buckets : EncodeTranscript(buckets[i])
  BY DEF EncodeBucket
<1> DEFINE b == buckets[i]
<1>2. /\ result = "idle" /\ bucket' = b /\ max_bytes' \in MaxBytes /\ result' = "encoding"
      /\ UNCHANGED <<included, body_len, bytes, fate, datagram, pos, count, out>>
  BY <1>1 DEF EncodeTranscript, decoder
<1>3. b \in Seq(Entries) /\ Countable(b)
  BY BucketsCountable DEF BucketInv
<1> HIDE DEF b
<1>4. max_bytes' \in Nat
  BY <1>2, TranscriptConstants
<1>5. included = 0 /\ body_len = Len(Body(Taken)) /\ Taken = <<>>
  <2>1. included = 0 /\ body_len = Len(Body(Taken))
    BY <1>2, Zenon DEF TranscriptInv, Written
  <2> QED BY <2>1 DEF Taken
<1>6. Taken' = <<>>
  BY <1>2, <1>5 DEF Taken
<1>7. TranscriptTypes'
  <2>1. Len(b) \in Nat
    BY <1>3
  <2>2. included' \in 0..Len(bucket')
    BY <1>2, <1>5, <2>1
  <2> QED BY <1>2, <1>3, <1>4, <2>2 DEF TranscriptInv, TranscriptTypes
<1>8. Written'
  <2>1. body_len' = Len(Body(Taken'))
    BY <1>2, <1>5, <1>6, Zenon
  <2>2. Countable(bucket')
    BY <1>2, <1>3
  <2> QED BY <1>2, <2>1, <2>2 DEF Written, Unsent
<1>9. Arrived' /\ InStep' /\ Ended' /\ ReadSoFar'
  BY <1>2 DEF TranscriptInv, Arrived, InStep, Ended, ReadSoFar, Unsent
<1> QED BY <1>7, <1>8, <1>9 DEF TranscriptInv

LEMMA IncludeKeeps == ASSUME TranscriptInv, Include PROVE TranscriptInv'
<1> DEFINE n == included + 1
           e == bucket[n]
<1>1. /\ result = "encoding" /\ included < Len(bucket)
      /\ body_len' = body_len + EntryLen(e) /\ included' = n
      /\ UNCHANGED <<bucket, max_bytes, bytes, fate, datagram, pos, count, out, result>>
  BY DEF Include, NextFits, decoder
<1>2. bucket \in Seq(Entries) /\ included \in 0..Len(bucket) /\ Len(bucket) \in Nat
  BY DEF TranscriptInv, TranscriptTypes
<1>3. n \in 1..Len(bucket) /\ n - 1 = included
  BY <1>1, <1>2
<1>4. e \in Entries /\ Taken \in Seq(Entries) /\ SubSeq(bucket, 1, n) = Append(Taken, e)
  BY <1>2, <1>3, PrefixGrows DEF Taken
<1>5. Taken' = Append(Taken, e)
  BY <1>1, <1>4 DEF Taken
<1> HIDE DEF n, e
<1>6. body_len' = Len(Body(Taken'))
  <2>1. Len(Body(Append(Taken, e))) = Len(Body(Taken)) + EntryLen(e)
    BY <1>4, LenBodyAppend
  <2>2. body_len = Len(Body(Taken))
    BY DEF TranscriptInv, Written
  <2> QED BY <1>1, <1>5, <2>1, <2>2, Zenon
<1>7. TranscriptTypes'
  BY <1>1, <1>2, <1>3 DEF TranscriptInv, TranscriptTypes
<1>8. Written'
  BY <1>1, <1>6 DEF TranscriptInv, Written, Unsent
<1>9. Arrived' /\ InStep' /\ Ended' /\ ReadSoFar'
  BY <1>1 DEF TranscriptInv, Arrived, InStep, Ended, ReadSoFar, Unsent
<1> QED BY <1>7, <1>8, <1>9 DEF TranscriptInv

LEMMA WriteKeeps == ASSUME TranscriptInv, Write PROVE TranscriptInv'
<1>1. /\ result = "encoding" /\ ~NextFits /\ result' = "sent"
      /\ bytes' = IF included = 0 THEN <<>> ELSE Blob(included, Taken)
      /\ UNCHANGED <<bucket, max_bytes, included, body_len, fate, datagram, pos, count, out>>
  BY DEF Write, Taken, decoder
<1>2. bucket \in Seq(Entries) /\ included \in 0..Len(bucket) /\ included \in Nat
  BY DEF TranscriptInv, TranscriptTypes
<1>3. Taken \in Seq(Entries)
  BY <1>2, Halves DEF Taken
<1>4. bytes' \in Seq(Byte)
  <2>1. Blob(included, Taken) \in Seq(Byte)
    BY <1>2, <1>3, BlobIs
  <2> QED BY <1>1, <2>1
<1>5. TranscriptTypes'
  BY <1>1, <1>4 DEF TranscriptInv, TranscriptTypes
<1>6. Taken' = Taken
  BY <1>1 DEF Taken
<1>7. ~NextFits'
  BY <1>1 DEF NextFits
<1>8. body_len' = Len(Body(Taken'))
  <2>1. body_len = Len(Body(Taken))
    BY DEF TranscriptInv, Written
  <2> QED BY <1>1, <1>6, <2>1, Zenon
<1>9. Countable(bucket')
  BY <1>1 DEF TranscriptInv, Written
<1>10. bytes' = IF included' = 0 THEN <<>> ELSE Blob(included', Taken')
  BY <1>1, <1>6, Zenon
<1>11. Written'
  BY <1>1, <1>7, <1>8, <1>9, <1>10 DEF Written, Unsent
<1>12. Arrived' /\ InStep' /\ Ended' /\ ReadSoFar'
  BY <1>1 DEF TranscriptInv, Arrived, InStep, Ended, ReadSoFar, Unsent
<1> QED BY <1>5, <1>11, <1>12 DEF TranscriptInv

LEMMA ArrivesKeeps ==
    ASSUME TranscriptInv, NEW f \in {"whole", "cut", "padded", "altered"}, NEW d \in Seq(Byte),
           Arrives(f, d),
           f # "altered" => Agree(d, bytes) /\ (f = "cut" <=> Len(d) < Len(bytes))
    PROVE  TranscriptInv'
<1>1. /\ result = "sent" /\ bytes # <<>> /\ fate' = f /\ datagram' = d /\ result' = "decoding"
      /\ UNCHANGED <<bucket, max_bytes, included, body_len, bytes, pos, count, out>>
  BY DEF Arrives, encoder, decoder
<1>2. TranscriptTypes'
  BY <1>1 DEF TranscriptInv, TranscriptTypes
<1>3. included > 0
  <2>1. included # 0 /\ included \in 0..Len(bucket) /\ Len(bucket) \in Nat
    BY <1>1 DEF TranscriptInv, TranscriptTypes, Written
  <2> QED BY <2>1
<1>4. Taken' = Taken /\ NextFits' = NextFits
  BY <1>1 DEF Taken, NextFits
<1>5. Written'
  <2>1. /\ Countable(bucket) /\ body_len = Len(Body(Taken)) /\ ~NextFits
        /\ bytes = IF included = 0 THEN <<>> ELSE Blob(included, Taken)
    BY <1>1 DEF TranscriptInv, Written
  <2>2. body_len' = Len(Body(Taken'))
    BY <1>1, <1>4, <2>1, Zenon
  <2>3. bytes' = IF included' = 0 THEN <<>> ELSE Blob(included', Taken')
    BY <1>1, <1>4, <2>1, Zenon
  <2>4. Countable(bucket') /\ ~NextFits' /\ included' > 0 /\ result' = "decoding"
    BY <1>1, <1>3, <1>4, <2>1
  <2> QED BY <2>2, <2>3, <2>4 DEF Written
<1>6. Arrived'
  BY <1>1 DEF Arrived
<1>7. pos = 0 /\ out = <<>> /\ count = 0 /\ Len(out) <= count
  BY <1>1 DEF TranscriptInv, ReadSoFar, Unsent
<1>8. InStep' /\ Ended'
  BY <1>1, <1>7 DEF InStep, Ended
<1>9. ReadSoFar'
  <2>1. Len(d) \in Nat
    OBVIOUS
  <2> QED BY <1>1, <1>7, <2>1 DEF ReadSoFar, Unsent
<1> QED BY <1>2, <1>5, <1>6, <1>8, <1>9 DEF TranscriptInv

LEMMA WireKeeps == ASSUME TranscriptInv, Wire PROVE TranscriptInv'
<1>1. bytes \in Seq(Byte) /\ Len(bytes) \in Nat
  BY DEF TranscriptInv, TranscriptTypes
<1>2. CASE Intact
  BY <1>1, <1>2, ArrivesKeeps DEF Intact, Agree
<1>3. CASE Cut
  <2>1. PICK n \in 0..Len(bytes) : n < Len(bytes) /\ Arrives("cut", SubSeq(bytes, 1, n))
    BY <1>3 DEF Cut
  <2> DEFINE d == SubSeq(bytes, 1, n)
  <2>2. d \in Seq(Byte) /\ Len(d) = n
    BY <1>1, Halves
  <2>3. \A i \in 1..n : d[i] = bytes[i]
    BY <1>1
  <2> HIDE DEF d
  <2>4. Agree(d, bytes) /\ Len(d) < Len(bytes)
    BY <2>1, <2>2, <2>3 DEF Agree
  <2> QED BY <2>1, <2>2, <2>4, ArrivesKeeps DEF d
<1>4. CASE Padded
  <2>1. PICK b \in Byte : Arrives("padded", bytes \o <<b, b>>)
    BY <1>4 DEF Padded
  <2> DEFINE d == bytes \o <<b, b>>
  <2>2. d \in Seq(Byte) /\ Len(d) = Len(bytes) + 2 /\ \A i \in 1..Len(bytes) : d[i] = bytes[i]
    BY <1>1
  <2> HIDE DEF d
  <2>3. Agree(d, bytes) /\ ~(Len(d) < Len(bytes))
    BY <1>1, <2>2 DEF Agree
  <2> QED BY <2>1, <2>2, <2>3, ArrivesKeeps DEF d
<1>5. CASE Altered
  <2>1. PICK i \in DOMAIN bytes, b \in Byte : Arrives("altered", [bytes EXCEPT ![i] = b])
    BY <1>5 DEF Altered
  <2> DEFINE d == [bytes EXCEPT ![i] = b]
  <2>2. d \in Seq(Byte)
    BY <1>1
  <2> HIDE DEF d
  <2> QED BY <2>1, <2>2, ArrivesKeeps DEF d
<1> QED BY <1>2, <1>3, <1>4, <1>5 DEF Wire

LEMMA Adjoin ==
    ASSUME NEW S, NEW d \in Seq(S), NEW p \in Nat, NEW q \in Nat, NEW r \in Nat,
           p <= q, q <= r, r <= Len(d)
    PROVE  /\ SubSeq(d, p + 1, r) \in Seq(S) /\ Len(SubSeq(d, p + 1, r)) = r - p
           /\ SubSeq(d, p + 1, q) \o SubSeq(d, q + 1, r) = SubSeq(d, p + 1, r)
<1> DEFINE u == SubSeq(d, p + 1, q)
           v == SubSeq(d, q + 1, r)
           w == SubSeq(d, p + 1, r)
<1>1. /\ u \in Seq(S) /\ Len(u) = q - p /\ v \in Seq(S) /\ Len(v) = r - q
      /\ w \in Seq(S) /\ Len(w) = r - p
  OBVIOUS
<1>2. /\ \A i \in 1..(q - p) : u[i] = d[p + i]
      /\ \A i \in 1..(r - q) : v[i] = d[q + i]
      /\ \A i \in 1..(r - p) : w[i] = d[p + i]
  OBVIOUS
<1> HIDE DEF u, v, w
<1>3. LaidOut(w, u, v)
  <2>1. Len(w) = Len(u) + Len(v)
    BY <1>1
  <2>2. \A i \in 1..Len(u) : w[i] = u[i]
    BY <1>1, <1>2
  <2>3. ASSUME NEW i \in 1..Len(v) PROVE w[Len(u) + i] = v[i]
    <3>1. Len(u) + i = (q - p) + i /\ (q - p) + i \in 1..(r - p) /\ i \in 1..(r - q)
      BY <1>1
    <3>2. p + ((q - p) + i) = q + i
      BY <3>1
    <3> QED BY <1>2, <3>1, <3>2
  <2> QED BY <2>1, <2>2, <2>3 DEF LaidOut
<1>4. w = u \o v
  BY <1>1, <1>3, ConcatIs
<1> QED BY <1>1, <1>4 DEF u, v, w

LEMMA SubSeqAt ==
    ASSUME NEW S, NEW d \in Seq(S), NEW p \in Nat, NEW n \in Nat, p + n <= Len(d), NEW i \in 1..n
    PROVE  SubSeq(d, p + 1, p + n)[i] = d[p + i]
<1>1. p + n - (p + 1) + 1 = n /\ p + 1 + i - 1 = p + i
  OBVIOUS
<1> QED BY <1>1

LEMMA FieldIs ==
    ASSUME datagram \in Seq(Byte), pos \in Nat, NEW k \in Nat, NEW n \in Nat,
           pos + k + n <= Len(datagram)
    PROVE  /\ Field(k, n) = SubSeq(datagram, (pos + k) + 1, pos + k + n)
           /\ Field(k, n) \in Seq(Byte) /\ Len(Field(k, n)) = n
<1> DEFINE p == pos + k
           r == pos + k + n
<1>1. p \in Nat /\ r \in Nat /\ p <= r /\ r - p = n
  OBVIOUS
<1>2. Field(k, n) = SubSeq(datagram, p + 1, r)
  BY DEF Field
<1> HIDE DEF p
<1>3. SubSeq(datagram, p + 1, r) \in Seq(Byte) /\ Len(SubSeq(datagram, p + 1, r)) = r - p
  BY <1>1, Adjoin
<1> QED BY <1>1, <1>2, <1>3 DEF p

\* What is read where an undamaged datagram has y, is y.
LEMMA FieldFinds ==
    ASSUME datagram \in Seq(Byte), pos \in Nat, NEW k \in Nat, NEW n \in Nat,
           pos + k + n <= Len(datagram), bytes \in Seq(Byte), pos + k + n <= Len(bytes),
           Agree(datagram, bytes),
           NEW y \in Seq(Byte), Len(y) = n, \A i \in 1..n : bytes[pos + k + i] = y[i]
    PROVE  Field(k, n) = y
<1> DEFINE f == Field(k, n)
<1>1. f = SubSeq(datagram, (pos + k) + 1, pos + k + n) /\ f \in Seq(Byte) /\ Len(f) = n
  BY FieldIs
<1>2. ASSUME NEW i \in 1..n PROVE f[i] = y[i]
  <2>1. f[i] = datagram[pos + k + i]
    <3> DEFINE p == pos + k
    <3>1. p \in Nat /\ p + n <= Len(datagram)
      OBVIOUS
    <3>2. f = SubSeq(datagram, p + 1, p + n)
      BY <1>1, Zenon
    <3> HIDE DEF p
    <3>3. SubSeq(datagram, p + 1, p + n)[i] = datagram[p + i]
      BY <3>1, SubSeqAt
    <3> QED BY <3>2, <3>3, Zenon DEF p
  <2>2. pos + k + i \in 1..Len(datagram) /\ pos + k + i <= Len(bytes)
    OBVIOUS
  <2>3. datagram[pos + k + i] = bytes[pos + k + i]
    BY <2>2 DEF Agree
  <2> QED BY <2>1, <2>3
<1> HIDE DEF f
<1>3. f = y
  BY <1>1, <1>2, SeqEqual
<1> QED BY <1>3 DEF f

LEMMA EndsKeeps ==
    ASSUME TranscriptInv, result = "decoding", NEW r \in {"ok", "Truncated", "BadMagic"}, Ends(r),
           r = "ok" => pos > 0 /\ Len(out) = count,
           r = "Truncated" => fate \in {"cut", "altered"},
           r = "BadMagic" => fate = "altered"
    PROVE  TranscriptInv'
<1>1. /\ result' = r
      /\ UNCHANGED <<bucket, max_bytes, included, body_len, bytes, fate, datagram, pos, count, out>>
  BY DEF Ends, encoder, decoder
<1>2. TranscriptTypes'
  BY <1>1 DEF TranscriptInv, TranscriptTypes
<1>3. Taken' = Taken /\ NextFits' = NextFits
  BY <1>1 DEF Taken, NextFits
<1>4. Written'
  <2>1. /\ Countable(bucket) /\ body_len = Len(Body(Taken)) /\ ~NextFits /\ included > 0
        /\ bytes = IF included = 0 THEN <<>> ELSE Blob(included, Taken)
    BY DEF TranscriptInv, Written, Unsent
  <2>2. body_len' = Len(Body(Taken'))
    BY <1>1, <1>3, <2>1, Zenon
  <2>3. bytes' = IF included' = 0 THEN <<>> ELSE Blob(included', Taken')
    BY <1>1, <1>3, <2>1, Zenon
  <2>4. Countable(bucket') /\ ~NextFits' /\ included' > 0 /\ result' # "idle"
    BY <1>1, <1>3, <2>1
  <2> QED BY <2>2, <2>3, <2>4 DEF Written
<1>5. Arrived' /\ InStep' /\ Ended'
  BY <1>1 DEF TranscriptInv, Arrived, InStep, Ended, Unsent
<1>6. ReadSoFar'
  BY <1>1 DEF TranscriptInv, ReadSoFar, Unsent
<1> QED BY <1>2, <1>4, <1>5, <1>6 DEF TranscriptInv

\* The encoding that is on its way.
LEMMA SentIs ==
    ASSUME TranscriptInv, ~Unsent
    PROVE  /\ bytes = HeaderOf(included) \o Body(Taken) /\ bytes = Blob(included, Taken)
           /\ bytes \in Seq(Byte) /\ Len(bytes) = HeaderLen + Len(Body(Taken))
           /\ Taken \in Seq(Entries) /\ Len(Taken) = included /\ included \in Nat
           /\ included \in 0..Len(bucket) /\ FitsIn(included, WORD)
<1>1. bucket \in Seq(Entries) /\ included \in 0..Len(bucket) /\ included \in Nat
  BY DEF TranscriptInv, TranscriptTypes
<1>2. Taken \in Seq(Entries) /\ Len(Taken) = included
  BY <1>1, Halves DEF Taken
<1>3. Countable(bucket) /\ bytes = Blob(included, Taken)
  BY <1>1 DEF TranscriptInv, Written, Unsent
<1>4. FitsIn(included, WORD)
  BY <1>1, <1>3 DEF Countable
<1> QED BY <1>1, <1>2, <1>3, <1>4, BlobIs

LEMMA HeaderSaysSo ==
    ASSUME TranscriptInv, result = "decoding", pos = 0, fate # "altered",
           Len(datagram) >= HeaderLen
    PROVE  Field(0, Len(MAGIC)) = MAGIC /\ Value(Field(Len(MAGIC), WORD)) = included
<1> DEFINE L == Len(MAGIC)
           b == BigEndian(included, WORD)
           f == HeaderOf(included)
           y == Body(Taken)
<1>1. datagram \in Seq(Byte) /\ Agree(datagram, bytes) /\ Len(datagram) \in Nat
  BY DEF TranscriptInv, TranscriptTypes, Arrived, Unsent
<1>2. /\ bytes = f \o y /\ bytes \in Seq(Byte) /\ Len(bytes) = HeaderLen + Len(y)
      /\ y \in Seq(Byte) /\ included \in Nat /\ FitsIn(included, WORD)
  BY SentIs, BodyIs DEF Unsent
<1>3. /\ f \in Seq(Byte) /\ Len(f) = HeaderLen /\ MAGIC \in Seq(Byte)
      /\ b \in Seq(Byte) /\ Len(b) = WORD /\ WORD \in Nat /\ f = MAGIC \o b
  BY <1>2, FrontIs, TranscriptConstants DEF HeaderOf
<1>4. HeaderLen = L + WORD /\ L \in Nat /\ HeaderLen \in Nat
  BY <1>3 DEF HeaderLen
<1> HIDE DEF f, y, b
<1>5. Len(y) \in Nat /\ \A i \in 1..HeaderLen : bytes[i] = f[i]
  BY <1>2, <1>3
<1>6. (\A i \in 1..L : f[i] = MAGIC[i]) /\ \A i \in 1..WORD : f[L + i] = b[i]
  BY <1>3
<1> HIDE DEF L
<1>7. Field(0, L) = MAGIC
  <2>1. pos + 0 + L <= Len(datagram) /\ pos + 0 + L <= Len(bytes)
    <3>1. pos + 0 + L = L /\ L <= HeaderLen
      BY <1>3, <1>4
    <3>2. HeaderLen <= Len(datagram) /\ HeaderLen <= Len(bytes)
      BY <1>2, <1>4, <1>5
    <3> QED BY <1>1, <1>4, <1>5, <1>2, <3>1, <3>2
  <2>2. ASSUME NEW i \in 1..L PROVE bytes[pos + 0 + i] = MAGIC[i]
    <3>1. pos + 0 + i = i /\ i \in 1..HeaderLen
      BY <1>3, <1>4
    <3> QED BY <1>5, <1>6, <3>1
  <2>3. pos \in Nat /\ 0 \in Nat /\ Len(MAGIC) = L
    BY DEF L
  <2> QED BY <1>1, <1>2, <1>3, <1>4, <2>1, <2>2, <2>3, FieldFinds
<1>8. Field(L, WORD) = b
  <2>1. pos + L + WORD <= Len(datagram) /\ pos + L + WORD <= Len(bytes)
    BY <1>1, <1>2, <1>3, <1>4, <1>5
  <2>2. ASSUME NEW i \in 1..WORD PROVE bytes[pos + L + i] = b[i]
    <3>1. pos + L + i = L + i /\ L + i \in 1..HeaderLen
      BY <1>3, <1>4
    <3> QED BY <1>5, <1>6, <3>1
  <2>3. pos \in Nat
    OBVIOUS
  <2> QED BY <1>1, <1>2, <1>3, <1>4, <2>1, <2>2, <2>3, FieldFinds
<1>9. Value(b) = included
  BY <1>2, <1>3, DecodesWhatFits DEF b
<1> QED BY <1>7, <1>8, <1>9 DEF L

LEMMA ConcatLies ==
    ASSUME NEW S, NEW x \in Seq(S), NEW y \in Seq(S)
    PROVE  LaidOut(x \o y, x, y) /\ x \o y \in Seq(S) /\ Len(x) \in Nat /\ Len(y) \in Nat
<1> DEFINE z == x \o y
           n == Len(x)
           m == Len(y)
<1>1. /\ z \in Seq(S) /\ Len(z) = n + m /\ n \in Nat /\ m \in Nat
      /\ (\A i \in 1..n : z[i] = x[i]) /\ \A i \in 1..m : z[n + i] = y[i]
  OBVIOUS
<1> HIDE DEF z
<1> QED BY <1>1 DEF LaidOut, z

LEMMA HeaderKeeps == ASSUME TranscriptInv, Header PROVE TranscriptInv'
<1> DEFINE L == Len(MAGIC)
           f == Field(0, L)
           g == Field(L, WORD)
           n == Value(g)
<1>1. /\ result = "decoding" /\ pos = 0 /\ Len(datagram) >= HeaderLen /\ f = MAGIC
      /\ count' = n /\ pos' = HeaderLen
      /\ UNCHANGED <<bucket, max_bytes, included, body_len, bytes, fate, datagram, out, result>>
  BY DEF Header, encoder
<1>2. /\ datagram \in Seq(Byte) /\ Len(datagram) \in Nat /\ out = <<>>
  BY <1>1 DEF TranscriptInv, TranscriptTypes, ReadSoFar
<1>3. MAGIC \in Seq(Byte) /\ L \in Nat /\ WORD \in Nat /\ HeaderLen = L + WORD
      /\ HeaderLen \in Nat /\ HeaderLen > 0
  <2>1. 0 \in Nat
    OBVIOUS
  <2> QED BY <2>1, FrontIs, TranscriptConstants DEF HeaderLen
<1> HIDE DEF L
<1>4. /\ f = SubSeq(datagram, 0 + 1, L) /\ f \in Seq(Byte) /\ Len(f) = L
  <2>1. pos + 0 + L = L /\ pos + 0 = 0 /\ pos + 0 + L <= Len(datagram) /\ pos \in Nat /\ 0 \in Nat
    BY <1>1, <1>2, <1>3
  <2> QED BY <1>2, <1>3, <2>1, FieldIs
<1>5. /\ g = SubSeq(datagram, L + 1, HeaderLen) /\ g \in Seq(Byte) /\ Len(g) = WORD
  <2>1. pos + L + WORD = HeaderLen /\ pos + L = L /\ pos + L + WORD <= Len(datagram) /\ pos \in Nat
    BY <1>1, <1>2, <1>3
  <2> QED BY <1>2, <1>3, <2>1, FieldIs
<1>6. n \in Nat /\ BigEndian(n, WORD) = g
  <2> HIDE DEF g
  <2> QED BY <1>5, EncodesWhatWasRead
<1> HIDE DEF f, g, n
<1>7. f \o g = SubSeq(datagram, 1, HeaderLen)
  <2>1. L <= HeaderLen /\ 0 <= L /\ 0 + 1 = 1
    BY <1>3
  <2>2. SubSeq(datagram, 0 + 1, L) \o SubSeq(datagram, L + 1, HeaderLen)
        = SubSeq(datagram, 0 + 1, HeaderLen)
    BY <1>1, <1>2, <1>3, <2>1, Adjoin
  <2> QED BY <1>4, <1>5, <2>1, <2>2, Zenon
<1>8. Blob(n, <<>>) = SubSeq(datagram, 1, HeaderLen)
  <2>1. Blob(n, <<>>) = MAGIC \o BigEndian(n, WORD)
    BY <1>6, BlobNone DEF HeaderOf
  <2> QED BY <1>1, <1>6, <1>7, <2>1, Zenon
<1>9. TranscriptTypes'
  BY <1>1, <1>3, <1>6 DEF TranscriptInv, TranscriptTypes
<1>10. ReadSoFar'
  <2>1. Len(out) <= n
    BY <1>2, <1>6
  <2>2. Blob(count', out') = SubSeq(datagram', 1, pos')
    BY <1>1, <1>2, <1>8, Zenon
  <2>3. pos' # 0 /\ pos' <= Len(datagram') /\ ~Unsent'
    BY <1>1, <1>3 DEF Unsent
  <2> QED BY <1>1, <2>1, <2>2, <2>3 DEF ReadSoFar
<1>11. InStep'
  <2> SUFFICES ASSUME fate # "altered" PROVE n = included /\ out = SubSeq(bucket, 1, Len(out))
    BY <1>1 DEF InStep
  <2>1. n = included
    BY <1>1, HeaderSaysSo DEF n, g, L
  <2>2. SubSeq(bucket, 1, Len(out)) = <<>>
    BY <1>2
  <2> QED BY <1>2, <2>1, <2>2
<1>12. Written'
  <2>1. Taken' = Taken /\ NextFits' = NextFits
    BY <1>1 DEF Taken, NextFits
  <2>2. Body(Taken') = Body(Taken) /\ Blob(included', Taken') = Blob(included, Taken)
    BY <1>1, <2>1, Zenon
  <2> QED BY <1>1, <2>1, <2>2 DEF TranscriptInv, Written, Unsent
<1>13. Arrived' /\ Ended'
  BY <1>1 DEF TranscriptInv, Arrived, Ended, Unsent
<1> QED BY <1>9, <1>10, <1>11, <1>12, <1>13 DEF TranscriptInv

\* The entry that an undamaged datagram has next, if it has all of it.
Upcoming == bucket[Len(out) + 1]

LEMMA NextEntry ==
    ASSUME TranscriptInv, MoreEntries, fate # "altered"
    PROVE  /\ Upcoming \in Entries
           /\ FitsIn(Upcoming.epoch, EPOCH) /\ FitsIn(Len(Upcoming.bytes), WORD)
           /\ Append(out, Upcoming) = SubSeq(bucket, 1, Len(out) + 1)
           /\ pos + EntryLen(Upcoming) <= Len(bytes)
           /\ \A i \in 1..EntryLen(Upcoming) : bytes[pos + i] = Entry(Upcoming)[i]
<1> DEFINE e == Upcoming
           n == Len(out) + 1
           P == Blob(count, out)
           c == Entry(e)
           rest == SubSeq(Taken, n + 1, Len(Taken))
           z == Body(rest)
<1>1. /\ result = "decoding" /\ pos > 0 /\ Len(out) < count /\ ~Unsent
      /\ count = included /\ out = SubSeq(bucket, 1, Len(out)) /\ P = SubSeq(datagram, 1, pos)
  BY DEF MoreEntries, TranscriptInv, InStep, ReadSoFar, Unsent
<1>2. /\ bucket \in Seq(Entries) /\ included \in 0..Len(bucket) /\ count \in Nat /\ pos \in Nat
      /\ datagram \in Seq(Byte) /\ out \in Seq(Entries) /\ Len(out) \in Nat /\ Len(bucket) \in Nat
      /\ pos <= Len(datagram) /\ Len(datagram) \in Nat
  BY DEF TranscriptInv, TranscriptTypes, ReadSoFar
<1>3. n \in 1..Len(bucket) /\ n \in 1..included /\ n - 1 = Len(out)
  BY <1>1, <1>2
<1>4. e \in Entries /\ SubSeq(bucket, 1, n) = Append(out, e)
  <2>1. bucket[n] \in Entries /\ SubSeq(bucket, 1, n) = Append(SubSeq(bucket, 1, n - 1), bucket[n])
    BY <1>2, <1>3, PrefixGrows
  <2> QED BY <1>1, <1>3, <2>1 DEF Upcoming
<1>5. FitsIn(e.epoch, EPOCH) /\ FitsIn(Len(e.bytes), WORD)
  <2>1. Countable(bucket) /\ n \in DOMAIN bucket
    BY <1>1, <1>2, <1>3 DEF TranscriptInv, Written
  <2> QED BY <2>1 DEF Countable, Upcoming
<1>6. /\ Taken \in Seq(Entries) /\ Len(Taken) = included
      /\ bytes = Blob(count, Taken) /\ bytes \in Seq(Byte)
  BY <1>1, SentIs
<1>7. Taken = Append(out, e) \o rest /\ rest \in Seq(Entries)
  <2>1. n \in 0..Len(Taken)
    BY <1>3, <1>6
  <2>2. rest \in Seq(Entries) /\ Taken = SubSeq(Taken, 1, n) \o rest
    BY <1>6, <2>1, Halves
  <2>3. SubSeq(Taken, 1, n) = SubSeq(bucket, 1, n)
    <3> DEFINE u == SubSeq(Taken, 1, n)
               v == SubSeq(bucket, 1, n)
    <3>1. n \in 0..Len(bucket) /\ n \in Nat
      BY <1>3
    <3>2. u \in Seq(Entries) /\ Len(u) = n /\ v \in Seq(Entries) /\ Len(v) = n
      BY <1>2, <1>6, <2>1, <3>1, Halves
    <3>3. ASSUME NEW i \in 1..n PROVE u[i] = v[i]
      <4>1. i \in 1..included
        <5> HIDE DEF n
        <5> QED BY <1>2, <1>3
      <4>2. Taken[i] = bucket[i]
        BY <1>2, <4>1 DEF Taken
      <4>3. u[i] = Taken[i] /\ v[i] = bucket[i]
        BY <1>2, <1>3, <1>6
      <4> QED BY <4>2, <4>3
    <3> HIDE DEF u, v
    <3>4. u = v
      BY <3>1, <3>2, <3>3, SeqEqual
    <3> QED BY <3>4 DEF u, v
  <2> QED BY <1>4, <2>2, <2>3, Zenon
<1> HIDE DEF rest, n
<1>8. c \in Seq(Byte) /\ Len(c) = EntryLen(e) /\ EntryLen(e) \in Nat
  <2> HIDE DEF e
  <2> QED BY <1>4, EntryIs
<1> HIDE DEF e
<1>9. z \in Seq(Byte) /\ P \in Seq(Byte) /\ Blob(count, Append(out, e)) = P \o c
      /\ Append(out, e) \in Seq(Entries)
  <2>1. Append(out, e) \in Seq(Entries)
    BY <1>2, <1>4
  <2>2. z \in Seq(Byte)
    BY <1>7, BodyIs
  <2>3. P \in Seq(Byte)
    BY <1>2, BlobIs
  <2>4. Blob(count, Append(out, e)) = P \o c
    BY <1>2, <1>4, BlobAppend
  <2> QED BY <2>1, <2>2, <2>3, <2>4
<1>10. bytes = (P \o c) \o z
  <2> DEFINE s == Append(out, e)
             f == HeaderOf(count)
             y == Body(s)
  <2>1. s \in Seq(Entries) /\ Taken = s \o rest /\ Blob(count, s) = P \o c
    BY <1>7, <1>9
  <2> HIDE DEF s
  <2>2. Body(Taken) = y \o z
    BY <1>7, <2>1, BodyConcat
  <2>3. Blob(count, s) = f \o y /\ bytes = f \o Body(Taken) /\ f \in Seq(Byte) /\ y \in Seq(Byte)
    BY <1>2, <1>6, <2>1, BlobIs, FrontIs, BodyIs
  <2> HIDE DEF f, y, z, P, c
  <2>4. Grouped(f, y, z)
    BY <1>9, <2>3, Group
  <2> QED BY <2>1, <2>2, <2>3, <2>4, Zenon DEF Grouped
<1>11. Len(P) = pos
  BY <1>1, <1>2
<1> HIDE DEF P, c, z
<1>12. /\ Len(P \o c) = pos + EntryLen(e) /\ (P \o c) \in Seq(Byte)
       /\ \A i \in 1..EntryLen(e) : (P \o c)[pos + i] = c[i]
  <2>1. LaidOut(P \o c, P, c) /\ (P \o c) \in Seq(Byte)
    BY <1>8, <1>9, ConcatLies
  <2> QED BY <1>8, <1>11, <2>1 DEF LaidOut
<1> DEFINE Pc == P \o c
<1>13. Pc \in Seq(Byte) /\ Len(Pc) = pos + EntryLen(e) /\ bytes = Pc \o z
       /\ \A i \in 1..EntryLen(e) : Pc[pos + i] = c[i]
  BY <1>10, <1>12
<1> HIDE DEF Pc
<1>14. Len(bytes) = Len(Pc) + Len(z) /\ Len(z) \in Nat /\ \A i \in 1..Len(Pc) : bytes[i] = Pc[i]
  <2>1. LaidOut(Pc \o z, Pc, z) /\ Len(z) \in Nat
    BY <1>9, <1>13, ConcatLies
  <2>2. LaidOut(bytes, Pc, z)
    BY <1>13, <2>1, Zenon
  <2> QED BY <2>1, <2>2 DEF LaidOut
<1>15. pos + EntryLen(e) <= Len(bytes)
  BY <1>2, <1>8, <1>13, <1>14
<1>16. ASSUME NEW i \in 1..EntryLen(e) PROVE bytes[pos + i] = c[i]
  <2>1. pos + i \in 1..Len(Pc)
    BY <1>2, <1>8, <1>13
  <2> QED BY <1>13, <1>14, <2>1
<1> QED BY <1>3, <1>4, <1>5, <1>15, <1>16 DEF e, c, n

\* Where an entry has its fields.
LEMMA EntryAt ==
    ASSUME NEW e \in Entries
    PROVE  /\ EntryLen(e) = EPOCH + WORD + Len(e.bytes) /\ Len(e.bytes) \in Nat
           /\ e.bytes \in Seq(Byte) /\ e.epoch \in Nat
           /\ \A i \in 1..EPOCH : Entry(e)[i] = BigEndian(e.epoch, EPOCH)[i]
           /\ \A i \in 1..WORD : Entry(e)[EPOCH + i] = BigEndian(Len(e.bytes), WORD)[i]
           /\ \A i \in 1..Len(e.bytes) : Entry(e)[EPOCH + WORD + i] = e.bytes[i]
<1> DEFINE a == BigEndian(e.epoch, EPOCH)
           n == Len(e.bytes)
           b == BigEndian(n, WORD)
           c == e.bytes
           ab == a \o b
<1>1. c \in Seq(Byte) /\ n \in Nat /\ n = Len(c) /\ e.epoch \in Nat
  BY DEF Entries
<1>2. a \in Seq(Byte) /\ Len(a) = EPOCH /\ b \in Seq(Byte) /\ Len(b) = WORD
  BY EntryIs
<1>3. Entry(e) = ab \o c /\ EntryLen(e) = EPOCH + WORD + n
  BY Zenon DEF Entry, EntryLen
<1>4. EPOCH \in Nat /\ WORD \in Nat
  BY ByteConstants, TranscriptConstants
<1> HIDE DEF a, b, c, n
<1>5. LaidOut(ab, a, b) /\ ab \in Seq(Byte)
  BY <1>2, ConcatLies
<1> HIDE DEF ab
<1>6. LaidOut(ab \o c, ab, c)
  BY <1>1, <1>5, ConcatLies
<1> DEFINE z == ab \o c
<1>7. /\ Len(ab) = EPOCH + WORD
      /\ (\A i \in 1..EPOCH : ab[i] = a[i]) /\ \A i \in 1..WORD : ab[EPOCH + i] = b[i]
  BY <1>2, <1>5 DEF LaidOut
<1>8. (\A i \in 1..(EPOCH + WORD) : z[i] = ab[i]) /\ \A i \in 1..n : z[EPOCH + WORD + i] = c[i]
  BY <1>1, <1>6, <1>7 DEF LaidOut
<1> HIDE DEF z
<1>9. (\A i \in 1..EPOCH : z[i] = a[i]) /\ \A i \in 1..WORD : z[EPOCH + i] = b[i]
  <2>1. \A i \in 1..EPOCH : i \in 1..(EPOCH + WORD)
    BY <1>4
  <2>2. \A i \in 1..WORD : EPOCH + i \in 1..(EPOCH + WORD)
    BY <1>4
  <2> QED BY <1>7, <1>8, <2>1, <2>2
<1> QED BY <1>1, <1>3, <1>8, <1>9 DEF a, b, c, n, z

LEMMA NextFields ==
    ASSUME TranscriptInv, MoreEntries, fate # "altered", EntryHeaderFits
    PROVE  /\ EntryEpoch = Upcoming.epoch /\ EntryBytes = Len(Upcoming.bytes)
           /\ EntryFits => Field(EPOCH + WORD, EntryBytes) = Upcoming.bytes
<1> DEFINE e == Upcoming
           a == BigEndian(e.epoch, EPOCH)
           n == Len(e.bytes)
           b == BigEndian(n, WORD)
           c == e.bytes
           l == EntryLen(e)
<1>1. /\ e \in Entries /\ FitsIn(e.epoch, EPOCH) /\ FitsIn(n, WORD)
      /\ pos + l <= Len(bytes) /\ \A i \in 1..l : bytes[pos + i] = Entry(e)[i]
  BY NextEntry
<1>2. /\ datagram \in Seq(Byte) /\ pos \in Nat /\ bytes \in Seq(Byte) /\ Agree(datagram, bytes)
      /\ Len(datagram) \in Nat /\ Len(bytes) \in Nat
  BY DEF TranscriptInv, TranscriptTypes, Arrived, Unsent, MoreEntries
<1> HIDE DEF e
<1>3. /\ l = EPOCH + WORD + n /\ n \in Nat /\ c \in Seq(Byte) /\ e.epoch \in Nat
      /\ \A i \in 1..EPOCH : Entry(e)[i] = a[i]
      /\ \A i \in 1..WORD : Entry(e)[EPOCH + i] = b[i]
      /\ \A i \in 1..n : Entry(e)[EPOCH + WORD + i] = c[i]
  BY <1>1, EntryAt
<1>4. a \in Seq(Byte) /\ Len(a) = EPOCH /\ b \in Seq(Byte) /\ Len(b) = WORD
  BY <1>1, EntryIs
<1>5. EPOCH \in Nat /\ WORD \in Nat /\ EPOCH + WORD \in Nat
  BY ByteConstants, TranscriptConstants
<1>6. Value(a) = e.epoch /\ Value(b) = n
  BY <1>1, <1>3, <1>5, DecodesWhatFits
<1>7. Len(c) = n
  OBVIOUS
<1> HIDE DEF a, b, c, n, l
<1>8. pos + EPOCH + WORD <= Len(datagram)
  BY DEF EntryHeaderFits
<1>9. Field(0, EPOCH) = a
  <2>1. pos + 0 + EPOCH <= Len(datagram) /\ pos + 0 + EPOCH <= Len(bytes) /\ 0 \in Nat
    BY <1>1, <1>2, <1>3, <1>5, <1>8
  <2>2. ASSUME NEW i \in 1..EPOCH PROVE bytes[pos + 0 + i] = a[i]
    <3>1. i \in 1..l /\ pos + 0 + i = pos + i
      BY <1>2, <1>3, <1>5
    <3> QED BY <1>1, <1>3, <3>1
  <2> QED BY <1>2, <1>4, <1>5, <2>1, <2>2, FieldFinds
<1>10. Field(EPOCH, WORD) = b
  <2>1. pos + EPOCH + WORD <= Len(bytes)
    BY <1>1, <1>2, <1>3, <1>5
  <2>2. ASSUME NEW i \in 1..WORD PROVE bytes[pos + EPOCH + i] = b[i]
    <3>1. EPOCH + i \in 1..l /\ pos + EPOCH + i = pos + (EPOCH + i)
      BY <1>2, <1>3, <1>5
    <3>2. bytes[pos + (EPOCH + i)] = Entry(e)[EPOCH + i]
      BY <1>1, <3>1
    <3> QED BY <1>3, <3>1, <3>2
  <2> QED BY <1>2, <1>4, <1>5, <1>8, <2>1, <2>2, FieldFinds
<1>11. EntryEpoch = e.epoch /\ EntryBytes = n
  BY <1>6, <1>9, <1>10 DEF EntryEpoch, EntryBytes
<1>12. ASSUME EntryFits PROVE Field(EPOCH + WORD, n) = c
  <2> DEFINE k == EPOCH + WORD
  <2>1. pos + k + n <= Len(datagram) /\ pos + k + n <= Len(bytes) /\ k \in Nat
    <3>1. pos + EPOCH + WORD + n <= Len(datagram)
      BY <1>11, <1>12 DEF EntryFits
    <3> QED BY <1>1, <1>2, <1>3, <1>5, <3>1
  <2>2. ASSUME NEW i \in 1..n PROVE bytes[pos + k + i] = c[i]
    <3>1. k + i \in 1..l /\ pos + k + i = pos + (k + i)
      <4>1. k \in Nat /\ l = k + n /\ n \in Nat
        BY <1>3, <1>5
      <4> HIDE DEF k
      <4> QED BY <1>2, <4>1
    <3>2. bytes[pos + (k + i)] = Entry(e)[k + i]
      BY <1>1, <3>1
    <3> QED BY <1>3, <3>1, <3>2
  <2> HIDE DEF k
  <2>3. Field(k, n) = c
    BY <1>2, <1>3, <1>7, <2>1, <2>2, FieldFinds
  <2> QED BY <2>3 DEF k
<1> QED BY <1>11, <1>12 DEF e, n, c

LEMMA TakeEntryKeeps == ASSUME TranscriptInv, TakeEntry PROVE TranscriptInv'
<1> DEFINE f1 == Field(0, EPOCH)
           f2 == Field(EPOCH, WORD)
           n == EntryBytes
           f3 == Field(EPOCH + WORD, n)
           e == [epoch |-> EntryEpoch, bytes |-> f3]
           h == EPOCH + WORD
           q == pos + h
           r == q + n
<1>1. /\ result = "decoding" /\ pos > 0 /\ Len(out) < count /\ EntryFits
      /\ out' = Append(out, e) /\ pos' = pos + EPOCH + WORD + n
      /\ UNCHANGED <<bucket, max_bytes, included, body_len, bytes, fate, datagram, count, result>>
  BY DEF TakeEntry, TakeEntryAnd, MoreEntries, encoder
<1>2. /\ datagram \in Seq(Byte) /\ Len(datagram) \in Nat /\ out \in Seq(Entries)
      /\ count \in Nat /\ pos \in Nat /\ Len(out) \in Nat /\ pos <= Len(datagram)
      /\ Blob(count, out) = SubSeq(datagram, 1, pos)
  BY <1>1 DEF TranscriptInv, TranscriptTypes, ReadSoFar
<1>3. EPOCH \in Nat /\ WORD \in Nat /\ h \in Nat /\ h > 0
  BY ByteConstants, TranscriptConstants
<1>4. pos + EPOCH + WORD <= Len(datagram) /\ pos + EPOCH + WORD + n <= Len(datagram)
  BY <1>1 DEF EntryFits, EntryHeaderFits
<1>5. /\ f1 = SubSeq(datagram, pos + 1, pos + EPOCH) /\ f1 \in Seq(Byte) /\ Len(f1) = EPOCH
  <2>1. /\ pos + 0 + EPOCH = pos + EPOCH /\ pos + 0 = pos
        /\ pos + 0 + EPOCH <= Len(datagram) /\ 0 \in Nat
    BY <1>2, <1>3, <1>4
  <2> QED BY <1>2, <1>3, <2>1, FieldIs
<1>6. /\ f2 = SubSeq(datagram, (pos + EPOCH) + 1, q) /\ f2 \in Seq(Byte) /\ Len(f2) = WORD
  <2>1. pos + EPOCH + WORD = q
    BY <1>2, <1>3
  <2> QED BY <1>2, <1>3, <1>4, <2>1, FieldIs
<1>7. EntryEpoch = Value(f1) /\ n = Value(f2)
  BY DEF EntryEpoch, EntryBytes
<1> HIDE DEF f1, f2, n
<1>8. /\ EntryEpoch \in Nat /\ n \in Nat
      /\ BigEndian(EntryEpoch, EPOCH) = f1 /\ BigEndian(n, WORD) = f2
  BY <1>5, <1>6, <1>7, EncodesWhatWasRead
<1>9. /\ f3 = SubSeq(datagram, q + 1, r) /\ f3 \in Seq(Byte) /\ Len(f3) = n
  <2> HIDE DEF h
  <2>1. pos + h + n <= Len(datagram)
    BY <1>2, <1>3, <1>4, <1>8 DEF h
  <2>2. /\ Field(h, n) = SubSeq(datagram, (pos + h) + 1, pos + h + n)
        /\ Field(h, n) \in Seq(Byte) /\ Len(Field(h, n)) = n
    BY <1>2, <1>3, <1>8, <2>1, FieldIs
  <2> QED BY <2>2 DEF h
<1> HIDE DEF f3, h
<1>10. e \in Entries /\ e.epoch = EntryEpoch /\ e.bytes = f3
  BY <1>8, <1>9 DEF Entries
<1>11. Entry(e) = (f1 \o f2) \o f3
  BY <1>8, <1>9, <1>10, Zenon DEF Entry
<1>12. q \in Nat /\ r \in Nat /\ pos <= pos + EPOCH /\ pos + EPOCH <= q /\ pos <= q /\ q <= r
       /\ r <= Len(datagram) /\ q <= Len(datagram) /\ pos + EPOCH \in Nat
       /\ pos' = r /\ r > 0
  BY <1>1, <1>2, <1>3, <1>4, <1>8 DEF h
<1> HIDE DEF e, q, r
<1>13. f1 \o f2 = SubSeq(datagram, pos + 1, q)
  <2> DEFINE p == pos + EPOCH
  <2>1. p \in Nat /\ pos <= p /\ p <= q
    BY <1>12
  <2>2. f1 = SubSeq(datagram, pos + 1, p) /\ f2 = SubSeq(datagram, p + 1, q)
    BY <1>5, <1>6
  <2> HIDE DEF p
  <2>3. SubSeq(datagram, pos + 1, p) \o SubSeq(datagram, p + 1, q) = SubSeq(datagram, pos + 1, q)
    BY <1>2, <1>12, <2>1, Adjoin
  <2> QED BY <2>2, <2>3, Zenon
<1>14. Entry(e) = SubSeq(datagram, pos + 1, r)
  <2>1. SubSeq(datagram, pos + 1, q) \o SubSeq(datagram, q + 1, r) = SubSeq(datagram, pos + 1, r)
    BY <1>2, <1>12, Adjoin
  <2> QED BY <1>9, <1>11, <1>13, <2>1, Zenon
<1>15. Blob(count, Append(out, e)) = SubSeq(datagram, 1, r)
  <2>1. Blob(count, Append(out, e)) = Blob(count, out) \o Entry(e)
    BY <1>2, <1>10, BlobAppend
  <2>2. SubSeq(datagram, 1, pos) \o SubSeq(datagram, pos + 1, r) = SubSeq(datagram, 1, r)
    <3>1. 0 \in Nat /\ 0 <= pos /\ pos <= r /\ 0 + 1 = 1
      BY <1>2, <1>12
    <3>2. SubSeq(datagram, 0 + 1, pos) \o SubSeq(datagram, pos + 1, r) = SubSeq(datagram, 0 + 1, r)
      BY <1>2, <1>12, <3>1, Adjoin
    <3> QED BY <3>1, <3>2, Zenon
  <2> QED BY <1>2, <1>14, <2>1, <2>2, Zenon
<1>16. Append(out, e) \in Seq(Entries) /\ Len(Append(out, e)) = Len(out) + 1
  BY <1>2, <1>10
<1>17. TranscriptTypes'
  BY <1>1, <1>12, <1>16 DEF TranscriptInv, TranscriptTypes
<1>18. ReadSoFar'
  <2>1. Len(out') <= count' /\ pos' # 0 /\ pos' <= Len(datagram') /\ ~Unsent'
    BY <1>1, <1>2, <1>12, <1>16 DEF Unsent
  <2>2. Blob(count', out') = SubSeq(datagram', 1, pos')
    BY <1>1, <1>12, <1>15, Zenon
  <2> QED BY <2>1, <2>2 DEF ReadSoFar
<1>19. InStep'
  <2> SUFFICES ASSUME fate # "altered"
               PROVE  count = included /\ Append(out, e) = SubSeq(bucket, 1, Len(out) + 1)
    BY <1>1, <1>16 DEF InStep
  <2>1. count = included
    BY <1>1 DEF TranscriptInv, InStep
  <2>2. MoreEntries /\ EntryHeaderFits
    BY <1>1 DEF MoreEntries, EntryFits
  <2>3. Upcoming \in Entries /\ Append(out, Upcoming) = SubSeq(bucket, 1, Len(out) + 1)
    BY <2>2, NextEntry
  <2>4. EntryEpoch = Upcoming.epoch /\ f3 = Upcoming.bytes
    BY <1>1, <2>2, NextFields DEF f3, n
  <2>5. e = Upcoming
    <3>1. e.epoch = Upcoming.epoch /\ e.bytes = Upcoming.bytes /\ e \in Entries /\ Upcoming \in Entries
      BY <1>10, <2>3, <2>4
    <3> QED BY <3>1 DEF Entries
  <2> QED BY <2>1, <2>3, <2>5
<1>20. Written'
  <2>1. Taken' = Taken /\ NextFits' = NextFits
    BY <1>1 DEF Taken, NextFits
  <2>2. Body(Taken') = Body(Taken) /\ Blob(included', Taken') = Blob(included, Taken)
    BY <1>1, <2>1, Zenon
  <2> QED BY <1>1, <2>1, <2>2 DEF TranscriptInv, Written, Unsent
<1>21. Arrived' /\ Ended'
  BY <1>1 DEF TranscriptInv, Arrived, Ended, Unsent
<1> QED BY <1>17, <1>18, <1>19, <1>20, <1>21 DEF TranscriptInv

LEMMA EntryCutShortKeeps == ASSUME TranscriptInv, EntryCutShort PROVE TranscriptInv'
<1>1. MoreEntries /\ ~EntryFits /\ Ends("Truncated") /\ result = "decoding"
  BY DEF EntryCutShort, EntryCutShortAs, MoreEntries
<1>2. fate \in {"cut", "altered"}
  <2> SUFFICES ASSUME fate \notin {"cut", "altered"} PROVE FALSE
    OBVIOUS
  <2> DEFINE n == Len(Upcoming.bytes)
  <2>1. /\ datagram \in Seq(Byte) /\ bytes \in Seq(Byte) /\ pos \in Nat
        /\ Len(datagram) \in Nat /\ Len(bytes) \in Nat /\ Len(datagram) >= Len(bytes)
    <3>1. /\ datagram \in Seq(Byte) /\ bytes \in Seq(Byte) /\ pos \in Nat
          /\ ~(Len(datagram) < Len(bytes))
      BY <1>1 DEF TranscriptInv, TranscriptTypes, Arrived, Unsent
    <3> QED BY <3>1
  <2>2. /\ pos + EntryLen(Upcoming) <= Len(bytes) /\ EntryLen(Upcoming) = EPOCH + WORD + n
        /\ n \in Nat
    <3>1. Upcoming \in Entries /\ pos + EntryLen(Upcoming) <= Len(bytes)
      BY <1>1, NextEntry
    <3> QED BY <3>1, EntryAt
  <2> HIDE DEF n
  <2>3. EPOCH \in Nat /\ WORD \in Nat
    BY ByteConstants, TranscriptConstants
  <2>4. pos + EPOCH + WORD <= Len(datagram) /\ pos + EPOCH + WORD + n <= Len(datagram)
    BY <2>1, <2>2, <2>3
  <2>5. EntryHeaderFits
    BY <2>4 DEF EntryHeaderFits
  <2>6. EntryBytes = n
    BY <1>1, <2>5, NextFields DEF n
  <2> QED BY <1>1, <2>4, <2>5, <2>6 DEF EntryFits
<1> QED BY <1>1, <1>2, EndsKeeps

LEMMA DecodeKeeps == ASSUME TranscriptInv, Decode PROVE TranscriptInv'
<1>1. CASE Truncated
  <2>1. result = "decoding" /\ Len(datagram) < HeaderLen /\ Ends("Truncated")
    BY <1>1 DEF Truncated
  <2>2. fate \in {"cut", "altered"}
    <3> SUFFICES ASSUME fate \notin {"cut", "altered"} PROVE FALSE
      OBVIOUS
    <3>1. ~(Len(datagram) < Len(bytes)) /\ datagram \in Seq(Byte)
      BY <2>1 DEF TranscriptInv, TranscriptTypes, Arrived, Unsent
    <3>2. Len(bytes) = HeaderLen + Len(Body(Taken)) /\ Taken \in Seq(Entries)
      BY <2>1, SentIs DEF Unsent
    <3>3. Body(Taken) \in Seq(Byte)
      BY <3>2, BodyIs
    <3>4. Len(Body(Taken)) \in Nat /\ Len(datagram) \in Nat
      BY <3>1, <3>3
    <3>5. HeaderLen \in Nat
      <4>1. 0 \in Nat
        OBVIOUS
      <4> QED BY <4>1, FrontIs
    <3> QED BY <2>1, <3>1, <3>2, <3>4, <3>5
  <2> QED BY <2>1, <2>2, EndsKeeps
<1>2. CASE BadMagic
  <2>1. /\ result = "decoding" /\ pos = 0 /\ Len(datagram) >= HeaderLen
        /\ Field(0, Len(MAGIC)) # MAGIC /\ Ends("BadMagic")
    BY <1>2 DEF BadMagic
  <2>2. fate = "altered"
    BY <2>1, HeaderSaysSo
  <2> QED BY <2>1, <2>2, EndsKeeps
<1>3. CASE Finish
  BY <1>3, EndsKeeps DEF Finish
<1> QED BY <1>1, <1>2, <1>3, HeaderKeeps, EntryCutShortKeeps, TakeEntryKeeps DEF Decode

LEMMA TranscriptInvHolds == Spec => []TranscriptInv
<1>1. BucketInv /\ TranscriptInv /\ [Next]_vars => TranscriptInv'
  <2> SUFFICES ASSUME BucketInv, TranscriptInv, [Next]_vars PROVE TranscriptInv'
    OBVIOUS
  <2>1. CASE EncodeBucket
    BY <2>1, EncodeBucketKeeps
  <2>2. CASE Encode
    BY <2>2, IncludeKeeps, WriteKeeps DEF Encode
  <2>3. CASE Wire
    BY <2>3, WireKeeps
  <2>4. CASE Decode
    BY <2>4, DecodeKeeps
  <2>5. CASE UNCHANGED transcriptVars
    <3>1. UNCHANGED <<bucket, max_bytes, included, body_len, bytes, fate, datagram, pos, count,
                      out, result>>
      BY <2>5 DEF transcriptVars, encoder, decoder
    <3>2. Taken' = Taken /\ NextFits' = NextFits
      BY <3>1 DEF Taken, NextFits
    <3>3. Written'
      <4>1. Body(Taken') = Body(Taken) /\ Blob(included', Taken') = Blob(included, Taken)
        BY <3>1, <3>2, Zenon
      <4> QED BY <3>1, <3>2, <4>1 DEF TranscriptInv, Written, Unsent
    <3>4. TranscriptTypes' /\ Arrived' /\ ReadSoFar' /\ InStep' /\ Ended'
      BY <3>1 DEF TranscriptInv, TranscriptTypes, Arrived, ReadSoFar, InStep, Ended, Unsent
    <3> QED BY <3>3, <3>4 DEF TranscriptInv
  <2> QED BY <2>1, <2>2, <2>3, <2>4, <2>5 DEF Next, CutWindow, CodeAndCarry, vars
<1>2. Init => TranscriptInv
  BY TranscriptStarts DEF Init
<1> QED BY <1>1, <1>2, BucketInvHolds, PTL DEF Spec

\* BucketsGoWhole, when the two files agree on the lengths of headers: whatever fits a bucket by
\* the count of bucket_window is written by encode_transcript, and fits the datagram
\* (preamble.rs:66-72, transcript.rs:40).
THEOREM WholeBucketsGo == Spec /\ LengthsAgree => []BucketsGoWhole
<1>1. ASSUME TranscriptInv, LengthsAgree PROVE BucketsGoWhole
  <2> SUFFICES ASSUME result \notin {"idle", "encoding"}, max_bytes >= PerDatagramBudget
               PROVE  included = Len(bucket) /\ 1 + Len(bytes) <= MAX_DATAGRAM_PAYLOAD
    BY DEF BucketsGoWhole
  <2> DEFINE n == included + 1
             M == MAX_DATAGRAM_PAYLOAD
  <2>1. /\ bucket \in Seq(Entries) /\ included \in 0..Len(bucket) /\ Len(bucket) \in Nat
        /\ max_bytes \in Nat
    BY <1>1 DEF TranscriptInv, TranscriptTypes
  <2>2. /\ bucket # <<>> => HeaderLen + Len(Body(bucket)) <= PerDatagramBudget
        /\ body_len = Len(Body(Taken)) /\ ~NextFits
        /\ bytes = IF included = 0 THEN <<>> ELSE Blob(included, Taken)
    BY <1>1 DEF TranscriptInv, Written, Countable
  <2>3. M \in Nat \ {0} /\ PerDatagramBudget = M - 1
    BY BucketConstants DEF PerDatagramBudget
  <2>4. HeaderLen \in Nat
    <3>1. 0 \in Nat
      OBVIOUS
    <3> QED BY <3>1, FrontIs
  <2>5. included = Len(bucket)
    <3> SUFFICES ASSUME included # Len(bucket) PROVE FALSE
      OBVIOUS
    <3>1. n \in 1..Len(bucket) /\ n - 1 = included /\ included < Len(bucket) /\ n \in 0..Len(bucket)
      BY <2>1
    <3>2. /\ bucket[n] \in Entries /\ Taken \in Seq(Entries)
          /\ SubSeq(bucket, 1, n) = Append(Taken, bucket[n])
      BY <2>1, <3>1, PrefixGrows DEF Taken
    <3> DEFINE s == SubSeq(bucket, 1, n)
               t == SubSeq(bucket, n + 1, Len(bucket))
               x == Body(s)
               y == Body(t)
    <3>3. s \in Seq(Entries) /\ t \in Seq(Entries) /\ bucket = s \o t
      BY <2>1, <3>1, Halves
    <3>4. Len(Body(Append(Taken, bucket[n]))) = Len(Body(Taken)) + EntryLen(bucket[n])
      BY <3>2, LenBodyAppend
    <3> HIDE DEF n, s, t
    <3>5. Body(bucket) = x \o y /\ x \in Seq(Byte) /\ y \in Seq(Byte)
      BY <3>3, BodyConcat, BodyIs
    <3>6. Len(x) = body_len + EntryLen(bucket[n])
      BY <2>2, <3>2, <3>4, Zenon DEF s
    <3> HIDE DEF x, y
    <3>7. Len(Body(bucket)) = Len(x) + Len(y) /\ Len(x) \in Nat /\ Len(y) \in Nat
      BY <3>5
    <3>8. bucket # <<>>
      BY <2>1, <3>1
    <3>9. HeaderLen + body_len + EntryLen(bucket[n]) <= max_bytes
      <4>1. HeaderLen + Len(x) <= max_bytes
        BY <2>1, <2>2, <2>3, <2>4, <3>7, <3>8
      <4>2. body_len \in Nat /\ EntryLen(bucket[n]) \in Nat
        BY <2>2, <3>2, LenBodyAppend
      <4> QED BY <2>4, <3>6, <4>1, <4>2
    <3> QED BY <2>2, <3>1, <3>9 DEF NextFits, n
  <2>6. Taken = bucket
    BY <2>1, <2>5 DEF Taken
  <2>7. CASE included = 0
    <3>1. Len(bytes) = 0
      BY <2>2, <2>7
    <3> QED BY <2>3, <2>5, <3>1
  <2>8. CASE included # 0
    <3>1. bucket # <<>> /\ included \in Nat
      BY <2>1, <2>5, <2>8
    <3>2. Len(Blob(included, bucket)) = HeaderLen + Len(Body(bucket))
      BY <2>1, <3>1, BlobIs
    <3>3. bytes = Blob(included, bucket)
      BY <2>2, <2>6, <2>8, Zenon
    <3>4. Len(bytes) <= M - 1
      BY <2>2, <2>3, <3>1, <3>2, <3>3
    <3>5. Len(bytes) \in Nat
      <4>1. bytes \in Seq(Byte)
        BY <1>1 DEF TranscriptInv, TranscriptTypes
      <4> QED BY <4>1
    <3> QED BY <2>3, <2>5, <3>4, <3>5
  <2> QED BY <2>7, <2>8
<1>2. LengthsAgree => []LengthsAgree
  <2>1. LengthsAgree => LengthsAgree'
    BY DEF LengthsAgree, HeaderLen
  <2> QED BY <2>1, PTL
<1> QED BY <1>1, <1>2, TranscriptInvHolds, PTL

\* AcceptedIsThere, of every datagram (transcript.rs:64-93).
THEOREM AcceptsWhatIsThere == Spec => []AcceptedIsThere
<1>1. ASSUME TranscriptInv PROVE AcceptedIsThere
  <2>1. pos <= Len(datagram) /\ (pos # 0 => Blob(count, out) = SubSeq(datagram, 1, pos))
        /\ (result = "ok" => pos # 0 /\ Len(out) = count)
    BY <1>1 DEF TranscriptInv, ReadSoFar, Ended
  <2> QED BY <2>1 DEF AcceptedIsThere
<1> QED BY <1>1, TranscriptInvHolds, PTL

\* WholeOrNotAtAll, of every bucket, wherever its encoding is cut and whatever follows it
\* (transcript.rs:62-93).
THEOREM AllOrNothing == Spec => []WholeOrNotAtAll
<1>1. ASSUME TranscriptInv PROVE WholeOrNotAtAll
  <2> SUFFICES ASSUME Decided, fate # "altered"
               PROVE  IF fate = "cut" THEN result = "Truncated"
                      ELSE result = "ok" /\ out = SubSeq(bucket, 1, included)
    BY DEF WholeOrNotAtAll
  <2>1. ~Unsent /\ result \in {"ok", "Truncated"} /\ (result = "Truncated" => fate = "cut")
    BY <1>1 DEF Decided, Unsent, TranscriptInv, Ended
  <2>2. ASSUME result = "ok" PROVE fate # "cut" /\ out = SubSeq(bucket, 1, included)
    <3>1. pos > 0 /\ Len(out) = count /\ count = included /\ out = SubSeq(bucket, 1, Len(out))
      BY <1>1, <2>2 DEF TranscriptInv, Ended, InStep
    <3>2. out = Taken
      BY <3>1 DEF Taken
    <3>3. bytes = Blob(included, Taken) /\ bytes \in Seq(Byte)
      BY <1>1, <2>1, SentIs
    <3>4. /\ Blob(count, out) = SubSeq(datagram, 1, pos) /\ pos <= Len(datagram)
          /\ datagram \in Seq(Byte) /\ pos \in Nat /\ (fate = "cut" => Len(datagram) < Len(bytes))
      BY <1>1, <2>1, <3>1 DEF TranscriptInv, TranscriptTypes, ReadSoFar, Arrived
    <3>5. Len(bytes) = pos
      <4>1. bytes = SubSeq(datagram, 1, pos)
        BY <3>1, <3>2, <3>3, <3>4, Zenon
      <4>2. Len(SubSeq(datagram, 1, pos)) = pos
        BY <3>4
      <4> QED BY <4>1, <4>2
    <3>6. Len(datagram) \in Nat
      BY <3>4
    <3> QED BY <3>2, <3>4, <3>5, <3>6 DEF Taken
  <2> QED BY <2>1, <2>2
<1> QED BY <1>1, TranscriptInvHolds, PTL
-----------------------------------------------------------------------------
(* Filling each datagram first wastes none: the buckets stay ahead of any  *)
(* other cut of the same entries.                                          *)

LEMMA SliceGrows ==
    ASSUME NEW S, NEW s \in Seq(S), NEW i \in Nat, NEW n \in 1..Len(s), i < n
    PROVE  /\ s[n] \in S /\ SubSeq(s, i + 1, n - 1) \in Seq(S)
           /\ SubSeq(s, i + 1, n) = Append(SubSeq(s, i + 1, n - 1), s[n])
<1> DEFINE u == SubSeq(s, i + 1, n - 1)
           v == SubSeq(s, i + 1, n)
           w == Append(u, s[n])
<1>1. s[n] \in S /\ n \in Nat /\ n - 1 \in Nat /\ n - i \in Nat /\ n <= Len(s) /\ Len(s) \in Nat
  OBVIOUS
<1>2. u \in Seq(S) /\ Len(u) = n - 1 - i /\ v \in Seq(S) /\ Len(v) = n - i
  BY <1>1, Adjoin
<1>3. /\ \A k \in 1..(n - 1 - i) : u[k] = s[i + k]
      /\ \A k \in 1..(n - i) : v[k] = s[i + k]
  <2>1. n - 1 - i \in Nat /\ i + (n - 1 - i) = n - 1 /\ i + (n - i) = n
        /\ i + (n - 1 - i) <= Len(s)
    BY <1>1
  <2>2. ASSUME NEW k \in 1..(n - 1 - i) PROVE SubSeq(s, i + 1, i + (n - 1 - i))[k] = s[i + k]
    BY <1>1, <2>1, SubSeqAt
  <2>3. ASSUME NEW k \in 1..(n - i) PROVE SubSeq(s, i + 1, i + (n - i))[k] = s[i + k]
    BY <1>1, <2>1, SubSeqAt
  <2> QED BY <2>1, <2>2, <2>3
<1> HIDE DEF u, v
<1>4. w \in Seq(S) /\ Len(w) = n - i /\ w[n - i] = s[n] /\ \A k \in 1..(n - 1 - i) : w[k] = u[k]
  BY <1>1, <1>2
<1> HIDE DEF w
<1>5. ASSUME NEW k \in 1..(n - i) PROVE v[k] = w[k]
  <2>1. k = n - i \/ k \in 1..(n - 1 - i)
    BY <1>1
  <2>2. i + (n - i) = n
    BY <1>1
  <2> QED BY <1>3, <1>4, <2>1, <2>2
<1>6. v = w
  BY <1>1, <1>2, <1>4, <1>5, SeqEqual
<1> QED BY <1>1, <1>2, <1>6 DEF u, v, w

\* A part of a sequence takes no more bytes than a part around it.
LEMMA SliceLens ==
    ASSUME NEW s \in Seq(Entries), NEW p \in Nat, NEW i \in Nat, NEW j \in Nat, NEW q \in Nat,
           p <= i, i <= j, j <= q, q <= Len(s)
    PROVE  /\ WireLen(SubSeq(s, i + 1, j)) \in Nat /\ WireLen(SubSeq(s, p + 1, q)) \in Nat
           /\ WireLen(SubSeq(s, i + 1, j)) <= WireLen(SubSeq(s, p + 1, q))
<1> DEFINE N == Len(s)
           v == WireLens(s)
<1>1. /\ N \in Nat /\ v \in [0..N -> Nat] /\ \A k \in 1..N : s[k] \in Entries
      /\ \A k \in 1..N : v[k] = v[k - 1] + entry_wire_len(s[k])
  BY WireLensStep
<1>2. \A k \in 1..N : entry_wire_len(s[k]) \in Nat
  BY <1>1, EntryLens
<1> HIDE DEF v
<1>3. ASSUME NEW a \in 0..N, NEW b \in 0..N, a <= b
      PROVE  /\ WireLen(SubSeq(s, a + 1, b)) \in Nat
             /\ v[b] = v[a] + WireLen(SubSeq(s, a + 1, b))
  <2> DEFINE l(k) == WireLen(SubSeq(s, a + 1, k))
             T == {k \in 0..N : k >= a => l(k) \in Nat /\ v[k] = v[a] + l(k)}
  <2>1. l(a) = 0
    <3>1. SubSeq(s, a + 1, a) = <<>>
      BY <1>1
    <3> QED BY <3>1, WireLenNone
  <2>2. ASSUME NEW k \in 1..N, k > a
        PROVE  l(k - 1) \in Nat /\ l(k) = l(k - 1) + entry_wire_len(s[k])
    <3>1. a \in Nat /\ a < k
      BY <2>2
    <3>2. /\ s[k] \in Entries /\ SubSeq(s, a + 1, k - 1) \in Seq(Entries)
          /\ SubSeq(s, a + 1, k) = Append(SubSeq(s, a + 1, k - 1), s[k])
      BY <3>1, SliceGrows
    <3> QED BY <3>2, WireLenAppend
  <2> HIDE DEF l, N
  <2>3. v[a] \in Nat /\ a \in 0..N
    BY <1>1
  <2>4. 0 \in T
    BY <1>1, <2>1, <2>3
  <2>5. ASSUME NEW k \in 1..N, k - 1 \in T PROVE k \in T
    <3>1. k \in 0..N /\ k - 1 \in Nat
      BY <1>1
    <3>2. CASE k < a
      BY <3>1, <3>2
    <3>3. CASE k = a
      BY <2>1, <2>3, <3>1, <3>3
    <3>4. CASE k > a
      <4>1. l(k - 1) \in Nat /\ v[k - 1] = v[a] + l(k - 1)
        BY <2>3, <2>5, <3>4
      <4>2. v[k] = v[k - 1] + entry_wire_len(s[k]) /\ entry_wire_len(s[k]) \in Nat
        BY <1>1, <1>2
      <4>3. l(k) = l(k - 1) + entry_wire_len(s[k])
        BY <2>2, <3>4
      <4>4. l(k) \in Nat /\ v[k] = v[a] + l(k)
        BY <2>3, <4>1, <4>2, <4>3
      <4> QED BY <3>1, <4>4
    <3> QED BY <2>3, <3>1, <3>2, <3>3, <3>4
  <2> HIDE DEF T
  <2>6. 0..N \subseteq T
    BY <1>1, <2>4, <2>5, UpTo
  <2>7. b \in T
    BY <2>6
  <2> QED BY <1>3, <2>7 DEF T, l
<1>4. ASSUME NEW a \in 0..N, NEW b \in 0..N, a <= b
      PROVE  v[a] \in Nat /\ v[b] \in Nat /\ v[a] <= v[b]
  <2>1. v[a] \in Nat /\ v[b] \in Nat
    BY <1>1
  <2> DEFINE x == WireLen(SubSeq(s, a + 1, b))
  <2>2. x \in Nat /\ v[b] = v[a] + x
    BY <1>3, <1>4
  <2> HIDE DEF x
  <2> QED BY <2>1, <2>2
<1>5. p \in 0..N /\ i \in 0..N /\ j \in 0..N /\ q \in 0..N
  BY <1>1
<1> DEFINE x == WireLen(SubSeq(s, i + 1, j))
           y == WireLen(SubSeq(s, p + 1, q))
<1>6. x \in Nat /\ v[j] = v[i] + x /\ y \in Nat /\ v[q] = v[p] + y
  <2>1. p <= q
    BY <1>5
  <2> QED BY <1>3, <1>5, <2>1
<1>7. v[p] <= v[i] /\ v[j] <= v[q] /\ v[p] \in Nat /\ v[i] \in Nat /\ v[j] \in Nat /\ v[q] \in Nat
  BY <1>4, <1>5
<1> HIDE DEF x, y
<1>8. x <= y
  BY <1>6, <1>7
<1> QED BY <1>6, <1>8 DEF x, y

LEMMA Least ==
    ASSUME NEW S \in SUBSET Nat, S # {}
    PROVE  \E m \in S : \A k \in S : m <= k
<1> DEFINE R == OpToRel(<, Nat)
<1>1. IsWellFoundedOn(R, Nat)
  BY NatLessThanWellFounded
<1>2. PICK m \in S : \A k \in S : <<k, m>> \notin R
  <2> HIDE DEF R
  <2> QED BY <1>1, WFMin
<1>3. \A k \in S : ~(k < m)
  BY <1>2 DEF OpToRel
<1> QED BY <1>3

LEMMA Greatest ==
    ASSUME NEW n \in Nat, NEW S \in SUBSET (0..n), S # {}
    PROVE  \E m \in S : \A k \in S : k <= m
<1> DEFINE U == {u \in 0..n : \A k \in S : k <= u}
<1>1. n \in U /\ U \subseteq Nat
  OBVIOUS
<1>2. PICK m \in U : \A u \in U : m <= u
  <2> HIDE DEF U
  <2> QED BY <1>1, Least
<1>3. m \in 0..n /\ \A k \in S : k <= m
  OBVIOUS
<1>4. m \in S
  <2>1. SUFFICES ASSUME m \notin S PROVE FALSE
    OBVIOUS
  <2>2. \A k \in S : k \in 0..n /\ k <= m - 1
    BY <1>3, <2>1
  <2>3. PICK k \in S : TRUE
    OBVIOUS
  <2>4. m - 1 \in 0..n
    BY <1>3, <2>2, <2>3
  <2>5. m - 1 \in U
    BY <2>2, <2>4
  <2> HIDE DEF U
  <2>6. m <= m - 1 /\ m \in Int
    BY <1>2, <1>3, <2>5
  <2> QED BY <2>6
<1> QED BY <1>3, <1>4

LEMMA OneMore ==
    ASSUME NEW n \in Nat, NEW C \in SUBSET (0..n), NEW D \in SUBSET C, NEW c \in C, c \notin D
    PROVE  /\ Cardinality(C) \in Nat /\ Cardinality(D) \in Nat
           /\ Cardinality(C) >= Cardinality(D) + 1
<1>1. IsFiniteSet(0..n)
  BY FS_Interval
<1>2. IsFiniteSet(C)
  BY <1>1, FS_Subset
<1>3. IsFiniteSet(D)
  BY <1>2, FS_Subset
<1> DEFINE E == D \cup {c}
<1>4. Cardinality(E) = Cardinality(D) + 1 /\ E \in SUBSET C
  BY <1>3, FS_AddElement
<1>5. Cardinality(E) <= Cardinality(C)
  BY <1>2, <1>4, FS_Subset
<1>6. Cardinality(C) \in Nat /\ Cardinality(D) \in Nat
  BY <1>2, <1>3, FS_CardinalityType
<1> QED BY <1>4, <1>5, <1>6

\* Every piece of w between two neighbours of C fits a datagram.
FitsCut(w, C) ==
    \A i, j \in C : (i < j /\ \A k \in C : ~(i < k /\ k < j)) =>
        TRANSCRIPT_HEADER_LEN + WireLen(SubSeq(w, i + 1, j)) <= PerDatagramBudget

\* The ways to cut w from its start to its entry n or further.
CutsTo(w, n) == {C \in SUBSET (0..Len(w)) : 0 \in C /\ (\E c \in C : c >= n) /\ FitsCut(w, C)}

AtMost(C, s) == {c \in C : c <= s}

\* Where the bucket being filled starts.
Start == (next - 1) - Len(current)

Recent == ~done => Start \in Nat /\ current = SubSeq(window, Start + 1, next - 1)

\* Who is as far has cut at least as often before the start of the bucket being filled.
NoBetter == ~done =>
    \A C \in CutsTo(window, next - 1) : Cardinality(AtMost(C, Start)) >= Len(buckets) + 1

GreedyInv == Recent /\ NoBetter /\ FewestDatagrams

LEMMA GreedyStarts == ASSUME BucketInit PROVE GreedyInv
<1>1. window \in Windows /\ done = FALSE /\ next = 1 /\ buckets = <<>> /\ current = <<>>
  BY DEF BucketInit
<1>2. window \in Seq(Known) /\ Len(window) \in Nat
  BY <1>1, WindowKnown
<1>3. next - 1 = 0 /\ Len(current) = 0 /\ Len(buckets) = 0 /\ Start = 0
  <2>1. next - 1 = 0
    BY <1>1
  <2>2. Len(<<>>) = 0
    OBVIOUS
  <2>3. Len(current) = 0 /\ Len(buckets) = 0
    BY <1>1, <2>2
  <2> QED BY <2>1, <2>3 DEF Start
<1>4. Recent
  BY <1>1, <1>2, <1>3 DEF Recent
<1>5. ASSUME NEW C \in CutsTo(window, 0) PROVE Cardinality(AtMost(C, 0)) >= 1
  <2>1. 0 \in C /\ C \in SUBSET (0..Len(window))
    BY DEF CutsTo
  <2>2. AtMost(C, 0) = {0}
    <3>1. \A c \in C : c \in Nat
      BY <1>2, <2>1
    <3>2. \A c \in C : c <= 0 <=> c = 0
      BY <3>1
    <3> QED BY <2>1, <3>2 DEF AtMost
  <2>3. Cardinality({0}) = 1
    BY FS_Singleton
  <2> QED BY <2>2, <2>3
<1> QED BY <1>1, <1>3, <1>4, <1>5 DEF GreedyInv, NoBetter, FewestDatagrams

LEMMA GreedyTakes == ASSUME BucketInv, GreedyInv, Take PROVE GreedyInv'
<1> DEFINE e == window[next]
           b == IF Full THEN <<>> ELSE current
           H == TRANSCRIPT_HEADER_LEN
           N == Len(window)
<1>1. /\ ~done /\ next <= N /\ Fits
      /\ buckets' = IF Full THEN Append(buckets, current) ELSE buckets
      /\ current' = Append(b, e)
      /\ next' = next + 1
      /\ window' = window /\ done' = done
  BY DEF Take, TakeInto
<1>2. /\ window \in Seq(Known) /\ next \in 1..(N + 1)
      /\ buckets \in Seq(Seq(Takable)) /\ current \in Seq(Takable)
      /\ current_len = H + WireLen(current)
  BY <1>1, WindowKnown DEF BucketInv, BucketTypes, Sized
<1>3. Start \in Nat /\ current = SubSeq(window, Start + 1, next - 1)
      /\ \A C \in CutsTo(window, next - 1) : Cardinality(AtMost(C, Start)) >= Len(buckets) + 1
  BY <1>1 DEF GreedyInv, Recent, NoBetter
<1>4. N \in Nat /\ window \in Seq(Entries) /\ Len(current) \in Nat /\ Len(buckets) \in Nat
  BY <1>2 DEF Known
<1> HIDE DEF N
<1>5. next \in 1..N /\ next - 1 \in Nat /\ (next + 1) - 1 = next /\ next \in Nat
  BY <1>1, <1>2, <1>4
<1>6. Start + Len(current) = next - 1 /\ Start <= next - 1 /\ Start < next
  BY <1>3, <1>4, <1>5 DEF Start
<1>7. /\ e \in Entries
      /\ SubSeq(window, Start + 1, next) = Append(current, e)
      /\ SubSeq(window, (next - 1) + 1, next) = Append(<<>>, e)
  <2>1. /\ window[next] \in Entries
        /\ SubSeq(window, Start + 1, next)
           = Append(SubSeq(window, Start + 1, next - 1), window[next])
    BY <1>3, <1>4, <1>5, <1>6, SliceGrows DEF N
  <2>2. next - 1 < next
    BY <1>5
  <2>3. SubSeq(window, (next - 1) + 1, next)
        = Append(SubSeq(window, (next - 1) + 1, next - 1), window[next])
    BY <1>4, <1>5, <2>2, SliceGrows DEF N
  <2>4. SubSeq(window, (next - 1) + 1, next - 1) = <<>>
    BY <1>4, <1>5
  <2> QED BY <1>3, <2>1, <2>3, <2>4
<1>8. Start' = IF Full THEN next - 1 ELSE Start
  <2>1. CASE Full
    <3>1. current' = <<e>> /\ Len(<<e>>) = 1
      BY <1>1, <2>1
    <3>2. Start' = (next + 1) - 1 - 1
      BY <1>1, <3>1 DEF Start
    <3> QED BY <1>5, <2>1, <3>2
  <2>2. CASE ~Full
    <3>1. Len(current') = Len(current) + 1
      <4>1. current' = Append(current, e) /\ current \in Seq(Entries)
        BY <1>1, <1>2, <2>2 DEF Takable, Known
      <4> QED BY <1>7, <4>1
    <3>2. Start' = (next + 1) - 1 - (Len(current) + 1)
      BY <1>1, <3>1 DEF Start
    <3>3. Start = (next - 1) - Len(current)
      BY DEF Start
    <3> QED BY <1>4, <1>5, <2>2, <3>2, <3>3
  <2> QED BY <2>1, <2>2
<1>9. Recent'
  <2>1. CASE Full
    <3>1. Start' = next - 1 /\ current' = Append(<<>>, e) /\ next' - 1 = next
      BY <1>1, <1>5, <1>8, <2>1
    <3>2. current' = SubSeq(window', Start' + 1, next' - 1)
      BY <1>1, <1>7, <3>1
    <3> QED BY <1>5, <3>1, <3>2 DEF Recent
  <2>2. CASE ~Full
    <3>1. Start' = Start /\ current' = Append(current, e) /\ next' - 1 = next
      BY <1>1, <1>5, <1>8, <2>2
    <3>2. current' = SubSeq(window', Start' + 1, next' - 1)
      BY <1>1, <1>7, <3>1
    <3> QED BY <1>3, <3>1, <3>2 DEF Recent
  <2> QED BY <2>1, <2>2
<1>10. ASSUME NEW C \in CutsTo(window, next)
       PROVE  Cardinality(AtMost(C, Start')) >= Len(buckets') + 1
  <2>1. PICK far \in C : far >= next
    BY DEF CutsTo
  <2>2. C \in SUBSET (0..N) /\ 0 \in C /\ FitsCut(window, C)
    BY DEF CutsTo, N
  <2>3. C \in CutsTo(window, next - 1)
    <3>1. far >= next - 1
      BY <1>4, <1>5, <2>1, <2>2
    <3> QED BY <2>1, <2>2, <3>1 DEF CutsTo, N
  <2>4. Cardinality(AtMost(C, Start)) >= Len(buckets) + 1
    BY <1>3, <2>3
  <2>5. CASE ~Full
    BY <1>1, <1>8, <2>4, <2>5
  <2>6. CASE Full
    <3>1. PICK c \in C : Start < c /\ c <= next - 1
      <4>1. SUFFICES ASSUME \A c \in C : ~(Start < c /\ c <= next - 1) PROVE FALSE
        OBVIOUS
      <4>2. PICK i \in AtMost(C, Start) : \A k \in AtMost(C, Start) : k <= i
        <5>1. 0 <= Start
          BY <1>3
        <5>2. 0 \in AtMost(C, Start) /\ AtMost(C, Start) \in SUBSET (0..N)
          BY <2>2, <5>1 DEF AtMost
        <5> QED BY <1>4, <5>2, Greatest
      <4>3. PICK j \in {k \in C : k >= next} : \A k \in {x \in C : x >= next} : j <= k
        <5> DEFINE S == {k \in C : k >= next}
        <5>1. S \in SUBSET Nat /\ S # {}
          <6>1. C \subseteq Nat
            BY <1>4, <2>2
          <6> QED BY <2>1, <6>1
        <5> HIDE DEF S
        <5>2. \E m \in S : \A k \in S : m <= k
          BY <5>1, Least
        <5> QED BY <5>2 DEF S
      <4>4. i \in C /\ j \in C /\ i <= Start /\ next <= j /\ i \in Nat /\ j \in Nat /\ j <= N
        BY <1>4, <2>2, <4>2, <4>3 DEF AtMost
      <4>5. ASSUME NEW k \in C PROVE ~(i < k /\ k < j)
        <5>1. k \in Nat
          BY <1>4, <2>2
        <5>2. k <= Start \/ k >= next
          BY <1>3, <1>5, <4>1, <5>1
        <5>3. CASE k <= Start
          <6>1. k <= i
            BY <4>2, <5>3 DEF AtMost
          <6> QED BY <4>4, <5>1, <6>1
        <5>4. CASE k >= next
          <6>1. j <= k
            BY <4>3, <5>4
          <6> QED BY <4>4, <5>1, <6>1
        <5> QED BY <5>2, <5>3, <5>4
      <4>6. i < j
        BY <1>3, <1>5, <1>6, <4>4
      <4> DEFINE x == WireLen(SubSeq(window, i + 1, j))
                 y == WireLen(SubSeq(window, Start + 1, next))
      <4>7. H + x <= PerDatagramBudget
        BY <2>2, <4>4, <4>5, <4>6 DEF FitsCut
      <4>8. x \in Nat /\ y \in Nat /\ y <= x
        <5>1. Start <= next
          BY <1>3, <1>5, <1>6
        <5> QED BY <1>3, <1>4, <1>5, <4>4, <5>1, SliceLens DEF N
      <4>9. y = WireLen(current) + entry_wire_len(e) /\ WireLen(current) \in Nat
            /\ entry_wire_len(e) \in Nat
        <5>1. current \in Seq(Entries)
          BY <1>2 DEF Takable, Known
        <5> QED BY <1>7, <5>1, WireLenAppend, EntryLens
      <4>10. H + WireLen(current) + entry_wire_len(e) > PerDatagramBudget
        BY <1>2, <2>6 DEF Full
      <4>11. H \in Nat /\ PerDatagramBudget \in Int
        BY BucketConstants DEF PerDatagramBudget
      <4> HIDE DEF x, y, H, e
      <4> QED BY <4>7, <4>8, <4>9, <4>10, <4>11
    <3> DEFINE D == AtMost(C, Start)
               G == AtMost(C, next - 1)
    <3>2. G \in SUBSET (0..N) /\ D \in SUBSET G /\ c \in G /\ c \notin D
      <4>1. \A k \in C : k \in Nat
        BY <1>4, <2>2
      <4>2. \A k \in C : k <= Start => k <= next - 1
        BY <1>3, <1>5, <1>6, <4>1
      <4>3. ~(c <= Start)
        BY <1>3, <3>1, <4>1
      <4> QED BY <2>2, <3>1, <4>2, <4>3 DEF AtMost
    <3>3. Cardinality(G) \in Nat /\ Cardinality(D) \in Nat /\ Cardinality(G) >= Cardinality(D) + 1
      BY <1>4, <3>2, OneMore
    <3>4. Len(buckets') = Len(buckets) + 1
      BY <1>1, <1>2, <2>6
    <3>5. Cardinality(D) >= Len(buckets) + 1
      BY <2>4
    <3> HIDE DEF D, G
    <3>6. Cardinality(G) >= Len(buckets') + 1
      BY <1>4, <3>3, <3>4, <3>5
    <3> QED BY <1>8, <2>6, <3>6 DEF G
  <2> QED BY <2>5, <2>6
<1>11. NoBetter'
  <2>1. next' - 1 = next
    BY <1>1, <1>5
  <2> QED BY <1>1, <1>10, <2>1 DEF NoBetter
<1>12. FewestDatagrams'
  BY <1>1 DEF FewestDatagrams
<1> QED BY <1>9, <1>11, <1>12 DEF GreedyInv

LEMMA GreedyStops == ASSUME BucketInv, GreedyInv, Stop PROVE GreedyInv'
<1> DEFINE n == next - 1
           N == Len(window)
<1>1. /\ ~done
      /\ buckets' = IF current = <<>> THEN buckets ELSE Append(buckets, current)
      /\ done' = TRUE /\ next' = next /\ window' = window
  BY DEF Stop
<1>2. /\ window \in Seq(Known) /\ next \in 1..(N + 1)
      /\ buckets \in Seq(Seq(Takable)) /\ current \in Seq(Takable)
  BY WindowKnown DEF BucketInv, BucketTypes
<1>3. Start \in Nat
      /\ \A C \in CutsTo(window, n) : Cardinality(AtMost(C, Start)) >= Len(buckets) + 1
  BY <1>1 DEF GreedyInv, Recent, NoBetter
<1>4. N \in Nat /\ Len(current) \in Nat /\ Len(buckets) \in Nat
  BY <1>2
<1>5. n \in 0..N /\ n \in Nat
  <2> HIDE DEF N
  <2> QED BY <1>2, <1>4
<1>6. Start = n - Len(current)
  BY DEF Start
<1> HIDE DEF n
<1>7. ASSUME NEW C \in SUBSET (0..n), {0, n} \subseteq C, FitsCut(window, C)
      PROVE  Len(buckets') <= Cardinality(C) - 1
  <2> DEFINE D == AtMost(C, Start)
  <2>1. n \in C /\ 0 \in C /\ C \in SUBSET (0..N) /\ \A k \in C : k \in Nat /\ k <= n
    <3> HIDE DEF N
    <3> QED BY <1>4, <1>5, <1>7
  <2>2. C \in CutsTo(window, n)
    <3>1. n >= n
      BY <1>5
    <3> QED BY <1>7, <2>1, <3>1 DEF CutsTo
  <2>3. Cardinality(D) >= Len(buckets) + 1
    BY <1>3, <2>2
  <2>4. CASE current = <<>>
    <3>1. Start = n
      <4>1. Len(current) = 0
        BY <2>4
      <4> QED BY <1>5, <1>6, <4>1
    <3>2. D = C
      BY <2>1, <3>1 DEF AtMost
    <3>3. Cardinality(C) \in Nat
      <4>1. IsFiniteSet(0..n)
        BY <1>5, FS_Interval
      <4>2. IsFiniteSet(C)
        BY <4>1, FS_Subset
      <4> QED BY <4>2, FS_CardinalityType
    <3> HIDE DEF D
    <3> QED BY <1>1, <1>4, <2>3, <2>4, <3>2, <3>3
  <2>5. CASE current # <<>>
    <3>1. Len(current) # 0
      BY <1>2, <2>5
    <3>2. D \in SUBSET C /\ n \notin D
      <4>1. ~(n <= Start)
        BY <1>3, <1>4, <1>5, <1>6, <3>1
      <4> QED BY <4>1 DEF AtMost
    <3>3. Cardinality(C) \in Nat /\ Cardinality(D) \in Nat /\ Cardinality(C) >= Cardinality(D) + 1
      BY <1>5, <2>1, <3>2, OneMore
    <3>4. Len(buckets') = Len(buckets) + 1
      BY <1>1, <1>2, <2>5
    <3> HIDE DEF D
    <3> QED BY <1>4, <2>3, <3>3, <3>4
  <2> QED BY <2>4, <2>5
<1>8. FewestDatagrams'
  BY <1>1, <1>7 DEF FewestDatagrams, FitsCut, n
<1>9. Recent' /\ NoBetter'
  BY <1>1 DEF Recent, NoBetter
<1> QED BY <1>8, <1>9 DEF GreedyInv

\* FewestDatagrams: no other way to cut what goes out into datagrams that hold it needs
\* fewer of them (preamble.rs:72-78).
THEOREM NoneWasted == Spec => []FewestDatagrams
<1>1. Init => GreedyInv
  BY GreedyStarts DEF Init
<1>2. BucketInv /\ GreedyInv /\ [Next]_vars => GreedyInv'
  <2> SUFFICES ASSUME BucketInv, GreedyInv, [Next]_vars PROVE GreedyInv'
    OBVIOUS
  <2>1. CASE Stop
    BY <2>1, GreedyStops
  <2>2. CASE Take
    BY <2>2, GreedyTakes
  <2>3. CASE UNCHANGED bucketVars
    BY <2>3 DEF bucketVars, GreedyInv, Recent, NoBetter, FewestDatagrams, Start
  <2> QED BY <2>1, <2>2, <2>3 DEF Next, CutWindow, BucketLoop, EncodeBucket, CodeAndCarry, vars
<1>3. GreedyInv => FewestDatagrams
  BY DEF GreedyInv
<1> QED BY <1>1, <1>2, <1>3, BucketInvHolds, PTL DEF Spec
=============================================================================

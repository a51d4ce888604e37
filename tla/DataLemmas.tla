------------------------------ MODULE DataLemmas ------------------------------
(***************************************************************************)
(* Facts about data that the proofs share: what a queue holds after push   *)
(* and pop, and induction over numbers, for what loops compute.            *)
(***************************************************************************)
EXTENDS Sequences, Integers, WellFoundedInduction, TLAPS

\* A set of numbers has a least one.
LEMMA LeastNumber ==
    ASSUME NEW S \in SUBSET Nat, S # {}
    PROVE  \E x \in S : \A y \in S : x =< y
<1> DEFINE R == OpToRel(<, Nat)
<1>1. \A x, y \in Nat : <<y, x>> \in R <=> y < x
  BY DEF OpToRel
<1>2. IsWellFoundedOn(R, Nat)
  BY NatLessThanWellFounded
<1> HIDE DEF R
<1>3. PICK x \in S : \A y \in S : ~ (<<y, x>> \in R)
  BY <1>2, WFMin
<1>4. \A y \in S : ~ (y < x)
  BY <1>1, <1>3
<1> QED
  BY <1>4

\* What holds before a loop and after every round holds at its end: a set S of
\* numbers of rounds stands for the property.
LEMMA LoopInduction ==
    ASSUME NEW N \in Nat, NEW S, 0 \in S,
           \A n \in 0 .. N : n # N /\ n \in S => n + 1 \in S
    PROVE  \A n \in 0 .. N : n \in S
<1> DEFINE A == {n \in 0 .. N : n \notin S}
<1> SUFFICES ASSUME A # {} PROVE FALSE
  OBVIOUS
<1>1. A \in SUBSET Nat
  OBVIOUS
<1>2. PICK m \in A : \A y \in A : m =< y
  BY <1>1, LeastNumber
<1>3. m \in 1 .. N
  BY <1>2
<1>4. m - 1 \in 0 .. N /\ m - 1 # N /\ m - 1 \in S /\ (m - 1) + 1 = m
  BY <1>2, <1>3
<1> QED
  BY <1>2, <1>4

\* Sequences with the same elements are the same.
LEMMA SameSequence ==
    ASSUME NEW S, NEW s \in Seq(S), NEW t \in Seq(S), Len(s) = Len(t),
           \A i \in 1 .. Len(s) : s[i] = t[i]
    PROVE  s = t
<1>1. /\ s = [i \in 1 .. Len(s) |-> s[i]] /\ t = [i \in 1 .. Len(t) |-> t[i]]
  OBVIOUS
<1> QED
  BY <1>1, Zenon

\* Division with remainder
LEMMA DivMod ==
    ASSUME NEW v \in Nat, NEW m \in Nat \ {0}
    PROVE  /\ v = (m * (v \div m)) + (v % m)
           /\ v % m \in 0 .. (m - 1) /\ v \div m \in Nat
OBVIOUS

\* Products of integers
LEMMA Times ==
    ASSUME NEW m \in Nat, NEW x \in Int, NEW y \in Int
    PROVE  /\ m * x \in Int /\ m * x = x * m
           /\ m * (x - y) = (m * x) - (m * y)
           /\ x >= 1 => m * x >= m
OBVIOUS

\* Quotient and remainder are the only ones.
LEMMA ModUnique ==
    ASSUME NEW v \in Nat, NEW m \in Nat \ {0}, NEW a \in Nat, NEW c \in 0 .. (m - 1),
           v = (m * a) + c
    PROVE  v % m = c /\ v \div m = a
<1> DEFINE q == v \div m
           r == v % m
<1>1. v = (m * q) + r /\ r \in 0 .. (m-1) /\ q \in Nat
  BY DivMod
<1> HIDE DEF q, r
<1>2. (m * (a - q)) = r - c
  BY <1>1
<1>3. ~ (a - q >= 1)
  <2>1. a - q >= 1 => m * (a - q) >= m
    BY <1>1, Times
  <2> QED
    BY <1>1, <1>2, <2>1
<1>4. ~ (q - a >= 1)
  <2>1. q - a >= 1 => m * (q - a) >= m
    BY <1>1, Times
  <2>2. m * (q - a) = c - r
    BY <1>1
  <2> QED
    BY <1>1, <2>2, <2>1
<1>5. a = q
  BY <1>1, <1>3, <1>4
<1> QED
  BY <1>1, <1>5 DEF q, r

\* The remainder for a seven-bit group more
LEMMA DigitStep ==
    ASSUME NEW v \in Nat, NEW w \in Nat \ {0}
    PROVE  v % (128 * w) = (v % w) + (((v \div w) % 128) * w)
<1>1. PICK q \in Nat, r \in 0 .. (w - 1) : q = v \div w /\ r = v % w /\ v = (w * q) + r
  BY DivMod
<1>2. PICK a \in Nat, b \in 0 .. 127 : b = q % 128 /\ q = (128 * a) + b
  <2>1. q = (128 * (q \div 128)) + (q % 128) /\ q % 128 \in 0 .. 127 /\ q \div 128 \in Nat
    OBVIOUS
  <2> QED
    BY <2>1
<1>3. v = ((128 * w) * a) + ((w * b) + r)
  <2>1. v = (w * q) + r /\ q = (128 * a) + b
    BY <1>1, <1>2
  <2>2. w * ((128 * a) + b) = (w * (128 * a)) + (w * b)
    BY <1>2
  <2>3. w * (128 * a) = (128 * w) * a
    OBVIOUS
  <2> QED
    BY <2>1, <2>2, <2>3
<1>4. (w * b) + r \in 0 .. ((128 * w) - 1)
  <2>1. w * b >= 0 /\ w * b =< w * 127
    BY <1>2
  <2> QED
    BY <1>1, <2>1
<1>5. 128 * w \in Nat \ {0}
  OBVIOUS
<1>6. v % (128 * w) = (w * b) + r
  BY <1>3, <1>4, <1>5, ModUnique, ZenonT(40)
<1>7. (w * b) + r = r + (b * w)
  BY <1>1, <1>2
<1>8. r = v % w /\ b = (v \div w) % 128
  BY <1>1, <1>2
<1> HIDE <1>1, <1>2
<1> QED
  BY <1>6, <1>7, <1>8

\* The elements of a queue
Elements(q) == {q[i] : i \in DOMAIN q}

\* No element is in the queue twice.
NoDuplicates(q) == \A i, j \in DOMAIN q : q[i] = q[j] => i = j

\* push_back adds one element and, if it is new, no duplicate.
LEMMA PushedElements ==
    ASSUME NEW S, NEW q \in Seq(S), NEW t \in S
    PROVE  /\ Append(q, t) \in Seq(S)
           /\ Elements(Append(q, t)) = Elements(q) \cup {t}
           /\ NoDuplicates(q) /\ t \notin Elements(q) => NoDuplicates(Append(q, t))
<1> DEFINE p == Append(q, t)
<1>1. /\ p \in Seq(S) /\ DOMAIN p = 1 .. (Len(q) + 1) /\ DOMAIN q = 1 .. Len(q)
      /\ Len(q) \in Nat
      /\ \A i \in DOMAIN q : p[i] = q[i]
      /\ p[Len(q) + 1] = t
  OBVIOUS
<1> HIDE DEF p
<1>2. Elements(p) \subseteq Elements(q) \cup {t}
  BY <1>1 DEF Elements
<1>3. Elements(q) \cup {t} \subseteq Elements(p)
  BY <1>1 DEF Elements
<1>4. NoDuplicates(q) /\ t \notin Elements(q) => NoDuplicates(p)
  BY <1>1 DEF Elements, NoDuplicates
<1> QED
  BY <1>1, <1>2, <1>3, <1>4 DEF p

\* pop_front takes the first element out, and no other.
LEMMA PoppedElements ==
    ASSUME NEW S, NEW q \in Seq(S), q # <<>>, NoDuplicates(q)
    PROVE  /\ Tail(q) \in Seq(S) /\ Head(q) \in S
           /\ Elements(q) = Elements(Tail(q)) \cup {Head(q)}
           /\ Head(q) \notin Elements(Tail(q))
           /\ NoDuplicates(Tail(q))
<1> DEFINE p == Tail(q)
<1>1. /\ p \in Seq(S) /\ DOMAIN p = 1 .. (Len(q) - 1) /\ DOMAIN q = 1 .. Len(q)
      /\ Len(q) \in Nat \ {0}
      /\ \A i \in DOMAIN p : p[i] = q[i + 1]
      /\ Head(q) = q[1] /\ Head(q) \in S
  OBVIOUS
<1> HIDE DEF p
<1>2. Elements(p) \cup {Head(q)} \subseteq Elements(q)
  BY <1>1 DEF Elements
<1>3. Elements(q) \subseteq Elements(p) \cup {Head(q)}
  <2>1. SUFFICES ASSUME NEW i \in DOMAIN q, i # 1 PROVE q[i] \in Elements(p)
    BY <1>1 DEF Elements
  <2>2. i - 1 \in DOMAIN p /\ p[i - 1] = q[i]
    BY <1>1, <2>1
  <2> QED
    BY <2>2 DEF Elements
<1>4. Head(q) \notin Elements(p) /\ NoDuplicates(p)
  <2>1. \A i, j \in DOMAIN q : q[i] = q[j] => i = j
    BY DEF NoDuplicates
  <2>2. \A i \in DOMAIN p : i + 1 \in DOMAIN q /\ i + 1 # 1
    BY <1>1
  <2>3. 1 \in DOMAIN q
    BY <1>1
  <2>4. Head(q) \notin Elements(p)
    BY <1>1, <2>1, <2>2, <2>3 DEF Elements
  <2>5. NoDuplicates(p)
    BY <1>1, <2>1, <2>2 DEF NoDuplicates
  <2> QED
    BY <2>4, <2>5
<1> QED
  BY <1>1, <1>2, <1>3, <1>4 DEF p
================================================================================

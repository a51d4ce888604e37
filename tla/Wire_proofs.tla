------------------------------ MODULE Wire_proofs ------------------------------
(***************************************************************************)
(* The octets of a session, in both directions, for every size of an       *)
(* octet, every script of frames and every way to cut them.                *)
(***************************************************************************)
EXTENDS Wire, DataLemmas, FiniteSetTheorems

(***************************************************************************)
(* Sequences of octets                                                     *)
(***************************************************************************)

\* c is a and b put together, of the lengths k and l.
IsJoin(c, a, b, k, l) ==
    /\ k \in Nat /\ l \in Nat /\ a \in Seq(Nat) /\ b \in Seq(Nat) /\ c \in Seq(Nat)
    /\ Len(a) = k /\ Len(b) = l /\ Len(c) = k + l
    /\ \A i \in 1 .. k : c[i] = a[i]
    /\ \A i \in 1 .. l : c[k + i] = b[i]

\* c is the part of a from m on that has n elements.
IsPart(c, a, m, n) ==
    /\ m \in Nat /\ n \in Nat /\ c \in Seq(Nat) /\ Len(c) = n
    /\ \A i \in 1 .. n : c[i] = a[m + i]

\* What putting together gives.
LEMMA Joined ==
    ASSUME NEW a \in Seq(Nat), NEW b \in Seq(Nat)
    PROVE  IsJoin(a \o b, a, b, Len(a), Len(b))
BY DEF IsJoin

\* What cutting out gives.
LEMMA Cut ==
    ASSUME NEW a \in Seq(Nat), NEW m \in Nat, NEW n \in Nat, m =< n, n =< Len(a)
    PROVE  IsPart(SubSeq(a, m + 1, n), a, m, n - m)
<1>1. PICK l \in Nat : l = Len(a)
  OBVIOUS
<1>2. m + 1 \in Int /\ (n + 1) - (m + 1) = n - m /\ n - m \in Nat
  OBVIOUS
<1>3. SubSeq(a, m + 1, n) \in Seq(Nat)
  OBVIOUS
<1>4. Len(SubSeq(a, m + 1, n)) = n - m
  OBVIOUS
<1>5. ASSUME NEW i \in 1 .. n - m PROVE SubSeq(a, m + 1, n)[i] = a[m + i]
  <2>1. ((m + 1) + i) - 1 = m + i
    OBVIOUS
  <2> QED
    BY <1>1, <1>5
<1> QED
  BY <1>2, <1>3, <1>4, <1>5 DEF IsPart

\* A part is given by where it starts and how long it is.
LEMMA OnePart ==
    ASSUME NEW a, NEW m, NEW n, NEW u, NEW v, IsPart(u, a, m, n), IsPart(v, a, m, n)
    PROVE  u = v
<1>1. u \in Seq(Nat) /\ v \in Seq(Nat) /\ Len(u) = Len(v) /\ \A i \in 1 .. Len(u) : u[i] = v[i]
  BY DEF IsPart
<1> QED
  BY <1>1, SameSequence

\* Nor is there more than one way to put together the same.
LEMMA OneJoin ==
    ASSUME NEW a, NEW b, NEW k, NEW l, NEW u, NEW v, IsJoin(u, a, b, k, l),
           v \in Seq(Nat), Len(v) = k + l,
           \A i \in 1 .. k : v[i] = a[i], \A i \in 1 .. l : v[k + i] = b[i]
    PROVE  u = v
<1>1. /\ k \in Nat /\ l \in Nat /\ u \in Seq(Nat) /\ Len(u) = k + l
      /\ \A i \in 1 .. k : u[i] = a[i]
      /\ \A i \in 1 .. l : u[k + i] = b[i]
  BY DEF IsJoin
<1>2. ASSUME NEW i \in 1 .. k + l PROVE u[i] = v[i]
  <2>1. CASE i =< k
    BY <1>1, <2>1
  <2>2. CASE i > k
    <3>1. PICK j \in 1 .. l : i = k + j
      <4>1. i - k \in 1 .. l /\ k + (i - k) = i
        BY <1>1, <2>2
      <4> QED
        BY <4>1
    <3>2. u[k + j] = b[j] /\ v[k + j] = b[j]
      BY <1>1
    <3> QED
      BY <3>1, <3>2
  <2> QED
    BY <1>1, <2>1, <2>2
<1> QED
  BY <1>1, <1>2, SameSequence

\* The empty sequence changes nothing.
LEMMA JoinedEmpty ==
    ASSUME NEW a \in Seq(Nat)
    PROVE  a \o <<>> = a /\ <<>> \o a = a /\ <<>> \in Seq(Nat)
OBVIOUS

\* Putting together associates.
LEMMA JoinedThree ==
    ASSUME NEW a \in Seq(Nat), NEW b \in Seq(Nat), NEW c \in Seq(Nat)
    PROVE  (a \o b) \o c = a \o (b \o c)
<1>1. PICK k \in Nat, l \in Nat, m \in Nat : k = Len(a) /\ l = Len(b) /\ m = Len(c)
  OBVIOUS
<1>2. PICK u, v, x, y : u = a \o b /\ v = b \o c /\ x = u \o c /\ y = a \o v
  OBVIOUS
<1>3. IsJoin(u, a, b, k, l) /\ IsJoin(v, b, c, l, m)
  BY <1>1, <1>2, Joined, Zenon
<1>4. u \in Seq(Nat) /\ v \in Seq(Nat) /\ Len(u) = k + l /\ Len(v) = l + m
  BY <1>3 DEF IsJoin
<1>5. IsJoin(x, u, c, k + l, m) /\ IsJoin(y, a, v, k, l + m)
  BY <1>1, <1>2, <1>4, Joined, Zenon
<1>6. y \in Seq(Nat) /\ Len(y) = (k + l) + m
  BY <1>5 DEF IsJoin
<1>7. ASSUME NEW i \in 1 .. k + l PROVE y[i] = u[i]
  <2>1. CASE i =< k
    BY <1>3, <1>5, <2>1 DEF IsJoin
  <2>2. CASE i > k
    <3>1. PICK j \in 1 .. l : i = k + j
      <4>1. i - k \in 1 .. l /\ k + (i - k) = i
        BY <2>2
      <4> QED
        BY <4>1
    <3>2. u[k + j] = b[j] /\ v[j] = b[j]
      BY <1>3 DEF IsJoin
    <3>3. y[k + j] = v[j]
      <4>1. j \in 1 .. l + m
        OBVIOUS
      <4> QED
        BY <1>5, <4>1 DEF IsJoin
    <3> QED
      BY <3>1, <3>2, <3>3
  <2> QED
    BY <2>1, <2>2
<1>8. ASSUME NEW i \in 1 .. m PROVE y[(k + l) + i] = c[i]
  <2>1. v[l + i] = c[i]
    BY <1>3 DEF IsJoin
  <2>2. l + i \in 1 .. l + m /\ (k + l) + i = k + (l + i)
    OBVIOUS
  <2>3. y[k + (l + i)] = v[l + i]
    BY <1>5, <2>2 DEF IsJoin
  <2> QED
    BY <2>1, <2>2, <2>3
<1>9. x = y
  BY <1>5, <1>6, <1>7, <1>8, OneJoin
<1> QED
  BY <1>2, <1>9

\* JoinedThree, as a predicate that hides its equality from the provers
JoinsAgree(a, b, c) == (a \o b) \o c = a \o (b \o c)

\* It holds.
LEMMA JoinsAlways ==
    ASSUME NEW a \in Seq(Nat), NEW b \in Seq(Nat), NEW c \in Seq(Nat)
    PROVE  JoinsAgree(a, b, c)
BY JoinedThree, Zenon DEF JoinsAgree

\* The front and the rest of a sequence
LEMMA CutInTwo ==
    ASSUME NEW a \in Seq(Nat), NEW n \in Nat, n =< Len(a)
    PROVE  /\ IsPart(SubSeq(a, 1, n), a, 0, n)
           /\ IsPart(SubSeq(a, n + 1, Len(a)), a, n, Len(a) - n)
           /\ SubSeq(a, 1, n) \o SubSeq(a, n + 1, Len(a)) = a
<1>1. PICK l \in Nat : l = Len(a) /\ l - n \in Nat /\ n - 0 = n /\ 0 + 1 = 1
  OBVIOUS
<1>2. PICK u, v, w : u = SubSeq(a, 1, n) /\ v = SubSeq(a, n + 1, l) /\ w = u \o v
  OBVIOUS
<1>3. IsPart(u, a, 0, n)
  <2>1. IsPart(SubSeq(a, 0 + 1, n), a, 0, n - 0)
    BY Cut
  <2> QED
    BY <1>1, <1>2, <2>1
<1>4. IsPart(v, a, n, l - n)
  BY <1>1, <1>2, Cut
<1>5. IsJoin(w, u, v, n, l - n)
  <2>1. u \in Seq(Nat) /\ v \in Seq(Nat) /\ Len(u) = n /\ Len(v) = l - n
    BY <1>3, <1>4 DEF IsPart
  <2> QED
    BY <1>2, <2>1, Joined, Zenon
<1>6. n + (l - n) = l
  OBVIOUS
<1>7. PICK m \in Nat : m = l - n /\ n + m = l
  BY <1>1, <1>6
<1>8. w = a
  <2>1. IsJoin(w, u, v, n, m)
    BY <1>5, <1>7, Zenon
  <2>2. Len(a) = n + m
    BY <1>1, <1>7, Zenon
  <2>3. \A i \in 1 .. n : a[i] = u[i]
    BY <1>3 DEF IsPart
  <2>4. \A i \in 1 .. m : a[n + i] = v[i]
    BY <1>4, <1>7 DEF IsPart
  <2> QED
    BY <2>1, <2>2, <2>3, <2>4, OneJoin, Zenon
<1> QED
  BY <1>1, <1>2, <1>3, <1>4, <1>8

\* Where two sequences were put together they come apart.
LEMMA CutApart ==
    ASSUME NEW a \in Seq(Nat), NEW b \in Seq(Nat)
    PROVE  /\ SubSeq(a \o b, 1, Len(a)) = a
           /\ SubSeq(a \o b, Len(a) + 1, Len(a \o b)) = b
<1>1. PICK n, l, c : c = a \o b /\ n = Len(a) /\ l = Len(b)
  OBVIOUS
<1>2. IsJoin(c, a, b, n, l)
  BY <1>1, Joined, Zenon
<1>3. c \in Seq(Nat) /\ Len(c) = n + l /\ n =< Len(c) /\ (n + l) - n = l
  BY <1>2 DEF IsJoin
<1>4. PICK u, v : u = SubSeq(c, 1, n) /\ v = SubSeq(c, n + 1, Len(c))
  OBVIOUS
<1>5. IsPart(u, c, 0, n) /\ IsPart(v, c, n, l)
  <2>1. n \in Nat /\ Len(c) - n = l
    BY <1>1, <1>3
  <2> QED
    BY <1>3, <1>4, <2>1, CutInTwo, Zenon
<1>6. IsPart(a, c, 0, n) /\ IsPart(b, c, n, l)
  BY <1>2 DEF IsJoin, IsPart
<1>7. u = a /\ v = b
  BY <1>5, <1>6, OnePart
<1> QED
  BY <1>1, <1>4, <1>7

\* Two ways to put together the same
SameJoin(a, b, c, d) == a \o b = c \o d

\* What a has after its front c
Rest(a, c) == SubSeq(a, Len(c) + 1, Len(a))

\* Of two ways to put together the same: the longer front has the shorter one in it.
LEMMA SameWhole ==
    ASSUME NEW a \in Seq(Nat), NEW b \in Seq(Nat), NEW c \in Seq(Nat), NEW d \in Seq(Nat),
           SameJoin(a, b, c, d), Len(c) =< Len(a)
    PROVE  Rest(a, c) \in Seq(Nat) /\ a = c \o Rest(a, c) /\ Rest(a, c) \o b = d
<1>1. PICK n \in Nat, k \in Nat, l \in Nat : n = Len(c) /\ k = Len(a) /\ l = Len(d) /\ n =< k
  OBVIOUS
<1>2. PICK f, e : f = SubSeq(a, 1, n) /\ e = SubSeq(a, n + 1, k)
  OBVIOUS
<1>3. IsPart(f, a, 0, n) /\ IsPart(e, a, n, k - n) /\ f \o e = a
  BY <1>1, <1>2, CutInTwo
<1>4. f \in Seq(Nat) /\ e \in Seq(Nat) /\ Len(f) = n /\ \A i \in 1 .. n : f[i] = a[i]
  BY <1>3 DEF IsPart
<1>5. PICK x : x = a \o b /\ x = c \o d
  BY DEF SameJoin
<1>6. IsJoin(x, a, b, k, Len(b)) /\ IsJoin(x, c, d, n, l)
  BY <1>1, <1>5, Joined, Zenon
<1>7. \A i \in 1 .. n : f[i] = c[i]
  <2>1. \A i \in 1 .. n : i \in 1 .. k
    BY <1>1
  <2> QED
    BY <1>4, <1>6, <2>1 DEF IsJoin
<1>8. f = c
  BY <1>1, <1>4, <1>7, SameSequence
<1>9. e \o b \in Seq(Nat)
  BY <1>4, Joined DEF IsJoin
<1>g. PICK g \in Seq(Nat) : g = e \o b
  BY <1>9
<1>10. c \o g = c \o d
  <2>0. e \in Seq(Nat)
    BY <1>4, Zenon
  <2>1. JoinsAgree(c, e, b)
    BY <2>0, JoinsAlways, Zenon
  <2>2. c \o e = a
    BY <1>3, <1>8, Zenon
  <2> QED
    BY <1>5, <1>g, <2>1, <2>2, Zenon DEF JoinsAgree
<1>11. g = d
  <2>1. SubSeq(c \o g, Len(c) + 1, Len(c \o g)) = g
    BY CutApart
  <2>2. SubSeq(c \o d, Len(c) + 1, Len(c \o d)) = d
    BY CutApart
  <2> QED
    BY <1>10, <2>1, <2>2, Zenon
<1> QED
  BY <1>1, <1>2, <1>3, <1>4, <1>8, <1>g, <1>11 DEF Rest

\* Concat adds one sequence after the other; there is only one way to do so.
ConcatSteps(f, q, n) == f[0] = <<>> /\ \A i \in 1 .. n : f[i] = f[i - 1] \o q[i]

\* Concat runs through such steps, and they are the only ones.
LEMMA ConcatRun ==
    ASSUME NEW q, NEW n \in Nat, Len(q) = n
    PROVE  \E f : /\ ConcatSteps(f, q, n) /\ Concat(q) = f[n]
                  /\ \A g : ConcatSteps(g, q, n) => \A i \in 0 .. n : g[i] = f[i]
<1> DEFINE G(f, i) == IF i = 0 THEN <<>> ELSE f[i - 1] \o q[i]
           S == {m \in Nat : \E f : f = [i \in 0 .. m |-> G(f, i)]}
           F == CHOOSE f : f = [i \in 0 .. n |-> G(f, i)]
<1>1. 0 \in S
  <2> DEFINE f == [i \in 0 .. 0 |-> <<>>]
  <2>1. f = [i \in 0 .. 0 |-> G(f, i)]
    OBVIOUS
  <2> QED
    BY <2>1
<1>2. ASSUME NEW m \in 0 .. n, m \in S PROVE m + 1 \in S
  <2>1. PICK f : f = [i \in 0 .. m |-> G(f, i)]
    BY <1>2
  <2> DEFINE g == [i \in 0 .. (m + 1) |-> IF i = m + 1 THEN G(f, i) ELSE f[i]]
  <2>2. \A i \in 0 .. (m + 1) : G(g, i) = G(f, i)
    OBVIOUS
  <2>3. \A i \in 0 .. m : f[i] = G(f, i)
    BY <2>1
  <2>4. \A i \in 0 .. (m + 1) : g[i] = G(g, i)
    BY <2>2, <2>3
  <2>5. g = [i \in 0 .. (m + 1) |-> g[i]]
    OBVIOUS
  <2> HIDE DEF g, G
  <2>6. g = [i \in 0 .. (m + 1) |-> G(g, i)]
    BY <2>4, <2>5
  <2> QED
    BY <2>6
<1>3. n \in S
  <2> HIDE DEF S
  <2>1. n \in 0 .. n
    OBVIOUS
  <2> QED
    BY <1>1, <1>2, <2>1, LoopInduction
<1>4. F = [i \in 0 .. n |-> G(F, i)]
  <2>1. \E f : f = [i \in 0 .. n |-> G(f, i)]
    BY <1>3
  <2> QED
    BY <2>1, Zenon
<1>5. Concat(q) = F[n]
  BY Zenon DEF Concat, Fold
<1> HIDE DEF F
<1>6. \A i \in 0 .. n : F[i] = G(F, i)
  <2> HIDE DEF G
  <2> QED
    BY <1>4
<1>7. F[0] = <<>> /\ \A i \in 1 .. n : F[i] = F[i - 1] \o q[i]
  <2>1. 0 \in 0 .. n /\ \A i \in 1 .. n : i \in 0 .. n /\ i # 0
    OBVIOUS
  <2> QED
    BY <1>6, <2>1, Zenon
<1>8. ASSUME NEW g, g[0] = <<>>, \A i \in 1 .. n : g[i] = g[i - 1] \o q[i]
      PROVE  \A i \in 0 .. n : g[i] = F[i]
  <2> DEFINE R == {m \in 0 .. n : g[m] = F[m]}
  <2>1. 0 \in R
    BY <1>7, <1>8
  <2>2. ASSUME NEW m \in 0 .. n, m # n, m \in R PROVE m + 1 \in R
    <3>1. m + 1 \in 1 .. n /\ m + 1 \in 0 .. n /\ (m + 1) - 1 = m /\ g[m] = F[m]
      BY <2>2
    <3>2. PICK j \in 1 .. n : j = m + 1 /\ j - 1 = m
      BY <3>1
    <3>3. g[j - 1] = F[j - 1]
      BY <3>1, <3>2
    <3>4. g[j] = F[j]
      BY <1>7, <1>8, <3>3, Zenon
    <3> QED
      BY <3>1, <3>2, <3>4
  <2> HIDE DEF R
  <2>3. \A m \in 0 .. n : m \in R
    BY <2>1, <2>2, LoopInduction
  <2> QED
    BY <2>3 DEF R
<1>9. ConcatSteps(F, q, n)
  BY <1>7, Zenon DEF ConcatSteps
<1>10. \A g : ConcatSteps(g, q, n) => \A i \in 0 .. n : g[i] = F[i]
  BY <1>8, Zenon DEF ConcatSteps
<1> QED
  BY <1>5, <1>9, <1>10, Zenon

\* So whatever f has these steps ends in Concat(q).
LEMMA ConcatIs ==
    ASSUME NEW q, NEW n \in Nat, Len(q) = n, NEW g, ConcatSteps(g, q, n)
    PROVE  Concat(q) = g[n]
<1>1. PICK f : Concat(q) = f[n] /\ \A i \in 0 .. n : g[i] = f[i]
  BY ConcatRun
<1>2. n \in 0 .. n
  OBVIOUS
<1> QED
  BY <1>1, <1>2, Zenon

\* The steps of Sum, which adds one number after the other.
SumSteps(f, q, n) == f[0] = 0 /\ \A i \in 1 .. n : f[i] = f[i - 1] + q[i]

\* Sum runs through such steps, and they are the only ones.
LEMMA SumRun ==
    ASSUME NEW q, NEW n \in Nat, Len(q) = n
    PROVE  \E f : /\ SumSteps(f, q, n) /\ Sum(q) = f[n]
                  /\ \A g : SumSteps(g, q, n) => \A i \in 0 .. n : g[i] = f[i]
<1> DEFINE G(f, i) == IF i = 0 THEN 0 ELSE f[i - 1] + q[i]
           S == {m \in Nat : \E f : f = [i \in 0 .. m |-> G(f, i)]}
           F == CHOOSE f : f = [i \in 0 .. n |-> G(f, i)]
<1>1. 0 \in S
  <2> DEFINE f == [i \in 0 .. 0 |-> 0]
  <2>1. f = [i \in 0 .. 0 |-> G(f, i)]
    OBVIOUS
  <2> QED
    BY <2>1
<1>2. ASSUME NEW m \in 0 .. n, m \in S PROVE m + 1 \in S
  <2>1. PICK f : f = [i \in 0 .. m |-> G(f, i)]
    BY <1>2
  <2> DEFINE g == [i \in 0 .. (m + 1) |-> IF i = m + 1 THEN G(f, i) ELSE f[i]]
  <2>2. \A i \in 0 .. (m + 1) : G(g, i) = G(f, i)
    OBVIOUS
  <2>3. \A i \in 0 .. m : f[i] = G(f, i)
    BY <2>1
  <2>4. \A i \in 0 .. (m + 1) : g[i] = G(g, i)
    BY <2>2, <2>3
  <2>5. g = [i \in 0 .. (m + 1) |-> g[i]]
    OBVIOUS
  <2> HIDE DEF g, G
  <2>6. g = [i \in 0 .. (m + 1) |-> G(g, i)]
    BY <2>4, <2>5
  <2> QED
    BY <2>6
<1>3. n \in S
  <2> HIDE DEF S
  <2>1. n \in 0 .. n
    OBVIOUS
  <2> QED
    BY <1>1, <1>2, <2>1, LoopInduction
<1>4. F = [i \in 0 .. n |-> G(F, i)]
  <2>1. \E f : f = [i \in 0 .. n |-> G(f, i)]
    BY <1>3
  <2> QED
    BY <2>1, Zenon
<1>5. Sum(q) = F[n]
  BY Zenon DEF Sum, Fold
<1> HIDE DEF F
<1>6. \A i \in 0 .. n : F[i] = G(F, i)
  <2> HIDE DEF G
  <2> QED
    BY <1>4
<1>7. F[0] = 0 /\ \A i \in 1 .. n : F[i] = F[i - 1] + q[i]
  <2>1. 0 \in 0 .. n /\ \A i \in 1 .. n : i \in 0 .. n /\ i # 0
    OBVIOUS
  <2> QED
    BY <1>6, <2>1, Zenon
<1>8. ASSUME NEW g, g[0] = 0, \A i \in 1 .. n : g[i] = g[i - 1] + q[i]
      PROVE  \A i \in 0 .. n : g[i] = F[i]
  <2> DEFINE R == {m \in 0 .. n : g[m] = F[m]}
  <2>1. 0 \in R
    BY <1>7, <1>8
  <2>2. ASSUME NEW m \in 0 .. n, m # n, m \in R PROVE m + 1 \in R
    <3>1. m + 1 \in 1 .. n /\ m + 1 \in 0 .. n /\ (m + 1) - 1 = m /\ g[m] = F[m]
      BY <2>2
    <3>2. PICK j \in 1 .. n : j = m + 1 /\ j - 1 = m
      BY <3>1
    <3>3. g[j - 1] = F[j - 1]
      BY <3>1, <3>2
    <3>4. g[j] = F[j]
      BY <1>7, <1>8, <3>3, Zenon
    <3> QED
      BY <3>1, <3>2, <3>4
  <2> HIDE DEF R
  <2>3. \A m \in 0 .. n : m \in R
    BY <2>1, <2>2, LoopInduction
  <2> QED
    BY <2>3 DEF R
<1>9. SumSteps(F, q, n)
  BY <1>7, Zenon DEF SumSteps
<1>10. \A g : SumSteps(g, q, n) => \A i \in 0 .. n : g[i] = F[i]
  BY <1>8, Zenon DEF SumSteps
<1> QED
  BY <1>5, <1>9, <1>10, Zenon

\* So whatever f has these steps ends in Sum(q).
LEMMA SumIs ==
    ASSUME NEW q, NEW n \in Nat, Len(q) = n, NEW g, SumSteps(g, q, n)
    PROVE  Sum(q) = g[n]
<1>1. PICK f : Sum(q) = f[n] /\ \A i \in 0 .. n : g[i] = f[i]
  BY SumRun
<1>2. n \in 0 .. n
  OBVIOUS
<1> QED
  BY <1>1, <1>2, Zenon

\* The steps of readAs, which reads one octet after the other.
ReadSteps(f, q, n) == f[0] = 0 /\ \A i \in 1 .. n : f[i] = f[i - 1] * Octet + q[i]

\* readAs runs through such steps, and they are the only ones.
LEMMA ReadRun ==
    ASSUME NEW q, NEW n \in Nat, Len(q) = n
    PROVE  \E f : /\ ReadSteps(f, q, n) /\ readAs(q) = f[n]
                  /\ \A g : ReadSteps(g, q, n) => \A i \in 0 .. n : g[i] = f[i]
<1> DEFINE G(f, i) == IF i = 0 THEN 0 ELSE f[i - 1] * Octet + q[i]
           S == {m \in Nat : \E f : f = [i \in 0 .. m |-> G(f, i)]}
           F == CHOOSE f : f = [i \in 0 .. n |-> G(f, i)]
<1>1. 0 \in S
  <2> DEFINE f == [i \in 0 .. 0 |-> 0]
  <2>1. f = [i \in 0 .. 0 |-> G(f, i)]
    OBVIOUS
  <2> QED
    BY <2>1
<1>2. ASSUME NEW m \in 0 .. n, m \in S PROVE m + 1 \in S
  <2>1. PICK f : f = [i \in 0 .. m |-> G(f, i)]
    BY <1>2
  <2> DEFINE g == [i \in 0 .. (m + 1) |-> IF i = m + 1 THEN G(f, i) ELSE f[i]]
  <2>2. \A i \in 0 .. (m + 1) : G(g, i) = G(f, i)
    OBVIOUS
  <2>3. \A i \in 0 .. m : f[i] = G(f, i)
    BY <2>1
  <2>4. \A i \in 0 .. (m + 1) : g[i] = G(g, i)
    BY <2>2, <2>3
  <2>5. g = [i \in 0 .. (m + 1) |-> g[i]]
    OBVIOUS
  <2> HIDE DEF g, G
  <2>6. g = [i \in 0 .. (m + 1) |-> G(g, i)]
    BY <2>4, <2>5
  <2> QED
    BY <2>6
<1>3. n \in S
  <2> HIDE DEF S
  <2>1. n \in 0 .. n
    OBVIOUS
  <2> QED
    BY <1>1, <1>2, <2>1, LoopInduction
<1>4. F = [i \in 0 .. n |-> G(F, i)]
  <2>1. \E f : f = [i \in 0 .. n |-> G(f, i)]
    BY <1>3
  <2> QED
    BY <2>1, Zenon
<1>5. readAs(q) = F[n]
  BY Zenon DEF readAs, Fold
<1> HIDE DEF F
<1>6. \A i \in 0 .. n : F[i] = G(F, i)
  <2> HIDE DEF G
  <2> QED
    BY <1>4
<1>7. F[0] = 0 /\ \A i \in 1 .. n : F[i] = F[i - 1] * Octet + q[i]
  <2>1. 0 \in 0 .. n /\ \A i \in 1 .. n : i \in 0 .. n /\ i # 0
    OBVIOUS
  <2> QED
    BY <1>6, <2>1, Zenon
<1>8. ASSUME NEW g, g[0] = 0, \A i \in 1 .. n : g[i] = g[i - 1] * Octet + q[i]
      PROVE  \A i \in 0 .. n : g[i] = F[i]
  <2> DEFINE R == {m \in 0 .. n : g[m] = F[m]}
  <2>1. 0 \in R
    BY <1>7, <1>8
  <2>2. ASSUME NEW m \in 0 .. n, m # n, m \in R PROVE m + 1 \in R
    <3>1. m + 1 \in 1 .. n /\ m + 1 \in 0 .. n /\ (m + 1) - 1 = m /\ g[m] = F[m]
      BY <2>2
    <3>2. PICK j \in 1 .. n : j = m + 1 /\ j - 1 = m
      BY <3>1
    <3>3. g[j - 1] = F[j - 1]
      BY <3>1, <3>2
    <3>4. g[j] = F[j]
      BY <1>7, <1>8, <3>3, Zenon
    <3> QED
      BY <3>1, <3>2, <3>4
  <2> HIDE DEF R
  <2>3. \A m \in 0 .. n : m \in R
    BY <2>1, <2>2, LoopInduction
  <2> QED
    BY <2>3 DEF R
<1>9. ReadSteps(F, q, n)
  BY <1>7, Zenon DEF ReadSteps
<1>10. \A g : ReadSteps(g, q, n) => \A i \in 0 .. n : g[i] = F[i]
  BY <1>8, Zenon DEF ReadSteps
<1> QED
  BY <1>5, <1>9, <1>10, Zenon

\* So whatever f has these steps ends in the integer that the octets q are.
LEMMA ReadIs ==
    ASSUME NEW q, NEW n \in Nat, Len(q) = n, NEW g, ReadSteps(g, q, n)
    PROVE  readAs(q) = g[n]
<1>1. PICK f : readAs(q) = f[n] /\ \A i \in 0 .. n : g[i] = f[i]
  BY ReadRun
<1>2. n \in 0 .. n
  OBVIOUS
<1> QED
  BY <1>1, <1>2, Zenon

\* f[i] is what Concat and, of the lengths, Sum give for the first i of n sequences.
Fronts(f, q, n) ==
    /\ f[0] = <<>> /\ \A i \in 0 .. n : f[i] \in Seq(Nat) /\ Len(f[i]) \in Nat
    /\ \A i \in 1 .. n : f[i] = f[i - 1] \o q[i] /\ Len(f[i]) = Len(f[i - 1]) + Len(q[i])
    /\ \A m \in 0 .. n : \A p : Len(p) = m /\ (\A i \in 1 .. m : p[i] = q[i]) => Concat(p) = f[m]
    /\ \A m \in 0 .. n : \A p :
          Len(p) = m /\ (\A i \in 1 .. m : p[i] = Len(q[i])) => Sum(p) = Len(f[m])

\* There is such an f for any sequence of sequences.
LEMMA ConcatOf ==
    ASSUME NEW n \in Nat, NEW q, \A i \in 1 .. n : q[i] \in Seq(Nat)
    PROVE  \E f : Fronts(f, q, n)
<1> DEFINE r == [i \in 1 .. n |-> q[i]]
<1>1. Len(r) = n /\ \A i \in 1 .. n : r[i] = q[i]
  OBVIOUS
<1> HIDE DEF r
<1>2. PICK f : ConcatSteps(f, r, n)
  BY <1>1, ConcatRun, Zenon
<1>3. f[0] = <<>> /\ \A i \in 1 .. n : f[i] = f[i - 1] \o q[i]
  BY <1>1, <1>2, Zenon DEF ConcatSteps
<1>0. f[0] = <<>>
  BY <1>3, Zenon
<1>4. \A i \in 0 .. n : f[i] \in Seq(Nat)
  <2> DEFINE S == {m \in 0 .. n : f[m] \in Seq(Nat)}
  <2>1. 0 \in S
    <3>1. <<>> \in Seq(Nat) /\ 0 \in 0 .. n
      OBVIOUS
    <3> QED
      BY <1>0, <3>1, Zenon
  <2>2. ASSUME NEW m \in 0 .. n, m # n, m \in S PROVE m + 1 \in S
    <3>1. PICK j \in 1 .. n : j = m + 1 /\ j - 1 = m
      BY <2>2
    <3>2. PICK a, b : a = f[j - 1] /\ b = q[j] /\ a \in Seq(Nat) /\ b \in Seq(Nat)
      BY <2>2, <3>1
    <3>3. f[j] = a \o b
      BY <1>3, <3>2, Zenon
    <3>4. a \o b \in Seq(Nat)
      BY <3>2, Joined DEF IsJoin
    <3>5. f[j] \in Seq(Nat)
      BY <3>3, <3>4, Zenon
    <3> QED
      BY <3>1, <3>5
  <2> HIDE DEF S
  <2>3. \A m \in 0 .. n : m \in S
    BY <2>1, <2>2, LoopInduction
  <2> QED
    BY <2>3 DEF S
<1>5. ASSUME NEW i \in 1 .. n PROVE Len(f[i]) = Len(f[i - 1]) + Len(q[i])
  <2>1. i - 1 \in 0 .. n
    OBVIOUS
  <2>2. PICK a, b : a = f[i - 1] /\ b = q[i] /\ a \in Seq(Nat) /\ b \in Seq(Nat)
    BY <1>4, <2>1
  <2>3. f[i] = a \o b
    BY <1>3, <2>2, Zenon
  <2>4. Len(a \o b) = Len(a) + Len(b)
    BY <2>2, Joined DEF IsJoin
  <2> QED
    BY <2>2, <2>3, <2>4
<1>6. ASSUME NEW m \in 0 .. n, NEW p, Len(p) = m, \A i \in 1 .. m : p[i] = q[i]
      PROVE  Concat(p) = f[m]
  <2>1. m \in Nat /\ m \in 0 .. m /\ \A i \in 1 .. m : i \in 1 .. n
    OBVIOUS
  <2>2. ConcatSteps(f, p, m)
    BY <1>3, <1>6, <2>1, Zenon DEF ConcatSteps
  <2> QED
    BY <1>6, <2>1, <2>2, ConcatIs, Zenon
<1>7. ASSUME NEW m \in 0 .. n, NEW p, Len(p) = m, \A i \in 1 .. m : p[i] = Len(q[i])
      PROVE  Sum(p) = Len(f[m])
  <2> DEFINE l == [i \in 0 .. m |-> Len(f[i])]
  <2>1. m \in Nat /\ m \in 0 .. m /\ 0 \in 0 .. m
        /\ \A i \in 1 .. m : i \in 1 .. n /\ i \in 0 .. m /\ i - 1 \in 0 .. m
    OBVIOUS
  <2>2. \A i \in 0 .. m : l[i] = Len(f[i])
    OBVIOUS
  <2>3. Len(<<>>) = 0
    OBVIOUS
  <2> HIDE DEF l
  <2>4. SumSteps(l, p, m)
    BY <1>0, <1>5, <1>7, <2>1, <2>2, <2>3, Zenon DEF SumSteps
  <2>5. Sum(p) = l[m]
    BY <1>7, <2>1, <2>4, SumIs, Zenon
  <2> QED
    BY <2>1, <2>2, <2>5, Zenon
<1>8. \A i \in 0 .. n : Len(f[i]) \in Nat
  BY <1>4
<1>9. /\ f[0] = <<>> /\ \A i \in 0 .. n : f[i] \in Seq(Nat) /\ Len(f[i]) \in Nat
      /\ \A i \in 1 .. n : f[i] = f[i - 1] \o q[i] /\ Len(f[i]) = Len(f[i - 1]) + Len(q[i])
  BY <1>3, <1>4, <1>5, <1>8, Zenon
<1> QED
  BY <1>6, <1>7, <1>9, Zenon DEF Fronts

\* Lengths of prefixes do not shrink.
LEMMA LengthsGrow ==
    ASSUME NEW n \in Nat, NEW f, NEW q, \A i \in 0 .. n : Len(f[i]) \in Nat,
           \A i \in 1 .. n : Len(f[i]) = Len(f[i - 1]) + Len(q[i]) /\ Len(q[i]) \in Nat,
           NEW j \in 0 .. n
    PROVE  \A i \in 0 .. j : Len(f[i]) =< Len(f[j])
<1> DEFINE S == {m \in 0 .. j : Len(f[j - m]) =< Len(f[j])}
<1>1. 0 \in S
  <2>1. 0 \in 0 .. j /\ j - 0 = j /\ Len(f[j]) \in Nat
    OBVIOUS
  <2> QED
    BY <2>1
<1>2. ASSUME NEW m \in 0 .. j, m # j, m \in S PROVE m + 1 \in S
  <2>1. PICK k \in 1 .. n : k = j - m /\ k - 1 = j - (m + 1) /\ k - 1 \in 0 .. n /\ k \in 0 .. n
    BY <1>2
  <2>2. PICK a \in Nat, b \in Nat, c \in Nat, d \in Nat :
           a = Len(f[k]) /\ b = Len(f[k - 1]) /\ c = Len(q[k]) /\ d = Len(f[j])
    BY <2>1
  <2>3. a = b + c /\ a =< d
    BY <1>2, <2>1, <2>2
  <2>4. b =< d
    BY <2>3
  <2>5. m + 1 \in 0 .. j
    BY <1>2
  <2> QED
    BY <2>1, <2>2, <2>4, <2>5
<1> HIDE DEF S
<1>3. \A m \in 0 .. j : m \in S
  <2>1. j \in Nat
    OBVIOUS
  <2> QED
    BY <1>1, <1>2, <2>1, LoopInduction
<1>4. ASSUME NEW i \in 0 .. j PROVE Len(f[i]) =< Len(f[j])
  <2>1. j - i \in 0 .. j /\ j - (j - i) = i
    OBVIOUS
  <2> QED
    BY <1>3, <2>1 DEF S
<1> QED
  BY <1>4

(***************************************************************************)
(* Integers as octets                                                      *)
(***************************************************************************)

\* The weights of octets
LEMMA WorthIs ==
    /\ Octet \in Nat \ {0} /\ Octet > 32
    /\ \A k \in 0 .. 4 : Worth(k) \in Nat \ {0}
    /\ \A k \in 0 .. 3 : Worth(k + 1) = Octet * Worth(k)
    /\ Worth(0) = 1 /\ \A k \in 1 .. 4 : Power[k] = Worth(k)
    /\ Power[4] \div 2 \in Nat \ {0} /\ 2 * (Power[4] \div 2) = Power[4]
<1>1. Octet \in Nat \ {0} /\ Octet > 32 /\ Octet % 2 = 0
  BY FramesAssumption
<1>2. PICK a, b, c, d : /\ a = Octet /\ b = Octet * Octet /\ c = Octet * Octet * Octet
                        /\ d = Octet * Octet * Octet * Octet
  OBVIOUS
<1>3. a \in Nat \ {0} /\ b \in Nat \ {0} /\ c \in Nat \ {0} /\ d \in Nat \ {0}
  BY <1>1, <1>2
<1>4. b = Octet * a /\ c = Octet * b /\ d = Octet * c
  BY <1>1, <1>2
<1>5. Power = <<a, b, c, d>>
  BY <1>2 DEF Power
<1>6. Worth(0) = 1 /\ Worth(1) = a /\ Worth(2) = b /\ Worth(3) = c /\ Worth(4) = d
  BY <1>5 DEF Worth
<1>7. \A k \in 0 .. 4 : k = 0 \/ k = 1 \/ k = 2 \/ k = 3 \/ k = 4
  OBVIOUS
<1>8. \A k \in 0 .. 4 : Worth(k) \in Nat \ {0}
  BY <1>3, <1>6, <1>7
<1>9. \A k \in 0 .. 3 : Worth(k + 1) = Octet * Worth(k)
  <2>1. Worth(0 + 1) = Octet * Worth(0) /\ Worth(1 + 1) = Octet * Worth(1)
        /\ Worth(2 + 1) = Octet * Worth(2) /\ Worth(3 + 1) = Octet * Worth(3)
    BY <1>1, <1>2, <1>4, <1>6
  <2>2. \A k \in 0 .. 3 : k = 0 \/ k = 1 \/ k = 2 \/ k = 3
    OBVIOUS
  <2> QED
    BY <2>1, <2>2
<1>10. \A k \in 1 .. 4 : Power[k] = Worth(k)
  BY DEF Worth
<1>11. Power[4] \div 2 \in Nat \ {0} /\ 2 * (Power[4] \div 2) = Power[4]
  <2>1. PICK h \in Nat \ {0} : Octet = 2 * h
    <3>1. Octet = (2 * (Octet \div 2)) + (Octet % 2) /\ Octet \div 2 \in Nat \ {0}
      BY <1>1
    <3> QED
      BY <1>1, <3>1
  <2>2. PICK m \in Nat \ {0} : m = h * c
    BY <1>3
  <2>3. d = 2 * m
    BY <1>3, <1>4, <2>1, <2>2
  <2>4. d \div 2 = m
    BY <2>3
  <2>5. Power[4] = d
    BY <1>5
  <2> QED
    BY <2>2, <2>3, <2>4, <2>5
<1> QED
  BY <1>1, <1>6, <1>8, <1>9, <1>10, <1>11

\* One more digit in base b
LEMMA OneDigit ==
    ASSUME NEW v \in Nat, NEW b \in Nat \ {0}, NEW w \in Nat \ {0}
    PROVE  ((v \div (b * w)) * b) + ((v \div w) % b) = v \div w
<1>1. PICK q \in Nat, r \in 0 .. (w - 1) : q = v \div w /\ r = v % w /\ v = (w * q) + r
  BY DivMod
<1>2. PICK a \in Nat, d \in 0 .. (b - 1) : a = q \div b /\ d = q % b /\ q = (b * a) + d
  BY DivMod
<1>3. v = ((b * w) * a) + ((w * d) + r)
  <2>1. w * ((b * a) + d) = (w * (b * a)) + (w * d)
    BY <1>2
  <2>2. w * (b * a) = (b * w) * a
    BY <1>2
  <2>3. v = (w * ((b * a) + d)) + r
    BY <1>1, <1>2, Zenon
  <2>4. PICK x \in Nat, y \in Nat, z \in Nat :
           x = w * (b * a) /\ y = w * d /\ z = w * ((b * a) + d)
    <3>1. \A j, k \in Nat : j * k \in Nat
      OBVIOUS
    <3>2. d \in Nat /\ w \in Nat /\ b * a \in Nat
      BY <3>1
    <3>3. w * (b * a) \in Nat /\ w * d \in Nat
      BY <3>1, <3>2, Zenon
    <3>4. (b * a) + d \in Nat
      BY <3>2
    <3>5. w * ((b * a) + d) \in Nat
      BY <3>1, <3>2, <3>4, Zenon
    <3> QED
      BY <3>3, <3>5, Zenon
  <2>5. z = x + y /\ v = z + r /\ x = (b * w) * a
    BY <2>1, <2>2, <2>3, <2>4, Zenon
  <2>6. v = (x + y) + r /\ (x + y) + r = x + (y + r)
    BY <2>5
  <2> QED
    BY <2>4, <2>5, <2>6, Zenon
<1>4. (w * d) + r \in 0 .. ((b * w) - 1)
  <2>1. w * d =< w * (b - 1) /\ w * d \in Nat
    BY <1>2
  <2>2. w * (b - 1) = (b * w) - w
    OBVIOUS
  <2>3. (w * d) + r =< (b * w) - 1 /\ (w * d) + r \in Nat
    BY <1>1, <2>1, <2>2
  <2> QED
    BY <2>3
<1>5. b * w \in Nat \ {0}
  OBVIOUS
<1>6. v \div (b * w) = a
  <2>1. PICK m \in Nat \ {0} : m = b * w
    BY <1>5
  <2>2. PICK c \in 0 .. (m - 1) : c = (w * d) + r
    BY <1>4, <2>1
  <2>3. v = (m * a) + c
    BY <1>3, <2>1, <2>2
  <2>4. v \div m = a
    BY <2>3, ModUnique
  <2> QED
    BY <2>1, <2>4
<1>7. (a * b) + d = q
  BY <1>2
<1> QED
  BY <1>1, <1>2, <1>6, <1>7

\* The octets of an integer
LEMMA Appended ==
    ASSUME NEW v \in Nat, NEW w \in 1 .. 4
    PROVE  /\ append(v, w) \in Seq(Nat) /\ Len(append(v, w)) = w
           /\ append(v, w) \in Seq(0 .. Octet - 1)
           /\ \A i \in 1 .. w : append(v, w)[i] = (v \div Worth(w - i)) % Octet
<1>1. ASSUME NEW i \in 1 .. w PROVE (v \div Worth(w - i)) % Octet \in 0 .. Octet - 1
  <2>1. w - i \in 0 .. 4
    OBVIOUS
  <2>2. PICK m \in Nat \ {0} : m = Worth(w - i)
    BY <2>1, WorthIs
  <2>3. PICK q \in Nat : q = v \div m
    BY DivMod
  <2>4. q % Octet \in 0 .. Octet - 1
    BY DivMod, WorthIs
  <2> QED
    BY <2>2, <2>3, <2>4
<1>2. 0 .. Octet - 1 \subseteq Nat
  OBVIOUS
<1> DEFINE D(i) == (v \div Worth(w - i)) % Octet
<1>3. append(v, w) = [i \in 1 .. w |-> D(i)]
  BY DEF append
<1>4. \A i \in 1 .. w : D(i) \in 0 .. Octet - 1 /\ D(i) \in Nat
  BY <1>1, <1>2
<1> HIDE DEF D
<1>5. [i \in 1 .. w |-> D(i)] \in Seq(Nat) /\ [i \in 1 .. w |-> D(i)] \in Seq(0 .. Octet - 1)
  BY <1>4
<1>6. Len([i \in 1 .. w |-> D(i)]) = w
  OBVIOUS
<1>7. \A i \in 1 .. w : append(v, w)[i] = D(i)
  BY <1>3
<1> QED
  BY <1>3, <1>5, <1>6, <1>7 DEF D

\* readAs gets back what append has put there.
LEMMA ReadAppended ==
    ASSUME NEW v \in Nat, NEW w \in 1 .. 4, v < Worth(w)
    PROVE  readAs(append(v, w)) = v
<1> DEFINE g == [i \in 0 .. w |-> v \div Worth(w - i)]
           q == append(v, w)
<1>a. Len(q) = w /\ \A i \in 1 .. w : q[i] = (v \div Worth(w - i)) % Octet
  BY Appended, Zenon
<1>b. w \in Nat /\ w - 0 = w /\ w - w = 0 /\ 0 \in 0 .. w /\ w \in 0 .. w
  OBVIOUS
<1>2. \A i \in 0 .. w : g[i] = v \div Worth(w - i)
  OBVIOUS
<1> HIDE DEF g, q
<1>3. g[0] = 0
  <2>1. PICK m \in Nat \ {0} : m = Worth(w) /\ v < m
    BY WorthIs
  <2>2. v \div m = 0
    <3>1. v = (m * 0) + v /\ v \in 0 .. (m - 1)
      BY <2>1
    <3> QED
      BY <3>1, ModUnique
  <2> QED
    BY <1>b, <1>2, <2>1, <2>2
<1>4. ASSUME NEW i \in 1 .. w PROVE g[i] = (g[i - 1] * Octet) + q[i]
  <2>1. w - i \in 0 .. 3 /\ w - i \in 0 .. 4 /\ w - (i - 1) = (w - i) + 1 /\ i - 1 \in 0 .. w /\ i \in 0 .. w
    OBVIOUS
  <2>2. PICK m \in Nat \ {0} : m = Worth(w - i) /\ Worth(w - (i - 1)) = Octet * m
    BY <2>1, WorthIs
  <2>3. ((v \div (Octet * m)) * Octet) + ((v \div m) % Octet) = v \div m
    <3>1. Octet \in Nat \ {0}
      BY WorthIs
    <3> QED
      BY <3>1, OneDigit
  <2>4. g[i] = v \div m /\ g[i - 1] = v \div (Octet * m) /\ q[i] = (v \div m) % Octet
    BY <1>a, <1>2, <2>1, <2>2, Zenon
  <2> QED
    BY <2>3, <2>4
<1>5. g[w] = v
  <2>1. v \div 1 = v
    OBVIOUS
  <2> QED
    BY <1>b, <1>2, <2>1, WorthIs
<1>6. ReadSteps(g, q, w)
  BY <1>3, <1>4 DEF ReadSteps
<1>7. readAs(q) = g[w]
  BY <1>a, <1>b, <1>6, ReadIs
<1> QED
  BY <1>5, <1>7 DEF q

\* What is read is a number.
LEMMA ReadTyped ==
    ASSUME NEW q \in Seq(Nat)
    PROVE  readAs(q) \in Nat
<1>1. PICK n \in Nat : n = Len(q) /\ \A i \in 1 .. n : q[i] \in Nat
  OBVIOUS
<1>2. PICK f : ReadSteps(f, q, n) /\ readAs(q) = f[n]
  <2>1. Len(q) = n
    BY <1>1, Zenon
  <2>2. PICK f : ReadSteps(f, q, n)
    BY <2>1, ReadRun, Zenon
  <2>3. readAs(q) = f[n]
    BY <2>1, <2>2, ReadIs, Zenon
  <2> QED
    BY <2>2, <2>3, Zenon
<1> DEFINE S == {m \in 0 .. n : f[m] \in Nat}
<1>3. 0 \in S
  BY <1>2 DEF ReadSteps
<1>4. ASSUME NEW m \in 0 .. n, m # n, m \in S PROVE m + 1 \in S
  <2>1. PICK j \in 1 .. n : j = m + 1 /\ j - 1 = m /\ j \in 0 .. n
    BY <1>4
  <2>2. PICK a \in Nat, b \in Nat : a = f[j - 1] /\ b = q[j]
    BY <1>1, <1>4, <2>1
  <2>3. f[j] = (a * Octet) + b
    BY <1>2, <2>2, Zenon DEF ReadSteps
  <2>4. PICK c \in Nat : c = Octet
    BY WorthIs
  <2>5. (a * c) + b \in Nat
    OBVIOUS
  <2> QED
    BY <2>1, <2>3, <2>4, <2>5
<1> HIDE DEF S
<1>5. \A m \in 0 .. n : m \in S
  BY <1>3, <1>4, LoopInduction
<1>6. n \in S
  BY <1>5
<1> QED
  BY <1>2, <1>6 DEF S

(***************************************************************************)
(* The outbound queue                                                      *)
(***************************************************************************)
Chunks == {c \in [data : Seq(Nat), offset : Nat] : c.offset =< Len(c.data)}

\* What a queue has not written yet
Unsent(q) == Concat([i \in 1 .. Len(q) |-> Remaining(q[i])])

\* A part of a part
LEMMA PartOfPart ==
    ASSUME NEW a, NEW b, NEW c, NEW j, NEW k, NEW m, NEW n,
           IsPart(c, b, j, k), IsPart(b, a, m, n), j + k =< n
    PROVE  IsPart(c, a, m + j, k)
<1>1. /\ j \in Nat /\ k \in Nat /\ m \in Nat /\ n \in Nat /\ c \in Seq(Nat) /\ Len(c) = k
      /\ \A i \in 1 .. k : c[i] = b[j + i]
      /\ \A i \in 1 .. n : b[i] = a[m + i]
  BY DEF IsPart
<1>2. ASSUME NEW i \in 1 .. k PROVE c[i] = a[(m + j) + i]
  <2>1. j + i \in 1 .. n /\ m + (j + i) = (m + j) + i
    BY <1>1
  <2>2. c[i] = b[j + i] /\ b[j + i] = a[m + (j + i)]
    BY <1>1, <2>1
  <2> QED
    BY <2>1, <2>2
<1> QED
  BY <1>1, <1>2 DEF IsPart

\* Dropping from two sequences put together the first one and more.
LEMMA DropMore ==
    ASSUME NEW a \in Seq(Nat), NEW b \in Seq(Nat), NEW n \in Nat,
           Len(a) =< n, n =< Len(a) + Len(b)
    PROVE  SubSeq(a \o b, n + 1, Len(a \o b)) = SubSeq(b, (n - Len(a)) + 1, Len(b))
<1>1. PICK c, k, l : c = a \o b /\ k = Len(a) /\ l = Len(b)
  OBVIOUS
<1>2. IsJoin(c, a, b, k, l)
  BY <1>1, Joined, Zenon
<1>3. k \in Nat /\ l \in Nat /\ c \in Seq(Nat) /\ Len(c) = k + l
  BY <1>2 DEF IsJoin
<1>4. PICK u, v : u = SubSeq(c, n + 1, Len(c)) /\ v = SubSeq(b, (n - k) + 1, l)
  OBVIOUS
<1>5. IsPart(u, c, n, (k + l) - n)
  <2>1. n =< Len(c) /\ Len(c) - n = (k + l) - n
    BY <1>1, <1>3
  <2>2. IsPart(SubSeq(c, n + 1, Len(c)), c, n, Len(c) - n)
    BY <1>3, <2>1, CutInTwo
  <2> QED
    BY <1>4, <2>1, <2>2
<1>6. IsPart(v, b, n - k, l - (n - k))
  <2>1. n - k \in Nat /\ n - k =< Len(b)
    BY <1>1, <1>3
  <2> QED
    BY <1>1, <1>4, <2>1, CutInTwo
<1>7. IsPart(b, c, k, l)
  BY <1>2 DEF IsJoin, IsPart
<1>8. IsPart(v, c, k + (n - k), l - (n - k))
  <2>1. (n - k) + (l - (n - k)) =< l
    BY <1>1, <1>3
  <2> QED
    BY <1>6, <1>7, <2>1, PartOfPart
<1>9. k + (n - k) = n /\ l - (n - k) = (k + l) - n
  BY <1>3
<1>10. u = v
  BY <1>5, <1>8, <1>9, OnePart
<1> QED
  BY <1>1, <1>4, <1>10

\* Dropping a part of the first one only.
LEMMA DropLess ==
    ASSUME NEW a \in Seq(Nat), NEW b \in Seq(Nat), NEW n \in Nat, n =< Len(a)
    PROVE  SubSeq(a \o b, n + 1, Len(a \o b)) = SubSeq(a, n + 1, Len(a)) \o b
<1>1. PICK d, u : d = SubSeq(a, 1, n) /\ u = SubSeq(a, n + 1, Len(a))
  OBVIOUS
<1>2. d \o u = a /\ IsPart(d, a, 0, n) /\ IsPart(u, a, n, Len(a) - n)
  BY <1>1, CutInTwo
<1>3. d \in Seq(Nat) /\ u \in Seq(Nat) /\ Len(d) = n
  BY <1>2 DEF IsPart
<1>4. PICK v : v = u \o b
  OBVIOUS
<1>5. v \in Seq(Nat)
  BY <1>3, <1>4, Joined, Zenon DEF IsJoin
<1>6. a \o b = d \o v
  <2>1. JoinsAgree(d, u, b)
    BY <1>3, JoinsAlways, Zenon
  <2> QED
    BY <1>2, <1>4, <2>1, Zenon DEF JoinsAgree
<1>7. SubSeq(d \o v, n + 1, Len(d \o v)) = v
  BY <1>3, <1>5, CutApart, Zenon
<1> QED
  BY <1>1, <1>4, <1>6, <1>7, Zenon

\* What is left of a chunk
LEMMA RemainingIs ==
    ASSUME NEW c \in Chunks
    PROVE  /\ IsPart(Remaining(c), c.data, c.offset, Len(c.data) - c.offset)
           /\ Remaining(c) \in Seq(Nat) /\ Len(Remaining(c)) = Len(c.data) - c.offset
           /\ Len(Remaining(c)) \in Nat /\ Len(c.data) \in Nat
<1>1. /\ c.data \in Seq(Nat) /\ c.offset \in Nat /\ c.offset =< Len(c.data)
  BY DEF Chunks
<1>2. PICK d, k, l : d = c.data /\ k = c.offset /\ l = Len(d)
  OBVIOUS
<1>3. d \in Seq(Nat) /\ k \in Nat /\ k =< l /\ l \in Nat
  BY <1>1, <1>2
<1>4. IsPart(SubSeq(d, k + 1, l), d, k, l - k)
  BY <1>2, <1>3, CutInTwo
<1>5. Remaining(c) = SubSeq(d, k + 1, l)
  BY <1>2 DEF Remaining
<1>6. PICK r : r = Remaining(c) /\ IsPart(r, d, k, l - k)
  BY <1>4, <1>5
<1>7. r \in Seq(Nat) /\ Len(r) = l - k /\ l - k \in Nat
  BY <1>6 DEF IsPart
<1> QED
  BY <1>2, <1>3, <1>6, <1>7

\* The offset moved on
LEMMA OffsetMoved ==
    ASSUME NEW c \in Chunks, NEW k \in Nat, k =< Len(Remaining(c))
    PROVE  /\ [c EXCEPT !.offset = @ + k] \in Chunks
           /\ Remaining([c EXCEPT !.offset = @ + k]) = SubSeq(Remaining(c), k + 1, Len(Remaining(c)))
<1>1. PICK u, d, o, l : /\ u = [c EXCEPT !.offset = @ + k] /\ d = c.data /\ o = c.offset
                        /\ l = Len(d)
  OBVIOUS
<1>2. /\ c \in [data : Seq(Nat), offset : Nat] /\ o =< l /\ d \in Seq(Nat) /\ o \in Nat
      /\ l \in Nat
  BY <1>1 DEF Chunks
<1>3. PICK r : r = Remaining(c) /\ IsPart(r, d, o, l - o) /\ r \in Seq(Nat) /\ Len(r) = l - o
  BY <1>1, RemainingIs
<1>4. o + k =< l /\ k =< l - o
  BY <1>2, <1>3
<1>5. u \in [data : Seq(Nat), offset : Nat] /\ u.data = d /\ u.offset = o + k
  BY <1>1, <1>2
<1>6. u \in Chunks
  BY <1>1, <1>4, <1>5 DEF Chunks
<1>7. IsPart(Remaining(u), d, o + k, l - (o + k))
  BY <1>1, <1>5, <1>6, RemainingIs
<1>8. PICK v : v = SubSeq(r, k + 1, Len(r)) /\ IsPart(v, r, k, (l - o) - k)
  BY <1>3, <1>4, CutInTwo
<1>9. IsPart(v, d, o + k, (l - o) - k)
  <2>1. k + ((l - o) - k) =< l - o
    BY <1>2
  <2> QED
    BY <1>3, <1>8, <2>1, PartOfPart
<1>10. (l - o) - k = l - (o + k)
  BY <1>2
<1>11. Remaining(u) = v
  BY <1>7, <1>9, <1>10, OnePart
<1> QED
  BY <1>1, <1>3, <1>6, <1>8, <1>11

\* The lengths of what is left of the chunks, added up
LEMMA UnsentOf ==
    ASSUME NEW q \in Seq(Chunks)
    PROVE  \E f : /\ f[0] = <<>> /\ \A i \in 0 .. Len(q) : f[i] \in Seq(Nat) /\ Len(f[i]) \in Nat
                  /\ \A i \in 1 .. Len(q) : /\ f[i] = f[i - 1] \o Remaining(q[i])
                                            /\ Len(f[i]) = Len(f[i - 1]) + Len(Remaining(q[i]))
                  /\ \A i \in 1 .. Len(q) : q[i] \in Chunks /\ Remaining(q[i]) \in Seq(Nat)
                                            /\ Len(Remaining(q[i])) \in Nat
                  /\ \A i \in 0 .. Len(q) : UpTo(q, i) = Len(f[i])
                  /\ \A i \in 0 .. Len(q) : \A p : Len(p) = i /\ (\A j \in 1 .. i : p[j] = Remaining(q[j]))
                                                 => Concat(p) = f[i]
                  /\ Unsent(q) = f[Len(q)]
<1>1. PICK n \in Nat : n = Len(q)
  OBVIOUS
<1>2. \A i \in 1 .. n : q[i] \in Chunks
  BY <1>1
<1>3. \A i \in 1 .. n : Remaining(q[i]) \in Seq(Nat) /\ Len(Remaining(q[i])) \in Nat
  BY <1>2, RemainingIs
<1> DEFINE r == [i \in 1 .. n |-> Remaining(q[i])]
<1>4. Len(r) = n /\ \A i \in 1 .. n : r[i] = Remaining(q[i])
  OBVIOUS
<1>5. r = [i \in 1 .. Len(q) |-> Remaining(q[i])]
  BY <1>1
<1> HIDE DEF r
<1>6. \A i \in 1 .. n : r[i] \in Seq(Nat)
  BY <1>3, <1>4
<1>0. PICK f : Fronts(f, r, n)
  BY <1>6, ConcatOf, Zenon
<1>7. /\ f[0] = <<>> /\ \A i \in 0 .. n : f[i] \in Seq(Nat) /\ Len(f[i]) \in Nat
      /\ \A i \in 1 .. n : f[i] = f[i - 1] \o r[i] /\ Len(f[i]) = Len(f[i - 1]) + Len(r[i])
      /\ \A m \in 0 .. n : \A p : Len(p) = m /\ (\A i \in 1 .. m : p[i] = r[i])
                                => Concat(p) = f[m]
      /\ \A m \in 0 .. n : \A p : Len(p) = m /\ (\A i \in 1 .. m : p[i] = Len(r[i]))
                                => Sum(p) = Len(f[m])
  BY <1>0, Zenon DEF Fronts
<1>8. \A i \in 1 .. n : f[i] = f[i - 1] \o Remaining(q[i])
                        /\ Len(f[i]) = Len(f[i - 1]) + Len(Remaining(q[i]))
  BY <1>4, <1>7, Zenon
<1>9. ASSUME NEW i \in 0 .. n PROVE UpTo(q, i) = Len(f[i])
  <2> DEFINE l == [j \in 1 .. i |-> Len(Remaining(q[j]))]
  <2>1. Len(l) = i /\ (\A j \in 1 .. i : l[j] = Len(Remaining(q[j]))) /\ \A j \in 1 .. i : j \in 1 .. n
    OBVIOUS
  <2>2. UpTo(q, i) = Sum(l)
    BY Zenon DEF UpTo
  <2> HIDE DEF l
  <2>3. \A j \in 1 .. i : l[j] = Len(r[j])
    BY <1>4, <2>1, Zenon
  <2>4. Sum(l) = Len(f[i])
    BY <1>7, <2>1, <2>3, Zenon
  <2> QED
    BY <2>2, <2>4, Zenon
<1>10. ASSUME NEW i \in 0 .. n, NEW p, Len(p) = i, \A j \in 1 .. i : p[j] = Remaining(q[j])
       PROVE  Concat(p) = f[i]
  <2>1. \A j \in 1 .. i : j \in 1 .. n
    OBVIOUS
  <2>2. \A j \in 1 .. i : p[j] = r[j]
    BY <1>4, <1>10, <2>1, Zenon
  <2> QED
    BY <1>7, <1>10, <2>2, Zenon
<1>11. Unsent(q) = f[n]
  <2>1. n \in 0 .. n
    OBVIOUS
  <2>2. Unsent(q) = Concat(r)
    BY <1>5, Zenon DEF Unsent
  <2> QED
    BY <1>4, <1>7, <2>1, <2>2, Zenon
<1> QED
  BY <1>1, <1>2, <1>3, <1>7, <1>8, <1>9, <1>10, <1>11, Zenon

\* A chunk put at the end of the queue
LEMMA EnqueuedUnsent ==
    ASSUME NEW q \in Seq(Chunks), NEW d \in Seq(Nat), NEW r,
           r = Append(q, [data |-> d, offset |-> 0])
    PROVE  /\ r \in Seq(Chunks) /\ Unsent(q) \in Seq(Nat)
           /\ Unsent(r) = Unsent(q) \o d
           /\ r # <<>> /\ (q # <<>> => Head(r) = Head(q))
<1>1. PICK c, n : c = [data |-> d, offset |-> 0] /\ n = Len(q)
  OBVIOUS
<1>2. c \in Chunks /\ Remaining(c) = d
  <2>1. c \in [data : Seq(Nat), offset : Nat] /\ c.data = d /\ c.offset = 0
    BY <1>1
  <2>2. 0 =< Len(d) /\ 0 + 1 = 1
    OBVIOUS
  <2>3. SubSeq(d, 1, Len(d)) = d
    OBVIOUS
  <2> QED
    BY <2>1, <2>2, <2>3 DEF Chunks, Remaining
<1>3. /\ r \in Seq(Chunks) /\ Len(r) = n + 1 /\ n \in Nat /\ r[n + 1] = c
      /\ \A i \in 1 .. n : r[i] = q[i]
  BY <1>1, <1>2
<1>4. PICK f : /\ \A i \in 0 .. Len(r) : f[i] \in Seq(Nat) /\ Len(f[i]) \in Nat
               /\ \A i \in 1 .. Len(r) : /\ f[i] = f[i - 1] \o Remaining(r[i])
                                         /\ Len(f[i]) = Len(f[i - 1]) + Len(Remaining(r[i]))
               /\ \A i \in 0 .. Len(r) : \A p : Len(p) = i /\ (\A j \in 1 .. i : p[j] = Remaining(r[j]))
                                              => Concat(p) = f[i]
               /\ Unsent(r) = f[Len(r)]
  BY <1>3, UnsentOf, Zenon
<1>5. Unsent(q) = f[n]
  <2> DEFINE p == [i \in 1 .. n |-> Remaining(q[i])]
  <2>1. Len(p) = n /\ (\A i \in 1 .. n : p[i] = Remaining(q[i])) /\ n \in 0 .. Len(r)
    BY <1>3
  <2>2. Unsent(q) = Concat(p)
    BY <1>1, Zenon DEF Unsent
  <2> HIDE DEF p
  <2>3. \A i \in 1 .. n : p[i] = Remaining(r[i])
    BY <1>3, <2>1, Zenon
  <2> QED
    BY <1>4, <2>1, <2>2, <2>3, Zenon
<1>6. Unsent(r) = f[n] \o d
  <2>1. n + 1 \in 1 .. Len(r) /\ (n + 1) - 1 = n
    BY <1>3
  <2>2. f[n + 1] = f[(n + 1) - 1] \o Remaining(r[n + 1])
    BY <1>4, <2>1, Zenon
  <2>3. Unsent(r) = f[n + 1]
    BY <1>3, <1>4, Zenon
  <2> QED
    BY <1>2, <1>3, <2>1, <2>2, <2>3, Zenon
<1>7. f[n] \in Seq(Nat)
  <2>1. n \in 0 .. Len(r)
    BY <1>3
  <2> QED
    BY <1>4, <2>1, Zenon
<1>8. r # <<>> /\ (q # <<>> => Head(r) = Head(q))
  BY <1>1, <1>2
<1> QED
  BY <1>3, <1>5, <1>6, <1>7, <1>8, Zenon

\* How many chunks go with the first n octets: all that end by then, none after
LEMMA PoppedIs ==
    ASSUME NEW q \in Seq(Chunks), NEW n \in Nat, NEW f,
           f[0] = <<>>, \A i \in 0 .. Len(q) : Len(f[i]) \in Nat,
           \A i \in 1 .. Len(q) : /\ Len(f[i]) = Len(f[i - 1]) + Len(Remaining(q[i]))
                                  /\ Len(Remaining(q[i])) \in Nat,
           \A i \in 0 .. Len(q) : UpTo(q, i) = Len(f[i])
    PROVE  \E p \in 0 .. Len(q) : /\ p = Popped(q, n) /\ Len(f[p]) =< n
                                  /\ p # Len(q) => n < Len(f[p + 1])
<1>1. PICK k \in Nat : k = Len(q)
  OBVIOUS
<1> DEFINE r == [i \in 1 .. k |-> Remaining(q[i])]
<1>r. \A i \in 1 .. k : r[i] = Remaining(q[i])
  OBVIOUS
<1> HIDE DEF r
<1>l. /\ \A i \in 0 .. k : Len(f[i]) \in Nat
      /\ \A i \in 1 .. k : Len(f[i]) = Len(f[i - 1]) + Len(r[i]) /\ Len(r[i]) \in Nat
  BY <1>1, <1>r, Zenon
<1> DEFINE g == [i \in 0 .. k |-> Len(f[i])]
           S == {m \in 0 .. k : g[m] =< n}
<1>2. \A i \in 0 .. k : g[i] = Len(f[i]) /\ g[i] \in Nat
  BY <1>1
<1>3. 0 \in S
  <2>1. Len(<<>>) = 0 /\ 0 \in 0 .. k
    OBVIOUS
  <2>2. g[0] = 0
    BY <1>2, <2>1
  <2> QED
    BY <2>1, <2>2
<1> HIDE DEF g
<1>4. PICK p \in 0 .. k : p \in S /\ (p # k => p + 1 \notin S)
  <2>1. CASE \A m \in 0 .. k : m # k /\ m \in S => m + 1 \in S
    <3> HIDE DEF S
    <3>1. \A m \in 0 .. k : m \in S
      BY <1>3, <2>1, LoopInduction
    <3>2. k \in 0 .. k
      OBVIOUS
    <3> QED
      BY <3>1, <3>2
  <2>2. CASE ~ \A m \in 0 .. k : m # k /\ m \in S => m + 1 \in S
    BY <2>2
  <2> QED
    BY <2>1, <2>2
<1>5. ASSUME NEW i \in 1 .. k PROVE g[i] =< n <=> i =< p
  <2>1. i \in 0 .. k /\ g[i] \in Nat /\ g[p] \in Nat /\ g[p] =< n
    BY <1>2, <1>4
  <2>2. CASE i =< p
    <3>1. i \in 0 .. p
      BY <2>2
    <3>2. Len(f[i]) =< Len(f[p])
      <4>1. \A j \in 0 .. p : Len(f[j]) =< Len(f[p])
        BY <1>l, LengthsGrow
      <4> QED
        BY <3>1, <4>1
    <3> QED
      BY <1>2, <2>1, <2>2, <3>2
  <2>3. CASE i > p
    <3>1. p # k /\ p + 1 \in 0 .. i /\ p + 1 \in 0 .. k
      BY <2>3
    <3>2. ~(g[p + 1] =< n) /\ g[p + 1] \in Nat
      BY <1>2, <1>4, <3>1
    <3>3. Len(f[p + 1]) =< Len(f[i])
      <4>1. \A j \in 0 .. i : Len(f[j]) =< Len(f[i])
        BY <1>l, <2>1, LengthsGrow
      <4> QED
        BY <3>1, <4>1
    <3>4. g[p + 1] =< g[i]
      BY <1>2, <2>1, <3>1, <3>3
    <3> QED
      BY <2>1, <2>3, <3>2, <3>4
  <2> QED
    BY <2>2, <2>3
<1>6. {i \in 1 .. Len(q) : UpTo(q, i) =< n} = 1 .. p
  <2>1. \A i \in 1 .. k : i \in 0 .. k
    OBVIOUS
  <2>2. \A i \in 1 .. k : UpTo(q, i) = g[i]
    BY <1>1, <1>2, <2>1, Zenon
  <2>3. \A i \in 1 .. k : UpTo(q, i) =< n <=> i =< p
    BY <1>5, <2>2
  <2>4. 1 .. p = {i \in 1 .. k : i =< p}
    OBVIOUS
  <2> QED
    BY <1>1, <2>3, <2>4
<1>7. Popped(q, n) = p
  <2>1. Cardinality(1 .. p) = p
    BY FS_Interval
  <2> QED
    BY <1>6, <2>1 DEF Popped
<1>8. p # k => n < g[p + 1]
  <2>1. ASSUME p # k PROVE n < g[p + 1]
    <3>1. p + 1 \in 0 .. k
      BY <2>1
    <3>2. g[p + 1] \in Nat /\ ~(g[p + 1] =< n)
      BY <1>2, <1>4, <2>1, <3>1
    <3> QED
      BY <3>2
  <2> QED
    BY <2>1
<1>9. /\ Len(f[p]) =< n
      /\ p # k => n < Len(f[p + 1])
  <2>1. p # k => p + 1 \in 0 .. k
    OBVIOUS
  <2> QED
    BY <1>2, <1>4, <1>8, <2>1
<1> QED
  BY <1>1, <1>7, <1>9

\* After a write the queue is what it was without the octets written.
LEMMA Advanced ==
    ASSUME NEW q \in Seq(Chunks), NEW n \in Nat, n =< Len(Unsent(q))
    PROVE  /\ advance(q, n) \in Seq(Chunks)
           /\ Unsent(advance(q, n)) = SubSeq(Unsent(q), n + 1, Len(Unsent(q)))
<1>1. PICK k \in Nat : k = Len(q)
  OBVIOUS
<1>2. PICK f : /\ f[0] = <<>> /\ \A i \in 0 .. Len(q) : f[i] \in Seq(Nat) /\ Len(f[i]) \in Nat
               /\ \A i \in 1 .. Len(q) : /\ f[i] = f[i - 1] \o Remaining(q[i])
                                         /\ Len(f[i]) = Len(f[i - 1]) + Len(Remaining(q[i]))
               /\ \A i \in 1 .. Len(q) : q[i] \in Chunks /\ Remaining(q[i]) \in Seq(Nat)
                                         /\ Len(Remaining(q[i])) \in Nat
               /\ \A i \in 0 .. Len(q) : UpTo(q, i) = Len(f[i])
               /\ Unsent(q) = f[Len(q)]
  BY UnsentOf, Zenon
<1>3. /\ \A i \in 0 .. k : f[i] \in Seq(Nat) /\ Len(f[i]) \in Nat
      /\ \A i \in 1 .. k : /\ f[i] = f[i - 1] \o Remaining(q[i])
                           /\ Len(f[i]) = Len(f[i - 1]) + Len(Remaining(q[i]))
                           /\ q[i] \in Chunks /\ Remaining(q[i]) \in Seq(Nat)
                           /\ Len(Remaining(q[i])) \in Nat
      /\ \A i \in 0 .. k : UpTo(q, i) = Len(f[i])
      /\ Unsent(q) = f[k]
  BY <1>1, <1>2, Zenon
<1>4. PICK p \in 0 .. k : /\ p = Popped(q, n) /\ Len(f[p]) =< n
                          /\ p # k => n < Len(f[p + 1])
  <2>1. \E p \in 0 .. Len(q) : /\ p = Popped(q, n) /\ Len(f[p]) =< n
                               /\ p # Len(q) => n < Len(f[p + 1])
    BY <1>2, PoppedIs
  <2> QED
    BY <1>1, <2>1, Zenon
<1>5. PICK m \in Nat : m = k - p
  OBVIOUS
<1>l. PICK l \in Nat : l = Len(f[p]) /\ l =< n
  BY <1>3, <1>4
<1>6. PICK e \in Nat : e = n - l
  <2>1. n - l \in Nat
    BY <1>l
  <2> QED
    BY <2>1, Zenon
<1> DEFINE r == [i \in 1 .. m |-> IF i = 1 THEN [q[p + 1] EXCEPT !.offset = @ + e] ELSE q[p + i]]
<1>7. advance(q, n) = r
  <2>1. ASSUME NEW i \in 1 .. m
        PROVE (LET chunk == q[p + i]
               IN  IF i = 1 THEN [chunk EXCEPT !.offset = @ + n - l] ELSE chunk) = r[i]
    <3>1. CASE i = 1
      <4>1. p + 1 \in 1 .. k
        BY <1>5
      <4>2. q[p + 1] \in [data : Seq(Nat), offset : Nat]
        BY <1>3, <4>1 DEF Chunks
      <4>3. PICK c, o : c = q[p + 1] /\ o = c.offset
        OBVIOUS
      <4>4. c \in [data : Seq(Nat), offset : Nat] /\ o \in Nat
        BY <4>2, <4>3
      <4>5. o + (n - l) = o + e
        BY <1>l, <1>6, <4>4
      <4>6. [c EXCEPT !.offset = @ + n - l] = [c EXCEPT !.offset = o + e]
        BY <4>3, <4>5, Zenon
      <4>7. [c EXCEPT !.offset = @ + e] = [c EXCEPT !.offset = o + e]
        BY <4>3
      <4>8. r[1] = [c EXCEPT !.offset = @ + e]
        BY <3>1, <4>3
      <4> QED
        BY <3>1, <4>3, <4>6, <4>7, <4>8
    <3>2. CASE i # 1
      BY <3>2
    <3> QED
      BY <3>1, <3>2
  <2>2. UpTo(q, p) = l
    BY <1>3, <1>l
  <2>3. advance(q, n) = [i \in 1 .. m |-> LET chunk == q[p + i]
               IN  IF i = 1 THEN [chunk EXCEPT !.offset = @ + n - l] ELSE chunk]
    BY <1>1, <1>4, <1>5, <2>2, Zenon DEF advance
  <2> HIDE DEF r
  <2>4. r = [i \in 1 .. m |-> r[i]]
    BY DEF r
  <2> QED
    BY <2>1, <2>3, <2>4, Zenon
<1>8. Len(r) = m /\ \A i \in 1 .. m : i # 1 => r[i] = q[p + i]
  OBVIOUS
<1>9. m # 0 => r[1] \in Chunks
               /\ Remaining(r[1]) = SubSeq(Remaining(q[p + 1]), e + 1, Len(Remaining(q[p + 1])))
  <2>1. ASSUME m # 0 PROVE /\ p + 1 \in 1 .. k /\ (p + 1) - 1 = p /\ 1 \in 1 .. m /\ p # k
                           /\ p \in 0 .. k /\ p + 1 \in 0 .. k
    BY <1>5, <2>1
  <2>2. ASSUME m # 0 PROVE e =< Len(Remaining(q[p + 1]))
    <3>1. PICK b \in Nat, c \in Nat : b = Len(f[p + 1]) /\ c = Len(Remaining(q[p + 1]))
      BY <1>3, <2>1, <2>2
    <3>2. b = l + c /\ n < b
      <4>1. Len(f[p + 1]) = Len(f[(p + 1) - 1]) + Len(Remaining(q[p + 1]))
        BY <1>3, <2>1, <2>2
      <4> QED
        BY <1>3, <1>4, <1>l, <2>1, <2>2, <3>1, <4>1
    <3>3. e =< c
      BY <1>l, <1>6, <3>2
    <3> QED
      BY <3>1, <3>3
  <2>3. ASSUME m # 0
        PROVE r[1] \in Chunks
              /\ Remaining(r[1]) = SubSeq(Remaining(q[p + 1]), e + 1, Len(Remaining(q[p + 1])))
    <3>1. PICK c \in Chunks : c = q[p + 1]
      BY <1>3, <2>1, <2>3
    <3>2. r[1] = [c EXCEPT !.offset = @ + e]
      BY <2>1, <2>3, <3>1
    <3>3. e =< Len(Remaining(c))
      BY <2>2, <2>3, <3>1
    <3> HIDE DEF r
    <3>4. [c EXCEPT !.offset = @ + e] \in Chunks
      BY <3>3, OffsetMoved
    <3>5. Remaining([c EXCEPT !.offset = @ + e]) = SubSeq(Remaining(c), e + 1, Len(Remaining(c)))
      BY <3>3, OffsetMoved
    <3> QED
      BY <3>1, <3>2, <3>4, <3>5
  <2> QED
    BY <2>3, Zenon
<1>10. r \in Seq(Chunks)
  <2>1. ASSUME NEW i \in 1 .. m PROVE r[i] \in Chunks
    <3>1. CASE i = 1
      <4> HIDE DEF r
      <4> QED
        BY <1>9, <3>1
    <3>2. CASE i # 1
      <4>1. p + i \in 1 .. k
        BY <1>5
      <4> QED
        BY <1>3, <1>8, <3>2, <4>1
    <3> HIDE DEF r
    <3> QED
      BY <3>1, <3>2
  <2>2. r = [i \in 1 .. m |-> r[i]]
    OBVIOUS
  <2> HIDE DEF r
  <2> QED
    BY <2>1, <2>2
<1> HIDE DEF r
<1> DEFINE d == [i \in 1 .. m |-> Remaining(r[i])]
           g == [i \in 0 .. m |-> IF i = 0 THEN <<>> ELSE SubSeq(f[p + i], n + 1, Len(f[p + i]))]
<1>11. /\ Len(d) = m /\ \A i \in 1 .. m : d[i] = Remaining(r[i])
       /\ g[0] = <<>> /\ \A i \in 1 .. m : g[i] = SubSeq(f[p + i], n + 1, Len(f[p + i]))
  OBVIOUS
<1>12. Unsent(r) = Concat(d)
  BY <1>8, Zenon DEF Unsent
<1> HIDE DEF d, g
<1>13. ASSUME NEW i \in 1 .. m, i = 1 PROVE g[i] = g[i - 1] \o d[i]
  <2>1. p + i \in 1 .. k /\ (p + i) - 1 = p /\ p \in 0 .. k /\ m # 0 /\ i - 1 = 0 /\ p + i \in 0 .. k
    BY <1>5, <1>13
  <2>2. PICK a \in Seq(Nat), b \in Seq(Nat) : a = f[p] /\ b = Remaining(q[p + i])
    BY <1>3, <2>1
  <2>3. f[p + i] = a \o b
    <3>1. f[p + i] = f[(p + i) - 1] \o Remaining(q[p + i])
      BY <1>3, <2>1, Zenon
    <3> QED
      BY <2>1, <2>2, <3>1, Zenon
  <2>4. Len(a) =< n /\ n =< Len(a) + Len(b)
    <3>1. Len(a \o b) = Len(a) + Len(b) /\ Len(a) + Len(b) \in Nat
      BY Joined DEF IsJoin
    <3>2. PICK x, y : x = Len(a) + Len(b) /\ x \in Nat /\ y = Len(a)
      BY <3>1
    <3>3. p + i = p + 1 /\ Len(f[p + i]) = x /\ y = l
      BY <1>l, <1>13, <2>2, <2>3, <3>1, <3>2
    <3>4. n < x
      BY <1>4, <2>1, <3>3
    <3>5. l =< n /\ n =< x
      BY <1>l, <3>2, <3>4
    <3> QED
      BY <3>2, <3>3, <3>5
  <2>5. SubSeq(a \o b, n + 1, Len(a \o b)) = SubSeq(b, (n - Len(a)) + 1, Len(b))
    BY <2>4, DropMore, Zenon
  <2>6. d[i] = SubSeq(b, e + 1, Len(b))
    BY <1>9, <1>11, <1>13, <2>1, <2>2
  <2>7. n - Len(a) = e
    BY <1>l, <1>6, <2>2
  <2>8. g[i] = d[i]
    BY <1>11, <2>3, <2>5, <2>6, <2>7, Zenon
  <2>9. d[i] \in Seq(Nat)
    BY <1>9, <1>11, <1>13, <2>1, RemainingIs
  <2> QED
    BY <1>11, <2>1, <2>8, <2>9, JoinedEmpty, Zenon
<1>14. ASSUME NEW i \in 1 .. m, i # 1 PROVE g[i] = g[i - 1] \o d[i]
  <2>1. /\ p + i \in 1 .. k /\ (p + i) - 1 = p + (i - 1) /\ i - 1 \in 1 .. m
        /\ p + (i - 1) \in 0 .. k /\ p + (i - 1) \in Nat /\ p + 1 \in 0 .. (p + (i - 1))
        /\ p # k /\ p + 1 \in 0 .. k
    BY <1>5, <1>14
  <2>2. PICK a \in Seq(Nat), b \in Seq(Nat) : a = f[p + (i - 1)] /\ b = Remaining(q[p + i])
    BY <1>3, <2>1
  <2>3. f[p + i] = a \o b
    <3>1. f[p + i] = f[(p + i) - 1] \o Remaining(q[p + i])
      BY <1>3, <2>1, Zenon
    <3> QED
      BY <2>1, <2>2, <3>1, Zenon
  <2>4. n =< Len(a)
    <3> DEFINE o == [j \in 1 .. k |-> Remaining(q[j])]
    <3>1. \A j \in 1 .. k : o[j] = Remaining(q[j])
      OBVIOUS
    <3> HIDE DEF o
    <3>2. /\ \A j \in 0 .. k : Len(f[j]) \in Nat
          /\ \A j \in 1 .. k : Len(f[j]) = Len(f[j - 1]) + Len(o[j]) /\ Len(o[j]) \in Nat
      BY <1>3, <3>1, Zenon
    <3>3. \A j \in 0 .. (p + (i - 1)) : Len(f[j]) =< Len(f[p + (i - 1)])
      BY <2>1, <3>2, LengthsGrow
    <3>4. Len(f[p + 1]) =< Len(a) /\ Len(f[p + 1]) \in Nat /\ Len(a) \in Nat /\ n < Len(f[p + 1])
      BY <1>3, <1>4, <2>1, <2>2, <3>3
    <3> QED
      BY <3>4
  <2>5. SubSeq(a \o b, n + 1, Len(a \o b)) = SubSeq(a, n + 1, Len(a)) \o b
    BY <2>4, DropLess, Zenon
  <2>6. d[i] = b
    BY <1>8, <1>11, <1>14, <2>2, Zenon
  <2>7. g[i - 1] = SubSeq(a, n + 1, Len(a))
    BY <1>11, <2>1, <2>2, Zenon
  <2> QED
    BY <1>11, <2>3, <2>5, <2>6, <2>7, Zenon
<1>15. ConcatSteps(g, d, m)
  BY <1>11, <1>13, <1>14, Zenon DEF ConcatSteps
<1>16. Unsent(r) = g[m]
  BY <1>11, <1>12, <1>15, ConcatIs, Zenon
<1>17. g[m] = SubSeq(f[k], n + 1, Len(f[k]))
  <2>1. CASE m = 0
    <3>1. p = k /\ k \in 0 .. k
      BY <1>5, <2>1
    <3>2. PICK z, w : z = Len(f[k]) /\ w = f[k] /\ z \in Nat /\ w \in Seq(Nat)
      BY <1>3, <3>1
    <3>3. z = n
      BY <1>3, <1>4, <3>1, <3>2
    <3>4. SubSeq(w, n + 1, n) = <<>>
      BY <3>2
    <3> QED
      BY <1>11, <2>1, <3>2, <3>3, <3>4
  <2>2. CASE m # 0
    <3>1. m \in 1 .. m /\ p + m = k
      BY <1>5, <2>2
    <3> QED
      BY <1>11, <3>1, Zenon
  <2> QED
    BY <2>1, <2>2
<1> QED
  BY <1>3, <1>7, <1>10, <1>16, <1>17, Zenon

(***************************************************************************)
(* The octets out                                                          *)
(***************************************************************************)
Fields == {"buffer", "closed", "started", "healthy", "outbound", "ready", "events", "connected",
           "registered", "writeEnabled", "blocked", "received", "queued", "sent"}

\* A session that differs from another one in some fields only
SameBut(t, u, fields) == DOMAIN u = Fields /\ \A x \in Fields \ fields : u[x] = t[x]

\* What is invariant about a session's output
Written(t) ==
    /\ DOMAIN t = Fields /\ t.buffer \in Seq(Nat)
    /\ t.outbound \in Seq(Chunks) /\ t.queued \in Seq(Nat) /\ t.sent \in Seq(Nat)
    /\ \E r \in Seq(Nat) : t.queued = t.sent \o r
    /\ Healthy(t) => t.sent \o Unsent(t.outbound) = t.queued
    /\ t.blocked # <<>> => t.outbound # <<>> /\ t.blocked = Remaining(Head(t.outbound))

\* What does not touch the output leaves it as it was; a session that has failed
\* stays failed.
LEMMA SameWritten ==
    ASSUME NEW t, NEW u, Written(t), DOMAIN u = Fields, u.buffer \in Seq(Nat),
           u.outbound = t.outbound, u.queued = t.queued, u.sent = t.sent, u.blocked = t.blocked,
           Healthy(u) => Healthy(t)
    PROVE  Written(u)
BY Zenon DEF Written

\* What enqueueOutbound changes
LEMMA EnqueueFields ==
    ASSUME NEW t, NEW d, DOMAIN t = Fields
    PROVE  LET u == enqueueOutbound(t, d)
           IN  /\ SameBut(t, u, {"outbound", "queued"})
               /\ u.outbound = Append(t.outbound, [data |-> d, offset |-> 0])
               /\ u.queued = t.queued \o d
BY DEF enqueueOutbound, SameBut, Fields

\* A frame of octets queued keeps what is queued, written and emitted in step.
LEMMA EnqueueWritten ==
    ASSUME NEW t, NEW d \in Seq(Nat), Written(t)
    PROVE  Written(enqueueOutbound(t, d))
<1>1. PICK u : u = enqueueOutbound(t, d)
  OBVIOUS
<1>2. /\ SameBut(t, u, {"outbound", "queued"})
      /\ u.outbound = Append(t.outbound, [data |-> d, offset |-> 0])
      /\ u.queued = t.queued \o d
  BY <1>1, EnqueueFields, Zenon DEF Written
<1>3. /\ u.buffer = t.buffer /\ u.sent = t.sent /\ u.blocked = t.blocked
      /\ u.started = t.started /\ u.healthy = t.healthy /\ u.closed = t.closed
      /\ DOMAIN u = Fields
  BY <1>2 DEF SameBut, Fields
<1>r. PICK r : r = u.outbound
  OBVIOUS
<1>4. PICK q \in Seq(Chunks) : q = t.outbound /\ r = u.outbound
  BY <1>r DEF Written
<1>5. /\ r \in Seq(Chunks) /\ Unsent(q) \in Seq(Nat) /\ Unsent(r) = Unsent(q) \o d
      /\ r # <<>> /\ (q # <<>> => Head(r) = Head(q))
  <2>1. r = Append(q, [data |-> d, offset |-> 0])
    BY <1>2, <1>4, Zenon
  <2> QED
    BY <2>1, EnqueuedUnsent, Zenon
<1>6. u.queued \in Seq(Nat)
  <2>1. t.queued \in Seq(Nat)
    BY Zenon DEF Written
  <2>2. t.queued \o d \in Seq(Nat)
    BY <2>1, Joined DEF IsJoin
  <2> QED
    BY <1>2, <2>2, Zenon
<1>7. \E x \in Seq(Nat) : u.queued = u.sent \o x
  <2>1. PICK x \in Seq(Nat) : t.queued = t.sent \o x
    BY Zenon DEF Written
  <2>2. t.sent \in Seq(Nat)
    BY Zenon DEF Written
  <2>3. (t.sent \o x) \o d = t.sent \o (x \o d)
    BY <2>2, JoinedThree, Zenon
  <2>4. x \o d \in Seq(Nat)
    BY Joined DEF IsJoin
  <2> QED
    BY <1>2, <1>3, <2>1, <2>3, <2>4, Zenon
<1>8. Healthy(u) => u.sent \o Unsent(u.outbound) = u.queued
  <2>1. ASSUME Healthy(u) PROVE u.sent \o Unsent(u.outbound) = u.queued
    <3>1. Healthy(t)
      BY <1>3, <2>1, Zenon DEF Healthy
    <3>2. t.sent \o Unsent(q) = t.queued /\ t.sent \in Seq(Nat)
      BY <1>4, <3>1, Zenon DEF Written
    <3>3. (t.sent \o Unsent(q)) \o d = t.sent \o (Unsent(q) \o d)
      BY <1>5, <3>2, JoinedThree, Zenon
    <3> QED
      BY <1>2, <1>3, <1>4, <1>5, <3>2, <3>3, Zenon
  <2> QED
    BY <2>1, Zenon
<1>9. u.blocked # <<>> => u.outbound # <<>> /\ u.blocked = Remaining(Head(u.outbound))
  BY <1>3, <1>4, <1>5, Zenon DEF Written
<1>10. u.buffer \in Seq(Nat) /\ u.sent \in Seq(Nat) /\ u.outbound \in Seq(Chunks)
  BY <1>3, <1>4, <1>5, Zenon DEF Written
<1> QED
  BY <1>1, <1>3, <1>6, <1>7, <1>8, <1>9, <1>10, Zenon DEF Written

\* The frames of the client are octets.
LEMMA FrameTyped ==
    ASSUME NEW h, h.payloadLength \in Nat, h.type \in Nat, h.flags \in Nat, h.streamId \in Nat,
           NEW ints \in Seq(Nat), NEW data \in Seq(Nat),
           \A i \in 1 .. Len(ints) : Widths(h)[i] \in 1 .. 4
    PROVE  toBytes(h, ints, data) \in Seq(Nat)
<1>1. encode(h) \in Seq(Nat)
  <2>1. append(h.payloadLength, 3) \in Seq(Nat) /\ append(h.streamId, 4) \in Seq(Nat)
    <3>1. 3 \in 1 .. 4 /\ 4 \in 1 .. 4
      OBVIOUS
    <3> QED
      BY <3>1, Appended, Zenon
  <2>2. PICK a \in Seq(Nat), c \in Seq(Nat) : a = append(h.payloadLength, 3) /\ c = append(h.streamId, 4)
    BY <2>1
  <2>3. PICK b \in Seq(Nat) : b = <<h.type, h.flags>>
    <3>1. <<h.type, h.flags>> \in Seq(Nat)
      OBVIOUS
    <3> QED
      BY <3>1
  <2>4. a \o b \in Seq(Nat)
    BY Joined DEF IsJoin
  <2>5. (a \o b) \o c \in Seq(Nat)
    BY <2>4, Joined DEF IsJoin
  <2> QED
    BY <2>2, <2>3, <2>5, Zenon DEF encode
<1>2. PICK n \in Nat : n = Len(ints)
  OBVIOUS
<1> DEFINE q == [i \in 1 .. n |-> append(ints[i], Widths(h)[i])]
<1>3. Len(q) = n /\ n \in 0 .. n /\ \A i \in 1 .. n : q[i] = append(ints[i], Widths(h)[i])
  OBVIOUS
<1>4. q = [i \in 1 .. Len(ints) |-> append(ints[i], Widths(h)[i])]
  BY <1>2
<1> HIDE DEF q
<1>5. \A i \in 1 .. n : q[i] \in Seq(Nat)
  <2>1. ASSUME NEW i \in 1 .. n PROVE q[i] \in Seq(Nat)
    <3>1. ints[i] \in Nat /\ Widths(h)[i] \in 1 .. 4
      BY <1>2
    <3>2. append(ints[i], Widths(h)[i]) \in Seq(Nat)
      BY <3>1, Appended, Zenon
    <3> QED
      BY <1>3, <3>2, Zenon
  <2> QED
    BY <2>1, Zenon
<1>6. Concat(q) \in Seq(Nat)
  <2>1. PICK f : Fronts(f, q, n)
    BY <1>5, ConcatOf, Zenon
  <2>2. f[n] \in Seq(Nat) /\ Concat(q) = f[n]
    BY <1>3, <2>1, Zenon DEF Fronts
  <2> QED
    BY <2>2
<1>7. toBytes(h, ints, data) = (encode(h) \o Concat(q)) \o data
  BY <1>4, Zenon DEF toBytes
<1>8. PICK a \in Seq(Nat), b \in Seq(Nat) : a = encode(h) /\ b = Concat(q)
  BY <1>1, <1>6
<1>9. a \o b \in Seq(Nat)
  BY Joined DEF IsJoin
<1>10. (a \o b) \o data \in Seq(Nat)
  BY <1>9, Joined DEF IsJoin
<1> QED
  BY <1>7, <1>8, <1>10, Zenon

\* The integers of each type of frame
LEMMA WidthsOf ==
    ASSUME NEW h
    PROVE  /\ h.type = Types.HEADERS /\ hasAnyFlag(h, PRIORITY) => Widths(h) = <<4, 1>>
           /\ h.type \in {Types.PUSH_PROMISE, Types.RST_STREAM, Types.WINDOW_UPDATE}
                 => Widths(h) = <<4>>
           /\ h.type = Types.GOAWAY => Widths(h) = <<4, 4>>
           /\ h.type = Types.SETTINGS
                 => Widths(h) = [i \in 1 .. h.payloadLength \div 3 |-> IF i % 2 = 1 THEN 2 ELSE 4]
           /\ \/ h.type = Types.HEADERS /\ hasAnyFlag(h, PRIORITY)
              \/ h.type \in {Types.PUSH_PROMISE, Types.RST_STREAM, Types.WINDOW_UPDATE}
              \/ h.type = Types.GOAWAY \/ h.type = Types.SETTINGS
              \/ Widths(h) = <<>>
<1>1. /\ Types.HEADERS = 1 /\ Types.PUSH_PROMISE = 5 /\ Types.RST_STREAM = 3
      /\ Types.WINDOW_UPDATE = 8 /\ Types.GOAWAY = 7 /\ Types.SETTINGS = 4
  BY DEF Types
<1>2. h.type = Types.HEADERS /\ hasAnyFlag(h, PRIORITY) => Widths(h) = <<4, 1>>
  BY <1>1 DEF Widths
<1>3. h.type \in {Types.PUSH_PROMISE, Types.RST_STREAM, Types.WINDOW_UPDATE} => Widths(h) = <<4>>
  BY <1>1 DEF Widths
<1>4. h.type = Types.GOAWAY => Widths(h) = <<4, 4>>
  BY <1>1 DEF Widths
<1>5. h.type = Types.SETTINGS
         => Widths(h) = [i \in 1 .. h.payloadLength \div 3 |-> IF i % 2 = 1 THEN 2 ELSE 4]
  <2> DEFINE w == [i \in 1 .. h.payloadLength \div 3 |-> IF i % 2 = 1 THEN 2 ELSE 4]
  <2>1. Widths(h) = CASE h.type = Types.HEADERS /\ hasAnyFlag(h, PRIORITY)     -> <<4, 1>>
                      [] h.type \in {Types.PUSH_PROMISE, Types.RST_STREAM, Types.WINDOW_UPDATE} -> <<4>>
                      [] h.type = Types.GOAWAY                                 -> <<4, 4>>
                      [] h.type = Types.SETTINGS                               -> w
                      [] OTHER                                                 -> <<>>
    BY Zenon DEF Widths
  <2> HIDE DEF w
  <2>2. h.type = Types.SETTINGS => Widths(h) = w
    BY <1>1, <2>1
  <2> QED
    BY <2>2 DEF w
<1>6. \/ h.type = Types.HEADERS /\ hasAnyFlag(h, PRIORITY)
      \/ h.type \in {Types.PUSH_PROMISE, Types.RST_STREAM, Types.WINDOW_UPDATE}
      \/ h.type = Types.GOAWAY \/ h.type = Types.SETTINGS
      \/ Widths(h) = <<>>
  BY <1>1 DEF Widths
<1> QED
  BY <1>2, <1>3, <1>4, <1>5, <1>6

\* The first SETTINGS frame is octets.
LEMMA SettingsTyped == settingsFrame \in Seq(Nat)
<1>1. PICK n \in Nat, m \in Nat : n = Len(LocalSettings) /\ m = n \div 2 /\ n = 2 * m
  BY WireAssumption
<1> DEFINE h == [payloadLength |-> (Len(LocalSettings) \div 2) * 6, type |-> Types.SETTINGS,
                 flags |-> 0, streamId |-> 0]
<1>2. h.payloadLength = m * 6 /\ h.type = 4 /\ h.flags = 0 /\ h.streamId = 0
  BY <1>1 DEF Types
<1>3. settingsFrame = toBytes(h, LocalSettings, <<>>)
  BY DEF settingsFrame, Frame
<1> HIDE DEF h
<1>4. Widths(h) = [i \in 1 .. n |-> IF i % 2 = 1 THEN 2 ELSE 4]
  <2>1. (m * 6) \div 3 = n
    BY <1>1
  <2>2. h.type = Types.SETTINGS
    BY <1>2 DEF Types
  <2>3. Widths(h) = [i \in 1 .. h.payloadLength \div 3 |-> IF i % 2 = 1 THEN 2 ELSE 4]
    BY <2>2, WidthsOf, Zenon
  <2> QED
    BY <1>2, <2>1, <2>3, Zenon
<1>5. \A i \in 1 .. Len(LocalSettings) : Widths(h)[i] \in 1 .. 4
  <2>1. \A i \in 1 .. n : (IF i % 2 = 1 THEN 2 ELSE 4) \in 1 .. 4
    OBVIOUS
  <2> QED
    BY <1>1, <1>4, <2>1, Zenon
<1>6. <<>> \in Seq(Nat) /\ LocalSettings \in Seq(Nat) /\ m * 6 \in Nat /\ 4 \in Nat /\ 0 \in Nat
  BY WireAssumption
<1> QED
  BY <1>2, <1>3, <1>5, <1>6, FrameTyped, Zenon

\* A frame without integers
LEMMA PlainTyped ==
    ASSUME NEW type \in Nat, NEW flags \in Nat, NEW id \in Nat, NEW length \in Nat,
           NEW data \in Seq(Nat)
    PROVE  Frame(type, flags, id, length, <<>>, data) \in Seq(Nat)
<1> DEFINE h == [payloadLength |-> length, type |-> type, flags |-> flags, streamId |-> id]
<1>1. h.payloadLength = length /\ h.type = type /\ h.flags = flags /\ h.streamId = id
  OBVIOUS
<1>2. Frame(type, flags, id, length, <<>>, data) = toBytes(h, <<>>, data)
  BY DEF Frame
<1> HIDE DEF h
<1>3. <<>> \in Seq(Nat) /\ \A i \in 1 .. Len(<<>>) : Widths(h)[i] \in 1 .. 4
  OBVIOUS
<1> QED
  BY <1>1, <1>2, <1>3, FrameTyped, Zenon

\* A frame of two octets of integers at most, of four octets each
LEMMA FoursTyped ==
    ASSUME NEW type \in {Types.RST_STREAM, Types.GOAWAY}, NEW id \in Nat, NEW length \in Nat,
           NEW ints \in Seq(Nat), Len(ints) =< IF type = Types.GOAWAY THEN 2 ELSE 1
    PROVE  Frame(type, 0, id, length, ints, <<>>) \in Seq(Nat)
<1> DEFINE h == [payloadLength |-> length, type |-> type, flags |-> 0, streamId |-> id]
<1>1. h.payloadLength = length /\ h.type = type /\ h.flags = 0 /\ h.streamId = id
  OBVIOUS
<1>2. Frame(type, 0, id, length, ints, <<>>) = toBytes(h, ints, <<>>)
  BY DEF Frame
<1> HIDE DEF h
<1>3. ASSUME NEW i \in 1 .. Len(ints) PROVE Widths(h)[i] \in 1 .. 4
  <2>1. Types.RST_STREAM # Types.GOAWAY
    BY DEF Types
  <2>2. CASE type = Types.RST_STREAM
    <3>1. Widths(h) = <<4>>
      BY <1>1, <2>2, WidthsOf, Zenon
    <3>2. i = 1
      BY <2>1, <2>2
    <3> QED
      BY <3>1, <3>2
  <2>3. CASE type = Types.GOAWAY
    <3>2. Widths(h) = <<4, 4>>
      BY <1>1, <2>3, WidthsOf, Zenon
    <3>3. i = 1 \/ i = 2
      BY <2>3
    <3> QED
      BY <3>2, <3>3
  <2> QED
    BY <2>2, <2>3
<1>4. <<>> \in Seq(Nat) /\ type \in Nat /\ 0 \in Nat
  BY DEF Types
<1> QED
  BY <1>1, <1>2, <1>3, <1>4, FrameTyped, Zenon

\* Whatever the client sends is octets.
LEMMA FramesTyped ==
    /\ Preface \in Seq(Nat) /\ settingsFrame \in Seq(Nat) /\ settingsAck \in Seq(Nat)
    /\ headersFrame \in Seq(Nat) /\ goaway(<<>>) \in Seq(Nat)
    /\ \A n \in Nat : pingFrame(n) \in Seq(Nat)
    /\ \A d \in Seq(Nat) : pingAck(d) \in Seq(Nat)
    /\ \A id \in Nat : rstFrame(id) \in Seq(Nat)
<1>1. /\ 0 \in Nat /\ 1 \in Nat /\ 4 \in Nat /\ 6 \in Nat /\ 8 \in Nat /\ <<>> \in Seq(Nat)
      /\ Types.SETTINGS \in Nat /\ Types.PING \in Nat /\ Types.HEADERS \in Nat
      /\ ACK \in Nat /\ END_HEADERS + END_STREAM \in Nat /\ 8 + Len(<<>>) = 8
  BY DEF Types, ACK, END_HEADERS, END_STREAM
<1>2. Preface \in Seq(Nat) /\ Block \in Seq(Nat) /\ Len(Block) \in Nat
  <2>1. Octet \in Nat /\ \A x \in 0 .. Octet - 1 : x \in Nat
    BY FramesAssumption
  <2>2. ASSUME NEW q \in Seq(0 .. Octet - 1) PROVE q \in Seq(Nat)
    BY <2>1
  <2> QED
    BY <2>2, WireAssumption
<1>3. settingsAck \in Seq(Nat)
  BY <1>1, PlainTyped, Zenon DEF settingsAck
<1>4. headersFrame \in Seq(Nat)
  BY <1>1, <1>2, PlainTyped, Zenon DEF headersFrame
<1>5. ASSUME NEW d \in Seq(Nat) PROVE pingAck(d) \in Seq(Nat)
  BY <1>1, PlainTyped, Zenon DEF pingAck
<1>6. ASSUME NEW n \in Nat PROVE pingFrame(n) \in Seq(Nat)
  <2>1. PICK w \in Nat \ {0} : w = Power[4]
    <3>1. 4 \in 1 .. 4 /\ 4 \in 0 .. 4
      OBVIOUS
    <3>2. Worth(4) \in Nat \ {0} /\ Power[4] = Worth(4)
      BY <3>1, WorthIs, Zenon
    <3> QED
      BY <3>2, Zenon
  <2>2. n \div w \in Nat /\ n % w \in Nat /\ 4 \in 1 .. 4
    BY <2>1
  <2>3. PICK a \in Seq(Nat), b \in Seq(Nat) : a = append(n \div w, 4) /\ b = append(n % w, 4)
    BY <2>2, Appended
  <2>4. a \o b \in Seq(Nat)
    BY Joined DEF IsJoin
  <2>5. PICK d \in Seq(Nat) : d = a \o b
    BY <2>4
  <2>6. Frame(Types.PING, 0, 0, 8, <<>>, d) \in Seq(Nat)
    BY <1>1, PlainTyped, Zenon
  <2>7. pingFrame(n) = Frame(Types.PING, 0, 0, 8, <<>>, d)
    BY <2>1, <2>3, <2>5 DEF pingFrame
  <2> QED
    BY <2>6, <2>7
<1>7. goaway(<<>>) \in Seq(Nat)
  <2>1. <<0, 1>> \in Seq(Nat) /\ Len(<<0, 1>>) =< (IF Types.GOAWAY = Types.GOAWAY THEN 2 ELSE 1)
        /\ Types.GOAWAY \in {Types.RST_STREAM, Types.GOAWAY}
    OBVIOUS
  <2> QED
    BY <1>1, <2>1, FoursTyped, Zenon DEF goaway
<1>8. ASSUME NEW id \in Nat PROVE rstFrame(id) \in Seq(Nat)
  <2>1. <<8>> \in Seq(Nat) /\ Len(<<8>>) =< (IF Types.RST_STREAM = Types.GOAWAY THEN 2 ELSE 1)
        /\ Types.RST_STREAM \in {Types.RST_STREAM, Types.GOAWAY}
    OBVIOUS
  <2> QED
    BY <1>1, <2>1, FoursTyped, Zenon DEF rstFrame
<1> QED
  BY <1>2, <1>3, <1>4, <1>5, <1>6, <1>7, <1>8, SettingsTyped

\* The frames popped, one after the other
PopAll(base, q) == Fold(LAMBDA u, i : popFrame(u), base, q)
PopSteps(f, base, n) == f[0] = base /\ \A i \in 1 .. n : f[i] = popFrame(f[i - 1])

\* Popping n times is n steps.
LEMMA PopRun ==
    ASSUME NEW base, NEW q, NEW n \in Nat, Len(q) = n
    PROVE  \E f : /\ PopSteps(f, base, n)
                  /\ PopAll(base, q) = f[n]
<1> DEFINE G(f, i) == IF i = 0 THEN base ELSE popFrame(f[i - 1])
           S == {m \in Nat : \E f : f = [i \in 0 .. m |-> G(f, i)]}
           F == CHOOSE f : f = [i \in 0 .. n |-> G(f, i)]
<1>1. 0 \in S
  <2> DEFINE f == [i \in 0 .. 0 |-> base]
  <2>1. f = [i \in 0 .. 0 |-> G(f, i)]
    OBVIOUS
  <2> QED
    BY <2>1
<1>2. ASSUME NEW m \in 0 .. n, m \in S PROVE m + 1 \in S
  <2>1. PICK f : f = [i \in 0 .. m |-> G(f, i)]
    BY <1>2
  <2> DEFINE g == [i \in 0 .. (m + 1) |-> IF i = m + 1 THEN G(f, i) ELSE f[i]]
  <2>2. \A i \in 0 .. (m + 1) : G(g, i) = G(f, i)
    OBVIOUS
  <2>3. \A i \in 0 .. m : f[i] = G(f, i)
    BY <2>1
  <2>4. \A i \in 0 .. (m + 1) : g[i] = G(g, i)
    BY <2>2, <2>3
  <2>5. g = [i \in 0 .. (m + 1) |-> g[i]]
    OBVIOUS
  <2> HIDE DEF g, G
  <2>6. g = [i \in 0 .. (m + 1) |-> G(g, i)]
    BY <2>4, <2>5
  <2> QED
    BY <2>6
<1>3. n \in S
  <2> HIDE DEF S
  <2>1. n \in 0 .. n
    OBVIOUS
  <2> QED
    BY <1>1, <1>2, <2>1, LoopInduction
<1>4. F = [i \in 0 .. n |-> G(F, i)]
  <2>1. \E f : f = [i \in 0 .. n |-> G(f, i)]
    BY <1>3
  <2> QED
    BY <2>1, Zenon
<1>5. PopAll(base, q) = F[n]
  BY Zenon DEF Fold, PopAll
<1> HIDE DEF F
<1>6. \A i \in 0 .. n : F[i] = G(F, i)
  <2> HIDE DEF G
  <2> QED
    BY <1>4
<1>7. F[0] = base /\ \A i \in 1 .. n : F[i] = popFrame(F[i - 1])
  <2>1. 0 \in 0 .. n /\ \A i \in 1 .. n : i \in 0 .. n /\ i # 0
    OBVIOUS
  <2> QED
    BY <1>6, <2>1, Zenon
<1> QED
  BY <1>5, <1>7, Zenon DEF PopSteps

\* The reads given to the session, one after the other
ReceiveAll(base, q) == Fold(LAMBDA v, b : translateEvents(receiveBytes(v, b)), base, q)
ReceiveSteps(f, base, q, n) == f[0] = base /\ \A i \in 1 .. n : f[i] = translateEvents(receiveBytes(f[i - 1], q[i]))

\* Giving n reads to the session is n steps.
LEMMA ReceiveRun ==
    ASSUME NEW base, NEW q, NEW n \in Nat, Len(q) = n
    PROVE  \E f : /\ ReceiveSteps(f, base, q, n)
                  /\ ReceiveAll(base, q) = f[n]
<1> DEFINE G(f, i) == IF i = 0 THEN base ELSE translateEvents(receiveBytes(f[i - 1], q[i]))
           S == {m \in Nat : \E f : f = [i \in 0 .. m |-> G(f, i)]}
           F == CHOOSE f : f = [i \in 0 .. n |-> G(f, i)]
<1>1. 0 \in S
  <2> DEFINE f == [i \in 0 .. 0 |-> base]
  <2>1. f = [i \in 0 .. 0 |-> G(f, i)]
    OBVIOUS
  <2> QED
    BY <2>1
<1>2. ASSUME NEW m \in 0 .. n, m \in S PROVE m + 1 \in S
  <2>1. PICK f : f = [i \in 0 .. m |-> G(f, i)]
    BY <1>2
  <2> DEFINE g == [i \in 0 .. (m + 1) |-> IF i = m + 1 THEN G(f, i) ELSE f[i]]
  <2>2. \A i \in 0 .. (m + 1) : G(g, i) = G(f, i)
    OBVIOUS
  <2>3. \A i \in 0 .. m : f[i] = G(f, i)
    BY <2>1
  <2>4. \A i \in 0 .. (m + 1) : g[i] = G(g, i)
    BY <2>2, <2>3
  <2>5. g = [i \in 0 .. (m + 1) |-> g[i]]
    OBVIOUS
  <2> HIDE DEF g, G
  <2>6. g = [i \in 0 .. (m + 1) |-> G(g, i)]
    BY <2>4, <2>5
  <2> QED
    BY <2>6
<1>3. n \in S
  <2> HIDE DEF S
  <2>1. n \in 0 .. n
    OBVIOUS
  <2> QED
    BY <1>1, <1>2, <2>1, LoopInduction
<1>4. F = [i \in 0 .. n |-> G(F, i)]
  <2>1. \E f : f = [i \in 0 .. n |-> G(f, i)]
    BY <1>3
  <2> QED
    BY <2>1, Zenon
<1>5. ReceiveAll(base, q) = F[n]
  BY Zenon DEF Fold, ReceiveAll
<1> HIDE DEF F
<1>6. \A i \in 0 .. n : F[i] = G(F, i)
  <2> HIDE DEF G
  <2> QED
    BY <1>4
<1>7. F[0] = base /\ \A i \in 1 .. n : F[i] = translateEvents(receiveBytes(F[i - 1], q[i]))
  <2>1. 0 \in 0 .. n /\ \A i \in 1 .. n : i \in 0 .. n /\ i # 0
    OBVIOUS
  <2> QED
    BY <1>6, <2>1, Zenon
<1> QED
  BY <1>5, <1>7, Zenon DEF ReceiveSteps

\* A header is numbers, whatever the octets are.
LEMMA DecodeTyped ==
    ASSUME NEW b \in Seq(Nat), Len(b) >= 9
    PROVE  LET h == decode(b)
           IN  /\ h.payloadLength \in Nat /\ h.type \in Nat /\ h.flags \in Nat
               /\ h.streamId \in Nat /\ h.type = b[4] /\ h.flags = b[5]
<1>1. PICK x, y : x = SubSeq(b, 1, 3) /\ y = SubSeq(b, 6, 9)
  OBVIOUS
<1>2. x \in Seq(Nat) /\ y \in Seq(Nat)
  <2>1. IsPart(SubSeq(b, 0 + 1, 3), b, 0, 3 - 0) /\ IsPart(SubSeq(b, 5 + 1, 9), b, 5, 9 - 5)
    <3>1. 3 =< Len(b) /\ 9 =< Len(b) /\ 0 =< 3 /\ 5 =< 9
      OBVIOUS
    <3> QED
      BY <3>1, Cut
  <2>2. 0 + 1 = 1 /\ 5 + 1 = 6
    OBVIOUS
  <2> QED
    BY <1>1, <2>1, <2>2, Zenon DEF IsPart
<1>3. PICK m \in Nat, n \in Nat : m = readAs(x) /\ n = readAs(y)
  BY <1>2, ReadTyped
<1>4. masked(n) \in Nat
  <2>1. PICK w \in Nat \ {0} : w = Power[4] \div 2
    BY WorthIs
  <2>2. n % w \in Nat
    BY <2>1
  <2> QED
    BY <2>1, <2>2, Zenon DEF masked
<1>5. decode(b) = [payloadLength |-> m, type |-> b[4], flags |-> b[5], streamId |-> masked(n)]
  BY <1>1, <1>3, Zenon DEF decode
<1>6. b[4] \in Nat /\ b[5] \in Nat
  OBVIOUS
<1> QED
  BY <1>4, <1>5, <1>6

\* What tryPop gives is octets and a header with a stream id.
LEMMA PopTyped ==
    ASSUME NEW b \in Seq(Nat), CanPop(b)
    PROVE  LET p == tryPop(b)
           IN  /\ p.rest \in Seq(Nat) /\ p.frame.data \in Seq(Nat)
               /\ p.frame.header = decode(b)
               /\ p.frame.header.streamId \in Nat
<1>1. PICK h, k : h = decode(b) /\ k = h.payloadLength
  OBVIOUS
<1>2. k \in Nat /\ h.streamId \in Nat /\ Len(b) >= 9
  BY <1>1, DecodeTyped DEF CanPop, encodedSize
<1>3. PICK x, y : x = SubSeq(b, 9 + 1, 9 + k) /\ y = SubSeq(b, (9 + k) + 1, Len(b))
  OBVIOUS
<1>4. x \in Seq(Nat) /\ y \in Seq(Nat)
  <2>1. PICK m \in Nat : m = 9 + k /\ m =< Len(b) /\ 9 =< m
    BY <1>1, <1>2 DEF CanPop, encodedSize
  <2>2. IsPart(SubSeq(b, 9 + 1, m), b, 9, m - 9) /\ IsPart(SubSeq(b, m + 1, Len(b)), b, m, Len(b) - m)
    BY <2>1, Cut, CutInTwo
  <2> QED
    BY <1>3, <2>1, <2>2, Zenon DEF IsPart
<1>5. tryPop(b) = [frame |-> [header |-> h, data |-> x], rest |-> y]
  BY <1>1, <1>3 DEF tryPop, encodedSize
<1> QED
  BY <1>1, <1>2, <1>4, <1>5

\* What receiveFrame does is one of six things.
LEMMA ReceiveCases ==
    ASSUME NEW t, NEW raw, NEW u, u = [t EXCEPT !.received = Append(@, typed(raw))], NEW v,
           v = receiveFrame(t, raw)
    PROVE  \/ (raw.header.payloadLength > MaxFrameSize \/ ~WellSized(raw)) /\ v = failConnection(t)
           \/ /\ ~(raw.header.payloadLength > MaxFrameSize \/ ~WellSized(raw))
              /\ \/ v = enqueueOutbound(u, settingsAck) /\ raw.header.type = Types.SETTINGS
                 \/ v = enqueueOutbound(u, pingAck(raw.data)) /\ raw.header.type = Types.PING
                 \/ v = enqueueOutbound(u, rstFrame(raw.header.streamId))
                    /\ raw.header.type = Types.PRIORITY
                 \/ v = failConnection(u) /\ raw.header.type = Types.PUSH_PROMISE
                 \/ v = u /\ raw.header.type # Types.PUSH_PROMISE
BY DEF receiveFrame

\* failConnection queues a GOAWAY and nothing else.
LEMMA FailWritten ==
    ASSUME NEW t, Written(t)
    PROVE  Written(failConnection(t))
<1>1. PICK u, v : u = enqueueOutbound(t, goaway(<<>>)) /\ v = [u EXCEPT !.closed = TRUE]
  OBVIOUS
<1>2. Written(u)
  BY <1>1, EnqueueWritten, FramesTyped, Zenon
<1>3. DOMAIN u = Fields
  BY <1>2, Zenon DEF Written
<1>4. /\ DOMAIN v = Fields /\ v.buffer = u.buffer /\ v.outbound = u.outbound /\ v.closed
      /\ v.queued = u.queued /\ v.sent = u.sent /\ v.blocked = u.blocked
  BY <1>1, <1>3 DEF Fields
<1>5. ~Healthy(v)
  BY <1>4, Zenon DEF Healthy
<1>6. u.buffer \in Seq(Nat)
  BY <1>2, Zenon DEF Written
<1>7. Written(v)
  BY <1>2, <1>4, <1>5, <1>6, SameWritten, Zenon
<1> QED
  BY <1>1, <1>7, Zenon DEF failConnection

\* A frame received may queue an answer.
LEMMA ReceiveFrameWritten ==
    ASSUME NEW t, NEW raw, Written(t), raw.data \in Seq(Nat), raw.header.streamId \in Nat
    PROVE  Written(receiveFrame(t, raw))
<1>1. PICK u : u = [t EXCEPT !.received = Append(@, typed(raw))]
  OBVIOUS
<1>2. DOMAIN t = Fields /\ t.buffer \in Seq(Nat)
  BY Zenon DEF Written
<1>3. /\ DOMAIN u = Fields /\ u.buffer = t.buffer /\ u.outbound = t.outbound
      /\ u.queued = t.queued /\ u.sent = t.sent /\ u.blocked = t.blocked
      /\ u.started = t.started /\ u.healthy = t.healthy /\ u.closed = t.closed
  BY <1>1, <1>2 DEF Fields
<1>4. Written(u)
  <2>1. Healthy(u) => Healthy(t)
    BY <1>3, Zenon DEF Healthy
  <2> QED
    BY <1>2, <1>3, <2>1, SameWritten, Zenon
<1>5. /\ Written(failConnection(t)) /\ Written(failConnection(u))
      /\ Written(enqueueOutbound(u, settingsAck))
      /\ Written(enqueueOutbound(u, pingAck(raw.data)))
      /\ Written(enqueueOutbound(u, rstFrame(raw.header.streamId)))
  BY <1>4, FailWritten, EnqueueWritten, FramesTyped, Zenon
<1>6. PICK v : v = receiveFrame(t, raw)
  OBVIOUS
<1>7. \/ v = failConnection(t) \/ v = enqueueOutbound(u, settingsAck)
      \/ v = enqueueOutbound(u, pingAck(raw.data))
      \/ v = enqueueOutbound(u, rstFrame(raw.header.streamId))
      \/ v = failConnection(u) \/ v = u
  BY <1>1, <1>6, ReceiveCases
<1> QED
  BY <1>4, <1>5, <1>6, <1>7, Zenon

\* Popping a frame may queue an answer.
LEMMA PopWritten ==
    ASSUME NEW t, Written(t)
    PROVE  Written(popFrame(t))
<1>1. CASE t.closed \/ ~CanPop(t.buffer)
  BY <1>1, Zenon DEF popFrame
<1>2. CASE ~(t.closed \/ ~CanPop(t.buffer))
  <2>1. DOMAIN t = Fields /\ t.buffer \in Seq(Nat) /\ CanPop(t.buffer)
    BY <1>2, Zenon DEF Written
  <2>2. PICK p, u : p = tryPop(t.buffer) /\ u = [t EXCEPT !.buffer = p.rest]
    OBVIOUS
  <2>3. p.rest \in Seq(Nat) /\ p.frame.data \in Seq(Nat) /\ p.frame.header.streamId \in Nat
    BY <2>1, <2>2, PopTyped, Zenon
  <2>4. /\ DOMAIN u = Fields /\ u.buffer = p.rest /\ u.outbound = t.outbound
        /\ u.queued = t.queued /\ u.sent = t.sent /\ u.blocked = t.blocked
        /\ u.started = t.started /\ u.healthy = t.healthy /\ u.closed = t.closed
    BY <2>1, <2>2 DEF Fields
  <2>5. Written(u)
    <3>1. Healthy(u) => Healthy(t)
      BY <2>4, Zenon DEF Healthy
    <3> QED
      BY <2>3, <2>4, <3>1, SameWritten, Zenon
  <2>6. Written(receiveFrame(u, p.frame))
    BY <2>3, <2>5, ReceiveFrameWritten, Zenon
  <2>7. popFrame(t) = receiveFrame(u, p.frame)
    BY <1>2, <2>2, Zenon DEF popFrame
  <2> QED
    BY <2>6, <2>7, Zenon
<1> QED
  BY <1>1, <1>2

\* The octets of one read may queue answers.
LEMMA ReceiveWritten ==
    ASSUME NEW t, NEW bytes \in Seq(Nat), Written(t)
    PROVE  Written(receiveBytes(t, bytes))
<1>1. CASE t.closed
  BY <1>1, Zenon DEF receiveBytes
<1>2. CASE ~t.closed
  <2>1. DOMAIN t = Fields /\ t.buffer \in Seq(Nat)
    BY Zenon DEF Written
  <2>2. PICK u : u = [t EXCEPT !.buffer = @ \o bytes]
    OBVIOUS
  <2>3. PICK b \in Seq(Nat) : b = t.buffer \o bytes
    <3>1. t.buffer \o bytes \in Seq(Nat)
      BY <2>1, Joined DEF IsJoin
    <3> QED
      BY <3>1
  <2>4. /\ DOMAIN u = Fields /\ u.buffer = b /\ u.outbound = t.outbound
        /\ u.queued = t.queued /\ u.sent = t.sent /\ u.blocked = t.blocked
        /\ u.started = t.started /\ u.healthy = t.healthy /\ u.closed = t.closed
    BY <2>1, <2>2, <2>3 DEF Fields
  <2>5. Written(u)
    <3>1. Healthy(u) => Healthy(t)
      BY <2>4, Zenon DEF Healthy
    <3> QED
      BY <2>3, <2>4, <3>1, SameWritten, Zenon
  <2>n. PICK n \in Nat : n = Len(u.buffer) \div encodedSize
    <3>1. PICK l \in Nat : l = Len(b)
      OBVIOUS
    <3>2. PICK m \in Nat : m = l \div 9
      <4>1. l \div 9 \in Nat
        OBVIOUS
      <4> QED
        BY <4>1
    <3>3. Len(u.buffer) \div encodedSize = m
      BY <2>4, <3>1, <3>2 DEF encodedSize
    <3> QED
      BY <3>3
  <2>6. PICK q : q = [i \in 1 .. Len(u.buffer) \div encodedSize |-> i] /\ Len(q) = n
    <3>1. Len([i \in 1 .. n |-> i]) = n
      OBVIOUS
    <3>2. Len([i \in 1 .. Len(u.buffer) \div encodedSize |-> i]) = n
      BY <2>n, <3>1, Zenon
    <3> QED
      BY <3>2
  <2>7. PICK f : PopSteps(f, u, n) /\ PopAll(u, q) = f[n]
    <3>1. Len(q) = n
      BY <2>6, Zenon
    <3> QED
      BY <3>1, PopRun, Zenon
  <2>8. f[0] = u /\ \A i \in 1 .. n : f[i] = popFrame(f[i - 1])
    BY <2>7, Zenon DEF PopSteps
  <2> DEFINE R == {m \in 0 .. n : Written(f[m])}
  <2>9. 0 \in R
    BY <2>5, <2>8
  <2>10. ASSUME NEW m \in 0 .. n, m # n, m \in R PROVE m + 1 \in R
    <3>1. m + 1 \in 1 .. n /\ m + 1 \in 0 .. n /\ (m + 1) - 1 = m
      BY <2>10
    <3>2. f[m + 1] = popFrame(f[m])
      BY <2>8, <3>1
    <3>3. Written(f[m + 1])
      BY <2>10, <3>2, PopWritten
    <3> QED
      BY <3>1, <3>3
  <2>11. Written(f[n])
    <3> HIDE DEF R
    <3>1. \A m \in 0 .. n : m \in R
      BY <2>9, <2>10, LoopInduction
    <3>2. n \in 0 .. n
      OBVIOUS
    <3> QED
      BY <3>1, <3>2 DEF R
  <2>12. receiveBytes(t, bytes) = f[n]
    BY <1>2, <2>2, <2>6, <2>7, Zenon DEF receiveBytes, PopAll
  <2> QED
    BY <2>11, <2>12, Zenon
<1> QED
  BY <1>1, <1>2

\* The reads cut what is read at the offsets g.
CutsAt(bytes, n, g) ==
    /\ Len(Reads(bytes)) = n /\ g[0] = 0 /\ g[n] = Len(bytes)
    /\ \A i \in 0 .. n : g[i] \in Nat /\ g[i] =< Len(bytes)
    /\ \A i \in 1 .. n : /\ g[i - 1] =< g[i]
                         /\ Reads(bytes)[i] = SubSeq(bytes, g[i - 1] + 1, g[i])

\* The reads of onReadable cut what is read, with nothing left out or read twice.
LEMMA ReadsCut ==
    ASSUME NEW bytes \in Seq(Nat)
    PROVE  \E n \in Nat : \E g : CutsAt(bytes, n, g)
<1>0. PICK L \in Nat : L = Len(bytes)
  OBVIOUS
<1>1. PICK R \in Nat \ {0} : R = ReadSize /\ L = Len(bytes)
  BY <1>0, WireAssumption, Zenon
<1>2. PICK n \in Nat, c \in 0 .. (R - 1) : n = (L + R - 1) \div R /\ (L + R) - 1 = (R * n) + c
  <2>1. PICK v \in Nat : v = L + R - 1 /\ v = (L + R) - 1
    OBVIOUS
  <2>2. v = (R * (v \div R)) + (v % R) /\ v % R \in 0 .. (R - 1) /\ v \div R \in Nat
    BY DivMod
  <2> QED
    BY <2>1, <2>2
<1> DEFINE g == [i \in 0 .. n |-> IF i * R < L THEN i * R ELSE L]
<1>3. \A i \in 0 .. n : g[i] = (IF i * R < L THEN i * R ELSE L)
  OBVIOUS
<1> HIDE DEF g
<1>4. R * 0 = 0 /\ 0 * R = 0 /\ 0 \in 0 .. n /\ n \in 0 .. n
  OBVIOUS
<1>5. g[0] = 0
  BY <1>3, <1>4
<1>6. g[n] = L
  <2>1. PICK a \in Nat : a = R * n /\ a = n * R
    BY Times
  <2>2. ~(a < L)
    BY <1>2, <2>1
  <2> QED
    BY <1>3, <1>4, <2>1, <2>2
<1>7. ASSUME NEW i \in 0 .. n PROVE g[i] \in Nat /\ g[i] =< L
  <2>1. PICK a \in Nat : a = i * R
    BY Times
  <2> QED
    BY <1>3, <2>1
<1>8. ASSUME NEW i \in 1 .. n
      PROVE  g[i - 1] = (i - 1) * R /\ g[i - 1] =< g[i]
  <2>1. PICK k \in Nat : i = k + 1 /\ i - 1 = k /\ k \in 0 .. n /\ i \in 0 .. n
    BY <1>8
  <2>2. PICK a \in Nat, b \in Nat : a = k * R /\ b = i * R /\ a = R * k /\ b = R * i
    BY <2>1, Times
  <2>3. b = a + R
    BY <2>1, <2>2
  <2>4. PICK d \in Nat : d = R * n
    BY Times
  <2>5. b =< d
    <3>1. PICK e \in Nat : e = n - i
      BY <1>8
    <3>2. R * e \in Nat /\ R * n = (R * i) + (R * e)
      <4>1. PICK x \in Nat : x = R * e
        OBVIOUS
      <4>2. R * (n - i) = (R * n) - (R * i)
        BY Times
      <4>3. x = d - b
        BY <2>2, <2>4, <3>1, <4>1, <4>2
      <4>4. d = b + x
        BY <4>3
      <4> QED
        BY <2>2, <2>4, <4>1, <4>4
    <3>3. PICK x \in Nat : x = R * e
      BY <3>2
    <3> QED
      BY <2>2, <2>4, <3>2, <3>3
  <2>6. a < L
    BY <1>2, <2>3, <2>4, <2>5
  <2>7. g[k] = a
    BY <1>3, <2>1, <2>2, <2>6
  <2>8. g[i] = (IF b < L THEN b ELSE L)
    BY <1>3, <2>1, <2>2
  <2> QED
    BY <2>1, <2>2, <2>3, <2>6, <2>7, <2>8
<1>9. Reads(bytes) = [i \in 1 .. n |-> SubSeq(bytes, ((i - 1) * R) + 1, IF i * R < L THEN i * R ELSE L)]
  BY <1>1, <1>2, Zenon DEF Reads
<1>10. Len(Reads(bytes)) = n
  <2>1. \A h : Len([i \in 1 .. n |-> h[i]]) = n
    OBVIOUS
  <2> DEFINE h == [i \in 1 .. n |-> SubSeq(bytes, ((i - 1) * R) + 1, IF i * R < L THEN i * R ELSE L)]
  <2>2. h = [i \in 1 .. n |-> h[i]]
    OBVIOUS
  <2>3. Reads(bytes) = h
    BY <1>9, Zenon
  <2> HIDE DEF h
  <2> QED
    BY <2>1, <2>2, <2>3, Zenon
<1>11. ASSUME NEW i \in 1 .. n PROVE Reads(bytes)[i] = SubSeq(bytes, g[i - 1] + 1, g[i])
  <2>1. Reads(bytes)[i] = SubSeq(bytes, ((i - 1) * R) + 1, IF i * R < L THEN i * R ELSE L)
    BY <1>9, Zenon
  <2>2. i \in 0 .. n
    OBVIOUS
  <2> QED
    BY <1>3, <1>8, <2>1, <2>2, Zenon
<1>12. g[n] = Len(bytes) /\ \A i \in 0 .. n : g[i] \in Nat /\ g[i] =< Len(bytes)
  BY <1>0, <1>6, <1>7
<1>13. CutsAt(bytes, n, g)
  BY <1>5, <1>8, <1>10, <1>11, <1>12, Zenon DEF CutsAt
<1> QED
  BY <1>13, Zenon

\* A session found dead is no longer healthy: nothing is asked of what is pending.
LEMMA TranslateWritten ==
    ASSUME NEW t, Written(t)
    PROVE  Written(translateEvents(t))
<1>1. PICK u : u = [t EXCEPT !.healthy = FALSE, !.events = {"SESSION_DEAD"}]
  OBVIOUS
<1>2. DOMAIN t = Fields /\ t.buffer \in Seq(Nat)
  BY Zenon DEF Written
<1>3. /\ DOMAIN u = Fields /\ u.buffer = t.buffer /\ u.outbound = t.outbound /\ ~u.healthy
      /\ u.queued = t.queued /\ u.sent = t.sent /\ u.blocked = t.blocked
  BY <1>1, <1>2 DEF Fields
<1>4. Written(u)
  <2>1. ~Healthy(u)
    BY <1>3, Zenon DEF Healthy
  <2> QED
    BY <1>2, <1>3, <2>1, SameWritten, Zenon
<1> QED
  BY <1>1, <1>4, Zenon DEF translateEvents

\* A transport failure drops what is pending, and with it what is blocked.
LEMMA FailureWritten ==
    ASSUME NEW t, Written(t)
    PROVE  Written(handleTransportFailure(t))
<1>1. DOMAIN t = Fields /\ t.buffer \in Seq(Nat)
  BY Zenon DEF Written
<1>2. CASE ~t.healthy
  <2>1. PICK u : u = [t EXCEPT !.events = {}]
    OBVIOUS
  <2>2. /\ DOMAIN u = Fields /\ u.buffer = t.buffer /\ u.outbound = t.outbound
        /\ u.queued = t.queued /\ u.sent = t.sent /\ u.blocked = t.blocked
        /\ u.healthy = t.healthy
    BY <1>1, <2>1 DEF Fields
  <2>3. ~Healthy(u)
    BY <1>2, <2>2, Zenon DEF Healthy
  <2>4. Written(u)
    BY <1>1, <2>2, <2>3, SameWritten, Zenon
  <2> QED
    BY <1>2, <2>1, <2>4, Zenon DEF handleTransportFailure
<1>3. CASE t.healthy
  <2>1. PICK u : u = [t EXCEPT !.healthy = FALSE, !.closed = TRUE, !.outbound = <<>>,
                               !.blocked = <<>>, !.ready = FALSE, !.events = {"SESSION_DEAD"}]
    OBVIOUS
  <2>2. /\ DOMAIN u = Fields /\ u.buffer = t.buffer /\ u.outbound = <<>>
        /\ u.queued = t.queued /\ u.sent = t.sent /\ u.blocked = <<>> /\ ~u.healthy
    BY <1>1, <2>1 DEF Fields
  <2>3. ~Healthy(u)
    BY <2>2, Zenon DEF Healthy
  <2>4. <<>> \in Seq(Chunks)
    OBVIOUS
  <2>5. Written(u)
    BY <2>2, <2>3, <2>4, Zenon DEF Written
  <2> QED
    BY <1>3, <2>1, <2>5, Zenon DEF handleTransportFailure
<1> QED
  BY <1>2, <1>3

\* All the reads of one event
LEMMA OnReadableWritten ==
    ASSUME NEW t, NEW bytes \in Seq(Nat), NEW end, Written(t)
    PROVE  Written(onReadable(t, bytes, end))
<1>1. CASE ~Healthy(t)
  BY <1>1, Zenon DEF onReadable
<1>2. CASE Healthy(t)
  <2>g. PICK g : \E n \in Nat : CutsAt(bytes, n, g)
    BY ReadsCut, Zenon
  <2>1. PICK n \in Nat : CutsAt(bytes, n, g)
    BY <2>g
  <2>2. PICK q : q = Reads(bytes)
    OBVIOUS
  <2>3. Len(q) = n
    BY <2>1, <2>2, Zenon DEF CutsAt
  <2>4. ASSUME NEW i \in 1 .. n PROVE q[i] \in Seq(Nat)
    <3>1. i - 1 \in 0 .. n /\ i \in 0 .. n
      OBVIOUS
    <3>2. PICK m \in Nat, k \in Nat : m = g[i - 1] /\ k = g[i] /\ m =< k /\ k =< Len(bytes)
      BY <2>1, <3>1, Zenon DEF CutsAt
    <3>3. q[i] = SubSeq(bytes, m + 1, k)
      BY <2>1, <2>2, <3>2, Zenon DEF CutsAt
    <3>4. IsPart(SubSeq(bytes, m + 1, k), bytes, m, k - m)
      BY <3>2, Cut
    <3> QED
      BY <3>3, <3>4, Zenon DEF IsPart
  <2>5. PICK f : ReceiveSteps(f, t, q, n) /\ ReceiveAll(t, q) = f[n]
    BY <2>3, ReceiveRun, Zenon
  <2>6. f[0] = t /\ \A i \in 1 .. n : f[i] = translateEvents(receiveBytes(f[i - 1], q[i]))
    BY <2>5, Zenon DEF ReceiveSteps
  <2> DEFINE R == {m \in 0 .. n : Written(f[m])}
  <2>7. 0 \in R
    BY <2>6
  <2>8. ASSUME NEW m \in 0 .. n, m # n, m \in R PROVE m + 1 \in R
    <3>1. m + 1 \in 1 .. n /\ m + 1 \in 0 .. n /\ (m + 1) - 1 = m
      BY <2>8
    <3>v. PICK v : v = f[m]
      OBVIOUS
    <3>2. PICK b \in Seq(Nat) : b = q[m + 1] /\ v = f[m] /\ Written(v)
      BY <2>4, <2>8, <3>1, <3>v
    <3>3. f[m + 1] = translateEvents(receiveBytes(v, b))
      BY <2>6, <3>1, <3>2
    <3>4. Written(translateEvents(receiveBytes(v, b)))
      BY <3>2, ReceiveWritten, TranslateWritten, Zenon
    <3> QED
      BY <3>1, <3>3, <3>4
  <2>9. PICK u : u = f[n] /\ Written(u)
    <3> HIDE DEF R
    <3>1. \A m \in 0 .. n : m \in R
      BY <2>7, <2>8, LoopInduction
    <3>2. n \in 0 .. n
      OBVIOUS
    <3> QED
      BY <3>1, <3>2 DEF R
  <2>10. onReadable(t, bytes, end) = (IF end = "WOULD_BLOCK" THEN u ELSE handleTransportFailure(u))
    BY <1>2, <2>2, <2>5, <2>9, Zenon DEF onReadable, ReceiveAll
  <2>11. Written(handleTransportFailure(u))
    BY <2>9, FailureWritten, Zenon
  <2> QED
    BY <2>9, <2>10, <2>11, Zenon
<1> QED
  BY <1>1, <1>2

\* What the transport takes moves from the pending octets to the ones sent.
LEMMA OnWritableWritten ==
    ASSUME NEW t, NEW n, NEW end, Written(t),
           end = "WOULD_BLOCK" => n \in 0 .. Len(Pending(t))
    PROVE  Written(onWritable(t, n, end))
<1>1. DOMAIN t = Fields /\ t.buffer \in Seq(Nat) /\ t.sent \in Seq(Nat) /\ t.queued \in Seq(Nat)
  BY Zenon DEF Written
<1>2. CASE ~Healthy(t)
  BY <1>2, Zenon DEF onWritable
<1>3. CASE Healthy(t) /\ end # "WOULD_BLOCK"
  <2>1. PICK u, v : u = handleTransportFailure(t) /\ v = [u EXCEPT !.events = {}]
    OBVIOUS
  <2>2. Written(u)
    BY <2>1, FailureWritten, Zenon
  <2>3. DOMAIN u = Fields /\ u.buffer \in Seq(Nat)
    BY <2>2, Zenon DEF Written
  <2>4. /\ DOMAIN v = Fields /\ v.buffer = u.buffer /\ v.outbound = u.outbound
        /\ v.queued = u.queued /\ v.sent = u.sent /\ v.blocked = u.blocked
        /\ v.started = u.started /\ v.healthy = u.healthy /\ v.closed = u.closed
    BY <2>1, <2>3 DEF Fields
  <2>5. Written(v)
    <3>1. Healthy(v) => Healthy(u)
      BY <2>4, Zenon DEF Healthy
    <3> QED
      BY <2>2, <2>3, <2>4, <3>1, SameWritten, Zenon
  <2> QED
    BY <1>3, <2>1, <2>5, Zenon DEF onWritable
<1>4. CASE Healthy(t) /\ end = "WOULD_BLOCK"
  <2>q. PICK q \in Seq(Chunks) : q = t.outbound
    BY Zenon DEF Written
  <2>1. PICK x : q = t.outbound /\ x = Unsent(q)
    BY <2>q
  <2>2. Pending(t) = x
    BY <2>1, Zenon DEF Pending, Unsent
  <2>3. x \in Seq(Nat)
    <3>1. PICK f : (\A i \in 0 .. Len(q) : f[i] \in Seq(Nat)) /\ Unsent(q) = f[Len(q)]
      BY UnsentOf, Zenon
    <3>2. Len(q) \in 0 .. Len(q)
      OBVIOUS
    <3> QED
      BY <2>1, <3>1, <3>2, Zenon
  <2>4. PICK m \in Nat : m = n /\ m =< Len(x)
    BY <1>4, <2>2, <2>3
  <2>5. PICK r, y, z : r = advance(q, m) /\ y = SubSeq(x, 1, m) /\ z = SubSeq(x, m + 1, Len(x))
    OBVIOUS
  <2>6. r \in Seq(Chunks) /\ Unsent(r) = z
    BY <2>1, <2>4, <2>5, Advanced, Zenon
  <2>7. y \o z = x /\ y \in Seq(Nat) /\ z \in Seq(Nat)
    <3>1. /\ IsPart(SubSeq(x, 1, m), x, 0, m) /\ IsPart(SubSeq(x, m + 1, Len(x)), x, m, Len(x) - m)
          /\ SubSeq(x, 1, m) \o SubSeq(x, m + 1, Len(x)) = x
      BY <2>3, <2>4, CutInTwo
    <3> QED
      BY <2>5, <3>1, Zenon DEF IsPart
  <2>8. PICK b : b = (IF r = <<>> THEN <<>> ELSE Remaining(Head(r)))
    OBVIOUS
  <2>9. PICK u : u = [t EXCEPT !.outbound = r, !.sent = @ \o y, !.blocked = b]
    OBVIOUS
  <2>10. /\ DOMAIN u = Fields /\ u.buffer = t.buffer /\ u.outbound = r /\ u.queued = t.queued
         /\ u.sent = t.sent \o y /\ u.blocked = b
    BY <1>1, <2>9 DEF Fields
  <2>11. onWritable(t, n, end) = u
    BY <1>4, <2>1, <2>2, <2>4, <2>5, <2>8, <2>9, Zenon DEF onWritable
  <2>12. t.sent \o x = t.queued
    BY <1>4, <2>1, Zenon DEF Written
  <2>13. PICK a \in Seq(Nat) : a = t.sent \o y
    <3>1. t.sent \o y \in Seq(Nat)
      BY <1>1, <2>7, Joined DEF IsJoin
    <3> QED
      BY <3>1
  <2>14. a \o z = t.queued
    <3>0. t.sent \in Seq(Nat) /\ y \in Seq(Nat) /\ z \in Seq(Nat)
      BY <1>1, <2>7, Zenon
    <3>1. JoinsAgree(t.sent, y, z)
      BY <3>0, JoinsAlways, Zenon
    <3> QED
      BY <2>7, <2>12, <2>13, <3>1, Zenon DEF JoinsAgree
  <2>15. u.sent = a /\ u.sent \o Unsent(u.outbound) = u.queued
    BY <2>6, <2>10, <2>13, <2>14, Zenon
  <2>16. \E d \in Seq(Nat) : u.queued = u.sent \o d
    BY <2>7, <2>10, <2>13, <2>14, Zenon
  <2>17. u.blocked # <<>> => u.outbound # <<>> /\ u.blocked = Remaining(Head(u.outbound))
    BY <2>8, <2>10
  <2>18. Written(u)
    BY <1>1, <2>6, <2>10, <2>13, <2>15, <2>16, <2>17, Zenon DEF Written
  <2> QED
    BY <2>11, <2>18, Zenon
<1> QED
  BY <1>2, <1>3, <1>4

\* What Connection does about the events and the interest in EPOLLOUT does not touch
\* the output.
LEMMA EventsWritten ==
    ASSUME NEW t, Written(t)
    PROVE  Written(processSessionEvents(t)) /\ Written(updateWriteInterest(t))
<1>1. DOMAIN t = Fields /\ t.buffer \in Seq(Nat)
  BY Zenon DEF Written
<1>2. PICK u, v : /\ u = [t EXCEPT !.events = {}, !.connected = FALSE, !.registered = FALSE,
                                   !.writeEnabled = FALSE]
                  /\ v = [t EXCEPT !.writeEnabled = t.outbound # <<>>]
  OBVIOUS
<1>3. /\ DOMAIN u = Fields /\ u.buffer = t.buffer /\ u.outbound = t.outbound
      /\ u.queued = t.queued /\ u.sent = t.sent /\ u.blocked = t.blocked
      /\ u.started = t.started /\ u.healthy = t.healthy /\ u.closed = t.closed
  BY <1>1, <1>2 DEF Fields
<1>4. /\ DOMAIN v = Fields /\ v.buffer = t.buffer /\ v.outbound = t.outbound
      /\ v.queued = t.queued /\ v.sent = t.sent /\ v.blocked = t.blocked
      /\ v.started = t.started /\ v.healthy = t.healthy /\ v.closed = t.closed
  BY <1>1, <1>2 DEF Fields
<1>5. (Healthy(u) => Healthy(t)) /\ (Healthy(v) => Healthy(t))
  BY <1>3, <1>4, Zenon DEF Healthy
<1>6. Written(u)
  BY <1>1, <1>3, <1>5, SameWritten, Zenon
<1>7. Written(v)
  BY <1>1, <1>4, <1>5, SameWritten, Zenon
<1> QED
  BY <1>2, <1>6, <1>7, Zenon DEF processSessionEvents, updateWriteInterest

\* The handlers of a session, whole
LEMMA OnSessionWritten ==
    ASSUME NEW t, Written(t)
    PROVE  /\ \A bytes \in Seq(Nat) : \A end : Written(onSessionReadable(t, bytes, end))
           /\ \A n, end : (end = "WOULD_BLOCK" => n \in 0 .. Len(Pending(t)))
                              => Written(onSessionWritable(t, n, end))
<1>1. ASSUME NEW bytes \in Seq(Nat), NEW end PROVE Written(onSessionReadable(t, bytes, end))
  BY OnReadableWritten, EventsWritten, Zenon DEF onSessionReadable
<1>2. ASSUME NEW n, NEW end, end = "WOULD_BLOCK" => n \in 0 .. Len(Pending(t))
      PROVE  Written(onSessionWritable(t, n, end))
  BY <1>2, OnWritableWritten, EventsWritten, Zenon DEF onSessionWritable
<1> QED
  BY <1>1, <1>2, Zenon

\* One sequence more in front
LEMMA ConcatCons ==
    ASSUME NEW n \in Nat, NEW q, Len(q) = n + 1, \A i \in 1 .. (n + 1) : q[i] \in Seq(Nat),
           NEW p, Len(p) = n, \A i \in 1 .. n : p[i] = q[i + 1]
    PROVE  Concat(q) = q[1] \o Concat(p) /\ Concat(p) \in Seq(Nat)
<1>0. /\ \A i \in 1 .. n : i + 1 \in 1 .. (n + 1)
      /\ n \in 0 .. n /\ n + 1 \in Nat /\ 1 \in 1 .. (n + 1) /\ n + 1 \in 0 .. (n + 1)
  OBVIOUS
<1>1. \A i \in 1 .. n : p[i] \in Seq(Nat)
  BY <1>0, Zenon
<1>2. PICK f : Fronts(f, p, n)
  BY <1>1, ConcatOf, Zenon
<1>3. /\ f[0] = <<>> /\ \A i \in 0 .. n : f[i] \in Seq(Nat)
      /\ \A i \in 1 .. n : f[i] = f[i - 1] \o p[i]
      /\ Concat(p) = f[n]
  BY <1>0, <1>2, Zenon DEF Fronts
<1> DEFINE g == [i \in 0 .. (n + 1) |-> IF i = 0 THEN <<>> ELSE q[1] \o f[i - 1]]
<1>4. g[0] = <<>> /\ \A i \in 1 .. (n + 1) : g[i] = q[1] \o f[i - 1]
  <2>1. 0 \in 0 .. (n + 1) /\ \A i \in 1 .. (n + 1) : i \in 0 .. (n + 1) /\ i # 0
    OBVIOUS
  <2> QED
    BY <2>1, Zenon
<1> HIDE DEF g
<1>5. ASSUME NEW i \in 1 .. (n + 1) PROVE g[i] = g[i - 1] \o q[i]
  <2>1. CASE i = 1
    <3>1. g[1] = q[1] \o f[0] /\ f[0] = <<>> /\ q[1] \in Seq(Nat) /\ 1 - 1 = 0
      <4>1. 1 - 1 = 0
        OBVIOUS
      <4> QED
        BY <1>0, <1>3, <1>4, <4>1, Zenon
    <3>2. q[1] \o <<>> = q[1] /\ <<>> \o q[1] = q[1]
      BY <3>1, JoinedEmpty, Zenon
    <3> QED
      BY <1>4, <2>1, <3>1, <3>2, Zenon
  <2>2. CASE i # 1
    <3>1. PICK k \in 1 .. n : k = i - 1 /\ i = k + 1 /\ k - 1 \in 0 .. n /\ k \in 1 .. (n + 1)
      BY <2>2
    <3>2. PICK a \in Seq(Nat), b \in Seq(Nat), c \in Seq(Nat) : a = q[1] /\ b = f[k - 1] /\ c = p[k]
      BY <1>0, <1>1, <1>3, <3>1, Zenon
    <3>3. g[i] = a \o f[k] /\ f[k] = b \o c /\ g[i - 1] = a \o b /\ q[i] = c
      BY <1>3, <1>4, <3>1, <3>2, Zenon
    <3>4. (a \o b) \o c = a \o (b \o c)
      BY JoinedThree, Zenon
    <3> QED
      BY <3>3, <3>4, Zenon
  <2> QED
    BY <2>1, <2>2
<1>6. ConcatSteps(g, q, n + 1)
  BY <1>4, <1>5, Zenon DEF ConcatSteps
<1>7. Concat(q) = g[n + 1]
  BY <1>0, <1>6, ConcatIs, Zenon
<1>8. g[n + 1] = q[1] \o f[n]
  <2>1. (n + 1) - 1 = n /\ n + 1 \in 1 .. (n + 1)
    OBVIOUS
  <2> QED
    BY <1>4, <2>1, Zenon
<1> QED
  BY <1>0, <1>3, <1>7, <1>8, Zenon

\* The octets of the peer's frames
LEMMA SumTyped ==
    ASSUME NEW q \in Seq(Nat)
    PROVE  Sum(q) \in Nat
<1>1. PICK n \in Nat : n = Len(q) /\ n \in 0 .. n /\ \A i \in 1 .. n : q[i] \in Nat
  OBVIOUS
<1>2. PICK f : SumSteps(f, q, n) /\ Sum(q) = f[n]
  <2>1. Len(q) = n
    BY <1>1, Zenon
  <2>2. PICK f : SumSteps(f, q, n)
    BY <2>1, SumRun, Zenon
  <2>3. Sum(q) = f[n]
    BY <2>1, <2>2, SumIs, Zenon
  <2> QED
    BY <2>2, <2>3, Zenon
<1>3. f[0] = 0 /\ \A i \in 1 .. n : f[i] = f[i - 1] + q[i]
  BY <1>2, Zenon DEF SumSteps
<1> DEFINE R == {m \in 0 .. n : f[m] \in Nat}
<1>4. 0 \in R
  BY <1>3
<1>5. ASSUME NEW m \in 0 .. n, m # n, m \in R PROVE m + 1 \in R
  <2>1. PICK j \in 1 .. n : j = m + 1 /\ j - 1 = m /\ j \in 0 .. n
    BY <1>5
  <2>2. PICK a \in Nat, b \in Nat : a = f[j - 1] /\ b = q[j]
    BY <1>1, <1>5, <2>1
  <2>3. f[j] = a + b
    BY <1>3, <2>2, Zenon
  <2> QED
    BY <2>1, <2>3
<1> HIDE DEF R
<1>6. \A m \in 0 .. n : m \in R
  BY <1>4, <1>5, LoopInduction
<1> QED
  BY <1>1, <1>2, <1>6 DEF R

\* The integers of a frame, put together
Ints(f) == Concat([i \in 1 .. Len(f.ints) |-> append(f.ints[i], f.widths[i])])

\* What a frame of the peer consists of
LEMMA FrameParts ==
    ASSUME NEW f \in PeerFrames
    PROVE  /\ f.type \in Nat /\ f.flags \in Nat /\ f.streamId \in 0 .. Power[4] \div 2 - 1
           /\ f.widths \in Seq({1, 2, 4}) /\ f.ints \in Seq(Nat) /\ Len(f.ints) = Len(f.widths)
           /\ f.data \in Seq(Nat) /\ f.r \in {0, 1} /\ f.pad \in Nat /\ f.padding \in Nat
           /\ Sum(f.widths) \in Nat /\ Size(f) \in Nat /\ Size(f) < Power[3]
           /\ Size(f) = Lead(f) + Sum(f.widths) + Len(f.data) + f.padding
           /\ Lead(f) \in {0, 1} /\ (isPadded(f) <=> Lead(f) = 1)
<1>1. Octet \in Nat /\ \A x \in 0 .. Octet - 1 : x \in Nat
  BY FramesAssumption
<1>2. /\ f.type \in 0 .. Octet - 1 /\ f.flags \in 0 .. Octet - 1
      /\ f.streamId \in 0 .. Power[4] \div 2 - 1
      /\ f.widths \in Seq({1, 2, 4}) /\ f.ints \in Seq(Nat) /\ f.data \in Seq(0 .. Octet - 1)
      /\ f.r \in {0, 1} /\ f.pad \in 0 .. Octet - 1 /\ f.padding \in Nat
      /\ Size(f) < Power[3] /\ Len(f.ints) = Len(f.widths)
  BY DEF PeerFrames
<1>3. f.data \in Seq(Nat)
  <2>1. ASSUME NEW q \in Seq(0 .. Octet - 1) PROVE q \in Seq(Nat)
    BY <1>1
  <2> QED
    BY <1>2, <2>1
<1>4. f.widths \in Seq(Nat)
  <2>1. ASSUME NEW q \in Seq({1, 2, 4}) PROVE q \in Seq(Nat)
    OBVIOUS
  <2> QED
    BY <1>2, <2>1
<1>5. Sum(f.widths) \in Nat
  BY <1>4, SumTyped
<1>6. Lead(f) \in {0, 1} /\ (isPadded(f) <=> Lead(f) = 1)
  BY DEF Lead
<1>7. Size(f) = Lead(f) + Sum(f.widths) + Len(f.data) + f.padding
  BY DEF Size
<1>8. Size(f) \in Nat
  <2>1. PICK a \in Nat, b \in Nat, c \in Nat, d \in Nat :
           a = Lead(f) /\ b = Sum(f.widths) /\ c = Len(f.data) /\ d = f.padding
    BY <1>2, <1>3, <1>5, <1>6
  <2>2. Size(f) = a + b + c + d
    BY <1>7, <2>1, Zenon
  <2> QED
    BY <2>2
<1> QED
  BY <1>1, <1>2, <1>3, <1>5, <1>6, <1>7, <1>8

\* The octets of a frame's payload are as many as its size says.
LEMMA BodyTyped ==
    ASSUME NEW f \in PeerFrames
    PROVE  /\ Ints(f) \in Seq(Nat) /\ Len(Ints(f)) = Sum(f.widths)
           /\ Body(f) \in Seq(Nat) /\ Len(Body(f)) = Size(f)
           /\ Body(f) = (((IF isPadded(f) THEN <<f.pad>> ELSE <<>>) \o Ints(f)) \o f.data)
                        \o [i \in 1 .. f.padding |-> 0]
<1>1. PICK n \in Nat : n = Len(f.ints) /\ n = Len(f.widths) /\ n \in 0 .. n
  BY FrameParts
<1>2. \A i \in 1 .. n : f.ints[i] \in Nat /\ f.widths[i] \in 1 .. 4
  <2>1. f.ints \in Seq(Nat) /\ f.widths \in Seq({1, 2, 4})
    BY FrameParts, Zenon
  <2>2. PICK x \in Seq(Nat), y \in Seq({1, 2, 4}) : /\ x = f.ints /\ y = f.widths
                                                   /\ Len(x) = n /\ Len(y) = n
    BY <1>1, <2>1
  <2>3. \A i \in 1 .. n : x[i] \in Nat /\ y[i] \in {1, 2, 4}
    BY <2>2
  <2>4. \A i \in {1, 2, 4} : i \in 1 .. 4
    OBVIOUS
  <2> QED
    BY <2>2, <2>3, <2>4, Zenon
<1> DEFINE q == [i \in 1 .. n |-> append(f.ints[i], f.widths[i])]
<1>3. Len(q) = n /\ \A i \in 1 .. n : q[i] = append(f.ints[i], f.widths[i])
  OBVIOUS
<1>4. Ints(f) = Concat(q)
  BY <1>1, Zenon DEF Ints
<1> HIDE DEF q
<1>5. ASSUME NEW i \in 1 .. n PROVE q[i] \in Seq(Nat) /\ Len(q[i]) = f.widths[i]
  <2>1. PICK v \in Nat, w \in 1 .. 4 : v = f.ints[i] /\ w = f.widths[i]
    BY <1>2, Zenon
  <2>2. append(v, w) \in Seq(Nat) /\ Len(append(v, w)) = w
    BY Appended, Zenon
  <2> QED
    BY <1>3, <2>1, <2>2, Zenon
<1>6. PICK g : Fronts(g, q, n)
  BY <1>5, ConcatOf, Zenon
<1>7. Ints(f) \in Seq(Nat) /\ Len(Ints(f)) = Sum(f.widths)
  <2>1. Concat(q) = g[n] /\ g[n] \in Seq(Nat)
    BY <1>1, <1>3, <1>6, Zenon DEF Fronts
  <2>2. Sum(f.widths) = Len(g[n])
    BY <1>1, <1>5, <1>6, Zenon DEF Fronts
  <2> QED
    BY <1>4, <2>1, <2>2, Zenon
<1>8. PICK a, b, c, d : /\ a = (IF isPadded(f) THEN <<f.pad>> ELSE <<>>) /\ b = Ints(f)
                        /\ c = f.data /\ d = [i \in 1 .. f.padding |-> 0]
  OBVIOUS
<1>9. a \in Seq(Nat) /\ Len(a) = Lead(f)
  <2>1. f.pad \in Nat
    BY FrameParts, Zenon
  <2>2. <<f.pad>> \in Seq(Nat) /\ Len(<<f.pad>>) = 1 /\ <<>> \in Seq(Nat) /\ Len(<<>>) = 0
    BY <2>1
  <2>3. CASE isPadded(f)
    <3>1. a = <<f.pad>> /\ Lead(f) = 1
      BY <1>8, <2>3, Zenon DEF Lead
    <3> QED
      BY <2>2, <3>1, Zenon
  <2>4. CASE ~isPadded(f)
    <3>1. a = <<>> /\ Lead(f) = 0
      BY <1>8, <2>4, Zenon DEF Lead
    <3> QED
      BY <2>2, <3>1, Zenon
  <2> QED
    BY <2>3, <2>4, Zenon
<1>10. d \in Seq(Nat) /\ Len(d) = f.padding
  <2>1. PICK m \in Nat : m = f.padding
    BY FrameParts
  <2>2. [i \in 1 .. m |-> 0] \in Seq(Nat) /\ Len([i \in 1 .. m |-> 0]) = m
    OBVIOUS
  <2> QED
    BY <1>8, <2>1, <2>2, Zenon
<1>11. b \in Seq(Nat) /\ c \in Seq(Nat) /\ Len(b) = Sum(f.widths)
  BY <1>7, <1>8, FrameParts, Zenon
<1>12. PICK x, y, z : x = a \o b /\ y = x \o c /\ z = y \o d
  OBVIOUS
<1>13. IsJoin(x, a, b, Len(a), Len(b))
  BY <1>9, <1>11, <1>12, Joined, Zenon
<1>14. IsJoin(y, x, c, Len(x), Len(c))
  <2>1. x \in Seq(Nat)
    BY <1>13, Zenon DEF IsJoin
  <2> QED
    BY <1>11, <1>12, <2>1, Joined, Zenon
<1>15. IsJoin(z, y, d, Len(y), Len(d))
  <2>1. y \in Seq(Nat)
    BY <1>14, Zenon DEF IsJoin
  <2> QED
    BY <1>10, <1>12, <2>1, Joined, Zenon
<1>16. z \in Seq(Nat) /\ Len(z) = ((Len(a) + Len(b)) + Len(c)) + Len(d)
  BY <1>13, <1>14, <1>15, Zenon DEF IsJoin
<1>17. Len(z) = Size(f)
  <2>1. Size(f) = Lead(f) + Sum(f.widths) + Len(f.data) + f.padding
    BY FrameParts, Zenon
  <2>2. Len(z) = ((Lead(f) + Sum(f.widths)) + Len(f.data)) + f.padding
    BY <1>8, <1>9, <1>10, <1>11, <1>16, Zenon
  <2> QED
    BY <2>1, <2>2
<1>18. Body(f) = z
  BY <1>8, <1>12, Zenon DEF Body, Ints
<1> QED
  BY <1>7, <1>8, <1>12, <1>16, <1>17, <1>18, Zenon

\* The header of a frame
Head9(f) == (append(Size(f), 3) \o <<f.type, f.flags>>)
            \o append(f.streamId + f.r * (Power[4] \div 2), 4)

\* With the header in front they are nine more.
LEMMA LayoutTyped ==
    ASSUME NEW f \in PeerFrames
    PROVE  /\ Head9(f) \in Seq(Nat) /\ Len(Head9(f)) = 9
           /\ Layout(f) = Head9(f) \o Body(f) /\ Layout(f) \in Seq(Nat)
           /\ Len(Layout(f)) = 9 + Size(f)
           /\ f.streamId + f.r * (Power[4] \div 2) \in Nat
<1>w. PICK w \in Nat : w = Power[4] \div 2
  BY WorthIs
<1>1. PICK v : w = Power[4] \div 2 /\ v = f.streamId + f.r * w
  BY <1>w
<1>2. v \in Nat
  <2>1. PICK i \in Nat, k \in {0, 1} : i = f.streamId /\ k = f.r
    <3>1. f.streamId \in 0 .. w - 1 /\ f.r \in {0, 1}
      BY <1>1, FrameParts
    <3> QED
      BY <3>1
  <2>2. v = i + k * w
    BY <1>1, <2>1
  <2>3. k * w \in Nat
    OBVIOUS
  <2> QED
    BY <2>2, <2>3
<1>3. PICK a, b, c : a = append(Size(f), 3) /\ b = <<f.type, f.flags>> /\ c = append(v, 4)
  OBVIOUS
<1>4. a \in Seq(Nat) /\ Len(a) = 3 /\ c \in Seq(Nat) /\ Len(c) = 4
  <2>1. 3 \in 1 .. 4 /\ 4 \in 1 .. 4 /\ Size(f) \in Nat
    BY FrameParts
  <2> QED
    BY <1>2, <1>3, <2>1, Appended, Zenon
<1>5. b \in Seq(Nat) /\ Len(b) = 2
  <2>1. f.type \in Nat /\ f.flags \in Nat
    BY FrameParts, Zenon
  <2> QED
    BY <1>3, <2>1
<1>6. PICK x, y, e : x = a \o b /\ y = x \o c /\ e = Body(f)
  OBVIOUS
<1>7. IsJoin(x, a, b, 3, 2)
  BY <1>4, <1>5, <1>6, Joined, Zenon
<1>8. x \in Seq(Nat) /\ Len(x) = 5
  BY <1>7 DEF IsJoin
<1>9. IsJoin(y, x, c, 5, 4)
  BY <1>4, <1>6, <1>8, Joined, Zenon
<1>10. y \in Seq(Nat) /\ Len(y) = 9
  BY <1>9 DEF IsJoin
<1>11. e \in Seq(Nat) /\ Len(e) = Size(f)
  BY <1>6, BodyTyped, Zenon
<1>12. IsJoin(y \o e, y, e, 9, Size(f))
  BY <1>10, <1>11, Joined, Zenon
<1>13. Layout(f) = y \o e /\ Head9(f) = y
  BY <1>1, <1>3, <1>6, Zenon DEF Layout, Head9
<1>14. y \o e \in Seq(Nat) /\ Len(y \o e) = 9 + Size(f)
  BY <1>12, Zenon DEF IsJoin
<1> QED
  BY <1>1, <1>2, <1>6, <1>10, <1>13, <1>14, Zenon

\* The octets of a script from a frame on are that frame's, then the rest's.
LEMMA OctetsStep ==
    ASSUME NEW c \in Scripts, NEW n \in 1 .. Len(c)
    PROVE  /\ c[n] \in PeerFrames
           /\ Octets[c][n] = Layout(c[n]) \o Octets[c][n + 1]
           /\ Octets[c][n] \in Seq(Nat) /\ Octets[c][n + 1] \in Seq(Nat)
<1>1. c \in Seq(PeerFrames)
  BY WireAssumption
<1>2. PICK k \in Nat, m \in Nat : /\ k = Len(c) /\ k + 1 - n = m + 1 /\ k + 1 - (n + 1) = m
                                  /\ n \in 1 .. k /\ n \in 1 .. k + 1 /\ n + 1 \in 1 .. k + 1
  <2>0. Len(c) \in Nat
    BY <1>1
  <2>1. PICK k \in Nat : k = Len(c) /\ n \in 1 .. k
    BY <2>0, Zenon
  <2>2. PICK m \in Nat : m = k - n
    <3>1. k - n \in Nat
      BY <2>1
    <3> QED
      BY <3>1, Zenon
  <2>3. k + 1 - n = m + 1 /\ k + 1 - (n + 1) = m /\ n \in 1 .. k + 1 /\ n + 1 \in 1 .. k + 1
    BY <2>1, <2>2
  <2> QED
    BY <2>1, <2>3, Zenon
<1> DEFINE O == [i \in 1 .. Len(c) + 1 |->
                    Concat([j \in 1 .. Len(c) + 1 - i |-> Layout(c[i - 1 + j])])]
<1>3. Octets[c] = O
  BY Zenon DEF Octets
<1>4. \A i \in 1 .. k + 1 : O[i] = Concat([j \in 1 .. k + 1 - i |-> Layout(c[i - 1 + j])])
  BY <1>2, Zenon
<1> HIDE DEF O
<1> DEFINE q == [j \in 1 .. m + 1 |-> Layout(c[n - 1 + j])]
           p == [j \in 1 .. m |-> Layout(c[(n + 1) - 1 + j])]
<1>5. Octets[c][n] = Concat(q) /\ Octets[c][n + 1] = Concat(p)
  BY <1>2, <1>3, <1>4, Zenon
<1>6. /\ Len(q) = m + 1 /\ \A j \in 1 .. m + 1 : q[j] = Layout(c[n - 1 + j])
      /\ Len(p) = m /\ \A j \in 1 .. m : p[j] = Layout(c[(n + 1) - 1 + j])
  <2>1. \A h, i \in Nat : Len([j \in 1 .. i |-> h[j]]) = i
    OBVIOUS
  <2>2. Len(q) = m + 1
    <3>1. \A j \in 1 .. m + 1 : q[j] = Layout(c[n - 1 + j])
      OBVIOUS
    <3>2. q = [j \in 1 .. m + 1 |-> q[j]]
      OBVIOUS
    <3> HIDE DEF q
    <3>3. m + 1 \in Nat
      OBVIOUS
    <3>4. Len([j \in 1 .. m + 1 |-> q[j]]) = m + 1
      BY <3>3
    <3> QED
      BY <3>2, <3>4
  <2>3. Len(p) = m
    <3>2. p = [j \in 1 .. m |-> p[j]]
      OBVIOUS
    <3> HIDE DEF p
    <3>4. Len([j \in 1 .. m |-> p[j]]) = m
      OBVIOUS
    <3> QED
      BY <3>2, <3>4
  <2> QED
    BY <2>2, <2>3, Zenon
<1> HIDE DEF q, p
<1>7. \A j \in 1 .. m + 1 : q[j] \in Seq(Nat)
  <2>1. ASSUME NEW j \in 1 .. m + 1 PROVE q[j] \in Seq(Nat)
    <3>1. n - 1 + j \in 1 .. k
      BY <1>2
    <3>2. PICK f \in PeerFrames : f = c[n - 1 + j]
      BY <1>1, <1>2, <3>1
    <3> QED
      BY <1>6, <3>2, LayoutTyped, Zenon
  <2> QED
    BY <2>1
<1>8. \A j \in 1 .. m : p[j] = q[j + 1]
  <2>1. ASSUME NEW j \in 1 .. m PROVE p[j] = q[j + 1]
    <3>1. (n + 1) - 1 + j = n - 1 + (j + 1) /\ j + 1 \in 1 .. m + 1
      BY <1>2
    <3> QED
      BY <1>6, <3>1, Zenon
  <2> QED
    BY <2>1
<1>9. Concat(q) = q[1] \o Concat(p) /\ Concat(p) \in Seq(Nat)
  <2>1. Len(q) = m + 1
    BY <1>6, Zenon
  <2>2. Len(p) = m
    BY <1>6, Zenon
  <2> QED
    BY <1>7, <1>8, <2>1, <2>2, ConcatCons, Zenon
<1>10. q[1] = Layout(c[n]) /\ c[n] \in PeerFrames /\ q[1] \in Seq(Nat)
  <2>1. 1 \in 1 .. m + 1 /\ n - 1 + 1 = n /\ n \in 1 .. Len(c)
    BY <1>2
  <2> QED
    BY <1>1, <1>6, <1>7, <2>1
<1>11. Concat(q) \in Seq(Nat)
  <2>1. PICK x \in Seq(Nat), y \in Seq(Nat) : x = q[1] /\ y = Concat(p)
    BY <1>9, <1>10
  <2>2. x \o y \in Seq(Nat)
    BY Joined DEF IsJoin
  <2> QED
    BY <1>9, <2>1, <2>2, Zenon
<1> QED
  BY <1>5, <1>9, <1>10, <1>11, Zenon

\* After the last frame there is nothing.
LEMMA OctetsEnd ==
    ASSUME NEW c \in Scripts
    PROVE  /\ Len(c) \in Nat /\ Octets[c][Len(c) + 1] = <<>>
           /\ \A n \in 1 .. Len(c) + 1 : Octets[c][n] \in Seq(Nat)
<1>1. Len(c) \in Nat
  <2>1. c \in Seq(PeerFrames)
    BY WireAssumption
  <2> QED
    BY <2>1
<1>2. PICK k \in Nat : k = Len(c) /\ k + 1 - (k + 1) = 0 /\ k + 1 \in 1 .. k + 1
  BY <1>1
<1>3. Octets[c][k + 1] = Concat([j \in 1 .. k + 1 - (k + 1) |-> Layout(c[(k + 1) - 1 + j])])
  <2> DEFINE O == [i \in 1 .. Len(c) + 1 |->
                      Concat([j \in 1 .. Len(c) + 1 - i |-> Layout(c[i - 1 + j])])]
  <2>1. Octets[c] = O
    BY Zenon DEF Octets
  <2>2. \A i \in 1 .. k + 1 : O[i] = Concat([j \in 1 .. k + 1 - i |-> Layout(c[i - 1 + j])])
    BY <1>2, Zenon
  <2> HIDE DEF O
  <2> QED
    BY <1>2, <2>1, <2>2, Zenon
<1> DEFINE p == [j \in 1 .. k + 1 - (k + 1) |-> Layout(c[(k + 1) - 1 + j])]
<1>4. Len(p) = 0 /\ 0 \in Nat
  BY <1>2
<1> HIDE DEF p
<1> DEFINE g == [i \in 0 .. 0 |-> <<>>]
<1>5. g[0] = <<>> /\ \A i \in 1 .. 0 : FALSE
  OBVIOUS
<1> HIDE DEF g
<1>6. ConcatSteps(g, p, 0)
  BY <1>5, Zenon DEF ConcatSteps
<1>7. Concat(p) = <<>>
  BY <1>4, <1>5, <1>6, ConcatIs, Zenon
<1>8. Octets[c][k + 1] = <<>>
  BY <1>3, <1>7, Zenon DEF p
<1>9. ASSUME NEW n \in 1 .. k + 1 PROVE Octets[c][n] \in Seq(Nat)
  <2>1. n = k + 1 \/ n \in 1 .. k
    OBVIOUS
  <2>2. <<>> \in Seq(Nat)
    OBVIOUS
  <2> QED
    BY <1>2, <1>8, <2>1, <2>2, OctetsStep, Zenon
<1> QED
  BY <1>1, <1>2, <1>8, <1>9, Zenon

\* What is put together starts with its first part.
LEMMA PrefixOf ==
    ASSUME NEW a \in Seq(Nat), NEW b \in Seq(Nat)
    PROVE  IsPrefix(a, a \o b)
<1>1. PICK c : c = a \o b /\ IsJoin(c, a, b, Len(a), Len(b))
  BY Joined
<1>2. Len(a) =< Len(c)
  BY <1>1 DEF IsJoin
<1>3. SubSeq(a, 1, Len(a)) = a
  OBVIOUS
<1>4. SubSeq(c, 1, Len(a)) = a
  BY <1>1, CutApart, Zenon
<1> QED
  BY <1>1, <1>2, <1>3, <1>4 DEF IsPrefix

\* The inductive invariant of the output
OutInv == Written(s) /\ stream \in Seq(Nat) /\ pings \in Nat /\ script \in Scripts

\* A session starts with its preface and SETTINGS pending.
LEMMA OutInvInit == Init => OutInv
<1> SUFFICES ASSUME Init PROVE OutInv
  OBVIOUS
<1>1. Written(NewSession)
  <2>1. PICK t : t = NewSession
    OBVIOUS
  <2>2. /\ DOMAIN t = Fields /\ t.buffer = <<>> /\ t.outbound = <<>> /\ t.queued = <<>>
        /\ t.sent = <<>> /\ t.blocked = <<>>
    BY <2>1 DEF NewSession, Fields
  <2>3. <<>> \in Seq(Nat) /\ <<>> \in Seq(Chunks) /\ <<>> \o <<>> = <<>>
    OBVIOUS
  <2>4. Unsent(<<>>) = <<>>
    <3>1. PICK f : f[0] = <<>> /\ Unsent(<<>>) = f[Len(<<>>)]
      BY <2>3, UnsentOf, Zenon
    <3>2. Len(<<>>) = 0
      OBVIOUS
    <3> QED
      BY <3>1, <3>2, Zenon
  <2> QED
    BY <2>1, <2>2, <2>3, <2>4, Zenon DEF Written
<1>2. Written(updateWriteInterest(enqueueOutbound(enqueueOutbound(NewSession, Preface), settingsFrame)))
  BY <1>1, EnqueueWritten, EventsWritten, FramesTyped, Zenon
<1>3. stream \in Seq(Nat)
  <2>1. script \in Scripts /\ stream = Octets[script][1]
    BY Zenon DEF Init
  <2>2. 1 \in 1 .. Len(script) + 1
    BY <2>1, OctetsEnd
  <2> QED
    BY <2>1, <2>2, OctetsEnd, Zenon
<1>4. 0 \in Nat
  OBVIOUS
<1> QED
  BY <1>2, <1>3, <1>4, Zenon DEF Init, OutInv

\* Every action keeps it.
LEMMA OutInvNext == OutInv /\ [Next]_vars => OutInv'
<1> SUFFICES ASSUME OutInv, [Next]_vars PROVE OutInv'
  OBVIOUS
<1>1. Written(s) /\ stream \in Seq(Nat) /\ pings \in Nat /\ script \in Scripts
  BY Zenon DEF OutInv
<1>2. PICK N \in Nat : N = Len(stream)
  BY <1>1
<1>3. \A n \in 0 .. N : SubSeq(stream, 1, n) \in Seq(Nat) /\ SubSeq(stream, n + 1, N) \in Seq(Nat)
  <2>1. ASSUME NEW n \in 0 .. N
        PROVE  SubSeq(stream, 1, n) \in Seq(Nat) /\ SubSeq(stream, n + 1, N) \in Seq(Nat)
    <3>1. n \in Nat /\ n =< N
      OBVIOUS
    <3>2. IsPart(SubSeq(stream, 1, n), stream, 0, n) /\ IsPart(SubSeq(stream, n + 1, N), stream, n, N - n)
      BY <1>1, <1>2, <3>1, CutInTwo
    <3> QED
      BY <3>2, Zenon DEF IsPart
  <2> QED
    BY <2>1
<1>4. ASSUME NEW t, Written(t) PROVE 0 \in 0 .. Len(Pending(t)) /\ Len(Pending(t)) \in 0 .. Len(Pending(t))
  <2>1. PICK q \in Seq(Chunks) : q = t.outbound
    BY <1>4, Zenon DEF Written
  <2>2. Pending(t) = Unsent(q)
    BY <2>1, Zenon DEF Pending, Unsent
  <2>3. Unsent(q) \in Seq(Nat)
    <3>1. PICK f : (\A i \in 0 .. Len(q) : f[i] \in Seq(Nat)) /\ Unsent(q) = f[Len(q)]
      BY UnsentOf, Zenon
    <3>2. Len(q) \in 0 .. Len(q)
      OBVIOUS
    <3> QED
      BY <3>1, <3>2, Zenon
  <2> QED
    BY <2>2, <2>3
<1>5. CASE ReadEvent
  <2>1. PICK n \in 0 .. Len(stream), end \in Ends :
           /\ s' = onSessionReadable(s, SubSeq(stream, 1, n), end)
           /\ stream' = IF Healthy(s) THEN SubSeq(stream, n + 1, Len(stream)) ELSE stream
    BY <1>5, Zenon DEF ReadEvent
  <2>2. Written(s')
    BY <1>1, <1>2, <1>3, <2>1, OnSessionWritten, Zenon
  <2>3. stream' \in Seq(Nat)
    BY <1>1, <1>2, <1>3, <2>1, Zenon
  <2> QED
    BY <1>1, <1>5, <2>2, <2>3, Zenon DEF ReadEvent, OutInv
<1>6. CASE WriteEvent
  <2>1. Written(s')
    <3>1. ASSUME NEW n \in {m \in Takes : m < Len(Pending(s))} \cup {Len(Pending(s))}
          PROVE  n \in 0 .. Len(Pending(s))
      <4>1. n = Len(Pending(s)) \/ (n \in Takes /\ n < Len(Pending(s)))
        BY Zenon
      <4>2. CASE n = Len(Pending(s))
        BY <1>1, <1>4, <4>2, Zenon
      <4>3. CASE n \in Takes /\ n < Len(Pending(s))
        <5>1. n \in Nat /\ Len(Pending(s)) \in 0 .. Len(Pending(s))
          BY <1>1, <1>4, <4>3, WireAssumption
        <5> QED
          BY <4>3, <5>1
      <4> QED
        BY <4>1, <4>2, <4>3
    <3>2. CASE \E n \in {m \in Takes : m < Len(Pending(s))} \cup {Len(Pending(s))} :
                  s' = onSessionWritable(s, n, "WOULD_BLOCK")
      BY <1>1, <3>1, <3>2, OnSessionWritten, Zenon
    <3>3. CASE \E end \in {"CLOSED", "ERR"} : s' = onSessionWritable(s, 0, end)
      <4>1. 0 \in 0 .. Len(Pending(s))
        BY <1>1, <1>4, Zenon
      <4> QED
        BY <1>1, <3>3, <4>1, OnSessionWritten, Zenon
    <3> QED
      BY <1>6, <3>2, <3>3, Zenon DEF WriteEvent
  <2> QED
    BY <1>1, <1>6, <2>1, Zenon DEF WriteEvent, OutInv
<1>7. CASE ReadWriteEvent
  <2>1. PICK end \in Ends : LET t == onSessionReadable(s, stream, end)
                            IN  s' = onSessionWritable(t, Len(Pending(t)), "WOULD_BLOCK")
    BY <1>7, Zenon DEF ReadWriteEvent
  <2>2. PICK t : /\ t = onSessionReadable(s, stream, end)
                 /\ s' = onSessionWritable(t, Len(Pending(t)), "WOULD_BLOCK")
    BY <2>1, Zenon
  <2>3. Written(t)
    BY <1>1, <2>2, OnSessionWritten, Zenon
  <2>4. Written(s')
    BY <1>4, <2>2, <2>3, OnSessionWritten, Zenon
  <2>5. stream' \in Seq(Nat)
    <3>1. <<>> \in Seq(Nat)
      OBVIOUS
    <3> QED
      BY <1>1, <1>7, <3>1, Zenon DEF ReadWriteEvent
  <2> QED
    BY <1>1, <1>7, <2>4, <2>5, Zenon DEF ReadWriteEvent, OutInv
<1>8. CASE submitOnReactor
  <2>1. Written(s')
    BY <1>1, <1>8, EnqueueWritten, EventsWritten, FramesTyped, Zenon DEF submitOnReactor
  <2> QED
    BY <1>1, <1>8, <2>1, Zenon DEF submitOnReactor, OutInv
<1>9. CASE onPingTimer
  <2>1. pings' \in Nat
    BY <1>1, <1>9 DEF onPingTimer
  <2>2. Written(s')
    BY <1>1, <1>9, <2>1, EnqueueWritten, EventsWritten, FramesTyped, Zenon DEF onPingTimer
  <2> QED
    BY <1>1, <1>9, <2>1, <2>2, Zenon DEF onPingTimer, OutInv
<1>10. CASE closeOnReactor
  <2>1. DOMAIN s = Fields /\ s.buffer \in Seq(Nat)
    BY <1>1, Zenon DEF Written
  <2>2. /\ DOMAIN s' = Fields /\ s'.buffer = s.buffer /\ s'.outbound = <<>>
        /\ s'.queued = s.queued /\ s'.sent = s.sent /\ s'.blocked = <<>> /\ ~s'.healthy
    BY <1>10, <2>1 DEF closeOnReactor, Fields
  <2>3. <<>> \in Seq(Chunks)
    OBVIOUS
  <2>4. PICK t, u : t = s /\ u = s'
    OBVIOUS
  <2>5. Written(t) /\ ~Healthy(u)
    BY <1>1, <2>2, <2>4, Zenon DEF Healthy
  <2>6. Written(u)
    BY <2>2, <2>3, <2>4, <2>5, Zenon DEF Written
  <2> QED
    BY <1>1, <1>10, <2>4, <2>6, Zenon DEF closeOnReactor, OutInv
<1>11. CASE UNCHANGED vars
  BY <1>1, <1>11, Zenon DEF vars, OutInv
<1> QED
  BY <1>5, <1>6, <1>7, <1>8, <1>9, <1>10, <1>11, Zenon DEF Next

(* Whatever sizes the octets, the writes and the reads have: what the      *)
(* transport has taken and what is queued are the octets emitted, in       *)
(* order, and a write that would have blocked is repeated with the same    *)
(* octets (enqueueOutbound, onWritable).                                   *)
THEOREM OutputInOrder == Spec => []OctetsInOrder
<1>1. OutInv => OctetsInOrder
  <2> SUFFICES ASSUME OutInv PROVE OctetsInOrder
    OBVIOUS
  <2>1. Written(s)
    BY Zenon DEF OutInv
  <2>2. PICK r \in Seq(Nat) : s.queued = s.sent \o r /\ s.sent \in Seq(Nat)
    BY <2>1, Zenon DEF Written
  <2>3. IsPrefix(s.sent, s.queued)
    BY <2>2, PrefixOf, Zenon
  <2>4. Pending(s) = Unsent(s.outbound)
    BY Zenon DEF Pending, Unsent
  <2> QED
    BY <2>1, <2>3, <2>4, Zenon DEF Written, OctetsInOrder
<1> QED
  BY OutInvInit, OutInvNext, <1>1, PTL DEF Spec

(***************************************************************************)
(* The octets in                                                           *)
(***************************************************************************)

\* The parts of two sequences put together
LEMMA JoinParts ==
    ASSUME NEW a \in Seq(Nat), NEW b \in Seq(Nat)
    PROVE  IsPart(a, a \o b, 0, Len(a)) /\ IsPart(b, a \o b, Len(a), Len(b))
<1>1. PICK c, k, l : c = a \o b /\ k = Len(a) /\ l = Len(b) /\ IsJoin(c, a, b, k, l)
  BY Joined
<1>2. IsPart(a, c, 0, k) /\ IsPart(b, c, k, l)
  BY <1>1 DEF IsJoin, IsPart
<1> QED
  BY <1>1, <1>2

\* A part is what is cut out.
LEMMA CutPart ==
    ASSUME NEW a \in Seq(Nat), NEW b, NEW m, NEW n, IsPart(b, a, m, n), m + n =< Len(a)
    PROVE  SubSeq(a, m + 1, m + n) = b
<1>1. m \in Nat /\ n \in Nat
  BY DEF IsPart
<1>2. PICK e \in Nat : e = m + n /\ m =< e /\ e - m = n /\ e =< Len(a)
  BY <1>1
<1>3. IsPart(SubSeq(a, m + 1, e), a, m, e - m)
  BY <1>1, <1>2, Cut
<1>4. PICK c : c = SubSeq(a, m + 1, e) /\ IsPart(c, a, m, n)
  BY <1>2, <1>3
<1>5. c = b
  BY <1>4, OnePart
<1> QED
  BY <1>2, <1>4, <1>5

\* b is a and e put together.
IsWhole(b, a, e) == b = a \o e

\* Three sequences and their lengths
AreThree(x, k, y, l, z, m) ==
    /\ x \in Seq(Nat) /\ y \in Seq(Nat) /\ z \in Seq(Nat)
    /\ k = Len(x) /\ l = Len(y) /\ m = Len(z)

\* b starts with the three, one after the other.
InThree(b, x, k, y, l, z, m) ==
    /\ IsPart(x, b, 0, k) /\ IsPart(y, b, k, l) /\ IsPart(z, b, k + l, m)
    /\ IsPart((x \o y) \o z, b, 0, (k + l) + m) /\ b \in Seq(Nat)
    /\ Len(b) >= (k + l) + m

\* The parts of three sequences put together, with something after them
LEMMA ThreeParts ==
    ASSUME NEW x, NEW k, NEW y, NEW l, NEW z, NEW m, AreThree(x, k, y, l, z, m),
           NEW e \in Seq(Nat), NEW b, IsWhole(b, (x \o y) \o z, e)
    PROVE  InThree(b, x, k, y, l, z, m)
<1>0. /\ x \in Seq(Nat) /\ y \in Seq(Nat) /\ z \in Seq(Nat)
      /\ k = Len(x) /\ l = Len(y) /\ m = Len(z)
  BY Zenon DEF AreThree
<1>1. PICK d, g, n : /\ d = x \o y /\ g = d \o z /\ n = Len(e)
                     /\ IsJoin(d, x, y, k, l) /\ IsJoin(g, d, z, k + l, m)
                     /\ IsJoin(b, g, e, (k + l) + m, n)
  <2>1. PICK d, i : d = x \o y /\ i = Len(d) /\ IsJoin(d, x, y, k, l)
    BY <1>0, Joined
  <2>2. d \in Seq(Nat) /\ i = k + l
    BY <2>1 DEF IsJoin
  <2>3. PICK g, j : g = d \o z /\ j = Len(g) /\ IsJoin(g, d, z, k + l, m)
    BY <1>0, <2>1, <2>2, Joined
  <2>4. g \in Seq(Nat) /\ j = (k + l) + m
    BY <2>3 DEF IsJoin
  <2>5. IsJoin(b, g, e, (k + l) + m, Len(e))
    <3>1. IsJoin(g \o e, g, e, Len(g), Len(e))
      BY <2>3, <2>4, Joined, Zenon
    <3>2. b = g \o e
      BY <2>1, <2>3, Zenon DEF IsWhole
    <3> QED
      BY <2>3, <2>4, <3>1, <3>2, Zenon
  <2> QED
    BY <2>1, <2>3, <2>5, Zenon
<1>2. k \in Nat /\ l \in Nat /\ m \in Nat /\ n \in Nat /\ b \in Seq(Nat) /\ g \in Seq(Nat)
  BY <1>1, Zenon DEF IsJoin
<1>3. IsPart(g, b, 0, (k + l) + m) /\ Len(b) >= (k + l) + m
  <2>1. PICK o \in Nat : o = (k + l) + m
    BY <1>2
  <2>2. IsJoin(b, g, e, o, n)
    BY <1>1, <2>1
  <2>3. IsPart(g, b, 0, o) /\ Len(b) >= o
    BY <1>2, <2>2 DEF IsPart, IsJoin
  <2> QED
    BY <2>1, <2>3
<1>4. IsPart(z, b, k + l, m)
  <2>1. PICK o \in Nat, p \in Nat : o = k + l /\ p = o + m
    BY <1>2
  <2>2. IsJoin(g, d, z, o, m) /\ IsJoin(b, g, e, p, n)
    BY <1>1, <2>1
  <2>3. \A i \in 1 .. m : z[i] = g[o + i] /\ o + i \in 1 .. p
    <3>1. \A i \in 1 .. m : o + i \in 1 .. p
      BY <1>2, <2>1
    <3>2. \A i \in 1 .. m : g[o + i] = z[i]
      BY <2>2, Zenon DEF IsJoin
    <3> QED
      BY <3>1, <3>2, Zenon
  <2>4. \A i \in 1 .. p : b[i] = g[i]
    BY <2>2 DEF IsJoin
  <2>5. \A i \in 1 .. m : z[i] = b[o + i]
    BY <2>3, <2>4, Zenon
  <2>6. z \in Seq(Nat) /\ Len(z) = m
    BY <1>0, Zenon
  <2> QED
    BY <1>2, <2>1, <2>5, <2>6 DEF IsPart
<1>5. IsPart(x, b, 0, k)
  <2>1. \A i \in 1 .. k : d[i] = x[i]
    BY <1>1, Zenon DEF IsJoin
  <2>2. \A i \in 1 .. (k + l) : g[i] = d[i]
    BY <1>1, Zenon DEF IsJoin
  <2>3. \A i \in 1 .. ((k + l) + m) : b[i] = g[i]
    BY <1>1, Zenon DEF IsJoin
  <2>4. \A i \in 1 .. k : i \in 1 .. (k + l) /\ i \in 1 .. ((k + l) + m)
    BY <1>2
  <2>5. \A i \in 1 .. k : x[i] = b[i]
    BY <2>1, <2>2, <2>3, <2>4, Zenon
  <2>6. x \in Seq(Nat) /\ Len(x) = k
    BY <1>0, Zenon
  <2> QED
    BY <1>2, <2>5, <2>6 DEF IsPart
<1>6. IsPart(y, b, k, l)
  <2>1. \A i \in 1 .. l : y[i] = d[k + i]
    BY <1>1, <1>2 DEF IsJoin
  <2>2. \A i \in 1 .. (k + l) : d[i] = g[i]
    BY <1>1, <1>2 DEF IsJoin
  <2>3. \A i \in 1 .. ((k + l) + m) : g[i] = b[i]
    BY <1>1, <1>2 DEF IsJoin
  <2>4. y \in Seq(Nat) /\ Len(y) = l
    BY <1>0, Zenon
  <2>5. \A i \in 1 .. l : k + i \in 1 .. (k + l) /\ k + i \in 1 .. ((k + l) + m)
    BY <1>2
  <2>6. \A i \in 1 .. l : y[i] = b[k + i]
    BY <2>1, <2>2, <2>3, <2>5, Zenon
  <2> QED
    BY <1>2, <2>4, <2>6, Zenon DEF IsPart
<1> QED
  BY <1>1, <1>2, <1>3, <1>4, <1>5, <1>6, Zenon DEF InThree

\* The length of a header is its first three octets.
LEMMA FirstThree ==
    ASSUME NEW b \in Seq(Nat), NEW x, IsPart(x, b, 0, 3), Len(b) >= 9
    PROVE  SubSeq(b, 1, 3) = x
<1>1. 0 + 3 =< Len(b)
  OBVIOUS
<1>2. SubSeq(b, 0 + 1, 0 + 3) = x
  BY <1>1, CutPart, Zenon
<1> QED
  BY <1>2

\* The stream id of a header is its last four octets.
LEMMA LastFour ==
    ASSUME NEW b \in Seq(Nat), NEW z, IsPart(z, b, 5, 4), Len(b) >= 9
    PROVE  SubSeq(b, 6, 9) = z
<1>1. 5 + 4 =< Len(b)
  OBVIOUS
<1>2. SubSeq(b, 5 + 1, 5 + 4) = z
  BY <1>1, CutPart, Zenon
<1> QED
  BY <1>2

\* The reserved bit does not count.
LEMMA MaskedIs ==
    ASSUME NEW i \in Nat, i < Power[4] \div 2, NEW r \in {0, 1}
    PROVE  masked(i + r * (Power[4] \div 2)) = i /\ i + r * (Power[4] \div 2) < Worth(4)
<1>w. PICK w \in Nat \ {0} : w = Power[4] \div 2 /\ 2 * w = Power[4]
  BY WorthIs
<1>1. PICK p : w = Power[4] \div 2 /\ p = Power[4] /\ 2 * w = p
  BY <1>w
<1>2. PICK v : v = i + r * w
  OBVIOUS
<1>3. v \in Nat /\ v = (w * r) + i /\ i \in 0 .. (w - 1) /\ v < 2 * w
  <2>1. CASE r = 0
    BY <1>1, <1>2, <2>1
  <2>2. CASE r = 1
    BY <1>1, <1>2, <2>2
  <2> QED
    BY <2>1, <2>2
<1>4. v % w = i
  <2>1. r \in Nat
    OBVIOUS
  <2> QED
    BY <1>3, <2>1, ModUnique
<1>5. p = Worth(4)
  <2>1. 4 \in 1 .. 4
    OBVIOUS
  <2> QED
    BY <1>1, <2>1, WorthIs, Zenon
<1>6. masked(v) = i
  BY <1>1, <1>4, Zenon DEF masked
<1> QED
  BY <1>1, <1>2, <1>3, <1>5, <1>6

\* decode gives back the header that was laid out.
LEMMA DecodeLayout ==
    ASSUME NEW f \in PeerFrames, NEW b \in Seq(Nat), NEW e \in Seq(Nat),
           IsWhole(b, Head9(f), e)
    PROVE  decode(b) = Header(f) /\ Len(b) >= 9
<1>1. PICK v \in Nat : v = f.streamId + f.r * (Power[4] \div 2)
  BY LayoutTyped
<1>2. PICK x, y, z : x = append(Size(f), 3) /\ y = <<f.type, f.flags>> /\ z = append(v, 4)
  OBVIOUS
<1>3. x \in Seq(Nat) /\ Len(x) = 3 /\ z \in Seq(Nat) /\ Len(z) = 4
  <2>1. 3 \in 1 .. 4 /\ 4 \in 1 .. 4 /\ Size(f) \in Nat
    BY FrameParts
  <2> QED
    BY <1>2, <2>1, Appended, Zenon
<1>4. y \in Seq(Nat) /\ Len(y) = 2 /\ y[1] = f.type /\ y[2] = f.flags
  <2>1. f.type \in Nat /\ f.flags \in Nat
    BY FrameParts, Zenon
  <2> QED
    BY <1>2, <2>1
<1>5. IsWhole(b, (x \o y) \o z, e)
  BY <1>1, <1>2, Zenon DEF Head9
<1>6. IsPart(x, b, 0, 3) /\ IsPart(y, b, 3, 2) /\ IsPart(z, b, 5, 4) /\ Len(b) >= 9
  <2>1. PICK k, l, m : k = 3 /\ l = 2 /\ m = 4
    OBVIOUS
  <2>2. /\ IsPart(x, b, 0, k) /\ IsPart(y, b, k, l) /\ IsPart(z, b, k + l, m)
        /\ Len(b) >= (k + l) + m
    <3>1. AreThree(x, k, y, l, z, m)
      BY <1>3, <1>4, <2>1, Zenon DEF AreThree
    <3>2. InThree(b, x, k, y, l, z, m)
      BY <1>5, <3>1, ThreeParts, Zenon
    <3> QED
      BY <3>2, Zenon DEF InThree
  <2> QED
    BY <2>1, <2>2
<1>12. IsPart(y, b, 3, 2)
  BY <1>6
<1>13. SubSeq(b, 1, 3) = x /\ SubSeq(b, 6, 9) = z
  BY <1>6, FirstThree, LastFour, Zenon
<1>14. b[4] = f.type /\ b[5] = f.flags
  <2>1. 1 \in 1 .. 2 /\ 2 \in 1 .. 2 /\ 3 + 1 = 4 /\ 3 + 2 = 5
    OBVIOUS
  <2>2. \A i \in 1 .. 2 : y[i] = b[3 + i]
    BY <1>12, Zenon DEF IsPart
  <2>3. y[1] = b[3 + 1] /\ y[2] = b[3 + 2]
    BY <2>1, <2>2, Zenon
  <2> QED
    BY <1>4, <2>1, <2>3, Zenon
<1>15. readAs(x) = Size(f)
  <2>1. 3 \in 1 .. 4 /\ Size(f) \in Nat /\ Size(f) < Power[3]
    BY FrameParts
  <2>2. Power[3] = Worth(3)
    BY <2>1, WorthIs, Zenon
  <2> QED
    BY <1>2, <2>1, <2>2, ReadAppended
<1>16. masked(readAs(z)) = f.streamId
  <2>1. PICK w \in Nat \ {0} : w = Power[4] \div 2
    BY WorthIs
  <2>2. f.streamId \in 0 .. w - 1 /\ f.r \in {0, 1}
    BY <2>1, FrameParts
  <2>3. f.streamId \in Nat /\ f.streamId < w
    BY <2>2
  <2>4. masked(v) = f.streamId /\ v < Worth(4)
    BY <1>1, <2>1, <2>2, <2>3, MaskedIs
  <2>5. 4 \in 1 .. 4
    OBVIOUS
  <2>6. readAs(z) = v
    BY <1>2, <2>4, <2>5, ReadAppended
  <2> QED
    BY <2>4, <2>6
<1>17. decode(b) = [payloadLength |-> readAs(SubSeq(b, 1, 3)), type |-> b[4], flags |-> b[5],
                    streamId |-> masked(readAs(SubSeq(b, 6, 9)))]
  BY DEF decode
<1> QED
  BY <1>6, <1>13, <1>14, <1>15, <1>16, <1>17 DEF Header

\* The frame a peer's frame is taken for
Raw(f) == [header |-> Header(f), data |-> Body(f)]

\* Frame f, which the buffer starts with, is taken out once it is there in full.
Pops(b, rest, f, next) ==
    /\ CanPop(b) <=> Len(b) >= Len(Layout(f))
    /\ CanPop(b) => \E e \in Seq(Nat) : /\ e \o rest = next
                                        /\ Len(b) = Len(Layout(f)) + Len(e)
                                        /\ tryPop(b) = [frame |-> Raw(f), rest |-> e]

\* tryPop gives back the frame that was laid out, once its last octet is there.
LEMMA PopLayout ==
    ASSUME NEW f \in PeerFrames, NEW b \in Seq(Nat), NEW rest \in Seq(Nat), NEW next \in Seq(Nat),
           SameJoin(b, rest, Layout(f), next), Len(b) >= 9
    PROVE  Pops(b, rest, f, next)
<1>1. PICK h \in Seq(Nat), d \in Seq(Nat), p \in Seq(Nat) :
         /\ h = Head9(f) /\ d = Body(f) /\ p = Layout(f) /\ Len(h) = 9 /\ Len(d) = Size(f)
         /\ p = h \o d /\ Len(p) = 9 + Size(f)
  BY LayoutTyped, BodyTyped, Zenon
<1>2. Size(f) \in Nat
  BY FrameParts, Zenon
<1>3. PICK g \in Seq(Nat) : b = h \o g
  <2>1. PICK x \in Seq(Nat) : x = d \o next
    <3>1. d \o next \in Seq(Nat)
      BY Joined DEF IsJoin
    <3> QED
      BY <3>1
  <2>2. (h \o d) \o next = h \o (d \o next)
    <3>1. JoinsAgree(h, d, next)
      BY JoinsAlways, Zenon
    <3> QED
      BY <3>1, Zenon DEF JoinsAgree
  <2>3. b \o rest = h \o x
    BY <1>1, <2>1, <2>2, Zenon DEF SameJoin
  <2>4. Len(h) =< Len(b) /\ SameJoin(b, rest, h, x)
    BY <1>1, <2>3 DEF SameJoin
  <2>5. Rest(b, h) \in Seq(Nat)
    BY <2>4, SameWhole, Zenon
  <2>6. b = h \o Rest(b, h)
    BY <2>4, SameWhole, Zenon
  <2> QED
    BY <2>5, <2>6, Zenon
<1>4. decode(b) = Header(f)
  <2>1. IsWhole(b, Head9(f), g)
    BY <1>1, <1>3, Zenon DEF IsWhole
  <2> QED
    BY <2>1, DecodeLayout, Zenon
<1>5. decode(b).payloadLength = Size(f)
  BY <1>4 DEF Header
<1>6. CanPop(b) <=> Len(b) >= Len(p)
  BY <1>1, <1>2, <1>5 DEF CanPop, encodedSize
<1>7. ASSUME CanPop(b)
      PROVE  \E e \in Seq(Nat) : /\ e \o rest = next
                                 /\ Len(b) = Len(Layout(f)) + Len(e)
                                 /\ tryPop(b) = [frame |-> Raw(f), rest |-> e]
  <2>1. SameJoin(b, rest, p, next) /\ Len(p) =< Len(b)
    BY <1>1, <1>6, <1>7 DEF SameJoin
  <2>2. PICK e \in Seq(Nat) : e = SubSeq(b, Len(p) + 1, Len(b)) /\ b = p \o e /\ e \o rest = next
    <3>1. Rest(b, p) \in Seq(Nat)
      BY <2>1, SameWhole, Zenon
    <3>2. b = p \o Rest(b, p)
      BY <2>1, SameWhole, Zenon
    <3>3. Rest(b, p) \o rest = next
      BY <2>1, SameWhole, Zenon
    <3> QED
      BY <3>1, <3>2, <3>3, Zenon DEF Rest
  <2>3. IsJoin(b, p, e, Len(p), Len(e))
    BY <2>2, Joined, Zenon
  <2>4. Len(b) = Len(p) + Len(e)
    BY <2>3, Zenon DEF IsJoin
  <2>5. SubSeq(b, 9 + 1, 9 + Size(f)) = d
    <3>1. IsPart(d, p, 9, Size(f))
      BY <1>1, JoinParts
    <3>2. IsPart(p, b, 0, Len(p))
      BY <2>2, JoinParts
    <3>3. IsPart(d, b, 0 + 9, Size(f))
      <4>1. 9 + Size(f) =< Len(p)
        BY <1>1, <1>2
      <4> QED
        BY <3>1, <3>2, <4>1, PartOfPart, Zenon
    <3>4. 9 + Size(f) =< Len(b) /\ 0 + 9 = 9
      BY <1>1, <1>2, <2>1
    <3> QED
      BY <3>3, <3>4, CutPart, Zenon
  <2>6. tryPop(b) = [frame |-> [header |-> Header(f), data |-> d], rest |-> e]
    <3>1. PICK n : n = 9 + Size(f) /\ n = Len(p)
      BY <1>1
    <3>2. SubSeq(b, 9 + 1, n) = d /\ SubSeq(b, n + 1, Len(b)) = e
      BY <2>2, <2>5, <3>1, Zenon
    <3> QED
      BY <1>4, <1>5, <3>1, <3>2 DEF tryPop, encodedSize
  <2>7. Raw(f) = [header |-> Header(f), data |-> d]
    BY <1>1, Zenon DEF Raw
  <2> QED
    BY <1>1, <2>2, <2>4, <2>6, <2>7, Zenon
<1> QED
  BY <1>1, <1>6, <1>7, Zenon DEF Pops

\* What the header says is what the frame says.
LEMMA HeaderSays ==
    ASSUME NEW f
    PROVE  /\ Header(f).payloadLength = Size(f) /\ Header(f).type = f.type
           /\ Header(f).flags = f.flags /\ Header(f).streamId = f.streamId
           /\ \A x : hasAnyFlag(Header(f), x) <=> hasAnyFlag(f, x)
           /\ MayPad(Header(f)) <=> MayPad(f)
           /\ isPadded(Header(f)) <=> isPadded(f)
           /\ HasReservedBit(Header(f)) <=> HasReservedBit(f)
           /\ Lead(Header(f)) = Lead(f)
<1>1. /\ Header(f).payloadLength = Size(f) /\ Header(f).type = f.type
      /\ Header(f).flags = f.flags /\ Header(f).streamId = f.streamId
  BY DEF Header
<1>2. \A x : hasAnyFlag(Header(f), x) <=> hasAnyFlag(f, x)
  BY <1>1, Zenon DEF hasAnyFlag
<1>3. MayPad(Header(f)) <=> MayPad(f)
  BY <1>1, Zenon DEF MayPad
<1>4. isPadded(Header(f)) <=> isPadded(f)
  BY <1>2, <1>3, Zenon DEF isPadded
<1>5. HasReservedBit(Header(f)) <=> HasReservedBit(f)
  BY <1>1, Zenon DEF HasReservedBit
<1>6. Lead(Header(f)) = Lead(f)
  BY <1>4, Zenon DEF Lead
<1> QED
  BY <1>1, <1>2, <1>3, <1>4, <1>5, <1>6, Zenon

\* The types, as numbers
LEMMA TypesAre ==
    /\ Types.DATA = 0 /\ Types.HEADERS = 1 /\ Types.PRIORITY = 2 /\ Types.RST_STREAM = 3
    /\ Types.SETTINGS = 4 /\ Types.PUSH_PROMISE = 5 /\ Types.PING = 6 /\ Types.GOAWAY = 7
    /\ Types.WINDOW_UPDATE = 8 /\ Types.CONTINUATION = 9
BY DEF Types

\* The size rules of the handlers for the types without padding
SizesAre(raw, h, n) ==
    /\ h.type \in {Types.RST_STREAM, Types.WINDOW_UPDATE} => (WellSized(raw) <=> n = 4)
    /\ h.type = Types.SETTINGS
          => (WellSized(raw) <=> n % 6 = 0 /\ (hasAnyFlag(h, ACK) => n = 0))
    /\ h.type = Types.PING => (WellSized(raw) <=> n = 8)
    /\ h.type = Types.GOAWAY => (WellSized(raw) <=> n >= 8)
    /\ \/ MayPad(h) \/ h.type \in {Types.RST_STREAM, Types.WINDOW_UPDATE}
       \/ h.type = Types.SETTINGS \/ h.type = Types.PING \/ h.type = Types.GOAWAY
       \/ WellSized(raw)

\* The size rule of the types that may be padded
PaddingIs(raw, h) ==
    MayPad(h) => (WellSized(raw) <=> validatePaddedPayload(raw, Sum(Widths(h))))

\* They are the rules of the code.
LEMMA WellSizedIs ==
    ASSUME NEW raw, NEW h, NEW n, h = raw.header, n = h.payloadLength
    PROVE  PaddingIs(raw, h) /\ SizesAre(raw, h, n)
<1>1. PaddingIs(raw, h)
  BY TypesAre DEF PaddingIs, WellSized, MayPad
<1>2. h.type \in {Types.RST_STREAM, Types.WINDOW_UPDATE} => (WellSized(raw) <=> n = 4)
  BY TypesAre DEF WellSized, MayPad
<1>3. h.type = Types.SETTINGS
         => (WellSized(raw) <=> n % 6 = 0 /\ (hasAnyFlag(h, ACK) => n = 0))
  BY TypesAre DEF WellSized, MayPad
<1>4. h.type = Types.PING => (WellSized(raw) <=> n = 8)
  BY TypesAre DEF WellSized, MayPad
<1>5. h.type = Types.GOAWAY => (WellSized(raw) <=> n >= 8)
  BY TypesAre DEF WellSized, MayPad
<1>6. \/ MayPad(h) \/ h.type \in {Types.RST_STREAM, Types.WINDOW_UPDATE}
      \/ h.type = Types.SETTINGS \/ h.type = Types.PING \/ h.type = Types.GOAWAY
      \/ WellSized(raw)
  BY TypesAre DEF WellSized, MayPad
<1> QED
  BY <1>1, <1>2, <1>3, <1>4, <1>5, <1>6, Zenon DEF SizesAre

\* Where the parts of a body are
LEMMA BodyParts ==
    ASSUME NEW f \in PeerFrames
    PROVE  /\ IsPart(Ints(f), Body(f), Lead(f), Sum(f.widths))
           /\ IsPart(f.data, Body(f), Lead(f) + Sum(f.widths), Len(f.data))
           /\ isPadded(f) => Body(f)[1] = f.pad
<1>1. PICK x, e : /\ x = IF isPadded(f) THEN <<f.pad>> ELSE <<>>
                  /\ e = [i \in 1 .. f.padding |-> 0]
  OBVIOUS
<1>2. x \in Seq(Nat) /\ Len(x) = Lead(f) /\ (isPadded(f) => x[1] = f.pad) /\ e \in Seq(Nat)
  <2>1. f.pad \in Nat /\ f.padding \in Nat
    BY FrameParts, Zenon
  <2>2. e \in Seq(Nat)
    BY <1>1, <2>1
  <2>3. CASE isPadded(f)
    BY <1>1, <2>1, <2>2, <2>3 DEF Lead
  <2>4. CASE ~isPadded(f)
    BY <1>1, <2>1, <2>2, <2>4 DEF Lead
  <2> QED
    BY <2>3, <2>4
<1>3. IsWhole(Body(f), (x \o Ints(f)) \o f.data, e)
  BY <1>1, BodyTyped, Zenon DEF IsWhole
<1>4. PICK k, l, m : k = Lead(f) /\ l = Sum(f.widths) /\ m = Len(f.data)
  OBVIOUS
<1>5. k = Len(x) /\ l = Len(Ints(f)) /\ m = Len(f.data)
  BY <1>2, <1>4, BodyTyped, Zenon
<1>6. Ints(f) \in Seq(Nat) /\ f.data \in Seq(Nat)
  BY BodyTyped, FrameParts, Zenon
<1>7. /\ IsPart(x, Body(f), 0, k) /\ IsPart(Ints(f), Body(f), k, l)
      /\ IsPart(f.data, Body(f), k + l, m)
  <2>1. AreThree(x, k, Ints(f), l, f.data, m)
    BY <1>2, <1>5, <1>6, Zenon DEF AreThree
  <2>2. e \in Seq(Nat)
    BY <1>2, Zenon
  <2>3. InThree(Body(f), x, k, Ints(f), l, f.data, m)
    BY <1>3, <2>1, <2>2, ThreeParts, Zenon
  <2> QED
    BY <2>3, Zenon DEF InThree
<1>8. isPadded(f) => Body(f)[1] = f.pad
  <2>1. ASSUME isPadded(f) PROVE Body(f)[1] = f.pad
    <3>1. IsPart(x, Body(f), 0, 1)
      BY <1>4, <1>7, <2>1 DEF Lead
    <3>2. x[1] = Body(f)[0 + 1]
      BY <3>1 DEF IsPart
    <3> QED
      BY <1>2, <2>1, <3>2
  <2> QED
    BY <2>1
<1> QED
  BY <1>4, <1>7, <1>8, Zenon

\* What a frame's header is checked against, for the frames that may be padded
LEMMA PaddedSays ==
    ASSUME NEW f \in PeerFrames, MayPad(f)
    PROVE  /\ isPadded(f) <=> hasAnyFlag(f, PADDED)
           /\ Widths(Header(f)) = Widths(f)
           /\ Sum(Widths(f)) \in Nat
           /\ \A p : validatePaddedPayload(Raw(f), p)
                       <=> IF isPadded(f) THEN Size(f) >= 1 + p /\ f.pad < Size(f) - 1 - p
                           ELSE Size(f) >= p
<1>1. isPadded(f) <=> hasAnyFlag(f, PADDED)
  BY Zenon DEF isPadded
<1>2. f.type \in {0, 1, 5}
  BY TypesAre DEF MayPad
<1>3. \A h : h.type = f.type /\ (hasAnyFlag(h, PRIORITY) <=> hasAnyFlag(f, PRIORITY))
        => \/ f.type = Types.HEADERS /\ hasAnyFlag(f, PRIORITY) /\ Widths(h) = <<4, 1>>
           \/ f.type = Types.PUSH_PROMISE /\ Widths(h) = <<4>>
           \/ /\ ~(f.type = Types.HEADERS /\ hasAnyFlag(f, PRIORITY))
              /\ f.type # Types.PUSH_PROMISE /\ Widths(h) = <<>>
  BY <1>2, TypesAre, WidthsOf
<1>4. /\ Header(f).type = f.type /\ (hasAnyFlag(Header(f), PRIORITY) <=> hasAnyFlag(f, PRIORITY))
      /\ Header(f).payloadLength = Size(f)
      /\ (hasAnyFlag(Header(f), PADDED) <=> hasAnyFlag(f, PADDED))
  BY HeaderSays, Zenon
<1>5. Widths(Header(f)) = Widths(f)
  <2>1. \/ f.type = Types.HEADERS /\ hasAnyFlag(f, PRIORITY) /\ Widths(f) = <<4, 1>>
        \/ f.type = Types.PUSH_PROMISE /\ Widths(f) = <<4>>
        \/ /\ ~(f.type = Types.HEADERS /\ hasAnyFlag(f, PRIORITY))
           /\ f.type # Types.PUSH_PROMISE /\ Widths(f) = <<>>
    BY <1>3
  <2>2. PICK h : h = Header(f)
    OBVIOUS
  <2>3. \/ f.type = Types.HEADERS /\ hasAnyFlag(f, PRIORITY) /\ Widths(h) = <<4, 1>>
        \/ f.type = Types.PUSH_PROMISE /\ Widths(h) = <<4>>
        \/ /\ ~(f.type = Types.HEADERS /\ hasAnyFlag(f, PRIORITY))
           /\ f.type # Types.PUSH_PROMISE /\ Widths(h) = <<>>
    BY <1>3, <1>4, <2>2
  <2>4. Widths(h) = Widths(f)
    BY <2>1, <2>3, TypesAre
  <2> QED
    BY <2>2, <2>4
<1>6. Sum(Widths(f)) \in Nat
  <2>1. Widths(f) = <<4, 1>> \/ Widths(f) = <<4>> \/ Widths(f) = <<>>
    BY <1>3
  <2>2. <<4, 1>> \in Seq(Nat) /\ <<4>> \in Seq(Nat) /\ <<>> \in Seq(Nat)
    OBVIOUS
  <2>3. Widths(f) \in Seq(Nat)
    BY <2>1, <2>2, Zenon
  <2> QED
    BY <2>3, SumTyped, Zenon
<1>7. ASSUME NEW p
      PROVE  validatePaddedPayload(Raw(f), p)
               <=> IF isPadded(f) THEN Size(f) >= 1 + p /\ f.pad < Size(f) - 1 - p
                   ELSE Size(f) >= p
  <2>1. Raw(f).header = Header(f) /\ Raw(f).data = Body(f)
    BY DEF Raw
  <2>2. isPadded(f) => Body(f)[1] = f.pad
    BY BodyParts, Zenon
  <2>3. validatePaddedPayload(Raw(f), p)
          <=> IF ~hasAnyFlag(f, PADDED) THEN Size(f) >= p
              ELSE /\ Size(f) >= 1 + p
                   /\ Body(f)[1] < Size(f) - 1 - p
    BY <1>4, <2>1, Zenon DEF validatePaddedPayload
  <2>4. CASE isPadded(f)
    BY <1>1, <2>2, <2>3, <2>4, Zenon
  <2>5. CASE ~isPadded(f)
    BY <1>1, <2>3, <2>5, Zenon
  <2> QED
    BY <2>4, <2>5, Zenon
<1> QED
  BY <1>1, <1>5, <1>6, <1>7, Zenon

\* The integers and the padding of a frame
LEMMA PeerSays ==
    ASSUME NEW f \in PeerFrames
    PROVE  /\ RightSize(f) => f.widths = Widths(Header(f))
           /\ IF isPadded(f) THEN f.padding = f.pad \/ f.padding + Len(f.data) =< f.pad
              ELSE f.padding = 0
           /\ \A i \in 1 .. Len(f.ints) : f.ints[i] < Power[f.widths[i]]
           /\ HasReservedBit(f) /\ f.ints # <<>> => f.ints[1] < Power[4] \div 2
BY Zenon DEF PeerFrames

\* The handlers' checks on the size of a frame are the rules of section 6.
LEMMA ConformIs ==
    ASSUME NEW f \in PeerFrames, isPadded(f) => f.data # <<>>
    PROVE  Size(f) =< MaxFrameSize /\ WellSized(Raw(f)) <=> Conforming(f)
<1>1. PICK n \in Nat, l \in Nat, d \in Nat, k \in {0, 1} :
         /\ n = Size(f) /\ l = Sum(f.widths) /\ d = Len(f.data) /\ k = Lead(f)
         /\ n = k + l + d + f.padding
  <2>1. Len(f.data) \in Nat
    BY FrameParts
  <2> QED
    BY <2>1, FrameParts
<1>2. f.pad \in Nat /\ f.padding \in Nat /\ (isPadded(f) <=> k = 1)
  BY <1>1, FrameParts, Zenon
<1>3. isPadded(f) => d > 0
  <2>1. f.data \in Seq(Nat)
    BY FrameParts, Zenon
  <2> QED
    BY <1>1, <2>1
<1>4. /\ Raw(f).header = Header(f) /\ Header(f).payloadLength = n /\ Header(f).type = f.type
      /\ (hasAnyFlag(Header(f), ACK) <=> hasAnyFlag(f, ACK))
      /\ (MayPad(Header(f)) <=> MayPad(f))
  <2>1. Raw(f).header = Header(f)
    BY DEF Raw
  <2> QED
    BY <1>1, <2>1, HeaderSays, Zenon
<1>5. RightSize(f) <=>
         /\ n =< MaxFrameSize
         /\ f.type \in {Types.RST_STREAM, Types.WINDOW_UPDATE} => n = 4
         /\ f.type = Types.PING => n = 8
         /\ f.type = Types.GOAWAY => n >= 8
         /\ f.type = Types.SETTINGS => n % 6 = 0 /\ (hasAnyFlag(f, ACK) => n = 0)
         /\ MayPad(f) => n >= k + Sum(Widths(f))
  BY <1>1, Zenon DEF RightSize
<1>6. CASE ~MayPad(f)
  <2>1. ~isPadded(f)
    BY <1>6, Zenon DEF isPadded
  <2>2. Conforming(f) <=> RightSize(f)
    BY <2>1, Zenon DEF Conforming
  <2>3. WellSized(Raw(f)) <=>
         /\ f.type \in {Types.RST_STREAM, Types.WINDOW_UPDATE} => n = 4
         /\ f.type = Types.PING => n = 8
         /\ f.type = Types.GOAWAY => n >= 8
         /\ f.type = Types.SETTINGS => n % 6 = 0 /\ (hasAnyFlag(f, ACK) => n = 0)
    <3>1. PICK raw : raw = Raw(f)
      OBVIOUS
    <3>2. /\ f.type \in {Types.RST_STREAM, Types.WINDOW_UPDATE} => (WellSized(raw) <=> n = 4)
          /\ f.type = Types.SETTINGS
                => (WellSized(raw) <=> n % 6 = 0 /\ (hasAnyFlag(f, ACK) => n = 0))
          /\ f.type = Types.PING => (WellSized(raw) <=> n = 8)
          /\ f.type = Types.GOAWAY => (WellSized(raw) <=> n >= 8)
          /\ \/ f.type \in {Types.RST_STREAM, Types.WINDOW_UPDATE}
             \/ f.type = Types.SETTINGS \/ f.type = Types.PING \/ f.type = Types.GOAWAY
             \/ WellSized(raw)
      <4>1. PICK h : h = Header(f) /\ h = raw.header
        BY <1>4, <3>1, Zenon
      <4>2. h = raw.header
        BY <4>1, Zenon
      <4>3. n = h.payloadLength
        BY <1>4, <4>1, Zenon
      <4>4. SizesAre(raw, h, n)
        BY <4>2, <4>3, WellSizedIs, Zenon
      <4>5. /\ h.type = f.type /\ (hasAnyFlag(h, ACK) <=> hasAnyFlag(f, ACK)) /\ ~MayPad(h)
        BY <1>4, <1>6, <4>1, Zenon
      <4> QED
        BY <4>4, <4>5, Zenon DEF SizesAre
    <3>3. WellSized(raw) <=>
            /\ f.type \in {Types.RST_STREAM, Types.WINDOW_UPDATE} => n = 4
            /\ f.type = Types.PING => n = 8
            /\ f.type = Types.GOAWAY => n >= 8
            /\ f.type = Types.SETTINGS => n % 6 = 0 /\ (hasAnyFlag(f, ACK) => n = 0)
      BY <3>2, TypesAre
    <3> QED
      BY <3>1, <3>3, Zenon
  <2> QED
    BY <1>1, <1>5, <1>6, <2>2, <2>3, Zenon
<1>7. CASE MayPad(f)
  <2>1. PICK p \in Nat : p = Sum(Widths(f))
    BY <1>7, PaddedSays
  <2>2. WellSized(Raw(f)) <=> IF isPadded(f) THEN n >= 1 + p /\ f.pad < n - 1 - p ELSE n >= p
    <3>1. WellSized(Raw(f)) <=> validatePaddedPayload(Raw(f), Sum(Widths(Header(f))))
      <4>1. PICK raw, h : raw = Raw(f) /\ h = Header(f) /\ h = raw.header /\ MayPad(h)
        BY <1>4, <1>7, Zenon
      <4>2. PaddingIs(raw, h)
        BY <4>1, WellSizedIs, Zenon
      <4> QED
        BY <4>1, <4>2, Zenon DEF PaddingIs
    <3>2. Sum(Widths(Header(f))) = p
      BY <1>7, <2>1, PaddedSays, Zenon
    <3> QED
      BY <1>1, <1>7, <3>1, <3>2, PaddedSays, Zenon
  <2>3. RightSize(f) <=> n =< MaxFrameSize /\ n >= k + p
    <3>1. f.type \in {0, 1, 5}
      BY <1>7, TypesAre DEF MayPad
    <3>2. PICK q : q = Sum(Widths(f)) /\ q = p
      BY <2>1
    <3>3. RightSize(f) <=> n =< MaxFrameSize /\ n >= k + q
      BY <1>5, <1>7, <3>1, <3>2, TypesAre
    <3> QED
      BY <3>2, <3>3, Zenon
  <2>4. RightSize(f) => l = p
    BY <1>1, <1>7, <2>1, PaddedSays, PeerSays, Zenon
  <2>5. Conforming(f) <=> RightSize(f) /\ (isPadded(f) => f.padding = f.pad)
    BY Zenon DEF Conforming
  <2>6. IF isPadded(f) THEN f.padding = f.pad \/ f.padding + d =< f.pad ELSE f.padding = 0
    BY <1>1, PeerSays, Zenon
  <2>7. CASE isPadded(f)
    <3>1. PICK a \in Nat, b \in Nat, m \in Nat : a = f.pad /\ b = f.padding /\ m = MaxFrameSize
      BY <1>2, FramesAssumption
    <3>2. k = 1 /\ n = ((1 + l) + d) + b /\ d > 0 /\ (b = a \/ b + d =< a)
      BY <1>1, <1>2, <1>3, <2>6, <2>7, <3>1
    <3>3. ASSUME n =< m, n >= 1 + p /\ a < n - 1 - p
          PROVE  RightSize(f) /\ b = a
      <4>1. RightSize(f)
        BY <2>3, <3>1, <3>2, <3>3
      <4>2. l = p
        BY <2>4, <4>1
      <4> QED
        BY <3>2, <3>3, <4>1, <4>2
    <3>4. ASSUME RightSize(f), b = a
          PROVE  n =< m /\ n >= 1 + p /\ a < n - 1 - p
      <4>1. l = p /\ n =< m
        BY <2>3, <2>4, <3>1, <3>4
      <4> QED
        BY <3>2, <3>4, <4>1
    <3> QED
      BY <1>1, <2>2, <2>5, <2>7, <3>1, <3>3, <3>4, Zenon
  <2>8. CASE ~isPadded(f)
    BY <1>1, <1>2, <2>2, <2>3, <2>5, <2>8, FramesAssumption
  <2> QED
    BY <2>7, <2>8
<1> QED
  BY <1>6, <1>7

\* Every front is a part of the later ones.
LEMMA FrontsNest ==
    ASSUME NEW n \in Nat, NEW g, NEW q, Fronts(g, q, n), \A i \in 1 .. n : q[i] \in Seq(Nat),
           NEW m \in 0 .. n
    PROVE  \A i \in 0 .. m : IsPart(g[i], g[m], 0, Len(g[i])) /\ Len(g[i]) =< Len(g[m])
<1> DEFINE S == {j \in 0 .. n : \A i \in 0 .. j : /\ IsPart(g[i], g[j], 0, Len(g[i]))
                                                  /\ Len(g[i]) =< Len(g[j])}
<1>1. \A i \in 0 .. n : g[i] \in Seq(Nat) /\ Len(g[i]) \in Nat
  BY Zenon DEF Fronts
<1>2. \A i \in 0 .. n : IsPart(g[i], g[i], 0, Len(g[i])) /\ Len(g[i]) =< Len(g[i])
  <2>1. ASSUME NEW i \in 0 .. n
        PROVE  IsPart(g[i], g[i], 0, Len(g[i])) /\ Len(g[i]) =< Len(g[i])
    <3>1. PICK x \in Seq(Nat), l \in Nat : x = g[i] /\ l = Len(x)
      BY <1>1
    <3>2. IsPart(x, x, 0, l) /\ l =< l
      BY <3>1 DEF IsPart
    <3> QED
      BY <3>1, <3>2, Zenon
  <2> QED
    BY <2>1
<1>3. 0 \in S
  <2>1. 0 \in 0 .. n /\ \A i \in 0 .. 0 : i = 0
    OBVIOUS
  <2> QED
    BY <1>2, <2>1, Zenon
<1>4. ASSUME NEW j \in 0 .. n, j # n, j \in S PROVE j + 1 \in S
  <2>1. /\ j + 1 \in 1 .. n /\ j + 1 \in 0 .. n /\ (j + 1) - 1 = j
        /\ \A i \in 0 .. (j + 1) : i = j + 1 \/ i \in 0 .. j
    BY <1>4
  <2>2. PICK x \in Seq(Nat), y \in Seq(Nat), z \in Seq(Nat) :
           x = g[j] /\ y = q[j + 1] /\ z = g[j + 1] /\ z = x \o y
    <3>1. g[j + 1] = g[(j + 1) - 1] \o q[j + 1]
      BY <2>1, Zenon DEF Fronts
    <3> QED
      BY <1>1, <2>1, <3>1
  <2>3. IsPart(x, z, 0, Len(x)) /\ Len(x) =< Len(z)
    <3>1. IsPart(x, x \o y, 0, Len(x)) /\ IsJoin(x \o y, x, y, Len(x), Len(y))
      BY JoinParts, Joined, Zenon
    <3>2. IsPart(x, z, 0, Len(x)) /\ IsJoin(z, x, y, Len(x), Len(y))
      BY <2>2, <3>1, Zenon
    <3> QED
      BY <3>2 DEF IsJoin
  <2>4. ASSUME NEW i \in 0 .. j
        PROVE  IsPart(g[i], g[j + 1], 0, Len(g[i])) /\ Len(g[i]) =< Len(g[j + 1])
    <3>1. IsPart(g[i], x, 0, Len(g[i])) /\ Len(g[i]) =< Len(x)
      BY <1>4, <2>2, Zenon
    <3>2. PICK w \in Seq(Nat), k \in Nat, l \in Nat : w = g[i] /\ k = Len(w) /\ l = Len(x)
      <4>1. i \in 0 .. n
        OBVIOUS
      <4>2. PICK w \in Seq(Nat) : w = g[i]
        BY <1>1, <4>1, Zenon
      <4>3. Len(w) \in Nat /\ Len(x) \in Nat
        OBVIOUS
      <4> QED
        BY <4>2, <4>3, Zenon
    <3>3. IsPart(w, x, 0, k) /\ IsPart(x, z, 0, l) /\ k =< l /\ 0 + k =< l /\ l =< Len(z)
      BY <2>3, <3>1, <3>2
    <3>4. IsPart(w, z, 0 + 0, k)
      BY <3>3, PartOfPart, Zenon
    <3>5. IsPart(w, z, 0, k) /\ k =< Len(z)
      BY <3>2, <3>3, <3>4
    <3> QED
      BY <2>2, <3>2, <3>5, Zenon
  <2> QED
    BY <1>2, <2>1, <2>4, Zenon
<1> HIDE DEF S
<1>5. \A j \in 0 .. n : j \in S
  BY <1>3, <1>4, LoopInduction
<1> QED
  BY <1>5 DEF S

\* The integers of a frame, as octets: where each one is, in front of which is
\* what the sum of the widths before it says
IntsSplit(f, n, q, g) ==
    /\ n \in Nat /\ Fronts(g, q, n) /\ Ints(f) = g[n]
    /\ \A i \in 1 .. n : /\ q[i] \in Seq(Nat) /\ Len(q[i]) = f.widths[i]
                         /\ readAs(q[i]) = f.ints[i]

\* Where an integer of a payload is
LEMMA IntsAt ==
    ASSUME NEW f \in PeerFrames
    PROVE  \E q, g : IntsSplit(f, Len(f.ints), q, g)
<1>0. PICK n : n = Len(f.ints)
  OBVIOUS
<1>1. /\ n \in Nat /\ f.ints \in Seq(Nat) /\ f.widths \in Seq({1, 2, 4}) /\ Len(f.widths) = n
      /\ \A i \in 1 .. n : f.ints[i] < Power[f.widths[i]]
  <2>1. f.ints \in Seq(Nat) /\ f.widths \in Seq({1, 2, 4}) /\ Len(f.widths) = n
    BY <1>0, FrameParts, Zenon
  <2>2. n \in Nat
    BY <1>0, <2>1
  <2> QED
    BY <1>0, <2>1, <2>2, PeerSays
<1> DEFINE q == [i \in 1 .. n |-> append(f.ints[i], f.widths[i])]
<1>2. \A i \in 1 .. n : q[i] = append(f.ints[i], f.widths[i])
  OBVIOUS
<1>3. Len(q) = n
  BY <1>1
<1>4. Ints(f) = Concat(q)
  BY <1>0, Zenon DEF Ints
<1> HIDE DEF q
<1>5. ASSUME NEW i \in 1 .. n
      PROVE  q[i] \in Seq(Nat) /\ Len(q[i]) = f.widths[i] /\ readAs(q[i]) = f.ints[i]
  <2>1. PICK v \in Nat, w \in 1 .. 4 : v = f.ints[i] /\ w = f.widths[i]
    <3>1. f.ints[i] \in Nat /\ f.widths[i] \in {1, 2, 4}
      BY <1>0, <1>1
    <3>2. f.widths[i] \in 1 .. 4
      BY <3>1
    <3> QED
      BY <3>1, <3>2, Zenon
  <2>2. v < Worth(w)
    BY <1>1, <2>1, WorthIs, Zenon
  <2>3. q[i] = append(v, w)
    BY <1>2, <2>1, Zenon
  <2> QED
    <3>1. append(v, w) \in Seq(Nat) /\ Len(append(v, w)) = w
      BY Appended, Zenon
    <3>2. readAs(append(v, w)) = v
      BY <2>2, ReadAppended, Zenon
    <3> QED
      BY <2>1, <2>3, <3>1, <3>2
<1>6. PICK g : Fronts(g, q, n)
  BY <1>1, <1>5, ConcatOf, Zenon
<1>7. Concat(q) = g[n]
  <2>1. n \in 0 .. n
    BY <1>1
  <2> QED
    BY <1>3, <1>6, <2>1, Zenon DEF Fronts
<1> QED
  BY <1>0, <1>1, <1>4, <1>5, <1>6, <1>7, Zenon DEF IntsSplit

\* The constructors take a frame that has the right size apart as it was put together.
LEMMA TypedIs ==
    ASSUME NEW f \in PeerFrames, Conforming(f)
    PROVE  typed(Raw(f)) = Content(f)
<1> DEFINE h == Header(f)
           b == Body(f)
           raw == Raw(f)
<1>1. PICK n, W : n = Len(f.ints) /\ W = f.widths
  OBVIOUS
<1>2. PICK q, g : /\ n \in Nat /\ Fronts(g, q, n) /\ Ints(f) = g[n]
                  /\ \A i \in 1 .. n : /\ q[i] \in Seq(Nat) /\ Len(q[i]) = W[i]
                                       /\ readAs(q[i]) = f.ints[i]
  BY <1>1, IntsAt, Zenon DEF IntsSplit
<1>3. /\ raw.header = h /\ raw.data = b /\ h.type = f.type /\ h.flags = f.flags
      /\ h.streamId = f.streamId /\ (isPadded(h) <=> isPadded(f)) /\ Lead(h) = Lead(f)
      /\ (HasReservedBit(h) <=> HasReservedBit(f))
  <2>1. raw.header = h /\ raw.data = b
    BY DEF Raw
  <2> QED
    BY <2>1, HeaderSays, Zenon
<1>4. /\ RightSize(f) /\ (isPadded(f) => f.padding = f.pad) /\ Widths(h) = W
      /\ (~isPadded(f) => f.padding = 0)
      /\ HasReservedBit(f) /\ f.ints # <<>> => f.ints[1] < Power[4] \div 2
  BY <1>1, PeerSays, Zenon DEF Conforming
<1>5. /\ f.ints \in Seq(Nat) /\ Len(f.ints) = n /\ W \in Seq({1, 2, 4}) /\ Len(W) = n
      /\ b \in Seq(Nat) /\ Len(b) = Size(f)
  BY <1>1, FrameParts, BodyTyped, Zenon
<1>6. /\ isPadded(f) => b[1] = f.pad
      /\ IsPart(Ints(f), b, Lead(f), Sum(W))
      /\ IsPart(f.data, b, Lead(f) + Sum(W), Len(f.data))
  BY <1>1, BodyParts, Zenon
<1>7. PICK l \in Nat, k \in Nat, d \in Nat, z \in Nat :
         /\ l = Lead(f) /\ k = Sum(W) /\ d = Len(f.data) /\ z = f.padding
         /\ Size(f) = ((l + k) + d) + z
  <2>1. Len(f.data) \in Nat
    BY FrameParts
  <2> QED
    BY <1>1, <2>1, FrameParts
<1>t. PICK r \in Nat : r = Len(b) /\ r = ((l + k) + d) + z
  <2>1. Len(b) = ((l + k) + d) + z
    BY <1>5, <1>7, Zenon
  <2>2. ((l + k) + d) + z \in Nat
    OBVIOUS
  <2> QED
    BY <2>1, <2>2, Zenon
<1>8. \A i \in 0 .. n : g[i] \in Seq(Nat) /\ Len(g[i]) \in Nat
  BY <1>2, Zenon DEF Fronts
<1> HIDE DEF h, b, raw
<1>9. ASSUME NEW i \in 1 .. n + 1 PROVE At(h, i) = l + Len(g[i - 1])
  <2>1. PICK m \in 0 .. n : m = i - 1
    BY <1>2
  <2>2. PICK p : p = SubSeq(W, 1, m)
    OBVIOUS
  <2>3. Len(p) = m /\ \A j \in 1 .. m : p[j] = W[j] /\ j \in 1 .. n
    BY <1>2, <1>5, <2>2
  <2>4. \A j \in 1 .. m : p[j] = Len(q[j])
    BY <1>2, <2>3, Zenon
  <2>5. Sum(p) = Len(g[m])
    BY <1>2, <2>3, <2>4, Zenon DEF Fronts
  <2> QED
    BY <1>3, <1>4, <1>7, <2>1, <2>2, <2>5, Zenon DEF At
<1>10. ASSUME NEW i \in 1 .. n PROVE integer(raw, i) = f.ints[i]
  <2>1. i - 1 \in 0 .. n /\ i \in 0 .. n /\ i \in 1 .. n + 1 /\ n \in 0 .. n
    BY <1>2
  <2>2. PICK x \in Seq(Nat), y \in Seq(Nat), u \in Nat, w \in Nat :
           /\ x = g[i - 1] /\ y = q[i] /\ u = Len(x) /\ w = Len(y)
    <3>1. g[i - 1] \in Seq(Nat) /\ q[i] \in Seq(Nat)
      BY <1>2, <1>8, <2>1, Zenon
    <3>2. Len(g[i - 1]) \in Nat /\ Len(q[i]) \in Nat
      BY <3>1
    <3> QED
      BY <3>1, <3>2, Zenon
  <2>3. g[i] = x \o y
    BY <1>2, <2>2, Zenon DEF Fronts
  <2>4. PICK v \in Seq(Nat), e \in Nat : v = g[i] /\ e = Len(v) /\ e = u + w
    <3>1. IsJoin(g[i], x, y, u, w)
      <4>1. IsJoin(x \o y, x, y, Len(x), Len(y))
        BY Joined, Zenon
      <4> QED
        BY <2>2, <2>3, <4>1, Zenon
    <3>2. g[i] \in Seq(Nat) /\ Len(g[i]) = u + w /\ u + w \in Nat
      BY <3>1 DEF IsJoin
    <3> QED
      BY <3>2, Zenon
  <2>5. IsPart(y, v, u, w)
    BY <2>2, <2>3, <2>4, JoinParts, Zenon
  <2>6. IsPart(v, Ints(f), 0, e) /\ e =< k
    <3>1. IsPart(g[i], g[n], 0, Len(g[i])) /\ Len(g[i]) =< Len(g[n])
      BY <1>2, <2>1, FrontsNest, Zenon
    <3>2. Len(Ints(f)) = k
      BY <1>6, <1>7 DEF IsPart
    <3> QED
      BY <1>2, <2>4, <3>1, <3>2
  <2>7. IsPart(v, b, l, e)
    <3>1. 0 + e =< k /\ l + 0 = l
      BY <2>6
    <3>2. IsPart(Ints(f), b, l, k)
      BY <1>6, <1>7, Zenon
    <3>3. IsPart(v, b, l + 0, e)
      BY <2>6, <3>1, <3>2, PartOfPart, Zenon
    <3> QED
      BY <3>1, <3>3
  <2>8. IsPart(y, b, l + u, w)
    <3>1. u + w =< e
      BY <2>4
    <3> QED
      BY <2>5, <2>7, <3>1, PartOfPart, Zenon
  <2>9. SubSeq(b, (l + u) + 1, (l + u) + w) = y
    <3>1. PICK m \in Nat : m = l + u /\ m + w =< Len(b)
      <4>1. l + u \in Nat
        OBVIOUS
      <4>2. PICK m \in Nat : m = l + u
        BY <4>1, Zenon
      <4>3. m + w =< Len(b)
        <5>1. u + w =< k
          BY <2>4, <2>6
        <5>2. m + w =< r
          BY <1>t, <4>2, <5>1
        <5> QED
          BY <1>t, <5>2, Zenon
      <4> QED
        BY <4>2, <4>3, Zenon
    <3>2. SubSeq(b, m + 1, m + w) = y
      BY <1>5, <2>8, <3>1, CutPart, Zenon
    <3> QED
      BY <3>1, <3>2, Zenon
  <2>10. At(h, i) = l + u /\ Widths(h)[i] = w
    BY <1>2, <1>4, <1>9, <2>1, <2>2, Zenon
  <2>11. integer(raw, i) = readAs(y)
    BY <1>3, <2>9, <2>10, Zenon DEF integer
  <2> QED
    BY <1>2, <2>2, <2>11, Zenon
<1>11. HasReservedBit(h) /\ n >= 1 => masked(f.ints[1]) = f.ints[1]
  <2>1. ASSUME HasReservedBit(h), n >= 1 PROVE masked(f.ints[1]) = f.ints[1]
    <3>1. PICK v \in Nat : v = f.ints[1]
      BY <1>5, <2>1
    <3>2. f.ints # <<>>
      BY <1>5, <2>1
    <3>3. v < Power[4] \div 2
      BY <1>3, <1>4, <2>1, <3>1, <3>2, Zenon
    <3>4. 0 \in {0, 1}
      OBVIOUS
    <3>5. masked(v + 0 * (Power[4] \div 2)) = v
      BY <3>3, <3>4, MaskedIs, Zenon
    <3>6. PICK p \in Nat : p = Power[4] \div 2
      BY WorthIs
    <3>7. v + 0 * p = v
      OBVIOUS
    <3> QED
      BY <3>1, <3>5, <3>6, <3>7, Zenon
  <2> QED
    BY <2>1
<1>12. \A i \in 1 .. n : (IF i = 1 /\ HasReservedBit(h) THEN masked(integer(raw, i))
                          ELSE integer(raw, i)) = f.ints[i]
  <2>1. ASSUME NEW i \in 1 .. n
        PROVE  (IF i = 1 /\ HasReservedBit(h) THEN masked(integer(raw, i))
                ELSE integer(raw, i)) = f.ints[i]
    <3>1. n >= 1
      BY <1>2
    <3> QED
      BY <1>10, <1>11, <3>1, Zenon
  <2> QED
    BY <2>1
<1>13. SubSeq(b, At(h, n + 1) + 1, Len(b) - (IF isPadded(h) THEN b[1] ELSE 0)) = f.data
  <2>1. (IF isPadded(h) THEN b[1] ELSE 0) = z
    BY <1>3, <1>4, <1>6, <1>7, Zenon
  <2>2. PICK m \in Nat : m = l + k /\ m + d = Len(b) - z /\ m + d =< Len(b)
    <3>1. l + k \in Nat
      OBVIOUS
    <3>2. PICK m \in Nat : m = l + k
      BY <3>1, Zenon
    <3>3. m + d = Len(b) - z /\ m + d =< Len(b)
      BY <1>t, <3>2
    <3> QED
      BY <3>2, <3>3, Zenon
  <2>3. At(h, n + 1) = m
    <3>1. n + 1 \in 1 .. n + 1 /\ (n + 1) - 1 = n
      BY <1>2
    <3>2. Len(g[n]) = k
      BY <1>2, <1>6, <1>7 DEF IsPart
    <3> QED
      BY <1>9, <2>2, <3>1, <3>2, Zenon
  <2>4. SubSeq(b, m + 1, m + d) = f.data
    <3>1. IsPart(f.data, b, m, d)
      BY <1>6, <1>7, <2>2, Zenon
    <3> QED
      BY <1>5, <2>2, <3>1, CutPart, Zenon
  <2> QED
    BY <2>1, <2>2, <2>3, <2>4, Zenon
<1>14. f.ints = [i \in 1 .. n |-> f.ints[i]]
  <2>1. PICK v \in Seq(Nat) : v = f.ints /\ Len(v) = n
    BY <1>5, Zenon
  <2>2. v = [i \in 1 .. n |-> v[i]]
    BY <2>1
  <2> QED
    BY <2>1, <2>2, Zenon
<1>15. Len(Widths(h)) = n
  BY <1>4, <1>5, Zenon
<1>16. typed(raw) = [type |-> h.type, flags |-> h.flags, streamId |-> h.streamId,
                     ints |-> [i \in 1 .. n |-> IF i = 1 /\ HasReservedBit(h)
                                                THEN masked(integer(raw, i)) ELSE integer(raw, i)],
                     data |-> SubSeq(b, At(h, n + 1) + 1,
                                     Len(b) - (IF isPadded(h) THEN b[1] ELSE 0))]
  BY <1>3, <1>15, Zenon DEF typed
<1>17. [i \in 1 .. n |-> IF i = 1 /\ HasReservedBit(h) THEN masked(integer(raw, i))
                         ELSE integer(raw, i)] = f.ints
  <2>1. [i \in 1 .. n |-> IF i = 1 /\ HasReservedBit(h) THEN masked(integer(raw, i))
                          ELSE integer(raw, i)] = [i \in 1 .. n |-> f.ints[i]]
    BY <1>12
  <2> QED
    BY <1>14, <2>1, Zenon
<1>18. typed(raw) = [type |-> f.type, flags |-> f.flags, streamId |-> f.streamId,
                     ints |-> f.ints, data |-> f.data]
  BY <1>3, <1>13, <1>16, <1>17, Zenon
<1> QED
  BY <1>18, Zenon DEF Content, raw

(***************************************************************************)
(* Where the engine is in the peer's script                                *)
(***************************************************************************)

\* The first k frames of the script, as they are given to the engine
Given(c, k) == [i \in 1 .. k |-> Content(c[i])]

\* The first k frames have been given to the engine, and what follows them is in
\* the buffer and in what has not been read.
Following(t, c, rest, k) ==
    t.received = Given(c, k) /\ IsWhole(Octets[c][k + 1], t.buffer, rest)

\* The session was closed by frame k + 1.
Refused(t, c, rest, k) ==
    /\ t.closed /\ k < Len(c) /\ ~Accepted(c[k + 1])
    /\ t.received = Given(c, IF Conforming(c[k + 1]) THEN k + 1 ELSE k)
    /\ Len(rest) =< Len(Octets[c][k + 2])

\* None of the first k frames ends the session.
AllAccepted(c, k) == \A i \in 1 .. k : Accepted(c[i])

\* A descriptor is registered only while the connection has its session.
Linked(t) == t.registered => t.connected

\* Between two frames of a read
Parsing(t, c, rest) ==
    /\ Linked(t)
    /\ \E k \in 0 .. Len(c) : /\ AllAccepted(c, k)
                              /\ \/ Refused(t, c, rest, k)
                                 \/ Following(t, c, rest, k) /\ ~t.closed

\* Between two reads
Parsed(t, c, rest) ==
    \E k \in 0 .. Len(c) :
        /\ AllAccepted(c, k)
        /\ \/ Refused(t, c, rest, k)
           \/ Following(t, c, rest, k) /\ ~CanPop(t.buffer)

\* Padding leaves something else in a frame.
RoomBeside(f) == isPadded(f) => f.data # <<>>

\* One frame more
LEMMA GivenNext ==
    ASSUME NEW c, Len(c) \in Nat, NEW k \in Nat, k < Len(c)
    PROVE  Append(Given(c, k), Content(c[k + 1])) = Given(c, k + 1)
<1> DEFINE X == {Content(c[i]) : i \in 1 .. Len(c)}
<1>1. \A i \in 1 .. Len(c) : Content(c[i]) \in X
  OBVIOUS
<1> HIDE DEF X
<1>2. \A j \in 0 .. Len(c) : /\ Given(c, j) \in Seq(X) /\ Len(Given(c, j)) = j
                             /\ \A i \in 1 .. j : Given(c, j)[i] = Content(c[i])
  <2>1. ASSUME NEW j \in 0 .. Len(c)
        PROVE  /\ Given(c, j) \in Seq(X) /\ Len(Given(c, j)) = j
               /\ \A i \in 1 .. j : Given(c, j)[i] = Content(c[i])
    <3>1. \A i \in 1 .. j : Content(c[i]) \in X
      BY <1>1
    <3>2. j \in Nat
      OBVIOUS
    <3> QED
      BY <3>1, <3>2 DEF Given
  <2> QED
    BY <2>1
<1>3. k \in 0 .. Len(c) /\ k + 1 \in 0 .. Len(c) /\ k + 1 \in 1 .. Len(c) /\ k + 1 \in 1 .. (k + 1)
  OBVIOUS
<1>4. PICK a \in Seq(X), b \in Seq(X), x \in X :
         a = Given(c, k) /\ b = Given(c, k + 1) /\ x = Content(c[k + 1])
  BY <1>1, <1>2, <1>3
<1>5. /\ Len(a) = k /\ Len(b) = k + 1 /\ b[k + 1] = x
      /\ \A i \in 1 .. k : a[i] = Content(c[i])
      /\ \A i \in 1 .. (k + 1) : b[i] = Content(c[i])
  BY <1>2, <1>3, <1>4, Zenon
<1>6. \A i \in 1 .. k : a[i] = b[i]
  <2>1. \A i \in 1 .. k : i \in 1 .. (k + 1)
    OBVIOUS
  <2> QED
    BY <1>5, <2>1, Zenon
<1>7. Append(a, x) = b
  <2>1. PICK d \in Seq(X) : d = Append(a, x) /\ Len(d) = k + 1
    BY <1>5
  <2>2. \A i \in 1 .. (k + 1) : d[i] = b[i]
    BY <1>5, <1>6, <2>1
  <2> QED
    BY <1>5, <2>1, <2>2, SameSequence
<1> QED
  BY <1>4, <1>7, Zenon

\* What the read side of a session is about stays as it was.
Untouched(t, u) ==
    /\ u.buffer = t.buffer /\ u.received = t.received /\ DOMAIN u = Fields
    /\ u.connected = t.connected /\ u.registered = t.registered

\* Queueing a frame touches nothing of it.
LEMMA EnqueueKeeps ==
    ASSUME NEW t, NEW d, DOMAIN t = Fields
    PROVE  Untouched(t, enqueueOutbound(t, d)) /\ enqueueOutbound(t, d).closed = t.closed
<1>1. PICK u : u = enqueueOutbound(t, d)
  OBVIOUS
<1>2. SameBut(t, u, {"outbound", "queued"})
  BY <1>1, EnqueueFields, Zenon
<1>3. DOMAIN u = Fields /\ \A x \in Fields \ {"outbound", "queued"} : u[x] = t[x]
  BY <1>2, Zenon DEF SameBut
<1>4. {"buffer", "received", "closed", "connected", "registered"} \subseteq Fields \ {"outbound", "queued"}
  BY DEF Fields
<1>5. Untouched(t, u) /\ u.closed = t.closed
  BY <1>3, <1>4 DEF Untouched
<1> QED
  BY <1>1, <1>5, Zenon

\* A connection error touches nothing of it either, and closes the session.
LEMMA FailKeeps ==
    ASSUME NEW t, DOMAIN t = Fields
    PROVE  Untouched(t, failConnection(t)) /\ failConnection(t).closed
<1>1. PICK u, v : v = enqueueOutbound(t, goaway(<<>>)) /\ u = [v EXCEPT !.closed = TRUE]
  OBVIOUS
<1>2. Untouched(t, v)
  BY <1>1, EnqueueKeeps, Zenon
<1>3. Untouched(t, u) /\ u.closed
  BY <1>1, <1>2 DEF Untouched, Fields
<1> QED
  BY <1>1, <1>3, Zenon DEF failConnection

\* While there is something in the buffer, a frame of the script is ahead.
LEMMA FrameAhead ==
    ASSUME NEW c \in Scripts, NEW k \in 0 .. Len(c), NEW b \in Seq(Nat), NEW rest \in Seq(Nat),
           IsWhole(Octets[c][k + 1], b, rest)
    PROVE  /\ k = Len(c) => Len(b) = 0
           /\ k < Len(c) => /\ c[k + 1] \in PeerFrames /\ Octets[c][k + 2] \in Seq(Nat)
                            /\ SameJoin(b, rest, Layout(c[k + 1]), Octets[c][k + 2])
<1>1. PICK n \in Nat : n = Len(c) /\ k \in 0 .. n /\ k + 1 \in 1 .. n + 1
  BY OctetsEnd
<1>2. Octets[c][k + 1] = b \o rest
  BY Zenon DEF IsWhole
<1>3. ASSUME k = n PROVE Len(b) = 0
  <2>1. b \o rest = <<>>
    BY <1>1, <1>2, <1>3, OctetsEnd, Zenon
  <2>2. IsJoin(b \o rest, b, rest, Len(b), Len(rest))
    BY Joined, Zenon
  <2> QED
    BY <2>1, <2>2 DEF IsJoin
<1>4. ASSUME k < n
      PROVE  /\ c[k + 1] \in PeerFrames /\ Octets[c][k + 2] \in Seq(Nat)
             /\ SameJoin(b, rest, Layout(c[k + 1]), Octets[c][k + 2])
  <2>1. k + 1 \in 1 .. Len(c) /\ (k + 1) + 1 = k + 2
    BY <1>1, <1>4
  <2>2. /\ c[k + 1] \in PeerFrames
        /\ Octets[c][k + 1] = Layout(c[k + 1]) \o Octets[c][(k + 1) + 1]
        /\ Octets[c][(k + 1) + 1] \in Seq(Nat)
    BY <2>1, OctetsStep, Zenon
  <2> QED
    BY <1>2, <2>1, <2>2, Zenon DEF SameJoin
<1> QED
  BY <1>1, <1>3, <1>4, Zenon

\* What receiveFrame does with a frame of the peer
LEMMA ReceiveGives ==
    ASSUME NEW t, NEW f \in PeerFrames, DOMAIN t = Fields, RoomBeside(f)
    PROVE  LET v == receiveFrame(t, Raw(f))
           IN  /\ v.buffer = t.buffer /\ (Linked(t) => Linked(v))
               /\ v.received = IF Conforming(f) THEN Append(t.received, Content(f)) ELSE t.received
               /\ Accepted(f) => v.closed = t.closed
               /\ ~Accepted(f) => v.closed
<1>0. PICK raw : raw = Raw(f)
  OBVIOUS
<1>1. PICK u, v : u = [t EXCEPT !.received = Append(@, typed(raw))] /\ v = receiveFrame(t, raw)
  OBVIOUS
<1>2. /\ DOMAIN u = Fields /\ u.buffer = t.buffer /\ u.received = Append(t.received, typed(raw))
      /\ u.connected = t.connected /\ u.registered = t.registered /\ u.closed = t.closed
  BY <1>1 DEF Fields
<1>3. /\ raw.header.payloadLength = Size(f) /\ raw.header.type = f.type
  <2>1. raw.header = Header(f)
    BY <1>0 DEF Raw
  <2> QED
    BY <2>1, HeaderSays, Zenon
<1>4. raw.header.payloadLength > MaxFrameSize \/ ~WellSized(raw) <=> ~Conforming(f)
  <2>1. Size(f) \in Nat /\ MaxFrameSize \in Nat
    BY FrameParts, FramesAssumption
  <2>2. Size(f) > MaxFrameSize <=> ~(Size(f) =< MaxFrameSize)
    BY <2>1
  <2>3. Size(f) =< MaxFrameSize /\ WellSized(Raw(f)) <=> Conforming(f)
    BY ConformIs, Zenon DEF RoomBeside
  <2> QED
    BY <1>0, <1>3, <2>2, <2>3, Zenon
<1>5. \/ ~Conforming(f) /\ v = failConnection(t)
      \/ /\ Conforming(f)
         /\ \/ v = enqueueOutbound(u, settingsAck) /\ f.type = Types.SETTINGS
            \/ v = enqueueOutbound(u, pingAck(raw.data)) /\ f.type = Types.PING
            \/ v = enqueueOutbound(u, rstFrame(raw.header.streamId)) /\ f.type = Types.PRIORITY
            \/ v = failConnection(u) /\ f.type = Types.PUSH_PROMISE
            \/ v = u /\ f.type # Types.PUSH_PROMISE
  <2>1. \/ (raw.header.payloadLength > MaxFrameSize \/ ~WellSized(raw)) /\ v = failConnection(t)
        \/ /\ ~(raw.header.payloadLength > MaxFrameSize \/ ~WellSized(raw))
           /\ \/ v = enqueueOutbound(u, settingsAck) /\ raw.header.type = Types.SETTINGS
              \/ v = enqueueOutbound(u, pingAck(raw.data)) /\ raw.header.type = Types.PING
              \/ v = enqueueOutbound(u, rstFrame(raw.header.streamId))
                 /\ raw.header.type = Types.PRIORITY
              \/ v = failConnection(u) /\ raw.header.type = Types.PUSH_PROMISE
              \/ v = u /\ raw.header.type # Types.PUSH_PROMISE
    BY <1>1 DEF receiveFrame
  <2> QED
    BY <1>3, <1>4, <2>1, Zenon
<1>6. PICK x, y, z : /\ x = settingsAck /\ y = pingAck(raw.data)
                     /\ z = rstFrame(raw.header.streamId)
  OBVIOUS
<1>7. \/ ~Conforming(f) /\ Untouched(t, v) /\ v.closed
      \/ Conforming(f) /\ Untouched(u, v) /\ v.closed = u.closed /\ f.type # Types.PUSH_PROMISE
      \/ Conforming(f) /\ Untouched(u, v) /\ v.closed /\ f.type = Types.PUSH_PROMISE
  <2>1. \A d : Untouched(u, enqueueOutbound(u, d)) /\ enqueueOutbound(u, d).closed = u.closed
    BY <1>2, EnqueueKeeps, Zenon
  <2>2. /\ Untouched(t, failConnection(t)) /\ failConnection(t).closed
        /\ Untouched(u, failConnection(u)) /\ failConnection(u).closed
    BY <1>2, FailKeeps, Zenon
  <2>3. Types.SETTINGS # Types.PUSH_PROMISE /\ Types.PING # Types.PUSH_PROMISE
        /\ Types.PRIORITY # Types.PUSH_PROMISE
    BY TypesAre
  <2>4. Untouched(u, u)
    BY <1>2, Zenon DEF Untouched
  <2>5. CASE ~Conforming(f) /\ v = failConnection(t)
    BY <2>2, <2>5, Zenon
  <2>6. CASE v = failConnection(u) /\ f.type = Types.PUSH_PROMISE /\ Conforming(f)
    BY <2>2, <2>6, Zenon
  <2>7. CASE v = u /\ f.type # Types.PUSH_PROMISE /\ Conforming(f)
    BY <2>4, <2>7, Zenon
  <2>8. CASE /\ Conforming(f)
             /\ \/ v = enqueueOutbound(u, x) /\ f.type = Types.SETTINGS
                \/ v = enqueueOutbound(u, y) /\ f.type = Types.PING
                \/ v = enqueueOutbound(u, z) /\ f.type = Types.PRIORITY
    BY <2>1, <2>3, <2>8, Zenon
  <2> QED
    BY <1>5, <1>6, <2>5, <2>6, <2>7, <2>8, Zenon
<1>8. CASE ~Conforming(f)
  <2>1. Untouched(t, v) /\ v.closed
    BY <1>7, <1>8, Zenon
  <2> QED
    BY <1>0, <1>1, <1>8, <2>1, Zenon DEF Accepted, Untouched, Linked
<1>9. CASE Conforming(f)
  <2>1. u.received = Append(t.received, Content(f))
    BY <1>0, <1>2, <1>9, TypedIs, Zenon
  <2> QED
    BY <1>0, <1>1, <1>2, <1>7, <1>9, <2>1, Zenon DEF Accepted, Untouched, Linked
<1> QED
  BY <1>8, <1>9

\* What taking the frame ahead out of the buffer gives
LEMMA FramePopped ==
    ASSUME NEW c \in Scripts, NEW k \in 0 .. Len(c), NEW b \in Seq(Nat), NEW rest \in Seq(Nat),
           IsWhole(Octets[c][k + 1], b, rest), CanPop(b)
    PROVE  /\ k < Len(c) /\ c[k + 1] \in PeerFrames
           /\ \E e \in Seq(Nat) : /\ tryPop(b) = [frame |-> Raw(c[k + 1]), rest |-> e]
                                  /\ IsWhole(Octets[c][k + 2], e, rest)
                                  /\ Len(e) + 9 =< Len(b) /\ Len(rest) =< Len(Octets[c][k + 2])
<1>1. Len(b) >= 9 /\ Len(b) \in Nat /\ Len(c) \in Nat
  BY OctetsEnd DEF CanPop, encodedSize
<1>2. k < Len(c)
  <2>1. k # Len(c)
    BY <1>1, FrameAhead
  <2> QED
    BY <1>1, <2>1
<1>3. PICK f \in PeerFrames, next \in Seq(Nat) :
         /\ f = c[k + 1] /\ next = Octets[c][k + 2]
         /\ IsWhole(Octets[c][k + 1], b, rest) /\ SameJoin(b, rest, Layout(f), next)
  BY <1>2, FrameAhead, Zenon
<1>s. SameJoin(b, rest, Layout(f), next)
  BY <1>3, Zenon
<1>l. Len(b) >= 9
  BY <1>1
<1>p. Pops(b, rest, f, next)
  BY <1>s, <1>l, PopLayout, Zenon
<1>4. PICK e \in Seq(Nat) : /\ e \o rest = next /\ Len(b) = Len(Layout(f)) + Len(e)
                            /\ tryPop(b) = [frame |-> Raw(f), rest |-> e]
  BY <1>p, Zenon DEF Pops
<1>5. Len(e) + 9 =< Len(b)
  <2>1. PICK n \in Nat, m \in Nat : n = Size(f) /\ m = Len(e) /\ Len(b) = (9 + n) + m
    <3>1. Len(Layout(f)) = 9 + Size(f) /\ Size(f) \in Nat
      BY LayoutTyped, FrameParts, Zenon
    <3>2. Len(e) \in Nat
      OBVIOUS
    <3> QED
      BY <1>4, <3>1, <3>2, Zenon
  <2> QED
    BY <2>1
<1>6. Len(rest) =< Len(next)
  <2>1. IsJoin(e \o rest, e, rest, Len(e), Len(rest))
    BY Joined, Zenon
  <2>2. IsJoin(next, e, rest, Len(e), Len(rest))
    BY <1>4, <2>1, Zenon
  <2> QED
    BY <2>2 DEF IsJoin
<1>7. IsWhole(next, e, rest)
  BY <1>4, Zenon DEF IsWhole
<1> QED
  BY <1>2, <1>3, <1>4, <1>5, <1>6, <1>7, Zenon

\* A frame popped is the next one of the script.
LEMMA PopParses ==
    ASSUME NEW c \in Scripts, \A i \in 1 .. Len(c) : RoomBeside(c[i]),
           NEW rest \in Seq(Nat), NEW t, Written(t), Parsing(t, c, rest)
    PROVE  LET u == popFrame(t)
           IN  /\ Parsing(u, c, rest)
               /\ u.closed \/ ~CanPop(u.buffer) \/ Len(u.buffer) + 9 =< Len(t.buffer)
<1>1. CASE t.closed \/ ~CanPop(t.buffer)
  <2>1. popFrame(t) = t
    BY <1>1, Zenon DEF popFrame
  <2> QED
    BY <1>1, <2>1, Zenon
<1>2. CASE ~(t.closed \/ ~CanPop(t.buffer))
  <2>1. DOMAIN t = Fields /\ t.buffer \in Seq(Nat) /\ CanPop(t.buffer)
    BY <1>2, Zenon DEF Written
  <2>2. PICK k \in 0 .. Len(c) : AllAccepted(c, k) /\ Following(t, c, rest, k)
    BY <1>2, Zenon DEF Parsing, Refused
  <2>3. PICK f \in PeerFrames, e \in Seq(Nat) :
           /\ f = c[k + 1] /\ k < Len(c) /\ tryPop(t.buffer) = [frame |-> Raw(f), rest |-> e]
           /\ IsWhole(Octets[c][k + 2], e, rest)
           /\ Len(e) + 9 =< Len(t.buffer) /\ Len(rest) =< Len(Octets[c][k + 2])
    <3>1. IsWhole(Octets[c][k + 1], t.buffer, rest)
      BY <2>2, Zenon DEF Following
    <3> QED
      BY <2>1, <3>1, FramePopped, Zenon
  <2>4. Len(c) \in Nat /\ k \in Nat /\ k + 1 \in 0 .. Len(c) /\ k + 1 \in 1 .. Len(c)
        /\ (k + 1) + 1 = k + 2
    BY <2>3, OctetsEnd
  <2>5. PICK w, v : w = [t EXCEPT !.buffer = e] /\ v = receiveFrame(w, Raw(f))
    OBVIOUS
  <2>6. popFrame(t) = v
    <3>1. tryPop(t.buffer).frame = Raw(f) /\ tryPop(t.buffer).rest = e
      BY <2>3
    <3> QED
      BY <1>2, <2>5, <3>1, Zenon DEF popFrame
  <2>7. /\ DOMAIN w = Fields /\ w.buffer = e /\ w.received = t.received /\ w.closed = t.closed
        /\ w.connected = t.connected /\ w.registered = t.registered
    BY <2>1, <2>5 DEF Fields
  <2>8. RoomBeside(f) /\ Linked(w)
    BY <2>3, <2>4, <2>7, Zenon DEF Parsing, Linked
  <2>r. DOMAIN w = Fields
    BY <2>7
  <2>g. LET x == receiveFrame(w, Raw(f))
        IN  /\ x.buffer = w.buffer /\ (Linked(w) => Linked(x))
            /\ x.received = IF Conforming(f) THEN Append(w.received, Content(f)) ELSE w.received
            /\ (Accepted(f) => x.closed = w.closed) /\ (~Accepted(f) => x.closed)
    BY <2>8, <2>r, ReceiveGives, Zenon
  <2>9. /\ v.buffer = e /\ Linked(v)
        /\ v.received = IF Conforming(f) THEN Append(t.received, Content(f)) ELSE t.received
        /\ (Accepted(f) => v.closed = t.closed) /\ (~Accepted(f) => v.closed)
    BY <2>5, <2>7, <2>8, <2>g, Zenon
  <2>10. Conforming(f) => v.received = Given(c, k + 1)
    <3>1. Append(Given(c, k), Content(c[k + 1])) = Given(c, k + 1)
      BY <2>3, <2>4, GivenNext, Zenon
    <3> QED
      BY <2>2, <2>3, <2>9, <3>1, Zenon DEF Following
  <2>11. ~Conforming(f) => v.received = Given(c, k)
    BY <2>2, <2>9, Zenon DEF Following
  <2>12. CASE Accepted(f)
    <3>1. Conforming(f)
      BY <2>12, Zenon DEF Accepted
    <3>2. Following(v, c, rest, k + 1)
      BY <2>3, <2>4, <2>9, <2>10, <3>1, Zenon DEF Following
    <3>3. AllAccepted(c, k + 1)
      <4>1. \A i \in 1 .. (k + 1) : i = k + 1 \/ i \in 1 .. k
        BY <2>4
      <4> QED
        BY <2>2, <2>3, <2>12, <4>1, Zenon DEF AllAccepted
    <3>4. ~v.closed
      BY <1>2, <2>9, <2>12, Zenon
    <3> QED
      BY <2>3, <2>4, <2>6, <2>9, <3>2, <3>3, <3>4, Zenon DEF Parsing
  <2>13. CASE ~Accepted(f)
    <3>1. Refused(v, c, rest, k)
      <4>1. v.received = Given(c, IF Conforming(c[k + 1]) THEN k + 1 ELSE k)
        BY <2>3, <2>10, <2>11, Zenon
      <4> QED
        BY <2>3, <2>9, <2>13, <4>1, Zenon DEF Refused
    <3> QED
      BY <2>2, <2>6, <2>9, <2>13, <3>1, Zenon DEF Parsing
  <2> QED
    BY <2>12, <2>13, Zenon
<1> QED
  BY <1>1, <1>2

\* Another read's octets in the buffer
LEMMA FedParses ==
    ASSUME NEW c \in Scripts, NEW bytes \in Seq(Nat), NEW rest \in Seq(Nat),
           NEW t, DOMAIN t = Fields, t.buffer \in Seq(Nat), ~t.closed, Parsing(t, c, bytes \o rest)
    PROVE  Parsing([t EXCEPT !.buffer = @ \o bytes], c, rest)
<1>1. PICK k \in 0 .. Len(c) : AllAccepted(c, k) /\ Following(t, c, bytes \o rest, k)
  BY Zenon DEF Parsing, Refused
<1>2. PICK u : u = [t EXCEPT !.buffer = @ \o bytes]
  OBVIOUS
<1>3. /\ u.buffer = t.buffer \o bytes /\ u.received = t.received /\ u.closed = t.closed
      /\ u.connected = t.connected /\ u.registered = t.registered
  BY <1>2 DEF Fields
<1>4. IsWhole(Octets[c][k + 1], u.buffer, rest)
  <2>1. (t.buffer \o bytes) \o rest = t.buffer \o (bytes \o rest)
    BY JoinedThree, Zenon
  <2> QED
    BY <1>1, <1>3, <2>1, Zenon DEF Following, IsWhole
<1>5. Following(u, c, rest, k) /\ Linked(u) /\ ~u.closed
  BY <1>1, <1>3, <1>4, Zenon DEF Parsing, Following, Linked
<1> QED
  BY <1>1, <1>2, <1>5, Zenon DEF Parsing

\* After receiveBytes the frames that are there in full have been taken out, up to
\* one that closes the connection.
LEMMA ReceiveParses ==
    ASSUME NEW c \in Scripts, \A i \in 1 .. Len(c) : RoomBeside(c[i]),
           NEW bytes \in Seq(Nat), NEW rest \in Seq(Nat),
           NEW t, Written(t), Parsing(t, c, bytes \o rest)
    PROVE  LET u == receiveBytes(t, bytes)
           IN  Parsing(u, c, rest) /\ (u.closed \/ ~CanPop(u.buffer))
<1>0. DOMAIN t = Fields /\ t.buffer \in Seq(Nat)
  BY Zenon DEF Written
<1>1. CASE t.closed
  <2>1. PICK k \in 0 .. Len(c) : AllAccepted(c, k) /\ Refused(t, c, bytes \o rest, k)
    BY <1>1, Zenon DEF Parsing
  <2>2. Len(rest) =< Len(Octets[c][k + 2])
    <3>1. k < Len(c) /\ Len(bytes \o rest) =< Len(Octets[c][k + 2])
      BY <2>1, Zenon DEF Refused
    <3>2. PICK n \in Nat : n = Len(Octets[c][k + 2])
      <4>1. k + 2 \in 1 .. Len(c) + 1
        BY <3>1, OctetsEnd
      <4>2. Octets[c][k + 2] \in Seq(Nat)
        BY <4>1, OctetsEnd, Zenon
      <4> QED
        BY <4>2
    <3>3. IsJoin(bytes \o rest, bytes, rest, Len(bytes), Len(rest))
      BY Joined, Zenon
    <3>4. Len(bytes \o rest) = Len(bytes) + Len(rest)
      BY <3>3, Zenon DEF IsJoin
    <3> QED
      BY <3>1, <3>2, <3>4
  <2>3. Refused(t, c, rest, k) /\ Linked(t)
    BY <2>1, <2>2, Zenon DEF Refused, Parsing
  <2>4. Parsing(t, c, rest)
    BY <2>1, <2>3, Zenon DEF Parsing
  <2> QED
    BY <1>1, <2>4, Zenon DEF receiveBytes
<1>2. CASE ~t.closed
  <2>1. PICK u : u = [t EXCEPT !.buffer = @ \o bytes]
    OBVIOUS
  <2>2. Parsing(u, c, rest)
    BY <1>0, <1>2, <2>1, FedParses, Zenon
  <2>3. Written(u) /\ u.buffer \in Seq(Nat)
    <3>1. /\ DOMAIN u = Fields /\ u.buffer = t.buffer \o bytes /\ u.outbound = t.outbound
          /\ u.queued = t.queued /\ u.sent = t.sent /\ u.blocked = t.blocked
          /\ u.started = t.started /\ u.healthy = t.healthy /\ u.closed = t.closed
      BY <1>0, <2>1 DEF Fields
    <3>2. u.buffer \in Seq(Nat)
      BY <1>0, <3>1, Joined DEF IsJoin
    <3>3. Healthy(u) => Healthy(t)
      BY <3>1, Zenon DEF Healthy
    <3> QED
      BY <3>1, <3>2, <3>3, SameWritten, Zenon
  <2>4. PICK L \in Nat, n \in Nat : /\ L = Len(u.buffer) /\ n = Len(u.buffer) \div encodedSize
                                    /\ L < 9 * n + 9
    <3>1. PICK L \in Nat : L = Len(u.buffer)
      BY <2>3
    <3>2. PICK m \in Nat : m = L \div 9 /\ L < 9 * m + 9
      OBVIOUS
    <3> QED
      BY <3>1, <3>2 DEF encodedSize
  <2>5. PICK q : q = [i \in 1 .. Len(u.buffer) \div encodedSize |-> i] /\ Len(q) = n
    <3>1. Len([i \in 1 .. n |-> i]) = n
      OBVIOUS
    <3>2. Len([i \in 1 .. Len(u.buffer) \div encodedSize |-> i]) = n
      BY <2>4, <3>1, Zenon
    <3> QED
      BY <3>2
  <2>6. PICK f : PopSteps(f, u, n) /\ PopAll(u, q) = f[n]
    <3>1. Len(q) = n
      BY <2>5, Zenon
    <3> QED
      BY <3>1, PopRun, Zenon
  <2>7. f[0] = u /\ \A i \in 1 .. n : f[i] = popFrame(f[i - 1])
    BY <2>6, Zenon DEF PopSteps
  <2> DEFINE Ended(v) == v.closed \/ ~CanPop(v.buffer)
             R == {m \in 0 .. n : /\ Written(f[m]) /\ Parsing(f[m], c, rest)
                                  /\ Ended(f[m]) \/ Len(f[m].buffer) + 9 * m =< L}
  <2>8. 0 \in R
    <3>1. Len(u.buffer) + 9 * 0 =< L
      BY <2>4
    <3>2. 0 \in 0 .. n
      OBVIOUS
    <3> QED
      BY <2>2, <2>3, <2>7, <3>1, <3>2, Zenon
  <2>9. ASSUME NEW m \in 0 .. n, m # n, m \in R PROVE m + 1 \in R
    <3>1. m + 1 \in 1 .. n /\ m + 1 \in 0 .. n /\ (m + 1) - 1 = m
      BY <2>9
    <3>2. PICK v, w : v = f[m] /\ w = f[m + 1]
      OBVIOUS
    <3>3. w = popFrame(v)
      BY <2>7, <3>1, <3>2
    <3>4. /\ Written(v) /\ Parsing(v, c, rest)
          /\ Ended(v) \/ Len(v.buffer) + 9 * m =< L
      BY <2>9, <3>2, Zenon
    <3> HIDE DEF Ended
    <3>5. /\ Written(popFrame(v)) /\ Parsing(popFrame(v), c, rest)
          /\ Ended(popFrame(v)) \/ Len(popFrame(v).buffer) + 9 =< Len(v.buffer)
      BY <3>4, PopWritten, PopParses, Zenon DEF Ended
    <3>6. Ended(v) => w = v
      BY <3>3, Zenon DEF popFrame, Ended
    <3>7. Ended(w) \/ Len(w.buffer) + 9 * (m + 1) =< L
      <4>1. PICK a \in Nat, b \in Nat : a = Len(v.buffer) /\ b = Len(w.buffer)
        <5>1. v.buffer \in Seq(Nat) /\ w.buffer \in Seq(Nat)
          BY <3>3, <3>4, <3>5, Zenon DEF Written
        <5> QED
          BY <5>1
      <4>2. CASE Ended(v)
        BY <3>6, <4>2, Zenon
      <4>3. CASE ~Ended(v) /\ ~Ended(w)
        <5>1. a + 9 * m =< L /\ b + 9 =< a
          BY <3>3, <3>4, <3>5, <4>1, <4>3, Zenon
        <5>2. b + 9 * (m + 1) =< L
          BY <5>1
        <5> QED
          BY <4>1, <5>2, Zenon
      <4> QED
        BY <4>2, <4>3, Zenon
    <3>8. Written(w) /\ Parsing(w, c, rest)
      BY <3>3, <3>5, Zenon
    <3> QED
      BY <3>1, <3>2, <3>7, <3>8, Zenon DEF Ended
  <2>10. PICK w : w = f[n] /\ Written(w) /\ Parsing(w, c, rest)
                  /\ (Ended(w) \/ Len(w.buffer) + 9 * n =< L)
    <3> HIDE DEF R
    <3>1. \A m \in 0 .. n : m \in R
      BY <2>8, <2>9, LoopInduction
    <3>2. n \in 0 .. n
      OBVIOUS
    <3>3. n \in R
      BY <3>1, <3>2, Zenon
    <3> QED
      BY <3>3 DEF R
  <2>11. w.closed \/ ~CanPop(w.buffer)
    <3>1. PICK a \in Nat : a = Len(w.buffer)
      <4>1. w.buffer \in Seq(Nat)
        BY <2>10, Zenon DEF Written
      <4> QED
        BY <4>1
    <3>2. CASE a + 9 * n =< L
      <4>1. ~(a >= 9)
        BY <2>4, <3>2
      <4> QED
        BY <3>1, <4>1, Zenon DEF CanPop, encodedSize
    <3> QED
      BY <2>10, <3>1, <3>2, Zenon
  <2>12. receiveBytes(t, bytes) = w
    BY <1>2, <2>1, <2>5, <2>6, <2>10, Zenon DEF receiveBytes, PopAll
  <2> QED
    BY <2>10, <2>11, <2>12, Zenon
<1> QED
  BY <1>1, <1>2

\* A step of the session that leaves what has been read where it is
Keeps(t, u) ==
    /\ u.buffer = t.buffer /\ u.received = t.received
    /\ t.closed => u.closed
    /\ Linked(t) => Linked(u)

\* It leaves the engine where it is in the script.
LEMMA KeepsParsed ==
    ASSUME NEW t, NEW u, NEW c, NEW rest, Keeps(t, u), Parsed(t, c, rest)
    PROVE  Parsed(u, c, rest)
<1>1. PICK k \in 0 .. Len(c) : /\ AllAccepted(c, k)
                               /\ \/ Refused(t, c, rest, k)
                                  \/ Following(t, c, rest, k) /\ ~CanPop(t.buffer)
  BY Zenon DEF Parsed
<1>2. Refused(t, c, rest, k) => Refused(u, c, rest, k)
  BY Zenon DEF Keeps, Refused
<1>3. Following(t, c, rest, k) /\ ~CanPop(t.buffer) => Following(u, c, rest, k) /\ ~CanPop(u.buffer)
  BY Zenon DEF Keeps, Following
<1> QED
  BY <1>1, <1>2, <1>3, Zenon DEF Parsed

\* Two such steps are one.
LEMMA KeepsTwice ==
    ASSUME NEW t, NEW u, NEW v, Keeps(t, u), Keeps(u, v)
    PROVE  Keeps(t, v)
BY Zenon DEF Keeps

\* Finding the session dead is such a step.
LEMMA TranslateKeeps ==
    ASSUME NEW t, DOMAIN t = Fields
    PROVE  /\ Keeps(t, translateEvents(t)) /\ translateEvents(t).closed = t.closed
           /\ DOMAIN translateEvents(t) = Fields
<1>1. PICK u : u = [t EXCEPT !.healthy = FALSE, !.events = {"SESSION_DEAD"}]
  OBVIOUS
<1>2. /\ DOMAIN u = Fields /\ u.buffer = t.buffer /\ u.received = t.received /\ u.closed = t.closed
      /\ u.connected = t.connected /\ u.registered = t.registered
  BY <1>1 DEF Fields
<1>3. Keeps(t, u) /\ Keeps(t, t)
  BY <1>2, Zenon DEF Keeps, Linked
<1> QED
  BY <1>1, <1>2, <1>3, Zenon DEF translateEvents

\* So is a transport failure.
LEMMA FailureKeeps ==
    ASSUME NEW t, DOMAIN t = Fields
    PROVE  Keeps(t, handleTransportFailure(t)) /\ DOMAIN handleTransportFailure(t) = Fields
<1>1. PICK u, v : /\ u = [t EXCEPT !.events = {}]
                  /\ v = [t EXCEPT !.healthy = FALSE, !.closed = TRUE, !.outbound = <<>>,
                                   !.blocked = <<>>, !.ready = FALSE, !.events = {"SESSION_DEAD"}]
  OBVIOUS
<1>2. /\ DOMAIN u = Fields /\ u.buffer = t.buffer /\ u.received = t.received /\ u.closed = t.closed
      /\ u.connected = t.connected /\ u.registered = t.registered
  BY <1>1 DEF Fields
<1>3. /\ DOMAIN v = Fields /\ v.buffer = t.buffer /\ v.received = t.received /\ v.closed = TRUE
      /\ v.connected = t.connected /\ v.registered = t.registered
  BY <1>1 DEF Fields
<1>4. Keeps(t, u) /\ Keeps(t, v)
  BY <1>2, <1>3, Zenon DEF Keeps, Linked
<1> QED
  BY <1>1, <1>2, <1>3, <1>4, Zenon DEF handleTransportFailure

\* So are the steps of Connection.
LEMMA EventsKeep ==
    ASSUME NEW t, DOMAIN t = Fields
    PROVE  Keeps(t, processSessionEvents(t)) /\ Keeps(t, updateWriteInterest(t))
           /\ DOMAIN processSessionEvents(t) = Fields
<1>1. PICK u, v : /\ u = [t EXCEPT !.events = {}, !.connected = FALSE, !.registered = FALSE,
                                   !.writeEnabled = FALSE]
                  /\ v = [t EXCEPT !.writeEnabled = t.outbound # <<>>]
  OBVIOUS
<1>2. /\ DOMAIN u = Fields /\ u.buffer = t.buffer /\ u.received = t.received /\ u.closed = t.closed
      /\ u.connected = FALSE /\ u.registered = FALSE
  BY <1>1 DEF Fields
<1>3. /\ v.buffer = t.buffer /\ v.received = t.received /\ v.closed = t.closed
      /\ v.connected = t.connected /\ v.registered = t.registered
  BY <1>1 DEF Fields
<1>4. Keeps(t, u) /\ Keeps(t, v) /\ Keeps(t, t)
  BY <1>2, <1>3, Zenon DEF Keeps, Linked
<1> QED
  BY <1>1, <1>2, <1>4, Zenon DEF processSessionEvents, updateWriteInterest

\* So is a frame queued.
LEMMA QueuedKeeps ==
    ASSUME NEW t, NEW d, DOMAIN t = Fields
    PROVE  Keeps(t, enqueueOutbound(t, d)) /\ DOMAIN enqueueOutbound(t, d) = Fields
<1>1. PICK u : u = enqueueOutbound(t, d)
  OBVIOUS
<1>2. Untouched(t, u) /\ u.closed = t.closed
  BY <1>1, EnqueueKeeps, Zenon
<1>3. Keeps(t, u) /\ DOMAIN u = Fields
  BY <1>2, Zenon DEF Untouched, Keeps, Linked
<1> QED
  BY <1>1, <1>3, Zenon

\* So is the whole write handler.
LEMMA OnWritableKeeps ==
    ASSUME NEW t, NEW n, NEW end, DOMAIN t = Fields
    PROVE  Keeps(t, onSessionWritable(t, n, end))
<1>1. PICK u, v, r, y, b, w :
         /\ u = handleTransportFailure(t) /\ v = [u EXCEPT !.events = {}]
         /\ r = advance(t.outbound, n) /\ y = SubSeq(Pending(t), 1, n)
         /\ b = (IF r = <<>> THEN <<>> ELSE Remaining(Head(r)))
         /\ w = [t EXCEPT !.outbound = r, !.sent = @ \o y, !.blocked = b]
  OBVIOUS
<1>2. Keeps(t, u) /\ DOMAIN u = Fields
  BY <1>1, FailureKeeps, Zenon
<1>3. Keeps(u, v) /\ DOMAIN v = Fields
  <2>1. /\ DOMAIN v = Fields /\ v.buffer = u.buffer /\ v.received = u.received /\ v.closed = u.closed
        /\ v.connected = u.connected /\ v.registered = u.registered
    BY <1>1, <1>2 DEF Fields
  <2> QED
    BY <2>1, Zenon DEF Keeps, Linked
<1>4. Keeps(t, w) /\ DOMAIN w = Fields
  <2>1. /\ DOMAIN w = Fields /\ w.buffer = t.buffer /\ w.received = t.received /\ w.closed = t.closed
        /\ w.connected = t.connected /\ w.registered = t.registered
    BY <1>1 DEF Fields
  <2> QED
    BY <2>1, Zenon DEF Keeps, Linked
<1>5. Keeps(t, v) /\ Keeps(t, t)
  BY <1>2, <1>3, KeepsTwice, Zenon DEF Keeps
<1>6. PICK x : x = onWritable(t, n, end)
  OBVIOUS
<1>7. x = t \/ x = v \/ x = w
  BY <1>1, <1>6, Zenon DEF onWritable
<1>8. Keeps(t, x) /\ DOMAIN x = Fields
  BY <1>3, <1>4, <1>5, <1>7, Zenon
<1>9. Keeps(t, updateWriteInterest(x))
  BY <1>8, EventsKeep, KeepsTwice, Zenon
<1> QED
  BY <1>5, <1>6, <1>9, Zenon DEF onSessionWritable

\* From m on: what is before k, and from k on
LEMMA CutOn ==
    ASSUME NEW a \in Seq(Nat), NEW m \in Nat, NEW k \in Nat, m =< k, k =< Len(a)
    PROVE  /\ SubSeq(a, m + 1, Len(a)) = SubSeq(a, m + 1, k) \o SubSeq(a, k + 1, Len(a))
           /\ SubSeq(a, m + 1, k) \in Seq(Nat) /\ SubSeq(a, k + 1, Len(a)) \in Seq(Nat)
<1>1. PICK y, z : y = SubSeq(a, 1, k) /\ z = SubSeq(a, k + 1, Len(a))
  OBVIOUS
<1>2. y \o z = a /\ IsPart(y, a, 0, k) /\ IsPart(z, a, k, Len(a) - k)
  BY <1>1, CutInTwo
<1>3. y \in Seq(Nat) /\ z \in Seq(Nat) /\ Len(y) = k
  BY <1>2 DEF IsPart
<1>4. PICK x, w : x = SubSeq(y, m + 1, k) /\ w = SubSeq(a, m + 1, k)
  OBVIOUS
<1>5. x = w
  <2>1. IsPart(x, y, m, k - m) /\ IsPart(w, a, m, k - m)
    BY <1>3, <1>4, Cut
  <2>2. m + (k - m) =< k /\ 0 + m = m
    OBVIOUS
  <2>3. IsPart(x, a, 0 + m, k - m)
    BY <1>2, <2>1, <2>2, PartOfPart, Zenon
  <2> QED
    BY <2>1, <2>2, <2>3, OnePart
<1>6. SubSeq(y \o z, m + 1, Len(y \o z)) = SubSeq(y, m + 1, Len(y)) \o z
  <2>1. m =< Len(y)
    BY <1>3
  <2> QED
    BY <1>3, <2>1, DropLess, Zenon
<1>7. w \in Seq(Nat)
  BY <1>4, Cut DEF IsPart
<1> QED
  BY <1>1, <1>2, <1>3, <1>4, <1>5, <1>6, <1>7, Zenon

\* What is left of the octets of a call after the first m of them, and what follows
After(bytes, m, rest) == SubSeq(bytes, m + 1, Len(bytes)) \o rest

\* Each of the n reads takes the next octets.
TakesNext(bytes, rest, n, g) ==
    /\ After(bytes, g[0], rest) = bytes \o rest /\ After(bytes, g[n], rest) = rest
    /\ \A i \in 1 .. n :
          /\ Reads(bytes)[i] \in Seq(Nat) /\ After(bytes, g[i], rest) \in Seq(Nat)
          /\ After(bytes, g[i - 1], rest) = Reads(bytes)[i] \o After(bytes, g[i], rest)

\* The reads of onReadable do so.
LEMMA AfterCut ==
    ASSUME NEW bytes \in Seq(Nat), NEW rest \in Seq(Nat), NEW n \in Nat, NEW g,
           CutsAt(bytes, n, g)
    PROVE  TakesNext(bytes, rest, n, g)
<1>1. PICK L \in Nat : L = Len(bytes)
  OBVIOUS
<1>2. g[0] = 0 /\ g[n] = L
  BY <1>1, Zenon DEF CutsAt
<1>3. After(bytes, 0, rest) = bytes \o rest
  <2>1. SubSeq(bytes, 0 + 1, L) = bytes
    BY <1>1
  <2> QED
    BY <1>1, <2>1, Zenon DEF After
<1>4. After(bytes, L, rest) = rest
  <2>1. SubSeq(bytes, L + 1, L) = <<>>
    BY <1>1
  <2>2. <<>> \o rest = rest
    BY JoinedEmpty, Zenon
  <2> QED
    BY <1>1, <2>1, <2>2, Zenon DEF After
<1>5. ASSUME NEW i \in 1 .. n
      PROVE  /\ Reads(bytes)[i] \in Seq(Nat) /\ After(bytes, g[i], rest) \in Seq(Nat)
             /\ After(bytes, g[i - 1], rest) = Reads(bytes)[i] \o After(bytes, g[i], rest)
  <2>1. i - 1 \in 0 .. n /\ i \in 0 .. n
    OBVIOUS
  <2>2. PICK m \in Nat, k \in Nat : m = g[i - 1] /\ k = g[i] /\ m =< k /\ k =< L
    BY <1>1, <2>1, Zenon DEF CutsAt
  <2>3. Reads(bytes)[i] = SubSeq(bytes, m + 1, k)
    BY <2>2, Zenon DEF CutsAt
  <2>4. /\ SubSeq(bytes, m + 1, L) = SubSeq(bytes, m + 1, k) \o SubSeq(bytes, k + 1, L)
        /\ SubSeq(bytes, m + 1, k) \in Seq(Nat) /\ SubSeq(bytes, k + 1, L) \in Seq(Nat)
    BY <1>1, <2>2, CutOn
  <2>5. PICK x \in Seq(Nat), y \in Seq(Nat) : x = SubSeq(bytes, m + 1, k) /\ y = SubSeq(bytes, k + 1, L)
    BY <2>4, Zenon
  <2>6. (x \o y) \o rest = x \o (y \o rest)
    BY JoinedThree, Zenon
  <2>7. After(bytes, k, rest) = y \o rest /\ After(bytes, m, rest) = (x \o y) \o rest
    BY <1>1, <2>4, <2>5, Zenon DEF After
  <2>8. y \o rest \in Seq(Nat)
    BY Joined DEF IsJoin
  <2> QED
    BY <2>2, <2>3, <2>5, <2>6, <2>7, <2>8, Zenon
<1> QED
  BY <1>2, <1>3, <1>4, <1>5, Zenon DEF TakesNext

\* However the octets are cut into reads
LEMMA OnReadableParses ==
    ASSUME NEW c \in Scripts, \A i \in 1 .. Len(c) : RoomBeside(c[i]),
           NEW bytes \in Seq(Nat), NEW rest \in Seq(Nat), NEW end,
           NEW t, Written(t), Linked(t), Healthy(t), Parsed(t, c, bytes \o rest)
    PROVE  LET u == onReadable(t, bytes, end) IN Parsed(u, c, rest) /\ Linked(u)
<1>g. PICK g : \E n \in Nat : CutsAt(bytes, n, g)
  BY ReadsCut, Zenon
<1>1. PICK n \in Nat : CutsAt(bytes, n, g)
  BY <1>g
<1>2. PICK q : q = Reads(bytes) /\ Len(q) = n
  BY <1>1, Zenon DEF CutsAt
<1>3. PICK f : ReceiveSteps(f, t, q, n) /\ ReceiveAll(t, q) = f[n]
  <2>1. Len(q) = n
    BY <1>2, Zenon
  <2> QED
    BY <2>1, ReceiveRun, Zenon
<1>4. f[0] = t /\ \A i \in 1 .. n : f[i] = translateEvents(receiveBytes(f[i - 1], q[i]))
  BY <1>3, Zenon DEF ReceiveSteps
<1>5. /\ After(bytes, g[0], rest) = bytes \o rest /\ After(bytes, g[n], rest) = rest
      /\ \A i \in 1 .. n : /\ q[i] \in Seq(Nat) /\ After(bytes, g[i], rest) \in Seq(Nat)
                           /\ After(bytes, g[i - 1], rest) = q[i] \o After(bytes, g[i], rest)
  <2>1. TakesNext(bytes, rest, n, g)
    BY <1>1, AfterCut, Zenon
  <2> QED
    BY <1>2, <2>1, Zenon DEF TakesNext
<1> DEFINE Ended(v) == v.closed \/ ~CanPop(v.buffer)
           R == {m \in 0 .. n : /\ Written(f[m]) /\ Parsing(f[m], c, After(bytes, g[m], rest))
                                /\ Ended(f[m])}
<1>6. 0 \in R
  <2>1. ~t.closed
    BY Zenon DEF Healthy
  <2>2. Parsing(t, c, bytes \o rest) /\ Ended(t)
    BY <2>1, Zenon DEF Parsed, Refused, Parsing
  <2>3. 0 \in 0 .. n
    OBVIOUS
  <2> QED
    BY <1>4, <1>5, <2>2, <2>3, Zenon
<1>7. ASSUME NEW m \in 0 .. n, m # n, m \in R PROVE m + 1 \in R
  <2>1. m + 1 \in 1 .. n /\ m + 1 \in 0 .. n /\ (m + 1) - 1 = m
    BY <1>7
  <2>v. PICK v : v = f[m]
    OBVIOUS
  <2>2. PICK b \in Seq(Nat), next \in Seq(Nat) :
           /\ b = q[m + 1] /\ next = After(bytes, g[m + 1], rest) /\ v = f[m]
           /\ After(bytes, g[m], rest) = b \o next
    BY <1>5, <2>1, <2>v
  <2>3. f[m + 1] = translateEvents(receiveBytes(v, b))
    BY <1>4, <2>1, <2>2
  <2>4. Written(v) /\ Parsing(v, c, b \o next)
    BY <1>7, <2>2, Zenon
  <2>5. PICK x, y : x = receiveBytes(v, b) /\ y = translateEvents(x)
    OBVIOUS
  <2>6. Written(x) /\ Written(y)
    BY <2>4, <2>5, ReceiveWritten, TranslateWritten, Zenon
  <2>7. Parsing(x, c, next) /\ (x.closed \/ ~CanPop(x.buffer))
    BY <2>4, <2>5, ReceiveParses, Zenon
  <2>8. Keeps(x, y) /\ y.closed = x.closed
    <3>1. DOMAIN x = Fields
      BY <2>6, Zenon DEF Written
    <3> QED
      BY <2>5, <3>1, TranslateKeeps, Zenon
  <2>9. Parsing(y, c, next)
    <3>1. PICK k \in 0 .. Len(c) : /\ AllAccepted(c, k)
                                   /\ \/ Refused(x, c, next, k)
                                      \/ Following(x, c, next, k) /\ ~x.closed
      BY <2>7, Zenon DEF Parsing
    <3>2. Refused(x, c, next, k) => Refused(y, c, next, k)
      BY <2>8, Zenon DEF Keeps, Refused
    <3>3. Following(x, c, next, k) /\ ~x.closed => Following(y, c, next, k) /\ ~y.closed
      BY <2>8, Zenon DEF Keeps, Following
    <3>4. Linked(y)
      BY <2>7, <2>8, Zenon DEF Parsing, Keeps
    <3> QED
      BY <3>1, <3>2, <3>3, <3>4, Zenon DEF Parsing
  <2>10. Ended(y)
    BY <2>7, <2>8, Zenon DEF Keeps
  <2> QED
    BY <2>1, <2>2, <2>3, <2>5, <2>6, <2>9, <2>10, Zenon
<1>8. PICK u : u = f[n] /\ Written(u) /\ Parsing(u, c, rest) /\ Ended(u)
  <2> HIDE DEF R
  <2>1. \A m \in 0 .. n : m \in R
    BY <1>6, <1>7, LoopInduction
  <2>2. n \in 0 .. n
    OBVIOUS
  <2>3. n \in R
    BY <2>1, <2>2, Zenon
  <2> QED
    BY <1>5, <2>3, Zenon DEF R
<1>9. Parsed(u, c, rest) /\ Linked(u)
  BY <1>8, Zenon DEF Parsing, Parsed
<1>10. Parsed(handleTransportFailure(u), c, rest) /\ Linked(handleTransportFailure(u))
  <2>1. PICK v : v = handleTransportFailure(u) /\ Keeps(u, v)
    BY <1>8, FailureKeeps, Zenon DEF Written
  <2> QED
    BY <1>9, <2>1, KeepsParsed, Zenon DEF Keeps
<1>11. onReadable(t, bytes, end) = (IF end = "WOULD_BLOCK" THEN u ELSE handleTransportFailure(u))
  BY <1>2, <1>3, <1>8, Zenon DEF onReadable, ReceiveAll
<1> QED
  BY <1>9, <1>10, <1>11, Zenon

\* The whole read handler of a session that is healthy
LEMMA OnSessionParses ==
    ASSUME NEW c \in Scripts, \A i \in 1 .. Len(c) : RoomBeside(c[i]),
           NEW bytes \in Seq(Nat), NEW rest \in Seq(Nat), NEW end,
           NEW t, Written(t), Linked(t), t.connected, Healthy(t), Parsed(t, c, bytes \o rest)
    PROVE  LET u == onSessionReadable(t, bytes, end) IN Parsed(u, c, rest) /\ Linked(u)
<1>1. PICK u, v, w : /\ u = onReadable(t, bytes, end) /\ v = processSessionEvents(u)
                     /\ w = updateWriteInterest(v)
  OBVIOUS
<1>2. Parsed(u, c, rest) /\ Linked(u)
  BY <1>1, OnReadableParses, Zenon
<1>3. DOMAIN u = Fields
  BY <1>1, OnReadableWritten, Zenon DEF Written
<1>4. Keeps(u, v) /\ DOMAIN v = Fields
  BY <1>1, <1>3, EventsKeep, Zenon
<1>5. Keeps(v, w)
  BY <1>1, <1>4, EventsKeep, Zenon
<1>6. Keeps(u, w)
  BY <1>4, <1>5, KeepsTwice, Zenon
<1>7. Parsed(w, c, rest) /\ Linked(w)
  BY <1>2, <1>6, KeepsParsed, Zenon DEF Keeps
<1>8. onSessionReadable(t, bytes, end) = w
  BY <1>1, Zenon DEF onSessionReadable
<1> QED
  BY <1>7, <1>8, Zenon

\* The read handler of one that is not reads nothing.
LEMMA DeadReadKeeps ==
    ASSUME NEW t, NEW bytes, NEW end, DOMAIN t = Fields, ~Healthy(t)
    PROVE  Keeps(t, onSessionReadable(t, bytes, end))
<1>1. PICK v, w : v = processSessionEvents(t) /\ w = updateWriteInterest(v)
  OBVIOUS
<1>2. Keeps(t, v) /\ DOMAIN v = Fields
  BY <1>1, EventsKeep, Zenon
<1>3. Keeps(v, w)
  BY <1>1, <1>2, EventsKeep, Zenon
<1>4. Keeps(t, w) /\ Keeps(t, t)
  BY <1>2, <1>3, KeepsTwice, Zenon DEF Keeps
<1>5. onReadable(t, bytes, end) = t
  BY Zenon DEF onReadable
<1> QED
  BY <1>1, <1>4, <1>5, Zenon DEF onSessionReadable

\* No frame of the peer has padding and nothing beside it.
NoFullPadding == \A c \in Scripts : \A i \in 1 .. Len(c) : RoomBeside(c[i])

\* The inductive invariant of the input
InInv == OutInv /\ Linked(s) /\ Parsed(s, script, stream)

\* At first nothing has been read.
LEMMA InInvInit == Init => InInv
<1> SUFFICES ASSUME Init PROVE InInv
  OBVIOUS
<1>1. PICK t, u, v, w :
         /\ t = NewSession /\ u = enqueueOutbound(t, Preface) /\ v = enqueueOutbound(u, settingsFrame)
         /\ w = updateWriteInterest(v)
  OBVIOUS
<1>2. /\ DOMAIN t = Fields /\ t.buffer = <<>> /\ t.received = <<>> /\ t.connected
  BY <1>1 DEF NewSession, Fields
<1>3. Keeps(t, u) /\ DOMAIN u = Fields
  BY <1>1, <1>2, QueuedKeeps, Zenon
<1>4. Keeps(u, v) /\ DOMAIN v = Fields
  BY <1>1, <1>3, QueuedKeeps, Zenon
<1>5. Keeps(v, w)
  BY <1>1, <1>4, EventsKeep, Zenon
<1>6. Keeps(t, w)
  BY <1>3, <1>4, <1>5, KeepsTwice, Zenon
<1>7. s = w /\ script \in Scripts /\ stream = Octets[script][1]
  BY <1>1, Zenon DEF Init
<1>8. Parsed(t, script, stream)
  <2>1. Len(script) \in Nat /\ stream \in Seq(Nat)
    BY <1>7, OutInvInit, OctetsEnd, Zenon DEF OutInv
  <2>2. 0 \in 0 .. Len(script) /\ 0 + 1 = 1
    BY <2>1
  <2>3. AllAccepted(script, 0)
    <3>1. \A i \in 1 .. 0 : FALSE
      OBVIOUS
    <3> QED
      BY <3>1, Zenon DEF AllAccepted
  <2>4. t.received = Given(script, 0)
    <3>1. \A h : [i \in 1 .. 0 |-> h[i]] = <<>>
      OBVIOUS
    <3>2. PICK h : h = [i \in 1 .. 0 |-> Content(script[i])]
      OBVIOUS
    <3>3. h = [i \in 1 .. 0 |-> h[i]]
      BY <3>2
    <3> QED
      BY <1>2, <3>1, <3>2, <3>3 DEF Given
  <2>5. IsWhole(Octets[script][1], t.buffer, stream)
    BY <1>2, <1>7, <2>1, JoinedEmpty, Zenon DEF IsWhole
  <2>6. ~CanPop(t.buffer)
    BY <1>2 DEF CanPop, encodedSize
  <2>7. Following(t, script, stream, 0)
    BY <2>2, <2>4, <2>5, Zenon DEF Following
  <2> QED
    BY <2>2, <2>3, <2>6, <2>7, Zenon DEF Parsed
<1>9. Linked(s) /\ Parsed(s, script, stream)
  BY <1>2, <1>6, <1>7, <1>8, KeepsParsed, Zenon DEF Keeps, Linked
<1> QED
  BY <1>9, OutInvInit, Zenon DEF InInv

\* Every action keeps the engine in step with the script.
LEMMA InInvNext == NoFullPadding /\ InInv /\ [Next]_vars => InInv'
<1> SUFFICES ASSUME NoFullPadding, InInv, [Next]_vars PROVE InInv'
  OBVIOUS
<1>1. /\ Written(s) /\ stream \in Seq(Nat) /\ script \in Scripts
      /\ Linked(s) /\ Parsed(s, script, stream) /\ OutInv'
  BY OutInvNext, Zenon DEF InInv, OutInv
<1>2. DOMAIN s = Fields
  BY <1>1, Zenon DEF Written
<1>3. \A i \in 1 .. Len(script) : RoomBeside(script[i])
  BY <1>1, Zenon DEF NoFullPadding
<1>4. PICK t, u : t = s /\ u = s'
  OBVIOUS
<1>5. ASSUME Keeps(t, u), stream' = stream, script' = script PROVE InInv'
  <2>1. Parsed(u, script, stream) /\ Linked(u)
    BY <1>1, <1>4, <1>5, KeepsParsed, Zenon DEF Keeps
  <2> QED
    BY <1>1, <1>4, <1>5, <2>1, Zenon DEF InInv
<1>6. CASE ReadEvent
  <2>1. PICK n \in 0 .. Len(stream), end \in Ends :
           /\ u = onSessionReadable(t, SubSeq(stream, 1, n), end)
           /\ stream' = IF Healthy(t) THEN SubSeq(stream, n + 1, Len(stream)) ELSE stream
    BY <1>4, <1>6, Zenon DEF ReadEvent
  <2>2. t.connected /\ script' = script
    BY <1>1, <1>4, <1>6, Zenon DEF ReadEvent, Linked
  <2>3. CASE Healthy(t)
    <3>1. PICK bytes \in Seq(Nat), rest \in Seq(Nat) :
             /\ bytes = SubSeq(stream, 1, n) /\ rest = SubSeq(stream, n + 1, Len(stream))
             /\ bytes \o rest = stream
      <4>1. n \in Nat /\ n =< Len(stream)
        BY <1>1
      <4>2. /\ IsPart(SubSeq(stream, 1, n), stream, 0, n)
            /\ IsPart(SubSeq(stream, n + 1, Len(stream)), stream, n, Len(stream) - n)
            /\ SubSeq(stream, 1, n) \o SubSeq(stream, n + 1, Len(stream)) = stream
        BY <1>1, <4>1, CutInTwo
      <4> QED
        BY <4>2, Zenon DEF IsPart
    <3>2. Parsed(t, script, bytes \o rest) /\ Written(t) /\ Linked(t)
      BY <1>1, <1>4, <3>1, Zenon
    <3>3. u = onSessionReadable(t, bytes, end) /\ stream' = rest
      BY <2>1, <2>3, <3>1, Zenon
    <3>4. Parsed(onSessionReadable(t, bytes, end), script, rest)
          /\ Linked(onSessionReadable(t, bytes, end))
      BY <1>1, <1>3, <2>2, <2>3, <3>2, OnSessionParses, Zenon
    <3> QED
      BY <1>1, <1>4, <2>2, <3>3, <3>4, Zenon DEF InInv
  <2>4. CASE ~Healthy(t)
    BY <1>2, <1>4, <1>5, <2>1, <2>2, <2>4, DeadReadKeeps, Zenon
  <2> QED
    BY <2>3, <2>4
<1>7. CASE WriteEvent
  <2>1. Keeps(t, u)
    BY <1>2, <1>4, <1>7, OnWritableKeeps, Zenon DEF WriteEvent
  <2> QED
    BY <1>5, <1>7, <2>1, Zenon DEF WriteEvent
<1>8. CASE ReadWriteEvent
  <2>1. PICK end \in Ends : LET x == onSessionReadable(t, stream, end)
                            IN  u = onSessionWritable(x, Len(Pending(x)), "WOULD_BLOCK")
    BY <1>4, <1>8, Zenon DEF ReadWriteEvent
  <2>2. PICK x, m : x = onSessionReadable(t, stream, end) /\ u = onSessionWritable(x, m, "WOULD_BLOCK")
    BY <2>1, Zenon
  <2>3. t.connected /\ script' = script /\ stream' = IF Healthy(t) THEN <<>> ELSE stream
    BY <1>1, <1>4, <1>8, Zenon DEF ReadWriteEvent, Linked
  <2>4. Keeps(x, u)
    <3>1. Written(x)
      BY <1>1, <1>4, <2>2, OnSessionWritten, Zenon
    <3>2. DOMAIN x = Fields
      BY <3>1, Zenon DEF Written
    <3> QED
      BY <2>2, <3>2, OnWritableKeeps, Zenon
  <2>5. CASE Healthy(t)
    <3>1. PICK rest \in Seq(Nat) : rest = <<>>
      <4>1. <<>> \in Seq(Nat)
        OBVIOUS
      <4> QED
        BY <4>1
    <3>2. Parsed(t, script, stream \o rest) /\ Written(t) /\ Linked(t)
      BY <1>1, <1>4, <3>1, JoinedEmpty, Zenon
    <3>3. Parsed(onSessionReadable(t, stream, end), script, rest)
          /\ Linked(onSessionReadable(t, stream, end))
      BY <1>1, <1>3, <2>3, <2>5, <3>2, OnSessionParses, Zenon
    <3>4. Parsed(u, script, rest) /\ Linked(u)
      BY <2>2, <2>4, <3>3, KeepsParsed, Zenon DEF Keeps
    <3> QED
      BY <1>1, <1>4, <2>3, <2>5, <3>1, <3>4, Zenon DEF InInv
  <2>6. CASE ~Healthy(t)
    <3>1. Keeps(t, x)
      BY <1>2, <1>4, <2>2, <2>6, DeadReadKeeps, Zenon
    <3>2. Keeps(t, u)
      BY <2>4, <3>1, KeepsTwice, Zenon
    <3> QED
      BY <1>5, <2>3, <2>6, <3>2, Zenon
  <2> QED
    BY <2>5, <2>6
<1>9. \A x, d : DOMAIN x = Fields => /\ Keeps(x, updateWriteInterest(x))
                                     /\ Keeps(x, updateWriteInterest(enqueueOutbound(x, d)))
  BY QueuedKeeps, EventsKeep, KeepsTwice, Zenon
<1>10. CASE submitOnReactor
  <2>1. Keeps(t, u)
    BY <1>2, <1>4, <1>9, <1>10, Zenon DEF submitOnReactor
  <2> QED
    BY <1>5, <1>10, <2>1, Zenon DEF submitOnReactor
<1>11. CASE onPingTimer
  <2>1. Keeps(t, u)
    BY <1>2, <1>4, <1>9, <1>11, Zenon DEF onPingTimer
  <2> QED
    BY <1>5, <1>11, <2>1, Zenon DEF onPingTimer
<1>12. CASE closeOnReactor
  <2>1. /\ u.buffer = t.buffer /\ u.received = t.received /\ u.closed = TRUE
        /\ u.connected = FALSE /\ u.registered = FALSE
    BY <1>2, <1>4, <1>12 DEF closeOnReactor, Fields
  <2>2. Keeps(t, u)
    BY <2>1, Zenon DEF Keeps, Linked
  <2> QED
    BY <1>5, <1>12, <2>2, Zenon DEF closeOnReactor
<1>13. CASE UNCHANGED vars
  <2>1. Keeps(t, t) /\ u = t
    BY <1>4, <1>13, Zenon DEF vars, Keeps
  <2> QED
    BY <1>5, <1>13, <2>1, Zenon DEF vars
<1> QED
  BY <1>6, <1>7, <1>8, <1>10, <1>11, <1>12, <1>13, Zenon DEF Next

\* How many octets there are after the first n frames of a script
Left(c, n) == Len(Octets[c][n + 1])

\* Every frame takes at least nine octets, so the further the fewer are left.
LEMMA LeftShrinks ==
    ASSUME NEW c \in Scripts
    PROVE  /\ Len(c) \in Nat /\ \A n \in 0 .. Len(c) : Left(c, n) \in Nat
           /\ \A n \in 0 .. Len(c) : n < Len(c) =>
                  Left(c, n) = Len(Layout(c[n + 1])) + Left(c, n + 1) /\ Len(Layout(c[n + 1])) >= 9
           /\ \A i, j \in 0 .. Len(c) : i =< j => Left(c, j) =< Left(c, i)
<1>1. PICK K \in Nat : K = Len(c)
  BY OctetsEnd
<1>2. ASSUME NEW n \in 0 .. K PROVE Left(c, n) \in Nat
  <2>1. n + 1 \in 1 .. Len(c) + 1
    BY <1>1
  <2>2. PICK x \in Seq(Nat) : x = Octets[c][n + 1]
    BY <2>1, OctetsEnd, Zenon
  <2>3. Len(x) \in Nat
    OBVIOUS
  <2> QED
    BY <2>2, <2>3, Zenon DEF Left
<1>3. ASSUME NEW n \in 0 .. K, n < K
      PROVE  Left(c, n) = Len(Layout(c[n + 1])) + Left(c, n + 1) /\ Len(Layout(c[n + 1])) >= 9
  <2>1. n + 1 \in 1 .. Len(c)
    BY <1>1, <1>3
  <2>2. PICK f \in PeerFrames, x \in Seq(Nat) :
           f = c[n + 1] /\ x = Octets[c][(n + 1) + 1] /\ Octets[c][n + 1] = Layout(f) \o x
    BY <2>1, OctetsStep, Zenon
  <2>3. /\ Layout(f) \in Seq(Nat) /\ Len(Layout(f)) = 9 + Size(f) /\ Size(f) \in Nat
    BY LayoutTyped, FrameParts, Zenon
  <2>4. IsJoin(Layout(f) \o x, Layout(f), x, Len(Layout(f)), Len(x))
    BY <2>3, Joined, Zenon
  <2>5. Len(Layout(f) \o x) = Len(Layout(f)) + Len(x)
    BY <2>4, Zenon DEF IsJoin
  <2>6. Len(Layout(f)) >= 9
    BY <2>3
  <2> QED
    BY <2>2, <2>5, <2>6, Zenon DEF Left
<1>4. ASSUME NEW i \in 0 .. K, NEW j \in 0 .. K, i =< j PROVE Left(c, j) =< Left(c, i)
  <2> DEFINE R == {m \in 0 .. K : i =< m => Left(c, m) =< Left(c, i)}
  <2>1. 0 \in R
    <3>1. i =< 0 => i = 0
      OBVIOUS
    <3>2. 0 \in 0 .. K /\ (\A a \in Nat : a =< a)
      OBVIOUS
    <3> QED
      BY <1>2, <3>1, <3>2, Zenon
  <2>2. ASSUME NEW m \in 0 .. K, m # K, m \in R PROVE m + 1 \in R
    <3>1. m + 1 \in 0 .. K /\ m < K
      BY <2>2
    <3>2. PICK x \in Nat, y \in Nat, z \in Nat : x = Left(c, m) /\ y = Left(c, m + 1) /\ z = Left(c, i)
      BY <1>2, <3>1
    <3>3. PICK a : a = Len(Layout(c[m + 1])) /\ x = a + y /\ a >= 9
      BY <1>3, <3>1, <3>2
    <3>4. a \in Nat
      <4>1. c[m + 1] \in PeerFrames
        <5>1. m + 1 \in 1 .. Len(c)
          BY <1>1, <3>1
        <5> QED
          BY <5>1, OctetsStep, Zenon
      <4>2. Layout(c[m + 1]) \in Seq(Nat)
        BY <4>1, LayoutTyped, Zenon
      <4> QED
        BY <3>3, <4>2
    <3>5. i =< m => x =< z
      BY <2>2, <3>2, Zenon
    <3>6. i =< m + 1 => y =< z
      <4>1. CASE i =< m
        BY <3>3, <3>4, <3>5, <4>1
      <4>2. CASE i = m + 1
        <5>1. y = z
          BY <3>2, <4>2, Zenon
        <5> QED
          BY <5>1
      <4> QED
        BY <4>1, <4>2
    <3> QED
      BY <3>1, <3>2, <3>6, Zenon
  <2>3. j \in R
    <3> HIDE DEF R
    <3> QED
      BY <2>1, <2>2, LoopInduction
  <2> QED
    BY <1>4, <2>3, Zenon
<1>5. Len(c) \in Nat /\ \A n \in 0 .. Len(c) : Left(c, n) \in Nat
  BY <1>1, <1>2, Zenon
<1>6. \A n \in 0 .. Len(c) : n < Len(c) =>
         Left(c, n) = Len(Layout(c[n + 1])) + Left(c, n + 1) /\ Len(Layout(c[n + 1])) >= 9
  BY <1>1, <1>3, Zenon
<1>7. \A i, j \in 0 .. Len(c) : i =< j => Left(c, j) =< Left(c, i)
  BY <1>1, <1>4, Zenon
<1> QED
  BY <1>5, <1>6, <1>7, Zenon

\* With w octets still to be read, n frames have been read to their last octet.
Whole(c, w, n) == w =< Left(c, n) /\ (n < Len(c) => w > Left(c, n + 1))

\* No more than n can be.
LEMMA OneWhole ==
    ASSUME NEW c \in Scripts, NEW w \in Nat, NEW n \in 0 .. Len(c), NEW m \in 0 .. Len(c),
           Whole(c, w, n), w =< Left(c, m)
    PROVE  m =< n
<1> SUFFICES ASSUME ~(m =< n) PROVE FALSE
  OBVIOUS
<1>1. PICK K \in Nat : K = Len(c) /\ n \in 0 .. K /\ m \in 0 .. K
  BY LeftShrinks, Zenon
<1>2. n < K /\ n + 1 =< m /\ n + 1 \in 0 .. K
  BY <1>1
<1>3. PICK x \in Nat, y \in Nat : x = Left(c, m) /\ y = Left(c, n + 1)
  BY <1>1, <1>2, LeftShrinks, Zenon
<1>4. x =< y
  BY <1>1, <1>2, <1>3, LeftShrinks, Zenon
<1>5. w =< x /\ w > y
  BY <1>1, <1>2, <1>3, Zenon DEF Whole
<1> QED
  BY <1>4, <1>5

\* There is such a number of frames.
LEMMA SomeWhole ==
    ASSUME NEW c \in Scripts, NEW w \in Nat, NEW k \in 0 .. Len(c), w =< Left(c, k)
    PROVE  \E n \in 0 .. Len(c) : Whole(c, w, n)
<1>1. PICK K \in Nat : K = Len(c) /\ k \in 0 .. K
  BY LeftShrinks, Zenon
<1> DEFINE R == {m \in 0 .. K : k =< m => w =< Left(c, m)}
<1> SUFFICES ASSUME \A n \in 0 .. K : ~Whole(c, w, n) PROVE FALSE
  BY <1>1, Zenon
<1>2. 0 \in R
  <2>1. (k =< 0 => k = 0) /\ 0 \in 0 .. K
    BY <1>1
  <2> QED
    BY <2>1, Zenon
<1>3. ASSUME NEW m \in 0 .. K, m # K, m \in R PROVE m + 1 \in R
  <2>1. m + 1 \in 0 .. K /\ (k =< m + 1 => k =< m \/ k = m + 1)
    BY <1>1, <1>3
  <2>2. CASE k =< m
    <3>1. ~(w > Left(c, m + 1))
      BY <1>1, <1>3, <2>2, Zenon DEF Whole
    <3>2. PICK x \in Nat : x = Left(c, m + 1)
      BY <1>1, <2>1, LeftShrinks, Zenon
    <3>3. w =< x
      BY <3>1, <3>2
    <3> QED
      BY <2>1, <3>2, <3>3, Zenon
  <2>3. CASE k = m + 1
    BY <2>1, <2>3, Zenon
  <2> QED
    BY <2>1, <2>2, <2>3, Zenon
<1>4. K \in R /\ K \in 0 .. K /\ k =< K /\ ~(K < K)
  <2> HIDE DEF R
  <2>1. \A m \in 0 .. K : m \in R
    BY <1>2, <1>3, LoopInduction
  <2>2. K \in 0 .. K /\ k =< K /\ ~(K < K)
    BY <1>1
  <2> QED
    BY <2>1, <2>2, Zenon
<1> QED
  BY <1>1, <1>4, Zenon DEF Whole

\* Where the engine is tells how many frames have been read.
LEMMA ParsedWhole ==
    ASSUME NEW c \in Scripts, NEW rest \in Seq(Nat), NEW t, t.buffer \in Seq(Nat), NEW k \in 0 .. Len(c)
    PROVE  /\ Following(t, c, rest, k) /\ ~CanPop(t.buffer) => Whole(c, Len(rest), k)
           /\ Refused(t, c, rest, k) => k + 1 \in 0 .. Len(c) /\ Len(rest) =< Left(c, k + 1)
<1>1. PICK K \in Nat, w \in Nat, b \in Seq(Nat) : K = Len(c) /\ k \in 0 .. K /\ w = Len(rest) /\ b = t.buffer
  <2>1. Len(c) \in Nat
    BY LeftShrinks, Zenon
  <2>2. Len(rest) \in Nat
    OBVIOUS
  <2> QED
    BY <2>1, <2>2, Zenon
<1>2. ASSUME Following(t, c, rest, k), ~CanPop(b) PROVE Whole(c, w, k)
  <2>1. IsWhole(Octets[c][k + 1], b, rest)
    BY <1>1, <1>2, Zenon DEF Following
  <2>2. PICK l \in Nat, x \in Nat : l = Len(b) /\ x = Left(c, k) /\ x = l + w
    <3>1. IsJoin(b \o rest, b, rest, Len(b), Len(rest))
      BY Joined, Zenon
    <3>2. Len(b \o rest) = Len(b) + Len(rest)
      BY <3>1, Zenon DEF IsJoin
    <3>3. Left(c, k) = Len(b) + w
      BY <1>1, <2>1, <3>2, Zenon DEF IsWhole, Left
    <3>4. Len(b) \in Nat /\ Left(c, k) \in Nat
      BY <1>1, LeftShrinks
    <3> QED
      BY <3>3, <3>4, Zenon
  <2>3. w =< x
    BY <2>2
  <2>4. ASSUME k < K PROVE w > Left(c, k + 1)
    <3>1. k + 1 \in 0 .. K
      BY <2>4
    <3>2. PICK a \in Nat, y \in Nat : /\ a = Len(Layout(c[k + 1])) /\ y = Left(c, k + 1)
                                      /\ x = a + y /\ a >= 9
      <4>1. c[k + 1] \in PeerFrames
        BY <1>1, <2>1, <2>4, FrameAhead, Zenon
      <4>2. Len(Layout(c[k + 1])) \in Nat
        <5>1. Layout(c[k + 1]) \in Seq(Nat)
          BY <4>1, LayoutTyped, Zenon
        <5> QED
          BY <5>1
      <4>3. Left(c, k + 1) \in Nat
        BY <1>1, <3>1, LeftShrinks, Zenon
      <4>4. Left(c, k) = Len(Layout(c[k + 1])) + Left(c, k + 1) /\ Len(Layout(c[k + 1])) >= 9
        BY <1>1, <2>4, LeftShrinks, Zenon
      <4> QED
        BY <2>2, <4>2, <4>3, <4>4, Zenon
    <3>3. l < a
      <4>1. CASE l >= 9
        <5>1. PICK f \in PeerFrames, next \in Seq(Nat) : f = c[k + 1] /\ SameJoin(b, rest, Layout(f), next)
          BY <1>1, <2>1, <2>4, FrameAhead, Zenon
        <5>2. SameJoin(b, rest, Layout(f), next)
          BY <5>1, Zenon
        <5>3. Len(b) >= 9
          BY <2>2, <4>1
        <5>4. Pops(b, rest, f, next)
          BY <5>2, <5>3, PopLayout, Zenon
        <5>5. ~(l >= a)
          BY <1>2, <2>2, <3>2, <5>1, <5>4, Zenon DEF Pops
        <5> QED
          BY <5>5
      <4>2. CASE ~(l >= 9)
        BY <3>2, <4>2
      <4> QED
        BY <4>1, <4>2
    <3>4. w > y
      BY <2>2, <3>2, <3>3
    <3> QED
      BY <3>2, <3>4, Zenon
  <2> QED
    BY <1>1, <2>2, <2>3, <2>4, Zenon DEF Whole
<1>3. ASSUME Refused(t, c, rest, k) PROVE k + 1 \in 0 .. Len(c) /\ Len(rest) =< Left(c, k + 1)
  <2>1. k < Len(c) /\ Len(rest) =< Len(Octets[c][k + 2])
    BY <1>3, Zenon DEF Refused
  <2>2. k + 1 \in 0 .. Len(c) /\ (k + 1) + 1 = k + 2
    BY <1>1, <2>1
  <2> QED
    BY <2>1, <2>2, Zenon DEF Left
<1> QED
  BY <1>1, <1>2, <1>3, Zenon

\* The engine is where FramesIntact says it is.
LEMMA ParsedIntact ==
    ASSUME InInv PROVE FramesIntact
<1>1. /\ script \in Scripts /\ stream \in Seq(Nat) /\ s.buffer \in Seq(Nat)
      /\ Parsed(s, script, stream)
  BY Zenon DEF InInv, OutInv, Written
<1>2. PICK K \in Nat, w \in Nat : K = Len(script) /\ w = Len(stream)
  <2>1. Len(script) \in Nat
    BY <1>1, LeftShrinks, Zenon
  <2>2. Len(stream) \in Nat
    BY <1>1
  <2> QED
    BY <2>1, <2>2, Zenon
<1>3. PICK k \in 0 .. Len(script) :
         /\ AllAccepted(script, k)
         /\ \/ Refused(s, script, stream, k)
            \/ Following(s, script, stream, k) /\ ~CanPop(s.buffer)
  BY <1>1, Zenon DEF Parsed
<1>4. k \in 0 .. K /\ k \in Nat
  BY <1>2, <1>3
<1>5. /\ Following(s, script, stream, k) /\ ~CanPop(s.buffer) => Whole(script, w, k)
      /\ Refused(s, script, stream, k) => k + 1 \in 0 .. K /\ w =< Left(script, k + 1)
  BY <1>1, <1>2, ParsedWhole, Zenon
<1>6. PICK m \in 0 .. K : m = WholeFrames /\ Whole(script, w, m)
  <2>1. PICK j \in 0 .. Len(script) : w =< Left(script, j)
    <3>1. Whole(script, w, k) => w =< Left(script, k)
      BY Zenon DEF Whole
    <3> QED
      BY <1>2, <1>3, <1>5, <3>1, Zenon
  <2>2. \E n \in 0 .. Len(script) : Whole(script, w, n)
    BY <1>1, <2>1, SomeWhole, Zenon
  <2>3. ASSUME NEW n \in 0 .. Len(script)
        PROVE  Whole(script, w, n) <=> /\ w =< Len(Octets[script][n + 1])
                                       /\ n < Len(script) => w > Len(Octets[script][n + 2])
    <3>1. (n + 1) + 1 = n + 2
      BY <1>2
    <3> QED
      BY <3>1, Zenon DEF Whole, Left
  <2>4. WholeFrames = CHOOSE n \in 0 .. Len(script) :
                         /\ w =< Len(Octets[script][n + 1])
                         /\ n < Len(script) => w > Len(Octets[script][n + 2])
    BY <1>2, Zenon DEF WholeFrames
  <2>5. \E n \in 0 .. Len(script) : /\ w =< Len(Octets[script][n + 1])
                                    /\ n < Len(script) => w > Len(Octets[script][n + 2])
    BY <2>2, <2>3, Zenon
  <2>6. /\ WholeFrames \in 0 .. Len(script) /\ w =< Len(Octets[script][WholeFrames + 1])
        /\ WholeFrames < Len(script) => w > Len(Octets[script][WholeFrames + 2])
    BY <2>4, <2>5, Zenon
  <2> QED
    BY <1>2, <2>3, <2>6, Zenon
<1> DEFINE whole == SubSeq(script, 1, m)
           bad == {i \in 1 .. Len(whole) : ~Accepted(whole[i])}
           upTo == IF bad = {} THEN Len(whole)
                   ELSE LET b == CHOOSE b \in bad : \A c \in bad : b =< c
                        IN  IF Conforming(whole[b]) THEN b ELSE b - 1
<1>7. Len(whole) = m /\ \A i \in 1 .. m : whole[i] = script[i]
  <2>1. script \in Seq(PeerFrames)
    BY <1>1, WireAssumption
  <2> QED
    BY <1>2, <2>1
<1>8. SUFFICES /\ s.received = [i \in 1 .. upTo |-> Content(whole[i])]
               /\ bad # {} => s.closed
               /\ Healthy(s) => bad = {}
  BY <1>6, Zenon DEF FramesIntact
<1> HIDE DEF whole
<1>9. ASSUME NEW n \in 0 .. m PROVE Given(script, n) = [i \in 1 .. n |-> Content(whole[i])]
  <2>1. \A i \in 1 .. n : whole[i] = script[i]
    BY <1>7
  <2>2. [i \in 1 .. n |-> Content(whole[i])] = [i \in 1 .. n |-> Content(script[i])]
    BY <2>1, Zenon
  <2> QED
    BY <2>2, Zenon DEF Given
<1>10. \A i \in 1 .. k : i \in 1 .. m => Accepted(whole[i])
  BY <1>3, <1>7, Zenon DEF AllAccepted
<1>11. CASE Following(s, script, stream, k) /\ ~CanPop(s.buffer)
  <2>1. Whole(script, w, k) /\ w =< Left(script, k) /\ w =< Left(script, m)
    BY <1>5, <1>6, <1>11, Zenon DEF Whole
  <2>2. k =< m /\ m =< k
    BY <1>1, <1>2, <1>3, <1>6, <2>1, OneWhole, Zenon
  <2>3. k = m
    BY <1>4, <2>2
  <2>4. bad = {}
    BY <1>7, <1>10, <2>3, Zenon
  <2>5. s.received = [i \in 1 .. m |-> Content(whole[i])]
    <3>1. m \in 0 .. m
      BY <1>6
    <3> QED
      BY <1>9, <1>11, <2>3, <3>1, Zenon DEF Following
  <2>6. upTo = m
    BY <1>7, <2>4, Zenon
  <2> HIDE DEF bad, upTo
  <2> QED
    BY <2>4, <2>5, <2>6, Zenon
<1>12. CASE Refused(s, script, stream, k)
  <2>1. k + 1 \in 0 .. K /\ w =< Left(script, k + 1)
    BY <1>5, <1>12, Zenon
  <2>2. k + 1 =< m
    BY <1>1, <1>2, <1>6, <2>1, OneWhole, Zenon
  <2>3. k + 1 \in 1 .. m /\ whole[k + 1] = script[k + 1] /\ k \in 0 .. m /\ k + 1 \in 0 .. m
    BY <1>4, <1>7, <2>2
  <2>4. ~Accepted(script[k + 1]) /\ s.closed
        /\ s.received = Given(script, IF Conforming(script[k + 1]) THEN k + 1 ELSE k)
    BY <1>12, Zenon DEF Refused
  <2>5. k + 1 \in bad
    BY <1>7, <2>3, <2>4, Zenon
  <2>6. ASSUME NEW c \in bad PROVE k + 1 =< c
    <3>1. c \in 1 .. m /\ ~Accepted(whole[c])
      BY <1>7, <2>6, Zenon
    <3>2. ~(c \in 1 .. k)
      BY <1>10, <3>1, Zenon
    <3> QED
      BY <1>4, <3>1, <3>2
  <2>7. \A c \in bad : c \in Nat
    BY <1>7
  <2>8. PICK b : b = CHOOSE x \in bad : \A c \in bad : x =< c
    OBVIOUS
  <2>9. b = k + 1
    <3> HIDE DEF bad
    <3>1. \E x \in bad : \A c \in bad : x =< c
      BY <2>5, <2>6, Zenon
    <3>2. b \in bad /\ \A c \in bad : b =< c
      BY <2>8, <3>1, Zenon
    <3>3. b =< k + 1 /\ k + 1 =< b /\ b \in Nat /\ k + 1 \in Nat
      BY <2>5, <2>6, <2>7, <3>2, Zenon
    <3> QED
      BY <3>3
  <2>10. upTo = IF Conforming(script[k + 1]) THEN k + 1 ELSE k
    <3> HIDE DEF bad
    <3>1. (k + 1) - 1 = k
      BY <1>4
    <3>2. upTo = IF Conforming(whole[b]) THEN b ELSE b - 1
      <4>1. bad # {}
        BY <2>5, Zenon
      <4> DEFINE B == CHOOSE b_1 \in bad : \A c \in bad : b_1 =< c
      <4>2. upTo = IF Conforming(whole[B]) THEN B ELSE B - 1
        BY <4>1
      <4>3. b = B
        BY <2>8
      <4> HIDE DEF B, upTo
      <4> QED
        BY <4>2, <4>3
    <3> QED
      BY <2>3, <2>9, <3>1, <3>2, Zenon
  <2>11. s.received = [i \in 1 .. upTo |-> Content(whole[i])]
    <3>1. upTo \in 0 .. m
      BY <2>3, <2>10, Zenon
    <3> HIDE DEF upTo
    <3> QED
      BY <1>9, <2>4, <2>10, <3>1, Zenon
  <2>12. ~Healthy(s)
    BY <2>4, Zenon DEF Healthy
  <2> HIDE DEF bad, upTo
  <2> QED
    BY <2>4, <2>11, <2>12, Zenon
<1> QED
  BY <1>3, <1>11, <1>12, Zenon

(* For every script of frames without full padding and all sizes: the      *)
(* engine is given exactly the frames the peer sent, in order, each as     *)
(* soon as its last octet has been read, however the octets are cut into   *)
(* reads; a frame that breaks the size rules closes the connection and     *)
(* nothing after it is processed (receiveBytes, tryPop, decode, the frame  *)
(* constructors, validatePaddedPayload).                                   *)
THEOREM InputIntact ==
    ASSUME NoFullPadding PROVE Spec => []FramesIntact
<1>1. InInv /\ [Next]_vars => InInv'
  BY InInvNext, Zenon
<1>2. InInv => FramesIntact
  BY ParsedIntact, Zenon
<1> QED
  BY InInvInit, <1>1, <1>2, PTL DEF Spec
=============================================================================

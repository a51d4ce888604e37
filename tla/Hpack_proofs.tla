------------------------------ MODULE Hpack_proofs ------------------------------
(***************************************************************************)
(* HPACK, for every static table, every header field and every size of the *)
(* dynamic table.                                                          *)
(***************************************************************************)
EXTENDS Hpack, DataLemmas

(***************************************************************************)
(* The dynamic table                                                       *)
(***************************************************************************)

\* The loop that adds up the sizes of entries has a result.
LEMMA BytesDefined ==
    ASSUME NEW e, NEW n \in Nat
    PROVE  \E f : f = [i \in 0 .. n |-> IF i = 0 THEN 0 ELSE f[i - 1] + Size(e[i])]
<1> DEFINE G(f, i) == IF i = 0 THEN 0 ELSE f[i - 1] + Size(e[i])
           S == {m \in Nat : \E f : f = [i \in 0 .. m |-> G(f, i)]}
<1>1. 0 \in S
  <2> DEFINE f == [i \in 0 .. 0 |-> 0]
  <2>1. f = [i \in 0 .. 0 |-> G(f, i)]
    OBVIOUS
  <2> QED
    BY <2>1
<1>2. ASSUME NEW m \in 0 .. n, m \in S PROVE m + 1 \in S
  <2>1. PICK f : f = [i \in 0 .. m |-> G(f, i)]
    BY <1>2
  <2> DEFINE g == [i \in 0 .. (m + 1) |-> IF i = m + 1 THEN G(f, i) ELSE f[i]]
  <2>2. \A i \in 0 .. (m + 1) : G(g, i) = G(f, i)
    OBVIOUS
  <2>3. \A i \in 0 .. m : f[i] = G(f, i)
    BY <2>1
  <2>4. \A i \in 0 .. (m + 1) : g[i] = G(g, i)
    BY <2>2, <2>3
  <2>5. g = [i \in 0 .. (m + 1) |-> g[i]]
    OBVIOUS
  <2> HIDE DEF g, G
  <2>6. g = [i \in 0 .. (m + 1) |-> G(g, i)]
    BY <2>4, <2>5
  <2> QED
    BY <2>6
<1> HIDE DEF S
<1>3. n \in S
  BY <1>1, <1>2, LoopInduction
<1> QED
  BY <1>3 DEF S

\* The sums of sizes, one entry at a time
LEMMA BytesStep ==
    ASSUME NEW e, NEW n \in Nat
    PROVE  /\ BytesUpTo(e, 0) = 0
           /\ BytesUpTo(e, n + 1) = BytesUpTo(e, n) + Size(e[n + 1])
<1> DEFINE G(f, i) == IF i = 0 THEN 0 ELSE f[i - 1] + Size(e[i])
           F(m) == CHOOSE f : f = [i \in 0 .. m |-> G(f, i)]
<1>1. ASSUME NEW m \in Nat
      PROVE  /\ BytesUpTo(e, m) = F(m)[m]
             /\ \A i \in 0 .. m : F(m)[i] = G(F(m), i)
  <2>1. F(m) = [i \in 0 .. m |-> G(F(m), i)]
    BY BytesDefined
  <2>2. BytesUpTo(e, m) = F(m)[m]
    BY DEF BytesUpTo
  <2> HIDE DEF F, G
  <2> QED
    BY <2>1, <2>2
<1> HIDE DEF F
<1>2. BytesUpTo(e, 0) = 0
  BY <1>1
<1> DEFINE S == {m \in 0 .. n : F(n)[m] = F(n + 1)[m]}
<1>3. 0 \in S
  BY <1>1
<1>4. ASSUME NEW m \in 0 .. n, m # n, m \in S PROVE m + 1 \in S
  <2>1. F(n)[m + 1] = F(n)[m] + Size(e[m + 1])
    BY <1>1, <1>4
  <2>2. F(n + 1)[m + 1] = F(n + 1)[m] + Size(e[m + 1])
    BY <1>1, <1>4
  <2> QED
    BY <1>4, <2>1, <2>2
<1> HIDE DEF S
<1>5. n \in S
  BY <1>3, <1>4, LoopInduction
<1>6. F(n + 1)[n + 1] = F(n + 1)[n] + Size(e[n + 1])
  BY <1>1
<1> QED
  BY <1>1, <1>2, <1>5, <1>6 DEF S

\* The fields of a header field
LEMMA FieldFacts ==
    ASSUME NEW h \in HeaderFields
    PROVE  /\ h = [name |-> h.name, value |-> h.value, sensitive |-> h.sensitive]
           /\ h.name \in DOMAIN Length /\ h.value \in DOMAIN Length /\ h.sensitive \in BOOLEAN
           /\ Size(h) \in Nat /\ Size(h) > 0
<1>1. /\ h = [name |-> h.name, value |-> h.value, sensitive |-> h.sensitive]
      /\ h.name \in DOMAIN Length /\ h.value \in DOMAIN Length /\ h.sensitive \in BOOLEAN
  BY DEF HeaderFields
<1>2. Length[h.name] \in Nat /\ Length[h.value] \in Nat
  BY <1>1, TableAssumption
<1> QED
  BY <1>1, <1>2 DEF Size

\* The sums are numbers and grow with every entry.
LEMMA BytesTyped ==
    ASSUME NEW e \in Seq(HeaderFields), NEW n \in 0 .. Len(e)
    PROVE  /\ BytesUpTo(e, n) \in Nat
           /\ \A m \in 0 .. n : /\ BytesUpTo(e, m) \in Nat
                                /\ BytesUpTo(e, m) =< BytesUpTo(e, n)
                                /\ m < n => BytesUpTo(e, m) < BytesUpTo(e, n)
<1> DEFINE B(m) == BytesUpTo(e, m)
           S == {m \in 0 .. n : /\ B(m) \in Nat
                                /\ \A k \in 0 .. m : B(k) \in Nat /\ (k = m \/ B(k) < B(m))}
<1>1. 0 \in S
  BY BytesStep
<1>2. ASSUME NEW m \in 0 .. n, m # n, m \in S PROVE m + 1 \in S
  <2>1. e[m + 1] \in HeaderFields /\ m + 1 \in 0 .. n
    BY <1>2
  <2>2. Size(e[m + 1]) \in Nat /\ Size(e[m + 1]) > 0
    BY <2>1, FieldFacts
  <2>3. B(m + 1) = B(m) + Size(e[m + 1])
    BY BytesStep
  <2> HIDE DEF B
  <2> QED
    BY <1>2, <2>1, <2>2, <2>3
<1> HIDE DEF S
<1>3. n \in Nat /\ n \in 0 .. n
  OBVIOUS
<1>4. \A m \in 0 .. n : m \in S
  BY <1>1, <1>2, <1>3, LoopInduction
<1> QED
  BY <1>3, <1>4 DEF S

\* Sums over a part of a sequence
LEMMA BytesOfPart ==
    ASSUME NEW e \in Seq(HeaderFields), NEW d \in Seq(HeaderFields),
           NEW k \in 0 .. Len(e), NEW n \in 0 .. (Len(e) - k), n =< Len(d),
           \A i \in 1 .. n : d[i] = e[k + i]
    PROVE  BytesUpTo(d, n) = BytesUpTo(e, k + n) - BytesUpTo(e, k)
<1> DEFINE S == {m \in 0 .. n : BytesUpTo(d, m) = BytesUpTo(e, k + m) - BytesUpTo(e, k)}
<1>0. \A m \in 0 .. Len(e) : BytesUpTo(e, m) \in Nat
  BY BytesTyped
<1>1. 0 \in S
  BY <1>0, BytesStep
<1>2. ASSUME NEW m \in 0 .. n, m # n, m \in S PROVE m + 1 \in S
  <2>1. d[m + 1] = e[k + (m + 1)] /\ d[m + 1] \in HeaderFields /\ m + 1 \in 0 .. n
    BY <1>2
  <2>2. Size(d[m + 1]) \in Nat
    BY <2>1, FieldFacts
  <2>3. BytesUpTo(d, m + 1) = BytesUpTo(d, m) + Size(d[m + 1])
    BY BytesStep
  <2>4. k + m \in Nat /\ (k + m) + 1 = k + (m + 1)
    OBVIOUS
  <2>5. BytesUpTo(e, (k + m) + 1) = BytesUpTo(e, k + m) + Size(e[(k + m) + 1])
    BY <2>4, BytesStep
  <2>6. BytesUpTo(e, k + m) \in Nat /\ BytesUpTo(e, k) \in Nat
    BY <1>0
  <2>7. BytesUpTo(d, m) = BytesUpTo(e, k + m) - BytesUpTo(e, k)
    BY <1>2
  <2> QED
    BY <2>1, <2>2, <2>3, <2>4, <2>5, <2>6, <2>7
<1> HIDE DEF S
<1>3. n \in Nat /\ n \in 0 .. n
  OBVIOUS
<1>4. \A m \in 0 .. n : m \in S
  BY <1>1, <1>2, <1>3, LoopInduction
<1> QED
  BY <1>3, <1>4 DEF S

\* A set of numbers has its least element as Min.
LEMMA MinIs ==
    ASSUME NEW S \in SUBSET Nat, S # {}
    PROVE  Min(S) \in S /\ \A y \in S : Min(S) =< y
BY LeastNumber DEF Min

\* What evict leaves of a lookup map is right for the entries that are left.
LEMMA KeptSound ==
    ASSUME NEW map, NEW K, NEW keys \in Seq(K), NEW rest \in Seq(K), NEW oldest \in Nat,
           NEW n \in 0 .. Len(keys), Len(rest) = Len(keys) - n,
           \A i \in 1 .. Len(rest) : rest[i] = keys[n + i],
           map \in [DOMAIN map -> Nat], MapSound(map, keys, oldest)
    PROVE  LET kept == Kept(map, keys, oldest, n)
           IN  kept \in [DOMAIN kept -> Nat] /\ MapSound(kept, rest, oldest + n)
<1> DEFINE gone(k) == \E i \in 1 .. n : keys[i] = k /\ map[k] = oldest + i - 1
           kept == Kept(map, keys, oldest, n)
           place(k) == map[k] - oldest + 1
<1>0. Len(keys) \in Nat /\ Len(rest) \in Nat /\ n \in Nat
  OBVIOUS
<1>1. /\ DOMAIN kept = {k \in DOMAIN map : ~gone(k)}
      /\ \A k \in DOMAIN kept : kept[k] = map[k]
      /\ kept \in [DOMAIN kept -> Nat]
  BY DEF Kept, Restrict
<1> HIDE DEF kept
<1>2. \A k \in DOMAIN map : map[k] \in Nat
  OBVIOUS
<1>3. /\ DOMAIN map = {keys[i] : i \in 1 .. Len(keys)}
      /\ \A k \in DOMAIN map : Newest(keys, k, place(k))
  BY DEF MapSound
<1>4. ASSUME NEW k \in DOMAIN kept
      PROVE  /\ k \in {rest[i] : i \in 1 .. Len(rest)}
             /\ Newest(rest, k, kept[k] - (oldest + n) + 1)
  <2> DEFINE p == place(k)
  <2>1. /\ k \in DOMAIN map /\ ~gone(k) /\ kept[k] = map[k] /\ map[k] \in Nat
        /\ p \in 1 .. Len(keys) /\ keys[p] = k
        /\ \A j \in p + 1 .. Len(keys) : keys[j] # k
    BY <1>1, <1>2, <1>3 DEF Newest
  <2>2. p > n
    <3> SUFFICES ASSUME p \in 1 .. n PROVE FALSE
      BY <1>0, <2>1
    <3>1. map[k] = oldest + p - 1
      BY <2>1
    <3> QED
      BY <2>1, <3>1
  <2>3. kept[k] - (oldest + n) + 1 = p - n
    BY <1>0, <2>1
  <2> HIDE DEF p, place
  <2>4. p - n \in 1 .. Len(rest) /\ n + (p - n) = p
    BY <1>0, <2>1, <2>2
  <2>5. rest[p - n] = k
    BY <2>1, <2>4
  <2>6. ASSUME NEW j \in (p - n) + 1 .. Len(rest) PROVE rest[j] # k
    <3>1. j \in 1 .. Len(rest) /\ n + j \in p + 1 .. Len(keys)
      BY <1>0, <2>1, <2>2, SMTT(40)
    <3> QED
      BY <2>1, <3>1
  <2> QED
    BY <2>3, <2>4, <2>5, <2>6 DEF Newest
<1>5. ASSUME NEW i \in 1 .. Len(rest) PROVE rest[i] \in DOMAIN kept
  <2> DEFINE k == rest[i]
             p == place(k)
  <2>1. n + i \in 1 .. Len(keys) /\ keys[n + i] = k
    BY <1>0
  <2>2. k \in DOMAIN map
    BY <1>3, <2>1
  <2>3. /\ map[k] \in Nat /\ p \in 1 .. Len(keys) /\ keys[p] = k
        /\ \A j \in p + 1 .. Len(keys) : keys[j] # k
    BY <1>2, <1>3, <2>2 DEF Newest
  <2>4. p >= n + i
    BY <1>0, <2>1, <2>3, SMTT(40)
  <2>5. ~gone(k)
    BY <1>0, <2>3, <2>4
  <2> QED
    BY <1>1, <2>2, <2>5
<1>6. DOMAIN kept = {rest[i] : i \in 1 .. Len(rest)}
  BY <1>4, <1>5
<1> QED
  BY <1>1, <1>4, <1>6 DEF MapSound, kept

\* What addEntry makes of a lookup map is right for the entries with the new one.
LEMMA MappedSound ==
    ASSUME NEW map, NEW K, NEW keys \in Seq(K), NEW longer \in Seq(K), NEW key \in K,
           NEW oldest \in Nat,
           Len(longer) = Len(keys) + 1, longer[Len(keys) + 1] = key,
           \A i \in 1 .. Len(keys) : longer[i] = keys[i],
           map \in [DOMAIN map -> Nat], MapSound(map, keys, oldest)
    PROVE  LET new == Mapped(map, key, oldest + Len(keys))
           IN  new \in [DOMAIN new -> Nat] /\ MapSound(new, longer, oldest)
<1> DEFINE n == Len(keys)
           new == Mapped(map, key, oldest + n)
<1>0. n \in Nat
  OBVIOUS
<1> HIDE DEF n
<1>1. /\ DOMAIN new = DOMAIN map \cup {key} /\ new[key] = oldest + n
      /\ \A k \in DOMAIN map : k # key => new[k] = map[k]
      /\ new \in [DOMAIN new -> Nat]
  BY <1>0 DEF Mapped
<1> HIDE DEF new
<1>2. \A k \in DOMAIN map : map[k] \in Nat
  OBVIOUS
<1>3. /\ DOMAIN map = {keys[i] : i \in 1 .. n}
      /\ \A k \in DOMAIN map : Newest(keys, k, map[k] - oldest + 1)
  BY DEF MapSound, n
<1>l. Len(longer) = n + 1 /\ longer[n + 1] = key /\ \A i \in 1 .. n : longer[i] = keys[i]
  BY DEF n
<1>4. DOMAIN new = {longer[i] : i \in 1 .. Len(longer)}
  <2>1. ASSUME NEW k \in DOMAIN new PROVE \E i \in 1 .. Len(longer) : longer[i] = k
    <3>1. CASE k = key
      BY <1>0, <1>l, <3>1
    <3>2. CASE k # key
      <4>1. PICK i \in 1 .. n : keys[i] = k
        BY <1>1, <1>3, <3>2
      <4> QED
        BY <1>0, <1>l, <4>1
    <3> QED
      BY <3>1, <3>2
  <2>2. ASSUME NEW i \in 1 .. Len(longer) PROVE longer[i] \in DOMAIN new
    BY <1>0, <1>1, <1>3, <1>l
  <2> QED
    BY <2>1, <2>2
<1>5. ASSUME NEW k \in DOMAIN new PROVE Newest(longer, k, new[k] - oldest + 1)
  <2>1. CASE k = key
    <3>1. new[k] - oldest + 1 = n + 1
      BY <1>0, <1>1, <2>1
    <3> QED
      BY <1>0, <1>l, <2>1, <3>1 DEF Newest
  <2>2. CASE k # key
    <3>1. k \in DOMAIN map /\ new[k] = map[k] /\ map[k] \in Nat
      BY <1>1, <1>2, <2>2
    <3> DEFINE p == map[k] - oldest + 1
    <3>2. p \in 1 .. n /\ keys[p] = k /\ \A j \in p + 1 .. n : keys[j] # k
      BY <1>3, <3>1 DEF Newest, n
    <3>3. p \in 1 .. Len(longer) /\ longer[p] = k
      BY <1>0, <1>l, <3>2
    <3>4. ASSUME NEW j \in p + 1 .. Len(longer) PROVE longer[j] # k
      <4>1. CASE j = n + 1
        BY <1>l, <2>2, <4>1
      <4>2. CASE j # n + 1
        <5>1. j \in p + 1 .. n /\ longer[j] = keys[j]
          BY <1>0, <1>l, <3>2, <4>2
        <5> QED
          BY <3>2, <5>1
      <4> QED
        BY <4>1, <4>2
    <3> HIDE DEF p
    <3> QED
      BY <3>1, <3>3, <3>4 DEF Newest, p
  <2> QED
    BY <2>1, <2>2
<1> QED
  BY <1>1, <1>4, <1>5 DEF MapSound, new, n

\* The types of a table's members
IsTable(t) ==
    /\ t = [names |-> t.names, pairs |-> t.pairs, entries |-> t.entries,
            nextId |-> t.nextId, bytes |-> t.bytes, max |-> t.max]
    /\ t.names \in [DOMAIN t.names -> Nat] /\ t.pairs \in [DOMAIN t.pairs -> Nat]
    /\ t.entries \in Seq(HeaderFields)
    /\ t.nextId \in Nat /\ t.bytes \in Nat /\ t.max \in Nat

\* A table is known by its members.
LEMMA TableMembers ==
    ASSUME NEW u, u = [x \in DOMAIN u |-> u[x]],
           DOMAIN u = {"names", "pairs", "entries", "nextId", "bytes", "max"}
    PROVE  u = [names |-> u.names, pairs |-> u.pairs, entries |-> u.entries,
                nextId |-> u.nextId, bytes |-> u.bytes, max |-> u.max]
OBVIOUS

\* TableSound, except that the entries may not fit: what evict starts from
Overfull(t) ==
    /\ MapSound(t.names, Names(t), oldestId(t)) /\ MapSound(t.pairs, Pairs(t), oldestId(t))
    /\ t.bytes = Bytes(t.entries) /\ Len(t.entries) < t.nextId

\* The keys of entries are sequences of their length.
LEMMA KeysAre ==
    ASSUME NEW t, t.entries \in Seq(HeaderFields)
    PROVE  LET n == Len(t.entries)
               K == {h.name : h \in HeaderFields}
               L == {Pair(h) : h \in HeaderFields}
           IN  /\ Names(t) \in Seq(K) /\ Len(Names(t)) = n
               /\ Pairs(t) \in Seq(L) /\ Len(Pairs(t)) = n
               /\ \A i \in 1 .. n : /\ Names(t)[i] = t.entries[i].name
                                    /\ Pairs(t)[i] = Pair(t.entries[i])
<1> DEFINE n == Len(t.entries)
           K == {h.name : h \in HeaderFields}
           L == {Pair(h) : h \in HeaderFields}
<1>1. n \in Nat /\ \A i \in 1 .. n : t.entries[i] \in HeaderFields
  OBVIOUS
<1> HIDE DEF n
<1>2. \A i \in 1 .. n : t.entries[i].name \in K /\ Pair(t.entries[i]) \in L
  BY <1>1
<1> HIDE DEF K, L
<1>3. /\ Names(t) = [i \in 1 .. n |-> t.entries[i].name]
      /\ Pairs(t) = [i \in 1 .. n |-> Pair(t.entries[i])]
  BY DEF Names, Pairs, n
<1>4. Names(t) \in Seq(K) /\ Len(Names(t)) = n
  BY <1>1, <1>2, <1>3
<1>5. Pairs(t) \in Seq(L) /\ Len(Pairs(t)) = n
  BY <1>1, <1>2, <1>3
<1> QED
  BY <1>3, <1>4, <1>5 DEF n, K, L

\* The newest entries that fit into max, and where they start
FitsFrom(e, max) == Min({n \in 0 .. Len(e) : Bytes(e) - BytesUpTo(e, n) <= max})
Fitting(e, max)  == SubSeq(e, FitsFrom(e, max) + 1, Len(e))

\* They start as early as possible.
LEMMA FittingIs ==
    ASSUME NEW e \in Seq(HeaderFields), NEW max \in Nat
    PROVE  LET n == FitsFrom(e, max)
               f == Fitting(e, max)
           IN  /\ n \in 0 .. Len(e) /\ BytesUpTo(e, n) \in Nat /\ Bytes(e) \in Nat
               /\ \A m \in 0 .. Len(e) : n =< m <=> Bytes(e) - BytesUpTo(e, m) =< max
               /\ f \in Seq(HeaderFields) /\ Len(f) = Len(e) - n
               /\ \A i \in 1 .. Len(f) : f[i] = e[n + i]
               /\ Bytes(f) = Bytes(e) - BytesUpTo(e, n) /\ Bytes(f) \in Nat /\ Bytes(f) =< max
<1> DEFINE B(m) == BytesUpTo(e, m)
           N == {n \in 0 .. Len(e) : Bytes(e) - B(n) <= max}
           n == FitsFrom(e, max)
           f == Fitting(e, max)
<1>0. Len(e) \in Nat /\ Len(e) \in 0 .. Len(e)
  OBVIOUS
<1>1. /\ Bytes(e) = B(Len(e)) /\ Bytes(e) \in Nat
      /\ \A m \in 0 .. Len(e) : B(m) \in Nat /\ B(m) =< Bytes(e)
  BY <1>0, BytesTyped DEF Bytes
<1>2. \A m \in 0 .. Len(e) : \A k \in 0 .. m : B(k) =< B(m)
  BY BytesTyped
<1>e. f = SubSeq(e, n + 1, Len(e))
  BY DEF Fitting
<1>n. n = Min(N)
  BY DEF FitsFrom
<1> HIDE DEF n, f, B
<1>3. Len(e) \in N /\ N \in SUBSET Nat
  BY <1>0, <1>1
<1>4. n \in N /\ \A y \in N : n =< y
  BY <1>3, <1>n, MinIs
<1>5. n \in 0 .. Len(e) /\ B(n) \in Nat /\ Bytes(e) - B(n) =< max
  BY <1>1, <1>4
<1>6. ASSUME NEW m \in 0 .. Len(e) PROVE n =< m <=> Bytes(e) - B(m) =< max
  <2>1. CASE n =< m
    <3>1. B(n) =< B(m) /\ B(m) \in Nat
      BY <1>0, <1>1, <1>2, <1>5, <2>1
    <3> QED
      BY <1>1, <1>5, <2>1, <3>1
  <2>2. CASE ~ (n =< m)
    BY <1>4, <2>2
  <2> QED
    BY <2>1, <2>2
<1>7. /\ f \in Seq(HeaderFields) /\ Len(f) = Len(e) - n
      /\ \A i \in 1 .. Len(f) : f[i] = e[n + i]
  BY <1>0, <1>5, <1>e
<1>8. Bytes(f) = Bytes(e) - B(n)
  <2>1. Len(f) \in 0 .. (Len(e) - n) /\ n + Len(f) = Len(e) /\ Len(f) =< Len(f)
    BY <1>0, <1>5, <1>7
  <2>2. BytesUpTo(f, Len(f)) = BytesUpTo(e, n + Len(f)) - BytesUpTo(e, n)
    BY <1>5, <1>7, <2>1, BytesOfPart
  <2> QED
    BY <1>1, <2>1, <2>2 DEF B, Bytes
<1>9. Bytes(f) \in Nat /\ Bytes(f) =< max
  <2>1. B(n) =< Bytes(e)
    BY <1>1, <1>5
  <2> QED
    BY <1>1, <1>5, <1>8, <2>1
<1> QED
  BY <1>1, <1>5, <1>6, <1>7, <1>8, <1>9 DEF n, f, B

\* The place is the only one of its kind.
LEMMA FitsFromUnique ==
    ASSUME NEW e \in Seq(HeaderFields), NEW max \in Nat, NEW k \in 0 .. Len(e),
           Bytes(e) - BytesUpTo(e, k) =< max,
           \A m \in 0 .. Len(e) : m < k => Bytes(e) - BytesUpTo(e, m) > max
    PROVE  FitsFrom(e, max) = k
<1> DEFINE n == FitsFrom(e, max)
<1>a. /\ n \in 0 .. Len(e)
      /\ \A m \in 0 .. Len(e) : n =< m <=> Bytes(e) - BytesUpTo(e, m) =< max
  BY FittingIs
<1>b. \A m \in 0 .. Len(e) : Bytes(e) - BytesUpTo(e, m) \in Int
  <2>1. Bytes(e) \in Nat
    BY FittingIs
  <2>2. ASSUME NEW m \in 0 .. Len(e) PROVE BytesUpTo(e, m) \in Nat
    BY BytesTyped
  <2> QED
    BY <2>1, <2>2
<1> HIDE DEF n
<1>1. /\ n \in 0 .. Len(e)
      /\ \A m \in 0 .. Len(e) : n =< m <=> Bytes(e) - BytesUpTo(e, m) =< max
      /\ \A m \in 0 .. Len(e) : Bytes(e) - BytesUpTo(e, m) \in Int
  BY <1>a, <1>b, Zenon
<1>2. n =< k
  BY <1>1
<1>3. ~ (n < k)
  <2> SUFFICES ASSUME n < k PROVE FALSE
    OBVIOUS
  <2>1. n =< n
    BY <1>1
  <2>2. Bytes(e) - BytesUpTo(e, n) =< max
    BY <1>1, <2>1
  <2>3. Bytes(e) - BytesUpTo(e, n) > max
    BY <1>1
  <2> QED
    BY <1>1, <2>2, <2>3
<1> QED
  BY <1>1, <1>2, <1>3 DEF n

\* evict removes what does not fit.
LEMMA EvictedIs ==
    ASSUME NEW t, IsTable(t), t.bytes = Bytes(t.entries)
    PROVE  Evicted(t) = FitsFrom(t.entries, t.max)
<1> DEFINE e == t.entries
           N == {n \in 0 .. Len(e) : Bytes(e) - BytesUpTo(e, n) <= t.max}
           M == {n \in 0 .. Len(e) : Bytes(e) - BytesUpTo(e, n) <= t.max \/ n = Len(e)}
<1>1. e \in Seq(HeaderFields) /\ Len(e) \in Nat /\ t.max \in Nat
  BY DEF IsTable
<1>2. Bytes(e) \in Nat /\ Bytes(e) = BytesUpTo(e, Len(e))
  BY <1>1, FittingIs DEF Bytes
<1>3. Evicted(t) = Min(M) /\ FitsFrom(t.entries, t.max) = Min(N)
  BY DEF Evicted, FitsFrom
<1> HIDE DEF e
<1>4. Len(e) \in N
  BY <1>1, <1>2
<1>5. M = N
  BY <1>4
<1> QED
  BY <1>3, <1>5

\* evict leaves a sound table, and of the entries the newest that fit.
LEMMA EvictSound ==
    ASSUME NEW t, IsTable(t), Overfull(t)
    PROVE  LET u == evict(t)
           IN  /\ IsTable(u) /\ TableSound(u)
               /\ u.max = t.max /\ u.nextId = t.nextId
               /\ u.entries = Fitting(t.entries, t.max)
<1> DEFINE u == evict(t)
           n == FitsFrom(t.entries, t.max)
           e == t.entries
           rest == Fitting(e, t.max)
           B(m) == BytesUpTo(e, m)
<1>1. /\ e \in Seq(HeaderFields) /\ Len(e) \in Nat /\ t.bytes \in Nat /\ t.max \in Nat
      /\ t.nextId \in Nat /\ Len(e) < t.nextId /\ t.bytes = B(Len(e))
  BY DEF IsTable, Overfull, Bytes
<1>2. /\ n \in 0 .. Len(e) /\ B(n) \in Nat
      /\ t.bytes - B(n) \in Nat /\ t.bytes - B(n) =< t.max
  <2>1. /\ n \in 0 .. Len(e) /\ B(n) \in Nat
        /\ Bytes(rest) = Bytes(e) - B(n) /\ Bytes(rest) \in Nat /\ Bytes(rest) =< t.max
    BY <1>1, FittingIs
  <2>2. t.bytes = Bytes(e)
    BY DEF Overfull
  <2> QED
    BY <2>1, <2>2
<1>v. /\ Evicted(t) = n /\ rest = SubSeq(e, n + 1, Len(e))
      /\ Bytes(rest) = t.bytes - B(n)
      /\ rest \in Seq(HeaderFields) /\ Len(rest) = Len(e) - n
      /\ \A i \in 1 .. Len(rest) : rest[i] = e[n + i]
  BY <1>1, EvictedIs, FittingIs DEF Overfull, Fitting
<1>r. /\ u = [names |-> u.names, pairs |-> u.pairs, entries |-> u.entries,
              nextId |-> u.nextId, bytes |-> u.bytes, max |-> u.max]
      /\ u.names = Kept(t.names, Names(t), oldestId(t), n)
      /\ u.pairs = Kept(t.pairs, Pairs(t), oldestId(t), n)
      /\ u.entries = rest /\ u.nextId = t.nextId
      /\ u.bytes = t.bytes - B(n) /\ u.max = t.max
  <2>1. PICK a, b, c, d : /\ a = Kept(t.names, Names(t), oldestId(t), n)
                          /\ b = Kept(t.pairs, Pairs(t), oldestId(t), n)
                          /\ c = rest /\ d = t.bytes - B(n)
    OBVIOUS
  <2>2. u = [t EXCEPT !.names = a, !.pairs = b, !.entries = c, !.bytes = d]
    BY <1>v, <2>1 DEF evict
  <2>3. t = [names |-> t.names, pairs |-> t.pairs, entries |-> t.entries,
             nextId |-> t.nextId, bytes |-> t.bytes, max |-> t.max]
    BY DEF IsTable
  <2> HIDE DEF u, n, e, B, rest
  <2>4. /\ DOMAIN u = {"names", "pairs", "entries", "nextId", "bytes", "max"}
        /\ u = [x \in DOMAIN u |-> u[x]]
    BY <2>2, <2>3
  <2>5. /\ u.names = a /\ u.pairs = b /\ u.entries = c /\ u.bytes = d
        /\ u.nextId = t.nextId /\ u.max = t.max
    BY <2>2, <2>3
  <2> QED
    BY <2>1, <2>4, <2>5, TableMembers
<1> HIDE DEF u, n, e, B, rest
<1>3. /\ u.names = Kept(t.names, Names(t), oldestId(t), n)
      /\ u.pairs = Kept(t.pairs, Pairs(t), oldestId(t), n)
      /\ u.entries = rest /\ u.nextId = t.nextId
      /\ u.bytes = t.bytes - B(n) /\ u.max = t.max
  BY <1>r
<1>4. /\ rest \in Seq(HeaderFields) /\ Len(rest) = Len(e) - n
      /\ \A i \in 1 .. Len(rest) : rest[i] = e[n + i]
  BY <1>v
<1>5. Bytes(rest) = t.bytes - B(n)
  BY <1>v
<1>6. oldestId(t) \in Nat /\ oldestId(u) = oldestId(t) + n
  <2>1. oldestId(t) = t.nextId - Len(e) /\ oldestId(u) = t.nextId - Len(rest)
    BY <1>3 DEF oldestId, e
  <2>2. /\ t.nextId \in Nat /\ Len(e) \in Nat /\ Len(e) < t.nextId
        /\ n \in 0 .. Len(e) /\ Len(rest) = Len(e) - n
    BY <1>1, <1>2, <1>4
  <2> QED
    BY <2>1, <2>2
<1> DEFINE K == {h.name : h \in HeaderFields}
           L == {Pair(h) : h \in HeaderFields}
<1>7. /\ Names(t) \in Seq(K) /\ Len(Names(t)) = Len(e)
      /\ Pairs(t) \in Seq(L) /\ Len(Pairs(t)) = Len(e)
      /\ \A i \in 1 .. Len(e) : Names(t)[i] = e[i].name /\ Pairs(t)[i] = Pair(e[i])
  BY <1>1, KeysAre DEF e
<1>8. /\ Names(u) \in Seq(K) /\ Len(Names(u)) = Len(rest)
      /\ Pairs(u) \in Seq(L) /\ Len(Pairs(u)) = Len(rest)
      /\ \A i \in 1 .. Len(rest) : Names(u)[i] = rest[i].name /\ Pairs(u)[i] = Pair(rest[i])
  BY <1>3, <1>4, KeysAre
<1> HIDE DEF K, L
<1>9. \A i \in 1 .. Len(rest) : /\ n + i \in 1 .. Len(e)
                                /\ Names(u)[i] = Names(t)[n + i] /\ Pairs(u)[i] = Pairs(t)[n + i]
  <2> SUFFICES ASSUME NEW i \in 1 .. Len(rest)
               PROVE  /\ n + i \in 1 .. Len(e)
                      /\ Names(u)[i] = Names(t)[n + i] /\ Pairs(u)[i] = Pairs(t)[n + i]
    OBVIOUS
  <2>1. n + i \in 1 .. Len(e) /\ rest[i] = e[n + i]
    BY <1>1, <1>2, <1>4
  <2>2. Names(u)[i] = rest[i].name /\ Pairs(u)[i] = Pair(rest[i])
    BY <1>8
  <2> QED
    BY <1>7, <2>1, <2>2
<1>10. u.names \in [DOMAIN u.names -> Nat] /\ MapSound(u.names, Names(u), oldestId(u))
  <2>1. t.names \in [DOMAIN t.names -> Nat] /\ MapSound(t.names, Names(t), oldestId(t))
    BY DEF IsTable, Overfull
  <2>2. /\ n \in 0 .. Len(Names(t)) /\ Len(Names(u)) = Len(Names(t)) - n
        /\ \A i \in 1 .. Len(Names(u)) : Names(u)[i] = Names(t)[n + i]
    BY <1>2, <1>4, <1>7, <1>8, <1>9
  <2> DEFINE kept == Kept(t.names, Names(t), oldestId(t), n)
  <2>3. kept \in [DOMAIN kept -> Nat] /\ MapSound(kept, Names(u), oldestId(t) + n)
    BY <1>6, <1>7, <1>8, <2>1, <2>2, KeptSound
  <2> QED
    BY <1>3, <1>6, <2>3
<1>11. u.pairs \in [DOMAIN u.pairs -> Nat] /\ MapSound(u.pairs, Pairs(u), oldestId(u))
  <2>1. t.pairs \in [DOMAIN t.pairs -> Nat] /\ MapSound(t.pairs, Pairs(t), oldestId(t))
    BY DEF IsTable, Overfull
  <2>2. /\ n \in 0 .. Len(Pairs(t)) /\ Len(Pairs(u)) = Len(Pairs(t)) - n
        /\ \A i \in 1 .. Len(Pairs(u)) : Pairs(u)[i] = Pairs(t)[n + i]
    BY <1>2, <1>4, <1>7, <1>8, <1>9
  <2> DEFINE kept == Kept(t.pairs, Pairs(t), oldestId(t), n)
  <2>3. kept \in [DOMAIN kept -> Nat] /\ MapSound(kept, Pairs(u), oldestId(t) + n)
    BY <1>6, <1>7, <1>8, <2>1, <2>2, KeptSound
  <2> QED
    BY <1>3, <1>6, <2>3
<1>12. IsTable(u)
  <2>1. u = [names |-> u.names, pairs |-> u.pairs, entries |-> u.entries,
             nextId |-> u.nextId, bytes |-> u.bytes, max |-> u.max]
    BY <1>r
  <2> QED
    BY <1>1, <1>2, <1>3, <1>4, <1>10, <1>11, <2>1 DEF IsTable
<1>13. u.bytes = Bytes(u.entries) /\ u.bytes <= u.max /\ Len(u.entries) < u.nextId
  BY <1>1, <1>2, <1>3, <1>4, <1>5
<1>14. TableSound(u)
  BY <1>10, <1>11, <1>13 DEF TableSound
<1> QED
  BY <1>3, <1>12, <1>14 DEF u, rest, n, e

\* setMaxSize evicts what does not fit any more.
LEMMA SetMaxSound ==
    ASSUME NEW t, IsTable(t), TableSound(t), NEW size \in Nat
    PROVE  LET u == setMaxSize(t, size)
           IN  /\ IsTable(u) /\ TableSound(u) /\ u.max = size /\ u.nextId = t.nextId
               /\ u.entries = Fitting(t.entries, size)
<1> DEFINE w == [t EXCEPT !.max = size]
<1>1. w = [names |-> t.names, pairs |-> t.pairs, entries |-> t.entries,
           nextId |-> t.nextId, bytes |-> t.bytes, max |-> size]
  <2>1. t = [names |-> t.names, pairs |-> t.pairs, entries |-> t.entries,
             nextId |-> t.nextId, bytes |-> t.bytes, max |-> t.max]
    BY DEF IsTable
  <2> QED
    BY <2>1
<1>2. setMaxSize(t, size) = evict(w)
  BY DEF setMaxSize
<1> HIDE DEF w
<1>3. /\ w.names = t.names /\ w.pairs = t.pairs /\ w.entries = t.entries
      /\ w.nextId = t.nextId /\ w.bytes = t.bytes /\ w.max = size
  BY <1>1
<1>4. IsTable(w)
  <2>1. w = [names |-> w.names, pairs |-> w.pairs, entries |-> w.entries,
             nextId |-> w.nextId, bytes |-> w.bytes, max |-> w.max]
    BY <1>1
  <2> QED
    BY <1>3, <2>1 DEF IsTable
<1>5. Overfull(w)
  <2>1. Names(w) = Names(t) /\ Pairs(w) = Pairs(t) /\ oldestId(w) = oldestId(t)
    BY <1>3 DEF Names, Pairs, oldestId
  <2> QED
    BY <1>3, <2>1 DEF Overfull, TableSound
<1> QED
  BY <1>2, <1>3, <1>4, <1>5, EvictSound

\* insert adds the newest entry and evicts what does not fit.
LEMMA InsertSound ==
    ASSUME NEW t, IsTable(t), TableSound(t), NEW h \in HeaderFields
    PROVE  LET u == insert(t, h)
           IN  /\ IsTable(u) /\ TableSound(u) /\ u.max = t.max /\ u.nextId = t.nextId + 1
               /\ u.entries = Fitting(Append(t.entries, h), t.max)
<1> DEFINE e == t.entries
           a == Mapped(t.names, h.name, t.nextId)
           b == Mapped(t.pairs, Pair(h), t.nextId)
           w == [addEntry(t, h) EXCEPT !.bytes = @ + Size(h)]
<1>0. /\ e \in Seq(HeaderFields) /\ Len(e) \in Nat /\ Len(e) < t.nextId
      /\ t.nextId \in Nat /\ t.bytes \in Nat /\ t.max \in Nat /\ t.bytes = Bytes(e)
      /\ Size(h) \in Nat
  BY FieldFacts DEF IsTable, TableSound
<1>1. insert(t, h) = evict(w)
  BY DEF insert
<1>2. /\ w = [names |-> w.names, pairs |-> w.pairs, entries |-> w.entries,
              nextId |-> w.nextId, bytes |-> w.bytes, max |-> w.max]
      /\ w.names = a /\ w.pairs = b /\ w.entries = Append(e, h)
      /\ w.nextId = t.nextId + 1 /\ w.bytes = t.bytes + Size(h) /\ w.max = t.max
  <2>1. PICK c, n, d : c = Append(e, h) /\ n = t.nextId + 1 /\ d = t.bytes + Size(h)
    OBVIOUS
  <2>2. t = [names |-> t.names, pairs |-> t.pairs, entries |-> t.entries,
             nextId |-> t.nextId, bytes |-> t.bytes, max |-> t.max]
    BY DEF IsTable
  <2>3. PICK v : v = [t EXCEPT !.names = a, !.pairs = b, !.entries = c, !.nextId = n]
    OBVIOUS
  <2>4. addEntry(t, h) = v
    BY <2>1, <2>3 DEF addEntry
  <2> HIDE DEF a, b, e
  <2>5. /\ DOMAIN v = {"names", "pairs", "entries", "nextId", "bytes", "max"}
        /\ v = [x \in DOMAIN v |-> v[x]]
    BY <2>2, <2>3
  <2>6. /\ v.names = a /\ v.pairs = b /\ v.entries = c /\ v.bytes = t.bytes
        /\ v.nextId = n /\ v.max = t.max
    BY <2>2, <2>3
  <2>7. w = [v EXCEPT !.bytes = d]
    BY <2>1, <2>4, <2>6
  <2> HIDE DEF w
  <2>8. v = [names |-> v.names, pairs |-> v.pairs, entries |-> v.entries,
             nextId |-> v.nextId, bytes |-> v.bytes, max |-> v.max]
    BY <2>5, TableMembers
  <2>9. w = [names |-> a, pairs |-> b, entries |-> c, nextId |-> n, bytes |-> d, max |-> t.max]
    BY <2>6, <2>7, <2>8
  <2> QED
    BY <2>1, <2>9
<1> HIDE DEF w
<1> DEFINE longer == Append(e, h)
           K == {g.name : g \in HeaderFields}
           L == {Pair(g) : g \in HeaderFields}
<1>3. /\ longer \in Seq(HeaderFields) /\ Len(longer) = Len(e) + 1 /\ longer[Len(e) + 1] = h
      /\ \A i \in 1 .. Len(e) : longer[i] = e[i]
  BY <1>0
<1>4. /\ Names(t) \in Seq(K) /\ Len(Names(t)) = Len(e)
      /\ Pairs(t) \in Seq(L) /\ Len(Pairs(t)) = Len(e)
      /\ \A i \in 1 .. Len(e) : Names(t)[i] = e[i].name /\ Pairs(t)[i] = Pair(e[i])
  BY <1>0, KeysAre
<1> HIDE DEF longer
<1>5. w.entries = longer
  BY <1>2 DEF longer
<1>6. /\ Names(w) \in Seq(K) /\ Len(Names(w)) = Len(longer)
      /\ Pairs(w) \in Seq(L) /\ Len(Pairs(w)) = Len(longer)
      /\ \A i \in 1 .. Len(longer) : Names(w)[i] = longer[i].name /\ Pairs(w)[i] = Pair(longer[i])
  BY <1>3, <1>5, KeysAre
<1>7. h.name \in K /\ Pair(h) \in L
  OBVIOUS
<1>8. oldestId(t) \in Nat /\ oldestId(w) = oldestId(t) /\ t.nextId = oldestId(t) + Len(e)
  <2>1. oldestId(t) = t.nextId - Len(e) /\ oldestId(w) = (t.nextId + 1) - Len(longer)
    BY <1>2, <1>5 DEF oldestId
  <2> HIDE DEF e
  <2>2. /\ t.nextId \in Nat /\ Len(e) \in Nat /\ Len(e) < t.nextId
        /\ Len(longer) = Len(e) + 1
    BY <1>0, <1>3
  <2> QED
    BY <2>1, <2>2
<1> HIDE DEF e, K, L
<1>9. /\ Len(e) + 1 \in 1 .. Len(longer)
      /\ \A i \in 1 .. Len(e) : i \in 1 .. Len(longer)
  BY <1>0, <1>3
<1>10. a \in [DOMAIN a -> Nat] /\ MapSound(a, Names(w), oldestId(w))
  <2>1. t.names \in [DOMAIN t.names -> Nat] /\ MapSound(t.names, Names(t), oldestId(t))
    BY DEF IsTable, TableSound
  <2>2. /\ Len(Names(w)) = Len(Names(t)) + 1 /\ Names(w)[Len(Names(t)) + 1] = h.name
        /\ \A i \in 1 .. Len(Names(t)) : Names(w)[i] = Names(t)[i]
    BY <1>3, <1>4, <1>6, <1>9
  <2> DEFINE new == Mapped(t.names, h.name, oldestId(t) + Len(Names(t)))
  <2>3. new \in [DOMAIN new -> Nat] /\ MapSound(new, Names(w), oldestId(t))
    BY <1>4, <1>6, <1>7, <1>8, <2>1, <2>2, MappedSound
  <2>4. new = a
    BY <1>4, <1>8
  <2> HIDE DEF new, a
  <2> QED
    BY <1>8, <2>3, <2>4
<1>11. b \in [DOMAIN b -> Nat] /\ MapSound(b, Pairs(w), oldestId(w))
  <2>1. t.pairs \in [DOMAIN t.pairs -> Nat] /\ MapSound(t.pairs, Pairs(t), oldestId(t))
    BY DEF IsTable, TableSound
  <2>2. /\ Len(Pairs(w)) = Len(Pairs(t)) + 1 /\ Pairs(w)[Len(Pairs(t)) + 1] = Pair(h)
        /\ \A i \in 1 .. Len(Pairs(t)) : Pairs(w)[i] = Pairs(t)[i]
    BY <1>3, <1>4, <1>6, <1>9
  <2> DEFINE new == Mapped(t.pairs, Pair(h), oldestId(t) + Len(Pairs(t)))
  <2>3. new \in [DOMAIN new -> Nat] /\ MapSound(new, Pairs(w), oldestId(t))
    BY <1>4, <1>6, <1>7, <1>8, <2>1, <2>2, MappedSound
  <2>4. new = b
    BY <1>4, <1>8
  <2> HIDE DEF new, b
  <2> QED
    BY <1>8, <2>3, <2>4
<1> HIDE DEF a, b
<1>12. Bytes(longer) = Bytes(e) + Size(h) /\ Bytes(e) \in Nat
  <2>1. Bytes(longer) = BytesUpTo(longer, Len(e)) + Size(longer[Len(e) + 1])
    BY <1>0, <1>3, BytesStep DEF Bytes
  <2>2. /\ Len(e) \in 0 .. (Len(longer) - 0) /\ Len(e) =< Len(e) /\ 0 \in 0 .. Len(longer)
        /\ 0 + Len(e) = Len(e) /\ \A i \in 1 .. Len(e) : e[i] = longer[0 + i]
    BY <1>0, <1>3
  <2>3. BytesUpTo(e, Len(e)) = BytesUpTo(longer, 0 + Len(e)) - BytesUpTo(longer, 0)
    BY <1>0, <1>3, <2>2, BytesOfPart
  <2>4. BytesUpTo(longer, 0) = 0
    BY BytesStep
  <2>5. BytesUpTo(longer, Len(e)) \in Nat
    BY <1>3, <2>2, BytesTyped
  <2> QED
    BY <1>3, <2>1, <2>2, <2>3, <2>4, <2>5 DEF Bytes
<1>13. IsTable(w)
  BY <1>0, <1>2, <1>3, <1>5, <1>10, <1>11 DEF IsTable
<1>14. Overfull(w)
  BY <1>0, <1>2, <1>3, <1>5, <1>10, <1>11, <1>12 DEF Overfull
<1> QED
  BY <1>1, <1>2, <1>5, <1>13, <1>14, EvictSound DEF longer, e
-----------------------------------------------------------------------------
(***************************************************************************)
(* Prefix integers                                                         *)
(***************************************************************************)

\* The weights of groups have a value.
LEMMA WeightDefined ==
    ASSUME NEW n \in Nat
    PROVE  \E f : f = [i \in 0 .. n |-> IF i = 0 THEN 1 ELSE 128 * f[i - 1]]
<1> DEFINE G(f, i) == IF i = 0 THEN 1 ELSE 128 * f[i - 1]
           S == {m \in Nat : \E f : f = [i \in 0 .. m |-> G(f, i)]}
<1>1. 0 \in S
  <2> DEFINE f == [i \in 0 .. 0 |-> 1]
  <2>1. f = [i \in 0 .. 0 |-> G(f, i)]
    OBVIOUS
  <2> QED
    BY <2>1
<1>2. ASSUME NEW m \in 0 .. n, m \in S PROVE m + 1 \in S
  <2>1. PICK f : f = [i \in 0 .. m |-> G(f, i)]
    BY <1>2
  <2> DEFINE g == [i \in 0 .. (m + 1) |-> IF i = m + 1 THEN G(f, i) ELSE f[i]]
  <2>2. \A i \in 0 .. (m + 1) : G(g, i) = G(f, i)
    OBVIOUS
  <2>3. \A i \in 0 .. m : f[i] = G(f, i)
    BY <2>1
  <2>4. \A i \in 0 .. (m + 1) : g[i] = G(g, i)
    BY <2>2, <2>3
  <2>5. g = [i \in 0 .. (m + 1) |-> g[i]]
    OBVIOUS
  <2> HIDE DEF g, G
  <2>6. g = [i \in 0 .. (m + 1) |-> G(g, i)]
    BY <2>4, <2>5
  <2> QED
    BY <2>6
<1> HIDE DEF S
<1>3. n \in S
  BY <1>1, <1>2, LoopInduction
<1> QED
  BY <1>3 DEF S

\* A group weighs 128 times as much as the one before.
LEMMA WeightStep ==
    ASSUME NEW n \in Nat
    PROVE  Weight(0) = 1 /\ Weight(n + 1) = 128 * Weight(n)
<1> DEFINE G(f, i) == IF i = 0 THEN 1 ELSE 128 * f[i - 1]
           F(m) == CHOOSE f : f = [i \in 0 .. m |-> G(f, i)]
<1>1. ASSUME NEW m \in Nat
      PROVE  /\ Weight(m) = F(m)[m]
             /\ \A i \in 0 .. m : F(m)[i] = G(F(m), i)
  <2>1. F(m) = [i \in 0 .. m |-> G(F(m), i)]
    BY WeightDefined
  <2>2. Weight(m) = F(m)[m]
    BY DEF Weight
  <2> HIDE DEF F, G
  <2> QED
    BY <2>1, <2>2
<1> HIDE DEF F
<1>2. Weight(0) = 1
  BY <1>1
<1> DEFINE S == {m \in 0 .. n : F(n)[m] = F(n + 1)[m]}
<1>3. 0 \in S
  BY <1>1
<1>4. ASSUME NEW m \in 0 .. n, m # n, m \in S PROVE m + 1 \in S
  <2>1. F(n)[m + 1] = 128 * F(n)[m]
    BY <1>1, <1>4
  <2>2. F(n + 1)[m + 1] = 128 * F(n + 1)[m]
    BY <1>1, <1>4
  <2> QED
    BY <1>4, <2>1, <2>2
<1> HIDE DEF S
<1>5. n \in S
  BY <1>3, <1>4, LoopInduction
<1>6. F(n + 1)[n + 1] = 128 * F(n + 1)[n]
  BY <1>1
<1> QED
  BY <1>1, <1>2, <1>5, <1>6 DEF S

\* Weights are positive and grow.
LEMMA WeightTyped ==
    ASSUME NEW n \in Nat
    PROVE  Weight(n) \in Nat \ {0} /\ Weight(n) < Weight(n + 1)
<1> DEFINE S == {m \in Nat : Weight(m) \in Nat \ {0}}
<1>1. 0 \in S
  BY WeightStep
<1>2. ASSUME NEW m \in 0 .. n, m # n, m \in S PROVE m + 1 \in S
  BY <1>2, WeightStep
<1> HIDE DEF S
<1>3. n \in S
  BY <1>1, <1>2, LoopInduction
<1>4. Weight(n) \in Nat \ {0} /\ Weight(n + 1) = 128 * Weight(n)
  BY <1>3, WeightStep DEF S
<1> QED
  BY <1>4

\* The loop over the groups of an integer has a result ...
LEMMA GroupsDefined ==
    ASSUME NEW o, NEW n \in Nat
    PROVE  \E f : f = [i \in 0 .. n |->
                         IF i = 0 THEN 0 ELSE f[i - 1] + (o[i] % 128) * Weight(i - 1)]
<1> DEFINE G(f, i) == IF i = 0 THEN 0 ELSE f[i - 1] + (o[i] % 128) * Weight(i - 1)
           S == {m \in Nat : \E f : f = [i \in 0 .. m |-> G(f, i)]}
<1>1. 0 \in S
  <2> DEFINE f == [i \in 0 .. 0 |-> 0]
  <2>1. f = [i \in 0 .. 0 |-> G(f, i)]
    OBVIOUS
  <2> QED
    BY <2>1
<1>2. ASSUME NEW m \in 0 .. n, m \in S PROVE m + 1 \in S
  <2>1. PICK f : f = [i \in 0 .. m |-> G(f, i)]
    BY <1>2
  <2> DEFINE g == [i \in 0 .. (m + 1) |-> IF i = m + 1 THEN G(f, i) ELSE f[i]]
  <2>2. \A i \in 0 .. (m + 1) : G(g, i) = G(f, i)
    OBVIOUS
  <2>3. \A i \in 0 .. m : f[i] = G(f, i)
    BY <2>1
  <2>4. \A i \in 0 .. (m + 1) : g[i] = G(g, i)
    BY <2>2, <2>3
  <2>5. g = [i \in 0 .. (m + 1) |-> g[i]]
    OBVIOUS
  <2> HIDE DEF g, G
  <2>6. g = [i \in 0 .. (m + 1) |-> G(g, i)]
    BY <2>4, <2>5
  <2> QED
    BY <2>6
<1> HIDE DEF S
<1>3. n \in S
  BY <1>1, <1>2, LoopInduction
<1> QED
  BY <1>3 DEF S

\* ... and any sequence of partial sums leads to it.
LEMMA GroupsAre ==
    ASSUME NEW o, Len(o) \in Nat, NEW g, g[0] = 0,
           \A i \in 1 .. Len(o) : g[i] = g[i - 1] + (o[i] % 128) * Weight(i - 1)
    PROVE  Groups(o) = g[Len(o)]
<1> DEFINE n == Len(o)
           G(f, i) == IF i = 0 THEN 0 ELSE f[i - 1] + (o[i] % 128) * Weight(i - 1)
           F == CHOOSE f : f = [i \in 0 .. n |-> G(f, i)]
<1>1. F = [i \in 0 .. n |-> G(F, i)]
  BY GroupsDefined, ZenonT(40)
<1>2. Groups(o) = F[n]
  BY DEF Groups
<1>3. \A i \in 1 .. n : g[i] = G(g, i)
  OBVIOUS
<1> HIDE DEF F
<1>4. \A i \in 0 .. n : F[i] = G(F, i)
  <2> HIDE DEF G
  <2> QED
    BY <1>1
<1> DEFINE S == {m \in 0 .. n : F[m] = g[m]}
<1>5. 0 \in S
  BY <1>4
<1>6. ASSUME NEW m \in 0 .. n, m # n, m \in S PROVE m + 1 \in S
  <2>1. m + 1 \in 1 .. n /\ m + 1 \in 0 .. n /\ m + 1 # 0 /\ (m + 1) - 1 = m
    BY <1>6
  <2>2. G(F, m + 1) = G(g, m + 1)
    BY <1>6, <2>1
  <2> HIDE DEF G
  <2> QED
    BY <1>3, <1>4, <2>1, <2>2
<1> HIDE DEF S, G
<1>7. \A m \in 0 .. n : m \in S
  BY <1>5, <1>6, LoopInduction
<1>8. n \in 0 .. n
  OBVIOUS
<1> QED
  BY <1>2, <1>7, <1>8 DEF S

\* Octets that stand for v behind a prefix of p bits: what follows the first
\* are groups, of which the last one is marked as such.
IsCode(o, p, v) ==
    /\ o \in Seq(Nat) /\ Len(o) >= 1
    /\ v < Limit(p) => Len(o) = 1 /\ o[1] % 2 ^ p = v
    /\ ~ (v < Limit(p)) =>
          /\ o[1] % 2 ^ p = Limit(p)
          /\ Len(o) - 1 \in 1 .. MaxGroups
          /\ o[Len(o)] < 128 /\ \A i \in 2 .. Len(o) - 1 : o[i] >= 128
          /\ Groups(Tail(o)) = v - Limit(p)

\* The prefixes in use
LEMMA PrefixesInUse ==
    ASSUME NEW p \in {4, 5, 6, 7}
    PROVE  /\ 2 ^ p \in Nat \ {0} /\ Limit(p) \in Nat /\ Limit(p) = 2 ^ p - 1 /\ 2 ^ p =< 128
           /\ 2 ^ 4 = 16 /\ 2 ^ 5 = 32 /\ 2 ^ 6 = 64 /\ 2 ^ 7 = 128
<1>1. 2 ^ 4 = 16 /\ 2 ^ 5 = 32 /\ 2 ^ 6 = 64 /\ 2 ^ 7 = 128
  OBVIOUS
<1>2. CASE p = 4
  BY <1>1, <1>2 DEF Limit
<1>3. CASE p = 5
  BY <1>1, <1>3 DEF Limit
<1>4. CASE p = 6
  BY <1>1, <1>4 DEF Limit
<1>5. CASE p = 7
  BY <1>1, <1>5 DEF Limit
<1> QED
  BY <1>2, <1>3, <1>4, <1>5

\* What encodeVInt puts out after a full prefix adds up to the rest of the value.
LEMMA GroupsOfValue ==
    ASSUME NEW v \in Nat, NEW n \in Nat, v < Weight(n), NEW o \in Seq(Nat), Len(o) = n,
           \A i \in 1 .. n : o[i] % 128 = (v \div Weight(i - 1)) % 128
    PROVE  Groups(o) = v
<1> DEFINE g == [i \in 0 .. n |-> v % Weight(i)]
<1>1. g[0] = 0
  <2>1. g[0] = v % 1
    BY WeightStep
  <2> QED
    BY <2>1
<1>2. ASSUME NEW i \in 1 .. n
      PROVE  g[i] = g[i - 1] + (o[i] % 128) * Weight(i - 1)
  <2>1. PICK w : w = Weight(i - 1)
    OBVIOUS
  <2>2. i - 1 \in Nat /\ (i - 1) + 1 = i /\ i \in 0 .. n /\ i - 1 \in 0 .. n
    OBVIOUS
  <2>3. w \in Nat \ {0} /\ Weight(i) = 128 * w
    BY <2>1, <2>2, WeightStep, WeightTyped
  <2>4. v % (128 * w) = (v % w) + (((v \div w) % 128) * w)
    BY <2>3, DigitStep, ZenonT(40)
  <2>5. g[i] = v % (128 * w) /\ g[i - 1] = v % w
    BY <2>1, <2>2, <2>3
  <2>6. o[i] % 128 = (v \div w) % 128
    BY <2>1
  <2> HIDE DEF g
  <2> QED
    BY <2>1, <2>4, <2>5, <2>6
<1>3. n \in 0 .. n
  OBVIOUS
<1>4. g[n] = v
  <2>1. PICK w : w = Weight(n) /\ w \in Nat \ {0}
    BY WeightTyped
  <2>2. v = (w * 0) + v /\ v \in 0 .. (w - 1)
    BY <2>1
  <2>3. v % w = v
    BY <2>1, <2>2, ModUnique
  <2> QED
    BY <1>3, <2>1, <2>3
<1> HIDE DEF g
<1> QED
  BY <1>1, <1>2, <1>4, GroupsAre

\* encodeVInt writes a code of its value, with a group to spare.
LEMMA CodeOf ==
    ASSUME NEW p \in {4, 5, 6, 7}, NEW v \in Nat, v < Weight(MaxGroups - 1)
    PROVE  LET o == encodeVInt(p, v)
           IN  /\ o \in Seq(Nat) /\ Len(o) \in 1 .. MaxGroups
               /\ o[1] = IF v < Limit(p) THEN v ELSE Limit(p)
               /\ v < Limit(p) <=> Len(o) = 1
               /\ ~ (v < Limit(p)) =>
                     /\ o[Len(o)] < 128 /\ \A i \in 2 .. Len(o) - 1 : o[i] >= 128
                     /\ Groups(Tail(o)) = v - Limit(p)
<1> DEFINE o == encodeVInt(p, v)
<1>0. MaxGroups \in Nat /\ MaxGroups >= 2 /\ Limit(p) \in Nat
  BY HpackAssumption, PrefixesInUse
<1>1. CASE v < Limit(p)
  <2>1. o = <<v>>
    BY <1>1 DEF encodeVInt
  <2> QED
    BY <1>0, <1>1, <2>1
<1>2. CASE ~ (v < Limit(p))
  <2> DEFINE x == v - Limit(p)
             K == {k \in 1 .. MaxGroups : x < Weight(k)}
             n == Min(K)
             D(i) == (x \div Weight(i - 1)) % 128
             d == [i \in 1 .. n |-> D(i) + (IF i < n THEN 128 ELSE 0)]
  <2>1. o = <<Limit(p)>> \o d
    BY <1>2 DEF encodeVInt
  <2>2. x \in Nat /\ x =< v
    BY <1>0, <1>2
  <2>3. MaxGroups - 1 \in K
    BY <1>0, <2>2, WeightTyped
  <2>4. K \in SUBSET Nat
    OBVIOUS
  <2>5. n \in K /\ n =< MaxGroups - 1
    BY <2>3, <2>4, MinIs
  <2> HIDE DEF n
  <2>6. n \in Nat /\ n >= 1 /\ x < Weight(n)
    BY <1>0, <2>5
  <2> HIDE DEF x, K
  <2>7. ASSUME NEW i \in 1 .. n PROVE D(i) \in 0 .. 127
    <3>1. PICK w \in Nat \ {0} : w = Weight(i - 1)
      BY <2>6, WeightTyped
    <3>2. x \div w \in Nat
      BY <2>2, <3>1, DivMod
    <3>3. (x \div w) % 128 \in 0 .. 127
      BY <3>2
    <3> QED
      BY <3>1, <3>3
  <2> HIDE DEF D
  <2>8. d \in Seq(Nat) /\ Len(d) = n
    BY <2>6, <2>7
  <2>9. ASSUME NEW i \in 1 .. n
        PROVE  /\ d[i] = D(i) + (IF i < n THEN 128 ELSE 0) /\ d[i] % 128 = D(i)
               /\ (IF i < n THEN d[i] >= 128 ELSE d[i] < 128)
    <3>1. D(i) \in 0 .. 127
      BY <2>7
    <3>2. d[i] = D(i) + (IF i < n THEN 128 ELSE 0)
      OBVIOUS
    <3> HIDE DEF d
    <3> QED
      BY <2>6, <3>1, <3>2
  <2> HIDE DEF d
  <2>10. Groups(d) = x
    <3>1. \A i \in 1 .. n : d[i] % 128 = (x \div Weight(i - 1)) % 128
      BY <2>9 DEF D
    <3>2. x \in Nat /\ n \in Nat /\ x < Weight(n)
      BY <2>2, <2>6
    <3> QED
      BY <2>8, <3>1, <3>2, GroupsOfValue, ZenonT(40)
  <2>11. /\ o \in Seq(Nat) /\ Len(o) = n + 1 /\ o[1] = Limit(p)
         /\ \A i \in 2 .. n + 1 : o[i] = d[i - 1]
         /\ Tail(o) = d
    BY <1>0, <2>1, <2>6, <2>8
  <2> HIDE DEF o
  <2>12. o[Len(o)] < 128
    <3>1. n + 1 \in 2 .. n + 1 /\ (n + 1) - 1 = n /\ n \in 1 .. n
      BY <2>6
    <3> QED
      BY <2>9, <2>11, <3>1
  <2>13. ASSUME NEW i \in 2 .. Len(o) - 1 PROVE o[i] >= 128
    <3>1. i \in 2 .. n + 1 /\ i - 1 \in 1 .. n /\ i - 1 < n
      BY <2>6, <2>11
    <3> QED
      BY <2>9, <2>11, <3>1
  <2>14. Len(o) \in 1 .. MaxGroups /\ Len(o) # 1
    BY <1>0, <2>5, <2>6, <2>11
  <2> QED
    BY <1>2, <2>10, <2>11, <2>12, <2>13, <2>14 DEF o, x
<1> QED
  BY <1>1, <1>2

\* The decoder reads back what a code stands for, ...
LEMMA CodeRead ==
    ASSUME NEW p \in {4, 5, 6, 7}, NEW v \in Nat, NEW o, IsCode(o, p, v)
    PROVE  decodeVInt(o, p) = {v}
<1> DEFINE first == o[1] % 2 ^ p
           ends  == {n \in 1 .. MaxGroups : n < Len(o) /\ o[n + 1] < 128}
<1>0. /\ MaxGroups \in Nat /\ Limit(p) \in Nat /\ o \in Seq(Nat) /\ Len(o) \in Nat
      /\ Len(o) >= 1 /\ o # <<>>
  BY HpackAssumption, PrefixesInUse, SMTT(40) DEF IsCode
<1>1. decodeVInt(o, p) = IF first < Limit(p) THEN {first}
                         ELSE IF ends = {} THEN {}
                         ELSE {first + Groups(SubSeq(o, 2, Min(ends) + 1))}
  BY <1>0 DEF decodeVInt
<1> HIDE DEF first
<1>2. CASE v < Limit(p)
  <2>1. first = v
    BY <1>2 DEF IsCode, first
  <2> QED
    BY <1>1, <1>2, <2>1
<1>3. CASE ~ (v < Limit(p))
  <2>1. /\ first = Limit(p) /\ Len(o) - 1 \in 1 .. MaxGroups
        /\ o[Len(o)] < 128 /\ \A i \in 2 .. Len(o) - 1 : o[i] >= 128
        /\ Groups(Tail(o)) = v - Limit(p)
    BY <1>3 DEF IsCode, first
  <2>2. ASSUME NEW n \in 1 .. MaxGroups
        PROVE  (n < Len(o) /\ o[n + 1] < 128) <=> n = Len(o) - 1
    <3>1. CASE n = Len(o) - 1
      <4>1. n + 1 = Len(o)
        BY <1>0, <3>1
      <4> QED
        BY <1>0, <2>1, <3>1, <4>1
    <3>2. CASE n < Len(o) /\ n # Len(o) - 1
      <4>1. n + 1 \in 2 .. Len(o) - 1
        BY <1>0, <3>2
      <4>2. o[n + 1] >= 128 /\ o[n + 1] \in Nat
        BY <1>0, <2>1, <4>1, SMTT(40)
      <4> QED
        BY <3>2, <4>2
    <3> QED
      BY <3>1, <3>2
  <2>3. ends = {Len(o) - 1}
    BY <2>1, <2>2
  <2> HIDE DEF ends
  <2>4. Min(ends) = Len(o) - 1
    <3>1. ends \in SUBSET Nat /\ ends # {}
      BY <1>0, <2>1, <2>3
    <3>2. Min(ends) \in ends
      BY <3>1, MinIs
    <3> QED
      BY <2>3, <3>2
  <2>5. SubSeq(o, 2, Min(ends) + 1) = Tail(o)
    <3>1. Min(ends) + 1 = Len(o)
      BY <1>0, <2>4
    <3>2. SubSeq(o, 2, Len(o)) = Tail(o)
      BY <1>0
    <3> QED
      BY <3>1, <3>2
  <2>6. first + (v - Limit(p)) = v /\ ~ (first < Limit(p))
    BY <1>0, <2>1
  <2> QED
    BY <1>1, <2>1, <2>3, <2>5, <2>6
<1> QED
  BY <1>2, <1>3

\* ... and nothing when the last octet is missing.
LEMMA CodeCut ==
    ASSUME NEW p \in {4, 5, 6, 7}, NEW v \in Nat, NEW o, IsCode(o, p, v), Len(o) > 1
    PROVE  Front(o)[1] = o[1] /\ decodeVInt(Front(o), p) = {}
<1> DEFINE c == Front(o)
           first == c[1] % 2 ^ p
           ends  == {n \in 1 .. MaxGroups : n < Len(c) /\ c[n + 1] < 128}
<1>0. /\ MaxGroups \in Nat /\ Limit(p) \in Nat /\ o \in Seq(Nat) /\ Len(o) \in Nat
  BY HpackAssumption, PrefixesInUse, SMTT(40) DEF IsCode
<1>1. c \in Seq(Nat) /\ Len(c) = Len(o) - 1 /\ \A i \in 1 .. Len(o) - 1 : c[i] = o[i]
  BY <1>0 DEF Front
<1> HIDE DEF c
<1>2. c[1] = o[1] /\ c # <<>>
  BY <1>0, <1>1
<1>3. /\ o[1] % 2 ^ p = Limit(p) /\ \A i \in 2 .. Len(o) - 1 : o[i] >= 128
  <2>1. ~ (v < Limit(p))
    <3> SUFFICES ASSUME v < Limit(p) PROVE FALSE
      OBVIOUS
    <3>1. Len(o) = 1
      BY Zenon DEF IsCode
    <3> QED
      BY <3>1
  <2> QED
    BY <2>1, Zenon DEF IsCode
<1>4. first = Limit(p)
  BY <1>2, <1>3
<1>5. ends = {}
  <2> SUFFICES ASSUME NEW n \in 1 .. MaxGroups, n < Len(c), c[n + 1] < 128 PROVE FALSE
    OBVIOUS
  <2>1. n + 1 \in 2 .. Len(o) - 1 /\ n + 1 \in 1 .. Len(o) - 1
    BY <1>0, <1>1
  <2>2. PICK m : m = n + 1 /\ m \in 2 .. Len(o) - 1 /\ m \in 1 .. Len(o) - 1
    BY <2>1
  <2>3. o[m] >= 128 /\ c[m] = o[m]
    BY <1>1, <1>3, <2>2, Zenon
  <2>5. m \in 1 .. Len(o)
    BY <1>0, <2>2
  <2>4. o[m] \in Nat
    BY <1>0, <2>5
  <2> QED
    BY <2>2, <2>3, <2>4
<1>6. decodeVInt(c, p) = IF first < Limit(p) THEN {first} ELSE IF ends = {} THEN {}
                         ELSE {first + Groups(SubSeq(c, 2, Min(ends) + 1))}
  BY <1>2 DEF decodeVInt
<1> HIDE DEF first, ends
<1> QED
  BY <1>0, <1>2, <1>4, <1>5, <1>6 DEF c

\* An instruction of kind k with the integer v
Kinds == {"indexed", "incremental", "update", "never", "literal"}
Means(i, k, v) == Kind(i) = k /\ IsCode(i.octets, Prefix[k], v)

\* The prefix of each kind
LEMMA PrefixOf ==
    /\ Prefix["indexed"] = 7 /\ Prefix["incremental"] = 6 /\ Prefix["update"] = 5
    /\ Prefix["never"] = 4 /\ Prefix["literal"] = 4
    /\ Flag["indexed"] = 128 /\ Flag["incremental"] = 64 /\ Flag["update"] = 32
    /\ Flag["never"] = 16 /\ Flag["literal"] = 0
    /\ \A k \in Kinds : Prefix[k] \in {4, 5, 6, 7}
BY DEF Prefix, Flag, Kinds

\* Instruction puts kind and integer together.
LEMMA InstructionMeans ==
    ASSUME NEW k \in Kinds, NEW v \in Nat, v < Weight(MaxGroups - 1), NEW strings
    PROVE  LET i == Instruction(Flag[k], Prefix[k], v, strings)
           IN  /\ Means(i, k, v) /\ i.strings = strings
               /\ i = [octets |-> i.octets, strings |-> strings]
               /\ Len(i.octets) =< MaxGroups
<1>p. PICK p, f, z : p = Prefix[k] /\ f = Flag[k] /\ z = 2 ^ p
  OBVIOUS
<1> DEFINE c == encodeVInt(p, v)
           i == Instruction(f, p, v, strings)
           o == [c EXCEPT ![1] = @ + f]
<1>0. p \in {4, 5, 6, 7} /\ MaxGroups \in Nat /\ f \in Nat
  BY <1>p, PrefixOf, HpackAssumption DEF Kinds
<1>1. i = [octets |-> o, strings |-> strings]
  BY DEF Instruction
<1>2. /\ c \in Seq(Nat) /\ Len(c) \in 1 .. MaxGroups
      /\ c[1] = IF v < Limit(p) THEN v ELSE Limit(p)
      /\ v < Limit(p) <=> Len(c) = 1
      /\ ~ (v < Limit(p)) =>
            /\ c[Len(c)] < 128 /\ \A j \in 2 .. Len(c) - 1 : c[j] >= 128
            /\ Groups(Tail(c)) = v - Limit(p)
  BY <1>0, CodeOf
<1> HIDE DEF c
<1>3. /\ o \in Seq(Nat) /\ Len(o) = Len(c) /\ o[1] = c[1] + f
      /\ \A j \in 2 .. Len(c) : o[j] = c[j]
  BY <1>0, <1>2
<1> HIDE DEF o
<1>4. Tail(o) = Tail(c)
  <2>1. /\ Len(Tail(o)) = Len(c) - 1 /\ Len(Tail(c)) = Len(c) - 1
        /\ Tail(o) \in Seq(Nat) /\ Tail(c) \in Seq(Nat)
    BY <1>0, <1>2, <1>3
  <2>2. ASSUME NEW j \in 1 .. Len(c) - 1 PROVE Tail(o)[j] = Tail(c)[j]
    <3>1. j + 1 \in 2 .. Len(c)
      BY <1>0, <1>2
    <3>2. Tail(o)[j] = o[j + 1] /\ Tail(c)[j] = c[j + 1]
      BY <1>0, <1>2, <1>3
    <3> QED
      BY <1>3, <3>1, <3>2
  <2> QED
    BY <2>1, <2>2, SameSequence
<1>5. c[1] \in 0 .. (z - 1) /\ Limit(p) \in Nat
  <2>1. Limit(p) \in Nat /\ Limit(p) = z - 1
    BY <1>0, <1>p, PrefixesInUse
  <2>2. c[1] \in 0 .. Limit(p)
    BY <1>2, <2>1
  <2> QED
    BY <2>1, <2>2
<1>6. /\ o[1] % z = c[1]
      /\ Kind([octets |-> o, strings |-> strings]) = k
  <2>k. Kind([octets |-> o, strings |-> strings]) =
            IF o[1] >= 128 THEN "indexed" ELSE IF o[1] >= 64 THEN "incremental"
            ELSE IF o[1] >= 32 THEN "update" ELSE IF o[1] >= 16 THEN "never" ELSE "literal"
    BY DEF Kind
  <2>p. 2 ^ 4 = 16 /\ 2 ^ 5 = 32 /\ 2 ^ 6 = 64 /\ 2 ^ 7 = 128
    OBVIOUS
  <2>1. CASE k = "indexed"
    <3>1. z = 128 /\ f = 128
      BY <1>p, <2>1, <2>p, PrefixOf
    <3>2. c[1] \in 0 .. 127 /\ o[1] = c[1] + 128
      BY <1>3, <1>5, <3>1
    <3> QED
      BY <2>1, <2>k, <3>1, <3>2
  <2>2. CASE k = "incremental"
    <3>1. z = 64 /\ f = 64
      BY <1>p, <2>2, <2>p, PrefixOf
    <3>2. c[1] \in 0 .. 63 /\ o[1] = c[1] + 64
      BY <1>3, <1>5, <3>1
    <3> QED
      BY <2>2, <2>k, <3>1, <3>2
  <2>3. CASE k = "update"
    <3>1. z = 32 /\ f = 32
      BY <1>p, <2>3, <2>p, PrefixOf
    <3>2. c[1] \in 0 .. 31 /\ o[1] = c[1] + 32
      BY <1>3, <1>5, <3>1
    <3> QED
      BY <2>3, <2>k, <3>1, <3>2
  <2>4. CASE k = "never"
    <3>1. z = 16 /\ f = 16
      BY <1>p, <2>4, <2>p, PrefixOf
    <3>2. c[1] \in 0 .. 15 /\ o[1] = c[1] + 16
      BY <1>3, <1>5, <3>1
    <3> QED
      BY <2>4, <2>k, <3>1, <3>2
  <2>5. CASE k = "literal"
    <3>1. z = 16 /\ f = 0
      BY <1>p, <2>5, <2>p, PrefixOf
    <3>2. c[1] \in 0 .. 15 /\ o[1] = c[1]
      BY <1>3, <1>5, <3>1, SMTT(40)
    <3> QED
      BY <2>5, <2>k, <3>1, <3>2
  <2> QED
    BY <2>1, <2>2, <2>3, <2>4, <2>5 DEF Kinds
<1>7. IsCode(o, p, v)
  <2>1. Len(o) >= 1 /\ Len(o) \in Nat
    BY <1>0, <1>2, <1>3
  <2>2. CASE v < Limit(p)
    BY <1>p, <1>2, <1>3, <1>6, <2>1, <2>2 DEF IsCode
  <2>3. CASE ~ (v < Limit(p))
    <3>l. Len(c) \in 1 .. MaxGroups /\ Len(c) # 1 /\ Len(o) = Len(c)
      BY <1>2, <1>3, <2>3
    <3>1. Len(o) - 1 \in 1 .. MaxGroups /\ Len(c) \in 2 .. Len(c)
      BY <1>0, <3>l
    <3>2. o[Len(o)] < 128
      BY <1>2, <1>3, <2>3, <3>1
    <3>3. ASSUME NEW j \in 2 .. Len(o) - 1 PROVE o[j] >= 128
      <4>1. j \in 2 .. Len(c)
        BY <1>0, <1>2, <1>3
      <4> QED
        BY <1>2, <1>3, <2>3, <4>1
    <3> QED
      BY <1>p, <1>2, <1>3, <1>4, <1>6, <2>1, <2>3, <3>1, <3>2, <3>3 DEF IsCode
  <2> QED
    BY <2>2, <2>3
<1>8. Len(o) =< MaxGroups
  BY <1>0, <1>2, <1>3
<1> HIDE DEF i
<1>9. i.octets = o /\ i.strings = strings
  BY <1>1
<1> QED
  BY <1>p, <1>1, <1>6, <1>7, <1>8, <1>9 DEF Means, i

\* Integer, Complete and decodeVInt agree on an instruction.
LEMMA MeansRead ==
    ASSUME NEW k \in Kinds, NEW v \in Nat, NEW i, Means(i, k, v)
    PROVE  Integer(i) = v /\ Complete(i) /\ decodeVInt(i.octets, Prefix[k]) = {v}
<1>1. PICK p, o, first : p = Prefix[k] /\ o = i.octets /\ first = o[1] % 2 ^ p
  OBVIOUS
<1>2. Kind(i) = k /\ IsCode(o, p, v)
  BY <1>1 DEF Means
<1>3. p \in {4, 5, 6, 7}
  BY <1>1, PrefixOf
<1>4. Limit(p) \in Nat /\ o \in Seq(Nat)
  BY <1>2, <1>3, PrefixesInUse DEF IsCode
<1>5. Integer(i) = IF first < Limit(p) THEN first ELSE first + Groups(Tail(o))
  BY <1>1, <1>2 DEF Integer
<1>6. Complete(i) <=> (first = Limit(p) => Len(o) > 1 /\ Last(o) < 128)
  BY <1>1, <1>2 DEF Complete
<1>7. decodeVInt(i.octets, Prefix[k]) = {v}
  BY <1>1, <1>2, <1>3, CodeRead
<1>8. CASE v < Limit(p)
  <2>1. first = v
    BY <1>1, <1>2, <1>8, Zenon DEF IsCode
  <2> QED
    BY <1>4, <1>5, <1>6, <1>7, <1>8, <2>1
<1>9. CASE ~ (v < Limit(p))
  <2>1. /\ first = Limit(p) /\ Len(o) - 1 \in 1 .. MaxGroups
        /\ o[Len(o)] < 128 /\ Groups(Tail(o)) = v - Limit(p)
    BY <1>1, <1>2, <1>9, Zenon DEF IsCode
  <2>2. Len(o) \in Nat /\ MaxGroups \in Nat
    BY <1>4, HpackAssumption
  <2>3. Len(o) > 1 /\ Last(o) < 128
    BY <2>1, <2>2 DEF Last
  <2>4. first + (v - Limit(p)) = v /\ ~ (first < Limit(p))
    BY <1>4, <2>1
  <2> QED
    BY <1>5, <1>6, <1>7, <2>1, <2>3, <2>4
<1> QED
  BY <1>8, <1>9

\* There are partial sums.
LEMMA GroupsSums ==
    ASSUME NEW o, Len(o) \in Nat
    PROVE  \E f : /\ f[0] = 0
                 /\ \A i \in 1 .. Len(o) : f[i] = f[i - 1] + (o[i] % 128) * Weight(i - 1)
<1> DEFINE n == Len(o)
           D(i) == (o[i] % 128) * Weight(i - 1)
           G(f, i) == IF i = 0 THEN 0 ELSE f[i - 1] + D(i)
           F == CHOOSE f : f = [i \in 0 .. n |-> G(f, i)]
<1>1. F = [i \in 0 .. n |-> G(F, i)]
  BY GroupsDefined, ZenonT(40)
<1> HIDE DEF F, D
<1>2. \A i \in 0 .. n : F[i] = G(F, i)
  <2> HIDE DEF G
  <2> QED
    BY <1>1
<1> HIDE <1>1
<1>3. F[0] = 0 /\ \A i \in 1 .. n : F[i] = F[i - 1] + D(i)
  BY <1>2
<1> QED
  BY <1>3, Zenon DEF D

\* A group of zeros at the end changes nothing.
LEMMA PaddedGroups ==
    ASSUME NEW o, NEW c, NEW n \in Nat, Len(o) = n, Len(c) = n + 1, c[n + 1] = 0,
           \A i \in 1 .. n : o[i] \in Nat /\ c[i] % 128 = o[i] % 128
    PROVE  Groups(c) = Groups(o)
<1> DEFINE D(i) == (o[i] % 128) * Weight(i - 1)
           E(i) == (c[i] % 128) * Weight(i - 1)
<1>0. Len(o) \in Nat
  OBVIOUS
<1>p. PICK f : f[0] = 0 /\ \A i \in 1 .. Len(o) : f[i] = f[i - 1] + D(i)
  BY <1>0, GroupsSums, Zenon
<1>1. f[0] = 0 /\ \A i \in 1 .. n : f[i] = f[i - 1] + D(i)
  BY <1>p, Zenon
<1>d. /\ \A i \in 1 .. n : E(i) = D(i) /\ D(i) \in Nat
      /\ E(n + 1) = 0
  <2>1. ASSUME NEW i \in 1 .. n PROVE E(i) = D(i) /\ D(i) \in Nat
    <3>1. PICK w \in Nat : w = Weight(i - 1)
      BY WeightTyped
    <3>a. PICK x \in Nat : x = o[i]
      OBVIOUS
    <3>b. PICK y : y = c[i]
      OBVIOUS
    <3>2. x = o[i] /\ y = c[i] /\ y % 128 = x % 128
      BY <3>a, <3>b
    <3>3. (x % 128) * w \in Nat
      <4>1. PICK r \in 0 .. 127 : r = x % 128
        OBVIOUS
      <4>2. r * w \in Nat
        OBVIOUS
      <4> QED
        BY <4>1, <4>2
    <3>4. E(i) = (y % 128) * w /\ D(i) = (x % 128) * w
      BY <3>1, <3>2, Zenon
    <3> HIDE DEF D, E
    <3> QED
      BY <3>2, <3>3, <3>4
  <2>2. E(n + 1) = 0
    <3>1. PICK w \in Nat : w = Weight((n + 1) - 1)
      BY WeightTyped
    <3>2. 0 * w = 0 /\ 0 % 128 = 0
      OBVIOUS
    <3>3. E(n + 1) = (0 % 128) * w
      BY <3>1, Zenon
    <3> HIDE DEF E
    <3> QED
      BY <3>2, <3>3
  <2> HIDE DEF D, E
  <2> QED
    BY <2>1, <2>2
<1>a. ASSUME NEW g, g[0] = 0, \A i \in 1 .. n : g[i] = g[i - 1] + D(i)
      PROVE  Groups(o) = g[n]
  BY <1>a, GroupsAre, Zenon
<1>b. ASSUME NEW g, g[0] = 0, \A i \in 1 .. (n + 1) : g[i] = g[i - 1] + E(i)
      PROVE  Groups(c) = g[n + 1]
  <2>1. Len(c) \in Nat /\ n + 1 = Len(c)
    OBVIOUS
  <2>2. \A i \in 1 .. Len(c) : g[i] = g[i - 1] + (c[i] % 128) * Weight(i - 1)
    BY <1>b, <2>1, Zenon
  <2>3. Groups(c) = g[Len(c)]
    BY <1>b, <2>1, <2>2, GroupsAre, Zenon
  <2> QED
    BY <2>1, <2>3, Zenon
<1> HIDE DEF D, E
<1>4. Groups(o) = f[n]
  BY <1>1, <1>a
<1>s. f[n] \in Nat
  <2> DEFINE S == {i \in 0 .. n : f[i] \in Nat}
  <2>1. 0 \in S
    BY <1>1
  <2>2. ASSUME NEW m \in 0 .. n, m # n, m \in S PROVE m + 1 \in S
    <3>1. m + 1 \in 1 .. n /\ (m + 1) - 1 = m
      BY <2>2
    <3> QED
      BY <1>1, <1>d, <2>2, <3>1
  <2> HIDE DEF S
  <2>3. \A i \in 0 .. n : i \in S
    BY <2>1, <2>2, LoopInduction
  <2> QED
    BY <2>3 DEF S
<1> DEFINE g == [i \in 0 .. (n + 1) |-> IF i = n + 1 THEN f[n] ELSE f[i]]
<1>5. g[0] = 0 /\ g[n + 1] = f[n]
  BY <1>1
<1>6. ASSUME NEW i \in 1 .. (n + 1) PROVE g[i] = g[i - 1] + E(i)
  <2>1. CASE i = n + 1
    <3>1. g[i] = f[n] /\ g[i - 1] = f[n]
      BY <2>1
    <3> HIDE DEF g
    <3> QED
      BY <1>d, <1>s, <2>1, <3>1
  <2>2. CASE i # n + 1
    <3>1. i \in 1 .. n /\ g[i] = f[i] /\ g[i - 1] = f[i - 1]
      BY <2>2
    <3> HIDE DEF g
    <3> QED
      BY <1>1, <1>d, <3>1
  <2> QED
    BY <2>1, <2>2
<1> HIDE DEF g
<1>7. Groups(c) = g[n + 1]
  BY <1>5, <1>6, <1>b
<1> QED
  BY <1>4, <1>5, <1>7

\* The octets of a code and a group of zeros
LEMMA PaddedOctets ==
    ASSUME NEW o \in Seq(Nat), NEW n \in Nat, n >= 2, Len(o) = n
    PROVE  LET c == [o EXCEPT ![n] = @ + 128] \o <<0>>
           IN  /\ c \in Seq(Nat) /\ Len(c) = n + 1 /\ c[n + 1] = 0
               /\ c[1] = o[1] /\ c[n] = o[n] + 128 /\ o[n] \in Nat
               /\ \A i \in 1 .. n - 1 : c[i] = o[i]
<1> DEFINE d == [o EXCEPT ![n] = @ + 128]
<1>1. /\ d \in Seq(Nat) /\ Len(d) = n /\ d[n] = o[n] + 128 /\ o[n] \in Nat
      /\ \A i \in 1 .. n - 1 : d[i] = o[i]
  OBVIOUS
<1> HIDE DEF d
<1> DEFINE c == d \o <<0>>
<1>2. /\ c \in Seq(Nat) /\ Len(c) = n + 1 /\ c[n + 1] = 0
      /\ \A i \in 1 .. n : c[i] = d[i]
  BY <1>1
<1> HIDE DEF c
<1>3. c[1] = o[1] /\ c[n] = o[n] + 128 /\ \A i \in 1 .. n - 1 : c[i] = o[i]
  BY <1>1, <1>2
<1> QED
  BY <1>1, <1>2, <1>3 DEF c, d

\* The groups after the first octet
LEMMA TailOctets ==
    ASSUME NEW o \in Seq(Nat), NEW n \in Nat, n >= 1, Len(o) = n
    PROVE  /\ Tail(o) \in Seq(Nat) /\ Len(Tail(o)) = n - 1
           /\ \A i \in 1 .. n - 1 : Tail(o)[i] = o[i + 1] /\ o[i + 1] \in Nat
OBVIOUS

\* A code goes on with a group of zeros.
LEMMA PaddedCode ==
    ASSUME NEW p \in {4, 5, 6, 7}, NEW v \in Nat, NEW o, IsCode(o, p, v),
           NEW n \in 2 .. MaxGroups, n = Len(o)
    PROVE  LET c == [o EXCEPT ![n] = @ + 128] \o <<0>>
           IN  IsCode(c, p, v) /\ c[1] = o[1]
<1>0. MaxGroups \in Nat /\ Limit(p) \in Nat /\ n \in Nat /\ n >= 2
  BY HpackAssumption, PrefixesInUse
<1>z. PICK z : z = 2 ^ p
  OBVIOUS
<1>1. ~ (v < Limit(p))
  <2> SUFFICES ASSUME v < Limit(p) PROVE FALSE
    OBVIOUS
  <2>1. Len(o) = 1
    BY Zenon DEF IsCode
  <2> QED
    BY <1>0, <2>1
<1>2. /\ o[1] % z = Limit(p) /\ o[Len(o)] < 128
      /\ \A i \in 2 .. Len(o) - 1 : o[i] >= 128 /\ Groups(Tail(o)) = v - Limit(p)
      /\ Groups(Tail(o)) = v - Limit(p)
  BY <1>1, <1>z, Zenon DEF IsCode
<1>3. o \in Seq(Nat)
  BY Zenon DEF IsCode
<1> DEFINE c == [o EXCEPT ![n] = @ + 128] \o <<0>>
<1>7. /\ c \in Seq(Nat) /\ Len(c) = n + 1 /\ c[n + 1] = 0
      /\ c[1] = o[1] /\ c[n] = o[n] + 128 /\ o[n] \in Nat
      /\ \A i \in 1 .. n - 1 : c[i] = o[i]
  BY <1>0, <1>3, PaddedOctets, ZenonT(40)
<1> HIDE DEF c
<1>8. /\ c[1] = o[1] /\ c[n] = o[n] + 128 /\ o[n] \in Nat
      /\ \A i \in 1 .. n - 1 : c[i] = o[i]
  BY <1>7, Zenon
<1>9. Groups(Tail(c)) = Groups(Tail(o))
  <2>a. n + 1 \in Nat /\ n + 1 >= 1 /\ (n + 1) - 1 = n
    BY <1>0
  <2>b. /\ Len(Tail(o)) = n - 1
        /\ \A i \in 1 .. n - 1 : Tail(o)[i] = o[i + 1] /\ o[i + 1] \in Nat
    BY <1>0, <1>3, TailOctets
  <2>c. Len(Tail(c)) = n /\ \A i \in 1 .. n : Tail(c)[i] = c[i + 1]
    BY <1>7, <2>a, TailOctets
  <2>1. /\ Len(Tail(o)) = n - 1 /\ Len(Tail(c)) = n /\ n - 1 \in Nat /\ (n - 1) + 1 = n
        /\ Tail(c)[n] = 0
        /\ \A i \in 1 .. n - 1 : /\ Tail(o)[i] = o[i + 1] /\ o[i + 1] \in Nat
                                 /\ Tail(c)[i] = c[i + 1]
    BY <1>0, <1>7, <2>b, <2>c, SMTT(40)
  <2>2. ASSUME NEW i \in 1 .. n - 1
        PROVE  Tail(o)[i] \in Nat /\ Tail(c)[i] % 128 = Tail(o)[i] % 128
    <3>1. PICK x : x = o[i + 1] /\ x \in Nat /\ x = Tail(o)[i]
      BY <2>1
    <3>2. CASE i = n - 1
      <4>1. Tail(c)[i] = x + 128
        BY <1>0, <1>8, <2>1, <3>1, <3>2
      <4>2. x \in Nat => (x + 128) % 128 = x % 128
        OBVIOUS
      <4> QED
        BY <3>1, <4>1, <4>2
    <3>3. CASE i # n - 1
      <4>1. i + 1 \in 1 .. n - 1
        BY <1>0, <3>3
      <4>2. Tail(c)[i] = x
        BY <1>8, <2>1, <3>1, <4>1
      <4> QED
        BY <3>1, <4>2
    <3> QED
      BY <3>2, <3>3
  <2>3. PICK m, s, t : m = n - 1 /\ s = Tail(o) /\ t = Tail(c)
    OBVIOUS
  <2>4. /\ m \in Nat /\ Len(s) = m /\ Len(t) = m + 1 /\ t[m + 1] = 0
        /\ \A i \in 1 .. m : s[i] \in Nat /\ t[i] % 128 = s[i] % 128
    BY <2>1, <2>2, <2>3
  <2>5. Groups(t) = Groups(s)
    BY <2>4, PaddedGroups, Zenon
  <2> QED
    BY <2>3, <2>5
<1>10. /\ Len(c) >= 1 /\ Len(c) - 1 \in 1 .. MaxGroups /\ c[Len(c)] < 128
       /\ \A i \in 2 .. Len(c) - 1 : c[i] >= 128
  <2>1. \A i \in 2 .. n : c[i] >= 128
    <3> SUFFICES ASSUME NEW i \in 2 .. n PROVE c[i] >= 128
      OBVIOUS
    <3>1. CASE i = n
      BY <1>8, <3>1
    <3>2. CASE i # n
      <4>1. i \in 2 .. Len(o) - 1 /\ i \in 1 .. n - 1
        BY <1>0, <3>2
      <4> QED
        BY <1>2, <1>8, <4>1
    <3> QED
      BY <3>1, <3>2
  <2>2. Len(c) - 1 = n
    BY <1>0, <1>7
  <2> QED
    BY <1>0, <1>7, <2>1, <2>2
<1>11. IsCode(c, p, v)
  <2>1. c[1] % 2 ^ p = Limit(p)
    BY <1>2, <1>8, <1>z, Zenon
  <2>2. Groups(Tail(c)) = v - Limit(p)
    BY <1>2, <1>9, Zenon
  <2> QED
    BY <1>1, <1>7, <1>10, <2>1, <2>2, Zenon DEF IsCode
<1> QED
  BY <1>8, <1>11, Zenon DEF c

\* An instruction of a block: its kind, its integer and as many strings as it takes
IsInstruction(i, k, v) ==
    /\ k \in Kinds /\ v \in Nat /\ Means(i, k, v)
    /\ i = [octets |-> i.octets, strings |-> i.strings]
    /\ i.strings \in Seq(DOMAIN Length)
    /\ Len(i.strings) = IF k \in {"indexed", "update"} THEN 0 ELSE IF v = 0 THEN 2 ELSE 1

\* Instruction makes one of each kind.
LEMMA Instructions ==
    ASSUME NEW k \in Kinds, NEW v \in Nat, v < Weight(MaxGroups - 1), NEW strings,
           \/ k \in {"indexed", "update"} /\ strings = <<>>
           \/ k \notin {"indexed", "update"} /\ \E h \in HeaderFields : strings = LiteralStrings(v, h)
    PROVE  LET i == Instruction(Flag[k], Prefix[k], v, strings)
           IN  IsInstruction(i, k, v) /\ i.strings = strings /\ Len(i.octets) =< MaxGroups
<1> DEFINE i == Instruction(Flag[k], Prefix[k], v, strings)
<1>1. /\ Means(i, k, v) /\ i.strings = strings
      /\ i = [octets |-> i.octets, strings |-> strings]
      /\ Len(i.octets) =< MaxGroups
  BY InstructionMeans
<1> HIDE DEF i
<1>2. /\ strings \in Seq(DOMAIN Length)
      /\ Len(strings) = IF k \in {"indexed", "update"} THEN 0 ELSE IF v = 0 THEN 2 ELSE 1
  <2>1. CASE k \in {"indexed", "update"} /\ strings = <<>>
    BY <2>1
  <2>2. CASE k \notin {"indexed", "update"} /\ \E h \in HeaderFields : strings = LiteralStrings(v, h)
    <3>1. PICK h \in HeaderFields : strings = LiteralStrings(v, h)
      BY <2>2
    <3>2. h.name \in DOMAIN Length /\ h.value \in DOMAIN Length
      BY FieldFacts
    <3>3. CASE v = 0
      <4>1. strings = <<h.name, h.value>>
        BY <3>1, <3>3 DEF LiteralStrings
      <4>s. PICK S : S = DOMAIN Length
        OBVIOUS
      <4>2. PICK x \in S, y \in S : strings = <<x, y>>
        BY <3>2, <4>1, <4>s, Zenon
      <4>3. <<x, y>> \in Seq(S) /\ Len(<<x, y>>) = 2
        OBVIOUS
      <4> QED
        BY <2>2, <3>3, <4>s, <4>2, <4>3, Zenon
    <3>4. CASE v # 0
      <4>1. strings = <<h.value>>
        BY <3>1, <3>4 DEF LiteralStrings
      <4> QED
        BY <2>2, <3>2, <3>4, <4>1
    <3> QED
      BY <3>3, <3>4
  <2> QED
    BY <2>1, <2>2
<1> QED
  BY <1>1, <1>2 DEF IsInstruction, i

\* So does Padded.
LEMMA PaddedInstruction ==
    ASSUME NEW k, NEW v, NEW i, IsInstruction(i, k, v), Len(i.octets) =< MaxGroups,
           Len(i.octets) > 1
    PROVE  IsInstruction(Padded(i), k, v)
<1>0. k \in Kinds /\ v \in Nat /\ Means(i, k, v)
  BY DEF IsInstruction
<1>1. PICK p, o, n : p = Prefix[k] /\ o = i.octets /\ n = Len(o)
  OBVIOUS
<1>2. IsCode(o, p, v) /\ p \in {4, 5, 6, 7}
  BY <1>0, <1>1, PrefixOf, Zenon DEF Means
<1>3. o \in Seq(Nat) /\ MaxGroups \in Nat
  BY <1>2, HpackAssumption, Zenon DEF IsCode
<1>4. n \in 2 .. MaxGroups
  BY <1>1, <1>3
<1> DEFINE c == [o EXCEPT ![n] = @ + 128] \o <<0>>
           j == Padded(i)
<1>5. IsCode(c, p, v) /\ c[1] = o[1]
  BY <1>0, <1>1, <1>2, <1>4, PaddedCode
<1>6. j = [i EXCEPT !.octets = c]
  BY <1>1, Zenon DEF Padded
<1> HIDE DEF c, j
<1>7. /\ j = [octets |-> j.octets, strings |-> j.strings]
      /\ j.octets = c /\ j.strings = i.strings
  <2>1. i = [octets |-> i.octets, strings |-> i.strings]
    BY DEF IsInstruction
  <2> QED
    BY <1>6, <2>1
<1>8. Kind(j) = Kind(i)
  BY <1>1, <1>5, <1>7, ZenonT(40) DEF Kind
<1>9. Means(j, k, v)
  BY <1>0, <1>1, <1>5, <1>7, <1>8, Zenon DEF Means
<1> QED
  BY <1>0, <1>7, <1>9, Zenon DEF IsInstruction, j

\* What the peer puts in a block
LEMMA PeerInstructionIs ==
    ASSUME NEW i \in PeerInstructions
    PROVE  \E k \in Kinds \ {"literal"}, v \in Nat : IsInstruction(i, k, v)
<1> DEFINE A == {Instruction(128, 7, n, <<>>) : n \in Indices}
           B == {Instruction(32, 5, n, <<>>) : n \in Sizes}
           Good(j) == \E k \in Kinds \ {"literal"}, v \in Nat :
                         IsInstruction(j, k, v) /\ Len(j.octets) =< MaxGroups
<1>1. /\ Sizes \subseteq Nat /\ Indices \subseteq Nat /\ PeerFields \subseteq HeaderFields
      /\ \A n \in Sizes \cup Indices : n < Weight(MaxGroups - 1)
  BY HpackAssumption, GroupsAssumption, Zenon
<1>2. ASSUME NEW j \in A PROVE Good(j)
  <2>1. PICK n \in Indices : j = Instruction(128, 7, n, <<>>)
    BY <1>2
  <2>2. n \in Nat /\ n < Weight(MaxGroups - 1) /\ "indexed" \in Kinds \ {"literal"}
    BY <1>1 DEF Kinds
  <2>3. j = Instruction(Flag["indexed"], Prefix["indexed"], n, <<>>)
    BY <2>1, PrefixOf
  <2>4. IsInstruction(j, "indexed", n) /\ Len(j.octets) =< MaxGroups
    BY <2>2, <2>3, Instructions
  <2> QED
    BY <2>2, <2>4
<1>3. ASSUME NEW j \in B PROVE Good(j)
  <2>1. PICK n \in Sizes : j = Instruction(32, 5, n, <<>>)
    BY <1>3
  <2>2. n \in Nat /\ n < Weight(MaxGroups - 1) /\ "update" \in Kinds \ {"literal"}
    BY <1>1 DEF Kinds
  <2>3. j = Instruction(Flag["update"], Prefix["update"], n, <<>>)
    BY <2>1, PrefixOf
  <2>4. IsInstruction(j, "update", n) /\ Len(j.octets) =< MaxGroups
    BY <2>2, <2>3, Instructions
  <2> QED
    BY <2>2, <2>4
<1>4. ASSUME NEW h \in PeerFields, NEW k \in {"incremental", "never"}, NEW j \in Literals(k, h)
      PROVE  Good(j)
  <2>1. PICK n \in Indices : j = Instruction(Flag[k], Prefix[k], n, LiteralStrings(n, h))
    BY <1>4 DEF Literals
  <2>2. /\ n \in Nat /\ n < Weight(MaxGroups - 1) /\ k \in Kinds \ {"literal"} /\ k \in Kinds
        /\ k \notin {"indexed", "update"} /\ h \in HeaderFields
    BY <1>1 DEF Kinds
  <2>3. PICK strings : strings = LiteralStrings(n, h)
    OBVIOUS
  <2>4. \E g \in HeaderFields : strings = LiteralStrings(n, g)
    BY <2>2, <2>3, Zenon
  <2>5. IsInstruction(j, k, n) /\ Len(j.octets) =< MaxGroups
    BY <2>1, <2>2, <2>3, <2>4, Instructions
  <2> QED
    BY <2>2, <2>5
<1>5. i \in Plain \/ \E j \in Plain : i = Padded(j) /\ Len(j.octets) > 1
  BY DEF PeerInstructions
<1>p. ASSUME NEW j \in Plain, j \notin A, j \notin B
      PROVE  \E h \in PeerFields : \E k \in {"incremental", "never"} : j \in Literals(k, h)
  BY <1>p DEF Plain
<1> HIDE DEF A, B
<1>6. \A j \in Plain : Good(j)
  BY <1>2, <1>3, <1>4, <1>p, Zenon
<1>7. CASE i \in Plain
  BY <1>6, <1>7
<1>8. CASE \E j \in Plain : i = Padded(j) /\ Len(j.octets) > 1
  <2>1. PICK j \in Plain : i = Padded(j) /\ Len(j.octets) > 1
    BY <1>8
  <2>2. PICK k \in Kinds \ {"literal"}, v \in Nat :
            IsInstruction(j, k, v) /\ Len(j.octets) =< MaxGroups
    BY <1>6, <2>1
  <2> QED
    BY <2>1, <2>2, PaddedInstruction
<1> QED
  BY <1>5, <1>7, <1>8-----------------------------------------------------------------------------
(***************************************************************************)
(* The peer's table, newest first, beside a table, oldest first            *)
(***************************************************************************)

\* The peer has the newest entries e, or all of them.
Shows(pt, e) ==
    /\ pt \in Seq(HeaderFields) /\ e \in Seq(HeaderFields) /\ Len(pt) =< Len(e)
    /\ \A j \in 1 .. Len(pt) : pt[j] = e[Len(e) - j + 1]
ShowsAll(pt, e) == Shows(pt, e) /\ Len(pt) = Len(e)

\* A set of numbers with a bound has a greatest.
LEMMA MaxIs ==
    ASSUME NEW N \in Nat, NEW S \in SUBSET (0 .. N), S # {}
    PROVE  Max(S) \in S /\ \A y \in S : y =< Max(S)
<1> DEFINE T == {n \in Nat : \E x \in S : n = N - x}
<1>1. T \in SUBSET Nat /\ T # {}
  <2>1. PICK x \in S : x \in 0 .. N
    OBVIOUS
  <2>2. N - x \in T
    BY <2>1
  <2> QED
    BY <2>2
<1>2. PICK m \in T : \A y \in T : m =< y
  BY <1>1, LeastNumber
<1>3. PICK x \in S : m = N - x
  BY <1>2
<1>4. ASSUME NEW y \in S PROVE y =< x
  <2>1. N - y \in T
    OBVIOUS
  <2>2. m =< N - y /\ x \in 0 .. N /\ y \in 0 .. N
    BY <1>2, <2>1
  <2> QED
    BY <1>3, <2>2
<1> HIDE DEF T
<1>5. \E z \in S : \A y \in S : z >= y
  BY <1>4
<1> DEFINE z == CHOOSE w \in S : \A y \in S : w >= y
<1>6. Max(S) = z
  BY DEF Max
<1>7. z \in S /\ \A y \in S : z >= y
  BY <1>5
<1> QED
  BY <1>6, <1>7

\* Trim keeps as many of the newest as fit.
LEMMA TrimIs ==
    ASSUME NEW pt \in Seq(HeaderFields), NEW max \in Nat
    PROVE  LET r == Trim(pt, max)
           IN  /\ r \in Seq(HeaderFields) /\ Len(r) \in 0 .. Len(pt)
               /\ \A j \in 1 .. Len(r) : r[j] = pt[j]
               /\ \A n \in 0 .. Len(pt) : n =< Len(r) <=> BytesUpTo(pt, n) =< max
<1> DEFINE B(n) == BytesUpTo(pt, n)
           N == {n \in 0 .. Len(pt) : B(n) <= max}
           m == Max(N)
           r == Trim(pt, max)
<1>0. Len(pt) \in Nat
  OBVIOUS
<1>1. \A n \in 0 .. Len(pt) : B(n) \in Nat /\ \A k \in 0 .. n : B(k) =< B(n)
  BY BytesTyped
<1>2. B(0) = 0
  BY BytesStep
<1>3. r = SubSeq(pt, 1, m)
  BY DEF Trim
<1> HIDE DEF B, r
<1>4. N \in SUBSET (0 .. Len(pt)) /\ 0 \in N
  BY <1>0, <1>2
<1>5. m \in N /\ \A y \in N : y =< m
  BY <1>0, <1>4, MaxIs
<1> HIDE DEF m
<1>6. m \in 0 .. Len(pt) /\ B(m) =< max
  BY <1>5
<1>7. r \in Seq(HeaderFields) /\ Len(r) = m /\ \A j \in 1 .. m : r[j] = pt[j]
  BY <1>0, <1>3, <1>6
<1>8. ASSUME NEW n \in 0 .. Len(pt) PROVE n =< m <=> B(n) =< max
  <2>1. CASE n =< m
    <3>1. n \in 0 .. m
      BY <2>1
    <3>2. B(n) \in Nat /\ B(m) \in Nat /\ B(n) =< B(m)
      BY <1>1, <1>6, <3>1
    <3> QED
      BY <1>6, <2>1, <3>2
  <2>2. CASE ~ (n =< m)
    <3>1. n \notin N
      BY <1>5, <2>2
    <3> QED
      BY <2>2, <3>1
  <2> QED
    BY <2>1, <2>2
<1> QED
  BY <1>6, <1>7, <1>8 DEF r, B

\* The bytes of the newest entries, counted from either end
LEMMA ShownBytes ==
    ASSUME NEW pt, NEW e, Shows(pt, e)
    PROVE  \A j \in 0 .. Len(pt) :
               /\ Len(e) - j \in 0 .. Len(e) /\ BytesUpTo(e, Len(e) - j) \in Nat
               /\ Bytes(e) \in Nat
               /\ BytesUpTo(pt, j) = Bytes(e) - BytesUpTo(e, Len(e) - j)
<1>0. /\ pt \in Seq(HeaderFields) /\ e \in Seq(HeaderFields)
      /\ Len(pt) \in Nat /\ Len(e) \in Nat /\ Len(pt) =< Len(e)
      /\ \A j \in 1 .. Len(pt) : pt[j] = e[Len(e) - j + 1]
  BY DEF Shows
<1>1. PICK M, N, total : M = Len(pt) /\ N = Len(e) /\ total = Bytes(e)
  OBVIOUS
<1> DEFINE B(n) == BytesUpTo(e, n)
           C(n) == BytesUpTo(pt, n)
           S == {j \in 0 .. M : C(j) = total - B(N - j)}
<1>2. total = B(N) /\ \A n \in 0 .. N : B(n) \in Nat
  BY <1>0, <1>1, BytesTyped DEF Bytes
<1>3. C(0) = 0 /\ \A n \in Nat : /\ C(n + 1) = C(n) + Size(pt[n + 1])
                                 /\ B(n + 1) = B(n) + Size(e[n + 1])
  BY BytesStep
<1> HIDE DEF B, C
<1>4. 0 \in S
  <2>1. M \in Nat /\ N \in Nat /\ N - 0 = N /\ N \in 0 .. N
    BY <1>0, <1>1
  <2>2. B(N) \in Nat /\ total = B(N) /\ C(0) = 0
    BY <1>2, <1>3, <2>1
  <2> QED
    BY <2>1, <2>2
<1>5. ASSUME NEW m \in 0 .. M, m # M, m \in S PROVE m + 1 \in S
  <2>1. /\ m \in Nat /\ m + 1 \in 1 .. M /\ N - (m + 1) \in 0 .. N /\ N - m \in 0 .. N
        /\ N - (m + 1) \in Nat /\ (N - (m + 1)) + 1 = N - m /\ N - (m + 1) + 1 = N - m
        /\ N - m \in 1 .. N
    BY <1>0, <1>1, <1>5, SMTT(30)
  <2>2. pt[m + 1] = e[N - m] /\ e[N - m] \in HeaderFields
    BY <1>0, <1>1, <2>1
  <2>3. Size(e[N - m]) \in Nat
    BY <2>2, FieldFacts
  <2>4. C(m + 1) = C(m) + Size(e[N - m])
    BY <1>3, <2>1, <2>2
  <2>5. B(N - m) = B(N - (m + 1)) + Size(e[N - m])
    BY <1>3, <2>1
  <2>6. C(m) = total - B(N - m) /\ total \in Nat /\ B(N - m) \in Nat /\ B(N - (m + 1)) \in Nat
    BY <1>0, <1>1, <1>2, <1>5, <2>1
  <2>7. C(m + 1) = total - B(N - (m + 1))
    BY <2>3, <2>4, <2>5, <2>6
  <2> QED
    BY <2>1, <2>7
<1> HIDE DEF S
<1>6. \A j \in 0 .. M : j \in S
  BY <1>0, <1>1, <1>4, <1>5, LoopInduction
<1>7. ASSUME NEW j \in 0 .. M
      PROVE  /\ N - j \in 0 .. N /\ B(N - j) \in Nat /\ total \in Nat
             /\ C(j) = total - B(N - j)
  BY <1>0, <1>1, <1>2, <1>6 DEF S
<1> QED
  BY <1>1, <1>7 DEF B, C

\* Trimmed and evicted to the same size, both tables still show the same; a
\* smaller peer's shows less.
LEMMA TrimShows ==
    ASSUME NEW pt, NEW e, Shows(pt, e), NEW a \in Nat, NEW b \in Nat, a =< b
    PROVE  /\ Shows(Trim(pt, a), Fitting(e, b))
           /\ ShowsAll(pt, e) /\ a = b => ShowsAll(Trim(pt, a), Fitting(e, b))
<1>0. /\ pt \in Seq(HeaderFields) /\ e \in Seq(HeaderFields)
      /\ Len(pt) \in Nat /\ Len(e) \in Nat /\ Len(pt) =< Len(e)
      /\ \A j \in 1 .. Len(pt) : pt[j] = e[Len(e) - j + 1]
  BY DEF Shows
<1>1. PICK r, f, n, M, N, total : /\ r = Trim(pt, a) /\ f = Fitting(e, b)
                                  /\ n = FitsFrom(e, b) /\ M = Len(pt) /\ N = Len(e)
                                  /\ total = Bytes(e)
  OBVIOUS
<1> DEFINE B(m) == BytesUpTo(e, m)
           C(m) == BytesUpTo(pt, m)
<1>2. /\ r \in Seq(HeaderFields) /\ Len(r) \in 0 .. M
      /\ \A j \in 1 .. Len(r) : r[j] = pt[j]
      /\ \A m \in 0 .. M : m =< Len(r) <=> C(m) =< a
  BY <1>0, <1>1, TrimIs
<1>3. /\ n \in 0 .. N
      /\ \A m \in 0 .. N : n =< m <=> total - B(m) =< b
      /\ f \in Seq(HeaderFields) /\ Len(f) = N - n
      /\ \A i \in 1 .. Len(f) : f[i] = e[n + i]
  BY <1>0, <1>1, FittingIs
<1>4. \A j \in 0 .. M : N - j \in 0 .. N /\ C(j) = total - B(N - j)
  BY <1>1, ShownBytes
<1>5. \A m \in 0 .. M : C(m) \in Nat
  BY <1>0, <1>1, BytesTyped
<1> HIDE DEF B, C
<1>6. Len(r) =< Len(f)
  <2>1. PICK k \in 0 .. M : k = Len(r)
    BY <1>2
  <2>2. C(k) =< a /\ C(k) \in Nat
    BY <1>2, <1>5, <2>1
  <2>3. total - B(N - k) =< b /\ N - k \in 0 .. N
    BY <1>4, <2>2
  <2>4. n =< N - k
    BY <1>3, <2>3
  <2> QED
    BY <1>0, <1>1, <1>3, <2>1, <2>4
<1>7. ASSUME NEW j \in 1 .. Len(r) PROVE r[j] = f[Len(f) - j + 1]
  <2>1. /\ j \in 1 .. M /\ Len(f) - j + 1 \in 1 .. Len(f)
        /\ n + (Len(f) - j + 1) = N - j + 1
    <3>1. PICK x, y : x = Len(r) /\ y = Len(f)
      OBVIOUS
    <3>2. /\ M \in Nat /\ N \in Nat /\ x \in 0 .. M /\ n \in 0 .. N /\ y = N - n /\ x =< y
          /\ j \in 1 .. x
      BY <1>0, <1>1, <1>2, <1>3, <1>6, <3>1
    <3>3. /\ j \in 1 .. M /\ y - j + 1 \in 1 .. y /\ n + (y - j + 1) = N - j + 1
      BY <3>2
    <3> QED
      BY <3>1, <3>3
  <2>2. f[Len(f) - j + 1] = e[n + (Len(f) - j + 1)]
    BY <1>3, <2>1
  <2>3. r[j] = pt[j] /\ pt[j] = e[N - j + 1]
    BY <1>0, <1>1, <1>2, <2>1
  <2> QED
    BY <2>1, <2>2, <2>3
<1>8. Shows(r, f)
  BY <1>2, <1>3, <1>6, <1>7 DEF Shows
<1>9. ASSUME ShowsAll(pt, e), a = b PROVE Len(r) = Len(f)
  <2>1. M = N
    BY <1>1, <1>9 DEF ShowsAll
  <2>2. PICK k \in 0 .. M : k = N - n /\ N - k = n
    BY <1>0, <1>1, <1>3, <2>1
  <2>3. n =< n
    BY <1>3
  <2>4. total - B(n) =< b
    BY <1>3, <2>3
  <2>5. C(k) =< a
    BY <1>4, <1>9, <2>2, <2>4
  <2>6. k =< Len(r)
    BY <1>2, <2>5
  <2> QED
    BY <1>0, <1>1, <1>2, <1>3, <1>6, <2>2, <2>6
<1> QED
  BY <1>1, <1>8, <1>9 DEF ShowsAll

\* A new entry in front of one, at the end of the other
LEMMA PushShows ==
    ASSUME NEW pt, NEW e, Shows(pt, e), NEW h \in HeaderFields
    PROVE  /\ Shows(<<h>> \o pt, Append(e, h))
           /\ ShowsAll(pt, e) => ShowsAll(<<h>> \o pt, Append(e, h))
<1>0. /\ pt \in Seq(HeaderFields) /\ e \in Seq(HeaderFields)
      /\ Len(pt) \in Nat /\ Len(e) \in Nat /\ Len(pt) =< Len(e)
      /\ \A j \in 1 .. Len(pt) : pt[j] = e[Len(e) - j + 1]
  BY DEF Shows
<1> DEFINE qt == <<h>> \o pt
           f == Append(e, h)
<1>1. /\ qt \in Seq(HeaderFields) /\ Len(qt) = Len(pt) + 1 /\ qt[1] = h
      /\ \A j \in 2 .. Len(pt) + 1 : qt[j] = pt[j - 1]
  BY <1>0
<1>2. /\ f \in Seq(HeaderFields) /\ Len(f) = Len(e) + 1 /\ f[Len(e) + 1] = h
      /\ \A j \in 1 .. Len(e) : f[j] = e[j]
  BY <1>0
<1> HIDE DEF qt, f
<1>3. ASSUME NEW j \in 1 .. Len(qt) PROVE qt[j] = f[Len(f) - j + 1]
  <2>1. CASE j = 1
    <3>1. Len(f) - j + 1 = Len(e) + 1
      BY <1>0, <1>2, <2>1
    <3> QED
      BY <1>1, <1>2, <2>1, <3>1
  <2>2. CASE j # 1
    <3>1. /\ j \in 2 .. Len(pt) + 1 /\ j - 1 \in 1 .. Len(pt)
          /\ Len(f) - j + 1 = Len(e) - (j - 1) + 1 /\ Len(f) - j + 1 \in 1 .. Len(e)
      BY <1>0, <1>1, <1>2, <2>2
    <3>2. qt[j] = pt[j - 1] /\ pt[j - 1] = e[Len(e) - (j - 1) + 1]
      BY <1>0, <1>1, <3>1
    <3> QED
      BY <1>2, <3>1, <3>2
  <2> QED
    BY <2>1, <2>2
<1>4. Len(qt) =< Len(f) /\ (Len(pt) = Len(e) => Len(qt) = Len(f))
  BY <1>0, <1>1, <1>2
<1> QED
  BY <1>1, <1>2, <1>3, <1>4 DEF Shows, ShowsAll, qt, f

\* Trimming twice is trimming to the smaller size.
LEMMA TrimTwice ==
    ASSUME NEW pt \in Seq(HeaderFields), NEW a \in Nat, NEW b \in Nat, NEW c \in {a, b},
           c =< a, c =< b
    PROVE  Trim(Trim(pt, a), b) = Trim(pt, c)
<1>1. PICK r : r = Trim(pt, a)
  OBVIOUS
<1>2. PICK q, w : q = Trim(r, b) /\ w = Trim(pt, c)
  OBVIOUS
<1> DEFINE B(m) == BytesUpTo(pt, m)
<1>3. /\ r \in Seq(HeaderFields) /\ Len(r) \in 0 .. Len(pt)
      /\ \A j \in 1 .. Len(r) : r[j] = pt[j]
      /\ \A n \in 0 .. Len(pt) : n =< Len(r) <=> B(n) =< a
  BY <1>1, TrimIs
<1>4. /\ q \in Seq(HeaderFields) /\ Len(q) \in 0 .. Len(r)
      /\ \A j \in 1 .. Len(q) : q[j] = r[j]
      /\ \A n \in 0 .. Len(r) : n =< Len(q) <=> BytesUpTo(r, n) =< b
  BY <1>2, <1>3, TrimIs
<1>c. c \in Nat
  OBVIOUS
<1>5. /\ w \in Seq(HeaderFields) /\ Len(w) \in 0 .. Len(pt)
      /\ \A j \in 1 .. Len(w) : w[j] = pt[j]
      /\ \A n \in 0 .. Len(pt) : n =< Len(w) <=> B(n) =< c
  BY <1>2, <1>c, TrimIs
<1>6. ASSUME NEW n \in 0 .. Len(r) PROVE BytesUpTo(r, n) = B(n) /\ B(n) \in Nat
  <2>1. /\ Len(pt) \in Nat /\ 0 \in 0 .. Len(pt) /\ n \in 0 .. (Len(pt) - 0) /\ n =< Len(r)
        /\ 0 + n = n /\ n \in 0 .. Len(pt)
        /\ \A i \in 1 .. n : r[i] = pt[0 + i]
    BY <1>3
  <2>2. BytesUpTo(r, n) = BytesUpTo(pt, 0 + n) - BytesUpTo(pt, 0)
    BY <1>3, <2>1, BytesOfPart
  <2>3. BytesUpTo(pt, 0) = 0 /\ BytesUpTo(pt, n) \in Nat
    BY <2>1, BytesStep, BytesTyped
  <2> QED
    BY <2>1, <2>2, <2>3
<1> HIDE DEF B
<1>7. Len(q) =< Len(w)
  <2>1. PICK k \in 0 .. Len(r) : k = Len(q) /\ k \in 0 .. Len(pt)
    BY <1>3, <1>4
  <2>2. BytesUpTo(r, k) =< b
    BY <1>4, <2>1
  <2>3. B(k) =< b /\ B(k) =< a
    BY <1>3, <1>6, <2>1, <2>2
  <2>4. B(k) =< c
    BY <2>3
  <2> QED
    BY <1>5, <2>1, <2>4
<1>8. Len(w) =< Len(q)
  <2>1. PICK k \in 0 .. Len(pt) : k = Len(w)
    BY <1>5
  <2>2. B(k) =< c /\ B(k) \in Nat
    <3>1. k =< Len(w)
      BY <2>1
    <3> QED
      BY <1>5, <2>1, <3>1, BytesTyped DEF B
  <2>3. k =< Len(r)
    BY <1>3, <2>2
  <2>4. k \in 0 .. Len(r)
    BY <1>3, <2>3
  <2>5. BytesUpTo(r, k) =< b
    BY <1>6, <2>2, <2>4
  <2> QED
    BY <1>4, <2>1, <2>4, <2>5
<1>9. Len(q) = Len(w)
  BY <1>4, <1>5, <1>7, <1>8
<1>10. ASSUME NEW j \in 1 .. Len(q) PROVE q[j] = w[j]
  <2>1. j \in 1 .. Len(r) /\ j \in 1 .. Len(w)
    BY <1>3, <1>4, <1>9
  <2> QED
    BY <1>3, <1>4, <1>5, <2>1
<1>11. q = w
  BY <1>4, <1>5, <1>9, <1>10, SameSequence
<1> QED
  BY <1>1, <1>2, <1>11

\* What fits is not trimmed.
LEMMA TrimNothing ==
    ASSUME NEW pt \in Seq(HeaderFields), NEW a \in Nat, Bytes(pt) =< a
    PROVE  Trim(pt, a) = pt
<1>1. PICK r : r = Trim(pt, a)
  OBVIOUS
<1>2. /\ r \in Seq(HeaderFields) /\ Len(r) \in 0 .. Len(pt)
      /\ \A j \in 1 .. Len(r) : r[j] = pt[j]
      /\ \A n \in 0 .. Len(pt) : n =< Len(r) <=> BytesUpTo(pt, n) =< a
  BY <1>1, TrimIs
<1>3. Len(pt) \in 0 .. Len(pt) /\ BytesUpTo(pt, Len(pt)) =< a
  BY DEF Bytes
<1>4. Len(pt) =< Len(r)
  BY <1>2, <1>3
<1>5. Len(r) = Len(pt)
  BY <1>2, <1>4
<1>6. r = pt
  BY <1>2, <1>5, SameSequence
<1> QED
  BY <1>1, <1>6

\* What is left of a trimmed table fits.
LEMMA TrimmedFits ==
    ASSUME NEW pt \in Seq(HeaderFields), NEW a \in Nat
    PROVE  Bytes(Trim(pt, a)) =< a
<1>1. PICK r, n : r = Trim(pt, a) /\ n = Len(r)
  OBVIOUS
<1>2. /\ r \in Seq(HeaderFields) /\ n \in 0 .. Len(pt)
      /\ \A j \in 1 .. n : r[j] = pt[j]
      /\ BytesUpTo(pt, n) =< a
  <2>1. /\ r \in Seq(HeaderFields) /\ Len(r) \in 0 .. Len(pt)
        /\ \A j \in 1 .. Len(r) : r[j] = pt[j]
        /\ \A m \in 0 .. Len(pt) : m =< Len(r) <=> BytesUpTo(pt, m) =< a
    BY <1>1, TrimIs
  <2>2. n =< n /\ n \in 0 .. Len(pt)
    BY <1>1, <2>1
  <2> QED
    BY <1>1, <2>1, <2>2
<1>3. /\ Len(pt) \in Nat /\ 0 \in 0 .. Len(pt) /\ n \in 0 .. (Len(pt) - 0) /\ n =< Len(r)
      /\ 0 + n = n /\ \A i \in 1 .. n : r[i] = pt[0 + i]
  BY <1>1, <1>2
<1>4. BytesUpTo(r, n) = BytesUpTo(pt, 0 + n) - BytesUpTo(pt, 0)
  BY <1>2, <1>3, BytesOfPart
<1>5. BytesUpTo(pt, 0) = 0 /\ BytesUpTo(pt, n) \in Nat
  BY <1>2, BytesStep, BytesTyped
<1>6. BytesUpTo(r, n) =< a
  BY <1>2, <1>3, <1>4, <1>5
<1> QED
  BY <1>1, <1>6 DEF Bytes

\* The field behind an index in the static table and the table's entries
Entry(e, v) == IF v =< Len(Static) THEN Static[v] ELSE e[Len(e) - (v - Len(Static)) + 1]

\* at finds it, ...
LEMMA AtIs ==
    ASSUME NEW t, t.entries \in Seq(HeaderFields), NEW v \in Nat
    PROVE  /\ v \in 1 .. Len(Static) + Len(t.entries) =>
                 at(t, v) = {Entry(t.entries, v)} /\ Entry(t.entries, v) \in HeaderFields
           /\ v \notin 1 .. Len(Static) + Len(t.entries) => at(t, v) = {}
<1>1. PICK e, n : e = t.entries /\ n = Len(Static)
  OBVIOUS
<1>2. e \in Seq(HeaderFields) /\ Len(e) \in Nat /\ n \in Nat /\ Static \in Seq(HeaderFields)
  BY <1>1, TableAssumption
<1>3. at(t, v) = IF v = 0 \/ v - n > Len(e) THEN {} ELSE {Entry(e, v)}
  BY <1>1 DEF at, Entry
<1>4. v \in 1 .. n + Len(e) <=> ~ (v = 0 \/ v - n > Len(e))
  BY <1>2
<1>5. ASSUME v \in 1 .. n + Len(e) PROVE Entry(e, v) \in HeaderFields
  <2>1. CASE v =< n
    <3>1. v \in 1 .. n
      BY <1>2, <1>5, <2>1
    <3> QED
      BY <1>1, <1>2, <2>1, <3>1 DEF Entry
  <2>2. CASE ~ (v =< n)
    <3>1. PICK k : k = Len(e) - (v - n) + 1
      OBVIOUS
    <3>2. k \in 1 .. Len(e)
      BY <1>2, <1>5, <2>2, <3>1
    <3>3. Entry(e, v) = e[k]
      BY <1>1, <2>2, <3>1 DEF Entry
    <3> QED
      BY <1>2, <3>2, <3>3
  <2> QED
    BY <2>1, <2>2
<1> QED
  BY <1>1, <1>3, <1>4, <1>5, Zenon

\* ... and Address among what the peer has.
LEMMA AddressIs ==
    ASSUME NEW p, NEW e, Shows(p.table, e), NEW v \in Nat
    PROVE  /\ v \in 1 .. Len(Static) + Len(p.table) =>
                 Address(p, v) = {Entry(e, v)} /\ v \in 1 .. Len(Static) + Len(e)
           /\ v \notin 1 .. Len(Static) + Len(p.table) => Address(p, v) = {}
<1>1. PICK pt, n : pt = p.table /\ n = Len(Static)
  OBVIOUS
<1>0. /\ pt \in Seq(HeaderFields) /\ e \in Seq(HeaderFields)
      /\ Len(pt) \in Nat /\ Len(e) \in Nat /\ Len(pt) =< Len(e)
      /\ \A j \in 1 .. Len(pt) : pt[j] = e[Len(e) - j + 1]
  BY <1>1 DEF Shows
<1>2. n \in Nat /\ Static \in Seq(HeaderFields)
  BY <1>1, TableAssumption
<1> DEFINE all == Static \o pt
<1>3. /\ Len(all) = n + Len(pt) /\ \A i \in 1 .. n : all[i] = Static[i]
      /\ \A i \in n + 1 .. n + Len(pt) : all[i] = pt[i - n]
  BY <1>0, <1>1, <1>2
<1>4. Address(p, v) = IF v \in 1 .. Len(all) THEN {all[v]} ELSE {}
  BY <1>1 DEF Address
<1> HIDE DEF all
<1>5. ASSUME v \in 1 .. n + Len(pt)
      PROVE  all[v] = Entry(e, v) /\ v \in 1 .. n + Len(e)
  <2>1. v \in 1 .. n + Len(e)
    BY <1>0, <1>2, <1>5
  <2>2. CASE v =< n
    <3>1. v \in 1 .. n
      BY <1>2, <1>5, <2>2
    <3> QED
      BY <1>1, <1>3, <2>1, <2>2, <3>1 DEF Entry
  <2>3. CASE ~ (v =< n)
    <3>1. v \in n + 1 .. n + Len(pt) /\ v - n \in 1 .. Len(pt)
      BY <1>0, <1>2, <1>5, <2>3
    <3>2. all[v] = e[Len(e) - (v - n) + 1]
      BY <1>0, <1>3, <3>1
    <3> QED
      BY <1>1, <2>1, <2>3, <3>2 DEF Entry
  <2> QED
    BY <2>2, <2>3
<1> QED
  BY <1>1, <1>3, <1>4, <1>5, Zenon
-----------------------------------------------------------------------------
(***************************************************************************)
(* One instruction, as the decoder and as the peer read it                 *)
(***************************************************************************)

\* Is there a field behind the integer, and the field that is meant
Known(k, v, n) == (v = 0 /\ k # "indexed") \/ v \in 1 .. Len(Static) + n
Meant(i, k, v, e) ==
    IF k = "indexed" THEN Entry(e, v)
    ELSE [name |-> IF v = 0 THEN i.strings[1] ELSE Entry(e, v).name,
          value |-> i.strings[Len(i.strings)], sensitive |-> k = "never"]

\* It is a field, and one that is added to the table is not sensitive.
LEMMA MeantField ==
    ASSUME NEW i, NEW k, NEW v, IsInstruction(i, k, v), k # "update",
           NEW e \in Seq(HeaderFields), Known(k, v, Len(e))
    PROVE  /\ Meant(i, k, v, e) \in HeaderFields
           /\ k = "incremental" => Meant(i, k, v, e).sensitive = FALSE
<1>1. v \in Nat /\ k \in Kinds
  BY DEF IsInstruction
<1>2. PICK t : t.entries = e
  <2>1. [entries |-> e].entries = e
    OBVIOUS
  <2> QED
    BY <2>1
<1>3. v # 0 => Entry(e, v) \in HeaderFields
  BY <1>1, <1>2, AtIs DEF Known
<1>4. CASE k = "indexed"
  <2>1. v # 0
    BY <1>4, TableAssumption DEF Known
  <2> QED
    BY <1>3, <1>4, <2>1 DEF Meant
<1>5. CASE k # "indexed"
  <2>1. PICK a, b, c : /\ a = (IF v = 0 THEN i.strings[1] ELSE Entry(e, v).name)
                       /\ b = i.strings[Len(i.strings)] /\ c = (k = "never")
    OBVIOUS
  <2>2. i.strings \in Seq(DOMAIN Length) /\ Len(i.strings) = IF v = 0 THEN 2 ELSE 1
    BY <1>5 DEF IsInstruction
  <2>3. b \in DOMAIN Length
    BY <2>1, <2>2
  <2>4. a \in DOMAIN Length
    <3>1. CASE v = 0
      BY <2>1, <2>2, <3>1
    <3>2. CASE v # 0
      BY <1>3, <2>1, <3>2, FieldFacts
    <3> QED
      BY <3>1, <3>2
  <2>5. c \in BOOLEAN /\ (k = "incremental" => c = FALSE)
    BY <2>1
  <2>6. Meant(i, k, v, e) = [name |-> a, value |-> b, sensitive |-> c]
    BY <1>5, <2>1 DEF Meant
  <2> QED
    BY <2>3, <2>4, <2>5, <2>6 DEF HeaderFields
<1> QED
  BY <1>4, <1>5

\* The literal an instruction stands for in the decoder
LEMMA DecodeLiteral ==
    ASSUME NEW s, NEW i, NEW k, NEW v, IsInstruction(i, k, v), k \notin {"indexed", "update"},
           s.table.entries \in Seq(HeaderFields)
    PROVE  LET u == decodeHeaderField(s, i, Prefix[k], k = "incremental", k = "never")
               e == s.table.entries
               h == Meant(i, k, v, e)
           IN  /\ ~Known(k, v, Len(e)) => u = Failed(s)
               /\ Known(k, v, Len(e)) =>
                     u = IF k = "incremental" THEN [Yield(s, h) EXCEPT !.table = insert(@, h)]
                         ELSE Yield(s, h)
<1> DEFINE u == decodeHeaderField(s, i, Prefix[k], k = "incremental", k = "never")
<1>1. PICK e, strings, found : /\ e = s.table.entries /\ strings = i.strings
                               /\ found = at(s.table, v)
  OBVIOUS
<1>2. /\ v \in Nat /\ k \in Kinds /\ Means(i, k, v) /\ strings \in Seq(DOMAIN Length)
      /\ Len(strings) = IF v = 0 THEN 2 ELSE 1
  BY <1>1 DEF IsInstruction
<1>3. decodeVInt(i.octets, Prefix[k]) = {v}
  BY <1>2, MeansRead
<1>4. (CHOOSE n \in {v} : TRUE) = v
  OBVIOUS
<1> DEFINE named == IF v = 0 THEN {Head(strings)} ELSE {f.name : f \in found}
           g == [name |-> CHOOSE n \in named : TRUE, value |-> strings[Len(strings)],
                 sensitive |-> k = "never"]
<1>5. u = IF named = {} THEN Failed(s)
          ELSE IF k = "incremental" THEN [Yield(s, g) EXCEPT !.table = insert(@, g)] ELSE Yield(s, g)
  <2> DEFINE N(x) == IF x = 0 THEN {Head(i.strings)} ELSE {f.name : f \in at(s.table, x)}
             H(x) == [name |-> CHOOSE n \in N(x) : TRUE, value |-> i.strings[Len(i.strings)],
                      sensitive |-> k = "never"]
             U(read, x) ==
                 IF read = {} \/ Len(i.strings) # (IF x = 0 THEN 2 ELSE 1) \/ N(x) = {}
                 THEN Failed(s)
                 ELSE IF k = "incremental" THEN [Yield(s, H(x)) EXCEPT !.table = insert(@, H(x))]
                 ELSE Yield(s, H(x))
             read == decodeVInt(i.octets, Prefix[k])
  <2>1. u = U(read, CHOOSE n \in read : TRUE)
    BY Zenon DEF decodeHeaderField
  <2>2. N(v) = named
    BY <1>1, Zenon
  <2>3. H(v) = g
    <3> HIDE DEF named, N
    <3> QED
      BY <1>1, <2>2, Zenon
  <2>4. Len(i.strings) = IF v = 0 THEN 2 ELSE 1
    BY <1>1, <1>2
  <2>5. U({v}, v) = IF named = {} THEN Failed(s)
                    ELSE IF k = "incremental" THEN [Yield(s, g) EXCEPT !.table = insert(@, g)]
                    ELSE Yield(s, g)
    <3> HIDE DEF named, N, g, H
    <3>1. {v} # {}
      OBVIOUS
    <3> QED
      BY <2>2, <2>3, <2>4, <3>1
  <2> HIDE DEF u, named, g, U, N, H, read
  <2>6. read = {v}
    BY <1>3 DEF read
  <2> QED
    BY <1>4, <2>1, <2>5, <2>6
<1>6. Known(k, v, Len(e)) <=> v = 0 \/ v \in 1 .. Len(Static) + Len(e)
  BY DEF Known
<1>7. /\ v \in 1 .. Len(Static) + Len(e) => found = {Entry(e, v)}
      /\ v \notin 1 .. Len(Static) + Len(e) => found = {}
  BY <1>1, <1>2, AtIs
<1>8. ~Known(k, v, Len(e)) => named = {}
  BY <1>6, <1>7
<1>9. ASSUME Known(k, v, Len(e)) PROVE named # {} /\ g = Meant(i, k, v, e)
  <2>1. PICK a : a = IF v = 0 THEN strings[1] ELSE Entry(e, v).name
    OBVIOUS
  <2>2. Head(strings) = strings[1]
    BY <1>2
  <2>3. named = {a}
    BY <1>6, <1>7, <1>9, <2>1, <2>2
  <2>4. (CHOOSE n \in {a} : TRUE) = a
    OBVIOUS
  <2> HIDE DEF named
  <2> QED
    BY <1>1, <2>1, <2>3, <2>4, Zenon DEF Meant
<1> HIDE DEF u, named, g
<1> QED
  BY <1>1, <1>5, <1>8, <1>9, Zenon DEF u

\* An octet tells the kind of its instruction.
LEMMA KindIs ==
    ASSUME NEW i, NEW k \in Kinds, Kind(i) = k
    PROVE  LET flag == i.octets[1]
           IN  /\ k = "indexed" <=> flag >= 128
               /\ k = "incremental" <=> ~ (flag >= 128) /\ flag >= 64
               /\ k = "update" <=> ~ (flag >= 128) /\ ~ (flag >= 64) /\ flag >= 32
               /\ k = "never" <=> /\ ~ (flag >= 128) /\ ~ (flag >= 64) /\ ~ (flag >= 32)
                                  /\ flag >= 16
<1> DEFINE flag == i.octets[1]
           a == flag >= 128
           b == flag >= 64
           c == flag >= 32
           d == flag >= 16
<1>1. k = IF a THEN "indexed" ELSE IF b THEN "incremental" ELSE IF c THEN "update"
          ELSE IF d THEN "never" ELSE "literal"
  BY Zenon DEF Kind
<1> HIDE DEF a, b, c, d
<1>2. /\ k = "indexed" <=> a
      /\ k = "incremental" <=> ~a /\ b
      /\ k = "update" <=> ~a /\ ~b /\ c
      /\ k = "never" <=> ~a /\ ~b /\ ~c /\ d
  BY <1>1
<1> QED
  BY <1>2, Zenon DEF a, b, c, d

\* The kind chooses what reads the instruction.
ReadAs(k, u, s, i) ==
    /\ k = "indexed" => u = decodeIndexedHeader(s, i)
    /\ k = "update" => u = decodeTableSizeUpdate(s, i)
    /\ k \notin {"indexed", "update"} =>
          u = decodeHeaderField(s, i, Prefix[k], k = "incremental", k = "never")

LEMMA DecodeKind ==
    ASSUME NEW s, s.ok = TRUE, NEW i, NEW k \in Kinds, Kind(i) = k
    PROVE  ReadAs(k, decodeHeader(s, i), s, i)
<1> DEFINE u == decodeHeader(s, i)
           flag == i.octets[1]
<1>1. /\ k = "indexed" <=> flag >= 128
      /\ k = "incremental" <=> ~ (flag >= 128) /\ flag >= 64
      /\ k = "update" <=> ~ (flag >= 128) /\ ~ (flag >= 64) /\ flag >= 32
      /\ k = "never" <=> /\ ~ (flag >= 128) /\ ~ (flag >= 64) /\ ~ (flag >= 32)
                         /\ flag >= 16
  BY KindIs
<1>2. u = IF flag >= 128 THEN decodeIndexedHeader(s, i)
          ELSE IF flag >= 64 THEN decodeHeaderField(s, i, 6, TRUE, FALSE)
          ELSE IF flag >= 32 THEN decodeTableSizeUpdate(s, i)
          ELSE IF flag >= 16 THEN decodeHeaderField(s, i, 4, FALSE, TRUE)
          ELSE decodeHeaderField(s, i, 4, FALSE, FALSE)
  BY Zenon DEF decodeHeader
<1> HIDE DEF u, flag
<1>3. CASE k = "indexed"
  BY <1>1, <1>2, <1>3 DEF u, ReadAs
<1>4. CASE k = "update"
  BY <1>1, <1>2, <1>4 DEF u, ReadAs
<1>5. ASSUME k \notin {"indexed", "update"}
      PROVE  u = decodeHeaderField(s, i, Prefix[k], k = "incremental", k = "never")
  <2>1. CASE k = "incremental"
    <3>1. u = decodeHeaderField(s, i, 6, TRUE, FALSE)
      BY <1>1, <1>2, <2>1
    <3>2. Prefix[k] = 6 /\ (k = "incremental") = TRUE /\ (k = "never") = FALSE
      BY <2>1, PrefixOf
    <3> QED
      BY <3>1, <3>2, Zenon
  <2>2. CASE k = "never"
    <3>1. u = decodeHeaderField(s, i, 4, FALSE, TRUE)
      BY <1>1, <1>2, <2>2
    <3>2. Prefix[k] = 4 /\ (k = "incremental") = FALSE /\ (k = "never") = TRUE
      BY <2>2, PrefixOf
    <3> QED
      BY <3>1, <3>2, Zenon
  <2>3. CASE k = "literal"
    <3>1. u = decodeHeaderField(s, i, 4, FALSE, FALSE)
      BY <1>1, <1>2, <2>3
    <3>2. Prefix[k] = 4 /\ (k = "incremental") = FALSE /\ (k = "never") = FALSE
      BY <2>3, PrefixOf
    <3> QED
      BY <3>1, <3>2, Zenon
  <2> QED
    BY <1>5, <2>1, <2>2, <2>3 DEF Kinds
<1>6. CASE k \notin {"indexed", "update"}
  BY <1>5, <1>6, Zenon DEF u, ReadAs
<1> QED
  BY <1>3, <1>4, <1>6

\* What the decoder does with an instruction
LEMMA DecodeIs ==
    ASSUME NEW s, s.ok = TRUE, NEW i, NEW k, NEW v, IsInstruction(i, k, v),
           s.table.entries \in Seq(HeaderFields), decodeTableLimit \in Nat
    PROVE  LET u == decodeHeader(s, i)
               e == s.table.entries
               h == Meant(i, k, v, e)
           IN  /\ k = "update" =>
                     u = IF s.firstField /\ ~ (v > decodeTableLimit)
                         THEN [s EXCEPT !.table = setMaxSize(@, v)] ELSE Failed(s)
               /\ k # "update" /\ ~Known(k, v, Len(e)) => u = Failed(s)
               /\ k # "update" /\ Known(k, v, Len(e)) =>
                     u = IF k = "incremental" THEN [Yield(s, h) EXCEPT !.table = insert(@, h)]
                         ELSE Yield(s, h)
<1> DEFINE u == decodeHeader(s, i)
           e == s.table.entries
           h == Meant(i, k, v, e)
<1>1. v \in Nat /\ k \in Kinds /\ Means(i, k, v) /\ Kind(i) = k
  BY DEF IsInstruction, Means
<1>2. decodeVInt(i.octets, Prefix[k]) = {v}
  BY <1>1, MeansRead
<1>4. /\ k = "indexed" => u = decodeIndexedHeader(s, i)
      /\ k = "update" => u = decodeTableSizeUpdate(s, i)
      /\ k \notin {"indexed", "update"} =>
            u = decodeHeaderField(s, i, Prefix[k], k = "incremental", k = "never")
  <2>1. ReadAs(k, u, s, i)
    BY <1>1, DecodeKind
  <2> HIDE DEF u
  <2> QED
    BY <2>1, Zenon DEF ReadAs
<1> HIDE DEF u
<1>5. CASE k = "indexed"
  <2>1. u = decodeIndexedHeader(s, i) /\ Prefix[k] = 7
    BY <1>4, <1>5, PrefixOf
  <2>2. PICK found : found = at(s.table, v)
    OBVIOUS
  <2>3. UNION {at(s.table, n) : n \in {v}} = found
    BY <2>2
  <2> DEFINE U(T) == IF T = {} THEN Failed(s) ELSE Yield(s, CHOOSE f \in T : TRUE)
             S == UNION {at(s.table, n) : n \in decodeVInt(i.octets, 7)}
  <2>a. u = U(S)
    BY <2>1, Zenon DEF decodeIndexedHeader
  <2>b. S = found
    BY <1>2, <2>1, <2>3
  <2> HIDE DEF S, U
  <2>c. u = U(found)
    BY <2>a, <2>b
  <2>4. u = IF found = {} THEN Failed(s) ELSE Yield(s, CHOOSE f \in found : TRUE)
    BY <2>c, Zenon DEF U
  <2>5. /\ v \in 1 .. Len(Static) + Len(e) => found = {Entry(e, v)}
        /\ v \notin 1 .. Len(Static) + Len(e) => found = {}
    BY <1>1, <2>2, AtIs
  <2>6. (CHOOSE f \in {Entry(e, v)} : TRUE) = Entry(e, v)
    OBVIOUS
  <2>7. Known(k, v, Len(e)) <=> v \in 1 .. Len(Static) + Len(e)
    BY <1>5 DEF Known
  <2>8. h = Entry(e, v)
    BY <1>5 DEF Meant
  <2> HIDE DEF e, h
  <2>9. {Entry(e, v)} # {}
    OBVIOUS
  <2> QED
    BY <1>5, <2>4, <2>5, <2>6, <2>7, <2>8, <2>9 DEF u, e, h
<1>6. CASE k = "update"
  <2>1. u = decodeTableSizeUpdate(s, i) /\ Prefix[k] = 5
    BY <1>4, <1>6, PrefixOf
  <2>2. /\ (CHOOSE n \in {v} : TRUE) = v /\ {v} # {}
        /\ (\E n \in {v} : n > decodeTableLimit) <=> v > decodeTableLimit
    OBVIOUS
  <2> DEFINE U(read, n) == IF ~s.firstField \/ read = {} \/ \E m \in read : m > decodeTableLimit
                           THEN Failed(s) ELSE [s EXCEPT !.table = setMaxSize(@, n)]
             read == decodeVInt(i.octets, 5)
  <2>3. u = U(read, CHOOSE n \in read : TRUE)
    BY <2>1, Zenon DEF decodeTableSizeUpdate
  <2>4. read = {v}
    BY <1>2, <2>1
  <2>5. U({v}, v) = IF s.firstField /\ ~ (v > decodeTableLimit)
                    THEN [s EXCEPT !.table = setMaxSize(@, v)] ELSE Failed(s)
    BY <2>2, Zenon
  <2> HIDE DEF U, read
  <2>6. u = U({v}, v)
    BY <2>2, <2>3, <2>4
  <2> QED
    BY <1>6, <2>5, <2>6, Zenon DEF u
<1>7. CASE k \notin {"indexed", "update"}
  <2>1. u = decodeHeaderField(s, i, Prefix[k], k = "incremental", k = "never")
    BY <1>4, <1>7
  <2>3. /\ ~Known(k, v, Len(e)) => u = Failed(s)
        /\ Known(k, v, Len(e)) =>
              u = IF k = "incremental" THEN [Yield(s, h) EXCEPT !.table = insert(@, h)]
                  ELSE Yield(s, h)
    BY <1>7, <2>1, DecodeLiteral
  <2>4. k # "update"
    BY <1>7
  <2> QED
    BY <2>3, <2>4, Zenon DEF u, e, h
<1> QED
  BY <1>5, <1>6, <1>7

\* The state of decode
IsDecoder(s) ==
    /\ DOMAIN s = {"table", "firstField", "headers", "ok"}
    /\ IsTable(s.table) /\ TableSound(s.table)

\* Its members after a step
LEMMA DecoderMembers ==
    ASSUME NEW s, DOMAIN s = {"table", "firstField", "headers", "ok"}, NEW t
    PROVE  /\ LET u == Failed(s)
              IN  /\ DOMAIN u = DOMAIN s /\ u.ok = FALSE /\ u.table = s.table
           /\ LET u == [s EXCEPT !.table = t]
              IN  /\ DOMAIN u = DOMAIN s /\ u.ok = s.ok /\ u.table = t
                  /\ u.headers = s.headers /\ u.firstField = s.firstField
BY DEF Failed

LEMMA DecoderYields ==
    ASSUME NEW s, DOMAIN s = {"table", "firstField", "headers", "ok"}, NEW h
    PROVE  LET u == Yield(s, h)
           IN  /\ DOMAIN u = DOMAIN s /\ u.ok = s.ok /\ u.table = s.table
               /\ u.headers = Append(s.headers, h) /\ u.firstField = FALSE
BY DEF Yield

\* What an instruction leaves of it
LEMMA DecodeStep ==
    ASSUME NEW s, IsDecoder(s), s.ok = TRUE, NEW i, NEW k, NEW v, IsInstruction(i, k, v),
           decodeTableLimit \in Nat
    PROVE  LET u == decodeHeader(s, i)
               e == s.table.entries
               h == Meant(i, k, v, e)
           IN  /\ IsDecoder(u)
               /\ k = "update" /\ ~ (s.firstField /\ ~ (v > decodeTableLimit)) => u.ok = FALSE
               /\ k = "update" /\ s.firstField /\ ~ (v > decodeTableLimit) =>
                     /\ u.ok = TRUE /\ u.headers = s.headers /\ u.firstField = s.firstField
                     /\ u.table.max = v /\ u.table.entries = Fitting(e, v)
               /\ k # "update" /\ ~Known(k, v, Len(e)) => u.ok = FALSE
               /\ k # "update" /\ Known(k, v, Len(e)) =>
                     /\ u.ok = TRUE /\ u.headers = Append(s.headers, h) /\ u.firstField = FALSE
                     /\ u.table.max = s.table.max
                     /\ u.table.entries = IF k = "incremental"
                                          THEN Fitting(Append(e, h), s.table.max) ELSE e
<1> DEFINE u == decodeHeader(s, i)
           e == s.table.entries
           h == Meant(i, k, v, e)
           ok == s.firstField /\ ~ (v > decodeTableLimit)
           known == Known(k, v, Len(e))
<1>0. /\ DOMAIN s = {"table", "firstField", "headers", "ok"} /\ IsTable(s.table)
      /\ TableSound(s.table) /\ e \in Seq(HeaderFields) /\ v \in Nat
  BY DEF IsDecoder, IsTable, IsInstruction
<1>1. /\ k = "update" =>
            u = IF ok THEN [s EXCEPT !.table = setMaxSize(@, v)] ELSE Failed(s)
      /\ k # "update" /\ ~known => u = Failed(s)
      /\ k # "update" /\ known =>
            u = IF k = "incremental" THEN [Yield(s, h) EXCEPT !.table = insert(@, h)]
                ELSE Yield(s, h)
  BY <1>0, DecodeIs, Zenon
<1>k. k # "update" /\ known => h \in HeaderFields
  BY <1>0, MeantField
<1> HIDE DEF u, h, ok, known, e
<1>2. CASE (k = "update" /\ ~ok) \/ (k # "update" /\ ~known)
  <2>1. u = Failed(s)
    BY <1>1, <1>2
  <2>2. DOMAIN u = DOMAIN s /\ u.ok = FALSE /\ u.table = s.table
    BY <1>0, <2>1, DecoderMembers
  <2>3. IsDecoder(u)
    BY <1>0, <2>2 DEF IsDecoder
  <2> QED
    BY <1>2, <2>2, <2>3 DEF u, h, ok, known, e
<1>3. CASE k = "update" /\ ok
  <2>1. PICK t : t = setMaxSize(s.table, v)
    OBVIOUS
  <2>2. u = [s EXCEPT !.table = t]
    BY <1>1, <1>3, <2>1
  <2>3. /\ DOMAIN u = DOMAIN s /\ u.ok = s.ok /\ u.table = t
        /\ u.headers = s.headers /\ u.firstField = s.firstField
    BY <1>0, <2>2, DecoderMembers
  <2>4. /\ IsTable(t) /\ TableSound(t) /\ t.max = v /\ t.entries = Fitting(e, v)
    BY <1>0, <2>1, SetMaxSound DEF e
  <2>5. IsDecoder(u)
    BY <1>0, <2>3, <2>4 DEF IsDecoder
  <2> QED
    BY <1>3, <2>3, <2>4, <2>5 DEF u, h, ok, known, e
<1>4. CASE k # "update" /\ known
  <2>1. PICK y : y = Yield(s, h)
    OBVIOUS
  <2>2. /\ DOMAIN y = DOMAIN s /\ y.ok = s.ok /\ y.table = s.table
        /\ y.headers = Append(s.headers, h) /\ y.firstField = FALSE
    BY <1>0, <2>1, DecoderYields
  <2>3. CASE k # "incremental"
    <3>1. u = y
      BY <1>1, <1>4, <2>1, <2>3
    <3>2. IsDecoder(u)
      BY <1>0, <2>2, <3>1 DEF IsDecoder
    <3> QED
      BY <1>4, <2>2, <2>3, <3>1, <3>2 DEF u, h, ok, known, e
  <2>4. CASE k = "incremental"
    <3>1. PICK t : t = insert(s.table, h)
      OBVIOUS
    <3>2. u = [y EXCEPT !.table = t]
      BY <1>1, <1>4, <2>1, <2>2, <2>4, <3>1
    <3>3. /\ DOMAIN u = DOMAIN y /\ u.ok = y.ok /\ u.table = t
          /\ u.headers = y.headers /\ u.firstField = y.firstField
      BY <1>0, <2>2, <3>2, DecoderMembers
    <3>4. /\ IsTable(t) /\ TableSound(t) /\ t.max = s.table.max
          /\ t.entries = Fitting(Append(e, h), s.table.max)
      BY <1>0, <1>k, <1>4, <3>1, InsertSound DEF e
    <3>5. IsDecoder(u)
      BY <1>0, <2>2, <3>3, <3>4 DEF IsDecoder
    <3> QED
      BY <1>4, <2>2, <2>4, <3>3, <3>4, <3>5 DEF u, h, ok, known, e
  <2> QED
    BY <2>3, <2>4
<1> QED
  BY <1>2, <1>3, <1>4

\* The peer of a block
PeerMembers == {"table", "max", "limit", "due", "low", "headers", "ok", "late"}

\* What an instruction with the field h does to the peer
PeerDoes(p, k, v, h) ==
    IF k = "update"
    THEN IF p.headers # <<>> \/ v > p.limit THEN Failed(p)
         ELSE [p EXCEPT !.max = v, !.low = Min({@, v}), !.table = Trim(@, v)]
    ELSE IF p.low > p.due \/ p.max > p.limit THEN [p EXCEPT !.ok = FALSE, !.late = TRUE]
    ELSE IF ~Known(k, v, Len(p.table)) THEN Failed(p)
    ELSE [p EXCEPT !.headers = Append(@, h),
                   !.table = IF k = "incremental" THEN Trim(<<h>> \o @, p.max) ELSE @]

\* The peer reads it that way, beside entries e it has the newest of.
LEMMA PeerIs ==
    ASSUME NEW p, p.ok = TRUE, NEW i, NEW k, NEW v, IsInstruction(i, k, v),
           NEW e, Shows(p.table, e)
    PROVE  PeerReads(p, i) = PeerDoes(p, k, v, Meant(i, k, v, e))
<1> DEFINE u == PeerReads(p, i)
           A == Address(p, v)
           N(x) == IF x = 0 THEN {i.strings[1]} ELSE {f.name : f \in Address(p, x)}
           H(y, x) == IF y = "indexed" THEN CHOOSE f \in Address(p, x) : TRUE
                      ELSE [name |-> CHOOSE n \in N(x) : TRUE,
                            value |-> i.strings[Len(i.strings)], sensitive |-> y = "never"]
           None(y, x) == IF y = "indexed" THEN Address(p, x) = {} ELSE N(x) = {}
           Update(x) == IF p.headers # <<>> \/ x > p.limit THEN Failed(p)
                        ELSE [p EXCEPT !.max = x, !.low = Min({@, x}), !.table = Trim(@, x)]
           Field(y, h) == [p EXCEPT !.headers = Append(@, h),
                                    !.table = IF y = "incremental"
                                              THEN Trim(<<h>> \o @, p.max) ELSE @]
           late == p.low > p.due \/ p.max > p.limit
           Late == [p EXCEPT !.ok = FALSE, !.late = TRUE]
           U(y, x) == IF ~p.ok THEN p ELSE IF ~Complete(i) THEN Failed(p)
                      ELSE IF y = "update" THEN Update(x)
                      ELSE IF late THEN Late
                      ELSE IF None(y, x) THEN Failed(p) ELSE Field(y, H(y, x))
<1>1. u = U(Kind(i), Integer(i))
  BY Zenon DEF PeerReads
<1>2. v \in Nat /\ k \in Kinds /\ Means(i, k, v) /\ Kind(i) = k
  BY DEF IsInstruction, Means
<1>3. Integer(i) = v /\ Complete(i)
  BY <1>2, MeansRead
<1>4. u = IF k = "update" THEN Update(v) ELSE IF late THEN Late
          ELSE IF None(k, v) THEN Failed(p) ELSE Field(k, H(k, v))
  <2> HIDE DEF Update, late, Late, None, Field, H
  <2>1. U(k, v) = IF k = "update" THEN Update(v) ELSE IF late THEN Late
                  ELSE IF None(k, v) THEN Failed(p) ELSE Field(k, H(k, v))
    BY <1>3
  <2> HIDE DEF u, U
  <2> QED
    BY <1>1, <1>2, <1>3, <2>1
<1>5. /\ v \in 1 .. Len(Static) + Len(p.table) =>
            A = {Entry(e, v)} /\ v \in 1 .. Len(Static) + Len(e)
      /\ v \notin 1 .. Len(Static) + Len(p.table) => A = {}
  BY <1>2, AddressIs
<1>6. Len(Static) \in Nat
  BY TableAssumption
<1> DEFINE known == Known(k, v, Len(p.table))
           h == Meant(i, k, v, e)
<1>7. ASSUME k # "update" PROVE None(k, v) <=> ~known
  <2>1. CASE k = "indexed"
    BY <1>5, <2>1 DEF Known
  <2>2. CASE k # "indexed"
    <3>1. CASE v = 0
      BY <2>2, <3>1 DEF Known
    <3>2. CASE v # 0
      <4>1. N(v) = {f.name : f \in A}
        BY <3>2
      <4>2. N(v) = {} <=> A = {}
        BY <4>1
      <4> HIDE DEF N, A
      <4>3. known <=> v \in 1 .. Len(Static) + Len(p.table)
        BY <2>2, <3>2 DEF Known
      <4> QED
        BY <1>5, <2>2, <4>2, <4>3
    <3> QED
      BY <3>1, <3>2
  <2> QED
    BY <2>1, <2>2
<1>8. ASSUME k # "update", known PROVE H(k, v) = h
  <2>1. CASE k = "indexed"
    <3>1. A = {Entry(e, v)}
      BY <1>5, <1>8, <2>1 DEF Known
    <3>2. (CHOOSE f \in {Entry(e, v)} : TRUE) = Entry(e, v)
      OBVIOUS
    <3>3. H(k, v) = CHOOSE f \in A : TRUE
      BY <2>1
    <3> HIDE DEF H, A
    <3> QED
      BY <2>1, <3>1, <3>2, <3>3 DEF Meant
  <2>2. CASE k # "indexed"
    <3>1. PICK a : a = IF v = 0 THEN i.strings[1] ELSE Entry(e, v).name
      OBVIOUS
    <3>2. v # 0 => A = {Entry(e, v)}
      BY <1>5, <1>8, <2>2 DEF Known
    <3>3. N(v) = {a}
      BY <3>1, <3>2
    <3>4. (CHOOSE n \in {a} : TRUE) = a
      OBVIOUS
    <3> HIDE DEF N
    <3>5. H(k, v) = [name |-> CHOOSE n \in N(v) : TRUE,
                     value |-> i.strings[Len(i.strings)], sensitive |-> k = "never"]
      BY <2>2, Zenon
    <3> HIDE DEF H
    <3> QED
      BY <2>2, <3>1, <3>3, <3>4, <3>5, Zenon DEF Meant
  <2> QED
    BY <2>1, <2>2
<1> HIDE DEF Update, late, Late, None, Field, H, known, h, u
<1>9. u = IF k = "update" THEN Update(v) ELSE IF late THEN Late
          ELSE IF ~known THEN Failed(p) ELSE Field(k, h)
  BY <1>4, <1>7, <1>8
<1> QED
  BY <1>9, Zenon DEF PeerDoes, Update, late, Late, Field, known, h, u

\* The members of the peer's state after a step
LEMMA PeerUpdated ==
    ASSUME NEW p, DOMAIN p = PeerMembers, NEW a, NEW b, NEW c
    PROVE  LET u == [p EXCEPT !.max = a, !.low = b, !.table = c]
           IN  /\ DOMAIN u = PeerMembers /\ u.max = a /\ u.low = b /\ u.table = c
               /\ u.limit = p.limit /\ u.due = p.due /\ u.headers = p.headers
               /\ u.ok = p.ok /\ u.late = p.late
BY DEF PeerMembers

LEMMA PeerLate ==
    ASSUME NEW p, DOMAIN p = PeerMembers
    PROVE  /\ LET u == [p EXCEPT !.ok = FALSE, !.late = TRUE]
              IN  /\ DOMAIN u = PeerMembers /\ u.ok = FALSE /\ u.late = TRUE
                  /\ u.limit = p.limit /\ u.due = p.due
           /\ LET u == Failed(p)
              IN  /\ DOMAIN u = PeerMembers /\ u.ok = FALSE /\ u.late = p.late
                  /\ u.limit = p.limit /\ u.due = p.due
BY DEF PeerMembers, Failed

LEMMA PeerYields ==
    ASSUME NEW p, DOMAIN p = PeerMembers, NEW a, NEW b
    PROVE  LET u == [p EXCEPT !.headers = a, !.table = b]
           IN  /\ DOMAIN u = PeerMembers /\ u.headers = a /\ u.table = b
               /\ u.max = p.max /\ u.low = p.low
               /\ u.limit = p.limit /\ u.due = p.due /\ u.ok = p.ok /\ u.late = p.late
BY DEF PeerMembers

\* The peer after an instruction with the field h
PeerLeaves(u, p, k, v, h) ==
    LET late  == p.low > p.due \/ p.max > p.limit
        known == Known(k, v, Len(p.table))
        over  == p.headers # <<>> \/ v > p.limit
    IN  /\ DOMAIN u = PeerMembers /\ u.limit = p.limit /\ u.due = p.due
        /\ k = "update" /\ over => u.ok = FALSE
        /\ k = "update" /\ ~over =>
              /\ u.ok = TRUE /\ u.max = v /\ u.low = Min({p.low, v})
              /\ u.table = Trim(p.table, v) /\ u.headers = p.headers /\ u.late = p.late
        /\ k # "update" /\ late => u.ok = FALSE /\ u.late = TRUE
        /\ k # "update" /\ ~late /\ ~known => u.ok = FALSE
        /\ k # "update" /\ ~late /\ known =>
              /\ u.ok = TRUE /\ u.headers = Append(p.headers, h)
              /\ u.max = p.max /\ u.low = p.low /\ u.late = p.late
              /\ u.table = IF k = "incremental" THEN Trim(<<h>> \o p.table, p.max)
                           ELSE p.table

\* What an instruction leaves of the peer
LEMMA PeerStep ==
    ASSUME NEW p, DOMAIN p = PeerMembers, p.ok = TRUE,
           NEW i, NEW k, NEW v, IsInstruction(i, k, v), NEW e, Shows(p.table, e)
    PROVE  PeerLeaves(PeerReads(p, i), p, k, v, Meant(i, k, v, e))
<1> USE DEF PeerLeaves
<1> DEFINE u == PeerReads(p, i)
           h == Meant(i, k, v, e)
           late == p.low > p.due \/ p.max > p.limit
           over == p.headers # <<>> \/ v > p.limit
           known == Known(k, v, Len(p.table))
<1>1. PICK a, b, c, d : /\ a = Min({p.low, v}) /\ b = Trim(p.table, v)
                        /\ c = Append(p.headers, h)
                        /\ d = IF k = "incremental" THEN Trim(<<h>> \o p.table, p.max)
                               ELSE p.table
  OBVIOUS
<1>2. /\ k = "update" => u = IF over THEN Failed(p)
                             ELSE [p EXCEPT !.max = v, !.low = a, !.table = b]
      /\ k # "update" /\ late => u = [p EXCEPT !.ok = FALSE, !.late = TRUE]
      /\ k # "update" /\ ~late => u = IF ~known THEN Failed(p)
                                      ELSE [p EXCEPT !.headers = c, !.table = d]
  <2>1. u = PeerDoes(p, k, v, h)
    BY PeerIs
  <2> HIDE DEF h, u
  <2>2. u = IF k = "update"
            THEN IF over THEN Failed(p) ELSE [p EXCEPT !.max = v, !.low = a, !.table = b]
            ELSE IF late THEN [p EXCEPT !.ok = FALSE, !.late = TRUE]
            ELSE IF ~known THEN Failed(p) ELSE [p EXCEPT !.headers = c, !.table = d]
    BY <1>1, <2>1, Zenon DEF PeerDoes
  <2> HIDE DEF late, over, known
  <2> QED
    BY <2>2, Zenon
<1> HIDE DEF h, late, over, known, u
<1>3. CASE k = "update" /\ over
  <2>1. u = Failed(p)
    BY <1>2, <1>3
  <2>2. DOMAIN u = PeerMembers /\ u.limit = p.limit /\ u.due = p.due /\ u.ok = FALSE
    BY <2>1, PeerLate
  <2> QED
    BY <1>3, <2>2, Zenon DEF h, late, over, known, u
<1>4. CASE k = "update" /\ ~over
  <2>1. u = [p EXCEPT !.max = v, !.low = a, !.table = b]
    BY <1>2, <1>4
  <2>2. /\ DOMAIN u = PeerMembers /\ u.max = v /\ u.low = a /\ u.table = b
        /\ u.limit = p.limit /\ u.due = p.due /\ u.headers = p.headers
        /\ u.ok = p.ok /\ u.late = p.late
    BY <2>1, PeerUpdated
  <2> QED
    BY <1>1, <1>4, <2>2, Zenon DEF h, late, over, known, u
<1>5. CASE k # "update" /\ late
  <2>1. u = [p EXCEPT !.ok = FALSE, !.late = TRUE]
    BY <1>2, <1>5
  <2>2. /\ DOMAIN u = PeerMembers /\ u.limit = p.limit /\ u.due = p.due
        /\ u.ok = FALSE /\ u.late = TRUE
    BY <2>1, PeerLate
  <2> QED
    BY <1>5, <2>2, Zenon DEF h, late, over, known, u
<1>6. CASE k # "update" /\ ~late /\ ~known
  <2>1. u = Failed(p)
    BY <1>2, <1>6
  <2>2. DOMAIN u = PeerMembers /\ u.limit = p.limit /\ u.due = p.due /\ u.ok = FALSE
    BY <2>1, PeerLate
  <2> QED
    BY <1>6, <2>2, Zenon DEF h, late, over, known, u
<1>7. CASE k # "update" /\ ~late /\ known
  <2>1. u = [p EXCEPT !.headers = c, !.table = d]
    BY <1>2, <1>7
  <2>2. /\ DOMAIN u = PeerMembers /\ u.headers = c /\ u.table = d
        /\ u.max = p.max /\ u.low = p.low
        /\ u.limit = p.limit /\ u.due = p.due /\ u.ok = p.ok /\ u.late = p.late
    BY <2>1, PeerYields
  <2> QED
    BY <1>1, <1>7, <2>2, Zenon DEF h, late, over, known, u
<1> QED
  BY <1>3, <1>4, <1>5, <1>6, <1>7, Zenon
-----------------------------------------------------------------------------
(***************************************************************************)
(* The loops over a block                                                  *)
(***************************************************************************)

\* decode goes through states, one for every instruction.
LEMMA DecodeRun ==
    ASSUME NEW block, Len(block) \in Nat
    PROVE  \E s : /\ s[0] = [table |-> decodeTable, firstField |-> TRUE, headers |-> <<>>, ok |-> TRUE]
                  /\ \A i \in 1 .. Len(block) : s[i] = decodeHeader(s[i - 1], block[i])
                  /\ decode(block) = s[Len(block)]
<1>0. PICK n, init : n = Len(block) /\ init = [table |-> decodeTable, firstField |-> TRUE, headers |-> <<>>, ok |-> TRUE]
  OBVIOUS
<1> DEFINE G(f, i) == IF i = 0 THEN init ELSE decodeHeader(f[i - 1], block[i])
           S == {m \in Nat : \E f : f = [i \in 0 .. m |-> G(f, i)]}
           F == CHOOSE f : f = [i \in 0 .. n |-> G(f, i)]
<1>n. n \in Nat
  BY <1>0
<1>1. 0 \in S
  <2> DEFINE f == [i \in 0 .. 0 |-> init]
  <2>1. f = [i \in 0 .. 0 |-> G(f, i)]
    OBVIOUS
  <2> QED
    BY <2>1
<1>2. ASSUME NEW m \in 0 .. n, m \in S PROVE m + 1 \in S
  <2>1. PICK f : f = [i \in 0 .. m |-> G(f, i)]
    BY <1>2
  <2> DEFINE g == [i \in 0 .. (m + 1) |-> IF i = m + 1 THEN G(f, i) ELSE f[i]]
  <2>2. \A i \in 0 .. (m + 1) : G(g, i) = G(f, i)
    OBVIOUS
  <2>3. \A i \in 0 .. m : f[i] = G(f, i)
    BY <2>1
  <2>4. \A i \in 0 .. (m + 1) : g[i] = G(g, i)
    BY <2>2, <2>3
  <2>5. g = [i \in 0 .. (m + 1) |-> g[i]]
    OBVIOUS
  <2> HIDE DEF g, G
  <2>6. g = [i \in 0 .. (m + 1) |-> G(g, i)]
    BY <2>4, <2>5
  <2> QED
    BY <2>6, <1>n
<1>3. n \in S
  <2> HIDE DEF S
  <2>1. n \in 0 .. n
    BY <1>n
  <2>2. \A m \in 0 .. n : m # n /\ m \in S => m + 1 \in S
    BY <1>2
  <2>3. \A m \in 0 .. n : m \in S
    BY <1>n, <1>1, <2>2, LoopInduction, Zenon
  <2> QED
    BY <2>1, <2>3, Zenon
<1>4. F = [i \in 0 .. n |-> G(F, i)]
  <2> HIDE DEF G
  <2> QED
    BY <1>3
<1>5. decode(block) = F[n]
  BY <1>0, Zenon DEF decode
<1> HIDE DEF F, S
<1>6. \A i \in 0 .. n : F[i] = G(F, i)
  <2> HIDE DEF G
  <2> QED
    BY <1>4
<1> HIDE <1>4
<1>7. F[0] = init /\ \A i \in 1 .. n : F[i] = decodeHeader(F[i - 1], block[i])
  BY <1>n, <1>6
<1> QED
  BY <1>0, <1>5, <1>7, Zenon

\* So does the peer.
PeerGoes(s, p, block) ==
    /\ s[0] = [p EXCEPT !.low = p.max]
    /\ \A i \in 1 .. Len(block) : s[i] = PeerReads(s[i - 1], block[i])
    /\ PeerBlock(p, block) = s[Len(block)]

LEMMA PeerRun ==
    ASSUME NEW p, NEW block, Len(block) \in Nat
    PROVE  \E s : PeerGoes(s, p, block)
<1>0. PICK n, init : n = Len(block) /\ init = [p EXCEPT !.low = p.max]
  OBVIOUS
<1> DEFINE G(f, i) == IF i = 0 THEN init ELSE PeerReads(f[i - 1], block[i])
           S == {m \in Nat : \E f : f = [i \in 0 .. m |-> G(f, i)]}
           F == CHOOSE f : f = [i \in 0 .. n |-> G(f, i)]
<1>n. n \in Nat
  BY <1>0
<1>1. 0 \in S
  <2> DEFINE f == [i \in 0 .. 0 |-> init]
  <2>1. f = [i \in 0 .. 0 |-> G(f, i)]
    OBVIOUS
  <2> QED
    BY <2>1
<1>2. ASSUME NEW m \in 0 .. n, m \in S PROVE m + 1 \in S
  <2>1. PICK f : f = [i \in 0 .. m |-> G(f, i)]
    BY <1>2
  <2> DEFINE g == [i \in 0 .. (m + 1) |-> IF i = m + 1 THEN G(f, i) ELSE f[i]]
  <2>2. \A i \in 0 .. (m + 1) : G(g, i) = G(f, i)
    OBVIOUS
  <2>3. \A i \in 0 .. m : f[i] = G(f, i)
    BY <2>1
  <2>4. \A i \in 0 .. (m + 1) : g[i] = G(g, i)
    BY <2>2, <2>3
  <2>5. g = [i \in 0 .. (m + 1) |-> g[i]]
    OBVIOUS
  <2> HIDE DEF g, G
  <2>6. g = [i \in 0 .. (m + 1) |-> G(g, i)]
    BY <2>4, <2>5
  <2> QED
    BY <2>6, <1>n
<1>3. n \in S
  <2> HIDE DEF S
  <2>1. n \in 0 .. n
    BY <1>n
  <2>2. \A m \in 0 .. n : m # n /\ m \in S => m + 1 \in S
    BY <1>2
  <2>3. \A m \in 0 .. n : m \in S
    BY <1>n, <1>1, <2>2, LoopInduction, Zenon
  <2> QED
    BY <2>1, <2>3, Zenon
<1>4. F = [i \in 0 .. n |-> G(F, i)]
  <2> HIDE DEF G
  <2> QED
    BY <1>3
<1>5. PeerBlock(p, block) = F[n]
  BY <1>0, Zenon DEF PeerBlock
<1> HIDE DEF F, S
<1>6. \A i \in 0 .. n : F[i] = G(F, i)
  <2> HIDE DEF G
  <2> QED
    BY <1>4
<1> HIDE <1>4
<1>7. F[0] = init /\ \A i \in 1 .. n : F[i] = PeerReads(F[i - 1], block[i])
  BY <1>n, <1>6
<1> QED
  BY <1>0, <1>5, <1>7, Zenon DEF PeerGoes

\* encode goes through states, one for every header.
LEMMA EncodeRun ==
    ASSUME NEW headers, Len(headers) \in Nat
    PROVE  \E s : /\ s[0] = [table |-> encodeTable, block |-> sizeUpdates]
                  /\ \A i \in 1 .. Len(headers) : s[i] = encodeHeader(s[i - 1], headers[i])
                  /\ Encoded(headers) = s[Len(headers)]
<1>0. PICK n, init : n = Len(headers) /\ init = [table |-> encodeTable, block |-> sizeUpdates]
  OBVIOUS
<1> DEFINE G(f, i) == IF i = 0 THEN init ELSE encodeHeader(f[i - 1], headers[i])
           S == {m \in Nat : \E f : f = [i \in 0 .. m |-> G(f, i)]}
           F == CHOOSE f : f = [i \in 0 .. n |-> G(f, i)]
<1>n. n \in Nat
  BY <1>0
<1>1. 0 \in S
  <2> DEFINE f == [i \in 0 .. 0 |-> init]
  <2>1. f = [i \in 0 .. 0 |-> G(f, i)]
    OBVIOUS
  <2> QED
    BY <2>1
<1>2. ASSUME NEW m \in 0 .. n, m \in S PROVE m + 1 \in S
  <2>1. PICK f : f = [i \in 0 .. m |-> G(f, i)]
    BY <1>2
  <2> DEFINE g == [i \in 0 .. (m + 1) |-> IF i = m + 1 THEN G(f, i) ELSE f[i]]
  <2>2. \A i \in 0 .. (m + 1) : G(g, i) = G(f, i)
    OBVIOUS
  <2>3. \A i \in 0 .. m : f[i] = G(f, i)
    BY <2>1
  <2>4. \A i \in 0 .. (m + 1) : g[i] = G(g, i)
    BY <2>2, <2>3
  <2>5. g = [i \in 0 .. (m + 1) |-> g[i]]
    OBVIOUS
  <2> HIDE DEF g, G
  <2>6. g = [i \in 0 .. (m + 1) |-> G(g, i)]
    BY <2>4, <2>5
  <2> QED
    BY <2>6, <1>n
<1>3. n \in S
  <2> HIDE DEF S
  <2>1. n \in 0 .. n
    BY <1>n
  <2>2. \A m \in 0 .. n : m # n /\ m \in S => m + 1 \in S
    BY <1>2
  <2>3. \A m \in 0 .. n : m \in S
    BY <1>n, <1>1, <2>2, LoopInduction, Zenon
  <2> QED
    BY <2>1, <2>3, Zenon
<1>4. F = [i \in 0 .. n |-> G(F, i)]
  <2> HIDE DEF G
  <2> QED
    BY <1>3
<1>5. Encoded(headers) = F[n]
  BY <1>0, Zenon DEF Encoded
<1> HIDE DEF F, S
<1>6. \A i \in 0 .. n : F[i] = G(F, i)
  <2> HIDE DEF G
  <2> QED
    BY <1>4
<1> HIDE <1>4
<1>7. F[0] = init /\ \A i \in 1 .. n : F[i] = encodeHeader(F[i - 1], headers[i])
  BY <1>n, <1>6
<1> QED
  BY <1>0, <1>5, <1>7, Zenon
-----------------------------------------------------------------------------
(***************************************************************************)
(* The decoder beside a peer that follows the RFC.  As long as the peer    *)
(* has not resized its table, the decoder's may be larger, and until it    *)
(* has honoured a smaller limit, both are empty.                           *)
(***************************************************************************)
Pending(t, p) == p.max > p.limit /\ p.table = <<>> /\ t.entries = <<>>
Alike(t, p) ==
    /\ p.max \in Nat /\ Shows(p.table, t.entries)
    /\ p.max =< t.max \/ Pending(t, p)
    /\ ~ (decodeTableLimit > InitMaxTableSize) =>
          ShowsAll(p.table, t.entries) /\ (p.max = t.max \/ Pending(t, p))

\* Within a block: what the peer accepts, the decoder has accepted and read alike.
Reading(s, p) ==
    /\ IsDecoder(s) /\ DOMAIN p = PeerMembers /\ p.limit = decodeTableLimit
    /\ s.ok \in BOOLEAN /\ p.ok \in BOOLEAN
    /\ p.ok = TRUE =>
          /\ s.ok = TRUE /\ Alike(s.table, p)
          /\ s.headers = p.headers /\ s.headers \in Seq(HeaderFields)
          /\ s.firstField \in BOOLEAN /\ (s.firstField = TRUE <=> s.headers = <<>>)
    /\ p.ok = FALSE =>
          p.late = TRUE \/ decodeTableLimit > InitMaxTableSize \/ s.ok = FALSE

\* Resizing both tables
LEMMA AlikeResized ==
    ASSUME NEW t, NEW p, NEW u, NEW q, Alike(t, p), NEW v \in Nat,
           u.max = v, q.max = v, u.entries = Fitting(t.entries, v), q.table = Trim(p.table, v)
    PROVE  Alike(u, q)
<1>1. Shows(p.table, t.entries) /\ v =< v
  BY DEF Alike
<1>2. /\ Shows(q.table, u.entries)
      /\ ShowsAll(p.table, t.entries) => ShowsAll(q.table, u.entries)
  BY <1>1, TrimShows
<1>3. ~ (decodeTableLimit > InitMaxTableSize) => ShowsAll(p.table, t.entries)
  BY DEF Alike
<1> QED
  BY <1>1, <1>2, <1>3 DEF Alike

\* Adding an entry to both tables
LEMMA AlikePushed ==
    ASSUME NEW t, NEW p, NEW u, NEW q, Alike(t, p), ~ (p.max > p.limit), t.max \in Nat,
           NEW h \in HeaderFields, u.max = t.max, q.max = p.max,
           u.entries = Fitting(Append(t.entries, h), t.max),
           q.table = Trim(<<h>> \o p.table, p.max)
    PROVE  Alike(u, q)
<1>1. PICK pt, e, m, n : /\ pt = <<h>> \o p.table /\ e = Append(t.entries, h)
                         /\ m = p.max /\ n = t.max
  OBVIOUS
<1>2. /\ m \in Nat /\ n \in Nat /\ Shows(p.table, t.entries) /\ m =< n
      /\ ~ (decodeTableLimit > InitMaxTableSize) => ShowsAll(p.table, t.entries) /\ m = n
  BY <1>1 DEF Alike, Pending
<1>3. Shows(pt, e) /\ (ShowsAll(p.table, t.entries) => ShowsAll(pt, e))
  BY <1>1, <1>2, PushShows
<1>4. /\ Shows(Trim(pt, m), Fitting(e, n))
      /\ ShowsAll(pt, e) /\ m = n => ShowsAll(Trim(pt, m), Fitting(e, n))
  BY <1>2, <1>3, TrimShows
<1>5. q.table = Trim(pt, m) /\ u.entries = Fitting(e, n) /\ q.max = m /\ u.max = n
  BY <1>1
<1> QED
  BY <1>2, <1>3, <1>4, <1>5, Zenon DEF Alike

\* One instruction
LEMMA ReadingStep ==
    ASSUME NEW s, NEW p, Reading(s, p), NEW i, NEW k, NEW v, IsInstruction(i, k, v),
           decodeTableLimit \in Nat
    PROVE  Reading(decodeHeader(s, i), PeerReads(p, i))
<1>1. PICK u, q : u = decodeHeader(s, i) /\ q = PeerReads(p, i)
  OBVIOUS
<1>0. /\ IsDecoder(s) /\ DOMAIN p = PeerMembers /\ p.limit = decodeTableLimit
      /\ s.ok \in BOOLEAN /\ p.ok \in BOOLEAN /\ v \in Nat
      /\ p.ok = FALSE =>
            p.late = TRUE \/ decodeTableLimit > InitMaxTableSize \/ s.ok = FALSE
  BY DEF Reading, IsInstruction
<1>e. PICK e : e = s.table.entries
  OBVIOUS
<1>2. CASE s.ok = FALSE
  <2>1. p.ok = FALSE
    BY <1>0, <1>2 DEF Reading
  <2>2. u = s
    BY <1>1, <1>2, Zenon DEF decodeHeader
  <2>3. q = p
    BY <1>1, <2>1, Zenon DEF PeerReads
  <2> QED
    BY <1>1, <2>2, <2>3
<1>3. CASE s.ok = TRUE
  <2> DEFINE h == Meant(i, k, v, e)
  <2>1. /\ IsDecoder(u)
        /\ k = "update" /\ ~ (s.firstField /\ ~ (v > decodeTableLimit)) => u.ok = FALSE
        /\ k = "update" /\ s.firstField /\ ~ (v > decodeTableLimit) =>
              /\ u.ok = TRUE /\ u.headers = s.headers /\ u.firstField = s.firstField
              /\ u.table.max = v /\ u.table.entries = Fitting(e, v)
        /\ k # "update" /\ ~Known(k, v, Len(e)) => u.ok = FALSE
        /\ k # "update" /\ Known(k, v, Len(e)) =>
              /\ u.ok = TRUE /\ u.headers = Append(s.headers, h) /\ u.firstField = FALSE
              /\ u.table.max = s.table.max
              /\ u.table.entries = IF k = "incremental"
                                   THEN Fitting(Append(e, h), s.table.max) ELSE e
    BY <1>0, <1>1, <1>3, <1>e, DecodeStep, ZenonT(40)
  <2> HIDE DEF h
  <2>2. u.ok \in BOOLEAN
    BY <2>1
  <2>3. CASE p.ok = FALSE
    <3>1. q = p
      BY <1>1, <2>3, Zenon DEF PeerReads
    <3> QED
      BY <1>0, <1>1, <1>3, <2>1, <2>2, <2>3, <3>1 DEF Reading
  <2>4. CASE p.ok = TRUE
    <3>1. /\ Alike(s.table, p) /\ s.headers = p.headers /\ s.headers \in Seq(HeaderFields)
          /\ s.firstField \in BOOLEAN /\ (s.firstField = TRUE <=> s.headers = <<>>)
      BY <2>4 DEF Reading
    <3>2. Shows(p.table, e) /\ e \in Seq(HeaderFields) /\ p.table \in Seq(HeaderFields)
      BY <1>e, <3>1 DEF Alike, Shows
    <3> DEFINE late == p.low > p.due \/ p.max > p.limit
               known == Known(k, v, Len(p.table))
               over == p.headers # <<>> \/ v > p.limit
    <3>3. /\ DOMAIN q = PeerMembers /\ q.limit = p.limit /\ q.due = p.due
          /\ k = "update" /\ over => q.ok = FALSE
          /\ k = "update" /\ ~over =>
                /\ q.ok = TRUE /\ q.max = v /\ q.low = Min({p.low, v})
                /\ q.table = Trim(p.table, v) /\ q.headers = p.headers /\ q.late = p.late
          /\ k # "update" /\ late => q.ok = FALSE /\ q.late = TRUE
          /\ k # "update" /\ ~late /\ ~known => q.ok = FALSE
          /\ k # "update" /\ ~late /\ known =>
                /\ q.ok = TRUE /\ q.headers = Append(p.headers, h)
                /\ q.max = p.max /\ q.low = p.low /\ q.late = p.late
                /\ q.table = IF k = "incremental" THEN Trim(<<h>> \o p.table, p.max)
                             ELSE p.table
      <4>1. PeerLeaves(PeerReads(p, i), p, k, v, Meant(i, k, v, e))
        BY <1>0, <2>4, <3>2, PeerStep
      <4>2. PeerLeaves(q, p, k, v, h)
        BY <1>1, <4>1 DEF h
      <4> QED
        BY <4>2, Zenon DEF PeerLeaves
    <3>l. late => p.max > p.limit \/ p.low > p.due
      OBVIOUS
    <3>o. over <=> ~ (s.firstField /\ ~ (v > decodeTableLimit))
      BY <1>0, <3>1
    <3>m. ~late => ~ (p.max > p.limit)
      OBVIOUS
    <3> HIDE DEF late, over, known
    <3>4. CASE k = "update" /\ over
      <4>1. u.ok = FALSE /\ q.ok = FALSE
        BY <2>1, <3>3, <3>4, <3>o
      <4> QED
        BY <1>0, <1>1, <2>1, <3>3, <4>1 DEF Reading
    <3>5. CASE k = "update" /\ ~over
      <4>1. /\ q.ok = TRUE /\ q.max = v /\ q.table = Trim(p.table, v) /\ q.headers = p.headers
            /\ u.ok = TRUE /\ u.headers = s.headers /\ u.firstField = s.firstField
            /\ u.table.max = v /\ u.table.entries = Fitting(e, v)
        BY <2>1, <3>3, <3>5, <3>o
      <4>2. Alike(u.table, q)
        BY <1>0, <1>e, <3>1, <4>1, AlikeResized
      <4> QED
        BY <1>0, <1>1, <2>1, <3>1, <3>3, <4>1, <4>2 DEF Reading
    <3>6. CASE k # "update" /\ late
      BY <1>0, <1>1, <2>1, <2>2, <3>3, <3>6 DEF Reading
    <3>7. CASE k # "update" /\ ~late /\ ~known
      <4>1. q.ok = FALSE
        BY <3>3, <3>7
      <4>2. decodeTableLimit > InitMaxTableSize \/ u.ok = FALSE
        <5> SUFFICES ASSUME ~ (decodeTableLimit > InitMaxTableSize) PROVE u.ok = FALSE
          OBVIOUS
        <5>1. Len(p.table) = Len(e)
          BY <1>e, <3>1 DEF Alike, ShowsAll
        <5>2. ~Known(k, v, Len(e))
          BY <3>7, <5>1 DEF known
        <5> QED
          BY <2>1, <3>7, <5>2
      <4> QED
        BY <1>0, <1>1, <2>1, <2>2, <3>3, <4>1, <4>2 DEF Reading
    <3>8. CASE k # "update" /\ ~late /\ known
      <4>1. Known(k, v, Len(e))
        <5>1. /\ Len(p.table) \in Nat /\ Len(e) \in Nat /\ Len(p.table) =< Len(e)
              /\ Len(Static) \in Nat
          BY <3>2, TableAssumption DEF Shows
        <5> QED
          BY <1>0, <3>8, <5>1 DEF known, Known
      <4>h. h \in HeaderFields
        BY <3>2, <3>8, <4>1, MeantField DEF h
      <4>2. /\ q.ok = TRUE /\ q.headers = Append(p.headers, h) /\ q.max = p.max
            /\ q.table = IF k = "incremental" THEN Trim(<<h>> \o p.table, p.max) ELSE p.table
            /\ u.ok = TRUE /\ u.headers = Append(s.headers, h) /\ u.firstField = FALSE
            /\ u.table.max = s.table.max
            /\ u.table.entries = IF k = "incremental"
                                 THEN Fitting(Append(e, h), s.table.max) ELSE e
        BY <2>1, <3>3, <3>8, <4>1
      <4>3. u.headers \in Seq(HeaderFields) /\ u.headers # <<>> /\ u.headers = q.headers
        <5>1. /\ Append(s.headers, h) \in Seq(HeaderFields) /\ Append(s.headers, h) # <<>>
          BY <3>1, <4>h
        <5> QED
          BY <3>1, <4>2, <5>1
      <4>4. Alike(u.table, q)
        <5>1. CASE k = "incremental"
          <6>1. ~ (p.max > p.limit) /\ s.table.max \in Nat
            BY <1>0, <3>8, <3>m DEF IsDecoder, IsTable
          <6>2. /\ u.table.entries = Fitting(Append(s.table.entries, h), s.table.max)
                /\ q.table = Trim(<<h>> \o p.table, p.max)
            BY <1>e, <4>2, <5>1
          <6> QED
            BY <3>1, <4>2, <4>h, <6>1, <6>2, AlikePushed
        <5>2. CASE k # "incremental"
          BY <1>e, <3>1, <3>3, <4>2, <5>2 DEF Alike, Pending
        <5> QED
          BY <5>1, <5>2
      <4> QED
        BY <1>0, <1>1, <2>1, <3>3, <4>2, <4>3, <4>4 DEF Reading
    <3> QED
      BY <3>4, <3>5, <3>6, <3>7, <3>8
  <2> QED
    BY <1>0, <2>3, <2>4
<1> QED
  BY <1>0, <1>2, <1>3

\* A block
LEMMA ReadingBlock ==
    ASSUME NEW block \in Blocks(PeerInstructions), decodeTableLimit \in Nat,
           IsTable(decodeTable), TableSound(decodeTable), NEW p, DOMAIN p = PeerMembers,
           p.limit = decodeTableLimit, p.ok = TRUE, p.headers = <<>>, Alike(decodeTable, p)
    PROVE  Reading(decode(block), PeerBlock(p, block))
<1>1. PICK n \in 1 .. MaxFields : block \in [1 .. n -> PeerInstructions]
  BY DEF Blocks
<1>2. n \in Nat /\ Len(block) = n /\ Len(block) \in Nat
  BY <1>1, HpackAssumption
<1>3. PICK s : /\ s[0] = [table |-> decodeTable, firstField |-> TRUE, headers |-> <<>>, ok |-> TRUE]
               /\ \A i \in 1 .. Len(block) : s[i] = decodeHeader(s[i - 1], block[i])
               /\ decode(block) = s[Len(block)]
  BY <1>2, DecodeRun, Zenon
<1>4. PICK q : PeerGoes(q, p, block)
  BY <1>2, PeerRun
<1>p. /\ q[0] = [p EXCEPT !.low = p.max]
      /\ \A i \in 1 .. Len(block) : q[i] = PeerReads(q[i - 1], block[i])
      /\ PeerBlock(p, block) = q[Len(block)]
  BY <1>4, Zenon DEF PeerGoes
<1> DEFINE S == {m \in 0 .. n : Reading(s[m], q[m])}
<1>5. 0 \in S
  <2>1. PICK a, b : a = s[0] /\ b = q[0]
    OBVIOUS
  <2>2. /\ DOMAIN a = {"table", "firstField", "headers", "ok"} /\ a.table = decodeTable
        /\ a.firstField = TRUE /\ a.headers = <<>> /\ a.ok = TRUE
    BY <1>3, <2>1
  <2>3. /\ DOMAIN b = PeerMembers /\ b.table = p.table /\ b.max = p.max /\ b.limit = p.limit
        /\ b.headers = p.headers /\ b.ok = p.ok
    BY <1>p, <2>1 DEF PeerMembers
  <2>4. Alike(a.table, b)
    BY <2>2, <2>3 DEF Alike, Pending
  <2>5. <<>> \in Seq(HeaderFields)
    OBVIOUS
  <2>6. Reading(a, b)
    BY <2>2, <2>3, <2>4, <2>5 DEF Reading, IsDecoder
  <2> QED
    BY <1>2, <2>1, <2>6
<1>6. ASSUME NEW m \in 0 .. n, m # n, m \in S PROVE m + 1 \in S
  <2>1. PICK j : j = m + 1
    OBVIOUS
  <2>2. j \in 1 .. n /\ j - 1 = m
    BY <1>2, <1>6, <2>1
  <2>3. block[j] \in PeerInstructions
    BY <1>1, <2>2
  <2>4. PICK k, v : IsInstruction(block[j], k, v)
    BY <2>3, PeerInstructionIs
  <2>5. Reading(s[m], q[m])
    BY <1>6
  <2>6. Reading(decodeHeader(s[m], block[j]), PeerReads(q[m], block[j]))
    BY <2>4, <2>5, ReadingStep
  <2>7. s[j] = decodeHeader(s[m], block[j]) /\ q[j] = PeerReads(q[m], block[j])
    BY <1>2, <1>3, <1>p, <2>2
  <2> QED
    BY <1>2, <2>1, <2>2, <2>6, <2>7
<1>7. n \in S
  <2> HIDE DEF S
  <2>1. n \in 0 .. n
    BY <1>2
  <2>2. \A m \in 0 .. n : m # n /\ m \in S => m + 1 \in S
    BY <1>6
  <2>3. \A m \in 0 .. n : m \in S
    BY <1>2, <1>5, <2>2, LoopInduction, Zenon
  <2> QED
    BY <2>1, <2>3, Zenon
<1> QED
  BY <1>2, <1>3, <1>p, <1>7

\* An instruction that is cut short
LEMMA CutRefused ==
    ASSUME NEW s, s.ok = TRUE, NEW i, NEW k, NEW v, IsInstruction(i, k, v),
           Len(i.octets) > 1 \/ i.strings # <<>>
    PROVE  decodeHeader(s, Cut(i)) = Failed(s)
<1>1. /\ k \in Kinds /\ v \in Nat /\ Means(i, k, v) /\ Kind(i) = k
      /\ i = [octets |-> i.octets, strings |-> i.strings] /\ i.strings \in Seq(DOMAIN Length)
      /\ Len(i.strings) = IF k \in {"indexed", "update"} THEN 0 ELSE IF v = 0 THEN 2 ELSE 1
  BY DEF IsInstruction, Means
<1>2. PICK p, o, c, x : /\ p = Prefix[k] /\ o = i.octets /\ c = Cut(i)
                        /\ x = decodeHeader(s, c)
  OBVIOUS
<1>3. IsCode(o, p, v) /\ p \in {4, 5, 6, 7}
  BY <1>1, <1>2, PrefixOf, Zenon DEF Means
<1>4. CASE i.strings # <<>>
  <2>1. PICK z : z = i.strings
    OBVIOUS
  <2>2. z \in Seq(DOMAIN Length) /\ k \notin {"indexed", "update"}
        /\ Len(z) = (IF v = 0 THEN 2 ELSE 1)
    BY <1>1, <1>4, <2>1
  <2>3. Len(Front(z)) = Len(z) - 1
    BY <2>2 DEF Front
  <2>4. c.octets = o /\ c.strings = Front(z)
    BY <1>1, <1>2, <1>4, <2>1 DEF Cut
  <2>5. Kind(c) = k
    <3>1. Kind(c) = Kind(i)
      BY <1>2, <2>4, ZenonT(40) DEF Kind
    <3> QED
      BY <1>1, <3>1
  <2>6. x = decodeHeaderField(s, c, p, k = "incremental", k = "never")
    <3>1. ReadAs(k, x, s, c)
      BY <1>1, <1>2, <2>5, DecodeKind
    <3> QED
      BY <1>2, <2>2, <3>1, Zenon DEF ReadAs
  <2>7. decodeVInt(o, p) = {v}
    BY <1>1, <1>2, MeansRead
  <2> DEFINE read == decodeVInt(c.octets, p)
             n == CHOOSE y \in read : TRUE
  <2>8. n = v
    <3>1. (CHOOSE y \in {v} : TRUE) = v
      OBVIOUS
    <3> QED
      BY <2>4, <2>7, <3>1
  <2>9. Len(c.strings) # (IF n = 0 THEN 2 ELSE 1)
    <3> HIDE DEF n
    <3> QED
      BY <2>2, <2>3, <2>4, <2>8, SMTT(40)
  <2>10. x = Failed(s)
    BY <2>6, <2>9, Zenon DEF decodeHeaderField
  <2> QED
    BY <1>2, <2>10
<1>5. CASE i.strings = <<>>
  <2>1. k \in {"indexed", "update"} /\ Len(o) > 1
    BY <1>1, <1>2, <1>5
  <2>2. c.octets = Front(o)
    BY <1>1, <1>2, <1>5 DEF Cut
  <2>3. Front(o)[1] = o[1] /\ decodeVInt(Front(o), p) = {}
    BY <1>1, <1>3, <2>1, CodeCut
  <2>4. Kind(c) = k
    <3>1. c.octets[1] = i.octets[1]
      BY <1>2, <2>2, <2>3
    <3>2. Kind(c) = Kind(i)
      BY <3>1, ZenonT(40) DEF Kind
    <3> QED
      BY <1>1, <3>2
  <2>5. /\ k = "indexed" => x = decodeIndexedHeader(s, c)
        /\ k = "update" => x = decodeTableSizeUpdate(s, c)
    <3>1. ReadAs(k, x, s, c)
      BY <1>1, <1>2, <2>4, DecodeKind
    <3> QED
      BY <3>1, Zenon DEF ReadAs
  <2>6. CASE k = "indexed"
    <3>1. p = 7 /\ x = decodeIndexedHeader(s, c)
      BY <1>2, <2>5, <2>6, PrefixOf
    <3>2. decodeVInt(c.octets, 7) = {}
      BY <2>2, <2>3, <3>1
    <3> DEFINE found == UNION {at(s.table, n) : n \in decodeVInt(c.octets, 7)}
    <3>3. found = {}
      BY <3>2
    <3>4. x = Failed(s)
      BY <3>1, <3>3, Zenon DEF decodeIndexedHeader
    <3> QED
      BY <1>2, <3>4
  <2>7. CASE k = "update"
    <3>1. p = 5 /\ x = decodeTableSizeUpdate(s, c)
      BY <1>2, <2>5, <2>7, PrefixOf
    <3>2. decodeVInt(c.octets, 5) = {}
      BY <2>2, <2>3, <3>1
    <3>3. x = Failed(s)
      BY <3>1, <3>2, Zenon DEF decodeTableSizeUpdate
    <3> QED
      BY <1>2, <3>3
  <2> QED
    BY <2>1, <2>6, <2>7
<1> QED
  BY <1>4, <1>5
-----------------------------------------------------------------------------
(***************************************************************************)
(* The encoder beside a peer that follows the RFC                          *)
(***************************************************************************)

\* What a lookup map gives: an index of an entry with the key, or nothing.
LEMMA DynamicIs ==
    ASSUME NEW t, t.entries \in Seq(HeaderFields), t.nextId \in Nat, Len(t.entries) < t.nextId,
           NEW map, NEW keys, Len(keys) = Len(t.entries), NEW key,
           map \in [DOMAIN map -> Nat], MapSound(map, keys, oldestId(t))
    PROVE  \A v \in Dynamic(t, map, key) :
              /\ v \in Len(Static) + 1 .. Len(Static) + Len(t.entries)
              /\ keys[Len(t.entries) - (v - Len(Static)) + 1] = key
<1> SUFFICES ASSUME NEW v \in Dynamic(t, map, key)
             PROVE  /\ v \in Len(Static) + 1 .. Len(Static) + Len(t.entries)
                    /\ keys[Len(t.entries) - (v - Len(Static)) + 1] = key
  OBVIOUS
<1>1. PICK n, s, o : n = Len(t.entries) /\ s = Len(Static) /\ o = oldestId(t)
  OBVIOUS
<1>2. n \in Nat /\ s \in Nat /\ o \in Nat /\ o = t.nextId - n
  BY <1>1, TableAssumption DEF oldestId
<1>3. key \in DOMAIN map
  BY DEF Dynamic
<1>4. PICK id : id = map[key]
  OBVIOUS
<1>5. id \in Nat
  BY <1>3, <1>4
<1>6. v \in id2Index(t, id)
  BY <1>3, <1>4 DEF Dynamic
<1>7. v = s + (t.nextId - id)
  BY <1>1, <1>6 DEF id2Index
<1>8. PICK i : i = id - o + 1
  OBVIOUS
<1>9. i \in 1 .. n /\ keys[i] = key
  BY <1>1, <1>3, <1>4, <1>8 DEF MapSound, Newest
<1>10. v \in s + 1 .. s + n /\ n - (v - s) + 1 = i
  <2>1. PICK m \in Nat : m = t.nextId
    OBVIOUS
  <2>2. o = m - n /\ v = s + (m - id)
    BY <1>2, <1>7, <2>1
  <2> QED
    <3>1. i = id - (m - n) + 1 /\ i \in 1 .. n /\ n \in Nat /\ s \in Nat
      BY <1>2, <1>8, <1>9, <2>2
    <3>2. m - id \in 1 .. n /\ m - id = n - i + 1
      BY <1>5, <3>1
    <3>3. PICK d \in 1 .. n : d = m - id
      BY <3>2
    <3>4. v = s + d /\ d = n - i + 1
      BY <2>2, <3>2, <3>3
    <3> QED
      BY <3>1, <3>4, SMTT(40)
<1> QED
  BY <1>1, <1>9, <1>10

\* find gives the index of an entry that is the field, else of one with its
\* name, else 0.
LEMMA FindSound ==
    ASSUME NEW t, IsTable(t), TableSound(t), NEW h \in HeaderFields
    PROVE  LET f == find(t, h)
               e == t.entries
           IN  /\ f.index \in 0 .. Len(Static) + Len(e)
               /\ f.exact => /\ h.sensitive = FALSE /\ f.index # 0
                             /\ Pair(Entry(e, f.index)) = Pair(h)
               /\ ~f.exact /\ f.index # 0 => Entry(e, f.index).name = h.name
<1>1. PICK e, n, s : e = t.entries /\ n = Len(e) /\ s = Len(Static)
  OBVIOUS
<1>2. /\ e \in Seq(HeaderFields) /\ n \in Nat /\ t.nextId \in Nat /\ n < t.nextId
      /\ t.names \in [DOMAIN t.names -> Nat] /\ t.pairs \in [DOMAIN t.pairs -> Nat]
      /\ MapSound(t.names, Names(t), oldestId(t)) /\ MapSound(t.pairs, Pairs(t), oldestId(t))
  BY <1>1 DEF IsTable, TableSound
<1>3. s \in Nat /\ Static \in Seq(HeaderFields)
  BY <1>1, TableAssumption
<1>4. /\ Len(Names(t)) = n /\ Len(Pairs(t)) = n
      /\ \A i \in 1 .. n : Names(t)[i] = e[i].name /\ Pairs(t)[i] = Pair(e[i])
  BY <1>1, <1>2, KeysAre
<1> DEFINE A == StaticPair(Pair(h)) \cup Dynamic(t, t.pairs, Pair(h))
           exact == IF h.sensitive THEN {} ELSE A
           named == StaticName(h.name) \cup Dynamic(t, t.names, h.name)
           f == find(t, h)
<1>5. \A v \in A : v \in 1 .. s + n /\ Pair(Entry(e, v)) = Pair(h)
  <2>1. ASSUME NEW v \in StaticPair(Pair(h)) PROVE v \in 1 .. s + n /\ Pair(Entry(e, v)) = Pair(h)
    <3>1. v \in 1 .. s /\ Pair(Static[v]) = Pair(h)
      BY <1>1 DEF StaticPair
    <3>2. v \in 1 .. s + n /\ v =< s
      BY <1>2, <1>3, <3>1
    <3> QED
      BY <1>1, <3>1, <3>2 DEF Entry
  <2>2. ASSUME NEW v \in Dynamic(t, t.pairs, Pair(h))
        PROVE  v \in 1 .. s + n /\ Pair(Entry(e, v)) = Pair(h)
    <3>1. v \in s + 1 .. s + n /\ Pairs(t)[n - (v - s) + 1] = Pair(h)
      BY <1>1, <1>2, <1>4, DynamicIs
    <3>2. PICK i : i = n - (v - s) + 1
      OBVIOUS
    <3>3. i \in 1 .. n /\ v \in 1 .. s + n /\ ~ (v =< s)
      BY <1>2, <1>3, <3>1, <3>2
    <3>4. Entry(e, v) = e[i]
      BY <1>1, <3>2, <3>3 DEF Entry
    <3> QED
      BY <1>4, <3>1, <3>2, <3>3, <3>4
  <2> QED
    BY <2>1, <2>2
<1>6. \A v \in named : v \in 1 .. s + n /\ Entry(e, v).name = h.name
  <2>1. ASSUME NEW v \in StaticName(h.name) PROVE v \in 1 .. s + n /\ Entry(e, v).name = h.name
    <3>1. v \in 1 .. s /\ Static[v].name = h.name
      BY <1>1 DEF StaticName
    <3>2. v \in 1 .. s + n /\ v =< s
      BY <1>2, <1>3, <3>1
    <3> QED
      BY <1>1, <3>1, <3>2 DEF Entry
  <2>2. ASSUME NEW v \in Dynamic(t, t.names, h.name)
        PROVE  v \in 1 .. s + n /\ Entry(e, v).name = h.name
    <3>1. v \in s + 1 .. s + n /\ Names(t)[n - (v - s) + 1] = h.name
      BY <1>1, <1>2, <1>4, DynamicIs
    <3>2. PICK i : i = n - (v - s) + 1
      OBVIOUS
    <3>3. i \in 1 .. n /\ v \in 1 .. s + n /\ ~ (v =< s)
      BY <1>2, <1>3, <3>1, <3>2
    <3>4. Entry(e, v) = e[i]
      BY <1>1, <3>2, <3>3 DEF Entry
    <3> QED
      BY <1>4, <3>1, <3>2, <3>3, <3>4
  <2> QED
    BY <2>1, <2>2
<1> DEFINE S == IF exact # {} THEN exact ELSE IF named # {} THEN named ELSE {0}
<1>7. f = [exact |-> exact # {}, index |-> Min(S)]
  BY Zenon DEF find
<1> HIDE DEF A, named
<1>8. f.index = Min(S) /\ (f.exact <=> exact # {})
  <2>1. PICK x : x = (exact # {})
    OBVIOUS
  <2>2. f = [exact |-> x, index |-> Min(S)]
    BY <1>7, <2>1, Zenon
  <2> HIDE DEF f, S, exact
  <2>3. f.index = Min(S) /\ f.exact = x
    BY <2>2
  <2> QED
    BY <2>1, <2>3, Zenon
<1>9. S \in SUBSET Nat /\ S # {}
  BY <1>2, <1>3, <1>5, <1>6, SMTT(40)
<1>10. f.index \in S
  <2>1. Min(S) \in S
    BY <1>9, MinIs
  <2> HIDE DEF S, f, exact
  <2> QED
    BY <1>8, <2>1
<1> HIDE DEF f
<1>11. h.sensitive \in BOOLEAN
  BY FieldFacts
<1>12. CASE exact # {}
  <2>1. f.index \in A /\ f.exact /\ h.sensitive = FALSE
    BY <1>8, <1>10, <1>11, <1>12
  <2>2. f.index \in 1 .. s + n /\ Pair(Entry(e, f.index)) = Pair(h)
    BY <1>5, <2>1
  <2>3. f.index \in 0 .. s + n /\ f.index # 0
    BY <1>2, <1>3, <2>2
  <2> QED
    BY <1>1, <2>1, <2>2, <2>3, Zenon DEF f
<1>13. CASE exact = {} /\ named # {}
  <2>1. f.index \in named /\ ~f.exact
    BY <1>8, <1>10, <1>13
  <2>2. f.index \in 1 .. s + n /\ Entry(e, f.index).name = h.name
    BY <1>6, <2>1
  <2>3. f.index \in 0 .. s + n
    BY <1>2, <1>3, <2>2
  <2> QED
    BY <1>1, <2>1, <2>2, <2>3, Zenon DEF f
<1>14. CASE exact = {} /\ named = {}
  <2>1. f.index = 0 /\ ~f.exact
    BY <1>8, <1>10, <1>14
  <2>2. f.index \in 0 .. s + n
    BY <1>2, <1>3, <2>1
  <2> QED
    BY <1>1, <2>1, <2>2, Zenon DEF f
<1> QED
  BY <1>12, <1>13, <1>14

\* What a block is made of
Octets == [octets : Seq(Nat), strings : Seq(DOMAIN Length)]

\* An instruction more: the peer reads it after the others.
LEMMA PeerAppend ==
    ASSUME NEW p, NEW b \in Seq(Octets), NEW i \in Octets
    PROVE  PeerBlock(p, Append(b, i)) = PeerReads(PeerBlock(p, b), i)
<1>1. PICK n, c : n = Len(b) /\ c = Append(b, i)
  OBVIOUS
<1>2. /\ n \in Nat /\ Len(b) \in Nat /\ Len(c) = n + 1 /\ Len(c) \in Nat
      /\ c[n + 1] = i /\ \A j \in 1 .. n : c[j] = b[j]
  BY <1>1
<1>3. PICK s : PeerGoes(s, p, b)
  BY <1>2, PeerRun
<1>4. PICK q : PeerGoes(q, p, c)
  BY <1>2, PeerRun
<1>5. PICK init : init = [p EXCEPT !.low = p.max]
  OBVIOUS
<1>6. /\ s[0] = init /\ \A j \in 1 .. Len(b) : s[j] = PeerReads(s[j - 1], b[j])
      /\ PeerBlock(p, b) = s[Len(b)]
  BY <1>3, <1>5, Zenon DEF PeerGoes
<1>7. /\ q[0] = init /\ \A j \in 1 .. Len(c) : q[j] = PeerReads(q[j - 1], c[j])
      /\ PeerBlock(p, c) = q[Len(c)]
  BY <1>4, <1>5, Zenon DEF PeerGoes
<1> HIDE <1>3, <1>4, <1>5
<1> DEFINE T == {m \in 0 .. n : s[m] = q[m]}
<1>8. 0 \in T
  BY <1>2, <1>6, <1>7
<1>9. ASSUME NEW m \in 0 .. n, m # n, m \in T PROVE m + 1 \in T
  <2>1. PICK j : j = m + 1
    OBVIOUS
  <2>2. j \in 1 .. n /\ j - 1 = m /\ j \in 1 .. Len(c) /\ j \in 1 .. Len(b)
    BY <1>1, <1>2, <1>9, <2>1
  <2>3. s[j] = PeerReads(s[m], b[j]) /\ q[j] = PeerReads(q[m], c[j]) /\ c[j] = b[j]
    BY <1>2, <1>6, <1>7, <2>2
  <2>4. s[m] = q[m]
    BY <1>9
  <2>5. s[j] = q[j]
    BY <2>3, <2>4
  <2> QED
    BY <1>2, <2>1, <2>2, <2>5
<1>10. n \in T
  <2> HIDE DEF T
  <2>1. n \in 0 .. n
    BY <1>2
  <2>2. \A m \in 0 .. n : m # n /\ m \in T => m + 1 \in T
    BY <1>9
  <2>3. \A m \in 0 .. n : m \in T
    BY <1>2, <1>8, <2>2, LoopInduction, Zenon
  <2> QED
    BY <2>1, <2>3, Zenon
<1>11. q[n + 1] = PeerReads(q[n], i)
  <2>1. n + 1 \in 1 .. Len(c) /\ (n + 1) - 1 = n
    BY <1>2
  <2>2. q[n + 1] = PeerReads(q[(n + 1) - 1], c[n + 1])
    BY <1>7, <2>1
  <2> QED
    BY <1>2, <2>1, <2>2
<1>12. s[n] = q[n]
  BY <1>10
<1> QED
  BY <1>1, <1>2, <1>6, <1>7, <1>11, <1>12

\* Nothing read yet
LEMMA PeerEmpty ==
    ASSUME NEW p
    PROVE  PeerBlock(p, <<>>) = [p EXCEPT !.low = p.max]
<1>1. Len(<<>>) = 0 /\ Len(<<>>) \in Nat
  OBVIOUS
<1>2. PICK s : PeerGoes(s, p, <<>>)
  BY <1>1, PeerRun
<1>3. s[0] = [p EXCEPT !.low = p.max] /\ PeerBlock(p, <<>>) = s[Len(<<>>)]
  BY <1>2, Zenon DEF PeerGoes
<1> QED
  BY <1>1, <1>3

\* Between two instructions of a block: the tables are the same, of the size
\* m, and the peer has nothing to insist on.
Public(e) == \A i \in 1 .. Len(e) : e[i].sensitive = FALSE
Writing(s, q, m) ==
    /\ s = [table |-> s.table, block |-> s.block] /\ s.block \in Seq(Octets)
    /\ IsTable(s.table) /\ TableSound(s.table) /\ s.table.max = m /\ Public(s.table.entries)
    /\ DOMAIN q = PeerMembers /\ q.ok = TRUE /\ q.limit = m /\ q.max = m
    /\ q.low \in Nat /\ q.due \in Nat /\ q.low =< q.due
    /\ ShowsAll(q.table, s.table.entries) /\ q.headers \in Seq(HeaderFields)

\* No entry is sensitive.
LEMMA EntryPublic ==
    ASSUME NEW e \in Seq(HeaderFields), Public(e), NEW v \in 1 .. Len(Static) + Len(e)
    PROVE  Entry(e, v).sensitive = FALSE /\ Entry(e, v) \in HeaderFields
<1>1. Len(e) \in Nat /\ Len(Static) \in Nat /\ Static \in Seq(HeaderFields)
  BY TableAssumption
<1>2. CASE v =< Len(Static)
  <2>1. v \in 1 .. Len(Static)
    BY <1>1, <1>2
  <2>2. ~Static[v].sensitive /\ Static[v] \in HeaderFields
    BY <1>1, <2>1, TableAssumption
  <2>3. Static[v].sensitive \in BOOLEAN
    BY <2>2, FieldFacts
  <2> QED
    BY <1>2, <2>2, <2>3 DEF Entry
<1>3. CASE ~ (v =< Len(Static))
  <2>1. PICK i : i = Len(e) - (v - Len(Static)) + 1
    OBVIOUS
  <2>2. i \in 1 .. Len(e)
    BY <1>1, <1>3, <2>1
  <2> QED
    BY <1>3, <2>1, <2>2 DEF Entry, Public
<1> QED
  BY <1>2, <1>3

LEMMA FittingPublic ==
    ASSUME NEW e \in Seq(HeaderFields), Public(e), NEW max \in Nat
    PROVE  Public(Fitting(e, max))
<1>1. PICK n, f : n = FitsFrom(e, max) /\ f = Fitting(e, max)
  OBVIOUS
<1>2. /\ n \in 0 .. Len(e) /\ Len(f) = Len(e) - n /\ \A i \in 1 .. Len(f) : f[i] = e[n + i]
  BY <1>1, FittingIs
<1>3. \A i \in 1 .. Len(f) : n + i \in 1 .. Len(e)
  BY <1>2
<1> QED
  BY <1>1, <1>2, <1>3 DEF Public

\* An instruction for the field h whose name has the index v, 0 for none
LEMMA LiteralMeant ==
    ASSUME NEW k \in {"incremental", "never", "literal"}, NEW v \in Nat,
           v < Weight(MaxGroups - 1), NEW h \in HeaderFields, NEW e,
           v # 0 => Entry(e, v).name = h.name, h.sensitive = (k = "never")
    PROVE  LET i == encodeLiteral(Flag[k], Prefix[k], v, h)
           IN  IsInstruction(i, k, v) /\ Meant(i, k, v, e) = h
<1>1. PICK z, i : z = LiteralStrings(v, h) /\ i = encodeLiteral(Flag[k], Prefix[k], v, h)
  OBVIOUS
<1>2. i = Instruction(Flag[k], Prefix[k], v, z)
  BY <1>1, Zenon DEF encodeLiteral
<1>3. k \in Kinds /\ k \notin {"indexed", "update"} /\ \E g \in HeaderFields : z = LiteralStrings(v, g)
  BY <1>1 DEF Kinds
<1>4. IsInstruction(i, k, v) /\ i.strings = z
  BY <1>2, <1>3, Instructions
<1>5. Meant(i, k, v, e) = [name |-> IF v = 0 THEN z[1] ELSE Entry(e, v).name,
                           value |-> z[Len(z)], sensitive |-> k = "never"]
  BY <1>3, <1>4, Zenon DEF Meant
<1>6. z[Len(z)] = h.value /\ (v = 0 => z[1] = h.name)
  <2>1. CASE v = 0
    BY <1>1, <2>1 DEF LiteralStrings
  <2>2. CASE v # 0
    BY <1>1, <2>2 DEF LiteralStrings
  <2> QED
    BY <2>1, <2>2
<1>7. (IF v = 0 THEN z[1] ELSE Entry(e, v).name) = h.name
  BY <1>6
<1>8. h = [name |-> h.name, value |-> h.value, sensitive |-> h.sensitive]
  BY FieldFacts
<1>9. Meant(i, k, v, e) = h
  BY <1>5, <1>6, <1>7, <1>8, Zenon
<1> QED
  BY <1>1, <1>4, <1>9, Zenon

LEMMA IndexedMeant ==
    ASSUME NEW v \in Nat, v < Weight(MaxGroups - 1), NEW h \in HeaderFields, h.sensitive = FALSE,
           NEW e, Entry(e, v) \in HeaderFields, Entry(e, v).sensitive = FALSE,
           Pair(Entry(e, v)) = Pair(h)
    PROVE  LET i == encodeIndexedHeader(v)
           IN  IsInstruction(i, "indexed", v) /\ Meant(i, "indexed", v, e) = h
<1>1. PICK i, g : i = encodeIndexedHeader(v) /\ g = Entry(e, v)
  OBVIOUS
<1>2. i = Instruction(Flag["indexed"], Prefix["indexed"], v, <<>>) /\ "indexed" \in Kinds
  BY <1>1, PrefixOf DEF encodeIndexedHeader, Kinds
<1>3. IsInstruction(i, "indexed", v)
  BY <1>2, Instructions
<1>4. g.name = h.name /\ g.value = h.value
  BY <1>1 DEF Pair
<1>5. /\ h = [name |-> h.name, value |-> h.value, sensitive |-> h.sensitive]
      /\ g = [name |-> g.name, value |-> g.value, sensitive |-> g.sensitive]
  BY <1>1, FieldFacts
<1>6. g = h
  BY <1>1, <1>4, <1>5
<1>7. Meant(i, "indexed", v, e) = g
  BY <1>1 DEF Meant
<1> QED
  BY <1>1, <1>3, <1>6, <1>7

\* What encodeHeader adds to the block stands for the field.
Writes(s, u, h, i, k, v) ==
    /\ IsInstruction(i, k, v) /\ k # "update" /\ Known(k, v, Len(s.table.entries))
    /\ Meant(i, k, v, s.table.entries) = h /\ (k = "incremental" => h.sensitive = FALSE)
    /\ u = [table |-> IF k = "incremental" THEN insert(s.table, h) ELSE s.table,
            block |-> Append(s.block, i)]

LEMMA Written ==
    ASSUME NEW s, NEW q, NEW m, Writing(s, q, m), NEW h \in HeaderFields,
           s.table.nextId =< MaxId
    PROVE  \E i, k, v : Writes(s, encodeHeader(s, h), h, i, k, v)
<1>1. PICK t, e, f, v, u : /\ t = s.table /\ e = t.entries /\ f = find(t, h) /\ v = f.index
                           /\ u = encodeHeader(s, h)
  OBVIOUS
<1>2. /\ IsTable(t) /\ TableSound(t) /\ e \in Seq(HeaderFields) /\ Public(e)
      /\ s = [table |-> s.table, block |-> s.block]
      /\ t.nextId \in Nat /\ Len(e) < t.nextId
  BY <1>1 DEF Writing, IsTable, TableSound
<1>3. /\ v \in 0 .. Len(Static) + Len(e)
      /\ f.exact => h.sensitive = FALSE /\ v # 0 /\ Pair(Entry(e, v)) = Pair(h)
      /\ ~f.exact /\ v # 0 => Entry(e, v).name = h.name
  BY <1>1, <1>2, FindSound
<1>4. v \in Nat /\ v < Weight(MaxGroups - 1)
  <2>1. Len(Static) + MaxId < Weight(MaxGroups - 1)
    BY GroupsAssumption
  <2>2. PICK a, b, c, d : /\ a = Len(Static) /\ b = Len(e) /\ c = Weight(MaxGroups - 1)
                          /\ d = t.nextId
    OBVIOUS
  <2>3. /\ a \in Nat /\ b \in Nat /\ MaxId \in Nat /\ MaxGroups - 1 \in Nat
    BY <1>2, <2>2, TableAssumption, HpackAssumption
  <2>4. c \in Nat
    BY <2>2, <2>3, WeightTyped
  <2>5. d \in Nat /\ b < d /\ d =< MaxId /\ v \in 0 .. a + b /\ a + MaxId < c
    BY <1>1, <1>2, <1>3, <2>1, <2>2
  <2>6. v \in Nat /\ v < c
    BY <2>3, <2>4, <2>5
  <2> QED
    BY <2>2, <2>6
<1>5. v # 0 => v \in 1 .. Len(Static) + Len(e)
  BY <1>3
<1>6. h.sensitive \in BOOLEAN
  BY FieldFacts
<1> DEFINE Out(i) == [s EXCEPT !.block = Append(@, i)]
<1>7. u = IF h.sensitive THEN Out(encodeLiteral(16, 4, v, h))
          ELSE IF f.exact THEN Out(encodeIndexedHeader(v))
          ELSE IF couldIndex(t, h)
          THEN [Out(encodeLiteral(64, 6, v, h)) EXCEPT !.table = insert(@, h)]
          ELSE Out(encodeLiteral(0, 4, v, h))
  BY <1>1, Zenon DEF encodeHeader
<1>8. \A i : Out(i) = [table |-> t, block |-> Append(s.block, i)]
  <2>1. PICK b : s = [table |-> t, block |-> b]
    BY <1>1, <1>2
  <2> QED
    BY <2>1, SMTT(40)
<1>9. \A i : [Out(i) EXCEPT !.table = insert(@, h)] = [table |-> insert(t, h), block |-> Append(s.block, i)]
  <2> SUFFICES ASSUME NEW i
               PROVE  [Out(i) EXCEPT !.table = insert(@, h)]
                          = [table |-> insert(t, h), block |-> Append(s.block, i)]
    OBVIOUS
  <2>1. PICK o, b : o = Out(i) /\ b = Append(s.block, i)
    OBVIOUS
  <2>2. o = [table |-> t, block |-> b]
    BY <1>8, <2>1
  <2>3. [o EXCEPT !.table = insert(@, h)] = [table |-> insert(t, h), block |-> b]
    BY <2>2
  <2> HIDE DEF Out
  <2> QED
    BY <2>1, <2>3
<1> HIDE DEF Out
<1>10. CASE h.sensitive = TRUE
  <2>1. PICK i : i = encodeLiteral(16, 4, v, h)
    OBVIOUS
  <2>2. "never" \in {"incremental", "never", "literal"} /\ h.sensitive = ("never" = "never")
    BY <1>10
  <2>3. ~f.exact
    BY <1>3, <1>10
  <2>4. IsInstruction(i, "never", v) /\ Meant(i, "never", v, e) = h
    BY <1>3, <1>4, <2>1, <2>2, <2>3, LiteralMeant, PrefixOf
  <2>5. u = [table |-> t, block |-> Append(s.block, i)]
    BY <1>7, <1>8, <1>10, <2>1
  <2>6. Known("never", v, Len(e))
    BY <1>5 DEF Known
  <2>7. Writes(s, u, h, i, "never", v)
    BY <1>1, <2>4, <2>5, <2>6 DEF Writes
  <2> QED
    BY <1>1, <2>7
<1>11. CASE h.sensitive = FALSE /\ f.exact
  <2>1. PICK i : i = encodeIndexedHeader(v)
    OBVIOUS
  <2>2. Entry(e, v).sensitive = FALSE /\ Entry(e, v) \in HeaderFields
    BY <1>2, <1>3, <1>5, <1>11, EntryPublic
  <2>3. IsInstruction(i, "indexed", v) /\ Meant(i, "indexed", v, e) = h
    BY <1>3, <1>4, <1>11, <2>1, <2>2, IndexedMeant
  <2>4. u = [table |-> t, block |-> Append(s.block, i)]
    BY <1>7, <1>8, <1>11, <2>1
  <2>5. Known("indexed", v, Len(e))
    BY <1>3, <1>5, <1>11 DEF Known
  <2>6. Writes(s, u, h, i, "indexed", v)
    BY <1>1, <2>3, <2>4, <2>5 DEF Writes
  <2> QED
    BY <1>1, <2>6
<1>12. CASE h.sensitive = FALSE /\ ~f.exact /\ couldIndex(t, h)
  <2>1. PICK i : i = encodeLiteral(64, 6, v, h)
    OBVIOUS
  <2>2. "incremental" \in {"incremental", "never", "literal"} /\ h.sensitive = ("incremental" = "never")
    BY <1>12
  <2>4. IsInstruction(i, "incremental", v) /\ Meant(i, "incremental", v, e) = h
    BY <1>3, <1>4, <1>12, <2>1, <2>2, LiteralMeant, PrefixOf
  <2>5. u = [table |-> insert(t, h), block |-> Append(s.block, i)]
    BY <1>7, <1>9, <1>12, <2>1
  <2>6. Known("incremental", v, Len(e))
    BY <1>5 DEF Known
  <2>7. Writes(s, u, h, i, "incremental", v)
    BY <1>1, <1>12, <2>4, <2>5, <2>6 DEF Writes
  <2> QED
    BY <1>1, <2>7
<1>13. CASE h.sensitive = FALSE /\ ~f.exact /\ ~couldIndex(t, h)
  <2>1. PICK i : i = encodeLiteral(0, 4, v, h)
    OBVIOUS
  <2>2. "literal" \in {"incremental", "never", "literal"} /\ h.sensitive = ("literal" = "never")
    BY <1>13
  <2>4. IsInstruction(i, "literal", v) /\ Meant(i, "literal", v, e) = h
    BY <1>3, <1>4, <1>13, <2>1, <2>2, LiteralMeant, PrefixOf
  <2>5. u = [table |-> t, block |-> Append(s.block, i)]
    BY <1>7, <1>8, <1>13, <2>1
  <2>6. Known("literal", v, Len(e))
    BY <1>5 DEF Known
  <2>7. Writes(s, u, h, i, "literal", v)
    BY <1>1, <2>4, <2>5, <2>6 DEF Writes
  <2> QED
    BY <1>1, <2>7
<1> QED
  BY <1>6, <1>10, <1>11, <1>12, <1>13

\* The peer reads the field, and both tables stay the same.
LEMMA WritingStep ==
    ASSUME NEW s, NEW q, NEW m, Writing(s, q, m), NEW h \in HeaderFields,
           s.table.nextId =< MaxId
    PROVE  LET u == encodeHeader(s, h)
           IN  \E i \in Octets :
                  /\ u.block = Append(s.block, i) /\ Writing(u, PeerReads(q, i), m)
                  /\ PeerReads(q, i).headers = Append(q.headers, h)
                  /\ u.table.nextId =< s.table.nextId + 1
<1>1. PICK u : u = encodeHeader(s, h)
  OBVIOUS
<1>2. PICK i, k, v : Writes(s, u, h, i, k, v)
  BY <1>1, Written
<1>3. PICK t, e, b, r : /\ t = s.table /\ e = t.entries /\ b = Append(s.block, i)
                        /\ r = PeerReads(q, i)
  OBVIOUS
<1>4. /\ IsInstruction(i, k, v) /\ k # "update" /\ Known(k, v, Len(e)) /\ Meant(i, k, v, e) = h
      /\ k = "incremental" => h.sensitive = FALSE
      /\ u = [table |-> IF k = "incremental" THEN insert(t, h) ELSE t, block |-> b]
  BY <1>2, <1>3, Zenon DEF Writes
<1>5. /\ s.block \in Seq(Octets) /\ IsTable(t) /\ TableSound(t) /\ t.max = m /\ Public(e)
      /\ DOMAIN q = PeerMembers /\ q.ok = TRUE /\ q.limit = m /\ q.max = m
      /\ q.low \in Nat /\ q.due \in Nat /\ q.low =< q.due
      /\ ShowsAll(q.table, e) /\ q.headers \in Seq(HeaderFields)
  BY <1>3 DEF Writing
<1>6. /\ Shows(q.table, e) /\ Len(q.table) = Len(e) /\ e \in Seq(HeaderFields) /\ m \in Nat
      /\ t.nextId \in Nat
  BY <1>3, <1>5 DEF ShowsAll, IsTable
<1>7. i \in Octets
  <2>1. /\ i = [octets |-> i.octets, strings |-> i.strings] /\ i.strings \in Seq(DOMAIN Length)
        /\ Means(i, k, v)
    BY <1>4 DEF IsInstruction
  <2>2. i.octets \in Seq(Nat)
    BY <2>1, Zenon DEF Means, IsCode
  <2> QED
    BY <2>1, <2>2 DEF Octets
<1>8. b \in Seq(Octets)
  BY <1>3, <1>5, <1>7
<1>9. PeerLeaves(r, q, k, v, h)
  BY <1>3, <1>4, <1>5, <1>6, PeerStep
<1>10. /\ DOMAIN r = PeerMembers /\ r.limit = q.limit /\ r.due = q.due
       /\ r.ok = TRUE /\ r.headers = Append(q.headers, h) /\ r.max = q.max /\ r.low = q.low
       /\ r.table = IF k = "incremental" THEN Trim(<<h>> \o q.table, q.max) ELSE q.table
  <2> DEFINE late == q.low > q.due \/ q.max > q.limit
             known == Known(k, v, Len(q.table))
  <2>1. ~late
    BY <1>5, <1>6
  <2>2. known
    BY <1>4, <1>6
  <2> QED
    BY <1>4, <1>9, <2>1, <2>2, Zenon DEF PeerLeaves
<1>11. Append(q.headers, h) \in Seq(HeaderFields)
  BY <1>5
<1>12. /\ IsTable(u.table) /\ TableSound(u.table) /\ u.table.max = m
       /\ Public(u.table.entries) /\ u.table.nextId =< t.nextId + 1
       /\ ShowsAll(r.table, u.table.entries)
  <2>1. CASE k = "incremental"
    <3>1. PICK w, d : w = insert(t, h) /\ d = Append(e, h)
      OBVIOUS
    <3>2. u.table = w
      BY <1>4, <2>1, <3>1
    <3>3. /\ IsTable(w) /\ TableSound(w) /\ w.max = m /\ w.nextId = t.nextId + 1
          /\ w.entries = Fitting(d, m)
      BY <1>3, <1>5, <3>1, InsertSound
    <3>4. d \in Seq(HeaderFields) /\ Public(d)
      <4>1. /\ d \in Seq(HeaderFields) /\ Len(d) = Len(e) + 1 /\ Len(e) \in Nat
            /\ d[Len(e) + 1] = h /\ \A j \in 1 .. Len(e) : d[j] = e[j]
        BY <1>6, <3>1
      <4>2. \A j \in 1 .. Len(d) : j \in 1 .. Len(e) \/ j = Len(e) + 1
        BY <4>1
      <4> QED
        BY <1>4, <1>5, <2>1, <4>1, <4>2 DEF Public
    <3>5. Public(w.entries)
      BY <1>6, <3>3, <3>4, FittingPublic
    <3>6. PICK pt : pt = <<h>> \o q.table
      OBVIOUS
    <3>7. ShowsAll(pt, d) /\ Shows(pt, d) /\ m =< m
      BY <1>5, <1>6, <3>1, <3>6, PushShows DEF ShowsAll
    <3>8. ShowsAll(Trim(pt, m), Fitting(d, m))
      BY <1>6, <3>7, TrimShows
    <3>9. r.table = Trim(pt, m)
      BY <1>5, <1>10, <2>1, <3>6
    <3>10. w.nextId =< t.nextId + 1
      BY <1>6, <3>3
    <3> QED
      BY <3>2, <3>3, <3>5, <3>8, <3>9, <3>10
  <2>2. CASE k # "incremental"
    <3>1. u.table = t /\ r.table = q.table
      BY <1>4, <1>10, <2>2
    <3>2. t.nextId =< t.nextId + 1
      BY <1>6
    <3> QED
      BY <1>3, <1>5, <3>1, <3>2
  <2> QED
    BY <2>1, <2>2
<1>13. u = [table |-> u.table, block |-> u.block] /\ u.block = b
  BY <1>4
<1>14. Writing(u, r, m)
  BY <1>5, <1>8, <1>10, <1>11, <1>12, <1>13 DEF Writing
<1> QED
  BY <1>1, <1>3, <1>7, <1>10, <1>12, <1>13, <1>14, Zenon

\* A size update
LEMMA UpdateRead ==
    ASSUME NEW q, DOMAIN q = PeerMembers, q.ok = TRUE, q.headers = <<>>,
           q.table \in Seq(HeaderFields), NEW v \in Nat, v < Weight(MaxGroups - 1),
           ~ (v > q.limit)
    PROVE  LET i == encodeTableSizeUpdate(v)
               r == PeerReads(q, i)
           IN  /\ i \in Octets /\ DOMAIN r = PeerMembers /\ r.limit = q.limit /\ r.due = q.due
               /\ r.ok = TRUE /\ r.max = v /\ r.low = Min({q.low, v})
               /\ r.table = Trim(q.table, v) /\ r.headers = <<>>
<1>1. PICK i, r, k : i = encodeTableSizeUpdate(v) /\ r = PeerReads(q, i) /\ k = "update"
  OBVIOUS
<1>2. i = Instruction(Flag[k], Prefix[k], v, <<>>) /\ k \in Kinds
  BY <1>1, PrefixOf DEF encodeTableSizeUpdate, Kinds
<1>3. IsInstruction(i, k, v)
  BY <1>1, <1>2, Instructions
<1>4. i \in Octets
  <2>1. /\ i = [octets |-> i.octets, strings |-> i.strings] /\ i.strings \in Seq(DOMAIN Length)
        /\ Means(i, k, v)
    BY <1>3 DEF IsInstruction
  <2>2. i.octets \in Seq(Nat)
    BY <2>1, Zenon DEF Means, IsCode
  <2> QED
    BY <2>1, <2>2 DEF Octets
<1>5. PICK pt, e : pt = q.table /\ e = [j \in 1 .. Len(pt) |-> pt[Len(pt) - j + 1]]
  OBVIOUS
<1>6. Shows(pt, e)
  <2>1. pt \in Seq(HeaderFields) /\ Len(pt) \in Nat
    BY <1>5
  <2>2. \A j \in 1 .. Len(pt) : Len(pt) - j + 1 \in 1 .. Len(pt) /\ pt[Len(pt) - j + 1] \in HeaderFields
    BY <2>1
  <2>3. e \in Seq(HeaderFields) /\ Len(e) = Len(pt)
    BY <1>5, <2>1, <2>2
  <2>4. ASSUME NEW j \in 1 .. Len(pt) PROVE pt[j] = e[Len(e) - j + 1]
    <3>1. PICK l : l = Len(pt) - j + 1
      OBVIOUS
    <3>2. l \in 1 .. Len(pt) /\ Len(pt) - l + 1 = j
      BY <2>1, <3>1
    <3> QED
      BY <1>5, <2>3, <3>1, <3>2
  <2> QED
    BY <2>1, <2>3, <2>4 DEF Shows
<1>7. PeerLeaves(r, q, k, v, Meant(i, k, v, e))
  BY <1>1, <1>3, <1>5, <1>6, PeerStep
<1>8. /\ DOMAIN r = PeerMembers /\ r.limit = q.limit /\ r.due = q.due
      /\ r.ok = TRUE /\ r.max = v /\ r.low = Min({q.low, v})
      /\ r.table = Trim(q.table, v) /\ r.headers = q.headers
  <2> DEFINE over == q.headers # <<>> \/ v > q.limit
  <2>1. ~over
    OBVIOUS
  <2> QED
    BY <1>1, <1>7, <2>1, Zenon DEF PeerLeaves
<1> QED
  BY <1>1, <1>4, <1>8, Zenon

\* Between two blocks: a table that has been resized is ahead of the peer's
\* by a cut to the smallest size set since, which the peer insists on.
Encoding ==
    /\ Public(encodeTable.entries) /\ encodeTableDirty \in BOOLEAN /\ encodeMinSize \in Nat
    /\ encodeTable.max < Weight(MaxGroups - 1)
    /\ DOMAIN peer = PeerMembers /\ peer.limit = encodeTable.max /\ peer.ok = TRUE
    /\ peer.headers = <<>> /\ peer.max \in Nat /\ peer.table \in Seq(HeaderFields)
    /\ encodeTableDirty = FALSE =>
          /\ peer.max = encodeTable.max /\ peer.due = peer.max /\ encodeMinSize = NoMin
          /\ ShowsAll(peer.table, encodeTable.entries)
    /\ encodeTableDirty = TRUE =>
          /\ encodeMinSize =< encodeTable.max /\ peer.due = Min({peer.max, encodeMinSize})
          /\ ShowsAll(Trim(peer.table, encodeMinSize), encodeTable.entries)

\* The smaller of two sizes
LEMMA MinOfTwo ==
    ASSUME NEW a \in Nat, NEW b \in Nat
    PROVE  Min({a, b}) \in {a, b} /\ Min({a, b}) =< a /\ Min({a, b}) =< b /\ Min({a, b}) \in Nat
<1>1. {a, b} \in SUBSET Nat /\ {a, b} # {}
  OBVIOUS
<1>2. Min({a, b}) \in {a, b} /\ \A y \in {a, b} : Min({a, b}) =< y
  BY <1>1, MinIs
<1> QED
  BY <1>2

\* The size updates leave the peer with the same table and nothing due.
LEMMA WritingStart ==
    ASSUME IsTable(encodeTable), TableSound(encodeTable), Encoding
    PROVE  LET s == [table |-> encodeTable, block |-> sizeUpdates]
               q == PeerBlock(peer, sizeUpdates)
           IN  Writing(s, q, encodeTable.max) /\ q.headers = <<>>
<1>1. PICK m, a, e, pt, p0 : /\ m = encodeTable.max /\ a = encodeMinSize /\ e = encodeTable.entries
                             /\ pt = peer.table /\ p0 = PeerBlock(peer, <<>>)
  OBVIOUS
<1>2. /\ m \in Nat /\ a \in Nat /\ e \in Seq(HeaderFields) /\ pt \in Seq(HeaderFields)
      /\ m < Weight(MaxGroups - 1) /\ encodeTableDirty \in BOOLEAN /\ Public(e)
      /\ DOMAIN peer = PeerMembers /\ peer.limit = m /\ peer.ok = TRUE /\ peer.headers = <<>>
      /\ peer.max \in Nat
  BY <1>1 DEF Encoding, IsTable
<1>3. /\ DOMAIN p0 = PeerMembers /\ p0.low = peer.max /\ p0.table = pt /\ p0.max = peer.max
      /\ p0.limit = m /\ p0.due = peer.due /\ p0.ok = TRUE /\ p0.headers = <<>>
  <2>1. p0 = [peer EXCEPT !.low = peer.max]
    BY <1>1, PeerEmpty
  <2> QED
    BY <1>1, <1>2, <2>1 DEF PeerMembers
<1>4. ASSUME NEW b \in Seq(Octets), NEW q, b = sizeUpdates, q = PeerBlock(peer, b),
             DOMAIN q = PeerMembers, q.ok = TRUE, q.limit = m, q.max = m,
             q.low \in Nat, q.due \in Nat, q.low =< q.due,
             ShowsAll(q.table, e), q.headers = <<>>
      PROVE  LET s == [table |-> encodeTable, block |-> sizeUpdates]
                 r == PeerBlock(peer, sizeUpdates)
             IN  Writing(s, r, encodeTable.max) /\ r.headers = <<>>
  <2>1. PICK s : s = [table |-> encodeTable, block |-> b]
    OBVIOUS
  <2>2. s.table = encodeTable /\ s.block = b
    BY <2>1
  <2>3. <<>> \in Seq(HeaderFields)
    OBVIOUS
  <2>4. s = [table |-> s.table, block |-> s.block]
    BY <2>1, <2>2
  <2>5. q.headers \in Seq(HeaderFields)
    BY <1>4, <2>3
  <2>6. Writing(s, q, m)
    BY <1>1, <1>2, <1>4, <2>2, <2>4, <2>5, Zenon DEF Writing
  <2> QED
    BY <1>1, <1>4, <2>1, <2>6, Zenon
<1>5. CASE encodeTableDirty = FALSE
  <2>1. sizeUpdates = <<>> /\ <<>> \in Seq(Octets)
    BY <1>5 DEF sizeUpdates
  <2>2. peer.max = m /\ peer.due = m /\ ShowsAll(pt, e)
    BY <1>1, <1>5 DEF Encoding
  <2>3. p0.low \in Nat /\ p0.due \in Nat /\ p0.low =< p0.due /\ p0.max = m /\ ShowsAll(p0.table, e)
    BY <1>2, <1>3, <2>2
  <2> QED
    BY <1>1, <1>3, <1>4, <2>1, <2>3
<1>6. CASE encodeTableDirty = TRUE
  <2>1. a =< m /\ peer.due = Min({peer.max, a}) /\ ShowsAll(Trim(pt, a), e)
    BY <1>1, <1>6 DEF Encoding
  <2>2. a < Weight(MaxGroups - 1)
    <3>1. MaxGroups - 1 \in Nat
      BY HpackAssumption
    <3>2. Weight(MaxGroups - 1) \in Nat
      BY <3>1, WeightTyped
    <3>3. PICK w \in Nat : w = Weight(MaxGroups - 1)
      BY <3>2
    <3> QED
      BY <1>2, <2>1, <3>3
  <2>3. PICK low : low = Min({peer.max, a})
    OBVIOUS
  <2>4. low \in Nat /\ low =< a
    BY <1>2, <2>3, MinOfTwo
  <2>5. CASE a < m
    <3>1. PICK i, j, q, r : /\ i = encodeTableSizeUpdate(a) /\ j = encodeTableSizeUpdate(m)
                            /\ q = PeerReads(p0, i) /\ r = PeerReads(q, j)
      OBVIOUS
    <3>2. ~ (a > p0.limit)
      BY <1>2, <1>3, <2>1
    <3>3. /\ i \in Octets /\ DOMAIN q = PeerMembers /\ q.limit = p0.limit /\ q.due = p0.due
          /\ q.ok = TRUE /\ q.max = a /\ q.low = Min({p0.low, a})
          /\ q.table = Trim(p0.table, a) /\ q.headers = <<>>
      BY <1>2, <1>3, <2>2, <3>1, <3>2, UpdateRead, ZenonT(40)
    <3>4. q.table \in Seq(HeaderFields) /\ ~ (m > q.limit)
      BY <1>2, <1>3, <3>3, TrimIs
    <3>5. /\ j \in Octets /\ DOMAIN r = PeerMembers /\ r.limit = q.limit /\ r.due = q.due
          /\ r.ok = TRUE /\ r.max = m /\ r.low = Min({q.low, m})
          /\ r.table = Trim(q.table, m) /\ r.headers = <<>>
      <4>1. m \in Nat /\ m < Weight(MaxGroups - 1)
        BY <1>2
      <4>2. /\ DOMAIN q = PeerMembers /\ q.ok = TRUE /\ q.headers = <<>>
            /\ j = encodeTableSizeUpdate(m) /\ r = PeerReads(q, encodeTableSizeUpdate(m))
        BY <3>1, <3>3
      <4> QED
        BY <3>4, <4>1, <4>2, UpdateRead
    <3>6. PICK b, c : b = Append(<<>>, i) /\ c = Append(b, j)
      OBVIOUS
    <3>7. <<>> \in Seq(Octets) /\ b \in Seq(Octets) /\ c \in Seq(Octets)
      BY <3>3, <3>5, <3>6
    <3>8. PeerBlock(peer, b) = q
      <4>1. i \in Octets /\ <<>> \in Seq(Octets)
        BY <3>3, <3>7
      <4>2. PeerBlock(peer, Append(<<>>, i)) = PeerReads(PeerBlock(peer, <<>>), i)
        BY <4>1, PeerAppend
      <4> QED
        BY <1>1, <3>1, <3>6, <4>2
    <3>9. PeerBlock(peer, c) = r
      <4>1. j \in Octets /\ b \in Seq(Octets)
        BY <3>5, <3>7
      <4>2. PeerBlock(peer, Append(b, j)) = PeerReads(PeerBlock(peer, b), j)
        BY <4>1, PeerAppend
      <4> QED
        BY <3>1, <3>6, <3>8, <4>2
    <3>10. sizeUpdates = <<i>> \o <<j>>
      BY <1>1, <1>6, <2>5, <3>1 DEF sizeUpdates
    <3>11. c = sizeUpdates
      BY <3>3, <3>5, <3>6, <3>7, <3>10
    <3>12. r.low \in Nat /\ r.due \in Nat /\ r.low =< r.due
      <4>1. r.low = Min({low, m}) /\ r.due = low
        BY <1>3, <2>1, <2>3, <3>3, <3>5
      <4>2. Min({low, m}) =< low /\ Min({low, m}) \in Nat
        BY <1>2, <2>4, MinOfTwo
      <4> QED
        BY <2>4, <4>1, <4>2
    <3>13. r.table = Trim(pt, a)
      <4>1. Trim(Trim(pt, a), m) = Trim(pt, a)
        BY <1>2, <2>1, TrimTwice
      <4> QED
        BY <1>3, <3>3, <3>5, <4>1
    <3>14. r.limit = m /\ ShowsAll(r.table, e)
      BY <1>3, <2>1, <3>3, <3>5, <3>13
    <3> QED
      BY <1>4, <3>5, <3>7, <3>9, <3>11, <3>12, <3>14
  <2>6. CASE ~ (a < m)
    <3>1. PICK j, r : j = encodeTableSizeUpdate(m) /\ r = PeerReads(p0, j)
      OBVIOUS
    <3>2. ~ (m > p0.limit) /\ a = m
      BY <1>2, <1>3, <2>1, <2>6
    <3>3. /\ j \in Octets /\ DOMAIN r = PeerMembers /\ r.limit = p0.limit /\ r.due = p0.due
          /\ r.ok = TRUE /\ r.max = m /\ r.low = Min({p0.low, m})
          /\ r.table = Trim(p0.table, m) /\ r.headers = <<>>
      BY <1>2, <1>3, <3>1, <3>2, UpdateRead, ZenonT(40)
    <3>4. PICK b : b = Append(<<>>, j)
      OBVIOUS
    <3>5. <<>> \in Seq(Octets) /\ b \in Seq(Octets)
      BY <3>3, <3>4
    <3>6. PeerBlock(peer, b) = r
      BY <1>1, <3>1, <3>3, <3>4, <3>5, PeerAppend
    <3>7. sizeUpdates = <<>> \o <<j>>
      BY <1>1, <1>6, <2>6, <3>1 DEF sizeUpdates
    <3>8. b = sizeUpdates
      BY <3>3, <3>4, <3>5, <3>7
    <3>9. r.low = low /\ r.due = low
      BY <1>3, <2>1, <2>3, <3>2, <3>3
    <3>10. r.low \in Nat /\ r.due \in Nat /\ r.low =< r.due /\ r.limit = m /\ ShowsAll(r.table, e)
      BY <1>3, <2>1, <2>4, <3>2, <3>3, <3>9
    <3> QED
      BY <1>4, <3>3, <3>5, <3>6, <3>8, <3>10
  <2> QED
    BY <2>5, <2>6
<1> QED
  BY <1>2, <1>5, <1>6

\* A block: the peer has read the headers.
LEMMA WritingBlock ==
    ASSUME NEW headers \in Blocks(Fields), IsTable(encodeTable), TableSound(encodeTable),
           Encoding, encodeTable.nextId + Len(headers) =< MaxId
    PROVE  LET s == Encoded(headers)
               q == PeerBlock(peer, s.block)
           IN  Writing(s, q, encodeTable.max) /\ q.headers = headers
<1>1. PICK n \in 1 .. MaxFields : headers \in [1 .. n -> Fields]
  BY DEF Blocks
<1>2. /\ n \in Nat /\ Len(headers) = n /\ Len(headers) \in Nat
      /\ \A i \in 1 .. n : headers[i] \in HeaderFields
  BY <1>1, HpackAssumption
<1>3. headers \in Seq(HeaderFields)
  BY <1>1, <1>2
<1>4. PICK init : init = [table |-> encodeTable, block |-> sizeUpdates]
  OBVIOUS
<1>5. PICK s : /\ s[0] = init
               /\ \A i \in 1 .. Len(headers) : s[i] = encodeHeader(s[i - 1], headers[i])
               /\ Encoded(headers) = s[Len(headers)]
  BY <1>2, <1>4, EncodeRun, Zenon
<1>6. PICK m, id : m = encodeTable.max /\ id = encodeTable.nextId
  OBVIOUS
<1>7. id \in Nat /\ id + n =< MaxId /\ MaxId \in Nat
  BY <1>2, <1>6, HpackAssumption DEF IsTable
<1> DEFINE Q(j) == PeerBlock(peer, s[j].block)
           Good(j) == /\ Writing(s[j], Q(j), m) /\ s[j].table.nextId =< id + j
                      /\ Len(Q(j).headers) = j /\ \A i \in 1 .. j : Q(j).headers[i] = headers[i]
           S == {j \in 0 .. n : Good(j)}
<1>8. 0 \in S
  <2>1. PICK q : q = PeerBlock(peer, sizeUpdates)
    OBVIOUS
  <2>2. Writing(init, q, m) /\ q.headers = <<>>
    BY <1>4, <1>6, <2>1, WritingStart
  <2>3. init.table = encodeTable /\ init.block = sizeUpdates
    BY <1>4
  <2>4. s[0] = init /\ Q(0) = q
    BY <1>5, <2>1, <2>3
  <2>5. s[0].table.nextId =< id + 0
    BY <1>6, <1>7, <2>3, <2>4
  <2>6. Len(q.headers) = 0 /\ \A i \in 1 .. 0 : q.headers[i] = headers[i]
    BY <2>2
  <2> HIDE DEF Q
  <2>7. Good(0)
    BY <2>2, <2>4, <2>5, <2>6
  <2> HIDE DEF Good
  <2> QED
    BY <1>2, <2>7
<1>9. ASSUME NEW j \in 0 .. n, j # n, j \in S PROVE j + 1 \in S
  <2>1. PICK l : l = j + 1
    OBVIOUS
  <2>2. l \in 1 .. n /\ l - 1 = j /\ l \in 1 .. Len(headers) /\ j \in Nat /\ l \in 0 .. n
    BY <1>2, <1>9, <2>1
  <2>3. PICK a, h, q, u : a = s[j] /\ h = headers[l] /\ q = Q(j) /\ u = s[l]
    OBVIOUS
  <2>4. /\ Writing(a, q, m) /\ a.table.nextId =< id + j
        /\ Len(q.headers) = j /\ \A i \in 1 .. j : q.headers[i] = headers[i]
    <3>1. Good(j)
      BY <1>9
    <3> HIDE DEF Q
    <3> QED
      BY <2>3, <3>1
  <2>5. u = encodeHeader(a, h) /\ h \in HeaderFields
    BY <1>2, <1>5, <2>2, <2>3
  <2>6. a.table.nextId \in Nat /\ q.headers \in Seq(HeaderFields) /\ a.block \in Seq(Octets)
    BY <2>4 DEF Writing, IsTable
  <2>7. a.table.nextId =< MaxId
    <3>1. PICK x \in Nat : x = a.table.nextId
      BY <2>6
    <3>2. x =< id + j /\ j =< n
      BY <2>2, <2>4, <3>1
    <3>3. x =< MaxId
      BY <1>2, <1>7, <2>2, <3>2
    <3> QED
      BY <3>1, <3>3
  <2>8. PICK i \in Octets :
            /\ u.block = Append(a.block, i) /\ Writing(u, PeerReads(q, i), m)
            /\ PeerReads(q, i).headers = Append(q.headers, h)
            /\ u.table.nextId =< a.table.nextId + 1
    BY <2>4, <2>5, <2>7, WritingStep
  <2>9. Q(l) = PeerReads(q, i)
    <3>1. PeerBlock(peer, Append(a.block, i)) = PeerReads(PeerBlock(peer, a.block), i)
      BY <2>6, PeerAppend
    <3> QED
      BY <2>3, <2>8, <3>1
  <2>10. PICK r : r = Q(l)
    OBVIOUS
  <2>11. r.headers = Append(q.headers, h) /\ Writing(u, r, m)
    BY <2>8, <2>9, <2>10
  <2>12. /\ Len(r.headers) = l /\ \A y \in 1 .. l : r.headers[y] = headers[y]
    <3>1. PICK g : g = q.headers
      OBVIOUS
    <3>2. /\ g \in Seq(HeaderFields) /\ Len(g) = j /\ r.headers = Append(g, h)
          /\ \A y \in 1 .. j : g[y] = headers[y]
      BY <2>4, <2>6, <2>11, <3>1
    <3>3. /\ Len(Append(g, h)) = j + 1 /\ Append(g, h)[j + 1] = h
          /\ \A y \in 1 .. j : Append(g, h)[y] = g[y]
      BY <2>2, <3>2
    <3>4. \A y \in 1 .. l : y \in 1 .. j \/ y = j + 1
      BY <2>1, <2>2
    <3> QED
      BY <2>1, <2>3, <3>2, <3>3, <3>4
  <2>13. u.table.nextId =< id + l
    <3>1. u.table.nextId \in Nat
      BY <2>11 DEF Writing, IsTable
    <3>2. PICK x \in Nat, y \in Nat : x = a.table.nextId /\ y = u.table.nextId
      BY <2>6, <3>1
    <3>3. x =< id + j /\ y =< x + 1
      BY <2>4, <2>8, <3>2
    <3>4. y =< id + l
      BY <1>7, <2>1, <2>2, <3>3
    <3> QED
      BY <3>2, <3>4
  <2> HIDE DEF Q
  <2>14. Good(l)
    BY <2>3, <2>10, <2>11, <2>12, <2>13
  <2> HIDE DEF Good
  <2> QED
    BY <2>1, <2>2, <2>14
<1>10. n \in S
  <2> HIDE DEF S
  <2>1. n \in 0 .. n
    BY <1>2
  <2>2. \A j \in 0 .. n : j # n /\ j \in S => j + 1 \in S
    BY <1>9
  <2>3. \A j \in 0 .. n : j \in S
    BY <1>2, <1>8, <2>2, LoopInduction, Zenon
  <2> QED
    BY <2>1, <2>3, Zenon
<1>11. PICK a, q : a = s[n] /\ q = Q(n)
  OBVIOUS
<1>12. /\ Writing(a, q, m) /\ Len(q.headers) = n /\ \A i \in 1 .. n : q.headers[i] = headers[i]
  <2>1. Good(n)
    BY <1>10
  <2> HIDE DEF Q
  <2> QED
    BY <1>11, <2>1
<1>13. q.headers = headers
  <2>1. q.headers \in Seq(HeaderFields)
    BY <1>12 DEF Writing
  <2> QED
    BY <1>2, <1>3, <1>12, <2>1, SameSequence
<1>14. Encoded(headers) = a /\ PeerBlock(peer, a.block) = q
  BY <1>2, <1>5, <1>11
<1> QED
  BY <1>6, <1>12, <1>13, <1>14, Zenon
-----------------------------------------------------------------------------
(***************************************************************************)
(* The inductive invariant                                                 *)
(***************************************************************************)

\* Between two blocks of a peer that has followed the RFC so far
Decoding ==
    /\ DOMAIN peer = PeerMembers /\ peer.limit = decodeTableLimit /\ peer.ok = TRUE
    /\ peer.headers = <<>> /\ Alike(decodeTable, peer)

HpackInv ==
    /\ half \in {"encode", "decode"} /\ decodeTableLimit \in Nat
    /\ IsTable(encodeTable) /\ TableSound(encodeTable)
    /\ IsTable(decodeTable) /\ TableSound(decodeTable)
    /\ half = "encode" => Encoding /\ last.accepted = TRUE /\ last.same = TRUE
    /\ half = "decode" /\ last.accepted /\ last.conforming => Decoding
    /\ DecoderConforms

\* The table that is empty
LEMMA EmptySound == IsTable(NoEntries) /\ TableSound(NoEntries)
<1>1. PICK t : t = NoEntries
  OBVIOUS
<1>2. /\ t = [names |-> t.names, pairs |-> t.pairs, entries |-> t.entries,
              nextId |-> t.nextId, bytes |-> t.bytes, max |-> t.max]
      /\ t.names = <<>> /\ t.pairs = <<>> /\ t.entries = <<>> /\ t.nextId = 1
      /\ t.bytes = 0 /\ t.max = InitMaxTableSize
  BY <1>1 DEF NoEntries
<1>3. <<>> \in Seq(HeaderFields) /\ <<>> \in [DOMAIN <<>> -> Nat] /\ DOMAIN <<>> = {} /\ Len(<<>>) = 0
  OBVIOUS
<1>4. IsTable(t)
  BY <1>2, <1>3, TableAssumption DEF IsTable
<1>5. Bytes(t.entries) = 0
  <2>1. BytesUpTo(<<>>, 0) = 0
    BY <1>3, BytesStep
  <2> QED
    BY <1>2, <1>3, <2>1 DEF Bytes
<1>6. /\ Len(Names(t)) = 0 /\ Len(Pairs(t)) = 0
  BY <1>2, <1>3, KeysAre
<1>7. MapSound(t.names, Names(t), oldestId(t)) /\ MapSound(t.pairs, Pairs(t), oldestId(t))
  BY <1>2, <1>3, <1>6 DEF MapSound
<1>8. TableSound(t)
  BY <1>2, <1>3, <1>5, <1>7, TableAssumption DEF TableSound
<1> QED
  BY <1>1, <1>4, <1>8

\* No entries are left of none.
LEMMA NothingFits ==
    ASSUME NEW max \in Nat
    PROVE  Fitting(<<>>, max) = <<>> /\ Trim(<<>>, max) = <<>>
<1>1. <<>> \in Seq(HeaderFields) /\ Len(<<>>) = 0
  OBVIOUS
<1>2. PICK f, r : f = Fitting(<<>>, max) /\ r = Trim(<<>>, max)
  OBVIOUS
<1>3. f \in Seq(HeaderFields) /\ Len(f) = Len(<<>>) - FitsFrom(<<>>, max)
      /\ FitsFrom(<<>>, max) \in 0 .. Len(<<>>)
  BY <1>1, <1>2, FittingIs
<1>4. r \in Seq(HeaderFields) /\ Len(r) \in 0 .. Len(<<>>)
  BY <1>1, <1>2, TrimIs
<1>5. Len(f) = 0 /\ Len(r) = 0
  BY <1>1, <1>3, <1>4
<1> QED
  BY <1>2, <1>3, <1>4, <1>5

LEMMA HpackInit ==
    ASSUME Init
    PROVE  HpackInv
<1>1. PICK n, L : n = InitMaxTableSize /\ L = decodeTableLimit
  OBVIOUS
<1>2. /\ n \in Nat /\ L \in Nat /\ half \in {"encode", "decode"}
      /\ encodeTable = setMaxSize(NoEntries, n) /\ decodeTable = setMaxSize(NoEntries, L)
      /\ encodeTableDirty = TRUE /\ encodeMinSize = n
      /\ peer = NewPeer(IF half = "encode" THEN n ELSE L)
      /\ last = [conforming |-> TRUE, accepted |-> TRUE, same |-> TRUE]
  BY <1>1, HpackAssumption, TableAssumption DEF Init
<1>3. /\ IsTable(encodeTable) /\ TableSound(encodeTable) /\ encodeTable.max = n
      /\ encodeTable.entries = Fitting(NoEntries.entries, n)
      /\ IsTable(decodeTable) /\ TableSound(decodeTable) /\ decodeTable.max = L
      /\ decodeTable.entries = Fitting(NoEntries.entries, L)
  BY <1>2, EmptySound, SetMaxSound
<1>4. NoEntries.entries = <<>>
  BY DEF NoEntries
<1>5. encodeTable.entries = <<>> /\ decodeTable.entries = <<>>
  BY <1>2, <1>3, <1>4, NothingFits
<1>6. PICK a : a = IF half = "encode" THEN n ELSE L
  OBVIOUS
<1>7. /\ DOMAIN peer = PeerMembers /\ peer.table = <<>> /\ peer.max = n /\ peer.limit = a
      /\ peer.due = Min({a, n}) /\ peer.headers = <<>> /\ peer.ok = TRUE
  BY <1>1, <1>2, <1>6 DEF NewPeer, PeerMembers
<1>8. last.accepted = TRUE /\ last.same = TRUE /\ last.conforming = TRUE
  BY <1>2
<1>9. ShowsAll(<<>>, <<>>) /\ <<>> \in Seq(HeaderFields)
  BY DEF ShowsAll, Shows
<1>10. ASSUME half = "encode" PROVE Encoding
  <2>1. a = n /\ n < Weight(MaxGroups - 1)
    BY <1>1, <1>6, <1>10, GroupsAssumption
  <2>2. Trim(<<>>, n) = <<>>
    BY <1>2, NothingFits
  <2>3. Public(<<>>)
    BY DEF Public
  <2>4. /\ Public(encodeTable.entries) /\ encodeTableDirty \in BOOLEAN /\ encodeMinSize \in Nat
        /\ encodeTable.max < Weight(MaxGroups - 1)
    BY <1>2, <1>3, <1>5, <2>1, <2>3
  <2>5. /\ DOMAIN peer = PeerMembers /\ peer.limit = encodeTable.max /\ peer.ok = TRUE
        /\ peer.headers = <<>> /\ peer.max \in Nat /\ peer.table \in Seq(HeaderFields)
    BY <1>2, <1>3, <1>7, <1>9, <2>1
  <2>6. /\ encodeMinSize =< encodeTable.max /\ peer.due = Min({peer.max, encodeMinSize})
        /\ ShowsAll(Trim(peer.table, encodeMinSize), encodeTable.entries)
    <3>1. n =< n /\ peer.due = Min({n, n})
      BY <1>2, <1>7, <2>1
    <3>2. ShowsAll(Trim(<<>>, n), <<>>)
      BY <1>9, <2>2
    <3> QED
      BY <1>2, <1>3, <1>5, <1>7, <3>1, <3>2
  <2> QED
    BY <1>2, <2>4, <2>5, <2>6 DEF Encoding
<1>11. ASSUME half = "decode" PROVE Decoding
  <2>1. a = L
    BY <1>6, <1>11
  <2>2. Alike(decodeTable, peer)
    <3>1. Shows(peer.table, decodeTable.entries) /\ ShowsAll(peer.table, decodeTable.entries)
      BY <1>5, <1>7, <1>9 DEF ShowsAll
    <3>2. n =< L \/ n > L
      BY <1>2
    <3>3. ~ (L > n) => n = L \/ n > L
      BY <1>2
    <3> QED
      BY <1>1, <1>2, <1>3, <1>5, <1>7, <2>1, <3>1, <3>2, <3>3 DEF Alike, Pending
  <2> QED
    BY <1>1, <1>7, <2>1, <2>2 DEF Decoding
<1>12. DecoderConforms
  BY <1>8 DEF DecoderConforms
<1> QED
  BY <1>1, <1>2, <1>3, <1>8, <1>10, <1>11, <1>12 DEF HpackInv

\* SETTINGS
LEMMA SettingsKeep ==
    ASSUME HpackInv, NEW size \in Sizes, PeerSettings(size)
    PROVE  HpackInv'
<1>1. /\ half = "encode" /\ half' = half /\ decodeTable' = decodeTable
      /\ decodeTableLimit' = decodeTableLimit /\ last' = last
      /\ encodeMinSize' = Min({size, encodeMinSize}) /\ encodeTableDirty' = TRUE
      /\ encodeTable' = setMaxSize(encodeTable, size) /\ peer' = Announce(peer, size)
  BY DEF PeerSettings, setEncodeTableSize, decoderUnchanged
<1>2. /\ IsTable(encodeTable) /\ TableSound(encodeTable) /\ Encoding
      /\ last.accepted = TRUE /\ last.same = TRUE
  BY <1>1 DEF HpackInv
<1>3. size \in Nat /\ size < Weight(MaxGroups - 1) /\ size < NoMin /\ NoMin \in Nat
  BY HpackAssumption, GroupsAssumption
<1>4. PICK t, u, p, q, a, b, e : /\ t = encodeTable /\ u = encodeTable' /\ p = peer /\ q = peer'
                                 /\ a = encodeMinSize /\ b = encodeMinSize' /\ e = t.entries
  OBVIOUS
<1>5. /\ IsTable(u) /\ TableSound(u) /\ u.max = size /\ u.entries = Fitting(e, size)
  BY <1>1, <1>2, <1>3, <1>4, SetMaxSound
<1>6. /\ Public(e) /\ a \in Nat /\ DOMAIN p = PeerMembers /\ p.limit = t.max /\ p.ok = TRUE
      /\ p.headers = <<>> /\ p.max \in Nat /\ p.table \in Seq(HeaderFields)
      /\ encodeTableDirty \in BOOLEAN
      /\ encodeTableDirty = FALSE =>
            p.max = t.max /\ p.due = p.max /\ a = NoMin /\ ShowsAll(p.table, e)
      /\ encodeTableDirty = TRUE =>
            a =< t.max /\ p.due = Min({p.max, a}) /\ ShowsAll(Trim(p.table, a), e)
  BY <1>2, <1>4, Zenon DEF Encoding
<1>7. e \in Seq(HeaderFields) /\ t.max \in Nat
  BY <1>2, <1>4 DEF IsTable
<1>8. /\ b = Min({size, a}) /\ b \in {size, a} /\ b =< size /\ b =< a /\ b \in Nat
  BY <1>1, <1>3, <1>4, <1>6, MinOfTwo
<1>9. PICK d : d = Min({p.due, size})
  OBVIOUS
<1>10. /\ DOMAIN q = PeerMembers /\ q.limit = size /\ q.due = d /\ q.ok = TRUE
       /\ q.headers = <<>> /\ q.max = p.max /\ q.table = p.table
  <2>1. q = [p EXCEPT !.limit = size, !.due = d]
    BY <1>1, <1>4, <1>9, Zenon DEF Announce
  <2> QED
    BY <1>6, <2>1 DEF PeerMembers
<1>11. d = Min({p.max, b}) /\ ShowsAll(Trim(p.table, b), u.entries)
  <2>1. CASE encodeTableDirty = FALSE
    <3>1. b = size /\ p.due = p.max /\ ShowsAll(p.table, e)
      BY <1>3, <1>6, <1>8, <2>1
    <3>2. Shows(p.table, e) /\ size =< size
      BY <1>3, <3>1 DEF ShowsAll
    <3>3. ShowsAll(Trim(p.table, size), Fitting(e, size))
      BY <1>3, <3>1, <3>2, TrimShows
    <3> QED
      BY <1>5, <1>9, <3>1, <3>3
  <2>2. CASE encodeTableDirty = TRUE
    <3>1. p.due = Min({p.max, a}) /\ ShowsAll(Trim(p.table, a), e)
      BY <1>6, <2>2
    <3>2. Shows(Trim(p.table, a), e) /\ size =< size
      BY <1>3, <3>1 DEF ShowsAll
    <3>3. ShowsAll(Trim(Trim(p.table, a), size), Fitting(e, size))
      BY <1>3, <3>1, <3>2, TrimShows
    <3>4. b \in {a, size}
      BY <1>8
    <3>5. Trim(Trim(p.table, a), size) = Trim(p.table, b)
      BY <1>3, <1>6, <1>8, <3>4, TrimTwice
    <3>6. d = Min({p.max, b})
      <4>1. PICK x, y, z : x = p.max /\ y = Min({x, a}) /\ z = Min({x, b})
        OBVIOUS
      <4>2. x \in Nat /\ y \in {x, a} /\ y =< x /\ y =< a /\ y \in Nat
        BY <1>6, <4>1, MinOfTwo
      <4>3. z \in {x, b} /\ z =< x /\ z =< b /\ z \in Nat
        BY <1>6, <1>8, <4>1, MinOfTwo
      <4>4. d = Min({y, size})
        BY <1>9, <3>1, <4>1
      <4>5. d \in {y, size} /\ d =< y /\ d =< size /\ d \in Nat
        BY <1>3, <4>2, <4>4, MinOfTwo
      <4>6. d = z
        BY <1>3, <1>6, <1>8, <4>2, <4>3, <4>5
      <4> QED
        BY <4>1, <4>6
    <3> QED
      BY <1>5, <3>3, <3>5, <3>6
  <2> QED
    BY <1>6, <2>1, <2>2
<1>12. Public(u.entries)
  BY <1>3, <1>5, <1>6, <1>7, FittingPublic
<1>13. Encoding'
  <2>1. /\ Public(encodeTable'.entries) /\ encodeTableDirty' \in BOOLEAN /\ encodeMinSize' \in Nat
        /\ encodeTable'.max < Weight(MaxGroups - 1)
    BY <1>1, <1>3, <1>4, <1>5, <1>8, <1>12
  <2>2. /\ DOMAIN peer' = PeerMembers /\ peer'.limit = encodeTable'.max /\ peer'.ok = TRUE
        /\ peer'.headers = <<>> /\ peer'.max \in Nat /\ peer'.table \in Seq(HeaderFields)
    BY <1>4, <1>5, <1>6, <1>10
  <2>3. /\ encodeMinSize' =< encodeTable'.max /\ peer'.due = Min({peer'.max, encodeMinSize'})
        /\ ShowsAll(Trim(peer'.table, encodeMinSize'), encodeTable'.entries)
    BY <1>4, <1>5, <1>8, <1>10, <1>11
  <2> QED
    BY <1>1, <2>1, <2>2, <2>3 DEF Encoding
<1> QED
  BY <1>1, <1>2, <1>4, <1>5, <1>13 DEF HpackInv, DecoderConforms

\* The peer between two blocks
LEMMA SettledMembers ==
    ASSUME NEW q, DOMAIN q = PeerMembers
    PROVE  /\ DOMAIN Settled(q) = PeerMembers /\ Settled(q).table = q.table
           /\ Settled(q).max = q.max /\ Settled(q).limit = q.limit /\ Settled(q).ok = q.ok
           /\ Settled(q).late = q.late /\ Settled(q).headers = <<>>
           /\ Settled(q).due = IF q.low <= q.due THEN q.limit ELSE q.due
<1>1. PICK d : d = IF q.low <= q.due THEN q.limit ELSE q.due
  OBVIOUS
<1>2. PICK u : u = [q EXCEPT !.headers = <<>>, !.low = 0, !.due = d]
  OBVIOUS
<1>3. Settled(q) = u
  BY <1>1, <1>2, Zenon DEF Settled
<1>4. /\ DOMAIN u = PeerMembers /\ u.table = q.table /\ u.max = q.max /\ u.limit = q.limit
      /\ u.ok = q.ok /\ u.late = q.late /\ u.headers = <<>> /\ u.due = d
  BY <1>2 DEF PeerMembers
<1> QED
  BY <1>1, <1>3, <1>4

\* A request
LEMMA EncodeKeeps ==
    ASSUME HpackInv, NEW headers \in Blocks(Fields), encode(headers)
    PROVE  HpackInv'
<1>1. PICK s, q : s = Encoded(headers) /\ q = PeerBlock(peer, s.block)
  OBVIOUS
<1>2. /\ half = "encode" /\ half' = half /\ decodeTable' = decodeTable
      /\ decodeTableLimit' = decodeTableLimit
      /\ encodeTable.nextId + Len(headers) =< MaxId
      /\ encodeTable' = s.table /\ encodeTableDirty' = FALSE
      /\ encodeMinSize' = (IF encodeTableDirty THEN NoMin ELSE encodeMinSize)
      /\ peer' = Settled(q)
      /\ last' = [conforming |-> TRUE, accepted |-> q.ok, same |-> q.headers = headers]
  BY <1>1 DEF encode, decoderUnchanged
<1>3. IsTable(encodeTable) /\ TableSound(encodeTable) /\ Encoding
  BY <1>2 DEF HpackInv
<1>4. PICK m : m = encodeTable.max
  OBVIOUS
<1>5. Writing(s, q, m) /\ q.headers = headers
  BY <1>1, <1>2, <1>3, <1>4, WritingBlock
<1>6. /\ IsTable(s.table) /\ TableSound(s.table) /\ s.table.max = m /\ Public(s.table.entries)
      /\ DOMAIN q = PeerMembers /\ q.ok = TRUE /\ q.limit = m /\ q.max = m
      /\ q.low =< q.due /\ ShowsAll(q.table, s.table.entries)
  BY <1>5, Zenon DEF Writing
<1>7. PICK u, t : u = Settled(q) /\ t = s.table
  OBVIOUS
<1>8. /\ DOMAIN u = PeerMembers /\ u.table = q.table /\ u.max = m /\ u.limit = m /\ u.ok = TRUE
      /\ u.headers = <<>> /\ u.due = m
  BY <1>6, <1>7, SettledMembers
<1>9. encodeMinSize' = NoMin /\ NoMin \in Nat /\ m < Weight(MaxGroups - 1) /\ m \in Nat
  BY <1>2, <1>3, <1>4, HpackAssumption DEF Encoding, IsTable
<1>10. q.table \in Seq(HeaderFields)
  BY <1>6 DEF ShowsAll, Shows
<1>11. Encoding'
  <2>1. /\ Public(encodeTable'.entries) /\ encodeTableDirty' \in BOOLEAN /\ encodeMinSize' \in Nat
        /\ encodeTable'.max < Weight(MaxGroups - 1)
    BY <1>2, <1>6, <1>9
  <2>2. /\ DOMAIN peer' = PeerMembers /\ peer'.limit = encodeTable'.max /\ peer'.ok = TRUE
        /\ peer'.headers = <<>> /\ peer'.max \in Nat /\ peer'.table \in Seq(HeaderFields)
    BY <1>2, <1>6, <1>7, <1>8, <1>9, <1>10
  <2>3. /\ peer'.max = encodeTable'.max /\ peer'.due = peer'.max /\ encodeMinSize' = NoMin
        /\ ShowsAll(peer'.table, encodeTable'.entries)
    BY <1>2, <1>6, <1>7, <1>8, <1>9
  <2> QED
    BY <1>2, <2>1, <2>2, <2>3 DEF Encoding
<1>12. last'.accepted = TRUE /\ last'.same = TRUE
  BY <1>2, <1>5, <1>6
<1> QED
  BY <1>2, <1>6, <1>11, <1>12 DEF HpackInv, DecoderConforms

\* A response
LEMMA ReceiveKeeps ==
    ASSUME HpackInv, NEW block \in Blocks(PeerInstructions), Receive(block)
    PROVE  HpackInv'
<1>1. PICK s, q : s = decode(block) /\ q = PeerBlock(peer, block)
  OBVIOUS
<1>2. /\ half = "decode" /\ half' = half /\ encodeTable' = encodeTable
      /\ decodeTableLimit' = decodeTableLimit /\ last.accepted /\ last.conforming
      /\ decodeTable' = s.table /\ peer' = Settled(q)
      /\ last' = [conforming |-> q.ok, accepted |-> s.ok, same |-> s.headers = q.headers]
  BY <1>1 DEF Receive, encoderUnchanged
<1>3. /\ IsTable(decodeTable) /\ TableSound(decodeTable) /\ decodeTableLimit \in Nat /\ Decoding
      /\ IsTable(encodeTable) /\ TableSound(encodeTable)
  BY <1>2 DEF HpackInv
<1>4. /\ DOMAIN peer = PeerMembers /\ peer.limit = decodeTableLimit /\ peer.ok = TRUE
      /\ peer.headers = <<>> /\ Alike(decodeTable, peer)
  BY <1>3 DEF Decoding
<1>5. \A p : p = peer => Reading(decode(block), PeerBlock(p, block))
  <2> SUFFICES ASSUME NEW p, p = peer PROVE Reading(decode(block), PeerBlock(p, block))
    OBVIOUS
  <2> QED
    BY <1>3, <1>4, ReadingBlock
<1>6. Reading(s, q)
  BY <1>1, <1>5
<1>7. /\ IsDecoder(s) /\ DOMAIN q = PeerMembers /\ q.limit = decodeTableLimit
      /\ s.ok \in BOOLEAN /\ q.ok \in BOOLEAN
      /\ q.ok = TRUE => s.ok = TRUE /\ Alike(s.table, q) /\ s.headers = q.headers
      /\ q.ok = FALSE => q.late = TRUE \/ decodeTableLimit > InitMaxTableSize \/ s.ok = FALSE
  BY <1>6 DEF Reading
<1>8. IsTable(s.table) /\ TableSound(s.table)
  BY <1>7 DEF IsDecoder
<1>9. PICK u : u = Settled(q)
  OBVIOUS
<1>10. /\ DOMAIN u = PeerMembers /\ u.table = q.table /\ u.max = q.max /\ u.limit = q.limit
       /\ u.ok = q.ok /\ u.late = q.late /\ u.headers = <<>>
  BY <1>7, <1>9, SettledMembers
<1>11. PICK same : same = (s.headers = q.headers)
  OBVIOUS
<1>12. last'.conforming = q.ok /\ last'.accepted = s.ok /\ last'.same = same
  BY <1>2, <1>11
<1>13. ASSUME q.ok = TRUE PROVE Decoding'
  <2>1. Alike(s.table, u)
    BY <1>7, <1>10, <1>13 DEF Alike, Pending
  <2>2. /\ DOMAIN peer' = PeerMembers /\ peer'.limit = decodeTableLimit' /\ peer'.ok = TRUE
        /\ peer'.headers = <<>>
    BY <1>2, <1>7, <1>9, <1>10, <1>13
  <2>3. Alike(decodeTable, peer)'
    BY <1>2, <1>9, <2>1 DEF Alike, Pending
  <2> QED
    BY <2>2, <2>3 DEF Decoding
<1>14. DecoderConforms'
  <2>1. CASE q.ok = TRUE
    BY <1>7, <1>11, <1>12, <2>1 DEF DecoderConforms
  <2>2. CASE q.ok = FALSE
    BY <1>2, <1>7, <1>9, <1>10, <1>12, <2>2 DEF DecoderConforms
  <2> QED
    BY <1>7, <2>1, <2>2
<1> QED
  BY <1>2, <1>3, <1>7, <1>8, <1>12, <1>13, <1>14 DEF HpackInv

\* A response that is cut short
LEMMA CutKeeps ==
    ASSUME HpackInv, ReceiveCut
    PROVE  HpackInv'
<1>1. PICK i \in PeerInstructions :
          /\ Len(i.octets) > 1 \/ i.strings # <<>>
          /\ half = "decode" /\ half' = half /\ encodeTable' = encodeTable
          /\ decodeTableLimit' = decodeTableLimit /\ peer' = peer
          /\ decodeTable' = decode(<<Cut(i)>>).table
          /\ last' = [conforming |-> FALSE, accepted |-> decode(<<Cut(i)>>).ok, same |-> FALSE]
  BY DEF ReceiveCut, encoderUnchanged
<1>2. PICK k, v : IsInstruction(i, k, v)
  BY PeerInstructionIs
<1>3. PICK b, init : b = <<Cut(i)>> /\ init = [table |-> decodeTable, firstField |-> TRUE,
                                               headers |-> <<>>, ok |-> TRUE]
  OBVIOUS
<1>4. Len(b) = 1 /\ b[1] = Cut(i) /\ Len(b) \in Nat
  BY <1>3
<1>5. PICK s : /\ s[0] = init /\ \A j \in 1 .. Len(b) : s[j] = decodeHeader(s[j - 1], b[j])
               /\ decode(b) = s[Len(b)]
  BY <1>3, <1>4, DecodeRun, Zenon
<1>6. decode(b) = decodeHeader(init, Cut(i))
  <2>1. 1 \in 1 .. Len(b) /\ 1 - 1 = 0
    BY <1>4
  <2>2. s[1] = decodeHeader(s[1 - 1], b[1])
    BY <1>5, <2>1
  <2> QED
    BY <1>4, <1>5, <2>1, <2>2
<1>7. init.ok = TRUE /\ init.table = decodeTable /\ DOMAIN init = {"table", "firstField", "headers", "ok"}
  BY <1>3
<1>8. decode(b) = Failed(init)
  BY <1>1, <1>2, <1>6, <1>7, CutRefused
<1>9. Failed(init).ok = FALSE /\ Failed(init).table = decodeTable
  BY <1>7, DecoderMembers
<1>10. decodeTable' = decodeTable /\ last'.conforming = FALSE /\ last'.accepted = FALSE
  BY <1>1, <1>3, <1>8, <1>9
<1> QED
  BY <1>1, <1>10 DEF HpackInv, DecoderConforms

\* The tables are sound and those of the encoder and of a peer that follows
\* the RFC agree, up to the sizes that are still to be announced; so do those
\* of the decoder and its peer, while the peer has followed the RFC.
THEOREM HpackInvariance == Spec => []HpackInv
<1>1. Init => HpackInv
  BY HpackInit
<1>2. HpackInv /\ [Next]_vars => HpackInv'
  <2> SUFFICES ASSUME HpackInv, [Next]_vars PROVE HpackInv'
    OBVIOUS
  <2>1. ASSUME NEW size \in Sizes, PeerSettings(size) PROVE HpackInv'
    BY <2>1, SettingsKeep
  <2>2. ASSUME NEW headers \in Blocks(Fields), encode(headers) PROVE HpackInv'
    BY <2>2, EncodeKeeps
  <2>3. CASE ReceiveWhole
    BY <2>3, ReceiveKeeps DEF ReceiveWhole
  <2>4. CASE ReceiveCut
    BY <2>4, CutKeeps
  <2>5. CASE UNCHANGED vars
    <3>1. Decoding => Decoding'
      BY <2>5 DEF vars, Decoding, Alike, Pending
    <3>2. Encoding => Encoding'
      BY <2>5 DEF vars, Encoding
    <3> QED
      BY <2>5, <3>1, <3>2 DEF vars, HpackInv, DecoderConforms
  <2> QED
    BY <2>1, <2>2, <2>3, <2>4, <2>5 DEF Next
<1> QED
  BY <1>1, <1>2, PTL DEF Spec

\* A peer that follows the RFC understands every block Hpack::encode writes,
\* for every table size, every field and every block.
THEOREM EncoderUnderstood == Spec => []PeerUnderstands
<1>1. HpackInv => PeerUnderstands
  BY DEF HpackInv, PeerUnderstands
<1> QED
  BY <1>1, HpackInvariance, PTL

\* Hpack::decode reads what a peer that follows the RFC means, and refuses
\* what breaks it.
THEOREM DecoderFollows == Spec => []DecoderConforms
<1>1. HpackInv => DecoderConforms
  BY DEF HpackInv
<1> QED
  BY <1>1, HpackInvariance, PTL

\* The lookup maps of HeaderTable lead to live entries only, to the newest of
\* each key, and the size counted is the size of the entries.
THEOREM TablesSound == Spec => []LookupsSound
<1>1. HpackInv => LookupsSound
  BY DEF HpackInv, LookupsSound
<1> QED
  BY <1>1, HpackInvariance, PTL
=================================================================================

----------------------------- MODULE HpackTable -----------------------------
(***************************************************************************)
(* The header table of HPACK (hpack/table.cpp): the static entries, and    *)
(* the dynamic entries held oldest first in a vector and found again       *)
(* through two maps from a name, or a name and a value, to the id of the   *)
(* last entry inserted with it.  Ids grow for ever; an entry's HPACK index *)
(* is computed from its id.                                                *)
(***************************************************************************)
EXTENDS Naturals, Sequences, FiniteSetsExt, SequencesExt

CONSTANTS
    Static,           \* STATIC_ENTRY_TABLE: a sequence of fields
    Length,           \* the length of every name and value
    InitMaxTableSize  \* INIT_MAX_TABLE_SIZE

\* A HeaderField is a name, a value and its sensitivity; == ignores the last.
HeaderFields == [name : DOMAIN Length, value : DOMAIN Length, sensitive : BOOLEAN]

ASSUME TableAssumption ==
    /\ Static \in Seq(HeaderFields) /\ \A i \in 1 .. Len(Static) : ~Static[i].sensitive
    /\ \A s \in DOMAIN Length : Length[s] \in Nat
    /\ InitMaxTableSize \in Nat

Pair(h) == <<h.name, h.value>>

Size(h) == Length[h.name] + Length[h.value] + 32

\* The bytes of the first n entries, and of all of them
BytesUpTo(entries, n) ==
    LET bytes[i \in 0 .. n] == IF i = 0 THEN 0 ELSE bytes[i - 1] + Size(entries[i])
    IN  bytes[n]
Bytes(entries) == BytesUpTo(entries, Len(entries))

NoEntries == [names |-> <<>>, pairs |-> <<>>, entries |-> <<>>,
              nextId |-> 1, bytes |-> 0, max |-> InitMaxTableSize]

\* STATIC_NAME_TABLE: the first entry with the name.
StaticName(name) == {i \in 1 .. Len(Static) : /\ Static[i].name = name
                                              /\ \A j \in 1 .. i - 1 : Static[j].name # name}

\* STATIC_NAME_VALUE_TABLE
StaticPair(pair) == {i \in 1 .. Len(Static) : Pair(Static[i]) = pair}
-----------------------------------------------------------------------------
oldestId(t) == t.nextId - Len(t.entries)

\* The keys of the two maps, entry by entry
Names(t) == [i \in 1 .. Len(t.entries) |-> t.entries[i].name]
Pairs(t) == [i \in 1 .. Len(t.entries) |-> Pair(t.entries[i])]

\* The indices id2Index finds: none when the entry has been evicted.
id2Index(t, id) ==
    IF id < oldestId(t) THEN {} ELSE {Len(Static) + (t.nextId - id)}

Dynamic(t, map, key) == IF key \in DOMAIN map THEN id2Index(t, map[key]) ELSE {}

\* The static table is searched before the dynamic one and has the smaller
\* indices, so the first match is the least.
find(t, h) ==
    LET exact == IF h.sensitive THEN {}
                 ELSE StaticPair(Pair(h)) \cup Dynamic(t, t.pairs, Pair(h))
        named == StaticName(h.name) \cup Dynamic(t, t.names, h.name)
    IN  [exact |-> exact # {},
         index |-> Min(IF exact # {} THEN exact ELSE IF named # {} THEN named ELSE {0})]

\* The oldest entries evict has to remove: as few as make the rest fit.
Evicted(t) == Min({n \in 0 .. Len(t.entries) :
                      \/ t.bytes - BytesUpTo(t.entries, n) <= t.max
                      \/ n = Len(t.entries)})

\* What is left of a lookup map: a key goes with the entry its id stands for.
Kept(map, keys, oldest, n) ==
    Restrict(map, {k \in DOMAIN map :
        \A i \in 1 .. n : ~ (keys[i] = k /\ map[k] = oldest + i - 1)})

\* Faulty variant: a key is forgotten with any entry that has it.
evictForgetsKeys(t) ==
    LET n == Evicted(t)
        gone == {t.entries[i] : i \in 1 .. n}
    IN  [t EXCEPT !.names = Restrict(@, DOMAIN @ \ {h.name : h \in gone}),
                  !.pairs = Restrict(@, DOMAIN @ \ {Pair(h) : h \in gone}),
                  !.entries = SubSeq(@, n + 1, Len(@)),
                  !.bytes = @ - BytesUpTo(t.entries, n)]

evict(t) ==
    LET n == Evicted(t)
    IN  [t EXCEPT !.names = Kept(@, Names(t), oldestId(t), n),
                  !.pairs = Kept(@, Pairs(t), oldestId(t), n),
                  !.entries = SubSeq(@, n + 1, Len(@)),
                  !.bytes = @ - BytesUpTo(t.entries, n)]

Mapped(map, key, id) ==
    [k \in DOMAIN map \cup {key} |-> IF k = key THEN id ELSE map[k]]

addEntry(t, h) ==
    [t EXCEPT !.names = Mapped(@, h.name, t.nextId),
              !.pairs = Mapped(@, Pair(h), t.nextId),
              !.entries = Append(@, h),
              !.nextId = @ + 1]

insert(t, h) == LET u == addEntry(t, h) IN evict([u EXCEPT !.bytes = @ + Size(h)])

setMaxSize(t, size) == evict([t EXCEPT !.max = size])

\* The field at an index: at() fails on 0 and beyond the oldest entry.
at(t, index) ==
    LET d == index - Len(Static)
    IN  IF index = 0 \/ d > Len(t.entries) THEN {}
        ELSE {IF index <= Len(Static) THEN Static[index]
              ELSE t.entries[Len(t.entries) - d + 1]}
-----------------------------------------------------------------------------
(***************************************************************************)
(* What the lookup maps must mean: a key is in a map exactly when a live   *)
(* entry has it, and leads to the newest such entry.                       *)
(***************************************************************************)
Newest(keys, k, i) ==
    /\ i \in 1 .. Len(keys) /\ keys[i] = k
    /\ \A j \in i + 1 .. Len(keys) : keys[j] # k

MapSound(map, keys, oldest) ==
    /\ DOMAIN map = {keys[i] : i \in 1 .. Len(keys)}
    /\ \A k \in DOMAIN map : Newest(keys, k, map[k] - oldest + 1)

TableSound(t) ==
    /\ MapSound(t.names, Names(t), oldestId(t))
    /\ MapSound(t.pairs, Pairs(t), oldestId(t))
    /\ t.bytes = Bytes(t.entries) /\ t.bytes <= t.max
    /\ Len(t.entries) < t.nextId
=============================================================================

-------------------------------- MODULE Hpack --------------------------------
(***************************************************************************)
(* HPACK coding of header blocks (hpack/hpack.cpp) against a peer that     *)
(* follows RFC 7541.                                                       *)
(*                                                                         *)
(* A block is a sequence of instructions: the octets of the prefix integer *)
(* with the pattern of the instruction in the first, and the strings that  *)
(* follow.  A string is known by itself: Huffman coding and string lengths *)
(* are abstracted.  The encoding and the decoding half of an Hpack object  *)
(* share no state, so a behaviour exercises one of them.                   *)
(***************************************************************************)
EXTENDS HpackTable

CONSTANTS
    Fields,         \* header fields requests may carry
    Sizes,          \* values of SETTINGS_HEADER_TABLE_SIZE and of size updates
    ConfigTables,   \* values of ClientConfig::headerTableSize
    PeerFields,     \* header fields responses may carry
    NoMin,          \* numeric_limits<size_t>::max(): no size set since the last block
    MaxGroups,      \* continuation octets decodeVInt accepts (9: shift < 63)
    Indices,        \* indices the peer refers to
    MaxFields,      \* bound: instructions of a block
    MaxId           \* bound: ids given to dynamic entries

ASSUME HpackAssumption ==
    /\ Fields \subseteq HeaderFields /\ PeerFields \subseteq HeaderFields
    /\ Sizes \subseteq Nat /\ ConfigTables \subseteq Nat /\ Indices \subseteq Nat
    /\ NoMin \in Nat /\ \A n \in Sizes : n < NoMin
    /\ MaxGroups \in Nat \ {0, 1} /\ MaxFields \in Nat /\ MaxId \in Nat

VARIABLES
    half,           \* the half of the Hpack object that is exercised
    encodeTable, encodeTableDirty, encodeMinSize,
    decodeTable, decodeTableLimit,
    peer,           \* the peer's half of the same direction
    last            \* the last block: did it follow the RFC, was it accepted,
                    \* and were the fields read the fields meant

vars == <<half, encodeTable, encodeTableDirty, encodeMinSize,
          decodeTable, decodeTableLimit, peer, last>>
-----------------------------------------------------------------------------
(***************************************************************************)
(* Prefix integers                                                         *)
(***************************************************************************)
Limit(prefix) == 2 ^ prefix - 1

\* 1 << 7 * k
Weight(k) ==
    LET weight[i \in 0 .. k] == IF i = 0 THEN 1 ELSE 128 * weight[i - 1]
    IN  weight[k]

\* The integers fit, with a group to spare.
ASSUME GroupsAssumption ==
    \A n \in Sizes \cup Indices \cup {InitMaxTableSize, Len(Static) + MaxId} :
        n < Weight(MaxGroups - 1)

\* Seven bits of an octet each, the lowest first.
Groups(octets) ==
    LET sum[i \in 0 .. Len(octets)] ==
            IF i = 0 THEN 0 ELSE sum[i - 1] + (octets[i] % 128) * Weight(i - 1)
    IN  sum[Len(octets)]

encodeVInt(prefix, value) ==
    IF value < Limit(prefix) THEN <<value>>
    ELSE LET v == value - Limit(prefix)
             n == Min({k \in 1 .. MaxGroups : v < Weight(k)})
         IN  <<Limit(prefix)>> \o [i \in 1 .. n |->
                 ((v \div Weight(i - 1)) % 128) + (IF i < n THEN 128 ELSE 0)]

\* Faulty variant: the first group is shifted by the prefix.
decodeVIntShifted(octets, prefix) ==
    LET first == octets[1] % 2 ^ prefix
        ends  == {n \in 1 .. MaxGroups : n < Len(octets) /\ octets[n + 1] < 128}
    IN  IF octets = <<>> THEN {}
        ELSE IF first < Limit(prefix) THEN {first}
        ELSE IF ends = {} THEN {}
        ELSE {first + Groups(SubSeq(octets, 2, Min(ends) + 1)) * 2}

\* The integer read: none when it is cut short or has too many groups.
decodeVInt(octets, prefix) ==
    LET first == octets[1] % 2 ^ prefix
        ends  == {n \in 1 .. MaxGroups : n < Len(octets) /\ octets[n + 1] < 128}
    IN  IF octets = <<>> THEN {}
        ELSE IF first < Limit(prefix) THEN {first}
        ELSE IF ends = {} THEN {}
        ELSE {first + Groups(SubSeq(octets, 2, Min(ends) + 1))}
-----------------------------------------------------------------------------
(***************************************************************************)
(* Encoding                                                                *)
(***************************************************************************)
Instruction(flag, prefix, value, strings) ==
    [octets |-> [encodeVInt(prefix, value) EXCEPT ![1] = @ + flag], strings |-> strings]

encodeIndexedHeader(index) == Instruction(128, 7, index, <<>>)

encodeTableSizeUpdate(size) == Instruction(32, 5, size, <<>>)

\* Incremental, without and never indexed: the name is given by its index if
\* it has one.
LiteralStrings(index, h) == IF index = 0 THEN <<h.name, h.value>> ELSE <<h.value>>

encodeLiteral(flag, prefix, index, h) ==
    Instruction(flag, prefix, index, LiteralStrings(index, h))

couldIndex(t, h) == ~h.sensitive /\ t.bytes + Size(h) <= t.max

encodeHeader(s, h) ==
    LET f == find(s.table, h)
        Out(i) == [s EXCEPT !.block = Append(@, i)]
    IN  IF h.sensitive THEN Out(encodeLiteral(16, 4, f.index, h))
        ELSE IF f.exact THEN Out(encodeIndexedHeader(f.index))
        ELSE IF couldIndex(s.table, h)
        THEN [Out(encodeLiteral(64, 6, f.index, h)) EXCEPT !.table = insert(@, h)]
        ELSE Out(encodeLiteral(0, 4, f.index, h))

sizeUpdates ==
    IF ~encodeTableDirty THEN <<>>
    ELSE (IF encodeMinSize < encodeTable.max
          THEN <<encodeTableSizeUpdate(encodeMinSize)>> ELSE <<>>)
         \o <<encodeTableSizeUpdate(encodeTable.max)>>

\* The table and the block once the headers have been encoded
Encoded(headers) ==
    LET s[i \in 0 .. Len(headers)] ==
            IF i = 0 THEN [table |-> encodeTable, block |-> sizeUpdates]
            ELSE encodeHeader(s[i - 1], headers[i])
    IN  s[Len(headers)]
-----------------------------------------------------------------------------
(***************************************************************************)
(* Decoding                                                                *)
(***************************************************************************)
Failed(s) == [s EXCEPT !.ok = FALSE]

Yield(s, h) == [s EXCEPT !.headers = Append(@, h), !.firstField = FALSE]

decodeIndexedHeader(s, i) ==
    LET found == UNION {at(s.table, n) : n \in decodeVInt(i.octets, 7)}
    IN  IF found = {} THEN Failed(s)
        ELSE Yield(s, CHOOSE h \in found : TRUE)

decodeTableSizeUpdate(s, i) ==
    LET read == decodeVInt(i.octets, 5)
    IN  IF ~s.firstField \/ read = {} \/ \E n \in read : n > decodeTableLimit
        THEN Failed(s)
        ELSE [s EXCEPT !.table = setMaxSize(@, CHOOSE n \in read : TRUE)]

decodeHeaderField(s, i, prefix, indexed, sensitive) ==
    LET read  == decodeVInt(i.octets, prefix)
        index == CHOOSE n \in read : TRUE
        named == IF index = 0 THEN {Head(i.strings)} ELSE {h.name : h \in at(s.table, index)}
        h     == [name |-> CHOOSE n \in named : TRUE, value |-> i.strings[Len(i.strings)],
                  sensitive |-> sensitive]
    IN  IF read = {} \/ Len(i.strings) # (IF index = 0 THEN 2 ELSE 1) \/ named = {}
        THEN Failed(s)
        ELSE IF indexed THEN [Yield(s, h) EXCEPT !.table = insert(@, h)] ELSE Yield(s, h)

decodeHeader(s, i) ==
    LET flag == i.octets[1]
    IN  IF ~s.ok THEN s
        ELSE IF flag >= 128 THEN decodeIndexedHeader(s, i)
        ELSE IF flag >= 64 THEN decodeHeaderField(s, i, 6, TRUE, FALSE)
        ELSE IF flag >= 32 THEN decodeTableSizeUpdate(s, i)
        ELSE IF flag >= 16 THEN decodeHeaderField(s, i, 4, FALSE, TRUE)
        ELSE decodeHeaderField(s, i, 4, FALSE, FALSE)

decode(block) ==
    LET s[i \in 0 .. Len(block)] ==
            IF i = 0 THEN [table |-> decodeTable, firstField |-> TRUE,
                           headers |-> <<>>, ok |-> TRUE]
            ELSE decodeHeader(s[i - 1], block[i])
    IN  s[Len(block)]
-----------------------------------------------------------------------------
(***************************************************************************)
(* The peer: RFC 7541 itself.  Its table is a sequence, newest first.      *)
(***************************************************************************)
Trim(entries, max) ==
    SubSeq(entries, 1, Max({n \in 0 .. Len(entries) : BytesUpTo(entries, n) <= max}))

Address(p, index) ==
    LET all == Static \o p.table
    IN  IF index \in 1 .. Len(all) THEN {all[index]} ELSE {}

\* An operation of a block, as the RFC reads the instruction: its kind and
\* integer, then the strings.
Kind(i) == LET flag == i.octets[1]
           IN  IF flag >= 128 THEN "indexed" ELSE IF flag >= 64 THEN "incremental"
               ELSE IF flag >= 32 THEN "update" ELSE IF flag >= 16 THEN "never" ELSE "literal"

Prefix == [indexed |-> 7, incremental |-> 6, update |-> 5, never |-> 4, literal |-> 4]
Flag   == [indexed |-> 128, incremental |-> 64, update |-> 32, never |-> 16, literal |-> 0]

Integer(i) == LET p == Prefix[Kind(i)]
                  first == i.octets[1] % 2 ^ p
              IN  IF first < Limit(p) THEN first ELSE first + Groups(Tail(i.octets))

\* An integer that fills its prefix goes on, and ends in an octet below 128.
Complete(i) ==
    i.octets[1] % 2 ^ Prefix[Kind(i)] = Limit(Prefix[Kind(i)])
        => Len(i.octets) > 1 /\ Last(i.octets) < 128

\* A size update is allowed before the first field only and within the limit;
\* a field only once the smallest limit acknowledged has been honoured.
PeerReads(p, i) ==
    LET kind  == Kind(i)
        index == Integer(i)
        named == IF index = 0 THEN {i.strings[1]} ELSE {h.name : h \in Address(p, index)}
        h     == IF kind = "indexed" THEN CHOOSE f \in Address(p, index) : TRUE
                 ELSE [name |-> CHOOSE n \in named : TRUE, value |-> i.strings[Len(i.strings)],
                       sensitive |-> kind = "never"]
    IN  IF ~p.ok THEN p
        ELSE IF ~Complete(i) THEN Failed(p)
        ELSE IF kind = "update"
        THEN IF p.headers # <<>> \/ index > p.limit THEN Failed(p)
             ELSE [p EXCEPT !.max = index, !.low = Min({@, index}), !.table = Trim(@, index)]
        ELSE IF p.low > p.due \/ p.max > p.limit THEN [p EXCEPT !.ok = FALSE, !.late = TRUE]
        ELSE IF IF kind = "indexed" THEN Address(p, index) = {} ELSE named = {}
        THEN Failed(p)
        ELSE [p EXCEPT !.headers = Append(@, h),
                       !.table = IF kind = "incremental" THEN Trim(<<h>> \o @, p.max) ELSE @]

PeerBlock(p, block) ==
    LET q[i \in 0 .. Len(block)] ==
            IF i = 0 THEN [p EXCEPT !.low = p.max] ELSE PeerReads(q[i - 1], block[i])
    IN  q[Len(block)]

\* The peer between blocks: sizes that have been honoured are no longer due.
Settled(q) == [q EXCEPT !.headers = <<>>, !.low = 0, !.due = IF q.low <= @ THEN q.limit ELSE @]

Announce(p, size) == [p EXCEPT !.limit = size, !.due = Min({@, size})]

NewPeer(limit) == [table |-> <<>>, max |-> InitMaxTableSize, limit |-> limit,
                   due |-> Min({limit, InitMaxTableSize}), low |-> 0,
                   headers |-> <<>>, ok |-> TRUE, late |-> FALSE]

\* What the peer may put in a block, right or wrong: any instruction with
\* any index, and integers padded with a group of zeros.
Literals(kind, h) ==
    {Instruction(Flag[kind], Prefix[kind], n, LiteralStrings(n, h)) : n \in Indices}

Plain ==
    {Instruction(128, 7, n, <<>>) : n \in Indices}
    \cup {Instruction(32, 5, n, <<>>) : n \in Sizes}
    \cup UNION {Literals("incremental", h) \cup Literals("never", h) : h \in PeerFields}

Padded(i) == LET n == Len(i.octets)
                 o == [i.octets EXCEPT ![n] = @ + 128]
             IN  [i EXCEPT !.octets = o \o <<0>>]

PeerInstructions ==
    Plain \cup {Padded(i) : i \in {j \in Plain : Len(j.octets) > 1 /\ j.strings = <<>>}}

\* An instruction that ends before its last octet or string.
Cut(i) == IF i.strings # <<>> THEN [i EXCEPT !.strings = Front(@)]
          ELSE [i EXCEPT !.octets = Front(@)]
-----------------------------------------------------------------------------
\* No request is without fields.
Blocks(S) == UNION {[1 .. n -> S] : n \in 1 .. MaxFields}

\* Hpack::reset, and the sizes the constructor of Http2Protocol sets.
Init ==
    /\ half \in {"encode", "decode"}
    /\ encodeTable = setMaxSize(NoEntries, InitMaxTableSize)
    /\ encodeTableDirty = TRUE /\ encodeMinSize = InitMaxTableSize
    /\ decodeTableLimit \in ConfigTables
    /\ decodeTable = setMaxSize(NoEntries, decodeTableLimit)
    /\ peer = NewPeer(IF half = "encode" THEN InitMaxTableSize ELSE decodeTableLimit)
    /\ last = [conforming |-> TRUE, accepted |-> TRUE, same |-> TRUE]

decoderUnchanged == UNCHANGED <<half, decodeTable, decodeTableLimit>>
encoderUnchanged == UNCHANGED <<half, encodeTable, encodeTableDirty, encodeMinSize>>

\* Faulty variant: the smallest size since the last block is not kept.
setEncodeTableSizeLast(size) ==
    /\ encodeMinSize' = size
    /\ encodeTableDirty' = TRUE
    /\ encodeTable' = setMaxSize(encodeTable, size)

setEncodeTableSize(size) ==
    /\ encodeMinSize' = Min({size, encodeMinSize})
    /\ encodeTableDirty' = TRUE
    /\ encodeTable' = setMaxSize(encodeTable, size)

\* SETTINGS from the peer; its acknowledgement leaves before the next block.
PeerSettings(size) ==
    /\ half = "encode" /\ last.accepted
    /\ setEncodeTableSize(size)
    /\ peer' = Announce(peer, size)
    /\ decoderUnchanged /\ UNCHANGED last

\* Hpack::encode; the peer reads the block.
encode(headers) ==
    /\ half = "encode" /\ last.accepted
    /\ encodeTable.nextId + Len(headers) <= MaxId
    /\ LET s == Encoded(headers)
           q == PeerBlock(peer, s.block)
       IN  /\ encodeTable' = s.table /\ encodeTableDirty' = FALSE
           /\ encodeMinSize' = IF encodeTableDirty THEN NoMin ELSE encodeMinSize
           /\ peer' = Settled(q)
           /\ last' = [conforming |-> TRUE, accepted |-> q.ok, same |-> q.headers = headers]
    /\ decoderUnchanged

\* Hpack::decode of a block the peer has put together; a failure ends the
\* connection.
Receive(block) ==
    /\ half = "decode" /\ last.accepted /\ last.conforming
    /\ decodeTable.nextId + Len(block) <= MaxId
    /\ LET s == decode(block)
           q == PeerBlock(peer, block)
       IN  /\ decodeTable' = s.table
           /\ peer' = Settled(q)
           /\ last' = [conforming |-> q.ok, accepted |-> s.ok, same |-> s.headers = q.headers]
    /\ encoderUnchanged /\ UNCHANGED decodeTableLimit

ReceiveWhole == \E block \in Blocks(PeerInstructions) : Receive(block)

ReceiveCut ==
    \E i \in PeerInstructions :
        /\ Len(i.octets) > 1 \/ i.strings # <<>>
        /\ half = "decode" /\ last.accepted /\ last.conforming
        /\ LET s == decode(<<Cut(i)>>)
           IN  /\ decodeTable' = s.table
               /\ last' = [conforming |-> FALSE, accepted |-> s.ok, same |-> FALSE]
        /\ encoderUnchanged /\ UNCHANGED <<decodeTableLimit, peer>>

Next ==
    \/ \E size \in Sizes : PeerSettings(size)
    \/ \E headers \in Blocks(Fields) : encode(headers)
    \/ ReceiveWhole
    \/ ReceiveCut

Spec == Init /\ [][Next]_vars
-----------------------------------------------------------------------------
(***************************************************************************)
(* Properties                                                              *)
(***************************************************************************)
\* A peer that follows the RFC accepts every block the encoder produces, size
\* updates included, and reads the fields of the request, sensitive ones as
\* never indexed, however SETTINGS have resized the table in between.
PeerUnderstands ==
    half = "encode" => last.accepted /\ last.same

\* Every block of a peer that follows the RFC is accepted and decoded to the
\* fields it stands for; a block that breaks it (an index out of range, a
\* size update late or over the limit, an integer or a string cut short) is
\* refused.  With a table larger than the peer's, entries the peer has
\* evicted are still found, and a size update that is due is not insisted on.
DecoderConforms ==
    half = "decode" =>
        IF last.conforming THEN last.accepted /\ last.same
        ELSE peer.late \/ decodeTableLimit > InitMaxTableSize \/ ~last.accepted

\* In both tables a name or a field is found exactly when a live entry has
\* it, the newest such entry is the one found, and the bytes counted are
\* those of the entries and within the maximum.
LookupsSound == TableSound(encodeTable) /\ TableSound(decodeTable)
=============================================================================

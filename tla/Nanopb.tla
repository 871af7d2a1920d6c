------------------------------- MODULE Nanopb -------------------------------
(***************************************************************************)
(* nanopb, the protocol buffer codec of the analytics pods: pb_encode.c,      *)
(* pb_decode.c and pb_common.c, compiled with PB_ENABLE_MALLOC.               *)
(*                                                                            *)
(* Integers are scaled: a byte has a continuation bit and three bits of       *)
(* payload instead of seven, uint32_t is two such bytes and uint64_t four.    *)
(* As in the code the last group of a uint32_t is partly used (8 = 2*3 + 2,   *)
(* 32 = 4*7 + 4) and that of a uint64_t has one bit (16 = 5*3 + 1,            *)
(* 64 = 9*7 + 1).                                                             *)
(*                                                                            *)
(* A message is a sequence of slots, one per field of the struct; the members *)
(* of a oneof share one.  Of the heap only the number of live blocks is kept. *)
(***************************************************************************)
EXTENDS Integers, Sequences, SequencesExt, FiniteSetsExt

CONSTANTS
    PbTypes,    \* the fields of each message type
    PbCalls     \* the messages encoded, each with its type, its framing and how many
                \* allocations may succeed while it is decoded

VARIABLES
    pb,         \* the call
    pbRoom,     \* the size of the output buffer
    pbWire,     \* the bytes written to it, then the bytes received
    pbIntact,   \* the bytes received are the bytes written
    pbResult,   \* what pb_decode left: its return value, the struct and the heap
    pbStep

pbVars == <<pb, pbRoom, pbWire, pbIntact, pbResult, pbStep>>

GroupBits == 3
Continue == 2^GroupBits
ByteBits == GroupBits + 1
ShortBits == 8
LongBits == 16
PB_SIZE_MAX == 2^ShortBits - 1

\* A null pointer; no byte is negative.
Null == <<-1>>

Signed(v, bits) == LET w == v % 2^bits IN IF w >= 2^(bits - 1) THEN w - 2^bits ELSE w

-----------------------------------------------------------------------------
\* Fields, as the PB_FIELD macros describe them.

\* ltype, wire type and whether arrays of it are packed (PB_LTYPE_LAST_PACKABLE).
PbWireType(ltype) ==
    CASE ltype \in {"varint", "uvarint", "svarint"} -> 0
      [] ltype = "fixed64" -> 1
      [] ltype \in {"bytes", "string", "submessage", "fixed_length_bytes"} -> 2
      [] ltype = "fixed32" -> 5

PbPackable(ltype) == ltype \in {"varint", "uvarint", "svarint", "fixed32", "fixed64"}

PbWireString == 2

\* pb_field_iter_find.
PbFind(fields, tag) == SelectInSeq(fields, LAMBDA f : f.tag = tag /\ f.ltype # "extension")

\* find_extension_field.
PbFindExtension(fields) == SelectInSeq(fields, LAMBDA f : f.ltype = "extension")

\* pb_field_iter_next counts the slots: a member of a oneof after the first stays in its slot.
PbNumSlots(fields) == IF fields = <<>> THEN 0 ELSE Max({fields[i].slot : i \in DOMAIN fields})

-----------------------------------------------------------------------------
\* Output streams.  A sizing stream has no callback: it counts and writes nothing.

PbOStream(max) == [ok |-> TRUE, sizing |-> FALSE, max |-> max, bytes |-> <<>>, written |-> 0]
PbSizing == [PbOStream(0) EXCEPT !.sizing = TRUE]

PbFail(st) == [st EXCEPT !.ok = FALSE]

\* Mutant: the bound is checked against the bytes written so far.
WriteBeforeCheck(st, bs) ==
    IF ~st.ok THEN st
    ELSE IF st.sizing THEN [st EXCEPT !.written = @ + Len(bs)]
    ELSE IF st.written > st.max THEN PbFail(st)
    ELSE [st EXCEPT !.written = @ + Len(bs), !.bytes = @ \o bs]

pb_write(st, bs) ==
    IF ~st.ok THEN st
    ELSE IF st.sizing THEN [st EXCEPT !.written = @ + Len(bs)]
    ELSE IF st.written + Len(bs) > st.max THEN PbFail(st)
    ELSE [st EXCEPT !.written = @ + Len(bs), !.bytes = @ \o bs]

PbGroups(v) == Max({1} \cup {g \in 1..6 : v >= 2^(GroupBits * (g - 1))})

pb_encode_varint(st, v) ==
    LET n == PbGroups(v)
    IN  pb_write(st, [i \in 1..n |-> ((v \div 2^(GroupBits * (i - 1))) % Continue)
                                       + (IF i < n THEN Continue ELSE 0)])

pb_encode_svarint(st, v) ==
    pb_encode_varint(st, IF v < 0 THEN (2^LongBits - 1) - ((2 * v) % 2^LongBits) ELSE 2 * v)

PbFixed(v, bytes) == [i \in 1..bytes |-> (v \div 2^(ByteBits * (i - 1))) % 2^ByteBits]

pb_encode_fixed32(st, v) == pb_write(st, PbFixed(v, ShortBits \div ByteBits))
pb_encode_fixed64(st, v) == pb_write(st, PbFixed(v, LongBits \div ByteBits))

pb_encode_tag(st, wt, tag) == pb_encode_varint(st, tag * 8 + wt)
pb_encode_tag_for_field(st, f) == pb_encode_tag(st, PbWireType(f.ltype), f.tag)

pb_encode_string(st, bs) == pb_write(pb_encode_varint(st, Len(bs)), bs)

\* A string ends at its terminator; in a static field at the size of the field.
PbStrLen(f, s) ==
    LET ends == {i \in DOMAIN s : s[i] = 0}
    IN  IF ends = {} THEN Len(s) ELSE Min(ends) - 1

RECURSIVE pb_encode(_, _, _), PbIsProto3Default(_, _)

\* pb_encode_submessage: sizes the message first; the writing stream then gets exactly that many
\* bytes.  Its steps, from the last to the first.
PbAppendSub(st, size, sub) ==
    [st EXCEPT !.ok = sub.ok /\ sub.written = size,
               !.bytes = @ \o sub.bytes, !.written = @ + sub.written]

PbEncodeSized(st, size, fields, msg) ==
    IF ~st.ok THEN st
    ELSE IF st.sizing THEN [st EXCEPT !.written = @ + size]
    ELSE IF st.written + size > st.max THEN PbFail(st)
    ELSE PbAppendSub(st, size, pb_encode(PbOStream(size), fields, msg))

PbEncodeSub(st, sized, fields, msg) ==
    IF ~sized.ok THEN PbFail(st)
    ELSE PbEncodeSized(pb_encode_varint(st, sized.written), sized.written, fields, msg)

pb_encode_submessage(st, fields, msg) ==
    PbEncodeSub(st, pb_encode(PbSizing, fields, msg), fields, msg)

\* PB_ENCODERS: one value of the field.
PbEnc(st, f, v) ==
    CASE f.ltype = "varint" -> pb_encode_varint(st, v % 2^LongBits)
      [] f.ltype = "uvarint" -> pb_encode_varint(st, v)
      [] f.ltype = "svarint" -> pb_encode_svarint(st, v)
      [] f.ltype = "fixed32" -> pb_encode_fixed32(st, v)
      [] f.ltype = "fixed64" -> pb_encode_fixed64(st, v)
      [] f.ltype = "bytes" ->
            IF v = Null THEN pb_encode_string(st, <<>>)
            ELSE IF f.atype = "static" /\ Len(v) > f.max THEN PbFail(st)
            ELSE pb_encode_string(st, v)
      [] f.ltype = "string" ->
            pb_encode_string(st, IF v = Null THEN <<>> ELSE SubSeq(v, 1, PbStrLen(f, v)))
      [] f.ltype = "submessage" -> pb_encode_submessage(st, f.sub, v)
      [] f.ltype = "fixed_length_bytes" -> pb_encode_string(st, v)

\* encode_array: packed when the type allows, else every item with its tag.
PbEncEach(st, f, items, tagged) ==
    FoldLeft(LAMBDA acc, v : PbEnc(IF tagged THEN pb_encode_tag_for_field(acc, f) ELSE acc, f, v),
             st, items)

PbPackedSize(f, items) ==
    CASE f.ltype = "fixed32" -> Len(items) * (ShortBits \div ByteBits)
      [] f.ltype = "fixed64" -> Len(items) * (LongBits \div ByteBits)
      [] OTHER -> PbEncEach(PbSizing, f, items, FALSE).written

PbEncItems(st, f, items, size) ==
    IF PbPackable(f.ltype) /\ st.sizing THEN [st EXCEPT !.written = @ + size]
    ELSE PbEncEach(st, f, items, ~PbPackable(f.ltype))

PbEncPacked(st, f, items, size) ==
    PbEncItems(pb_encode_varint(pb_encode_tag(st, PbWireString, f.tag), size), f, items, size)

PbEncArray(st, f, items, count) ==
    IF count = 0 THEN st
    ELSE IF f.atype # "pointer" /\ count > f.max THEN PbFail(st)
    ELSE IF ~PbPackable(f.ltype) THEN PbEncItems(st, f, SubSeq(items, 1, count), 0)
    ELSE LET sent == SubSeq(items, 1, count) IN PbEncPacked(st, f, sent, PbPackedSize(f, sent))

\* pb_check_proto3_default_value, for the fields that have no has_ flag.
PbIsProto3Default(f, slot) ==
    CASE f.htype = "required" -> FALSE
      [] f.ltype = "extension" -> slot.items = <<>>
      [] f.atype = "callback" -> ~slot.ptr
      [] f.htype \in {"repeated", "oneof"} -> slot.size = 0
      [] f.atype = "pointer" -> ~slot.ptr
      [] ~f.implicit -> slot.size = 0
      [] f.ltype = "bytes" -> slot.items[1] = <<>>
      [] f.ltype = "string" -> PbStrLen(f, slot.items[1]) = 0
      [] f.ltype = "fixed_length_bytes" -> f.max = 0
      [] f.ltype = "submessage" ->
            \A i \in DOMAIN f.sub : PbIsProto3Default(f.sub[i], slot.items[1][f.sub[i].slot])
      [] OTHER -> slot.items[1] = 0

\* encode_basic_field.
PbEncodeBasic(st, f, slot) ==
    LET has == IF f.atype = "pointer" THEN slot.ptr
               ELSE IF f.implicit THEN ~PbIsProto3Default(f, slot)
               ELSE slot.size # 0
        null == f.atype = "pointer" /\ ~slot.ptr
        wanted == CASE f.htype = "required" -> TRUE
                    [] f.htype = "optional" -> has
                    [] f.htype = "oneof" -> slot.size = f.tag
    IN  IF f.htype = "repeated"
        THEN PbEncArray(st, f, slot.items, IF f.fixed THEN f.max ELSE slot.size)
        ELSE IF f.htype = "required" /\ null THEN PbFail(st)
        ELSE IF wanted
        THEN PbEnc(pb_encode_tag_for_field(st, f), f, IF null THEN Null ELSE slot.items[1])
        ELSE st

\* The pointer of a callback field's slot is the program's function, which writes every value
\* with its tag.  Without one nothing is written.
encode_callback_field(st, f, slot) == IF slot.ptr THEN PbEncEach(st, f, slot.items, TRUE) ELSE st

encode_field(st, f, slot) ==
    IF f.atype = "callback" THEN encode_callback_field(st, f, slot) ELSE PbEncodeBasic(st, f, slot)

\* Every extension of the list is written, found or not; a pointer is in the extension itself.
encode_extension_field(st, f, slot) ==
    FoldLeft(LAMBDA acc, i : IF acc.ok THEN encode_field(acc, f.sub[i], slot.items[i]) ELSE acc,
             st, [i \in DOMAIN f.sub |-> i])

PbEncodeField(st, f, slot) ==
    IF f.ltype = "extension" THEN encode_extension_field(st, f, slot) ELSE encode_field(st, f, slot)

pb_encode(st, fields, msg) ==
    FoldLeft(LAMBDA acc, f : IF acc.ok THEN PbEncodeField(acc, f, msg[f.slot]) ELSE acc, st, fields)

\* pb_encode_delimited writes the size first, pb_encode_nullterminated a zero at the end.
PbEncodeAs(style, st, fields, msg) ==
    IF style = "delimited" THEN pb_encode_submessage(st, fields, msg)
    ELSE pb_write(pb_encode(st, fields, msg), IF style = "nullterminated" THEN <<0>> ELSE <<>>)

-----------------------------------------------------------------------------
\* Input streams.  A stream is the bytes left; a substream is a prefix of them.

PbOk(in, val, heap) == [ok |-> TRUE, in |-> in, val |-> val, heap |-> heap]
PbBad(val, heap) == [ok |-> FALSE, in |-> <<>>, val |-> val, heap |-> heap]

\* The length of the varint at the start of the stream; 0 if the stream ends in it.
PbVarintEnd(in) ==
    LET ends == {i \in DOMAIN in : in[i] < Continue} IN IF ends = {} THEN 0 ELSE Min(ends)

PbAfter(in, n) == SubSeq(in, n + 1, Len(in))

PbPayload(in, n, bits) ==
    MapThenSumSet(LAMBDA i : (in[i] % Continue) * 2^(GroupBits * (i - 1)), 1..n) % 2^bits

PbVarint(in, n) ==
    IF n = 0 \/ GroupBits * (n - 1) >= LongBits THEN PbBad(0, 0)
    ELSE PbOk(PbAfter(in, n), PbPayload(in, n, LongBits), 0)

pb_decode_varint(in) == PbVarint(in, PbVarintEnd(in))

\* What may follow the groups of a uint32_t: zeros, or the sign of a negative number.
PbVarint32(in, n, value) ==
    LET SignExtension(i) == IF GroupBits * (i - 1) < LongBits - 1 THEN 2^ByteBits - 1 ELSE 1
    IN  IF \/ n = 0
           \/ \E i \in 4..n : in[i] % Continue # 0
                                /\ (value < 2^(ShortBits - 1) \/ in[i] # SignExtension(i))
           \/ n = 3 /\ in[3] >= 2^(ShortBits - 2 * GroupBits)
        THEN PbBad(0, 0)
        ELSE PbOk(PbAfter(in, n), value, 0)

pb_decode_varint32(in) ==
    PbVarint32(in, PbVarintEnd(in), PbPayload(in, Min({PbVarintEnd(in), 3}), ShortBits))

\* pb_read into a buffer of its own, and pb_skip_field.
PbRead(in, n) == IF n > Len(in) THEN PbBad(<<>>, 0) ELSE PbOk(PbAfter(in, n), SubSeq(in, 1, n), 0)

\* Bytes under the length that was read before them.
PbReadLength(len) == IF len.ok THEN PbRead(len.in, len.val) ELSE PbBad(<<>>, 0)

pb_skip_field(in, wt) ==
    CASE wt = 0 -> LET n == PbVarintEnd(in) IN IF n = 0 THEN PbBad(0, 0) ELSE PbOk(PbAfter(in, n), 0, 0)
      [] wt = 1 -> PbRead(in, LongBits \div ByteBits)
      [] wt = 2 -> PbReadLength(pb_decode_varint32(in))
      [] wt = 5 -> PbRead(in, ShortBits \div ByteBits)
      [] OTHER -> PbBad(0, 0)

\* pb_make_string_substream: the substream is val, the stream after it (once closed) is in.
pb_make_string_substream(in) == PbReadLength(pb_decode_varint32(in))

PbFixedValue(bs) == MapThenSumSet(LAMBDA i : bs[i] * 2^(ByteBits * (i - 1)), DOMAIN bs)

-----------------------------------------------------------------------------
\* The heap: blocks live, allocations that will still succeed, whether an array was left
\* counting an entry it has no room for, and whether pb_release went past the end of an array.

PbHeap(left) == [live |-> 0, left |-> left, short |-> FALSE, wild |-> FALSE]

\* allocate_field: realloc of a null pointer is a new block.
PbAlloc(heap, fresh) ==
    [ok |-> heap.left > 0,
     heap |-> IF heap.left = 0 THEN heap
              ELSE [heap EXCEPT !.left = @ - 1, !.live = IF fresh THEN @ + 1 ELSE @]]

RECURSIVE PbDefaults(_), PbDefaultSlot(_), PbReleaseSingleField(_, _, _), pb_release(_, _, _),
          pb_decode_noinit(_, _, _, _), PbPackedStatic(_, _, _, _), PbPackedPointer(_, _, _, _, _),
          PbCallAll(_, _, _, _), PbFieldsLoop(_, _, _)

\* pb_field_set_to_default and pb_message_set_to_defaults.  A callback stays as the program
\* set it; of an extension the size says whether it was found.
PbDefaultSlot(f) ==
    [ptr |-> f.callback, size |-> 0,
     items |-> IF f.ltype = "extension" THEN [i \in DOMAIN f.sub |-> PbDefaultSlot(f.sub[i])]
               ELSE IF f.atype = "static" /\ f.htype \in {"required", "optional"}
               THEN <<IF f.ltype = "submessage" THEN PbDefaults(f.sub) ELSE f.default>>
               ELSE <<>>]

PbDefaults(fields) ==
    [s \in 1..PbNumSlots(fields) |->
        PbDefaultSlot(fields[SelectInSeq(fields, LAMBDA f : f.slot = s)])]

\* pb_release_single_field: the fields of a submessage, the entries of an array of pointers,
\* then the array or the single block itself.  The result is the slot and the heap.
PbReleaseSingleField(f, slot, heap) ==
    LET skip == f.htype = "oneof" /\ slot.size # f.tag
        count == IF f.htype # "repeated" THEN 1
                 ELSE IF f.atype = "static" THEN (IF f.fixed THEN f.max ELSE Min({slot.size, f.max}))
                 ELSE slot.size
        present == f.atype = "static" \/ slot.ptr
        inner ==
            IF f.ltype = "submessage" /\ present
            THEN FoldLeft(LAMBDA acc, i :
                            IF i \in DOMAIN acc.items
                            THEN LET r == pb_release(f.sub, acc.items[i], acc.heap)
                                 IN  [acc EXCEPT !.items[i] = r.msg, !.heap = r.heap]
                            ELSE [acc EXCEPT !.heap.wild = TRUE],
                          [items |-> slot.items, heap |-> heap], [i \in 1..count |-> i])
            ELSE IF f.ltype = "extension"
            THEN FoldLeft(LAMBDA acc, i :
                            LET r == PbReleaseSingleField(f.sub[i], acc.items[i], acc.heap)
                            IN  [acc EXCEPT !.items[i] = r.slot, !.heap = r.heap],
                          [items |-> slot.items, heap |-> heap], [i \in DOMAIN f.sub |-> i])
            ELSE IF f.atype = "pointer" /\ f.htype = "repeated" /\ f.ltype \in {"string", "bytes"}
            THEN [items |-> <<>>,
                  heap |-> [heap EXCEPT
                    !.live = @ - Cardinality({i \in DOMAIN slot.items : slot.items[i] # Null}),
                    !.wild = @ \/ slot.size > Len(slot.items)]]
            ELSE [items |-> slot.items, heap |-> heap]
    IN  IF skip THEN [slot |-> slot, heap |-> heap]
        ELSE IF f.atype = "pointer"
        THEN [slot |-> [ptr |-> FALSE, items |-> <<>>,
                        size |-> IF f.htype = "repeated" THEN 0 ELSE slot.size],
              heap |-> [inner.heap EXCEPT !.live = IF slot.ptr THEN @ - 1 ELSE @]]
        ELSE [slot |-> [slot EXCEPT !.items = inner.items], heap |-> inner.heap]

pb_release(fields, msg, heap) ==
    FoldLeft(LAMBDA acc, f :
                LET r == PbReleaseSingleField(f, acc.msg[f.slot], acc.heap)
                IN  [msg |-> [acc.msg EXCEPT ![f.slot] = r.slot], heap |-> r.heap],
             [msg |-> msg, heap |-> heap], fields)

-----------------------------------------------------------------------------
\* PB_DECODERS: one value of the field.  old is what the destination holds.

\* A value that does not survive the cast to the field's size is refused.
PbNarrow(r, f, value, heap) ==
    IF r.ok /\ value.clamped = value.wide THEN PbOk(r.in, value.clamped, heap)
    ELSE PbBad(0, heap)

pb_dec_varint(f, r, heap) ==
    LET wide == IF f.bits = LongBits THEN Signed(r.val, LongBits) ELSE Signed(r.val, ShortBits)
    IN  PbNarrow(r, f, [wide |-> wide, clamped |-> Signed(wide, f.bits)], heap)

pb_dec_uvarint(f, r, heap) ==
    PbNarrow(r, f, [wide |-> r.val, clamped |-> r.val % 2^f.bits], heap)

pb_dec_svarint(f, r, heap) ==
    LET wide == IF r.val % 2 = 1 THEN -(r.val \div 2) - 1 ELSE r.val \div 2
    IN  PbNarrow(r, f, [wide |-> wide, clamped |-> Signed(wide, f.bits)], heap)

\* The varint is read first by each of them.
PbDecVarint(f, r, heap) ==
    CASE f.ltype = "varint" -> pb_dec_varint(f, r, heap)
      [] f.ltype = "uvarint" -> pb_dec_uvarint(f, r, heap)
      [] f.ltype = "svarint" -> pb_dec_svarint(f, r, heap)

PbFixedOf(r, heap) == IF r.ok THEN PbOk(r.in, PbFixedValue(r.val), heap) ELSE PbBad(0, heap)
PbDecFixed(in, bytes, heap) == PbFixedOf(PbRead(in, bytes), heap)

\* pb_dec_bytes and pb_dec_string, by the size read: a pointer is allocated before the data.
PbDecBytes(f, size, old, heap) ==
    LET limit == IF f.ltype = "string" THEN f.max - 1 ELSE f.max
        alloc == PbAlloc(heap, old = Null)
        data == PbRead(size.in, size.val)
    IN  IF ~size.ok \/ (f.ltype = "string" /\ size.val = 2^ShortBits - 1) THEN PbBad(old, heap)
        ELSE IF f.atype = "pointer"
        THEN IF ~alloc.ok THEN PbBad(old, heap)
             ELSE IF data.ok THEN PbOk(data.in, data.val, alloc.heap)
             ELSE PbBad(<<>>, alloc.heap)
        ELSE IF size.val > limit \/ ~data.ok THEN PbBad(old, heap)
        ELSE PbOk(data.in, data.val, heap)

pb_dec_fixed_length_bytes(f, size, heap) ==
    LET data == PbRead(size.in, f.max)
    IN  IF ~size.ok THEN PbBad(0, heap)
        ELSE IF size.val = 0 THEN PbOk(size.in, [i \in 1..f.max |-> 0], heap)
        ELSE IF size.val # f.max \/ ~data.ok THEN PbBad(0, heap)
        ELSE PbOk(data.in, data.val, heap)

\* Mutant: a message that fails is left as it is.
DecodeAndKeep(fields, in, heap) == pb_decode_noinit(fields, in, PbDefaults(fields), heap)

\* pb_decode: the struct is set to the defaults first, and released if anything fails.
PbReleased(r) == PbBad(r.msg, r.heap)

PbOrReleased(fields, r) == IF r.ok THEN r ELSE PbReleased(pb_release(fields, r.val, r.heap))

pb_decode(fields, in, heap) ==
    PbOrReleased(fields, pb_decode_noinit(fields, in, PbDefaults(fields), heap))

\* pb_close_string_substream, if the substream was read without an error.
PbClose(sub, r) == IF r.ok THEN PbOk(sub.in, r.val, r.heap) ELSE r

\* Entries of an array are initialised here; other submessages are merged into old.
PbDecSub(f, sub, old, heap) ==
    IF ~sub.ok THEN PbBad(old, heap)
    ELSE PbClose(sub, IF f.htype = "repeated" THEN pb_decode(f.sub, sub.val, heap)
                      ELSE pb_decode_noinit(f.sub, sub.val, old, heap))

pb_dec_submessage(f, in, old, heap) == PbDecSub(f, pb_make_string_substream(in), old, heap)

PbDec(f, in, old, heap) ==
    CASE f.ltype \in {"varint", "uvarint", "svarint"} -> PbDecVarint(f, pb_decode_varint(in), heap)
      [] f.ltype = "fixed32" -> PbDecFixed(in, ShortBits \div ByteBits, heap)
      [] f.ltype = "fixed64" -> PbDecFixed(in, LongBits \div ByteBits, heap)
      [] f.ltype \in {"bytes", "string"} -> PbDecBytes(f, pb_decode_varint32(in), old, heap)
      [] f.ltype = "submessage" -> pb_dec_submessage(f, in, old, heap)
      [] f.ltype = "fixed_length_bytes" -> pb_dec_fixed_length_bytes(f, pb_decode_varint32(in), heap)

-----------------------------------------------------------------------------
\* One field.  The result's val is the slot.

PbPut(slot, i, v) ==
    [slot EXCEPT !.items = IF i <= Len(@) THEN [@ EXCEPT ![i] = v] ELSE Append(@, v)]

PbUninitialised == 0

\* A value that was read is entry i of the slot.
PbStore(r, slot, i) == [r EXCEPT !.val = PbPut(slot, i, r.val)]

\* A packed static array: stops at the bound, and what is left is an overflow.
PbPackedStaticNext(f, slot, r) ==
    IF ~r.ok THEN PbBad(slot, r.heap)
    ELSE PbPackedStatic(f, r.in, [PbPut(slot, slot.size + 1, r.val) EXCEPT !.size = @ + 1], r.heap)

PbPackedStatic(f, in, slot, heap) ==
    IF in = <<>> THEN PbOk(in, slot, heap)
    ELSE IF slot.size >= f.max THEN PbBad(slot, heap)
    ELSE PbPackedStaticNext(f, slot, PbDec(f, in, PbUninitialised, heap))

\* A packed array in the substream.
PbPackedIn(f, sub, slot, heap) ==
    IF ~sub.ok THEN PbBad(slot, heap)
    ELSE PbClose(sub, IF f.atype = "static" THEN PbPackedStatic(f, sub.val, slot, heap)
                      ELSE PbPackedPointer(f, sub.val, slot, heap, slot.size))

PbPacked(f, wt) == f.htype = "repeated" /\ wt = PbWireString /\ PbPackable(f.ltype)

\* The has flag, the count or the tag of the oneof is set before the value is read.
decode_static_field(f, wt, in, slot, heap) ==
    LET old == CASE f.htype \in {"required", "optional"} -> slot.items[1]
                 [] f.htype = "oneof" /\ f.ltype = "submessage" -> PbDefaults(f.sub)
                 [] OTHER -> PbUninitialised
        size == CASE f.htype = "required" -> slot.size
                  [] f.htype = "optional" -> IF f.implicit THEN slot.size ELSE 1
                  [] f.htype = "repeated" -> slot.size + 1
                  [] f.htype = "oneof" -> f.tag
        counted == [slot EXCEPT !.size = size]
    IN  IF PbPacked(f, wt) THEN PbPackedIn(f, pb_make_string_substream(in), slot, heap)
        ELSE IF f.htype = "repeated" /\ slot.size >= f.max THEN PbBad(counted, heap)
        ELSE PbStore(PbDec(f, in, old, heap), counted, IF f.htype = "repeated" THEN size ELSE 1)

\* A packed array of a pointer field grows by the number of entries the rest may hold.
PbPackedPointerNext(f, slot, room, r) ==
    IF ~r.ok \/ slot.size = PB_SIZE_MAX THEN PbBad(slot, r.heap)
    ELSE PbPackedPointer(f, r.in, [PbPut(slot, slot.size + 1, r.val) EXCEPT !.size = @ + 1],
                         r.heap, room)

PbPackedPointer(f, in, slot, heap, capacity) ==
    LET full == slot.size + 1 > capacity
        unit == f.bits \div ByteBits
        alloc == IF full THEN PbAlloc(heap, ~slot.ptr) ELSE [ok |-> TRUE, heap |-> heap]
    IN  IF in = <<>> THEN PbOk(in, slot, heap)
        ELSE IF ~alloc.ok THEN PbBad(slot, heap)
        ELSE PbPackedPointerNext(f, [slot EXCEPT !.ptr = TRUE],
                                 IF full THEN capacity + (Len(in) - 1) \div unit + 1 ELSE capacity,
                                 PbDec(f, in, PbUninitialised, alloc.heap))

\* A string or bytes are allocated by their decoder, which may fail before.
PbStoreString(r, slot) ==
    IF r.val = Null THEN [r EXCEPT !.val = slot] ELSE PbStore(r, [slot EXCEPT !.ptr = TRUE], 1)

PbDecAllocated(f, in, slot, alloc, i) ==
    IF ~alloc.ok THEN PbBad(slot, alloc.heap)
    ELSE PbStore(PbDec(f, in, CASE f.ltype \in {"string", "bytes"} -> Null
                                [] f.ltype = "submessage" -> PbDefaults(f.sub)
                                [] OTHER -> PbUninitialised, alloc.heap),
                 [slot EXCEPT !.ptr = TRUE], i)

\* Not an array.  A submessage that was there is released first.
PbPointerTo(f, in, slot, heap) ==
    IF f.ltype \in {"string", "bytes"}
    THEN PbStoreString(PbDec(f, in, IF slot.ptr THEN slot.items[1] ELSE Null, heap), slot)
    ELSE PbDecAllocated(f, in, slot, PbAlloc(heap, ~slot.ptr), 1)

PbPointerAfter(f, in, cleared) ==
    PbPointerTo(f, in, IF f.htype = "oneof" THEN [cleared.slot EXCEPT !.size = f.tag] ELSE cleared.slot,
                cleared.heap)

\* An array grows by one entry.  Its size is set before the realloc that may fail.
PbGrow(f, in, slot, alloc) ==
    PbDecAllocated(f, in, [slot EXCEPT !.size = @ + 1],
                   [alloc EXCEPT !.heap.short = @ \/ ~alloc.ok], slot.size + 1)

decode_pointer_field(f, wt, in, slot, heap) ==
    IF f.htype # "repeated"
    THEN PbPointerAfter(f, in, IF f.ltype = "submessage" /\ slot.ptr
                               THEN PbReleaseSingleField(f, slot, heap)
                               ELSE [slot |-> slot, heap |-> heap])
    ELSE IF PbPacked(f, wt) THEN PbPackedIn(f, pb_make_string_substream(in), slot, heap)
    ELSE IF slot.size = PB_SIZE_MAX THEN PbBad(slot, heap)
    ELSE PbGrow(f, in, slot, PbAlloc(heap, ~slot.ptr))

\* pb_release_union_field: the old member of the oneof goes before the new one comes.
PbReleaseUnion(fields, f, slot, heap) ==
    LET old == PbFind(fields, slot.size)
    IN  IF f.htype # "oneof" \/ slot.size \in {0, f.tag} THEN [slot |-> slot, heap |-> heap]
        ELSE PbReleaseSingleField(fields[old], slot, heap)

\* The program's function for a callback field reads one value off the substream: bytes and
\* strings are all of it.
PbCall(f, in, heap) ==
    IF f.ltype \in {"bytes", "string"} THEN PbOk(<<>>, in, heap) ELSE PbDec(f, in, PbUninitialised, heap)

\* It is called at least once, and, if there is more, until the substream is empty.
PbCallNext(f, slot, heap, r) ==
    IF ~r.ok THEN PbBad(slot, heap)
    ELSE IF r.in = <<>> THEN PbOk(<<>>, [slot EXCEPT !.items = Append(@, r.val)], heap)
    ELSE PbCallAll(f, r.in, [slot EXCEPT !.items = Append(@, r.val)], heap)

PbCallAll(f, in, slot, heap) == PbCallNext(f, slot, heap, PbCall(f, in, heap))

PbCallOnce(slot, heap, r) ==
    IF r.ok THEN PbOk(r.in, [slot EXCEPT !.items = Append(@, r.val)], heap) ELSE PbBad(slot, heap)

\* The bytes of one value that is not a string, at most as many as a varint may have.
read_raw_value(in, wt) ==
    LET n == PbVarintEnd(in)
    IN  CASE wt = 0 -> IF n = 0 \/ n > PbGroups(2^LongBits - 1) THEN PbBad(<<>>, 0) ELSE PbRead(in, n)
          [] wt = 1 -> PbRead(in, LongBits \div ByteBits)
          [] wt = 5 -> PbRead(in, ShortBits \div ByteBits)
          [] OTHER -> PbBad(<<>>, 0)

PbCallback(f, wt, sub, slot, heap) ==
    IF ~sub.ok THEN PbBad(slot, heap)
    ELSE [IF wt = PbWireString THEN PbCallAll(f, sub.val, slot, heap)
          ELSE PbCallOnce(slot, heap, PbCall(f, sub.val, heap)) EXCEPT !.in = sub.in]

decode_callback_field(f, wt, in, slot, heap) ==
    IF ~slot.ptr THEN [pb_skip_field(in, wt) EXCEPT !.val = slot, !.heap = heap]
    ELSE PbCallback(f, wt, IF wt = PbWireString THEN pb_make_string_substream(in)
                           ELSE read_raw_value(in, wt), slot, heap)

PbDecodeInto(f, wt, in, slot, heap) ==
    CASE f.atype = "static" -> decode_static_field(f, wt, in, slot, heap)
      [] f.atype = "pointer" -> decode_pointer_field(f, wt, in, slot, heap)
      [] f.atype = "callback" -> decode_callback_field(f, wt, in, slot, heap)

PbDecodeAfter(f, wt, in, tag, u) ==
    PbDecodeInto(f, wt, in, IF f.htype = "oneof" /\ tag \notin {0, f.tag}
                            THEN [u.slot EXCEPT !.items = <<>>] ELSE u.slot, u.heap)

decode_field(fields, f, wt, in, slot, heap) ==
    PbDecodeAfter(f, wt, in, slot.size, PbReleaseUnion(fields, f, slot, heap))

\* decode_extension with default_extension_decoder: the first extension of the list with the
\* tag gets the field.  If none has it nothing was read.
PbStoreExtension(r, slot, i) == [r EXCEPT !.val = [slot EXCEPT !.items[i] = r.val]]

decode_extension(f, tag, wt, in, slot, heap) ==
    LET i == PbFind(f.sub, tag)
    IN  IF i = 0 THEN PbOk(in, slot, heap)
        ELSE PbStoreExtension(decode_field(f.sub, f.sub[i], wt, in,
                                           [slot.items[i] EXCEPT !.size = 1], heap), slot, i)

-----------------------------------------------------------------------------
\* The loop of pb_decode_noinit.  d is what it has come to: the message, the heap, the tags
\* seen, and the fixed count array being read and its count.

PbIncomplete(fields, fixed) ==
    fixed.tag # 0 /\ fixed.count # fields[PbFind(fields, fixed.tag)].max

PbDone(fields, in, d) ==
    IF \/ PbIncomplete(fields, d.fixed)
       \/ \E i \in DOMAIN fields : fields[i].htype = "required" /\ fields[i].tag \notin d.seen
    THEN PbBad(d.msg, d.heap) ELSE PbOk(in, d.msg, d.heap)

\* One field is read, and the message is now r.val.
PbGoOn(fields, d, r) ==
    IF r.ok THEN PbFieldsLoop(fields, r.in, [d EXCEPT !.msg = r.val, !.heap = r.heap])
    ELSE PbBad(r.val, r.heap)

PbSkip(fields, wt, in, d) ==
    PbGoOn(fields, d, [pb_skip_field(in, wt) EXCEPT !.val = d.msg, !.heap = d.heap])

\* A field without a descriptor: an extension may take it, else it is skipped.
PbAfterExtension(fields, f, wt, in, d, x) ==
    IF x.ok /\ x.in = in THEN PbSkip(fields, wt, in, d)
    ELSE PbGoOn(fields, d, [x EXCEPT !.val = [d.msg EXCEPT ![f.slot] = x.val]])

PbUnknownField(fields, tag, wt, in, d) ==
    LET e == PbFindExtension(fields)
    IN  IF e = 0 \/ tag < fields[e].tag THEN PbSkip(fields, wt, in, d)
        ELSE PbAfterExtension(fields, fields[e], wt, in, d,
                 decode_extension(fields[e], tag, wt, in, d.msg[fields[e].slot], d.heap))

\* The count of a fixed count array is kept outside of the struct.
PbAfterField(fields, f, d, r) ==
    IF f.htype = "repeated" /\ f.fixed
    THEN PbGoOn(fields, [d EXCEPT !.fixed.count = r.val.size],
                [r EXCEPT !.val = [d.msg EXCEPT ![f.slot] = [r.val EXCEPT !.size = 0]]])
    ELSE PbGoOn(fields, d, [r EXCEPT !.val = [d.msg EXCEPT ![f.slot] = r.val]])

PbKnownField(fields, f, wt, in, d) ==
    LET counted == f.htype = "repeated" /\ f.fixed
        other == counted /\ d.fixed.tag # f.tag
        fixed == IF other THEN [tag |-> f.tag, count |-> 0] ELSE d.fixed
        slot == IF counted THEN [d.msg[f.slot] EXCEPT !.size = fixed.count] ELSE d.msg[f.slot]
    IN  IF other /\ PbIncomplete(fields, d.fixed) THEN PbBad(d.msg, d.heap)
        ELSE PbAfterField(fields, f, [d EXCEPT !.fixed = fixed, !.seen = @ \cup {f.tag}],
                          decode_field(fields, f, wt, in, slot, d.heap))

PbField(fields, key, d) ==
    LET tag == key.val \div 8
        at == PbFind(fields, tag)
    IN  IF ~key.ok THEN PbBad(d.msg, d.heap)
        ELSE IF key.val = 0 THEN PbDone(fields, key.in, d)
        ELSE IF at = 0 THEN PbUnknownField(fields, tag, key.val % 8, key.in, d)
        ELSE PbKnownField(fields, fields[at], key.val % 8, key.in, d)

PbFieldsLoop(fields, in, d) ==
    IF in = <<>> THEN PbDone(fields, in, d) ELSE PbField(fields, pb_decode_varint32(in), d)

pb_decode_noinit(fields, in, msg, heap) ==
    PbFieldsLoop(fields, in, [msg |-> msg, heap |-> heap, fixed |-> [tag |-> 0, count |-> 0],
                              seen |-> {}])

\* pb_decode_delimited; pb_decode_nullterminated is pb_decode.
PbDecodeIn(sub, fields, heap) ==
    IF ~sub.ok THEN PbBad(PbDefaults(fields), heap)
    ELSE PbClose(sub, pb_decode(fields, sub.val, heap))

PbDecodeAs(style, fields, in, heap) ==
    PbDecodeIn(IF style = "delimited" THEN pb_make_string_substream(in) ELSE PbOk(<<>>, in, 0),
               fields, heap)

-----------------------------------------------------------------------------
\* The programs that use the codec.

PbInit ==
    /\ pb \in PbCalls
    /\ pbStep = "start" /\ pbWire = <<>> /\ pbRoom = 0 /\ pbIntact = TRUE
    /\ pbResult = PbBad(<<>>, PbHeap(0))

\* The descriptor of the message.
PbFields == PbTypes[pb.type]

\* pb_get_encoded_size, then the framing's own bytes.
PbEncodedSize == PbEncodeAs(pb.style, PbSizing, PbFields, pb.msg).written

\* GDTCCTEncodeBatchedLogRequest: the size is computed, and a buffer of that size filled.
\* A smaller buffer is refused.
PbEncode ==
    /\ pbStep = "start"
    /\ \E size \in {PbEncodedSize} : \E room \in {size} \cup {n \in {size - 1, size \div 2} : n >= 0} :
        \E st \in {PbEncodeAs(pb.style, PbOStream(room), PbFields, pb.msg)} :
            /\ pbRoom' = room
            /\ pbWire' = st.bytes
            /\ pbStep' = IF st.ok THEN "encoded" ELSE "refused"
    /\ UNCHANGED <<pb, pbIntact, pbResult>>

\* The bytes received may be cut short, hold a wrong byte, or hold the message twice.
PbDamage ==
    /\ pbStep = "encoded" /\ pbIntact
    /\ \/ \E n \in 0..(Len(pbWire) - 1) : pbWire' = SubSeq(pbWire, 1, n)
       \/ \E i \in DOMAIN pbWire, b \in 0..(2^ByteBits - 1) :
            b # pbWire[i] /\ pbWire' = [pbWire EXCEPT ![i] = b]
       \/ pbWire # <<>> /\ pbWire' = pbWire \o pbWire
    /\ pbIntact' = FALSE
    /\ UNCHANGED <<pb, pbRoom, pbResult, pbStep>>

PbDecode ==
    /\ pbStep = "encoded"
    /\ \E left \in pb.memory : pbResult' = PbDecodeAs(pb.style, PbFields, pbWire, PbHeap(left))
    /\ pbStep' = "decoded"
    /\ UNCHANGED <<pb, pbRoom, pbWire, pbIntact>>

\* The caller releases the struct, whether it was decoded or not.
PbRelease ==
    /\ pbStep = "decoded"
    /\ \E r \in {pb_release(PbFields, pbResult.val, pbResult.heap)} :
        pbResult' = [pbResult EXCEPT !.val = r.msg, !.heap = r.heap]
    /\ pbStep' = "released"
    /\ UNCHANGED <<pb, pbRoom, pbWire, pbIntact>>

PbNext == PbEncode \/ PbDamage \/ PbDecode \/ PbRelease

-----------------------------------------------------------------------------
RECURSIVE PbOwned(_, _), PbOwnedBySlot(_, _)

\* The blocks a struct points to.
PbOwnedBySlot(f, slot) ==
    LET current == f.htype # "oneof" \/ slot.size = f.tag
        items == DOMAIN slot.items
    IN  IF ~current THEN 0
        ELSE (IF f.atype = "pointer" /\ slot.ptr THEN 1 ELSE 0)
             + (IF f.ltype = "extension"
                THEN MapThenSumSet(LAMBDA i : PbOwnedBySlot(f.sub[i], slot.items[i]), items)
                ELSE IF f.ltype = "submessage"
                THEN MapThenSumSet(LAMBDA i : PbOwned(f.sub, slot.items[i]), items)
                ELSE IF f.htype = "repeated" /\ f.atype = "pointer" /\ f.ltype \in {"string", "bytes"}
                THEN Cardinality({i \in items : slot.items[i] # Null})
                ELSE 0)

PbOwned(fields, msg) ==
    MapThenSumSet(LAMBDA i : PbOwnedBySlot(fields[i], msg[fields[i].slot]), DOMAIN fields)

\* The size computed first is the size written, whatever the buffer no byte is written past
\* its end, and a message read back from intact bytes is the message written, field by field:
\* negative numbers, packed arrays, nested messages, members of a oneof, extensions and what the
\* program's callbacks are given included.
MessagesRoundTrip ==
    /\ Len(pbWire) > pbRoom => ~pbIntact
    /\ pbStep \in {"encoded", "refused"} /\ pbIntact =>
           \E size \in {PbEncodedSize} : IF pbStep = "encoded" THEN Len(pbWire) = size
                                         ELSE pbRoom < size
    /\ pbStep = "decoded" /\ pbIntact /\ pbResult.heap.left > 0
        => pbResult.ok /\ pbResult.val = pb.msg

\* Whatever the bytes received, and wherever memory runs out: a message that was refused has
\* given back every block, one that was accepted owns every live block, and pb_release frees
\* each exactly once.  Only where a realloc failed as an array grew by one entry, the size being
\* set before, pb_release takes the entry that is not there for one, and of the heap nothing can
\* be said.
NothingLeaks ==
    /\ pbResult.heap.wild => pbResult.heap.short
    /\ pbStep = "decoded" /\ ~pbResult.heap.wild
        => pbResult.heap.live = IF pbResult.ok THEN PbOwned(PbFields, pbResult.val) ELSE 0
    /\ pbStep = "released" /\ ~pbResult.heap.wild => pbResult.heap.live = 0
=============================================================================

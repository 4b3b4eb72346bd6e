------------------------------ MODULE ZcborEncode ------------------------------
(***************************************************************************)
(* The encoding functions of zcbor (zcbor_encode.c), with the defines of   *)
(* build.zig: ZCBOR_CANONICAL and ZCBOR_FRAGMENTS.                         *)
(*                                                                         *)
(* A function is an operator from a context z and the memory m of the      *)
(* present payload section to an outcome [ok, z, err, mem].  m maps the    *)
(* offsets of the section to bytes; it is larger than the section, so that *)
(* a write past its end would show.                                        *)
(***************************************************************************)
EXTENDS ZcborState, CborBytes

Wrote(z, m)     == [ok |-> TRUE,  z |-> z, err |-> "SUCCESS", mem |-> m]
Stopped(z, m, err) == [ok |-> FALSE, z |-> z, err |-> err, mem |-> m]
Keeping(r, m)   == [ok |-> r.ok, z |-> r.z, err |-> r.err, mem |-> m]

Write(m, at, bytes) ==
    [i \in DOMAIN m |-> IF i \in at .. at + Len(bytes) - 1 THEN bytes[i - at + 1] ELSE m[i]]

(* memmove.                                                                *)
Move(m, to, from, len) ==
    [i \in DOMAIN m |-> IF i \in to .. to + len - 1 THEN m[i - to + from] ELSE m[i]]

(* elem_count is a size_t.                                                 *)
Incremented(n) == IF n = MaxElemCount THEN 0 ELSE n + 1
Decremented(n) == IF n = 0 THEN MaxElemCount ELSE n - 1

Counted(z)   == [z EXCEPT !.state.elem_count = Incremented(@)]
Uncounted(z) == [z EXCEPT !.state.elem_count = Decremented(@)]
Advanced(z, len) == [z EXCEPT !.state.payload = @ + len]

(* value_encode_len, encode_header_byte: a value of len bytes.             *)
ValueEncodeLen(z, m, kind, arg, len) ==
    IF z.state.payload + len > z.state.payload_end
    THEN Stopped(z, m, "NO_PAYLOAD")
    ELSE IF z.state.inside_frag_str
    THEN Stopped(z, m, "INSIDE_STRING")
    ELSE Wrote(Counted(Advanced(z, len)), Write(m, z.state.payload, Bytes(kind, arg, len)))

(* value_encode: the shortest header that holds arg.                       *)
ValueEncode(z, m, kind, arg) == ValueEncodeLen(z, m, kind, arg, HeaderLen(arg))

(* zcbor_tag_put: a tag is not an element of its own.                      *)
TagEncode(z, m, arg, len) ==
    LET r == ValueEncodeLen(z, m, "tag", arg, len)
    IN  IF r.ok THEN Wrote(Uncounted(r.z), r.mem) ELSE r

Room(s) == s.payload_end - s.payload

(* Where the contents of a string are that is not in the payload itself.   *)
Elsewhere == -1

(* str_encode, str_start_encode.  The header is written before the         *)
(* contents are moved behind it.                                           *)
StrEncode(z, m, kind, len, from) ==
    IF \/ Room(z.state) <= 0
       \/ len > Room(z.state) \/ HeaderLen(len) + len > Room(z.state)
    THEN Stopped(z, m, "NO_PAYLOAD")
    ELSE LET r  == ValueEncode(z, m, kind, len)
             to == r.z.state.payload
         IN  IF ~ r.ok THEN r
             ELSE Wrote(Advanced(r.z, len),
                        IF from = Elsewhere THEN Write(r.mem, to, Data(0, len))
                        ELSE Move(r.mem, to, from, len))

(* zcbor_remaining_str_len: the longest string that fits with its header.  *)
RemainingStrLen(room) ==
    LET max_header_len == HeaderLen(room)
        min_header_len == HeaderLen(room - max_header_len)
        header_len     == HeaderLen(room - min_header_len)
    IN  IF room = 0 THEN 0 ELSE room - header_len

(* zcbor_bstr_start_encode: a dummy header, for the longest string.        *)
BstrStartEncode(z, m) ==
    LET b == NewBackup(z, 0)
        r == ValueEncode(b.z, m, "bstr", RemainingStrLen(Room(b.z.state)))
    IN  IF ~ b.ok THEN Keeping(b, m)
        ELSE IF r.ok THEN r
        ELSE Stopped(ProcessBackup(r.z, {"CONSUME"}).z, r.mem, r.err)

(* zcbor_bstr_end_encode: the string is encoded again, from where it is.   *)
BstrEndEncode(z, m) ==
    LET r     == ProcessBackup(z, {"RESTORE", "CONSUME"})
        value == r.z.state.payload + HeaderLen(RemainingStrLen(Room(r.z.state)))
    IN  IF ~ r.ok THEN Keeping(r, m)
        ELSE StrEncode(r.z, m, "bstr", z.state.payload - value, value)

(* list_map_start_encode.                                                  *)
ListMapStartEncode(z, m, kind, size_hint) ==
    LET b == NewBackup(z, 0)
        r == ValueEncode(b.z, m, kind, size_hint)
    IN  IF ~ b.ok THEN Keeping(b, m)
        ELSE IF r.ok THEN Wrote(Uncounted(r.z), r.mem)
        ELSE r

(* Mutated form: the contents are not moved for a longer header.           *)
ListMapRewriteUnmoved(z, m, kind, size_hint, list_count, old_end) ==
    LET old_body  == z.state.payload + HeaderLen(size_hint)
        new_body  == z.state.payload + HeaderLen(list_count)
        body_size == old_end - old_body
        v == ValueEncode(z, m, kind, list_count)
    IN  IF old_end < old_body THEN Stopped(z, m, "BAD_ARG")
        ELSE IF new_body + body_size > z.state.payload_end
        THEN Stopped(z, m, "NO_PAYLOAD")
        ELSE IF ~ v.ok THEN v
        ELSE Wrote(Advanced(v.z, body_size), v.mem)

(* Mutated form: the room for the moved contents is not checked.           *)
ListMapRewriteUnchecked(z, m, kind, size_hint, list_count, old_end) ==
    LET old_body  == z.state.payload + HeaderLen(size_hint)
        new_body  == z.state.payload + HeaderLen(list_count)
        body_size == old_end - old_body
        moved == IF new_body # old_body THEN Move(m, new_body, old_body, body_size) ELSE m
        v == ValueEncode(z, moved, kind, list_count)
    IN  IF old_end < old_body THEN Stopped(z, m, "BAD_ARG")
        ELSE IF ~ v.ok THEN v
        ELSE Wrote(Advanced(v.z, body_size), v.mem)

(* Mutated form: the room is checked as if the header came on top.         *)
ListMapRewriteStrict(z, m, kind, size_hint, list_count, old_end) ==
    LET old_body  == z.state.payload + HeaderLen(size_hint)
        new_body  == z.state.payload + HeaderLen(list_count)
        body_size == old_end - old_body
        moved == IF new_body # old_body THEN Move(m, new_body, old_body, body_size) ELSE m
        v == ValueEncode(z, moved, kind, list_count)
    IN  IF old_end < old_body THEN Stopped(z, m, "BAD_ARG")
        ELSE IF old_end + HeaderLen(list_count) > z.state.payload_end
        THEN Stopped(z, m, "NO_PAYLOAD")
        ELSE IF ~ v.ok THEN v
        ELSE Wrote(Advanced(v.z, body_size), v.mem)

(* The second half of list_map_end_encode, for a hint that was wrong: the  *)
(* state is back at the header.  The contents are moved first.             *)
ListMapRewrite(z, m, kind, size_hint, list_count, old_end) ==
    LET old_body  == z.state.payload + HeaderLen(size_hint)
        new_body  == z.state.payload + HeaderLen(list_count)
        body_size == old_end - old_body
        moved == IF new_body # old_body THEN Move(m, new_body, old_body, body_size) ELSE m
        v == ValueEncode(z, moved, kind, list_count)
    IN  IF old_end < old_body THEN Stopped(z, m, "BAD_ARG")
        ELSE IF new_body # old_body /\ new_body + body_size > z.state.payload_end
        THEN Stopped(z, m, "NO_PAYLOAD")
        ELSE IF ~ v.ok THEN v
        ELSE Wrote(Advanced(v.z, body_size), v.mem)

ListCount(z, kind) ==
    IF kind = "list" THEN z.state.elem_count ELSE z.state.elem_count \div 2

(* Mutated form: the backup of a container with an exact hint stays.       *)
ListMapEndUnconsumed(z, m, kind, size_hint) ==
    LET list_count == ListCount(z, kind)
        kept     == ProcessBackup(z, {"RESTORE", "KEEP_PAYLOAD"})
        restored == ProcessBackup(z, {"RESTORE", "CONSUME"})
    IN  IF size_hint = list_count
        THEN IF kept.ok THEN Wrote(Counted(kept.z), m) ELSE Keeping(kept, m)
        ELSE IF restored.ok
        THEN ListMapRewrite(restored.z, m, kind, size_hint, list_count, z.state.payload)
        ELSE Keeping(restored, m)

(* Mutated form: the header is written again even if the hint was exact.   *)
ListMapEndRewriting(z, m, kind, size_hint) ==
    LET restored == ProcessBackup(z, {"RESTORE", "CONSUME"})
    IN  IF restored.ok
        THEN ListMapRewrite(restored.z, m, kind, size_hint, ListCount(z, kind), z.state.payload)
        ELSE Keeping(restored, m)

(* list_map_end_encode.                                                    *)
ListMapEndEncode(z, m, kind, size_hint) ==
    LET list_count == ListCount(z, kind)
        kept     == ProcessBackup(z, {"RESTORE", "CONSUME", "KEEP_PAYLOAD"})
        restored == ProcessBackup(z, {"RESTORE", "CONSUME"})
    IN  IF size_hint = list_count
        THEN IF kept.ok THEN Wrote(Counted(kept.z), m) ELSE Keeping(kept, m)
        ELSE IF restored.ok
        THEN ListMapRewrite(restored.z, m, kind, size_hint, list_count, z.state.payload)
        ELSE Keeping(restored, m)

(* zcbor_list_map_end_force_encode.                                        *)
ListMapEndForceEncode(z, m) == Keeping(ProcessBackup(z, {"RESTORE", "CONSUME"}), m)

-----------------------------------------------------------------------------

(* str_total_len_cbor - offset - zcbor_header_len(len) < len, in size_t:   *)
(* a string whose end leaves no room for the header passes.                *)
TooLargeForString(s, len) ==
    LET left == s.str_total_len_cbor - StringOffset(s) - HeaderLen(len)
    IN  left >= 0 /\ left < len

(* start_encode_fragments.  (A CBOR string keeps its end only from the     *)
(* next section on: payload_end is not changed here.)                      *)
FragmentsStartEncode(z, m, kind, len, cbor_bstr) ==
    LET b == IF cbor_bstr THEN NewBackup(z, 0) ELSE Done(z)
        r == ValueEncode(b.z, m, kind, len)
    IN  IF Room(z.state) <= 0 THEN Stopped(z, m, "NO_PAYLOAD")
        ELSE IF z.state.inside_cbor_bstr /\ StringError(z.state) # "SUCCESS"
        THEN Stopped(z, m, StringError(z.state))
        ELSE IF z.state.inside_cbor_bstr /\ TooLargeForString(z.state, len)
        THEN Stopped(z, m, "TOO_LARGE_FOR_STRING")
        ELSE IF ~ b.ok THEN Keeping(b, m)
        ELSE IF ~ r.ok
        THEN IF cbor_bstr
             THEN Stopped(ProcessBackup(r.z, {"CONSUME", "RESTORE"}).z, r.mem, r.err)
             ELSE r
        ELSE IF cbor_bstr
        THEN Wrote([r.z EXCEPT !.state = [@ EXCEPT
                        !.frag_offset_cbor = 0 - r.z.state.payload,
                        !.str_total_len_cbor = len,
                        !.inside_cbor_bstr = TRUE]], r.mem)
        ELSE Wrote([r.z EXCEPT !.state = [@ EXCEPT
                        !.frag_offset = 0 - r.z.state.payload,
                        !.str_total_len = len,
                        !.inside_frag_str = TRUE]], r.mem)

Least(a, b) == IF a < b THEN a ELSE b

(* Mutated form: a fragment that does not fit whole is refused.            *)
FragmentEncodeWhole(z, m, from, len) ==
    IF Room(z.state) < len THEN Stopped(z, m, "NO_PAYLOAD")
    ELSE IF ~ z.state.inside_frag_str THEN Stopped(z, m, "NOT_IN_FRAGMENT")
    ELSE IF StringError(z.state) # "SUCCESS" THEN Stopped(z, m, StringError(z.state))
    ELSE IF len > StringRemainder(z.state) THEN Stopped(z, m, "TOO_LARGE_FOR_STRING")
    ELSE Wrote(Advanced(z, len), Write(m, z.state.payload, Data(from, len)))

(* zcbor_str_fragment_encode: as much of a fragment of len bytes, which    *)
(* starts at offset from of the string, as there is room for.              *)
FragmentEncode(z, m, from, len) ==
    LET n == Least(Room(z.state), len)
    IN  IF Room(z.state) <= 0 THEN Stopped(z, m, "NO_PAYLOAD")
        ELSE IF ~ z.state.inside_frag_str THEN Stopped(z, m, "NOT_IN_FRAGMENT")
        ELSE IF StringError(z.state) # "SUCCESS" THEN Stopped(z, m, StringError(z.state))
        ELSE IF len > StringRemainder(z.state) THEN Stopped(z, m, "TOO_LARGE_FOR_STRING")
        ELSE Wrote(Advanced(z, n), Write(m, z.state.payload, Data(from, n)))

(* zcbor_str_fragments_end_encode.                                         *)
FragmentsEndEncode(z, m) ==
    LET kept == ProcessBackup(z, {"RESTORE", "CONSUME", "KEEP_PAYLOAD"})
    IN  IF StringError(z.state) # "SUCCESS" THEN Stopped(z, m, StringError(z.state))
        ELSE IF StringRemainder(z.state) # 0 THEN Stopped(z, m, "NOT_AT_END")
        ELSE IF z.state.inside_frag_str
        THEN Wrote([z EXCEPT !.state.inside_frag_str = FALSE], m)
        ELSE IF kept.ok THEN Wrote(Counted(kept.z), m) ELSE Keeping(kept, m)
=============================================================================

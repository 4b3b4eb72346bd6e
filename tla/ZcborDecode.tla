------------------------------ MODULE ZcborDecode ------------------------------
(***************************************************************************)
(* The structural decode functions of zcbor_decode.c over the contexts of  *)
(* ZcborState: what a header read, a container, a CBOR-encoded byte string *)
(* or a fragmented string does to the state and to the backups.            *)
(*                                                                         *)
(* What the bytes say is an argument: h is the number of bytes of a header *)
(* and n or len the value it holds.  A byte of the wrong major type, or a  *)
(* value that is not the expected one, makes a function return false with  *)
(* the state it was given; DecodeSession models that as a step of its own. *)
(***************************************************************************)
EXTENDS ZcborState

(* What value_extract does to the state: the header and one element less.  *)
Without(s, h) ==
    [s EXCEPT !.payload = @ + h, !.elem_count = @ - 1]

(* Mutated form: elem_count is decremented unchecked.                      *)
ValueExtractUncounted(z, h) ==
    LET s == z.state
    IN  IF s.payload + h > s.payload_end THEN Fail(z, "NO_PAYLOAD")
        ELSE IF s.inside_frag_str        THEN Fail(z, "INSIDE_STRING")
        ELSE Done([z EXCEPT !.state = Without(s, h)])

(* INITIAL_CHECKS and value_extract.  Nothing changes when it fails.       *)
ValueExtract(z, h) ==
    LET s == z.state
    IN  IF s.payload >= s.payload_end    THEN Fail(z, "NO_PAYLOAD")
        ELSE IF s.inside_frag_str        THEN Fail(z, "INSIDE_STRING")
        ELSE IF s.elem_count = 0         THEN Fail(z, "LOW_ELEM_COUNT")
        ELSE IF s.payload + h > s.payload_end THEN Fail(z, "NO_PAYLOAD")
        ELSE Done([z EXCEPT !.state = Without(s, h)])

(* str_start_decode_with_overflow_check: the string must end in the        *)
(* section; err_restore puts payload and elem_count back.                  *)
StrStart(z, h, len) ==
    LET r == ValueExtract(z, h)
    IN  IF ~ r.ok \/ len <= r.z.state.payload_end - r.z.state.payload
        THEN r
        ELSE Fail(z, "NO_PAYLOAD")

(* str_decode, for tstr and bstr.                                          *)
StrDecode(z, h, len) ==
    LET r == StrStart(z, h, len)
    IN  IF r.ok THEN Done([r.z EXCEPT !.state.payload = @ + len]) ELSE r

(* exit_map: leave the enclosing unordered map, if any.                    *)
ExitMap(ds) ==
    [ds EXCEPT !.map_elems_processed = 0, !.map_elem_count = 0]

(* list_map_start_decode.  An indefinite length is an encoding error when  *)
(* canonical encoding is enforced, which only the client can switch off.   *)
ListMapStart(z, h, n, indefinite) ==
    LET r == ValueExtract(z, h)
        b == NewBackup(r.z, IF indefinite THEN LargeElemCount ELSE n)
    IN  IF ~ r.ok THEN r
        ELSE IF ~ b.ok THEN Fail(z, b.err)     \* FAIL_RESTORE
        ELSE Done([b.z EXCEPT !.state.decode_state =
                    [ExitMap(@) EXCEPT
                        !.map_start_backup_num = Len(b.z.backup_list),
                        !.indefinite_length_array = indefinite]])

(* zcbor_map_start_decode: n pairs are 2n elements.  The failing branch    *)
(* restores payload_bak and adds 1 to the NEW elem_count, and leaves the   *)
(* backup list_map_start_decode took; size_t wraps.                        *)
MapStart(z, h, n, indefinite) ==
    LET r == ListMapStart(z, h, n, indefinite)
        bak == z.state.payload
    IN  IF ~ r.ok \/ indefinite THEN r
        ELSE IF n >= MaxElemCount \div 2
        THEN Fail([r.z EXCEPT !.state.payload = bak,
                              !.state.elem_count = (n + 1) % (MaxElemCount + 1)],
                  "INT_SIZE")
        ELSE Done([r.z EXCEPT !.state.elem_count = 2 * n])

(* list_map_end_decode, for lists and maps.  isBreak: the byte at payload  *)
(* is 0xFF (array_end_expect).  The backup is gone in every failure but    *)
(* the first.                                                              *)
ListMapEnd(z, isBreak) ==
    LET r == ProcessBackup(z, {"RESTORE", "CONSUME", "KEEP_PAYLOAD"})
        s == r.z.state
    IN  IF ~ r.ok THEN r
        ELSE IF z.state.decode_state.indefinite_length_array
        THEN IF s.payload >= s.payload_end THEN Fail(r.z, "NO_PAYLOAD")
             ELSE IF s.inside_frag_str THEN Fail(r.z, "INSIDE_STRING")
             ELSE IF ~ isBreak THEN Fail(r.z, "WRONG_TYPE")
             ELSE Done([r.z EXCEPT !.state.payload = @ + 1])
        ELSE IF z.state.elem_count > 0 THEN Fail(r.z, "HIGH_ELEM_COUNT")
        ELSE r

(* zcbor_list_map_end_force_decode.                                        *)
ListMapEndForce(z) ==
    ProcessBackup(z, {"RESTORE", "CONSUME", "KEEP_PAYLOAD"})

(* zcbor_bstr_start_decode.  str_total_len_cbor and frag_offset_cbor are   *)
(* left as they were.                                                      *)
BstrStart(z, h, len) ==
    LET r == StrStart(z, h, len)
        b == NewBackup(r.z, MaxElemCount)
    IN  IF ~ r.ok THEN r
        ELSE IF ~ b.ok THEN Fail(z, b.err)
        ELSE Done([b.z EXCEPT
                    !.state.decode_state = ExitMap(@),
                    !.state.payload_end = r.z.state.payload + len,
                    !.state.inside_cbor_bstr = TRUE])

(* Mutated form: the backup is consumed and not restored.                  *)
BstrEndConsumed(z) ==
    IF z.state.payload # z.state.payload_end
    THEN Fail(z, "PAYLOAD_NOT_CONSUMED")
    ELSE ProcessBackup(z, {"CONSUME"})

(* zcbor_bstr_end_decode.                                                  *)
BstrEnd(z) ==
    IF z.state.payload # z.state.payload_end
    THEN Fail(z, "PAYLOAD_NOT_CONSUMED")
    ELSE ProcessBackup(z, {"RESTORE", "CONSUME", "KEEP_PAYLOAD"})

(* Mutated form: the new string starts at the section, not at the payload. *)
FragmentsStartAtSection(z, h, len, cborBstr) ==
    LET r == ValueExtract(z, h)
        b == NewBackup(r.z, MaxElemCount)
    IN  IF ~ r.ok THEN r
        ELSE IF ~ cborBstr
        THEN Done([r.z EXCEPT !.state.str_total_len = len, !.state.inside_frag_str = TRUE])
        ELSE IF ~ b.ok THEN Fail(z, b.err)
        ELSE Done([b.z EXCEPT !.state.str_total_len_cbor = len,
                              !.state.inside_cbor_bstr = TRUE])

(* start_decode_fragments: only the header must be in this section, so     *)
(* payload_end stays the end of the section.                               *)
FragmentsStart(z, h, len, cborBstr) ==
    LET r == ValueExtract(z, h)
        e == StringError(r.z.state)
        offset == 0 - r.z.state.payload
        b == NewBackup(r.z, MaxElemCount)
    IN  IF ~ r.ok THEN r
        ELSE IF r.z.state.inside_cbor_bstr /\ e # "SUCCESS" THEN Fail(z, e)
        ELSE IF r.z.state.inside_cbor_bstr /\ StringRemainder(r.z.state) < len
        THEN Fail(z, "TOO_LARGE_FOR_STRING")
        ELSE IF ~ cborBstr
        THEN Done([r.z EXCEPT !.state.frag_offset = offset,
                              !.state.str_total_len = len,
                              !.state.inside_frag_str = TRUE])
        ELSE IF ~ b.ok THEN Fail(z, b.err)
        ELSE Done([b.z EXCEPT !.state.frag_offset_cbor = offset,
                              !.state.str_total_len_cbor = len,
                              !.state.inside_cbor_bstr = TRUE])

(* Mutated form: it only reports, as inside a CBOR bstr.                   *)
FragmentDecodeReporting(z) ==
    IF z.state.payload_end - z.state.payload <= 0 THEN Fail(z, "NO_PAYLOAD")
    ELSE IF StringError(z.state) # "SUCCESS" THEN Fail(z, StringError(z.state))
    ELSE Done(z)

(* zcbor_str_fragment_decode inside a plain fragmented string: consume     *)
(* what the section holds of it.  (Inside a CBOR bstr it only reports.)    *)
FragmentDecode(z) ==
    LET s == z.state
        e == StringError(s)
        left == s.payload_end - s.payload
        rem == StringRemainder(s)
    IN  IF left <= 0 THEN Fail(z, "NO_PAYLOAD")
        ELSE IF e # "SUCCESS" THEN Fail(z, e)
        ELSE IF ~ s.inside_frag_str THEN Done(z)
        ELSE Done([z EXCEPT !.state.payload = @ + (IF left < rem THEN left ELSE rem)])

(* zcbor_str_fragments_end_decode: for a CBOR bstr it ends the bstr, then  *)
(* clears the flag of the state just restored.                             *)
FragmentsEnd(z) ==
    LET s == z.state
        e == StringError(s)
        r == BstrEnd(z)
    IN  IF e # "SUCCESS" THEN Fail(z, e)
        ELSE IF StringRemainder(s) # 0 THEN Fail(z, "NOT_AT_END")
        ELSE IF s.inside_frag_str
        THEN Done([z EXCEPT !.state.inside_frag_str = FALSE])
        ELSE IF ~ r.ok THEN r
        ELSE Done([r.z EXCEPT !.state.inside_cbor_bstr = FALSE])
=============================================================================

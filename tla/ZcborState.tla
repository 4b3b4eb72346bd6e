------------------------------ MODULE ZcborState ------------------------------
(***************************************************************************)
(* The zcbor decoding/encoding state (zcbor_state_t), its stack of state   *)
(* backups, and its window on a payload that arrives in sections.          *)
(*                                                                         *)
(* The C functions mutate *state and return a bool, and the callers chain  *)
(* them with &&.  Here a function is an operator from a context to an      *)
(* outcome [ok, z, err]: the value returned, the context left behind (also *)
(* by a function that fails half way), and the error it stored.            *)
(*                                                                         *)
(* A context holds                                                         *)
(*   state        the live zcbor_state_t;                                  *)
(*   backup_list  the backups in use, so current_backup is its length;     *)
(*   base         the logical position, in the whole message, of the       *)
(*                first byte of the current payload section;               *)
(*   section      how many payload sections were supplied before it.       *)
(* base and section exist only here: the code keeps the address            *)
(* curr_payload_section.  Pointers become offsets from that address.       *)
(***************************************************************************)
EXTENDS Integers, Sequences

CONSTANTS
    NumBackups,     \* constant_state->num_backups
    MaxElemCount    \* ZCBOR_MAX_ELEM_COUNT, i.e. SIZE_MAX

ASSUME NumBackupsAssumption   == NumBackups \in Nat
ASSUME MaxElemCountAssumption == MaxElemCount \in Nat /\ MaxElemCount > 15

LargeElemCount == MaxElemCount - 15

Flags == {"RESTORE", "CONSUME", "KEEP_PAYLOAD", "KEEP_DECODE_STATE"}

DecodeState ==
    [ indefinite_length_array : BOOLEAN,
      counting_map_elems      : BOOLEAN,
      map_elems_processed     : Nat,
      map_start_backup_num    : Nat,
      map_elem_count          : Nat ]

State ==
    [ payload            : Nat,
      payload_end        : Nat,
      elem_count         : 0 .. MaxElemCount,
      payload_moved      : BOOLEAN,
      inside_cbor_bstr   : BOOLEAN,
      inside_frag_str    : BOOLEAN,
      frag_offset        : Int,
      str_total_len      : Nat,
      frag_offset_cbor   : Int,
      str_total_len_cbor : Nat,
      decode_state       : DecodeState ]

Context ==
    [ state : State, backup_list : Seq(State), base : Nat, section : Nat ]

Top(seq)    == seq[Len(seq)]
Popped(seq) == SubSeq(seq, 1, Len(seq) - 1)

(* What a backup keeps of the state whatever sections are fed meanwhile.   *)
Kept(s) ==
    <<s.elem_count, s.decode_state, s.inside_cbor_bstr, s.inside_frag_str,
      s.str_total_len, s.str_total_len_cbor>>

Done(z)      == [ok |-> TRUE,  z |-> z, err |-> "SUCCESS"]
Fail(z, err) == [ok |-> FALSE, z |-> z, err |-> err]

-----------------------------------------------------------------------------

(* zcbor_new_state: the decode_state fields an open map sets are not       *)
(* initialised by the code before a map is opened; 0 and FALSE stand for   *)
(* whatever they hold.                                                     *)
NewState(len, elems) ==
    [ state |->
        [ payload |-> 0, payload_end |-> len, elem_count |-> elems,
          payload_moved |-> FALSE,
          inside_cbor_bstr |-> FALSE, inside_frag_str |-> FALSE,
          frag_offset |-> 0, str_total_len |-> len,
          frag_offset_cbor |-> 0, str_total_len_cbor |-> len,
          decode_state |->
            [ indefinite_length_array |-> FALSE, counting_map_elems |-> FALSE,
              map_elems_processed |-> 0, map_start_backup_num |-> 0,
              map_elem_count |-> 0 ] ],
      backup_list |-> << >>, base |-> 0, section |-> 0 ]

(* zcbor_new_backup, zcbor_new_backup_w_elem_state.  payload_moved is      *)
(* cleared before the copy, so a backup starts out restorable.             *)
NewBackup(z, elems) ==
    LET unmoved == [z.state EXCEPT !.payload_moved = FALSE]
    IN  IF Len(z.backup_list) >= NumBackups
        THEN Fail(z, "NO_BACKUP_MEM")
        ELSE Done([z EXCEPT !.state = [unmoved EXCEPT !.elem_count = elems],
                            !.backup_list = Append(@, unmoved)])

(* Mutated form: the parent's decode_state is not put back.                *)
ProcessedKeepingDecodeState(live, backup, flags) ==
    IF "RESTORE" \in flags
    THEN [backup EXCEPT
            !.payload = IF "KEEP_PAYLOAD" \in flags THEN live.payload ELSE @,
            !.decode_state = live.decode_state]
    ELSE live

(* The live state once a backup has been processed: the backup (RESTORE),  *)
(* with the payload pointer or decode_state of the live state kept when    *)
(* the flags say so.                                                       *)
Processed(live, backup, flags) ==
    IF "RESTORE" \in flags
    THEN [backup EXCEPT
            !.payload = IF "KEEP_PAYLOAD" \in flags THEN live.payload ELSE @,
            !.decode_state =
                IF "KEEP_DECODE_STATE" \in flags THEN live.decode_state ELSE @]
    ELSE live

(* The restore would bring back a payload position of an old section.      *)
(* (NeverOutdated is its mutated form: the check is missing.)              *)
NeverOutdated(backup, flags) == FALSE
Outdated(backup, flags) ==
    /\ "RESTORE" \in flags /\ "KEEP_PAYLOAD" \notin flags
    /\ backup.payload_moved

(* zcbor_process_backup_num.  Every caller passes ZCBOR_MAX_ELEM_COUNT, so *)
(* the HIGH_ELEM_COUNT check of the code cannot fire and is left out.      *)
ProcessBackupNum(z, flags, num) ==
    IF \/ num \notin 1 .. Len(z.backup_list)
       \/ /\ "CONSUME" \in flags
          /\ "KEEP_DECODE_STATE" \in flags \/ num # Len(z.backup_list)
    THEN Fail(z, "BAD_ARG")
    ELSE IF Outdated(z.backup_list[num], flags)
    THEN Fail(z, "PAYLOAD_OUTDATED")
    ELSE Done([z EXCEPT
                !.state = Processed(@, z.backup_list[num], flags),
                !.backup_list =
                    IF "CONSUME" \in flags THEN SubSeq(@, 1, num - 1) ELSE @])

(* zcbor_process_backup: the innermost backup.                             *)
ProcessBackup(z, flags) ==
    IF z.backup_list = << >>
    THEN Fail(z, "NO_BACKUP_ACTIVE")
    ELSE ProcessBackupNum(z, flags, Len(z.backup_list))

(* Mutated form: what the failed construct left behind stays.              *)
DropNothing(z, num) == z

(* state->constant_state->current_backup = num, as multi_decode_backup and *)
(* the generated union and *_frag_item code do before they roll back.      *)
DropTo(z, num) ==
    [z EXCEPT !.backup_list = SubSeq(@, 1, num)]

(* Mutated form: the difference is compared as a signed number.            *)
ClampToStringSigned(len, left) == IF left <= len THEN left ELSE len

(* MIN(payload_len, (size_t)left): a negative difference becomes a huge    *)
(* size_t, so it does not limit anything.                                  *)
ClampToString(len, left) == IF left \in 0 .. len THEN left ELSE len

(* Mutated form: the length of the string is forgotten.                    *)
EnterSectionUnclamped(s, len, prev_len) ==
    [s EXCEPT !.payload = 0, !.payload_end = len,
              !.frag_offset = @ + prev_len, !.frag_offset_cbor = @ + prev_len]

(* Mutated form: frag_offset_cbor is not advanced.                         *)
EnterSectionSameString(s, len, prev_len) ==
    [s EXCEPT !.payload = 0,
              !.payload_end = IF s.inside_cbor_bstr
                              THEN ClampToString(len, s.str_total_len_cbor - s.frag_offset_cbor)
                              ELSE len,
              !.frag_offset = @ + prev_len]

(* update_state: s enters the next payload section, of len bytes, having   *)
(* consumed prev_len bytes of the old one.                                 *)
EnterSection(s, len, prev_len) ==
    LET fo == s.frag_offset_cbor + prev_len
    IN  [s EXCEPT
            !.payload = 0,
            !.payload_end = IF s.inside_cbor_bstr
                            THEN ClampToString(len, s.str_total_len_cbor - fo)
                            ELSE len,
            !.frag_offset = @ + prev_len,
            !.frag_offset_cbor = fo]

(* Mutated form: the backups are not marked.                               *)
UpdateStateUnmarked(z, len) ==
    [ state |-> EnterSection(z.state, len, z.state.payload),
      backup_list |-> [i \in 1 .. Len(z.backup_list) |->
                        EnterSection(z.backup_list[i], len, z.state.payload)],
      base |-> z.base + z.state.payload, section |-> z.section + 1 ]

(* Mutated form: each backup moves from its own payload position.          *)
UpdateStateOwnPayload(z, len) ==
    [ state |-> EnterSection(z.state, len, z.state.payload),
      backup_list |-> [i \in 1 .. Len(z.backup_list) |->
                        [EnterSection(z.backup_list[i], len, z.backup_list[i].payload)
                            EXCEPT !.payload_moved = TRUE]],
      base |-> z.base + z.state.payload, section |-> z.section + 1 ]

(* Mutated form: the backups get the whole section.                        *)
UpdateStateBackupsUnclamped(z, len) ==
    [ state |-> EnterSection(z.state, len, z.state.payload),
      backup_list |-> [i \in 1 .. Len(z.backup_list) |->
                        [EnterSectionUnclamped(z.backup_list[i], len, z.state.payload)
                            EXCEPT !.payload_moved = TRUE]],
      base |-> z.base + z.state.payload, section |-> z.section + 1 ]

(* zcbor_update_state with update_backups: every live backup moves too,    *)
(* from the live payload position, and is marked.  The bytes left in the   *)
(* old section are abandoned.  (update_state's early return for a payload  *)
(* before its section cannot happen: payload \in Nat.)                     *)
UpdateState(z, len) ==
    LET prev_len == z.state.payload
    IN  [ state |-> EnterSection(z.state, len, prev_len),
          backup_list |->
            [i \in 1 .. Len(z.backup_list) |->
                [EnterSection(z.backup_list[i], len, prev_len)
                    EXCEPT !.payload_moved = TRUE]],
          base |-> z.base + prev_len,
          section |-> z.section + 1 ]

(* zcbor_current_string_offset and zcbor_current_string_remainder: where   *)
(* in the fragmented string, or CBOR bstr, the payload pointer is.         *)
StringOffset(s) ==
    s.payload + (IF s.inside_frag_str THEN s.frag_offset ELSE s.frag_offset_cbor)

StringTotal(s) ==
    IF s.inside_frag_str THEN s.str_total_len ELSE s.str_total_len_cbor

StringError(s) ==
    IF ~ s.inside_frag_str /\ ~ s.inside_cbor_bstr THEN "NOT_IN_FRAGMENT"
    ELSE IF StringOffset(s) \notin 0 .. StringTotal(s) THEN "BAD_STATE"
    ELSE "SUCCESS"

StringRemainder(s) == StringTotal(s) - StringOffset(s)

(* zcbor_union_start_code, zcbor_union_elem_code, zcbor_union_end_code.    *)
UnionStart(z) == NewBackup(z, z.state.elem_count)
UnionElem(z)  == ProcessBackup(z, {"RESTORE"})
UnionEnd(z)   == ProcessBackup(z, {"CONSUME"})
=============================================================================

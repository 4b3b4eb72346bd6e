------------------------------ MODULE UnorderedMap ------------------------------
(***************************************************************************)
(* Decoding a map whose pairs arrive in any order: the search functions of *)
(* zcbor_decode.c (built without ZCBOR_MAP_SMART_SEARCH, so found pairs    *)
(* are only counted), driven by the decoder cddl2c generates for a map     *)
(* rule: one search per member in CDDL order, then the end of the map.     *)
(*                                                                         *)
(* Lengths are in elements: the header is the element at offset 0, the     *)
(* i-th key of the wire is at 2i - 1 and its value at 2i, and an           *)
(* indefinite-length map has its break byte after the last value.          *)
(***************************************************************************)
EXTENDS ZcborDecode, FiniteSets

CONSTANTS
    Keys,       \* the keys that occur, in schemas and on the wire
    Cases       \* <<schema, wire>>: a map rule (Schema) and a message (Wire)

(* A member decodes the pairs with its key: min = max = 1, 0 and 1 ("?"),  *)
(* or min*max.  open: the rule ends in "* any => any".                     *)
Member == [key : Keys, min : Nat, max : Nat \ {0}]
Schema == [members : Seq(Member), open : BOOLEAN]

(* pairs: the key of each pair, and whether the value has the type the     *)
(* schema wants; cut: the payload ends before this element (cut = Total    *)
(* is the whole message).                                                  *)
Wire == [pairs : Seq([key : Keys, good : BOOLEAN]), indefinite : BOOLEAN, cut : Nat]

Total(w) == 1 + 2 * Len(w.pairs) + (IF w.indefinite THEN 1 ELSE 0)

(* SIZE_MAX - 15 is even.                                                  *)
ASSUME MapInputsAssumption ==
    /\ Cases \subseteq Schema \X Wire
    /\ \A c \in Cases : 2 * Len(c[2].pairs) < LargeElemCount /\ c[2].cut <= Total(c[2])
    /\ LargeElemCount % 2 = 0
    /\ NumBackups >= 1

VARIABLES
    schema, wire,   \* chosen once
    z,              \* the zcbor context
    pc,             \* what the generated function is doing
    m,              \* the member it is at
    from,           \* payload and elem_count when the search began
    result          \* for each member, the wire pairs decoded into it

vars == <<schema, wire, z, pc, m, from, result>>

Steps == {"start", "search", "scan", "value", "end", "skip", "accepted", "rejected"}

members == schema.members
ds == z.state.decode_state

-----------------------------------------------------------------------------
(* The message.                                                            *)

AtBreak(s)  == wire.indefinite /\ s.payload < s.payload_end /\ s.payload = Total(wire) - 1
AtKey(s)    == s.payload % 2 = 1 /\ s.payload < 2 * Len(wire.pairs)
PairAt(s)   == (s.payload + 1) \div 2

(* zcbor_array_at_end.                                                     *)
AtEnd(s) ==
    IF s.decode_state.indefinite_length_array THEN AtBreak(s) ELSE s.elem_count = 0

(* zcbor_any_skip of an element that is one token; the break byte is not a *)
(* value.  Nothing changes when it fails.                                  *)
AnySkip(c) == IF AtBreak(c.state) THEN Fail(c, "ADDITIONAL_INVAL") ELSE ValueExtract(c, 1)

-----------------------------------------------------------------------------
(* The functions of zcbor_decode.c.                                        *)

Max2(a, b) == IF a > b THEN a ELSE b

(* Mutated form: the elements are counted, not the pairs.                  *)
UnorderedMapStartUnhalved(c, h, n, indefinite) ==
    LET r == MapStart(c, h, n, indefinite)
    IN  IF ~ r.ok THEN r
        ELSE Done([r.z EXCEPT
                !.state.decode_state.map_elems_processed = 0,
                !.state.decode_state.counting_map_elems = indefinite,
                !.state.decode_state.map_elem_count =
                    IF indefinite THEN 0 ELSE r.z.state.elem_count])

(* zcbor_unordered_map_start_decode.                                       *)
UnorderedMapStart(c, h, n, indefinite) ==
    LET r == MapStart(c, h, n, indefinite)
    IN  IF ~ r.ok THEN r
        ELSE Done([r.z EXCEPT
                !.state.decode_state.map_elems_processed = 0,
                !.state.decode_state.counting_map_elems = indefinite,
                !.state.decode_state.map_elem_count =
                    IF indefinite THEN 0 ELSE r.z.state.elem_count \div 2])

(* zcbor_current_max_elem_count.                                           *)
CurrentMaxElemCount(s) ==
    IF s.decode_state.indefinite_length_array
    THEN LargeElemCount ELSE 2 * s.decode_state.map_elem_count

(* Mutated form: the restored elem_count, the parent's, is kept.           *)
MapRestartParentCount(c) ==
    ProcessBackupNum(c, {"RESTORE", "KEEP_DECODE_STATE"},
                     c.state.decode_state.map_start_backup_num)

(* map_restart: back to the first key, from the backup the map start took, *)
(* keeping the search bookkeeping.                                         *)
MapRestart(c) ==
    LET r == ProcessBackupNum(c, {"RESTORE", "KEEP_DECODE_STATE"},
                              c.state.decode_state.map_start_backup_num)
    IN  IF r.ok
        THEN Done([r.z EXCEPT !.state.elem_count = CurrentMaxElemCount(r.z.state)])
        ELSE r

(* handle_map_end: the pairs of an indefinite map have all been counted.   *)
HandleMapEnd(c) ==
    MapRestart([c EXCEPT !.state.decode_state.counting_map_elems = FALSE])

(* update_map_elem_count as the scan calls it while counting.              *)
CountPairs(c) ==
    IF c.state.decode_state.counting_map_elems
    THEN [c EXCEPT !.state.decode_state.map_elem_count =
            Max2(@, (LargeElemCount - c.state.elem_count + 2) \div 2)]
    ELSE c

(* Mutated form: a pair is tried although all are accounted for, or the    *)
(* count is one behind.                                                    *)
ShouldTryBehind(s) ==
    s.decode_state.map_elems_processed + 1 < s.decode_state.map_elem_count

(* should_try_key.                                                         *)
ShouldTry(s) ==
    s.decode_state.map_elems_processed < s.decode_state.map_elem_count

(* Mutated form: the pair is not counted.                                  *)
ElemProcessedUncounted(c) ==
    IF c.state.elem_count >= CurrentMaxElemCount(c.state)
    THEN Fail(c, "MAP_MISALIGNED") ELSE Done(c)

(* zcbor_elem_processed.                                                   *)
ElemProcessed(c) ==
    IF c.state.elem_count >= CurrentMaxElemCount(c.state)
    THEN Fail(c, "MAP_MISALIGNED")
    ELSE Done([c EXCEPT !.state.decode_state.map_elems_processed =
                IF ShouldTry(c.state) THEN @ + 1 ELSE @])

(* The checks at the top of zcbor_unordered_map_search.                    *)
SearchError(s) ==
    IF s.elem_count % 2 = 1 THEN "MAP_MISALIGNED"
    ELSE IF ~ s.decode_state.counting_map_elems /\ ~ ShouldTry(s) THEN "ELEM_NOT_FOUND"
    ELSE "SUCCESS"

(* Mutated form: what the key decoder returned is not looked at.           *)
KeyMatchesAny(c, key) ==
    ShouldTry(c.state) /\ AtKey(c.state) /\ ValueExtract(c, 1).ok

(* try_key: the key decoder consumes the key when it is the one wanted.    *)
KeyMatches(c, key) ==
    /\ ShouldTry(c.state)
    /\ AtKey(c.state) /\ ValueExtract(c, 1).ok
    /\ wire.pairs[PairAt(c.state)].key = key

(* Skip over both the key and the value.                                   *)
SkipPair(c) == LET r == AnySkip(c) IN IF r.ok THEN AnySkip(r.z) ELSE r

-----------------------------------------------------------------------------
(* The generated function.                                                 *)

Init ==
    /\ \E c \in Cases : schema = c[1] /\ wire = c[2]
    /\ z = NewState(wire.cut, 1)
    /\ pc = "start" /\ m = 1
    /\ from = [payload |-> 0, elem_count |-> 0]
    /\ result = [i \in DOMAIN members |-> << >>]

Goto(step) == pc' = step

StartMap ==
    /\ pc = "start"
    /\ LET r == UnorderedMapStart(z, 1, Len(wire.pairs), wire.indefinite)
       IN  z' = r.z /\ Goto(IF r.ok THEN "search" ELSE "rejected")
    /\ UNCHANGED <<schema, wire, m, from, result>>

(* The next call the generated code makes for member m.                    *)
NextMember == m' = m + 1 /\ Goto("search")

NotFound ==
    IF Len(result[m]) < members[m].min
    THEN Goto("rejected") /\ UNCHANGED m
    ELSE NextMember

Full(i) == Len(result[i]) >= members[i].max

(* A repeated member that reached its maximum is not searched for again.   *)
MemberFull ==
    /\ pc = "search" /\ m <= Len(members) /\ Full(m)
    /\ NextMember
    /\ UNCHANGED <<schema, wire, z, from, result>>

(* zcbor_search_key_*: the checks and the fast path.                       *)
BeginSearch ==
    /\ pc = "search" /\ m <= Len(members) /\ ~ Full(m)
    /\ IF SearchError(z.state) = "SUCCESS"
       THEN /\ from' = [payload |-> z.state.payload, elem_count |-> z.state.elem_count]
            /\ Goto("scan") /\ UNCHANGED m
       ELSE NotFound /\ UNCHANGED from
    /\ UNCHANGED <<schema, wire, z, result>>

(* The loop ends, having found nothing, when elem_count is back at its     *)
(* first value; payload and elem_count are put back, decode_state is not.  *)
ScanOn(c) ==
    IF c.state.elem_count # from.elem_count
    THEN z' = c /\ Goto("scan") /\ UNCHANGED m
    ELSE z' = [c EXCEPT !.state.payload = from.payload] /\ NotFound

(* Mutated form: the cursor stays where the scan failed.                   *)
ScanErrorUnrestored(c) == z' = c /\ NotFound

(* goto error.                                                             *)
ScanError(c) ==
    /\ z' = [c EXCEPT !.state.payload = from.payload, !.state.elem_count = from.elem_count]
    /\ NotFound

(* At the end of the map the scan goes on from its start.                  *)
ScanWraps ==
    /\ pc = "scan" /\ AtEnd(z.state)
    /\ LET r == HandleMapEnd(z) IN IF r.ok THEN ScanOn(r.z) ELSE ScanError(r.z)
    /\ UNCHANGED <<schema, wire, from, result>>

KeyFound ==
    /\ pc = "scan" /\ ~ AtEnd(z.state)
    /\ KeyMatches(CountPairs(z), members[m].key)
    /\ z' = ValueExtract(CountPairs(z), 1).z
    /\ Goto("value")
    /\ UNCHANGED <<schema, wire, m, from, result>>

KeySkipped ==
    /\ pc = "scan" /\ ~ AtEnd(z.state)
    /\ ~ KeyMatches(CountPairs(z), members[m].key)
    /\ LET r == SkipPair(CountPairs(z))
       IN  IF r.ok THEN ScanOn(r.z) ELSE ScanError(CountPairs(z))
    /\ UNCHANGED <<schema, wire, from, result>>

(* Decode the value and mark the pair; any failure fails the function.     *)
DecodeValue ==
    /\ pc = "value"
    /\ LET pair == z.state.payload \div 2
           v == AnySkip(z)
           r == ElemProcessed(v.z)
       IN  IF v.ok /\ wire.pairs[pair].good /\ r.ok
           THEN /\ z' = r.z
                /\ result' = [result EXCEPT ![m] = Append(@, pair)]
                /\ IF members[m].max = 1 THEN NextMember ELSE Goto("search") /\ UNCHANGED m
           ELSE Goto("rejected") /\ UNCHANGED <<z, m, result>>
    /\ UNCHANGED <<schema, wire, from>>

(* zcbor_unordered_map_end_decode, up to its skipping loop; an open map is *)
(* ended by zcbor_map_end_decode_skip_unknown, which starts with the loop. *)
EndMap ==
    /\ pc = "search" /\ m > Len(members)
    /\ Goto(IF \/ schema.open
               \/ /\ AtEnd(z.state) \/ ~ ds.counting_map_elems
                  /\ ds.map_elem_count = 0 \/ ~ ShouldTry(z.state)
            THEN "skip" ELSE "rejected")
    /\ UNCHANGED <<schema, wire, z, m, from, result>>

(* while (!at_end) any_skip: only the open map's loop looks at the result. *)
SkipRest ==
    /\ pc = "skip" /\ ~ AtEnd(z.state)
    /\ z' = AnySkip(z).z
    /\ Goto(IF schema.open /\ ~ AnySkip(z).ok THEN "rejected" ELSE "skip")
    /\ UNCHANGED <<schema, wire, m, from, result>>

(* zcbor_map_end_decode.                                                   *)
CloseMap ==
    /\ pc = "skip" /\ AtEnd(z.state)
    /\ LET r == ListMapEnd(z, AtBreak(z.state))
       IN  z' = r.z /\ Goto(IF r.ok THEN "accepted" ELSE "rejected")
    /\ UNCHANGED <<schema, wire, m, from, result>>

Next ==
    \/ StartMap \/ MemberFull \/ BeginSearch \/ ScanWraps \/ KeyFound \/ KeySkipped
    \/ DecodeValue \/ EndMap \/ SkipRest \/ CloseMap

(* The decoder is sequential code: it keeps executing until it returns.    *)
Spec == Init /\ [][Next]_vars /\ WF_vars(Next)

-----------------------------------------------------------------------------
(* What CDDL says of the message, with no decoder in sight.                *)

PairsOf(key) == { i \in DOMAIN wire.pairs : wire.pairs[i].key = key }
MemberKeys   == { members[i].key : i \in DOMAIN members }

(* The message is an instance of the schema.  In an open map, pairs beyond *)
(* a member's maximum are extensions like any other pair.                  *)
Matches ==
    /\ wire.cut = Total(wire)
    /\ \A i \in DOMAIN members :
        LET own == PairsOf(members[i].key) IN
        /\ Cardinality(own) >= members[i].min
        /\ schema.open \/ Cardinality(own) <= members[i].max
    /\ schema.open \/ \A i \in DOMAIN wire.pairs : wire.pairs[i].key \in MemberKeys

Values(i) == { result[i][j] : j \in DOMAIN result[i] }

-----------------------------------------------------------------------------
(* Properties.                                                             *)

(* The state keeps its C types and the generated function its control      *)
(* points; the pairs processed are pairs counted, and those are on the     *)
(* wire, but for the missing one a scan of a truncated map counts last.    *)
TypeOK ==
    /\ z \in Context
    /\ ds.map_elem_count \in
            0 .. Len(wire.pairs) + (IF wire.cut < Total(wire) THEN 1 ELSE 0)
    /\ ds.map_elems_processed \in 0 .. ds.map_elem_count
    /\ pc \in Steps
    /\ m \in 1 .. Len(members) + 1
    /\ from \in [payload : Nat, elem_count : Nat]
    /\ \A i \in DOMAIN result : \A j \in DOMAIN result[i] : result[i][j] \in DOMAIN wire.pairs

(* Maps decode in any wire order: a message that matches the schema, in    *)
(* any order of its pairs, definite or indefinite, is not rejected as long *)
(* as its values have the right types.                                     *)
MatchingAccepted ==
    pc = "rejected" => ~ Matches \/ \E i \in DOMAIN wire.pairs : ~ wire.pairs[i].good

(* Maps are closed unless declared open: what is accepted matches the      *)
(* schema (unknown keys, missing members, duplicates, truncated messages   *)
(* are rejected).                                                          *)
AcceptedMatches == pc = "accepted" => Matches

(* Each member gets pairs with its own key, each of them once.             *)
ResultFaithful ==
    pc = "accepted" =>
        \A i \in DOMAIN members :
            /\ Values(i) \subseteq PairsOf(members[i].key)
            /\ Cardinality(Values(i)) = Len(result[i])

(* Between searches the scan is aligned with the pairs: elem_count and the *)
(* payload pointer agree about where in the map it is, in either form.     *)
CursorAligned ==
    pc \in {"search", "scan"} =>
        z.state.payload - 1 = CurrentMaxElemCount(z.state) - z.state.elem_count

(* A search that finds nothing leaves the cursor where it was.             *)
FailedSearchStep ==
    pc = "scan" /\ pc' \in {"search", "rejected"} =>
        /\ z'.state.payload = from.payload
        /\ z'.state.elem_count = from.elem_count
FailedSearchRestores == [][FailedSearchStep]_vars

(* The decoder returns: no scan wraps round for ever, and the loop that    *)
(* skips the rest of a closed map ends although it ignores any_skip's      *)
(* result.                                                                 *)
DecoderReturns == <>(pc \in {"accepted", "rejected"})
=============================================================================

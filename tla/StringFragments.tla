---------------------------- MODULE StringFragments ----------------------------
(***************************************************************************)
(* Fragments of a string that arrives in payload sections, as the decoder  *)
(* hands them out, and the functions of zcbor_common.c that check and join *)
(* a collection of them.                                                   *)
(*                                                                         *)
(* A fragment is a struct zcbor_string_fragment; its value is the bytes    *)
(* themselves, which the caller must take before it reuses the section.    *)
(* present is FALSE for an array element that was never filled in: its     *)
(* value pointer is NULL.                                                  *)
(***************************************************************************)
EXTENDS ZcborDecode, CborBytes, SequencesExt

Fragment(value, offset, total_len) ==
    [present |-> TRUE, value |-> value, offset |-> offset, total_len |-> total_len]

NoFragment == [present |-> FALSE, value |-> << >>, offset |-> 0, total_len |-> 0]

FragmentType ==
    [present : BOOLEAN, value : Seq(Byte), offset : Nat, total_len : 0 .. MaxElemCount]

(* Mutated form: the offset is taken back by the length, as for a CBOR     *)
(* string, whose payload pointer is already behind the fragment.           *)
DecodedFragmentBehind(s, t, section) ==
    Fragment(SubSeq(section, s.payload + 1, t.payload),
             StringOffset(s) - (t.payload - s.payload), s.str_total_len)

(* What zcbor_str_fragment_decode reports of the bytes between the payload *)
(* pointers of s, before, and t, after, in a section with these bytes.     *)
DecodedFragment(s, t, section) ==
    Fragment(SubSeq(section, s.payload + 1, t.payload), StringOffset(s), s.str_total_len)

(* Mutated form: the last byte of the string is not counted.               *)
IsLastFragmentEarly(f) == f.total_len - 1 <= f.offset + Len(f.value)

(* zcbor_is_last_fragment.                                                 *)
IsLastFragment(f) == f.total_len = f.offset + Len(f.value)

LengthOf(fragments) == FoldLeft(LAMBDA sum, f : sum + Len(f.value), 0, fragments)

Preceding(fragments, i) == LengthOf(SubSeq(fragments, 1, i - 1))

(* Mutated form: a fragment may begin after the end of the one before it.  *)
ValidStringFragmentsGap(fragments) ==
    /\ \A i \in DOMAIN fragments :
        /\ fragments[i].offset >= Preceding(fragments, i)
        /\ fragments[i].present
        /\ fragments[i].total_len = fragments[1].total_len
        /\ Preceding(fragments, i + 1) <= fragments[1].total_len
    /\ fragments # << >> => IsLastFragment(Last(fragments))

(* Mutated form: the sum is not compared with the total at the end.        *)
ValidStringFragmentsPrefix(fragments) ==
    \A i \in DOMAIN fragments :
        /\ fragments[i].offset = Preceding(fragments, i)
        /\ fragments[i].present
        /\ fragments[i].total_len = fragments[1].total_len
        /\ Preceding(fragments, i + 1) <= fragments[1].total_len

(* zcbor_validate_string_fragments: each fragment begins where those       *)
(* before it end, and together they have the length that all of them give. *)
(* (The sum is a size_t; while it is at most total_len it cannot wrap.)    *)
ValidStringFragments(fragments) ==
    /\ \A i \in DOMAIN fragments :
        /\ fragments[i].offset = Preceding(fragments, i)
        /\ fragments[i].present
        /\ fragments[i].total_len = fragments[1].total_len
        /\ Preceding(fragments, i + 1) <= fragments[1].total_len
    /\ fragments # << >> => LengthOf(fragments) = fragments[1].total_len

(* zcbor_splice_string_fragments into a buffer of result_len bytes: what   *)
(* is written before the first fragment that does not fit, and whether     *)
(* there was one.                                                          *)
SpliceStringFragments(fragments, result_len) ==
    LET fitting == {n \in 0 .. Len(fragments) : Preceding(fragments, n + 1) <= result_len}
        written == SubSeq(fragments, 1, CHOOSE n \in fitting : \A k \in fitting : k <= n)
    IN  [ ok |-> written = fragments,
          result |-> FlattenSeq([i \in DOMAIN written |-> written[i].value]) ]
=============================================================================

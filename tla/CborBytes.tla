------------------------------- MODULE CborBytes -------------------------------
(***************************************************************************)
(* The bytes an encoder writes.                                            *)
(*                                                                         *)
(* A byte says which value it belongs to and which byte of it it is, so a  *)
(* header that is cut, moved or written over is told from a whole one.     *)
(* What is in it otherwise is not modelled: arg is the count, length or    *)
(* value in the header.                                                    *)
(***************************************************************************)
EXTENDS Integers, Sequences

CONSTANTS
    InHeader,       \* ZCBOR_VALUE_IN_HEADER: 23, the most held in one byte
    InOneByte,      \* 0xFF
    InTwoBytes,     \* 0xFFFF
    InFourBytes     \* 0xFFFFFFFF

(* The length of a header grows by less than the distance to the next      *)
(* threshold, as it does by far for the values of the code.  (One more at  *)
(* the last: a string of zcbor_bstr_start_encode would outgrow its dummy.) *)
ASSUME ThresholdsAssumption ==
    /\ InHeader \in Nat /\ InOneByte \in Nat /\ InTwoBytes \in Nat /\ InFourBytes \in Nat
    /\ InHeader >= 1
    /\ InOneByte > InHeader + 1 /\ InTwoBytes > InOneByte + 2 /\ InFourBytes > InTwoBytes + 5

(* zcbor_header_len.                                                       *)
HeaderLen(value) ==
    IF value <= InHeader THEN 1
    ELSE IF value <= InOneByte THEN 2
    ELSE IF value <= InTwoBytes THEN 3
    ELSE IF value <= InFourBytes THEN 5
    ELSE 9

Kinds == {"value", "tag", "list", "map", "bstr", "tstr", "data", "none"}

Byte == [kind : Kinds, arg : Nat, index : Nat]

Bytes(kind, arg, len) == [i \in 1 .. len |-> [kind |-> kind, arg |-> arg, index |-> i]]

Header(kind, arg) == Bytes(kind, arg, HeaderLen(arg))

(* The contents of a string, from its from-th byte on.                     *)
Data(from, len) == [i \in 1 .. len |-> [kind |-> "data", arg |-> 0, index |-> from + i]]

Unwritten == [kind |-> "none", arg |-> 0, index |-> 0]
=============================================================================

------------------------------ MODULE StateBudget ------------------------------
(***************************************************************************)
(* How many zcbor states a generated decoder gets, and how many it needs.  *)
(*                                                                         *)
(* The generator emits a C type and its functions for one CDDL rule after  *)
(* the other, from the types it emitted before (codegen.zig resolves a     *)
(* reference before it goes on).  For each it computes a depth, and from   *)
(* the depth the size of the zcbor_state_t array the decoder runs on.      *)
(* Here every emitted type also records need: the most backups its         *)
(* generated decode function holds at once, by the calls it makes.  Its    *)
(* text is left out.                                                       *)
(*                                                                         *)
(* A fragmented API also hands zcbor the number of elements of its         *)
(* container as the size hint of the encoder; fewest and most are the      *)
(* elements an encoding of a type can have.                                *)
(***************************************************************************)
EXTENDS Naturals, FiniteSets

CONSTANTS
    UnorderedMaps,      \* opts.xcode.unordered_maps
    RepeatIn,           \* where the schemas have repeated members
    InlineChoices,      \* they have "( a // b )" as members of an array
    MaxQty,             \* the most occurrences of a repeated member
    MaxTypes,           \* bound: types emitted
    MaxMembers          \* bound: members of a struct, arms of a choice

Framings == {"map", "array", "group"}

ASSUME BudgetAssumption ==
    /\ UnorderedMaps \in BOOLEAN /\ InlineChoices \in BOOLEAN
    /\ RepeatIn \subseteq Framings
    /\ MaxQty \in Nat /\ MaxTypes \in Nat /\ MaxMembers \in Nat

VARIABLES
    emitted,    \* the types emitted so far
    walk,       \* the struct or choice being emitted
    frag        \* the fragmented API of the type emitted last, if it has one

vars == <<emitted, walk, frag>>

(* CType, and Named for a struct.  group: a value, or the members of a     *)
(* group, which other members stand beside in a container; stream: what    *)
(* the fragmented API makes of a last member of the type; item_*: of the   *)
(* type cbor_item points to.                                               *)
CType ==
    [ group : {"no", "ordered", "keyed"}, choice : BOOLEAN,
      stream : {"no", "string", "cbor"},
      depth : Nat, need : Nat, fewest : Nat, most : Nat,
      item_depth : Nat, item_need : Nat ]

Scalar ==
    [ group |-> "no", choice |-> FALSE, stream |-> "no",
      depth |-> 0, need |-> 0, fewest |-> 1, most |-> 1,
      item_depth |-> 0, item_need |-> 0 ]
String == [Scalar EXCEPT !.stream = "string"]

(* Walk, with the locals of emitGroupChoiceStruct and emitUnionStruct.     *)
(* need_before: of the members before the last, which *_frag_begin decodes *)
Walk ==
    [ kind : {"none", "struct", "groups", "types"},
      framing : Framings, keyed : BOOLEAN, members : Nat,
      max_depth : Nat, max_need : Nat, need_before : Nat,
      has_repeat : BOOLEAN, all_one : BOOLEAN,
      last_direct : BOOLEAN, last_ctype : CType,
      enc_hint : Nat, fewest : Nat, most : Nat ]

NewWalk(kind, framing, keyed) ==
    [ kind |-> kind, framing |-> framing, keyed |-> keyed, members |-> 0,
      max_depth |-> 0, max_need |-> 0, need_before |-> 0,
      has_repeat |-> FALSE, all_one |-> TRUE,
      last_direct |-> FALSE, last_ctype |-> Scalar,
      enc_hint |-> 0, fewest |-> 0, most |-> 0 ]

NoWalk == NewWalk("none", "group", FALSE)

Frag == [n_states : Nat, need : Nat, n_elems : Nat, fewest : Nat, most : Nat]

Larger(a, b)  == IF a > b THEN a ELSE b
Smaller(a, b) == IF a < b THEN a ELSE b

Container(framing) == IF framing = "group" THEN 0 ELSE 1

(* walk.search: members are found by key, in any order.                    *)
Search(w) == UnorderedMaps /\ w.framing = "map" /\ w.keyed

(* num_backups of zcbor_new_state: one state is the live one, one the      *)
(* constant state.                                                         *)
Backups(n_states) == IF n_states < 2 THEN 0 ELSE n_states - 2

(* emitEntryFunctions.                                                     *)
EntryStates(depth) == depth * 2 + 3

-----------------------------------------------------------------------------

Init ==
    /\ emitted = {Scalar, String}
    /\ walk = NoWalk
    /\ frag = {}

Idle == walk.kind = "none" /\ Cardinality(emitted) < MaxTypes

(* emitStruct. Groups emit a struct of their own when they are an arm of a *)
(* group choice, keyed in a map, or repeated, which a keyed one cannot be. *)
BeginStruct ==
    /\ Idle
    /\ \E framing \in Framings, keyed \in BOOLEAN :
        /\ framing = "map" => keyed
        /\ framing = "array" => ~ keyed
        /\ walk' = NewWalk("struct", framing, keyed)
    /\ UNCHANGED <<emitted, frag>>

(* A member of type t can occur so: a keyed struct needs keys, which a     *)
(* group has not; a group that occurs once is spliced, unless a choice.    *)
CanOccur(t, occur) ==
    /\ t.group # "no" => /\ ~ walk.keyed /\ t.group = "ordered"
                         /\ occur = "one" => t.choice /\ InlineChoices
    /\ occur = "repeat" => walk.framing \in RepeatIn

(* zcbor_multi_decode_w_backup holds a backup during each attempt; a key   *)
(* search and the inline attempt of an optional member take none.          *)
MemberNeed(w, t, occur) ==
    t.need + (IF occur = "repeat" /\ ~ Search(w) THEN 1 ELSE 0)

(* Mutated form: an optional member counts as occurring once.              *)
WithMemberAlwaysOne(w, t, occur) ==
    LET max == IF occur = "repeat" THEN MaxQty ELSE 1
    IN  [ kind |-> w.kind, framing |-> w.framing, keyed |-> w.keyed,
          members |-> w.members + 1,
          max_depth |-> Larger(w.max_depth, t.depth),
          max_need |-> Larger(w.max_need, MemberNeed(w, t, occur)),
          need_before |-> w.max_need,
          has_repeat |-> w.has_repeat \/ occur # "one",
          all_one |-> w.all_one /\ occur # "repeat",
          last_direct |-> t.group = "no",
          last_ctype |-> IF t.group = "no" THEN t ELSE w.last_ctype,
          enc_hint |-> w.enc_hint + max,
          fewest |-> w.fewest + (IF occur = "one" THEN t.fewest ELSE 0),
          most |-> w.most + max * t.most ]

(* addMember.                                                              *)
WithMember(w, t, occur) ==
    LET max == IF occur = "repeat" THEN MaxQty ELSE 1
    IN  [ kind |-> w.kind, framing |-> w.framing, keyed |-> w.keyed,
          members |-> w.members + 1,
          max_depth |-> Larger(w.max_depth, t.depth),
          max_need |-> Larger(w.max_need, MemberNeed(w, t, occur)),
          need_before |-> w.max_need,
          has_repeat |-> w.has_repeat \/ occur # "one",
          all_one |-> w.all_one /\ occur = "one",
          last_direct |-> t.group = "no",
          last_ctype |-> IF t.group = "no" THEN t ELSE w.last_ctype,
          enc_hint |-> w.enc_hint + max,
          fewest |-> w.fewest + (IF occur = "one" THEN t.fewest ELSE 0),
          most |-> w.most + max * t.most ]

AddMember ==
    /\ walk.kind = "struct" /\ walk.members < MaxMembers
    /\ \E t \in emitted, occur \in {"one", "optional", "repeat"} :
        CanOccur(t, occur) /\ walk' = WithMember(walk, t, occur)
    /\ UNCHANGED <<emitted, frag>>

(* "* any => any": the map is open.  Nothing is decoded or encoded for it. *)
AddExtension ==
    /\ walk.kind = "struct" /\ walk.keyed
    /\ walk' = [walk EXCEPT !.all_one = FALSE]
    /\ UNCHANGED <<emitted, frag>>

GroupOf(w) ==
    IF w.framing # "group" THEN "no" ELSE IF w.keyed THEN "keyed" ELSE "ordered"

(* A container is one element of what it is in; a group is its elements.   *)
Elements(w, n) == IF w.framing = "group" THEN n ELSE 1

StructOf(w) ==
    [ group |-> GroupOf(w), choice |-> FALSE, stream |-> "no",
      depth |-> Container(w.framing) + Larger(w.max_depth, IF w.has_repeat THEN 1 ELSE 0),
      need |-> Container(w.framing) + w.max_need,
      fewest |-> Elements(w, w.fewest), most |-> Elements(w, w.most),
      item_depth |-> 0, item_need |-> 0 ]

(* Mutated form: the last member's own states are forgotten.               *)
CborFragStatesWithoutItem(depth, item_depth) == depth + 4

(* emitFragFns, emitCborFragFns.                                           *)
FragStates(depth) == depth + 2
CborFragStates(depth, item_depth) == depth + item_depth + 4

(* maybeEmitFragFns.  The CBOR string holds a backup while it is open, and *)
(* each item call one of its own.                                          *)
FragOf(w) ==
    LET t == w.last_ctype
        depth == StructOf(w).depth
        begin == Container(w.framing) + w.need_before
    IN  IF w.framing = "group" \/ ~ w.all_one \/ ~ w.last_direct \/ t.stream = "no"
        THEN {}
        ELSE {[ n_states |-> IF t.stream = "cbor" THEN CborFragStates(depth, t.item_depth)
                             ELSE FragStates(depth),
                need |-> IF t.stream = "cbor"
                         THEN Larger(begin, Container(w.framing) + 2 + t.item_need)
                         ELSE begin,
                n_elems |-> w.enc_hint, fewest |-> w.fewest, most |-> w.most ]}

Emit(t, api) ==
    /\ emitted' = emitted \cup {t}
    /\ frag' = api
    /\ walk' = NoWalk

EndStruct == walk.kind = "struct" /\ Emit(StructOf(walk), FragOf(walk))

(* emitGroupChoiceStruct ("//", of groups) and emitUnionStruct ("/", of    *)
(* types, in no container).                                                *)
BeginChoice ==
    /\ Idle
    /\ \/ \E framing \in Framings, keyed \in BOOLEAN :
            /\ framing = "map" => keyed
            /\ framing = "array" => ~ keyed
            /\ walk' = NewWalk("groups", framing, keyed)
       \/ walk' = NewWalk("types", "group", FALSE)
    /\ UNCHANGED <<emitted, frag>>

(* One alternative is decoded at a time; its encoding is the whole one.    *)
WithArm(w, t) ==
    [ kind |-> w.kind, framing |-> w.framing, keyed |-> w.keyed,
      members |-> w.members + 1,
      max_depth |-> Larger(w.max_depth, t.depth),
      max_need |-> Larger(w.max_need, t.need),
      need_before |-> w.need_before,
      has_repeat |-> w.has_repeat, all_one |-> w.all_one,
      last_direct |-> w.last_direct, last_ctype |-> w.last_ctype,
      enc_hint |-> w.enc_hint,
      fewest |-> IF w.members = 0 THEN t.fewest ELSE Smaller(w.fewest, t.fewest),
      most |-> Larger(w.most, t.most) ]

IsArm(t) ==
    IF walk.kind = "types" THEN t.group = "no"
    ELSE ~ t.choice /\ t.group = (IF walk.keyed THEN "keyed" ELSE "ordered")

AddArm ==
    /\ walk.kind \in {"groups", "types"} /\ walk.members < MaxMembers
    /\ \E t \in emitted : IsArm(t) /\ walk' = WithArm(walk, t)
    /\ UNCHANGED <<emitted, frag>>

(* The union takes a backup around its arms (emitUnionFns).                *)
ChoiceOf(w) ==
    [ group |-> IF w.kind = "types" THEN "no" ELSE GroupOf(w),
      choice |-> w.kind = "groups" /\ w.framing = "group", stream |-> "no",
      depth |-> Container(w.framing) + 1 + w.max_depth,
      need |-> Container(w.framing) + 1 + w.max_need,
      fewest |-> Elements(w, w.fewest), most |-> Elements(w, w.most),
      item_depth |-> 0, item_need |-> 0 ]

EndChoice ==
    /\ walk.kind \in {"groups", "types"} /\ walk.members >= 2
    /\ Emit(ChoiceOf(walk), {})

(* Mutated form: the string around t is not a level of its own.            *)
CborOfSameDepth(t) ==
    [ group |-> "no", choice |-> FALSE, stream |-> "cbor",
      depth |-> t.depth, need |-> t.need + 1, fewest |-> 1, most |-> 1,
      item_depth |-> t.depth, item_need |-> t.need ]

(* opCType: "bstr .cbor t" enters and leaves the string, with a backup.    *)
CborOf(t) ==
    [ group |-> "no", choice |-> FALSE, stream |-> "cbor",
      depth |-> t.depth + 1, need |-> t.need + 1, fewest |-> 1, most |-> 1,
      item_depth |-> t.depth, item_need |-> t.need ]

(* "bstr .cborseq [* t]" is stored as it is.                               *)
CborSeqOf(t) ==
    [ group |-> "no", choice |-> FALSE, stream |-> "cbor",
      depth |-> 0, need |-> 0, fewest |-> 1, most |-> 1,
      item_depth |-> t.depth, item_need |-> t.need ]

Wrap ==
    /\ Idle
    /\ \E t \in emitted : t.group = "no" /\ \E u \in {CborOf(t), CborSeqOf(t)} : Emit(u, {})

(* A rule that names such a type is a typedef, and loses its cbor_item.    *)
Typedef ==
    /\ Idle
    /\ \E t \in emitted :
        /\ t.stream = "cbor"
        /\ Emit([t EXCEPT !.stream = "no", !.item_depth = 0, !.item_need = 0], {})

Next ==
    \/ BeginStruct \/ AddMember \/ AddExtension \/ EndStruct
    \/ BeginChoice \/ AddArm \/ EndChoice
    \/ Wrap \/ Typedef

Spec == Init /\ [][Next]_vars

-----------------------------------------------------------------------------
(* Properties.                                                             *)

(* The generator's records keep their types, and a struct that has a       *)
(* repeated or optional member is not one whose members all occur once.    *)
TypeOK ==
    /\ emitted \subseteq CType
    /\ walk \in Walk
    /\ walk.has_repeat => ~ walk.all_one
    /\ frag \subseteq Frag

(* The array an entry function declares has a backup for every snapshot    *)
(* its decoder holds at once, however containers, repetitions, choices and *)
(* wrapped strings nest: no message fails with ZCBOR_ERR_NO_BACKUP_MEM.    *)
EntryBudgetSuffices ==
    \A t \in emitted : t.group = "no" => t.need <= Backups(EntryStates(t.depth))

(* So has an array of the FRAG_N_STATES elements the header tells the      *)
(* caller of a fragmented API to allocate, in *_frag_begin and in every    *)
(* *_frag_item call.                                                       *)
FragBudgetSuffices == \A f \in frag : f.need <= Backups(f.n_states)

(* The size hint a fragmented encoder gives zcbor is the number of         *)
(* elements it will encode, so the header, which may be in a section that  *)
(* is gone, is never rewritten.                                            *)
FragCountExact == \A f \in frag : f.fewest = f.n_elems /\ f.most = f.n_elems
=============================================================================

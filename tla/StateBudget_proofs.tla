--------------------------- MODULE StateBudget_proofs ---------------------------
(***************************************************************************)
(* Theorems about StateBudget, for rules of any number and any nesting.    *)
(*                                                                         *)
(* First TypeOK, then one inductive invariant for each promise, each over  *)
(* the types emitted and the walk in progress: what the generator computes *)
(* from its members bounds what their functions need.                      *)
(***************************************************************************)
EXTENDS StateBudget, TLAPS

USE DEF Framings

(* The initial walk and types are well formed.                             *)
LEMMA NewWalkType ==
    ASSUME NEW kind \in {"none", "struct", "groups", "types"},
           NEW framing \in Framings, NEW keyed \in BOOLEAN
    PROVE  /\ Scalar \in CType /\ String \in CType
           /\ NewWalk(kind, framing, keyed) \in Walk
  <1>1. Scalar \in CType /\ String \in CType
    BY DEF Scalar, String, CType
  <1> QED BY <1>1 DEF NewWalk, Walk

(* addMember keeps the types of the walk.                                  *)
LEMMA WithMemberType ==
    ASSUME NEW w \in Walk, NEW t \in CType,
           NEW occur \in {"one", "optional", "repeat"},
           w.has_repeat => ~ w.all_one
    PROVE  /\ WithMember(w, t, occur) \in Walk
           /\ WithMember(w, t, occur).has_repeat => ~ WithMember(w, t, occur).all_one
  <1> DEFINE max == IF occur = "repeat" THEN MaxQty ELSE 1
             d == WithMember(w, t, occur)
  <1>1. max \in Nat
    BY BudgetAssumption
  <1>2. t.most \in Nat /\ t.fewest \in Nat /\ t.need \in Nat /\ t.depth \in Nat
    BY DEF CType
  <1>3. max * t.most \in Nat
    BY <1>1, <1>2
  <1>4. w.most \in Nat /\ w.fewest \in Nat /\ w.max_need \in Nat /\ w.max_depth \in Nat
        /\ w.enc_hint \in Nat /\ w.members \in Nat
        /\ w.all_one \in BOOLEAN /\ w.has_repeat \in BOOLEAN /\ w.last_ctype \in CType
    BY DEF Walk
  <1>5. w.most + max * t.most \in Nat
    BY <1>3, <1>4
  <1>6. w.enc_hint + max \in Nat
    BY <1>1, <1>4
  <1>7. MemberNeed(w, t, occur) \in Nat
    BY <1>2 DEF MemberNeed
  <1>8. Larger(w.max_need, MemberNeed(w, t, occur)) \in Nat /\ Larger(w.max_depth, t.depth) \in Nat
    BY <1>2, <1>4, <1>7 DEF Larger
  <1>9. w.fewest + (IF occur = "one" THEN t.fewest ELSE 0) \in Nat
    BY <1>2, <1>4
  <1>10. (t.group = "no") \in BOOLEAN /\ (w.has_repeat \/ occur # "one") \in BOOLEAN
         /\ (w.all_one /\ occur = "one") \in BOOLEAN
    BY <1>4
  <1>11. (IF t.group = "no" THEN t ELSE w.last_ctype) \in CType
    BY <1>4
  <1>12. WithMember(w, t, occur) \in Walk
    BY <1>4, <1>5, <1>6, <1>8, <1>9, <1>10, <1>11 DEF WithMember, Walk
  <1>13. /\ WithMember(w, t, occur).has_repeat = (w.has_repeat \/ occur # "one")
         /\ WithMember(w, t, occur).all_one = (w.all_one /\ occur = "one")
    BY DEF WithMember
  <1> QED BY <1>12, <1>13, <1>4

(* One more arm of a choice keeps the types of the walk.                   *)
LEMMA WithArmType ==
    ASSUME NEW w \in Walk, NEW t \in CType
    PROVE  /\ WithArm(w, t) \in Walk
           /\ WithArm(w, t).has_repeat = w.has_repeat
           /\ WithArm(w, t).all_one = w.all_one
           /\ WithArm(w, t).members = w.members + 1
           /\ WithArm(w, t).kind = w.kind
           /\ WithArm(w, t).max_depth = Larger(w.max_depth, t.depth)
           /\ WithArm(w, t).max_need = Larger(w.max_need, t.need)
           /\ WithArm(w, t).fewest =
                IF w.members = 0 THEN t.fewest ELSE Smaller(w.fewest, t.fewest)
           /\ WithArm(w, t).most = Larger(w.most, t.most)
  BY DEF WithArm, Walk, CType, Larger, Smaller

(* The type a struct becomes, and its fields.                              *)
LEMMA StructOfType ==
    ASSUME NEW w \in Walk
    PROVE  LET t == StructOf(w) IN
           /\ t \in CType
           /\ t.group = GroupOf(w)
           /\ t.depth = Container(w.framing) + Larger(w.max_depth, IF w.has_repeat THEN 1 ELSE 0)
           /\ t.need = Container(w.framing) + w.max_need
           /\ t.fewest = Elements(w, w.fewest) /\ t.most = Elements(w, w.most)
           /\ t.item_depth = 0 /\ t.item_need = 0
  BY DEF StructOf, Scalar, CType, Walk, GroupOf, Container, Elements, Larger

(* The type a choice becomes, and its fields.                              *)
LEMMA ChoiceOfType ==
    ASSUME NEW w \in Walk
    PROVE  LET t == ChoiceOf(w) IN
           /\ t \in CType
           /\ t.group = IF w.kind = "types" THEN "no" ELSE GroupOf(w)
           /\ t.depth = Container(w.framing) + 1 + w.max_depth
           /\ t.need = Container(w.framing) + 1 + w.max_need
           /\ t.fewest = Elements(w, w.fewest) /\ t.most = Elements(w, w.most)
           /\ t.item_depth = 0 /\ t.item_need = 0
  BY DEF ChoiceOf, Scalar, CType, Walk, GroupOf, Container, Elements

(* The types made of a value, and their fields.                            *)
LEMMA WrapType ==
    ASSUME NEW t \in CType
    PROVE  /\ CborOf(t) \in CType
           /\ CborOf(t).group = "no"
           /\ CborOf(t).depth = t.depth + 1 /\ CborOf(t).need = t.need + 1
           /\ CborOf(t).fewest = 1 /\ CborOf(t).most = 1
           /\ CborOf(t).item_depth = t.depth /\ CborOf(t).item_need = t.need
           /\ CborSeqOf(t) \in CType
           /\ CborSeqOf(t).group = "no"
           /\ CborSeqOf(t).depth = 0 /\ CborSeqOf(t).need = 0
           /\ CborSeqOf(t).fewest = 1 /\ CborSeqOf(t).most = 1
           /\ CborSeqOf(t).item_depth = t.depth /\ CborSeqOf(t).item_need = t.need
  BY DEF CborOf, CborSeqOf, Scalar, CType

(* The fragmented API of a struct, if any.                                 *)
LEMMA FragOfType ==
    ASSUME NEW w \in Walk
    PROVE  FragOf(w) \subseteq Frag
  <1>1. w.last_ctype \in CType /\ w.need_before \in Nat
        /\ w.enc_hint \in Nat /\ w.fewest \in Nat /\ w.most \in Nat
    BY DEF Walk
  <1>2. w.last_ctype.item_depth \in Nat /\ w.last_ctype.item_need \in Nat
    BY <1>1 DEF CType
  <1>3. StructOf(w).depth \in Nat
    BY StructOfType DEF CType
  <1> QED
    BY <1>1, <1>2, <1>3 DEF FragOf, Frag, CborFragStates, FragStates, Container, Larger

-----------------------------------------------------------------------------
(* TypeOK.                                                                 *)

(* The first state.                                                        *)
LEMMA InitType == Init => TypeOK
  <1>1. NoWalk \in Walk
    BY NewWalkType DEF NoWalk
  <1>2. ~ NoWalk.has_repeat
    BY DEF NoWalk, NewWalk
  <1>3. Scalar \in CType /\ String \in CType
    BY NewWalkType
  <1> QED BY <1>1, <1>2, <1>3 DEF Init, TypeOK

(* Emitting a type ends the walk.                                          *)
LEMMA EmitType ==
    ASSUME TypeOK, NEW t \in CType, NEW api \in SUBSET Frag, Emit(t, api)
    PROVE  TypeOK'
  BY NewWalkType DEF TypeOK, Emit, NoWalk, NewWalk

(* Every step keeps TypeOK.                                                *)
LEMMA NextType == TypeOK /\ [Next]_vars => TypeOK'
  <1> SUFFICES ASSUME TypeOK, [Next]_vars PROVE TypeOK'
    OBVIOUS
  <1>1. walk \in Walk /\ (walk.has_repeat => ~ walk.all_one) /\ emitted \subseteq CType
    BY DEF TypeOK
  <1>2. CASE BeginStruct
    <2>1. PICK framing \in Framings, keyed \in BOOLEAN :
            walk' = NewWalk("struct", framing, keyed)
      BY <1>2 DEF BeginStruct
    <2> QED BY <1>2, <2>1, NewWalkType DEF BeginStruct, TypeOK, NewWalk
  <1>3. CASE AddMember
    <2>1. PICK t \in emitted, occur \in {"one", "optional", "repeat"} :
            walk' = WithMember(walk, t, occur)
      BY <1>3 DEF AddMember
    <2> QED BY <1>1, <1>3, <2>1, WithMemberType DEF AddMember, TypeOK
  <1>4. CASE AddExtension
    <2>1. walk' \in Walk /\ ~ walk'.all_one
      BY <1>1, <1>4 DEF AddExtension, Walk
    <2> QED BY <1>4, <2>1 DEF AddExtension, TypeOK
  <1>5. CASE EndStruct
    BY <1>1, <1>5, StructOfType, FragOfType, EmitType DEF EndStruct
  <1>6. CASE BeginChoice
    <2>1. \E kind \in {"none", "struct", "groups", "types"}, framing \in Framings,
             keyed \in BOOLEAN : walk' = NewWalk(kind, framing, keyed)
      BY <1>6 DEF BeginChoice
    <2> QED BY <1>6, <2>1, NewWalkType DEF BeginChoice, TypeOK, NewWalk
  <1>7. CASE AddArm
    <2>1. PICK t \in emitted : walk' = WithArm(walk, t)
      BY <1>7 DEF AddArm
    <2> QED BY <1>1, <1>7, <2>1, WithArmType DEF AddArm, TypeOK
  <1>8. CASE EndChoice
    BY <1>1, <1>8, ChoiceOfType, EmitType DEF EndChoice
  <1>9. CASE Wrap
    BY <1>1, <1>9, WrapType, EmitType DEF Wrap
  <1>10. CASE Typedef
    <2>1. PICK t \in emitted :
            Emit([t EXCEPT !.stream = "no", !.item_depth = 0, !.item_need = 0], {})
      BY <1>10 DEF Typedef
    <2>2. [t EXCEPT !.stream = "no", !.item_depth = 0, !.item_need = 0] \in CType
      BY <1>1, <2>1 DEF CType
    <2> QED BY <2>1, <2>2, EmitType
  <1>11. CASE UNCHANGED vars
    BY <1>11 DEF vars, TypeOK
  <1> QED
    BY <1>2, <1>3, <1>4, <1>5, <1>6, <1>7, <1>8, <1>9, <1>10, <1>11 DEF Next

(* The generator keeps its records' types, and a struct with a repeated or *)
(* optional member is never taken for one whose members all occur once.    *)
THEOREM BudgetTypeCorrect == Spec => []TypeOK
  BY InitType, NextType, PTL DEF Spec

-----------------------------------------------------------------------------
(* The entry functions.                                                    *)

(* Two snapshots per level, but the outermost takes one at most.           *)
Bound(d) == IF d = 0 THEN 0 ELSE 2 * d - 1

(* What a walk still needs: a repetition adds one to its members' need,    *)
(* which its container, one level more, will cover.                        *)
EntryInv ==
    /\ \A t \in emitted : t.need <= Bound(t.depth)
    /\ walk.max_need <= Bound(walk.max_depth) + (IF walk.has_repeat THEN 1 ELSE 0)
    /\ walk.framing = "group" => walk.max_need <= Bound(walk.max_depth)
    /\ walk.kind # "struct" => ~ walk.has_repeat

(* Bound grows with the depth.                                             *)
LEMMA BoundMonotone ==
    ASSUME NEW c \in Nat, NEW d \in Nat
    PROVE  /\ Bound(c) \in Nat
           /\ c <= d => Bound(c) <= Bound(d)
           /\ Bound(c) + 1 <= Bound(c + 1)
  BY DEF Bound

(* A fresh walk needs nothing.                                             *)
LEMMA NewWalkEntry ==
    ASSUME NEW kind, NEW framing, NEW keyed
    PROVE  LET w == NewWalk(kind, framing, keyed) IN
           /\ w.max_need <= Bound(w.max_depth) + (IF w.has_repeat THEN 1 ELSE 0)
           /\ w.max_need <= Bound(w.max_depth)
           /\ ~ w.has_repeat
  BY DEF NewWalk, Bound

(* Emitting a type that is within its bound keeps EntryInv.                *)
LEMMA EmitEntry ==
    ASSUME EntryInv, NEW t, t.need <= Bound(t.depth), NEW api, Emit(t, api)
    PROVE  EntryInv'
  <1>1. emitted' = emitted \cup {t} /\ walk' = NoWalk
    BY DEF Emit
  <1> QED BY <1>1, NewWalkEntry DEF EntryInv, NoWalk

(* Without repeated members in groups, every step keeps EntryInv.          *)
LEMMA NextEntry ==
    ASSUME "group" \notin RepeatIn, TypeOK, EntryInv, [Next]_vars
    PROVE  EntryInv'
  <1>1. walk \in Walk /\ emitted \subseteq CType
    BY DEF TypeOK
  <1>2. /\ walk.max_need \in Nat /\ walk.max_depth \in Nat
        /\ walk.has_repeat \in BOOLEAN /\ walk.framing \in Framings
    BY <1>1 DEF Walk
  <1>3. \A t \in emitted : t.need \in Nat /\ t.depth \in Nat /\ t.need <= Bound(t.depth)
    BY <1>1 DEF CType, EntryInv
  <1>4. CASE BeginStruct
    BY <1>4, NewWalkEntry DEF BeginStruct, EntryInv
  <1>5. CASE AddMember
    <2>1. PICK t \in emitted, occur \in {"one", "optional", "repeat"} :
            CanOccur(t, occur) /\ walk' = WithMember(walk, t, occur)
      BY <1>5 DEF AddMember
    <2> DEFINE d == Larger(walk.max_depth, t.depth)
    <2>2. d \in Nat /\ walk.max_depth <= d /\ t.depth <= d
      BY <1>2, <1>3 DEF Larger
    <2>3. Bound(walk.max_depth) <= Bound(d) /\ Bound(t.depth) <= Bound(d)
          /\ Bound(d) \in Nat /\ Bound(walk.max_depth) \in Nat /\ Bound(t.depth) \in Nat
      BY <1>2, <1>3, <2>2, BoundMonotone
    <2>4. /\ walk'.max_need = Larger(walk.max_need, MemberNeed(walk, t, occur))
          /\ walk'.max_depth = d
          /\ walk'.has_repeat = (walk.has_repeat \/ occur # "one")
          /\ walk'.framing = walk.framing /\ walk'.kind = walk.kind
      BY <2>1 DEF WithMember
    <2>5. MemberNeed(walk, t, occur) <= t.need + (IF occur = "repeat" THEN 1 ELSE 0)
          /\ MemberNeed(walk, t, occur) \in Nat
      BY <1>3 DEF MemberNeed
    <2>6. walk.framing = "group" => occur # "repeat"
      BY <2>1 DEF CanOccur
    <2>7. walk.kind = "struct"
      BY <1>5 DEF AddMember
    <2> HIDE DEF d
    <2>8. t.need <= Bound(d)
      BY <1>3, <2>3
    <2>9. MemberNeed(walk, t, occur) <= Bound(d) + (IF occur = "repeat" THEN 1 ELSE 0)
      BY <1>3, <2>3, <2>5, <2>8
    <2>10. walk.max_need <= Bound(d) + (IF walk.has_repeat THEN 1 ELSE 0)
           /\ (walk.framing = "group" => walk.max_need <= Bound(d))
      BY <1>2, <2>3 DEF EntryInv
    <2>11. walk'.max_need <= Bound(d) + (IF walk'.has_repeat THEN 1 ELSE 0)
           /\ (walk.framing = "group" => walk'.max_need <= Bound(d))
      <3> DEFINE m == MemberNeed(walk, t, occur)
      <3>1. walk'.max_need = walk.max_need \/ walk'.max_need = m
        BY <2>4 DEF Larger
      <3>2. walk.max_need <= Bound(d) + (IF walk'.has_repeat THEN 1 ELSE 0)
        BY <1>2, <2>3, <2>4, <2>10
      <3>3. m <= Bound(d) + (IF walk'.has_repeat THEN 1 ELSE 0)
        <4>1. CASE occur = "repeat"
          <5>1. walk'.has_repeat
            BY <2>4, <4>1
          <5> QED BY <2>9, <4>1, <5>1
        <4>2. CASE occur # "repeat"
          <5>1. m <= Bound(d)
            BY <2>3, <2>9, <4>2
          <5> QED BY <2>3, <2>5, <5>1
        <4> QED BY <4>1, <4>2
      <3>4. walk.framing = "group" => m <= Bound(d)
        BY <2>3, <2>5, <2>6, <2>9
      <3>5. CASE walk'.max_need = walk.max_need
        BY <2>10, <3>2, <3>5
      <3>6. CASE walk'.max_need = m
        BY <3>3, <3>4, <3>6
      <3> QED BY <3>1, <3>5, <3>6
    <2>12. emitted' = emitted
      BY <1>5 DEF AddMember
    <2> QED BY <2>4, <2>7, <2>11, <2>12 DEF EntryInv
  <1>6. CASE AddExtension
    <2>1. /\ walk'.max_need = walk.max_need /\ walk'.max_depth = walk.max_depth
          /\ walk'.has_repeat = walk.has_repeat /\ walk'.framing = walk.framing
          /\ walk'.kind = walk.kind /\ emitted' = emitted
      BY <1>1, <1>6 DEF AddExtension, Walk
    <2> QED BY <2>1 DEF EntryInv
  <1>7. CASE EndStruct
    <2> DEFINE d == StructOf(walk).depth
    <2>1. StructOf(walk).need <= Bound(d)
      <3>1. d = Container(walk.framing)
                + Larger(walk.max_depth, IF walk.has_repeat THEN 1 ELSE 0)
            /\ StructOf(walk).need = Container(walk.framing) + walk.max_need
        BY <1>1, StructOfType
      <3> QED BY <1>2, <3>1 DEF EntryInv, Bound, Larger, Container
    <2> QED BY <1>7, <2>1, EmitEntry DEF EndStruct
  <1>8. CASE BeginChoice
    BY <1>8, NewWalkEntry DEF BeginChoice, EntryInv
  <1>9. CASE AddArm
    <2>1. PICK t \in emitted : walk' = WithArm(walk, t)
      BY <1>9 DEF AddArm
    <2>2. /\ walk'.max_need = Larger(walk.max_need, t.need)
          /\ walk'.max_depth = Larger(walk.max_depth, t.depth)
          /\ walk'.has_repeat = walk.has_repeat /\ walk'.framing = walk.framing
          /\ walk'.kind = walk.kind /\ emitted' = emitted
      BY <1>9, <2>1 DEF WithArm, AddArm
    <2>3. walk'.max_need <= Bound(walk'.max_depth)
      BY <1>2, <1>3, <1>9, <2>2 DEF EntryInv, Bound, Larger, AddArm
    <2>4. ~ walk.has_repeat
      BY <1>9 DEF AddArm, EntryInv
    <2>5. walk'.max_need <= Bound(walk'.max_depth) + (IF walk'.has_repeat THEN 1 ELSE 0)
      BY <1>2, <1>3, <2>2, <2>3, <2>4 DEF Bound, Larger
    <2> QED BY <2>2, <2>3, <2>4, <2>5 DEF EntryInv
  <1>10. CASE EndChoice
    <2>1. ~ walk.has_repeat
      BY <1>10 DEF EndChoice, EntryInv
    <2>2. ChoiceOf(walk).need <= Bound(ChoiceOf(walk).depth)
      <3>1. /\ ChoiceOf(walk).depth = Container(walk.framing) + 1 + walk.max_depth
            /\ ChoiceOf(walk).need = Container(walk.framing) + 1 + walk.max_need
        BY <1>1, ChoiceOfType
      <3> QED BY <1>2, <2>1, <3>1 DEF EntryInv, Bound, Container
    <2> QED BY <1>10, <2>2, EmitEntry DEF EndChoice
  <1>11. CASE Wrap
    <2>1. PICK t \in emitted : \E u \in {CborOf(t), CborSeqOf(t)} : Emit(u, {})
      BY <1>11 DEF Wrap
    <2>2. CborOf(t).need <= Bound(CborOf(t).depth) /\ CborSeqOf(t).need <= Bound(CborSeqOf(t).depth)
      BY <1>1, <1>3, <2>1, WrapType DEF Bound
    <2> QED BY <2>1, <2>2, EmitEntry
  <1>12. CASE Typedef
    <2>1. PICK t \in emitted :
            Emit([t EXCEPT !.stream = "no", !.item_depth = 0, !.item_need = 0], {})
      BY <1>12 DEF Typedef
    <2> DEFINE u == [t EXCEPT !.stream = "no", !.item_depth = 0, !.item_need = 0]
    <2>2. u.need = t.need /\ u.depth = t.depth
      BY <1>1, <2>1 DEF CType
    <2>3. u.need <= Bound(u.depth)
      BY <1>3, <2>1, <2>2
    <2> HIDE DEF u
    <2>4. Emit(u, {})
      BY <2>1 DEF u
    <2> QED BY <2>3, <2>4, EmitEntry
  <1>13. CASE UNCHANGED vars
    BY <1>13 DEF vars, EntryInv
  <1> QED
    BY <1>4, <1>5, <1>6, <1>7, <1>8, <1>9, <1>10, <1>11, <1>12, <1>13 DEF Next

(* Schemas without repeated members in groups: no message, however deeply  *)
(* its type nests, makes a generated entry function run out of backups.    *)
THEOREM EntryBudget ==
    ASSUME "group" \notin RepeatIn
    PROVE  Spec => []EntryBudgetSuffices
  <1>1. Init => EntryInv
    <2>1. Scalar.need = 0 /\ Scalar.depth = 0 /\ String.need = 0 /\ String.depth = 0
      BY DEF Scalar, String
    <2>2. Scalar.need <= Bound(Scalar.depth) /\ String.need <= Bound(String.depth)
      BY <2>1 DEF Bound
    <2> QED BY <2>2, NewWalkEntry DEF Init, EntryInv, NoWalk
  <1>2. TypeOK /\ EntryInv /\ [Next]_vars => EntryInv'
    BY NextEntry
  <1>3. TypeOK /\ EntryInv => EntryBudgetSuffices
    <2> SUFFICES ASSUME TypeOK, EntryInv, NEW t \in emitted
                 PROVE  t.need <= Backups(EntryStates(t.depth))
      BY DEF EntryBudgetSuffices
    <2>1. t.need \in Nat /\ t.depth \in Nat /\ t.need <= Bound(t.depth)
      BY DEF TypeOK, CType, EntryInv
    <2> QED BY <2>1 DEF Bound, Backups, EntryStates
  <1> QED BY <1>1, <1>2, <1>3, BudgetTypeCorrect, PTL DEF Spec

-----------------------------------------------------------------------------
(* The fragmented APIs: the states they are given.                         *)

(* In unordered maps a key search replaces the repetitions' backups, and a *)
(* type needs no more than one backup for each level of its depth.         *)
FragInv ==
    /\ \A t \in emitted : t.need <= t.depth /\ t.item_need <= t.item_depth
    /\ walk.max_need <= walk.max_depth
    /\ walk.need_before <= walk.max_need
    /\ walk.framing = "map" => walk.keyed
    /\ walk.last_ctype.item_need <= walk.last_ctype.item_depth
    /\ FragBudgetSuffices

(* A fresh walk.                                                           *)
LEMMA NewWalkFrag ==
    ASSUME NEW kind, NEW framing, NEW keyed, framing = "map" => keyed
    PROVE  LET w == NewWalk(kind, framing, keyed) IN
           /\ w.max_need <= w.max_depth /\ w.need_before <= w.max_need
           /\ w.framing = "map" => w.keyed
           /\ w.last_ctype.item_need <= w.last_ctype.item_depth
  BY DEF NewWalk, Scalar

(* Emitting a type within its depth, with an API within its states.        *)
LEMMA EmitFrag ==
    ASSUME FragInv, NEW t, t.need <= t.depth, t.item_need <= t.item_depth,
           NEW api, \A f \in api : f.need <= Backups(f.n_states), Emit(t, api)
    PROVE  FragInv'
  <1>1. emitted' = emitted \cup {t} /\ walk' = NoWalk /\ frag' = api
    BY DEF Emit
  <1>2. /\ NoWalk.max_need <= NoWalk.max_depth /\ NoWalk.need_before <= NoWalk.max_need
        /\ NoWalk.framing = "map" => NoWalk.keyed
        /\ NoWalk.last_ctype.item_need <= NoWalk.last_ctype.item_depth
    BY NewWalkFrag DEF NoWalk
  <1>3. FragBudgetSuffices'
    BY <1>1 DEF FragBudgetSuffices
  <1> QED BY <1>1, <1>2, <1>3 DEF FragInv

(* The API of a struct has a backup for what it decodes.                   *)
LEMMA FragOfBudget ==
    ASSUME NEW w \in Walk, w.max_need <= w.max_depth, w.need_before <= w.max_need,
           w.last_ctype.item_need <= w.last_ctype.item_depth
    PROVE  \A f \in FragOf(w) : f.need <= Backups(f.n_states)
  <1> SUFFICES ASSUME NEW f \in FragOf(w) PROVE f.need <= Backups(f.n_states)
    OBVIOUS
  <1> DEFINE t == w.last_ctype
             depth == StructOf(w).depth
             begin == 1 + w.need_before
  <1>1. /\ w.max_need \in Nat /\ w.max_depth \in Nat /\ w.need_before \in Nat
        /\ t.item_need \in Nat /\ t.item_depth \in Nat /\ w.has_repeat \in BOOLEAN
    BY DEF Walk, CType
  <1>2. w.framing # "group"
    BY DEF FragOf
  <1>3. depth \in Nat /\ 1 + w.max_depth <= depth
    <2>1. depth = 1 + Larger(w.max_depth, IF w.has_repeat THEN 1 ELSE 0)
      BY <1>2, StructOfType DEF Container
    <2> QED BY <1>1, <2>1 DEF Larger
  <1>4. begin <= depth /\ 1 <= depth
    BY <1>1, <1>3
  <1>5. /\ f.n_states = IF t.stream = "cbor" THEN CborFragStates(depth, t.item_depth)
                        ELSE FragStates(depth)
        /\ f.need = IF t.stream = "cbor" THEN Larger(begin, 3 + t.item_need) ELSE begin
    BY <1>1, <1>2 DEF FragOf, Container
  <1> HIDE DEF t, depth, begin
  <1>6. CASE t.stream = "cbor"
    <2>1. f.n_states = depth + t.item_depth + 4 /\ f.need = Larger(begin, 3 + t.item_need)
      BY <1>5, <1>6 DEF CborFragStates
    <2>2. Backups(f.n_states) = depth + t.item_depth + 2
      BY <1>1, <1>3, <2>1 DEF Backups, t
    <2>3. 3 + t.item_need <= depth + t.item_depth + 2
      BY <1>1, <1>3, <1>4 DEF t
    <2>4. begin <= depth + t.item_depth + 2 /\ begin \in Nat
      BY <1>1, <1>3, <1>4 DEF t, begin
    <2> QED BY <2>1, <2>2, <2>3, <2>4 DEF Larger
  <1>7. CASE t.stream # "cbor"
    <2>1. f.n_states = depth + 2 /\ f.need = begin
      BY <1>5, <1>7 DEF FragStates
    <2> QED BY <1>3, <1>4, <2>1 DEF Backups
  <1> QED BY <1>6, <1>7

(* With repetition only in unordered maps, every step keeps FragInv.       *)
LEMMA NextFrag ==
    ASSUME UnorderedMaps, RepeatIn \subseteq {"map"}, TypeOK, FragInv, [Next]_vars
    PROVE  FragInv'
  <1>1. walk \in Walk /\ emitted \subseteq CType
    BY DEF TypeOK
  <1>2. /\ walk.max_need \in Nat /\ walk.max_depth \in Nat /\ walk.need_before \in Nat
        /\ walk.framing \in Framings
    BY <1>1 DEF Walk
  <1>3. \A t \in emitted : /\ t.need \in Nat /\ t.depth \in Nat
                           /\ t.item_need \in Nat /\ t.item_depth \in Nat
                           /\ t.need <= t.depth /\ t.item_need <= t.item_depth
    BY <1>1 DEF CType, FragInv
  <1>4. CASE BeginStruct
    <2>1. PICK framing \in Framings, keyed \in BOOLEAN :
            (framing = "map" => keyed) /\ walk' = NewWalk("struct", framing, keyed)
      BY <1>4 DEF BeginStruct
    <2> QED BY <1>4, <2>1, NewWalkFrag DEF BeginStruct, FragInv, FragBudgetSuffices
  <1>5. CASE AddMember
    <2>1. PICK t \in emitted, occur \in {"one", "optional", "repeat"} :
            CanOccur(t, occur) /\ walk' = WithMember(walk, t, occur)
      BY <1>5 DEF AddMember
    <2>2. /\ walk'.max_need = Larger(walk.max_need, MemberNeed(walk, t, occur))
          /\ walk'.max_depth = Larger(walk.max_depth, t.depth)
          /\ walk'.need_before = walk.max_need
          /\ walk'.framing = walk.framing /\ walk'.keyed = walk.keyed
          /\ walk'.last_ctype = IF t.group = "no" THEN t ELSE walk.last_ctype
      BY <2>1 DEF WithMember
    <2>3. occur = "repeat" => walk.framing = "map" /\ walk.keyed
      BY <2>1 DEF CanOccur, FragInv
    <2>4. MemberNeed(walk, t, occur) = t.need
      BY <1>3, <2>3 DEF MemberNeed, Search
    <2>5. walk'.max_need <= walk'.max_depth /\ walk'.need_before <= walk'.max_need
      BY <1>2, <1>3, <2>2, <2>4 DEF FragInv, Larger
    <2>6. walk'.last_ctype.item_need <= walk'.last_ctype.item_depth
      BY <1>3, <2>2 DEF FragInv
    <2> QED BY <1>5, <2>2, <2>5, <2>6 DEF AddMember, FragInv, FragBudgetSuffices
  <1>6. CASE AddExtension
    <2>1. /\ walk'.max_need = walk.max_need /\ walk'.max_depth = walk.max_depth
          /\ walk'.need_before = walk.need_before /\ walk'.framing = walk.framing
          /\ walk'.keyed = walk.keyed /\ walk'.last_ctype = walk.last_ctype
          /\ emitted' = emitted /\ frag' = frag
      BY <1>1, <1>6 DEF AddExtension, Walk
    <2> QED BY <2>1 DEF FragInv, FragBudgetSuffices
  <1>7. CASE EndStruct
    <2>1. StructOf(walk).need <= StructOf(walk).depth
      <3>1. /\ StructOf(walk).depth = Container(walk.framing)
                    + Larger(walk.max_depth, IF walk.has_repeat THEN 1 ELSE 0)
            /\ StructOf(walk).need = Container(walk.framing) + walk.max_need
        BY <1>1, StructOfType
      <3> QED BY <1>2, <3>1 DEF FragInv, Larger, Container
    <2>2. StructOf(walk).item_need <= StructOf(walk).item_depth
      BY <1>1, StructOfType
    <2>3. \A f \in FragOf(walk) : f.need <= Backups(f.n_states)
      BY <1>1, FragOfBudget DEF FragInv
    <2> QED BY <1>7, <2>1, <2>2, <2>3, EmitFrag DEF EndStruct
  <1>8. CASE BeginChoice
    <2>1. PICK kind \in {"groups", "types"}, framing \in Framings, keyed \in BOOLEAN :
            (framing = "map" => keyed) /\ walk' = NewWalk(kind, framing, keyed)
      BY <1>8 DEF BeginChoice
    <2> QED BY <1>8, <2>1, NewWalkFrag DEF BeginChoice, FragInv, FragBudgetSuffices
  <1>9. CASE AddArm
    <2>1. PICK t \in emitted : walk' = WithArm(walk, t)
      BY <1>9 DEF AddArm
    <2>2. /\ walk'.max_need = Larger(walk.max_need, t.need)
          /\ walk'.max_depth = Larger(walk.max_depth, t.depth)
          /\ walk'.need_before = walk.need_before /\ walk'.framing = walk.framing
          /\ walk'.keyed = walk.keyed /\ walk'.last_ctype = walk.last_ctype
      BY <2>1 DEF WithArm
    <2>3. walk'.max_need <= walk'.max_depth /\ walk'.need_before <= walk'.max_need
      BY <1>2, <1>3, <2>2 DEF FragInv, Larger
    <2> QED BY <1>9, <2>2, <2>3 DEF AddArm, FragInv, FragBudgetSuffices
  <1>10. CASE EndChoice
    <2>1. ChoiceOf(walk).need <= ChoiceOf(walk).depth
      <3>1. /\ ChoiceOf(walk).depth = Container(walk.framing) + 1 + walk.max_depth
            /\ ChoiceOf(walk).need = Container(walk.framing) + 1 + walk.max_need
        BY <1>1, ChoiceOfType
      <3> QED BY <1>2, <3>1 DEF FragInv, Container
    <2>2. ChoiceOf(walk).item_need <= ChoiceOf(walk).item_depth
      BY <1>1, ChoiceOfType
    <2> QED BY <1>10, <2>1, <2>2, EmitFrag DEF EndChoice
  <1>11. CASE Wrap
    <2>1. PICK t \in emitted : \E u \in {CborOf(t), CborSeqOf(t)} : Emit(u, {})
      BY <1>11 DEF Wrap
    <2>2. \A u \in {CborOf(t), CborSeqOf(t)} : u.need <= u.depth /\ u.item_need <= u.item_depth
      BY <1>1, <1>3, <2>1, WrapType
    <2> QED BY <2>1, <2>2, EmitFrag
  <1>12. CASE Typedef
    <2>1. PICK t \in emitted :
            Emit([t EXCEPT !.stream = "no", !.item_depth = 0, !.item_need = 0], {})
      BY <1>12 DEF Typedef
    <2> DEFINE u == [t EXCEPT !.stream = "no", !.item_depth = 0, !.item_need = 0]
    <2>2. u.need = t.need /\ u.depth = t.depth /\ u.item_need = 0 /\ u.item_depth = 0
      BY <1>1, <2>1 DEF CType
    <2>3. u.need <= u.depth /\ u.item_need <= u.item_depth
      BY <1>3, <2>1, <2>2
    <2> HIDE DEF u
    <2>4. Emit(u, {})
      BY <2>1 DEF u
    <2> QED BY <2>3, <2>4, EmitFrag
  <1>13. CASE UNCHANGED vars
    BY <1>13 DEF vars, FragInv, FragBudgetSuffices
  <1> QED
    BY <1>4, <1>5, <1>6, <1>7, <1>8, <1>9, <1>10, <1>11, <1>12, <1>13 DEF Next

(* With unordered maps and repetition only in maps, FRAG_N_STATES elements *)
(* are enough for every *_frag_begin and every *_frag_item call.           *)
THEOREM FragBudget ==
    ASSUME UnorderedMaps, RepeatIn \subseteq {"map"}
    PROVE  Spec => []FragBudgetSuffices
  <1>1. Init => FragInv
    <2>1. /\ Scalar.need = 0 /\ Scalar.depth = 0 /\ String.need = 0 /\ String.depth = 0
          /\ Scalar.item_need = 0 /\ Scalar.item_depth = 0
          /\ String.item_need = 0 /\ String.item_depth = 0
      BY DEF Scalar, String
    <2>2. /\ Scalar.need <= Scalar.depth /\ Scalar.item_need <= Scalar.item_depth
          /\ String.need <= String.depth /\ String.item_need <= String.item_depth
      BY <2>1
    <2>3. /\ NoWalk.max_need <= NoWalk.max_depth /\ NoWalk.need_before <= NoWalk.max_need
          /\ NoWalk.framing = "map" => NoWalk.keyed
          /\ NoWalk.last_ctype.item_need <= NoWalk.last_ctype.item_depth
      BY NewWalkFrag DEF NoWalk
    <2> QED BY <2>2, <2>3 DEF Init, FragInv, FragBudgetSuffices
  <1>2. TypeOK /\ FragInv /\ [Next]_vars => FragInv'
    BY NextFrag
  <1>3. FragInv => FragBudgetSuffices
    BY DEF FragInv
  <1> QED BY <1>1, <1>2, <1>3, BudgetTypeCorrect, PTL DEF Spec

-----------------------------------------------------------------------------
(* The fragmented APIs: the size hint.                                     *)

(* A value is one element, and while all members of a struct occur once    *)
(* its size hint counts the elements of each.                              *)
CountInv ==
    /\ \A t \in emitted : t.group = "no" => t.fewest = 1 /\ t.most = 1
    /\ walk.kind = "struct" /\ walk.all_one =>
            walk.fewest = walk.enc_hint /\ walk.most = walk.enc_hint
    /\ walk.kind = "types" => /\ walk.framing = "group"
                              /\ walk.members = 0 => walk.most = 0
                              /\ walk.members > 0 => walk.fewest = 1 /\ walk.most = 1
    /\ FragCountExact

(* A fresh walk has counted nothing.                                       *)
LEMMA NewWalkCount ==
    ASSUME NEW kind, NEW framing, NEW keyed
    PROVE  LET w == NewWalk(kind, framing, keyed) IN
           /\ w.fewest = w.enc_hint /\ w.most = w.enc_hint
           /\ w.kind = kind /\ w.framing = framing /\ w.members = 0 /\ w.most = 0
  BY DEF NewWalk

(* Emitting a value of one element, or a group, and an exact API.          *)
LEMMA EmitCount ==
    ASSUME CountInv, NEW t, t.group = "no" => t.fewest = 1 /\ t.most = 1,
           NEW api, \A f \in api : f.fewest = f.n_elems /\ f.most = f.n_elems,
           Emit(t, api)
    PROVE  CountInv'
  <1>1. emitted' = emitted \cup {t} /\ walk' = NoWalk /\ frag' = api
    BY DEF Emit
  <1>2. NoWalk.kind = "none"
    BY DEF NoWalk, NewWalk
  <1>3. FragCountExact'
    BY <1>1 DEF FragCountExact
  <1> QED BY <1>1, <1>2, <1>3 DEF CountInv

(* A member that occurs once adds as much to the hint as to the encoding.  *)
LEMMA WithMemberCount ==
    ASSUME NEW w \in Walk, NEW t \in CType, NEW occur \in {"one", "optional", "repeat"},
           occur = "one" => t.fewest = 1 /\ t.most = 1,
           w.all_one => w.fewest = w.enc_hint /\ w.most = w.enc_hint,
           WithMember(w, t, occur).all_one
    PROVE  LET u == WithMember(w, t, occur) IN u.fewest = u.enc_hint /\ u.most = u.enc_hint
  <1> DEFINE u == WithMember(w, t, occur)
  <1>1. w.all_one /\ occur = "one"
    BY DEF WithMember
  <1>2. /\ u.enc_hint = w.enc_hint + 1 /\ u.fewest = w.fewest + t.fewest
        /\ u.most = w.most + 1 * t.most
    BY <1>1 DEF WithMember
  <1>3. w.enc_hint \in Nat
    BY DEF Walk
  <1> QED BY <1>1, <1>2, <1>3

(* Without choices among the members, every step keeps CountInv.           *)
LEMMA NextCount ==
    ASSUME ~ InlineChoices, TypeOK, CountInv, [Next]_vars
    PROVE  CountInv'
  <1>1. walk \in Walk /\ emitted \subseteq CType
    BY DEF TypeOK
  <1>2. CASE BeginStruct
    <2>1. PICK framing \in Framings, keyed \in BOOLEAN : walk' = NewWalk("struct", framing, keyed)
      BY <1>2 DEF BeginStruct
    <2> QED BY <1>2, <2>1, NewWalkCount DEF BeginStruct, CountInv, FragCountExact
  <1>3. CASE AddMember
    <2>1. PICK t \in emitted, occur \in {"one", "optional", "repeat"} :
            CanOccur(t, occur) /\ walk' = WithMember(walk, t, occur)
      BY <1>3 DEF AddMember
    <2>2. occur = "one" => t.group = "no"
      BY <2>1 DEF CanOccur
    <2>3. occur = "one" => t.fewest = 1 /\ t.most = 1
      BY <2>1, <2>2 DEF CountInv
    <2>4. walk.kind = "struct" /\ walk'.kind = "struct"
      BY <1>3, <2>1 DEF AddMember, WithMember
    <2>5. walk'.all_one => walk'.fewest = walk'.enc_hint /\ walk'.most = walk'.enc_hint
      BY <1>1, <2>1, <2>3, <2>4, WithMemberCount DEF CountInv
    <2> QED BY <1>3, <2>4, <2>5 DEF AddMember, CountInv, FragCountExact
  <1>4. CASE AddExtension
    <2>1. /\ walk'.kind = "struct" /\ ~ walk'.all_one
          /\ emitted' = emitted /\ frag' = frag
      BY <1>1, <1>4 DEF AddExtension, Walk
    <2> QED BY <2>1 DEF CountInv, FragCountExact
  <1>5. CASE EndStruct
    <2>1. StructOf(walk).group = "no" => StructOf(walk).fewest = 1 /\ StructOf(walk).most = 1
      BY <1>1, StructOfType DEF GroupOf, Elements
    <2>2. \A f \in FragOf(walk) : /\ walk.all_one /\ f.n_elems = walk.enc_hint
                                /\ f.fewest = walk.fewest /\ f.most = walk.most
      BY DEF FragOf
    <2>3. \A f \in FragOf(walk) : f.fewest = f.n_elems /\ f.most = f.n_elems
      BY <1>5, <2>2 DEF EndStruct, CountInv
    <2> QED BY <1>5, <2>1, <2>3, EmitCount DEF EndStruct
  <1>6. CASE BeginChoice
    <2>1. PICK kind \in {"groups", "types"}, framing \in Framings, keyed \in BOOLEAN :
            /\ walk' = NewWalk(kind, framing, keyed)
            /\ kind = "types" => framing = "group"
      BY <1>6 DEF BeginChoice
    <2>2. /\ walk'.kind = kind /\ walk'.framing = framing
          /\ walk'.members = 0 /\ walk'.most = 0
      BY <2>1, NewWalkCount
    <2> QED BY <1>6, <2>1, <2>2 DEF BeginChoice, CountInv, FragCountExact
  <1>7. CASE AddArm
    <2>1. PICK t \in emitted : IsArm(t) /\ walk' = WithArm(walk, t)
      BY <1>7 DEF AddArm
    <2>2. /\ walk'.kind = walk.kind /\ walk'.framing = walk.framing
          /\ walk'.fewest =
                IF walk.members = 0 THEN t.fewest ELSE Smaller(walk.fewest, t.fewest)
          /\ walk'.most = Larger(walk.most, t.most)
          /\ walk'.members = walk.members + 1
      BY <2>1 DEF WithArm
    <2>3. walk.kind # "struct"
      BY <1>7 DEF AddArm
    <2>4. walk.kind = "types" => t.fewest = 1 /\ t.most = 1
      BY <2>1 DEF IsArm, CountInv
    <2>5. walk.kind = "types" => walk'.fewest = 1 /\ walk'.most = 1
      <3>1. walk.members \in Nat
        BY <1>1 DEF Walk
      <3>2. CASE walk.kind = "types" /\ walk.members = 0
        <4>1. walk'.fewest = 1 /\ walk.most \in Nat /\ walk.most = 0
          BY <1>1, <2>2, <2>4, <3>2 DEF CountInv, Walk
        <4> QED BY <2>2, <2>4, <3>2, <4>1 DEF Larger
      <3>3. CASE walk.kind = "types" /\ walk.members > 0
        <4>1. walk.fewest = 1 /\ walk.most = 1
          BY <3>3 DEF CountInv
        <4> QED BY <2>2, <2>4, <3>3, <4>1 DEF Smaller, Larger
      <3> QED BY <3>1, <3>2, <3>3
    <2>6. walk'.members > 0 /\ walk'.members # 0
      BY <1>1, <2>2 DEF Walk
    <2> QED BY <1>7, <2>2, <2>3, <2>5, <2>6 DEF AddArm, CountInv, FragCountExact
  <1>8. CASE EndChoice
    <2>1. ChoiceOf(walk).group = "no" => ChoiceOf(walk).fewest = 1 /\ ChoiceOf(walk).most = 1
      <3>1. /\ ChoiceOf(walk).group = IF walk.kind = "types" THEN "no" ELSE GroupOf(walk)
            /\ ChoiceOf(walk).fewest = Elements(walk, walk.fewest)
            /\ ChoiceOf(walk).most = Elements(walk, walk.most)
        BY <1>1, ChoiceOfType
      <3>2. walk.members > 0
        BY <1>1, <1>8 DEF EndChoice, Walk
      <3>3. CASE walk.framing # "group"
        BY <3>1, <3>3 DEF Elements
      <3>4. CASE walk.kind = "types"
        BY <3>1, <3>2, <3>4 DEF Elements, CountInv
      <3>5. CASE walk.framing = "group" /\ walk.kind # "types"
        BY <3>1, <3>5 DEF GroupOf
      <3> QED BY <3>3, <3>4, <3>5
    <2> QED BY <1>8, <2>1, EmitCount DEF EndChoice
  <1>9. CASE Wrap
    <2>1. PICK t \in emitted : \E u \in {CborOf(t), CborSeqOf(t)} : Emit(u, {})
      BY <1>9 DEF Wrap
    <2>2. \A u \in {CborOf(t), CborSeqOf(t)} : u.fewest = 1 /\ u.most = 1
      BY <1>1, <2>1, WrapType
    <2> QED BY <2>1, <2>2, EmitCount
  <1>10. CASE Typedef
    <2>1. PICK t \in emitted :
            Emit([t EXCEPT !.stream = "no", !.item_depth = 0, !.item_need = 0], {})
      BY <1>10 DEF Typedef
    <2> DEFINE u == [t EXCEPT !.stream = "no", !.item_depth = 0, !.item_need = 0]
    <2>2. u.group = t.group /\ u.fewest = t.fewest /\ u.most = t.most
      BY <1>1, <2>1 DEF CType
    <2>3. u.group = "no" => u.fewest = 1 /\ u.most = 1
      BY <2>1, <2>2 DEF CountInv
    <2> HIDE DEF u
    <2>4. Emit(u, {})
      BY <2>1 DEF u
    <2> QED BY <2>3, <2>4, EmitCount
  <1>11. CASE UNCHANGED vars
    BY <1>11 DEF vars, CountInv, FragCountExact
  <1> QED
    BY <1>2, <1>3, <1>4, <1>5, <1>6, <1>7, <1>8, <1>9, <1>10, <1>11 DEF Next

(* Without choices among the members of a container, the size hint of      *)
(* every fragmented encoder is the number of elements of every encoding.   *)
THEOREM FragCount ==
    ASSUME ~ InlineChoices
    PROVE  Spec => []FragCountExact
  <1>1. Init => CountInv
    <2>1. /\ Scalar.fewest = 1 /\ Scalar.most = 1
          /\ String.fewest = 1 /\ String.most = 1
      BY DEF Scalar, String
    <2>2. NoWalk.kind = "none"
      BY DEF NoWalk, NewWalk
    <2> QED BY <2>1, <2>2 DEF Init, CountInv, FragCountExact
  <1>2. TypeOK /\ CountInv /\ [Next]_vars => CountInv'
    BY NextCount
  <1>3. CountInv => FragCountExact
    BY DEF CountInv
  <1> QED BY <1>1, <1>2, <1>3, BudgetTypeCorrect, PTL DEF Spec
=============================================================================

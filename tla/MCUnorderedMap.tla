----------------------------- MODULE MCUnorderedMap -----------------------------
(***************************************************************************)
(* Instances of UnorderedMap for TLC: every small schema of the kind a run *)
(* is about, and every message of at most MaxPairs pairs.                  *)
(***************************************************************************)
EXTENDS UnorderedMap

CONSTANTS KeyA, KeyB, KeyX, MaxPairs

MCKeys == {KeyA, KeyB, KeyX}

One(k)      == [key |-> k, min |-> 1, max |-> 1]
Optional(k) == [key |-> k, min |-> 0, max |-> 1]
Many(k)     == [key |-> k, min |-> 0, max |-> 2]

(* The schemas: at most one pair per member, which is what the search      *)
(* functions ask of their key decoders, in open and in closed maps; and a  *)
(* repeated member in a closed map, as the last one and before another.    *)
SingleSchemas ==
    [ members : {<<p, q>> : p \in {One(KeyA), Optional(KeyA)}, q \in {One(KeyB), Optional(KeyB)}},
      open : BOOLEAN ]

RepeatedLast  == [members |-> <<One(KeyA), Many(KeyB)>>, open |-> FALSE]
RepeatedFirst == [members |-> <<Many(KeyA), One(KeyB)>>, open |-> FALSE]

(* The messages, with pairs of these keys and of good or bad values.       *)
PairSeqs(keys, goods) ==
    UNION { [1 .. n -> [key : keys, good : goods]] : n \in 0 .. MaxPairs }

Messages(keys, goods) ==
    { w \in [pairs : PairSeqs(keys, goods), indefinite : BOOLEAN, cut : 0 .. 2 * MaxPairs + 2] :
        w.cut <= Total(w) }

Count(w, k) == Cardinality({ i \in DOMAIN w.pairs : w.pairs[i].key = k })

(* What a sender that follows RepeatedLast could have written.             *)
SentMessages ==
    { w \in Messages({KeyA, KeyB}, BOOLEAN) : Count(w, KeyA) <= 1 /\ Count(w, KeyB) <= 2 }

AllCases ==
    SingleSchemas \X Messages(MCKeys, BOOLEAN) \cup {RepeatedLast} \X SentMessages

RepeatedFirstCases ==
    {RepeatedFirst} \X { w \in Messages(MCKeys, {TRUE}) : w.cut = Total(w) }
=============================================================================

------------------------ MODULE UnorderedMapSearch_proofs ------------------------
(***************************************************************************)
(* Proofs about UnorderedMap, for schemas and messages of any size: what   *)
(* the searches find, and what is accepted and rejected.  They rest on     *)
(* MapInv, the invariant of UnorderedMap_proofs.                           *)
(***************************************************************************)
EXTENDS UnorderedMap_proofs, FiniteSetTheorems

-----------------------------------------------------------------------------
(* What was found.                                                         *)

Found  == UNION { Values(i) : i \in DOMAIN members }
Own(i) == PairsOf(members[i].key)
Cursor == (z.state.payload + 1) \div 2

(* Pairs are only counted, so a pair could be found again.  It is not when *)
(* each member takes one pair, or, with a repeated member, when the        *)
(* message has no pairs but the members' own.                              *)
Searchable(s, w) ==
    /\ \A i, j \in DOMAIN s.members : s.members[i].key = s.members[j].key => i = j
    /\ \A i \in DOMAIN s.members :
        /\ s.members[i].min <= s.members[i].max
        /\ s.members[i].max > 1 =>
            /\ i = Len(s.members) /\ ~ s.open
            /\ \A p \in DOMAIN w.pairs : \E j \in DOMAIN s.members :
                w.pairs[p].key = s.members[j].key
            /\ \A p, q \in DOMAIN w.pairs :
                w.pairs[p].key = w.pairs[q].key /\ p # q => w.pairs[p].key = s.members[i].key

(* The own pairs of member i between its first one found and c, going on   *)
(* from the end of the map at its start.                                   *)
Passed(i, c) ==
    LET first == result[i][1]
    IN  IF first < c THEN { q \in Own(i) : first <= q /\ q < c }
        ELSE { q \in Own(i) : first <= q \/ q < c }

(* A repeated member has found the pairs passed since its first one.       *)
RepeatedInv ==
    m <= Len(members) /\ result[m] # << >> =>
        \/ /\ Values(m) = Passed(m, Cursor)
           /\ Complete \/ result[m][1] < Cursor
        \/ Values(m) = Own(m) /\ Complete

(* Own pairs that were not found are ahead of the scan; while the pairs    *)
(* are counted, those that were found are behind where it began.           *)
From == (from.payload + 1) \div 2

AheadInv ==
    /\ \A q \in Own(m) \ Found :
        IF Cursor >= From THEN q < From \/ Cursor <= q ELSE Cursor <= q /\ q < From
    /\ Marks.counting_map_elems => \A q \in Found : q < From

(* A member that is done with got all it may have, or all there is.        *)
Ended(i) ==
    /\ Len(result[i]) >= members[i].min
    /\ Len(result[i]) < members[i].max => Own(i) \subseteq Values(i) \/ ~ Complete

ValuesInv ==
    \A i \in DOMAIN members :
        /\ Values(i) \subseteq Own(i)
        /\ Cardinality(Values(i)) = Len(result[i])
        /\ Len(result[i]) <= members[i].max
        /\ i > m => result[i] = << >>
        /\ i < m /\ pc # "rejected" => Ended(i)

MarkedInv ==
    /\ Cardinality(Found) = Marks.map_elems_processed
    /\ \A q \in Found :
        /\ 2 * q + 1 <= wire.cut
        /\ Marks.counting_map_elems => q < Cursor

(* Layer two: what was found, and what it says about what is left.         *)
FoundInv ==
    /\ ValuesInv
    /\ Inside => MarkedInv
    /\ pc \in {"search", "scan", "value"} => RepeatedInv
    /\ pc \in {"scan", "value"} => Len(result[m]) < members[m].max
    /\ pc = "scan" => AheadInv
    /\ pc = "value" => Cursor \notin Found
    /\ pc = "skip" /\ ~ schema.open => Found = 1 .. Pairs

VerdictInv == MatchingAccepted /\ AcceptedMatches
SearchInv == FoundInv /\ VerdictInv

AllSearchable == \A c \in Cases : Searchable(c[1], c[2])

-----------------------------------------------------------------------------
(* Sets of pairs.                                                          *)

(* A set of pairs of the message is finite, and as large as the message    *)
(* only when it is all of them.                                            *)
LEMMA PairSets ==
    ASSUME <<schema, wire>> \in Cases, NEW S \in SUBSET (1 .. Pairs)
    PROVE  /\ IsFiniteSet(S) /\ Cardinality(S) \in Nat /\ Cardinality(S) <= Pairs
           /\ Cardinality(S) = Pairs => S = 1 .. Pairs
           /\ \A T \in SUBSET S : Cardinality(T) <= Cardinality(S)
                                  /\ (Cardinality(T) = Cardinality(S) => T = S)
           /\ \A x \in (1 .. Pairs) \ S : Cardinality(S \cup {x}) = Cardinality(S) + 1
  <1>1. Pairs \in Nat
    BY CaseFacts
  <1> DEFINE N == 1 .. Pairs
  <1>2. IsFiniteSet(N) /\ Cardinality(N) = Pairs
    BY <1>1, FS_Interval
  <1> HIDE DEF N
  <1>3. S \in SUBSET N
    BY DEF N
  <1>4. /\ IsFiniteSet(S) /\ Cardinality(S) <= Cardinality(N)
        /\ Cardinality(N) = Cardinality(S) => N = S
    BY <1>2, <1>3, FS_Subset
  <1>5. Cardinality(S) \in Nat
    BY <1>4, FS_CardinalityType
  <1>6. \A T \in SUBSET S : Cardinality(T) <= Cardinality(S)
                            /\ (Cardinality(T) = Cardinality(S) => T = S)
    BY <1>4, FS_Subset
  <1>7. \A x \in N \ S : Cardinality(S \cup {x}) = Cardinality(S) + 1
    BY <1>4, FS_AddElement
  <1> QED BY <1>2, <1>4, <1>5, <1>6, <1>7 DEF N

(* The pairs of a member are pairs of the message, and those of two        *)
(* members are different; of its own pairs, a member is the one to find.   *)
LEMMA OwnPairs ==
    ASSUME AllSearchable, <<schema, wire>> \in Cases, ValuesInv,
           NEW i \in DOMAIN members
    PROVE  /\ Own(i) \subseteq 1 .. Pairs /\ Values(i) \subseteq Own(i)
           /\ \A j \in DOMAIN members : i # j => Own(i) \cap Own(j) = {}
           /\ Found \cap Own(i) = Values(i)
           /\ Found \subseteq 1 .. Pairs
  <1>1. DOMAIN wire.pairs = 1 .. Pairs
    BY CaseFacts
  <1>2. \A k \in DOMAIN members : Own(k) \subseteq 1 .. Pairs /\ Values(k) \subseteq Own(k)
    BY <1>1 DEF Own, PairsOf, ValuesInv
  <1>3. \A k, j \in DOMAIN members : members[k].key = members[j].key => k = j
    <2>1. Searchable(<<schema, wire>>[1], <<schema, wire>>[2])
      BY DEF AllSearchable
    <2> QED BY <2>1 DEF Searchable, members
  <1>4. \A j \in DOMAIN members : i # j => Own(i) \cap Own(j) = {}
    BY <1>3 DEF Own, PairsOf
  <1>5. Found \cap Own(i) = Values(i)
    BY <1>2, <1>4 DEF Found
  <1> QED BY <1>2, <1>4, <1>5 DEF Found

(* What a searchable schema says of its members.                           *)
LEMMA MemberFacts ==
    ASSUME AllSearchable, <<schema, wire>> \in Cases, NEW i \in DOMAIN members
    PROVE  /\ members[i].min \in Nat /\ members[i].max \in Nat
           /\ members[i].min <= members[i].max /\ members[i].max > 0
           /\ members[i].max > 1 =>
                /\ i = Len(members) /\ ~ schema.open
                /\ \A p \in 1 .. Pairs : \E j \in DOMAIN members : p \in Own(j)
                /\ \A j \in DOMAIN members : \A p, q \in Own(j) : i = j \/ p = q
  <1>1. Searchable(schema, wire)
    <2>1. Searchable(<<schema, wire>>[1], <<schema, wire>>[2])
      BY DEF AllSearchable
    <2> QED BY <2>1
  <1>2. members[i] \in Member /\ DOMAIN wire.pairs = 1 .. Pairs
    BY CaseFacts
  <1>3. /\ members[i].min \in Nat /\ members[i].max \in Nat /\ members[i].max > 0
    BY <1>2 DEF Member
  <1>4. members[i].min <= members[i].max
    BY <1>1 DEF Searchable, members
  <1>5. ASSUME members[i].max > 1
        PROVE  /\ i = Len(members) /\ ~ schema.open
               /\ \A p \in 1 .. Pairs : \E j \in DOMAIN members : p \in Own(j)
               /\ \A j \in DOMAIN members : \A p, q \in Own(j) : i = j \/ p = q
    <2>1. /\ i = Len(members) /\ ~ schema.open
          /\ \A p \in DOMAIN wire.pairs : \E j \in DOMAIN members :
                wire.pairs[p].key = members[j].key
          /\ \A p, q \in DOMAIN wire.pairs :
                wire.pairs[p].key = wire.pairs[q].key /\ p # q =>
                    wire.pairs[p].key = members[i].key
          /\ \A k, j \in DOMAIN members : members[k].key = members[j].key => k = j
      BY <1>1, <1>5 DEF Searchable, members
    <2>2. \A p \in 1 .. Pairs : \E j \in DOMAIN members : p \in Own(j)
      BY <1>2, <2>1 DEF Own, PairsOf
    <2>3. \A j \in DOMAIN members : \A p, q \in Own(j) : i = j \/ p = q
      BY <2>1 DEF Own, PairsOf
    <2> QED BY <2>1, <2>2, <2>3
  <1> QED BY <1>3, <1>4, <1>5

(* What a cursor at the i-th pair looks like.                              *)
LEMMA CursorAt ==
    ASSUME NEW i \in Nat
    PROVE  /\ z.state.payload = 2 * i - 1 \/ z.state.payload = 2 * i => Cursor = i
           /\ z'.state.payload = 2 * i - 1 \/ z'.state.payload = 2 * i => Cursor' = i
           /\ from.payload = 2 * i - 1 => From = i
  <1>1. ((2 * i - 1) + 1) \div 2 = i /\ (2 * i + 1) \div 2 = i
    OBVIOUS
  <1> QED BY <1>1 DEF Cursor, From

-----------------------------------------------------------------------------
(* Steps that decode nothing.                                              *)

(* What depends only on the case and the results stays.                    *)
LEMMA ResultKept ==
    ASSUME UNCHANGED <<schema, wire, result>>
    PROVE  /\ schema' = schema /\ wire' = wire /\ result' = result
           /\ members' = members /\ Pairs' = Pairs /\ Complete' = Complete
           /\ Found' = Found
           /\ \A i : Values(i)' = Values(i) /\ Own(i)' = Own(i) /\ (Ended(i)' <=> Ended(i))
  <1>1. /\ schema' = schema /\ wire' = wire /\ result' = result
        /\ members' = members /\ Pairs' = Pairs /\ Complete' = Complete
    BY DEF members, Pairs, Complete, Total
  <1>2. \A i : Values(i)' = Values(i) /\ Own(i)' = Own(i)
    BY <1>1 DEF Values, Own, PairsOf
  <1>3. Found' = Found
    BY <1>1 DEF Found, Values
  <1>4. \A i : Ended(i)' <=> Ended(i)
    BY <1>1, <1>2 DEF Ended
  <1> QED BY <1>1, <1>2, <1>3, <1>4

(* A step that decodes nothing leaves the member, or is done with it.      *)
LEMMA ValuesKept ==
    ASSUME MapInv, ValuesInv, UNCHANGED <<schema, wire, result>>, pc # "rejected",
           \/ m' = m
           \/ m' = m + 1 /\ m \in DOMAIN members /\ Ended(m)
    PROVE  ValuesInv'
  <1>1. /\ members' = members /\ result' = result
        /\ \A i : Values(i)' = Values(i) /\ Own(i)' = Own(i) /\ (Ended(i)' <=> Ended(i))
    BY ResultKept
  <1>2. m \in Nat /\ DOMAIN members \subseteq Nat
    BY InsideFacts, CaseFacts DEF MapInv, TypeOK
  <1> SUFFICES ASSUME NEW i \in DOMAIN members
               PROVE  /\ Values(i) \subseteq Own(i)
                      /\ Cardinality(Values(i)) = Len(result[i])
                      /\ Len(result[i]) <= members[i].max
                      /\ i > m' => result[i] = << >>
                      /\ i < m' /\ pc' # "rejected" => Ended(i)
    BY <1>1 DEF ValuesInv
  <1>3. /\ Values(i) \subseteq Own(i)
        /\ Cardinality(Values(i)) = Len(result[i])
        /\ Len(result[i]) <= members[i].max
        /\ i > m => result[i] = << >>
        /\ i < m => Ended(i)
    BY DEF ValuesInv
  <1> QED BY <1>2, <1>3

(* A member with an empty result is in step with any scan.                 *)
LEMMA NothingRepeated ==
    ASSUME MapInv, ValuesInv, UNCHANGED <<schema, wire, result>>, m' = m + 1
    PROVE  RepeatedInv'
  <1>1. members' = members /\ result' = result
    BY ResultKept
  <1>2. m \in Nat /\ DOMAIN members = 1 .. Len(members) /\ Len(members) \in Nat
    BY CaseFacts DEF MapInv, TypeOK
  <1>3. m + 1 <= Len(members) => result[m + 1] = << >>
    BY <1>2 DEF ValuesInv
  <1> QED BY <1>1, <1>3 DEF RepeatedInv

(* What the search says of a member it did not find.                       *)
LEMMA NotFoundSays ==
    ASSUME AllSearchable, MapInv, ValuesInv, m \in DOMAIN members, NotFound,
           Own(m) \subseteq Found \/ ~ Complete
    PROVE  \/ pc' = "search" /\ m' = m + 1 /\ Ended(m)
           \/ pc' = "rejected" /\ m' = m /\ ~ Matches
  <1>1. <<schema, wire>> \in Cases /\ result \in [DOMAIN members -> Seq(1 .. Pairs)]
        /\ DOMAIN members = 1 .. Len(members)
    BY CaseFacts DEF MapInv
  <1>2. /\ members[m].min \in Nat /\ Own(m) \in SUBSET (1 .. Pairs)
        /\ Values(m) \subseteq Own(m) /\ Found \cap Own(m) = Values(m)
    BY <1>1, MemberFacts, OwnPairs
  <1>3. Own(m) = Values(m) \/ ~ Complete
    BY <1>2
  <1>4. Len(result[m]) \in Nat
    BY <1>1, SeqElements
  <1>5. CASE Len(result[m]) < members[m].min
    <2>1. pc' = "rejected" /\ m' = m
      BY <1>5 DEF NotFound, Goto
    <2>2. Complete => Cardinality(Own(m)) < members[m].min
      BY <1>3, <1>5 DEF ValuesInv
    <2>3. Cardinality(Own(m)) \in Nat
      BY <1>1, <1>2, PairSets
    <2>4. ~ Matches
      <3> SUFFICES ASSUME Matches PROVE FALSE
        OBVIOUS
      <3>1. Complete /\ Cardinality(Own(m)) >= members[m].min
        BY DEF Matches, Complete, Own
      <3> QED BY <1>2, <2>2, <2>3, <3>1
    <2> QED BY <2>1, <2>4
  <1>6. CASE ~ (Len(result[m]) < members[m].min)
    <2>1. pc' = "search" /\ m' = m + 1
      BY <1>6 DEF NotFound, NextMember, Goto
    <2>2. Ended(m)
      BY <1>2, <1>3, <1>4, <1>6 DEF Ended
    <2> QED BY <2>1, <2>2
  <1> QED BY <1>5, <1>6

(* What the verdict compares depends on schema, wire and result alone.     *)
LEMMA VerdictKept ==
    ASSUME UNCHANGED <<schema, wire>>,
           pc' = "rejected" => ~ Matches \/ \E i \in DOMAIN wire.pairs : ~ wire.pairs[i].good,
           pc' = "accepted" => Matches
    PROVE  VerdictInv'
  <1>1. schema' = schema /\ wire' = wire /\ members' = members
    BY DEF members
  <1>2. Matches' = Matches
    BY <1>1 DEF Matches, PairsOf, MemberKeys, Total
  <1> QED BY <1>1, <1>2 DEF VerdictInv, MatchingAccepted, AcceptedMatches

(* A step that keeps the pairs found keeps MarkedInv, if the cursor does   *)
(* not fall back behind them while pairs are being counted.                *)
LEMMA MarkedKept ==
    ASSUME MarkedInv, UNCHANGED <<schema, wire, result>>,
           Marks'.map_elems_processed = Marks.map_elems_processed,
           Marks'.counting_map_elems => \A q \in Found : q < Cursor'
    PROVE  MarkedInv'
  <1>1. Found' = Found /\ wire' = wire
    BY ResultKept
  <1> QED BY <1>1 DEF MarkedInv

(* A search that found nothing leaves nothing of its member to be found.   *)
LEMMA NotFoundSearch ==
    ASSUME AllSearchable, MapInv, FoundInv, pc \in {"search", "scan"},
           m \in DOMAIN members, NotFound, Own(m) \subseteq Found \/ ~ Complete,
           UNCHANGED <<schema, wire, result>>, MarkedInv'
    PROVE  FoundInv' /\ VerdictInv'
  <1>1. ValuesInv
    BY DEF FoundInv
  <1>2. \/ pc' = "search" /\ m' = m + 1 /\ Ended(m)
        \/ pc' = "rejected" /\ m' = m /\ ~ Matches
    BY <1>1, NotFoundSays
  <1>3. ValuesInv'
    BY <1>1, <1>2, ValuesKept
  <1>4. VerdictInv'
    BY <1>2, VerdictKept
  <1>5. pc' = "search" => RepeatedInv'
    BY <1>1, <1>2, NothingRepeated
  <1> QED BY <1>2, <1>3, <1>4, <1>5 DEF FoundInv, Inside

(* Among all the pairs found are all a member has.                         *)
LEMMA AllFound ==
    ASSUME AllSearchable, <<schema, wire>> \in Cases, ValuesInv, m \in DOMAIN members,
           Cardinality(Found) >= Pairs
    PROVE  Found = 1 .. Pairs /\ Own(m) \subseteq Found /\ Values(m) = Own(m)
  <1>1. /\ Found \subseteq 1 .. Pairs /\ Own(m) \subseteq 1 .. Pairs
        /\ Found \cap Own(m) = Values(m)
    BY OwnPairs
  <1>2. Cardinality(Found) \in Nat /\ Cardinality(Found) <= Pairs /\ Pairs \in Nat
        /\ (Cardinality(Found) = Pairs => Found = 1 .. Pairs)
    BY <1>1, CaseFacts, PairSets
  <1>3. Found = 1 .. Pairs
    BY <1>2
  <1> QED BY <1>1, <1>3

-----------------------------------------------------------------------------
(* Layer two is inductive: the search.                                     *)

(* Each action keeps FoundInv and gives no wrong verdict.                  *)
LEMMA StartMapFinds ==
    ASSUME AllSearchable, MapInv, FoundInv, StartMap
    PROVE  FoundInv' /\ VerdictInv'
  <1> DEFINE r == UnorderedMapStart(z, 1, Pairs, wire.indefinite)
             d == r.z.state.decode_state
  <1>1. /\ <<schema, wire>> \in Cases /\ pc = "start" /\ z = NewState(wire.cut, 1) /\ m = 1
        /\ result = [i \in DOMAIN members |-> << >>]
        /\ z' = r.z /\ pc' = (IF r.ok THEN "search" ELSE "rejected")
        /\ UNCHANGED <<schema, wire, result>> /\ m' = m
        /\ ValuesInv
    BY DEF StartMap, MapInv, Goto, Pairs, FoundInv
  <1>6. wire.cut \in Nat /\ Pairs \in Nat /\ Total(wire) > 0
    BY <1>1, CaseFacts
  <1>2. /\ r.ok <=> wire.cut > 0
        /\ r.ok => d.map_elems_processed = 0
    BY <1>1, StartEffect
  <1> HIDE DEF r
  <1>3. ValuesInv'
    BY <1>1, ValuesKept
  <1>4. VerdictInv'
    <2>1. pc' = "rejected" => ~ Matches
      BY <1>1, <1>2, <1>6 DEF Matches
    <2> QED BY <1>1, <2>1, VerdictKept
  <1>5. pc' = "search" => MarkedInv' /\ RepeatedInv'
    <2> SUFFICES ASSUME pc' = "search" PROVE MarkedInv' /\ RepeatedInv'
      OBVIOUS
    <2>1. Marks'.map_elems_processed = 0
      BY <1>1, <1>2 DEF Marks
    <2>2. \A i \in DOMAIN members : result'[i] = << >> /\ members' = members
      BY <1>1 DEF members
    <2>3. Found' = {}
      BY <1>1, <2>2 DEF Found, Values, members
    <2>4. MarkedInv'
      BY <2>1, <2>3, FS_EmptySet DEF MarkedInv
    <2>5. DOMAIN members = 1 .. Len(members) /\ members' = members
      BY <1>1, CaseFacts DEF members
    <2> QED BY <1>1, <2>2, <2>4, <2>5 DEF RepeatedInv
  <1> QED BY <1>1, <1>3, <1>4, <1>5 DEF FoundInv, Inside

LEMMA MemberFullFinds ==
    ASSUME AllSearchable, MapInv, FoundInv, MemberFull
    PROVE  FoundInv' /\ VerdictInv'
  <1>1. /\ <<schema, wire>> \in Cases /\ pc = "search" /\ m \in DOMAIN members
        /\ Len(result[m]) >= members[m].max /\ pc' = "search" /\ m' = m + 1
        /\ UNCHANGED <<schema, wire, result>> /\ z' = z /\ ValuesInv /\ MarkedInv
        /\ Len(result[m]) \in Nat
    BY InsideFacts, CaseFacts, SeqElements
       DEF MemberFull, Inside, Full, NextMember, Goto, FoundInv
  <1>2. Ended(m)
    BY <1>1, MemberFacts DEF Ended
  <1>3. ValuesInv'
    BY <1>1, <1>2, ValuesKept
  <1>4. RepeatedInv'
    BY <1>1, NothingRepeated
  <1>5. MarkedInv'
    BY <1>1, ResultKept DEF MarkedInv, Marks, Cursor
  <1>6. VerdictInv'
    BY <1>1, VerdictKept
  <1> QED BY <1>1, <1>3, <1>4, <1>5, <1>6 DEF FoundInv

(* A repeated member is in step with a cursor that does not move.          *)
LEMMA RepeatedKept ==
    ASSUME RepeatedInv, UNCHANGED <<schema, wire, result>>, m' = m, Cursor' = Cursor
    PROVE  RepeatedInv'
  <1>1. /\ members' = members /\ result' = result /\ Complete' = Complete
        /\ \A i : Values(i)' = Values(i) /\ Own(i)' = Own(i)
    BY ResultKept
  <1>2. Passed(m, Cursor)' = Passed(m, Cursor)
    BY <1>1 DEF Passed
  <1>3. Values(m)' = Values(m) /\ Own(m)' = Own(m)
    BY <1>1
  <1> QED BY <1>1, <1>2, <1>3 DEF RepeatedInv

(* A search begins at a key, so it is never misaligned.                    *)
LEMMA KeysAreAligned ==
    ASSUME <<schema, wire>> \in Cases, NEW p, IsKeyOffset(p)
    PROVE  ElemsAt(p) % 2 = 0
  <1>1. Pairs \in Nat /\ LargeElemCount \in Nat /\ LargeElemCount % 2 = 0
    BY CaseFacts, MapInputsAssumption
  <1>2. PICK i \in 1 .. Pairs + 1 : p = 2 * i - 1
    BY DEF IsKeyOffset
  <1>3. CASE wire.indefinite
    <2>1. ElemsAt(p) = LargeElemCount - 2 * (i - 1)
      BY <1>1, <1>2, <1>3 DEF ElemsAt
    <2>2. (LargeElemCount - 2 * (i - 1)) % 2 = 0
      BY <1>1
    <2> QED BY <2>1, <2>2
  <1>4. CASE ~ wire.indefinite
    <2>1. ElemsAt(p) = 2 * (Pairs - (i - 1))
      BY <1>1, <1>2, <1>4 DEF ElemsAt
    <2>2. (2 * (Pairs - (i - 1))) % 2 = 0
      BY <1>1
    <2> QED BY <2>1, <2>2
  <1> QED BY <1>3, <1>4

LEMMA BeginSearchFinds ==
    ASSUME AllSearchable, MapInv, FoundInv, BeginSearch
    PROVE  FoundInv' /\ VerdictInv'
  <1>1. /\ <<schema, wire>> \in Cases /\ pc = "search" /\ m \in DOMAIN members
        /\ ~ (Len(result[m]) >= members[m].max)
        /\ UNCHANGED <<schema, wire, result>> /\ z' = z
        /\ ValuesInv /\ MarkedInv /\ RepeatedInv /\ IsKeyOffset(z.state.payload)
        /\ Len(result[m]) \in Nat
    BY InsideFacts, CaseFacts, SeqElements DEF BeginSearch, Inside, Full, FoundInv, MapInv
  <1>2. Marks' = Marks /\ Cursor' = Cursor /\ MarkedInv'
    BY <1>1, ResultKept DEF MarkedInv, Marks, Cursor
  <1>3. CASE SearchError(z.state) = "SUCCESS"
    <2>1. /\ from' = [payload |-> z.state.payload, elem_count |-> z.state.elem_count]
          /\ pc' = "scan" /\ m' = m
      BY <1>3 DEF BeginSearch, Goto
    <2>2. ValuesInv'
      BY <1>1, <2>1, ValuesKept
    <2>3. RepeatedInv'
      BY <1>1, <1>2, <2>1, RepeatedKept
    <2>4. AheadInv'
      <3>1. From' = Cursor
        BY <2>1 DEF From, Cursor
      <3>2. /\ Found' = Found /\ Own(m)' = Own(m)
            /\ Found \subseteq Int /\ Own(m) \subseteq Int
        BY <1>1, <2>1, ResultKept, OwnPairs
      <3>3. Cursor \in Int
        BY <1>1, CaseFacts DEF IsKeyOffset, Cursor
      <3>4. Marks.counting_map_elems => \A q \in Found : q < Cursor
        BY <1>1 DEF MarkedInv
      <3> QED BY <1>2, <3>1, <3>2, <3>3, <3>4 DEF AheadInv
    <2>5. Len(result[m])' < members[m].max'
      <3>1. members' = members /\ result' = result
        BY <1>1, ResultKept
      <3> QED BY <1>1, <2>1, <3>1, MemberFacts
    <2>6. VerdictInv'
      BY <1>1, <2>1, VerdictKept
    <2> QED BY <1>2, <2>1, <2>2, <2>3, <2>4, <2>5, <2>6 DEF FoundInv
  <1>4. CASE SearchError(z.state) # "SUCCESS"
    <2>1. NotFound
      BY <1>4 DEF BeginSearch
    <2>2. /\ MapContext(z, z.state.payload, Marks) /\ MapMarks(Marks) /\ Pairs \in Nat
      BY <1>1, InsideFacts DEF Inside
    <2>3. z.state.decode_state = Marks /\ z.state.elem_count % 2 = 0
      BY <1>1, <2>2, KeysAreAligned DEF MapContext, StateAt
    <2>4. ~ Marks.counting_map_elems /\ ~ (Marks.map_elems_processed < Marks.map_elem_count)
      BY <1>4, <2>3 DEF SearchError, ShouldTry
    <2>5. Cardinality(Found) >= Pairs
      BY <1>1, <2>2, <2>4 DEF MapMarks, MarkedInv, DecodeState
    <2>6. Own(m) \subseteq Found
      BY <1>1, <2>5, AllFound
    <2> QED BY <1>1, <1>2, <2>1, <2>6, NotFoundSearch
  <1> QED BY <1>3, <1>4

(* What going on from the end of the map leaves.                           *)
LEMMA ScanWrapsEffect ==
    ASSUME MapInv, ScanWraps
    PROVE  /\ z.state.payload = 2 * Pairs + 1 /\ Complete
           /\ z'.state.payload = 1 /\ Marks'.counting_map_elems = FALSE
           /\ Marks'.map_elems_processed = Marks.map_elems_processed
           /\ \/ from.payload # 1 /\ pc' = "scan" /\ m' = m
              \/ from.payload = 1 /\ NotFound
  <1> DEFINE r == HandleMapEnd(z)
             e == [Marks EXCEPT !.counting_map_elems = FALSE]
  <1>1. /\ <<schema, wire>> \in Cases /\ MapContext(z, z.state.payload, Marks)
        /\ MapMarks(Marks) /\ z.state.payload \in 1 .. 2 * Pairs + 1 /\ Pairs \in Nat
        /\ pc = "scan" /\ AtEnd(z.state)
        /\ FromAt(from, z.state.payload, Marks)
    BY InsideFacts DEF ScanWraps, Inside, MapInv
  <1>2. z.state.payload = 2 * Pairs + 1 /\ Complete /\ Marks.map_elem_count = Pairs
    BY <1>1, CountedAtEnd
  <1>3. r.ok = TRUE /\ MapContext(r.z, 1, e) /\ e \in DecodeState
    BY <1>1, <1>2, RestartEffect
  <1>4. ScanOn(r.z)
    BY <1>3 DEF ScanWraps
  <1>5. /\ e.counting_map_elems = FALSE
        /\ e.map_elems_processed = Marks.map_elems_processed
    BY <1>1 DEF MapMarks, DecodeState
  <1> HIDE DEF e, r
  <1>6. FromAt(from, 1, e) /\ 1 \in 1 .. 2 * Pairs + 1
    BY <1>1, <1>5 DEF FromAt
  <1>7. /\ MapContext(z', 1, e)
        /\ \/ from.payload # 1 /\ pc' = "scan" /\ m' = m
           \/ from.payload = 1 /\ NotFound
    BY <1>1, <1>3, <1>4, <1>6, ScanOnEffect
  <1>8. z'.state.payload = 1 /\ Marks' = e
    BY <1>7 DEF MapContext, StateAt, Marks
  <1> QED BY <1>2, <1>5, <1>7, <1>8

(* The first pair found is one of the member's.                            *)
LEMMA FirstFound ==
    ASSUME MapInv, ValuesInv, m \in DOMAIN members, result[m] # << >>
    PROVE  result[m][1] \in Values(m) /\ result[m][1] \in Own(m) /\ result[m][1] \in 1 .. Pairs
  <1>1. result[m] \in Seq(1 .. Pairs)
    BY DEF MapInv
  <1>2. ASSUME NEW S, NEW t \in Seq(S), t # << >> PROVE 1 \in DOMAIN t /\ t[1] \in S
    BY <1>2
  <1>3. 1 \in DOMAIN result[m] /\ result[m][1] \in 1 .. Pairs
    BY <1>1, <1>2
  <1> QED BY <1>3 DEF Values, ValuesInv

(* Where the scan is, and where it began, in pairs.                        *)
LEMMA ScanCursors ==
    ASSUME MapInv, pc = "scan"
    PROVE  /\ Cursor \in 1 .. Pairs + 1 /\ z.state.payload = 2 * Cursor - 1
           /\ From \in 1 .. Pairs + 1 /\ from.payload = 2 * From - 1
           /\ Pairs \in Nat /\ <<schema, wire>> \in Cases /\ m \in DOMAIN members
  <1>1. /\ IsKeyOffset(z.state.payload) /\ IsKeyOffset(from.payload) /\ Pairs \in Nat
        /\ <<schema, wire>> \in Cases /\ m \in DOMAIN members
    BY InsideFacts, CaseFacts DEF MapInv, FromAt, Inside
  <1>2. PICK i \in 1 .. Pairs + 1 : z.state.payload = 2 * i - 1
    BY <1>1 DEF IsKeyOffset
  <1>3. PICK k \in 1 .. Pairs + 1 : from.payload = 2 * k - 1
    BY <1>1 DEF IsKeyOffset
  <1>4. Cursor = i /\ From = k
    <2>1. i \in Nat /\ k \in Nat
      BY <1>1
    <2>2. Cursor = i
      BY <1>2, <2>1, CursorAt
    <2>3. From = k
      BY <1>3, <2>1, CursorAt
    <2> QED BY <2>2, <2>3
  <1> QED BY <1>1, <1>2, <1>3, <1>4

LEMMA ScanWrapsFinds ==
    ASSUME AllSearchable, MapInv, FoundInv, ScanWraps
    PROVE  FoundInv' /\ VerdictInv'
  <1>1. /\ pc = "scan" /\ UNCHANGED <<schema, wire, from, result>>
        /\ ValuesInv /\ MarkedInv /\ RepeatedInv /\ AheadInv
        /\ Len(result[m]) < members[m].max
    BY DEF ScanWraps, FoundInv, Inside
  <1>2. /\ Cursor \in 1 .. Pairs + 1 /\ z.state.payload = 2 * Cursor - 1
        /\ From \in 1 .. Pairs + 1 /\ from.payload = 2 * From - 1
        /\ Pairs \in Nat /\ <<schema, wire>> \in Cases /\ m \in DOMAIN members
    BY <1>1, ScanCursors
  <1>3. /\ z.state.payload = 2 * Pairs + 1 /\ Complete
        /\ z'.state.payload = 1 /\ Marks'.counting_map_elems = FALSE
        /\ Marks'.map_elems_processed = Marks.map_elems_processed
        /\ \/ from.payload # 1 /\ pc' = "scan" /\ m' = m
           \/ from.payload = 1 /\ NotFound
    BY ScanWrapsEffect
  <1>4. Cursor = Pairs + 1 /\ Cursor' = 1
    <2>1. z'.state.payload = 2 * 1 - 1
      BY <1>3
    <2> QED BY <1>2, <1>3, <2>1, CursorAt
  <1>5. /\ members' = members /\ result' = result /\ Complete' = Complete
        /\ Found' = Found /\ \A i : Values(i)' = Values(i) /\ Own(i)' = Own(i)
    BY <1>1, ResultKept
  <1>6. Own(m) \subseteq 1 .. Pairs /\ Values(m) \subseteq Own(m)
    BY <1>1, <1>2, OwnPairs
  <1>7. \A q \in Own(m) \ Found : q < From
    BY <1>2, <1>4, <1>6, <1>1 DEF AheadInv
  <1>8. MarkedInv'
    BY <1>1, <1>3, MarkedKept
  <1>9. CASE from.payload # 1 /\ pc' = "scan" /\ m' = m
    <2>1. ValuesInv'
      BY <1>1, <1>9, ValuesKept
    <2>2. RepeatedInv'
      <3> SUFFICES ASSUME result[m] # << >>
                   PROVE  /\ Values(m) = Passed(m, Pairs + 1) => Values(m) = Passed(m, 1)
        <4>1. Passed(m, Cursor)' = Passed(m, 1)
          BY <1>4, <1>5, <1>9 DEF Passed
        <4> QED BY <1>1, <1>2, <1>3, <1>4, <1>5, <1>9, <4>1 DEF RepeatedInv
      <3>1. result[m][1] \in 1 .. Pairs
        BY <1>1, <1>2, FirstFound
      <3> QED BY <1>2, <1>6, <3>1 DEF Passed
    <2>3. AheadInv'
      <3>1. From' = From
        BY <1>1 DEF From
      <3> QED BY <1>2, <1>3, <1>4, <1>5, <1>6, <1>7, <1>9, <3>1 DEF AheadInv
    <2>4. VerdictInv'
      BY <1>1, <1>9, VerdictKept
    <2> QED BY <1>1, <1>5, <1>8, <1>9, <2>1, <2>2, <2>3, <2>4 DEF FoundInv
  <1>10. CASE from.payload = 1 /\ NotFound
    <2>1. From = 1
      BY <1>2, <1>10
    <2>2. Own(m) \subseteq Found
      BY <1>6, <1>7, <2>1
    <2> QED BY <1>1, <1>2, <1>8, <1>10, <2>2, NotFoundSearch
  <1> QED BY <1>3, <1>9, <1>10

(* What skipping a pair leaves, and why it was skipped.                    *)
LEMMA KeySkippedEffect ==
    ASSUME MapInv, KeySkipped
    PROVE  /\ Marks'.counting_map_elems = Marks.counting_map_elems
           /\ Marks'.map_elems_processed = Marks.map_elems_processed
           /\ \/ /\ Cursor \in 1 .. Pairs /\ 2 * Cursor + 1 <= wire.cut
                 /\ \/ Cursor \notin Own(m)
                    \/ /\ Marks.map_elems_processed >= Marks.map_elem_count
                       /\ Marks.counting_map_elems => Marks.map_elems_processed >= Cursor
                 /\ z'.state.payload = 2 * Cursor + 1
                 /\ \/ From # Cursor + 1 /\ pc' = "scan" /\ m' = m
                    \/ From = Cursor + 1 /\ NotFound
              \/ ~ Complete /\ z'.state.payload = from.payload /\ NotFound
  <1> DEFINE i == Cursor
             c == CountPairs(z)
             r == SkipPair(c)
             e == Counted(Marks, i)
  <1>1. /\ <<schema, wire>> \in Cases /\ pc = "scan" /\ ~ AtEnd(z.state)
        /\ IF r.ok THEN ScanOn(r.z) ELSE ScanError(c)
        /\ ~ KeyMatches(c, members[m].key)
        /\ wire.cut \in Nat /\ Pairs \in Nat /\ DOMAIN wire.pairs = 1 .. Pairs
        /\ FromAt(from, z.state.payload, Marks) /\ MapMarks(Marks)
    BY InsideFacts, CaseFacts DEF KeySkipped, Inside, MapInv
  <1>2. /\ i \in 1 .. Pairs + 1 /\ z.state.payload = 2 * i - 1
        /\ From \in 1 .. Pairs + 1 /\ from.payload = 2 * From - 1
    BY <1>1, ScanCursors
  <1> HIDE DEF i
  <1>3. /\ MapContext(c, 2 * i - 1, e) /\ MapMarks(e)
        /\ e.counting_map_elems = Marks.counting_map_elems
        /\ e.map_elems_processed = Marks.map_elems_processed
        /\ e.map_elem_count >= Marks.map_elem_count
        /\ Marks.counting_map_elems => e.map_elem_count >= i
        /\ Complete => i <= Pairs
        /\ ~ AtEnd(c.state)
    BY <1>1, <1>2, AtKeyFacts
  <1> HIDE DEF e, c
  <1>4. /\ r.ok \in BOOLEAN
        /\ r.ok => /\ MapContext(r.z, 2 * i + 1, e)
                   /\ i <= Pairs /\ 2 * i + 1 <= wire.cut
        /\ ~ r.ok => ~ Complete
    BY <1>1, <1>2, <1>3, SkipPairEffect
  <1>5. /\ FromAt(from, 2 * i - 1, e) /\ FromAt(from, 2 * i + 1, e)
    <2>1. e.counting_map_elems => from.payload <= 2 * i - 1
      BY <1>1, <1>2, <1>3 DEF FromAt
    <2>2. e.counting_map_elems => from.payload <= 2 * i + 1
      BY <1>1, <1>2, <2>1
    <2> QED BY <1>1, <2>1, <2>2 DEF FromAt
  <1>6. CASE r.ok
    <2>1. ScanOn(r.z) /\ MapContext(r.z, 2 * i + 1, e) /\ i \in 1 .. Pairs
          /\ 2 * i + 1 \in 1 .. 2 * Pairs + 1 /\ 2 * i + 1 <= wire.cut
      BY <1>1, <1>2, <1>4, <1>6
    <2>2. /\ MapContext(z', 2 * i + 1, e)
          /\ \/ from.payload # 2 * i + 1 /\ pc' = "scan" /\ m' = m
             \/ from.payload = 2 * i + 1 /\ NotFound
      BY <1>1, <1>5, <2>1, ScanOnEffect
    <2>3. z'.state.payload = 2 * i + 1 /\ Marks' = e
      BY <2>2 DEF MapContext, StateAt, Marks
    <2>4. \/ i \notin Own(m)
          \/ e.map_elems_processed >= e.map_elem_count
      <3> SUFFICES ASSUME i \in Own(m), ~ (e.map_elems_processed >= e.map_elem_count)
                   PROVE  FALSE
        OBVIOUS
      <3>1. c.state.payload = 2 * i - 1 /\ c.state.decode_state = e
        BY <1>3 DEF MapContext, StateAt
      <3>2. ShouldTry(c.state)
        BY <1>3, <3>1 DEF ShouldTry, MapMarks, DecodeState
      <3>3. AtKey(c.state) /\ PairAt(c.state) = i
        <4>1. (2 * i - 1) % 2 = 1 /\ ((2 * i - 1) + 1) \div 2 = i /\ 2 * i - 1 < 2 * Pairs
          BY <1>1, <2>1
        <4> QED BY <3>1, <4>1 DEF AtKey, PairAt, Pairs
      <3>4. wire.pairs[i].key = members[m].key
        BY DEF Own, PairsOf
      <3>5. ValueExtract(c, 1).ok
        <4>1. AnySkip(c).ok
          BY <1>6 DEF SkipPair
        <4> QED BY <4>1 DEF AnySkip, Fail
      <3> QED BY <1>1, <3>2, <3>3, <3>4, <3>5 DEF KeyMatches
    <2>5. from.payload = 2 * i + 1 <=> From = i + 1
      BY <1>1, <1>2
    <2>6. /\ Marks.map_elem_count \in Nat /\ Marks.map_elems_processed \in Nat
          /\ e.map_elem_count \in Nat
      BY <1>1, <1>3 DEF MapMarks, DecodeState
    <2>7. e.map_elems_processed >= e.map_elem_count =>
            /\ Marks.map_elems_processed >= Marks.map_elem_count
            /\ Marks.counting_map_elems => Marks.map_elems_processed >= i
      BY <1>3, <2>1, <2>6
    <2> QED BY <1>3, <2>1, <2>2, <2>3, <2>4, <2>5, <2>7 DEF i
  <1>7. CASE ~ r.ok
    <2> DEFINE q == from.payload
    <2>1. /\ q \in 1 .. 2 * Pairs + 1 /\ from.elem_count = ElemsAt(q)
      BY <1>1, <1>2 DEF FromAt
    <2>2. /\ z' = [c EXCEPT !.state.payload = q, !.state.elem_count = ElemsAt(q)]
          /\ NotFound
      BY <1>1, <1>7, <2>1 DEF ScanError
    <2> HIDE DEF q
    <2>3. z' = [c EXCEPT !.state = [c.state EXCEPT !.payload = q, !.elem_count = ElemsAt(q)]]
      BY <2>2
    <2>4. MapContext(z', q, e)
      BY <1>1, <1>3, <2>1, <2>3, AssignCursor
    <2>5. z'.state.payload = q /\ Marks' = e
      BY <2>4 DEF MapContext, StateAt, Marks
    <2> QED BY <1>3, <1>4, <1>7, <2>2, <2>5 DEF q
  <1> QED BY <1>4, <1>6, <1>7

(* Pairs that all lie before the n-th are fewer than n.                    *)
LEMMA FewerBefore ==
    ASSUME NEW n \in Nat, NEW S \in SUBSET Nat, \A q \in S : 1 <= q /\ q < n
    PROVE  Cardinality(S) \in Nat /\ (n > 0 => Cardinality(S) < n)
  <1> DEFINE T == 1 .. n - 1
  <1>1. /\ IsFiniteSet(T) /\ Cardinality(T) = (IF 1 > n - 1 THEN 0 ELSE n - 1 - 1 + 1)
    BY FS_Interval
  <1>2. S \subseteq T
    OBVIOUS
  <1> HIDE DEF T
  <1>3. IsFiniteSet(S) /\ Cardinality(S) <= Cardinality(T)
    BY <1>1, <1>2, FS_Subset
  <1>4. Cardinality(S) \in Nat
    BY <1>3, FS_CardinalityType
  <1>5. n > 0 => Cardinality(T) = n - 1
    BY <1>1
  <1> QED BY <1>3, <1>4, <1>5

(* When a pair is not tried, all were found.                               *)
LEMMA NotTriedAllFound ==
    ASSUME AllSearchable, MapInv, FoundInv, pc = "scan", Cursor \in 1 .. Pairs,
           Marks.map_elems_processed >= Marks.map_elem_count,
           Marks.counting_map_elems => Marks.map_elems_processed >= Cursor
    PROVE  Own(m) \subseteq Found /\ Values(m) = Own(m) /\ Complete
  <1>1. /\ <<schema, wire>> \in Cases /\ m \in DOMAIN members /\ Pairs \in Nat
        /\ ValuesInv /\ MarkedInv /\ MapMarks(Marks)
    BY ScanCursors, InsideFacts DEF FoundInv, Inside
  <1>2. Found \subseteq 1 .. Pairs
    BY <1>1, OwnPairs
  <1>3. ~ Marks.counting_map_elems
    <2> SUFFICES ASSUME Marks.counting_map_elems PROVE FALSE
      OBVIOUS
    <2>1. \A q \in Found : 1 <= q /\ q < Cursor
      BY <1>1, <1>2 DEF MarkedInv
    <2>2. Found \in SUBSET Nat /\ Cursor \in Nat /\ Cursor > 0
      BY <1>1, <1>2
    <2>3. Cardinality(Found) \in Nat /\ Cardinality(Found) < Cursor
      BY <2>1, <2>2, FewerBefore
    <2> QED BY <1>1, <2>2, <2>3 DEF MarkedInv
  <1>4. Cardinality(Found) >= Pairs
    BY <1>1, <1>3 DEF MapMarks, MarkedInv
  <1>5. Found = 1 .. Pairs /\ Own(m) \subseteq Found /\ Values(m) = Own(m)
    BY <1>1, <1>4, AllFound
  <1>6. Complete
    <2>1. 2 * Pairs + 1 <= wire.cut
      <3>1. Pairs \in Found
        BY <1>1, <1>5
      <3> QED BY <1>1, <3>1 DEF MarkedInv
    <2>2. /\ wire.cut \in Nat /\ wire.cut <= Total(wire) /\ wire.indefinite \in BOOLEAN
          /\ Total(wire) = 2 * Pairs + (IF wire.indefinite THEN 2 ELSE 1)
      BY <1>1, CaseFacts
    <2>3. CASE wire.indefinite
      BY <1>1, <1>3, <2>3 DEF MapMarks
    <2>4. CASE ~ wire.indefinite
      BY <1>1, <2>1, <2>2, <2>4 DEF Complete
    <2> QED BY <2>2, <2>3, <2>4
  <1> QED BY <1>5, <1>6

LEMMA KeySkippedFinds ==
    ASSUME AllSearchable, MapInv, FoundInv, KeySkipped
    PROVE  FoundInv' /\ VerdictInv'
  <1> DEFINE i == Cursor
  <1>1. /\ pc = "scan" /\ UNCHANGED <<schema, wire, from, result>>
        /\ ValuesInv /\ MarkedInv /\ RepeatedInv /\ AheadInv
        /\ Len(result[m]) < members[m].max
    BY DEF KeySkipped, FoundInv, Inside
  <1>2. /\ i \in 1 .. Pairs + 1
        /\ From \in 1 .. Pairs + 1 /\ from.payload = 2 * From - 1
        /\ Pairs \in Nat /\ <<schema, wire>> \in Cases /\ m \in DOMAIN members
    BY <1>1, ScanCursors
  <1>3. /\ Marks'.counting_map_elems = Marks.counting_map_elems
        /\ Marks'.map_elems_processed = Marks.map_elems_processed
        /\ \/ /\ i \in 1 .. Pairs
              /\ \/ i \notin Own(m)
                 \/ /\ Marks.map_elems_processed >= Marks.map_elem_count
                    /\ Marks.counting_map_elems => Marks.map_elems_processed >= i
              /\ z'.state.payload = 2 * i + 1
              /\ \/ From # i + 1 /\ pc' = "scan" /\ m' = m
                 \/ From = i + 1 /\ NotFound
           \/ ~ Complete /\ z'.state.payload = from.payload /\ NotFound
    BY KeySkippedEffect
  <1>4. /\ members' = members /\ result' = result /\ Complete' = Complete
        /\ Found' = Found /\ From' = From
        /\ \A k : Values(k)' = Values(k) /\ Own(k)' = Own(k)
    BY <1>1, ResultKept DEF From
  <1>5. Own(m) \subseteq 1 .. Pairs /\ Values(m) \subseteq Own(m) /\ Found \subseteq 1 .. Pairs
    BY <1>1, <1>2, OwnPairs
  <1>6. ASSUME ~ Complete, z'.state.payload = from.payload, NotFound
        PROVE  FoundInv' /\ VerdictInv'
    <2>1. Cursor' = From
      BY <1>2, <1>6, CursorAt
    <2>2. MarkedInv'
      BY <1>1, <1>3, <2>1, MarkedKept DEF AheadInv
    <2> QED BY <1>1, <1>2, <1>6, <2>2, NotFoundSearch
  <1>7. ASSUME i \in 1 .. Pairs, z'.state.payload = 2 * i + 1,
               \/ i \notin Own(m)
               \/ /\ Marks.map_elems_processed >= Marks.map_elem_count
                  /\ Marks.counting_map_elems => Marks.map_elems_processed >= i
        PROVE  /\ MarkedInv' /\ Cursor' = i + 1
               /\ \/ i \notin Own(m)
                  \/ Own(m) \subseteq Found /\ Values(m) = Own(m) /\ Complete
    <2>1. Cursor' = i + 1
      <3>1. i + 1 \in Nat /\ z'.state.payload = 2 * (i + 1) - 1
        BY <1>7
      <3> QED BY <3>1, CursorAt
    <2>2. MarkedInv'
      <3>1. Marks'.counting_map_elems => \A q \in Found : q < i + 1
        BY <1>1, <1>2, <1>3, <1>5 DEF MarkedInv
      <3> QED BY <1>1, <1>3, <2>1, <3>1, MarkedKept
    <2> QED BY <1>1, <1>7, <2>1, <2>2, NotTriedAllFound
  <1>8. ASSUME MarkedInv', Cursor' = i + 1, pc' = "scan", m' = m, i \in 1 .. Pairs,
               From # i + 1,
               \/ i \notin Own(m)
               \/ Own(m) \subseteq Found /\ Values(m) = Own(m) /\ Complete
        PROVE  FoundInv' /\ VerdictInv'
    <2>1. ValuesInv'
      BY <1>1, <1>8, ValuesKept
    <2>2. AheadInv'
      <3>1. /\ \A q \in Own(m) \ Found :
                 IF i >= From THEN q < From \/ i <= q ELSE i <= q /\ q < From
            /\ Marks.counting_map_elems => \A q \in Found : q < From
        BY <1>1 DEF AheadInv
      <3> HIDE DEF i
      <3>2. ASSUME NEW q \in Own(m) \ Found
            PROVE  IF i + 1 >= From THEN q < From \/ i + 1 <= q ELSE i + 1 <= q /\ q < From
        <4>1. q # i /\ q \in 1 .. Pairs
          BY <1>5, <1>8, <3>2
        <4>2. IF i >= From THEN q < From \/ i <= q ELSE i <= q /\ q < From
          BY <3>1
        <4> QED BY <1>2, <1>8, <4>1, <4>2
      <3> QED BY <1>3, <1>4, <1>8, <3>1, <3>2 DEF AheadInv
    <2>3. RepeatedInv'
      <3>1. Passed(m, Cursor)' = Passed(m, i + 1)
        BY <1>4, <1>8 DEF Passed
      <3> SUFFICES ASSUME result[m] # << >>
                   PROVE  \/ /\ Values(m) = Passed(m, i + 1)
                             /\ Complete \/ result[m][1] < i + 1
                          \/ Values(m) = Own(m) /\ Complete
        BY <1>2, <1>4, <1>8, <3>1 DEF RepeatedInv
      <3>2. CASE Own(m) \subseteq Found /\ Values(m) = Own(m) /\ Complete
        BY <3>2
      <3>3. CASE i \notin Own(m)
        <4>1. result[m][1] \in 1 .. Pairs /\ result[m][1] \in Own(m)
          BY <1>1, <1>2, FirstFound
        <4>2. m <= Len(members)
          BY <1>2, CaseFacts
        <4>3. \/ /\ Values(m) = Passed(m, i)
                 /\ Complete \/ result[m][1] < i
              \/ Values(m) = Own(m) /\ Complete
          BY <1>1, <4>2 DEF RepeatedInv
        <4> HIDE DEF i
        <4>4. Passed(m, i + 1) = Passed(m, i)
          <5> DEFINE a == result[m][1]
          <5>1. \A q \in Own(m) : q \in Int /\ q # i
            BY <1>5, <3>3
          <5>2. a \in Int /\ a # i /\ i \in Int
            BY <1>8, <4>1, <5>1
          <5>3. /\ Passed(m, i) = IF a < i THEN { q \in Own(m) : a <= q /\ q < i }
                                 ELSE { q \in Own(m) : a <= q \/ q < i }
                /\ Passed(m, i + 1) = IF a < i + 1 THEN { q \in Own(m) : a <= q /\ q < i + 1 }
                                     ELSE { q \in Own(m) : a <= q \/ q < i + 1 }
            BY DEF Passed
          <5> HIDE DEF a
          <5>4. \A q \in Own(m) : q < i + 1 <=> q < i
            BY <5>1, <5>2
          <5>5. a < i + 1 <=> a < i
            BY <5>2
          <5> QED BY <5>3, <5>4, <5>5
        <4>5. result[m][1] < i => result[m][1] < i + 1
          BY <1>8, <4>1
        <4> QED BY <4>3, <4>4, <4>5
      <3> QED BY <1>8, <3>2, <3>3
    <2>4. VerdictInv'
      BY <1>1, <1>8, VerdictKept
    <2> QED BY <1>1, <1>4, <1>8, <2>1, <2>2, <2>3, <2>4 DEF FoundInv
  <1>9. ASSUME MarkedInv', NotFound, From = i + 1, i \in 1 .. Pairs,
               \/ i \notin Own(m)
               \/ Own(m) \subseteq Found /\ Values(m) = Own(m) /\ Complete
        PROVE  FoundInv' /\ VerdictInv'
    <2>1. Own(m) \subseteq Found
      <3>1. \A q \in Own(m) \ Found : q = i
        BY <1>1, <1>2, <1>5, <1>9 DEF AheadInv
      <3> QED BY <1>9, <3>1
    <2> QED BY <1>1, <1>2, <1>9, <2>1, NotFoundSearch
  <1> HIDE DEF i
  <1>10. CASE ~ Complete /\ z'.state.payload = from.payload /\ NotFound
    BY <1>6, <1>10
  <1>11. CASE /\ i \in 1 .. Pairs
              /\ \/ i \notin Own(m)
                 \/ /\ Marks.map_elems_processed >= Marks.map_elem_count
                    /\ Marks.counting_map_elems => Marks.map_elems_processed >= i
              /\ z'.state.payload = 2 * i + 1
              /\ \/ From # i + 1 /\ pc' = "scan" /\ m' = m
                 \/ From = i + 1 /\ NotFound
    <2>1. /\ MarkedInv' /\ Cursor' = i + 1
          /\ \/ i \notin Own(m)
             \/ Own(m) \subseteq Found /\ Values(m) = Own(m) /\ Complete
      BY <1>7, <1>11
    <2> QED BY <1>8, <1>9, <1>11, <2>1
  <1> QED BY <1>3, <1>10, <1>11

(* Once a repeated member has all its pairs, every pair of the message was *)
(* found.                                                                  *)
LEMMA RepeatedFindsAll ==
    ASSUME AllSearchable, MapInv, ValuesInv, pc # "rejected", m \in DOMAIN members,
           members[m].max > 1, Complete, Values(m) = Own(m)
    PROVE  Found = 1 .. Pairs
  <1>1. /\ <<schema, wire>> \in Cases /\ DOMAIN members = 1 .. Len(members)
        /\ Len(members) \in Nat /\ m \in Nat
        /\ result \in [DOMAIN members -> Seq(1 .. Pairs)]
    BY CaseFacts DEF MapInv
  <1>2. /\ m = Len(members)
        /\ \A p \in 1 .. Pairs : \E j \in DOMAIN members : p \in Own(j)
        /\ \A j \in DOMAIN members : \A p, q \in Own(j) : m = j \/ p = q
    BY <1>1, MemberFacts
  <1>3. Found \subseteq 1 .. Pairs
    BY <1>1, OwnPairs
  <1>4. ASSUME NEW j \in DOMAIN members PROVE Own(j) \subseteq Values(j)
    <2>1. CASE j = m
      BY <2>1
    <2>2. CASE j # m
      <3>1. j < m /\ Ended(j) /\ Values(j) \subseteq Own(j)
            /\ Cardinality(Values(j)) = Len(result[j])
        BY <1>1, <1>2, <2>2 DEF ValuesInv
      <3>2. CASE Len(result[j]) < members[j].max
        BY <3>1, <3>2 DEF Ended
      <3>3. CASE ~ (Len(result[j]) < members[j].max)
        <4>1. Len(result[j]) \in Nat /\ members[j].max \in Nat /\ members[j].max > 0
          BY <1>1, MemberFacts, SeqElements
        <4>2. Values(j) # {}
          BY <3>1, <3>3, <4>1, FS_EmptySet
        <4>3. \A p, q \in Own(j) : p = q
          BY <1>2, <2>2
        <4> QED BY <3>1, <4>2, <4>3
      <3> QED BY <3>2, <3>3
    <2> QED BY <2>1, <2>2
  <1>5. 1 .. Pairs \subseteq Found
    BY <1>2, <1>4 DEF Found
  <1> QED BY <1>3, <1>5

LEMMA KeyFoundFinds ==
    ASSUME AllSearchable, MapInv, FoundInv, KeyFound
    PROVE  FoundInv' /\ VerdictInv'
  <1>1. /\ pc = "scan" /\ UNCHANGED <<schema, wire, m, from, result>> /\ pc' = "value"
        /\ ValuesInv /\ MarkedInv /\ RepeatedInv /\ ~ AtEnd(z.state)
        /\ Len(result[m]) < members[m].max
    BY DEF KeyFound, FoundInv, Inside, Goto
  <1>2. /\ Pairs \in Nat /\ <<schema, wire>> \in Cases /\ m \in DOMAIN members
        /\ DOMAIN wire.pairs = 1 .. Pairs /\ m <= Len(members) /\ MapMarks(Marks)
        /\ result \in [DOMAIN members -> Seq(1 .. Pairs)]
    BY <1>1, ScanCursors, CaseFacts, InsideFacts DEF Inside
  <1>3. PICK i \in 1 .. Pairs :
            LET e == Counted(Marks, i) IN
            /\ z.state.payload = 2 * i - 1
            /\ wire.pairs[i].key = members[m].key
            /\ e.map_elems_processed < e.map_elem_count
            /\ MapContext(z', 2 * i, e) /\ 2 * i <= wire.cut
    BY KeyFoundEffect
  <1> DEFINE e == Counted(Marks, i)
  <1>4. /\ MapMarks(e)
        /\ e.counting_map_elems = Marks.counting_map_elems
        /\ e.map_elems_processed = Marks.map_elems_processed
    <2>1. i \in 1 .. Pairs + 1
      BY <1>2
    <2> QED BY <1>1, <1>3, <2>1, AtKeyFacts
  <1>5. MapContext(z', 2 * i, e) /\ e.map_elems_processed < e.map_elem_count
    BY <1>3
  <1> HIDE DEF e
  <1>6. z'.state.payload = 2 * i /\ Marks' = e
    BY <1>5 DEF MapContext, StateAt, Marks
  <1>7. Cursor = i /\ Cursor' = i
    <2>1. i \in Nat
      BY <1>2
    <2> QED BY <1>3, <1>6, <2>1, CursorAt
  <1>8. /\ members' = members /\ result' = result /\ Found' = Found
    BY <1>1, ResultKept
  <1>9. i \in Own(m) /\ Own(m) \subseteq 1 .. Pairs /\ Found \cap Own(m) = Values(m)
        /\ Values(m) \subseteq Own(m)
    BY <1>1, <1>2, <1>3, OwnPairs DEF Own, PairsOf
  <1>10. i \notin Found
    <2> SUFFICES ASSUME i \in Found PROVE FALSE
      OBVIOUS
    <2>1. i \in Values(m)
      BY <1>9
    <2>2. result[m] \in Seq(1 .. Pairs)
      BY <1>2
    <2>3. result[m] # << >> /\ Len(result[m]) \in Nat /\ Len(result[m]) > 0
      <3>1. DOMAIN result[m] # {} /\ DOMAIN result[m] = 1 .. Len(result[m])
            /\ Len(result[m]) \in Nat
        BY <2>1, <2>2, SeqElements DEF Values
      <3>2. Len(result[m]) # 0
        BY <3>1
      <3> QED BY <3>1, <3>2
    <2>4. members[m].max > 1
      BY <1>1, <1>2, <2>3, MemberFacts
    <2>5. Values(m) = Own(m) /\ Complete
      <3> DEFINE a == result[m][1]
      <3>1. a \in 1 .. Pairs
        BY <1>1, <1>2, <2>3, FirstFound
      <3>2. \/ /\ Values(m) = Passed(m, i)
               /\ Complete \/ a < i
            \/ Values(m) = Own(m) /\ Complete
        BY <1>1, <1>2, <1>7, <2>3 DEF RepeatedInv
      <3>3. Passed(m, i) = IF a < i THEN { q \in Own(m) : a <= q /\ q < i }
                           ELSE { q \in Own(m) : a <= q \/ q < i }
        BY DEF Passed
      <3> HIDE DEF a
      <3>4. CASE Values(m) = Passed(m, i) /\ (Complete \/ a < i)
        <4>1. ~ (a < i)
          BY <1>2, <2>1, <3>1, <3>3, <3>4
        <4>2. a = i
          BY <1>2, <2>1, <3>1, <3>3, <3>4, <4>1
        <4>3. \A q \in Own(m) : a <= q \/ q < i
          BY <1>2, <1>9, <3>1, <4>2
        <4>4. Passed(m, i) = Own(m)
          BY <3>3, <4>1, <4>3
        <4> QED BY <3>4, <4>1, <4>4
      <3> QED BY <3>2, <3>4
    <2>6. Found = 1 .. Pairs
      BY <1>1, <1>2, <2>4, <2>5, RepeatedFindsAll
    <2>7. Cardinality(Found) = Pairs
      BY <1>2, <2>6, FS_Interval
    <2>8. e.map_elem_count <= Pairs /\ e.map_elem_count \in Nat
      BY <1>2, <1>4, <2>5 DEF MapMarks, DecodeState
    <2>9. e.map_elems_processed = Pairs
      BY <1>1, <1>4, <2>7 DEF MarkedInv
    <2> QED BY <1>2, <1>5, <2>8, <2>9
  <1>11. ValuesInv'
    BY <1>1, ValuesKept
  <1>12. MarkedInv'
    <2>1. Marks.counting_map_elems => \A q \in Found : q < Cursor
      BY <1>1 DEF MarkedInv
    <2> QED BY <1>1, <1>4, <1>6, <1>7, <2>1, MarkedKept
  <1>13. RepeatedInv'
    BY <1>1, <1>7, RepeatedKept
  <1>14. VerdictInv'
    BY <1>1, VerdictKept
  <1> QED BY <1>1, <1>7, <1>8, <1>10, <1>11, <1>12, <1>13, <1>14 DEF FoundInv

-----------------------------------------------------------------------------
(* Layer two is inductive: a value decoded, and the end of the map.        *)

(* What appending to a sequence adds to it.                                *)
LEMMA Appended ==
    ASSUME NEW S, NEW seq \in Seq(S), NEW x \in S
    PROVE  LET t == Append(seq, x) IN
           /\ { t[j] : j \in DOMAIN t } = { seq[j] : j \in DOMAIN seq } \cup {x}
           /\ Len(t) = Len(seq) + 1 /\ t # << >>
           /\ t[1] = IF seq = << >> THEN x ELSE seq[1]
  <1> DEFINE t == Append(seq, x)
             n == Len(seq)
  <1>1. /\ n \in Nat /\ Len(t) = n + 1 /\ DOMAIN t = 1 .. n + 1 /\ DOMAIN seq = 1 .. n
        /\ t[n + 1] = x /\ \A j \in 1 .. n : t[j] = seq[j]
    OBVIOUS
  <1>2. n = 0 <=> seq = << >>
    OBVIOUS
  <1>3. t # << >>
    <2>1. Len(<< >>) = 0
      OBVIOUS
    <2> HIDE DEF t
    <2> QED BY <1>1, <2>1
  <1> HIDE DEF t, n
  <1>4. { t[j] : j \in DOMAIN t } = { seq[j] : j \in DOMAIN seq } \cup {x}
    <2>1. \A j \in DOMAIN t : j \in DOMAIN seq \/ j = n + 1
      BY <1>1
    <2>2. \A j \in DOMAIN seq : j \in DOMAIN t /\ t[j] = seq[j]
      BY <1>1
    <2>3. n + 1 \in DOMAIN t
      BY <1>1
    <2> QED BY <1>1, <2>1, <2>2, <2>3
  <1>5. t[1] = IF seq = << >> THEN x ELSE seq[1]
    BY <1>1, <1>2
  <1> QED BY <1>1, <1>3, <1>4, <1>5 DEF t, n

(* What a value decoded adds to the results.                               *)
LEMMA ResultGrows ==
    ASSUME MapInv, m \in DOMAIN members, NEW i \in 1 .. Pairs,
           result' = [result EXCEPT ![m] = Append(@, i)], UNCHANGED <<schema, wire>>
    PROVE  /\ members' = members /\ Pairs' = Pairs /\ Complete' = Complete /\ wire' = wire
           /\ Found' = Found \cup {i}
           /\ \A j : Own(j)' = Own(j)
           /\ \A j \in DOMAIN members :
                /\ j = m => /\ Values(j)' = Values(j) \cup {i}
                            /\ Len(result'[j]) = Len(result[j]) + 1 /\ result'[j] # << >>
                            /\ result'[j][1] = IF result[j] = << >> THEN i ELSE result[j][1]
                /\ j # m => /\ Values(j)' = Values(j) /\ result'[j] = result[j]
                            /\ (Ended(j)' <=> Ended(j))
  <1>1. /\ members' = members /\ Pairs' = Pairs /\ Complete' = Complete /\ wire' = wire
        /\ schema' = schema
    BY DEF members, Pairs, Complete, Total
  <1>2. \A j : Own(j)' = Own(j)
    BY <1>1 DEF Own, PairsOf
  <1>3. result \in [DOMAIN members -> Seq(1 .. Pairs)]
    BY DEF MapInv
  <1>4. ASSUME NEW j \in DOMAIN members, j = m
        PROVE  /\ Values(j)' = Values(j) \cup {i}
               /\ Len(result'[j]) = Len(result[j]) + 1 /\ result'[j] # << >>
               /\ result'[j][1] = IF result[j] = << >> THEN i ELSE result[j][1]
    <2> DEFINE S == 1 .. Pairs
               t == Append(result[j], i)
    <2>1. result[j] \in Seq(S) /\ result'[j] = t /\ i \in S
      BY <1>3, <1>4
    <2> HIDE DEF S
    <2>2. /\ { t[k] : k \in DOMAIN t } = { result[j][k] : k \in DOMAIN result[j] } \cup {i}
          /\ Len(t) = Len(result[j]) + 1 /\ t # << >>
          /\ t[1] = IF result[j] = << >> THEN i ELSE result[j][1]
      BY <2>1, Appended
    <2> HIDE DEF t
    <2>3. Values(j)' = { t[k] : k \in DOMAIN t }
      BY <2>1 DEF Values
    <2> QED BY <2>1, <2>2, <2>3 DEF Values
  <1>5. ASSUME NEW j \in DOMAIN members, j # m
        PROVE  Values(j)' = Values(j) /\ result'[j] = result[j] /\ (Ended(j)' <=> Ended(j))
    <2>1. result'[j] = result[j]
      BY <1>3, <1>5
    <2>2. Values(j)' = Values(j)
      BY <2>1 DEF Values
    <2> QED BY <1>1, <1>2, <2>1, <2>2 DEF Ended
  <1>6. Found' = Found \cup {i}
    BY <1>1, <1>4, <1>5 DEF Found
  <1> QED BY <1>1, <1>2, <1>4, <1>5, <1>6

(* Another pair of its own keeps a repeated member in step.                *)
LEMMA PassedOne ==
    ASSUME NEW N \in Nat, NEW S \in SUBSET (1 .. N), NEW i \in S, NEW a \in 1 .. N, a # i
    PROVE  (IF a < i + 1 THEN { q \in S : a <= q /\ q < i + 1 }
            ELSE { q \in S : a <= q \/ q < i + 1 })
         = (IF a < i THEN { q \in S : a <= q /\ q < i }
            ELSE { q \in S : a <= q \/ q < i }) \cup {i}
  <1>1. i \in Int /\ a \in Int /\ \A q \in S : q \in Int
    OBVIOUS
  <1>2. \A q \in S : q < i + 1 <=> q < i \/ q = i
    BY <1>1
  <1>3. a < i + 1 <=> a < i
    BY <1>1
  <1>4. CASE a < i
    <2>1. a <= i
      BY <1>1, <1>4
    <2> QED BY <1>2, <1>3, <1>4, <2>1
  <1>5. CASE ~ (a < i)
    BY <1>2, <1>3, <1>5
  <1> QED BY <1>4, <1>5

LEMMA DecodeValueFinds ==
    ASSUME AllSearchable, MapInv, FoundInv, DecodeValue
    PROVE  FoundInv' /\ VerdictInv'
  <1> DEFINE e == Marked(Marks)
  <1>1. /\ pc = "value" /\ UNCHANGED <<schema, wire, from>>
        /\ ValuesInv /\ MarkedInv /\ RepeatedInv /\ Cursor \notin Found
        /\ Len(result[m]) < members[m].max
    BY DEF DecodeValue, FoundInv, Inside
  <1>2. /\ Pairs \in Nat /\ <<schema, wire>> \in Cases /\ m \in DOMAIN members
        /\ DOMAIN wire.pairs = 1 .. Pairs /\ DOMAIN members = 1 .. Len(members)
        /\ Len(members) \in Nat /\ m \in Nat /\ m <= Len(members) /\ MapMarks(Marks)
        /\ result \in [DOMAIN members -> Seq(1 .. Pairs)]
    BY <1>1, CaseFacts, InsideFacts DEF MapInv, Inside
  <1>3. PICK i \in 1 .. Pairs :
            /\ z.state.payload = 2 * i
            /\ wire.pairs[i].key = members[m].key
            /\ Marks.map_elems_processed < Marks.map_elem_count
            /\ \/ /\ ~ wire.pairs[i].good \/ ~ Complete
                  /\ pc' = "rejected" /\ UNCHANGED <<z, m, result>>
               \/ /\ MapContext(z', 2 * i + 1, e) /\ e \in DecodeState
                  /\ 2 * i + 1 <= wire.cut
                  /\ result' = [result EXCEPT ![m] = Append(@, i)]
                  /\ IF members[m].max = 1 THEN m' = m + 1 /\ pc' = "search"
                     ELSE m' = m /\ pc' = "search"
    BY DecodeValueEffect
  <1>4. CASE /\ ~ wire.pairs[i].good \/ ~ Complete
             /\ pc' = "rejected" /\ UNCHANGED <<z, m, result>>
    <2>1. ValuesInv'
      BY <1>1, <1>4, ValuesKept
    <2>2. VerdictInv'
      <3>1. ~ wire.pairs[i].good \/ ~ Matches
        BY <1>4 DEF Matches, Complete
      <3> QED BY <1>1, <1>2, <1>4, <3>1, VerdictKept
    <2> QED BY <1>4, <2>1, <2>2 DEF FoundInv, Inside
  <1>5. CASE /\ MapContext(z', 2 * i + 1, e) /\ e \in DecodeState
             /\ 2 * i + 1 <= wire.cut
             /\ result' = [result EXCEPT ![m] = Append(@, i)]
             /\ IF members[m].max = 1 THEN m' = m + 1 /\ pc' = "search"
                ELSE m' = m /\ pc' = "search"
    <2>1. /\ e.map_elems_processed = Marks.map_elems_processed + 1
          /\ e.counting_map_elems = Marks.counting_map_elems
      BY <1>2 DEF Marked, MapMarks, DecodeState
    <2>2. z'.state.payload = 2 * i + 1 /\ Marks' = e
      BY <1>5 DEF MapContext, StateAt, Marks
    <2> HIDE DEF e
    <2>3. Cursor = i /\ Cursor' = i + 1
      <3>1. i \in Nat /\ i + 1 \in Nat /\ 2 * i + 1 = 2 * (i + 1) - 1
        BY <1>2
      <3>2. Cursor = i
        BY <1>3, <3>1, CursorAt
      <3>3. Cursor' = i + 1
        BY <2>2, <3>1, CursorAt
      <3> QED BY <3>2, <3>3
    <2>4. /\ members' = members /\ Complete' = Complete /\ wire' = wire
          /\ Found' = Found \cup {i}
          /\ \A j : Own(j)' = Own(j)
          /\ \A j \in DOMAIN members :
                /\ j = m => /\ Values(j)' = Values(j) \cup {i}
                            /\ Len(result'[j]) = Len(result[j]) + 1 /\ result'[j] # << >>
                            /\ result'[j][1] = IF result[j] = << >> THEN i ELSE result[j][1]
                /\ j # m => /\ Values(j)' = Values(j) /\ result'[j] = result[j]
                            /\ (Ended(j)' <=> Ended(j))
      BY <1>1, <1>2, <1>5, ResultGrows
    <2>5. /\ i \in Own(m) /\ Own(m) \subseteq 1 .. Pairs /\ i \notin Values(m)
          /\ Values(m) \subseteq Own(m) /\ Found \subseteq 1 .. Pairs /\ i \notin Found
      BY <1>1, <1>2, <1>3, <2>3, OwnPairs DEF Own, PairsOf
    <2>6. /\ Len(result[m]) \in Nat /\ members[m].max \in Nat /\ members[m].min \in Nat
          /\ members[m].min <= members[m].max
      BY <1>2, MemberFacts, SeqElements
    <2>7. pc' = "search" /\ (m' = m \/ m' = m + 1) /\ (m' = m + 1 => members[m].max = 1)
          /\ (m' = m => members[m].max # 1)
      BY <1>2, <1>5
    <2>8. ValuesInv'
      <3> SUFFICES ASSUME NEW j \in DOMAIN members
                   PROVE  /\ Values(j)' \subseteq Own(j)
                          /\ Cardinality(Values(j)') = Len(result'[j])
                          /\ Len(result'[j]) <= members[j].max
                          /\ j > m' => result'[j] = << >>
                          /\ j < m' => Ended(j)'
        BY <2>4 DEF ValuesInv
      <3>1. /\ Values(j) \subseteq Own(j)
            /\ Cardinality(Values(j)) = Len(result[j])
            /\ Len(result[j]) <= members[j].max
            /\ j > m => result[j] = << >>
            /\ j < m => Ended(j)
        BY <1>1 DEF ValuesInv
      <3>2. CASE j = m
        <4>1. Cardinality(Values(m) \cup {i}) = Cardinality(Values(m)) + 1
          <5>1. Values(m) \in SUBSET (1 .. Pairs) /\ i \in (1 .. Pairs) \ Values(m)
            BY <2>5
          <5> QED BY <1>2, <5>1, PairSets
        <4>2. j < m' => Ended(j)'
          <5> SUFFICES ASSUME m < m' PROVE Ended(j)'
            BY <3>2
          <5>1. members[j].max = 1 /\ Len(result'[j]) = Len(result[m]) + 1
            BY <1>2, <2>4, <2>7, <3>2
          <5>2. Len(result'[j]) >= members[j].min /\ ~ (Len(result'[j]) < members[j].max)
            BY <2>6, <3>2, <5>1
          <5> QED BY <2>4, <5>2 DEF Ended
        <4>3. Len(result[m]) + 1 <= members[m].max
          BY <1>1, <2>6
        <4>4. ~ (m > m')
          BY <1>2, <2>7
        <4>5. Cardinality(Values(m)) = Len(result[m])
          BY <1>1, <1>2 DEF ValuesInv
        <4>6. Values(j)' = Values(m) \cup {i} /\ Len(result'[j]) = Len(result[m]) + 1
              /\ Own(j) = Own(m) /\ members[j].max = members[m].max
          BY <2>4, <3>2
        <4>7. Values(j)' \subseteq Own(j)
          BY <2>5, <4>6
        <4>8. Cardinality(Values(j)') = Len(result'[j]) /\ Len(result'[j]) <= members[j].max
          BY <4>1, <4>3, <4>5, <4>6
        <4> QED BY <3>2, <4>2, <4>4, <4>7, <4>8
      <3>3. CASE j # m
        <4>1. (j > m' => j > m) /\ (j < m' => j < m)
          BY <1>2, <2>7, <3>3
        <4> QED BY <2>4, <3>1, <3>3, <4>1
      <3> QED BY <3>2, <3>3
    <2>9. MarkedInv'
      <3>1. Cardinality(Found \cup {i}) = Cardinality(Found) + 1
        BY <1>2, <2>5, PairSets
      <3>2. \A q \in Found : Marks.counting_map_elems => q < i + 1
        BY <1>1, <1>2, <2>3, <2>5 DEF MarkedInv
      <3>3. i < i + 1
        BY <1>2
      <3> QED BY <1>1, <1>5, <2>1, <2>2, <2>3, <2>4, <3>1, <3>2, <3>3 DEF MarkedInv
    <2>10. CASE m' = m + 1
      <3>1. m + 1 <= Len(members) => result'[m + 1] = << >>
        <4>1. m + 1 <= Len(members) => m + 1 \in DOMAIN members /\ m + 1 > m /\ m + 1 # m
          BY <1>2
        <4> QED BY <1>1, <2>4, <4>1 DEF ValuesInv
      <3>2. RepeatedInv'
        BY <2>4, <2>10, <3>1 DEF RepeatedInv
      <3>3. VerdictInv'
        BY <1>1, <2>7, VerdictKept
      <3> QED BY <2>7, <2>8, <2>9, <3>2, <3>3 DEF FoundInv
    <2>11. CASE m' = m
      <3> DEFINE a == IF result[m] = << >> THEN i ELSE result[m][1]
                 Upto(c) == IF a < c THEN { q \in Own(m) : a <= q /\ q < c }
                            ELSE { q \in Own(m) : a <= q \/ q < c }
      <3>1. result'[m'][1] = a /\ Values(m)' = Values(m) \cup {i} /\ Own(m)' = Own(m)
        BY <1>2, <2>4, <2>11
      <3>2. Passed(m, Cursor)' = Upto(i + 1)
        BY <2>3, <2>11, <3>1 DEF Passed
      <3>3. Values(m) \cup {i} = Upto(i + 1) /\ (Complete \/ a < i + 1)
        <4>1. CASE result[m] = << >>
          <5>1. a = i /\ Values(m) = {}
            <6>1. DOMAIN result[m] = {}
              BY <4>1
            <6> QED BY <4>1, <6>1 DEF Values
          <5>2. Upto(i + 1) = { q \in Own(m) : i <= q /\ q < i + 1 } /\ i < i + 1
            BY <1>2, <5>1
          <5> HIDE DEF a, Upto
          <5>3. \A q \in Own(m) : i <= q /\ q < i + 1 <=> q = i
            BY <1>2, <2>5
          <5> QED BY <2>5, <5>1, <5>2, <5>3
        <4>2. CASE result[m] # << >>
          <5>1. a = result[m][1] /\ a \in Values(m) /\ a \in 1 .. Pairs
            BY <1>1, <1>2, <4>2, FirstFound
          <5>2. \/ Values(m) = Passed(m, i) /\ (Complete \/ a < i)
                \/ Values(m) = Own(m) /\ Complete
            BY <1>1, <1>2, <2>3, <4>2, <5>1 DEF RepeatedInv
          <5>3. Passed(m, i) = Upto(i)
            BY <5>1 DEF Passed
          <5>4. Values(m) = Upto(i) /\ (Complete \/ a < i)
            BY <2>5, <5>2, <5>3
          <5>5. Upto(i + 1) = Upto(i) \cup {i}
            <6> HIDE DEF a
            <6>1. a # i
              BY <2>5, <5>1
            <6> QED BY <1>2, <2>5, <5>1, <6>1, PassedOne
          <5> HIDE DEF a, Upto
          <5>6. a < i => a < i + 1
            BY <1>2, <5>1
          <5> QED BY <5>4, <5>5, <5>6
        <4> QED BY <4>1, <4>2
      <3> HIDE DEF a, Upto
      <3>4. RepeatedInv'
        <4>1. Values(m)' = Passed(m, Cursor)' /\ (Complete' \/ result'[m'][1] < Cursor')
          BY <2>3, <2>4, <3>1, <3>2, <3>3
        <4> QED BY <4>1 DEF RepeatedInv
      <3>5. VerdictInv'
        BY <1>1, <2>7, VerdictKept
      <3> QED BY <2>7, <2>8, <2>9, <3>4, <3>5 DEF FoundInv
    <2> QED BY <2>7, <2>10, <2>11
  <1> QED BY <1>3, <1>4, <1>5

(* When the count says that every pair was processed, every pair was       *)
(* found.                                                                  *)
LEMMA FoundPairs ==
    ASSUME <<schema, wire>> \in Cases, ValuesInv
    PROVE  Found \subseteq 1 .. Pairs
  <1>1. \A i \in DOMAIN members : Values(i) \subseteq Own(i)
    BY DEF ValuesInv
  <1>2. \A i : Own(i) \subseteq 1 .. Pairs
    BY CaseFacts DEF Own, PairsOf
  <1> QED BY <1>1, <1>2 DEF Found

(* When every member is done with, a message that matches has no pairs     *)
(* left.                                                                   *)
LEMMA MatchingFound ==
    ASSUME MapInv, ValuesInv, pc # "rejected", m = Len(members) + 1, Matches, ~ schema.open
    PROVE  Found = 1 .. Pairs
  <1>1. /\ <<schema, wire>> \in Cases /\ DOMAIN members = 1 .. Len(members)
        /\ Len(members) \in Nat /\ DOMAIN wire.pairs = 1 .. Pairs
        /\ result \in [DOMAIN members -> Seq(1 .. Pairs)]
        /\ members \in Seq(Member)
    BY CaseFacts DEF MapInv
  <1>2. Found \subseteq 1 .. Pairs
    BY <1>1, FoundPairs
  <1>3. Complete /\ \A p \in 1 .. Pairs : \E j \in DOMAIN members : p \in Own(j)
    BY <1>1 DEF Matches, Complete, MemberKeys, Own, PairsOf
  <1>4. ASSUME NEW j \in DOMAIN members PROVE Own(j) \subseteq Values(j)
    <2>1. /\ Ended(j) /\ Values(j) \subseteq Own(j)
          /\ Cardinality(Values(j)) = Len(result[j]) /\ Len(result[j]) <= members[j].max
          /\ Cardinality(Own(j)) <= members[j].max
      BY <1>1 DEF ValuesInv, Matches, Own
    <2>2. CASE Len(result[j]) < members[j].max
      BY <1>3, <2>1, <2>2 DEF Ended
    <2>3. CASE ~ (Len(result[j]) < members[j].max)
      <3>1. Len(result[j]) \in Nat /\ members[j].max \in Nat
        <4>1. members[j] \in Member
          BY <1>1
        <4> QED BY <1>1, <4>1, SeqElements DEF Member
      <3>2. Own(j) \in SUBSET (1 .. Pairs)
        BY <1>1 DEF Own, PairsOf
      <3>3. Cardinality(Own(j)) \in Nat /\ Cardinality(Values(j)) <= Cardinality(Own(j))
            /\ (Cardinality(Values(j)) = Cardinality(Own(j)) => Values(j) = Own(j))
        BY <1>1, <2>1, <3>2, PairSets
      <3> QED BY <2>1, <2>3, <3>1, <3>3
    <2> QED BY <2>2, <2>3
  <1>5. 1 .. Pairs \subseteq Found
    BY <1>3, <1>4 DEF Found
  <1> QED BY <1>2, <1>5

LEMMA EndMapFinds ==
    ASSUME AllSearchable, MapInv, FoundInv, EndMap
    PROVE  FoundInv' /\ VerdictInv'
  <1> DEFINE p == z.state.payload
             atEnd == AtEnd(z.state) \/ ~ Marks.counting_map_elems
             noneLeft == \/ Marks.map_elem_count = 0
                         \/ ~ (Marks.map_elems_processed < Marks.map_elem_count)
  <1>1. /\ pc = "search" /\ m = Len(members) + 1
        /\ UNCHANGED <<schema, wire, z, m, from, result>>
        /\ pc' = (IF schema.open \/ (atEnd /\ noneLeft) THEN "skip" ELSE "rejected")
        /\ ValuesInv /\ MarkedInv
    BY InsideFacts DEF EndMap, FoundInv, Inside, Goto, ShouldTry, ds, Marks
  <1>2. /\ <<schema, wire>> \in Cases /\ Pairs \in Nat /\ MapContext(z, p, Marks)
        /\ MapMarks(Marks) /\ p \in 1 .. 2 * Pairs + 1 /\ IsKeyOffset(p)
    BY <1>1, InsideFacts DEF Inside, MapInv
  <1>3. /\ Found \subseteq 1 .. Pairs /\ Cardinality(Found) = Marks.map_elems_processed
        /\ Cardinality(Found) \in Nat /\ Cardinality(Found) <= Pairs
        /\ (Cardinality(Found) = Pairs => Found = 1 .. Pairs)
    <2>1. Found \in SUBSET (1 .. Pairs)
      BY <1>1, <1>2, FoundPairs
    <2> QED BY <1>1, <1>2, <2>1, PairSets DEF MarkedInv
  <1>4. ValuesInv'
    BY <1>1, ValuesKept
  <1>5. MarkedInv'
    BY <1>1, ResultKept DEF MarkedInv, Marks, Cursor
  <1>6. ASSUME atEnd, noneLeft PROVE Found = 1 .. Pairs
    <2>1. Marks.map_elem_count = Pairs
      BY <1>1, <1>2, <1>6, CountedAtEnd DEF MapMarks
    <2> QED BY <1>2, <1>3, <1>6, <2>1
  <1>7. ASSUME ~ schema.open, ~ (atEnd /\ noneLeft), Matches PROVE FALSE
    <2>1. Found = 1 .. Pairs /\ Complete
      BY <1>1, <1>7, MatchingFound DEF Matches, Complete
    <2>2. noneLeft
      <3>1. Cardinality(Found) = Pairs
        BY <1>2, <2>1, FS_Interval
      <3>2. Marks.map_elem_count <= Pairs /\ Marks.map_elem_count \in Nat
        BY <1>2, <2>1 DEF MapMarks, DecodeState
      <3> QED BY <1>2, <1>3, <3>1, <3>2
    <2>3. atEnd
      <3> SUFFICES ASSUME Marks.counting_map_elems PROVE AtEnd(z.state)
        OBVIOUS
      <3>1. PICK i \in 1 .. Pairs + 1 : p = 2 * i - 1
        BY <1>2 DEF IsKeyOffset
      <3>2. Cursor = i
        BY <1>2, <3>1, CursorAt
      <3>3. \A q \in 1 .. Pairs : q < i
        BY <1>1, <2>1, <3>2 DEF MarkedInv
      <3>4. i = Pairs + 1
        BY <1>2, <3>3
      <3>5. p = 2 * Pairs + 1
        BY <1>2, <3>1, <3>4
      <3>6. wire.indefinite /\ wire.cut = 2 * Pairs + 2
        BY <1>2, <2>1, CaseFacts DEF MapMarks, Complete
      <3>7. StateAt(z.state, p, ElemsAt(p), Marks)
            /\ Marks.indefinite_length_array = wire.indefinite
        BY <1>2 DEF MapContext, MapMarks
      <3>8. AtEnd(z.state) <=> p = 2 * Pairs + 1 /\ (wire.indefinite => p < wire.cut)
        BY <1>2, <3>7, EndIsEnd
      <3> QED BY <1>2, <3>5, <3>6, <3>8
    <2> QED BY <1>7, <2>2, <2>3
  <1>8. VerdictInv'
    <2>1. pc' = "rejected" => ~ Matches
      BY <1>1, <1>7
    <2> QED BY <1>1, <2>1, VerdictKept
  <1>9. pc' = "skip" /\ ~ schema.open => Found = 1 .. Pairs
    BY <1>1, <1>6
  <1>10. schema' = schema /\ Found' = Found /\ Pairs' = Pairs
    BY <1>1, ResultKept
  <1> HIDE DEF atEnd, noneLeft
  <1> QED BY <1>1, <1>4, <1>5, <1>8, <1>9, <1>10 DEF FoundInv, Inside

LEMMA SkipRestFinds ==
    ASSUME AllSearchable, MapInv, FoundInv, SkipRest
    PROVE  FoundInv' /\ VerdictInv'
  <1> DEFINE p == z.state.payload
             r == AnySkip(z)
  <1>1. /\ pc = "skip" /\ ~ AtEnd(z.state)
        /\ UNCHANGED <<schema, wire, m, from, result>>
        /\ z' = r.z /\ pc' = (IF schema.open /\ ~ r.ok THEN "rejected" ELSE "skip")
        /\ ValuesInv /\ MarkedInv /\ (~ schema.open => Found = 1 .. Pairs)
    BY DEF SkipRest, FoundInv, Inside, Goto
  <1>2. /\ <<schema, wire>> \in Cases /\ Pairs \in Nat /\ MapContext(z, p, Marks)
        /\ MapMarks(Marks) /\ p \in 1 .. 2 * Pairs + 1
    BY <1>1, InsideFacts DEF Inside
  <1>3. /\ r.ok \in BOOLEAN
        /\ r.ok => MapContext(r.z, p + 1, Marks)
        /\ ~ r.ok => r.z = z
        /\ ~ r.ok => ~ Complete
    BY <1>1, <1>2, SkipEffect DEF MapMarks
  <1> HIDE DEF r
  <1>4. Marks' = Marks /\ z'.state.payload \in {p, p + 1}
    <2>1. CASE r.ok
      <3>1. MapContext(z', p + 1, Marks)
        BY <1>1, <1>3, <2>1
      <3> QED BY <3>1 DEF MapContext, StateAt, Marks
    <2>2. CASE ~ r.ok
      BY <1>1, <1>3, <2>2 DEF Marks
    <2> QED BY <1>3, <2>1, <2>2
  <1>5. MarkedInv'
    <2> DEFINE n == z'.state.payload
    <2>1. Cursor = (p + 1) \div 2 /\ Cursor' = (n + 1) \div 2
      BY DEF Cursor
    <2> HIDE DEF p, n
    <2>2. p \in Int /\ n \in Int /\ n >= p
      BY <1>2, <1>4 DEF n
    <2>3. Cursor \in Int /\ Cursor' \in Int /\ Cursor <= Cursor'
      BY <2>1, <2>2
    <2>4. Found \subseteq 1 .. Pairs
      BY <1>1, <1>2, FoundPairs
    <2>5. Marks.counting_map_elems => \A q \in Found : q < Cursor'
      BY <1>1, <1>2, <2>3, <2>4 DEF MarkedInv
    <2> QED BY <1>1, <1>4, <2>5, MarkedKept
  <1>6. ValuesInv'
    BY <1>1, ValuesKept
  <1>7. VerdictInv'
    <2>1. pc' = "rejected" => ~ Matches
      BY <1>1, <1>3 DEF Matches, Complete
    <2> QED BY <1>1, <2>1, VerdictKept
  <1>8. schema' = schema /\ Found' = Found /\ Pairs' = Pairs
    BY <1>1, ResultKept
  <1> QED BY <1>1, <1>5, <1>6, <1>7, <1>8 DEF FoundInv, Inside

(* What is accepted matches.                                               *)
LEMMA CloseMapFinds ==
    ASSUME AllSearchable, MapInv, FoundInv, CloseMap
    PROVE  FoundInv' /\ VerdictInv'
  <1>1. /\ pc = "skip" /\ AtEnd(z.state) /\ pc' = "accepted" /\ m' = m
        /\ UNCHANGED <<schema, wire, result>> /\ m = Len(members) + 1
        /\ ValuesInv /\ (~ schema.open => Found = 1 .. Pairs)
    BY CloseMapKeeps DEF CloseMap, FoundInv, MapInv
  <1>2. /\ <<schema, wire>> \in Cases /\ MapContext(z, z.state.payload, Marks)
        /\ MapMarks(Marks) /\ z.state.payload \in 1 .. 2 * Pairs + 1
        /\ z.state.payload <= wire.cut
        /\ DOMAIN members = 1 .. Len(members) /\ Len(members) \in Nat
        /\ DOMAIN wire.pairs = 1 .. Pairs
        /\ result \in [DOMAIN members -> Seq(1 .. Pairs)]
    BY <1>1, InsideFacts, CaseFacts DEF Inside
  <1>3. Complete
    <2>1. StateAt(z.state, z.state.payload, ElemsAt(z.state.payload), Marks)
      BY <1>2 DEF MapContext
    <2> QED BY <1>1, <1>2, <2>1, EndIsEnd DEF MapMarks
  <1>4. ASSUME NEW i \in DOMAIN members
        PROVE  /\ Cardinality(Own(i)) >= members[i].min
               /\ schema.open \/ Cardinality(Own(i)) <= members[i].max
    <2>1. /\ Own(i) \in SUBSET (1 .. Pairs) /\ Values(i) \subseteq Own(i)
          /\ Found \cap Own(i) = Values(i)
          /\ Cardinality(Values(i)) = Len(result[i]) /\ Len(result[i]) <= members[i].max
          /\ Ended(i)
      BY <1>1, <1>2, OwnPairs DEF ValuesInv
    <2>2. /\ Len(result[i]) \in Nat /\ members[i].max \in Nat /\ members[i].min \in Nat
      BY <1>2, MemberFacts, SeqElements
    <2>3. Cardinality(Own(i)) \in Nat /\ Cardinality(Values(i)) <= Cardinality(Own(i))
      BY <1>2, <2>1, PairSets
    <2>4. Len(result[i]) >= members[i].min
      BY <2>1 DEF Ended
    <2>5. ~ schema.open => Own(i) = Values(i)
      BY <1>1, <2>1
    <2> QED BY <2>1, <2>2, <2>3, <2>4, <2>5
  <1>5. ~ schema.open => \A p \in 1 .. Pairs : wire.pairs[p].key \in MemberKeys
    <2> SUFFICES ASSUME ~ schema.open, NEW p \in 1 .. Pairs
                 PROVE  \E j \in DOMAIN members : wire.pairs[p].key = members[j].key
      BY DEF MemberKeys
    <2>1. PICK j \in DOMAIN members : p \in Values(j)
      BY <1>1 DEF Found
    <2>2. p \in Own(j)
      BY <1>1, <2>1 DEF ValuesInv
    <2> QED BY <2>2 DEF Own, PairsOf
  <1>6. Matches
    BY <1>2, <1>3, <1>4, <1>5 DEF Matches, Complete, Own
  <1>7. VerdictInv'
    BY <1>1, <1>6, VerdictKept
  <1>8. ValuesInv'
    BY <1>1, ValuesKept
  <1> QED BY <1>1, <1>7, <1>8 DEF FoundInv, Inside

(* SearchInv holds at the start.                                           *)
LEMMA InitSearchInv == Init => SearchInv
  <1> SUFFICES ASSUME Init PROVE SearchInv
    OBVIOUS
  <1>1. /\ MapInv /\ pc = "start" /\ m = 1
        /\ result = [i \in DOMAIN members |-> << >>]
    BY InitMapInv DEF Init
  <1>2. /\ <<schema, wire>> \in Cases /\ DOMAIN members = 1 .. Len(members)
        /\ Len(members) \in Nat /\ members \in Seq(Member)
    BY <1>1, CaseFacts DEF MapInv
  <1>3. ASSUME NEW i \in DOMAIN members
        PROVE  /\ Values(i) = {} /\ result[i] = << >> /\ Len(result[i]) = 0
               /\ members[i].max > 0 /\ ~ (i < m)
    <2>1. result[i] = << >> /\ Len(<< >>) = 0 /\ DOMAIN << >> = {}
      BY <1>1
    <2>2. members[i] \in Member
      BY <1>2
    <2> QED BY <1>1, <1>2, <2>1, <2>2 DEF Values, Member
  <1>4. ValuesInv
    <2>1. Cardinality({}) = 0
      BY FS_EmptySet
    <2>2. ASSUME NEW i \in DOMAIN members
          PROVE  /\ Values(i) \subseteq Own(i)
                 /\ Cardinality(Values(i)) = Len(result[i])
                 /\ Len(result[i]) <= members[i].max
                 /\ i > m => result[i] = << >>
                 /\ i < m /\ pc # "rejected" => Ended(i)
      <3>1. /\ Values(i) = {} /\ result[i] = << >> /\ Len(result[i]) = 0
            /\ members[i].max > 0 /\ ~ (i < m)
        BY <1>3
      <3>2. members[i] \in Member
        BY <1>2
      <3>3. Len(result[i]) <= members[i].max
        BY <3>1, <3>2 DEF Member
      <3>4. Cardinality(Values(i)) = Len(result[i])
        BY <3>1, <2>1
      <3> QED BY <3>1, <3>3, <3>4
    <2> QED BY <2>2, Zenon DEF ValuesInv
  <1> QED BY <1>1, <1>4
          DEF SearchInv, FoundInv, Inside, VerdictInv, MatchingAccepted, AcceptedMatches

(* A step that changes nothing keeps SearchInv.                            *)
LEMMA StutterSearchInv == SearchInv /\ UNCHANGED vars => SearchInv'
  <1> SUFFICES ASSUME SearchInv, UNCHANGED vars PROVE SearchInv'
    OBVIOUS
  <1>1. /\ schema' = schema /\ wire' = wire /\ z' = z /\ pc' = pc /\ m' = m
        /\ from' = from /\ result' = result /\ UNCHANGED <<schema, wire, result>>
    BY DEF vars
  <1>2. /\ members' = members /\ Complete' = Complete /\ Pairs' = Pairs
        /\ Found' = Found /\ Cursor' = Cursor /\ From' = From /\ Marks' = Marks
        /\ (Inside' <=> Inside)
        /\ \A i : Values(i)' = Values(i) /\ Own(i)' = Own(i) /\ (Ended(i)' <=> Ended(i))
    BY <1>1, ResultKept DEF Cursor, From, Marks, Inside
  <1>3. ValuesInv <=> ValuesInv'
    BY <1>1, <1>2 DEF ValuesInv
  <1>4. MarkedInv <=> MarkedInv'
    BY <1>1, <1>2 DEF MarkedInv
  <1>5. RepeatedInv => RepeatedInv'
    BY <1>1, <1>2, RepeatedKept
  <1>6. Own(m)' = Own(m)
    BY <1>1 DEF Own, PairsOf, members
  <1>7. AheadInv <=> AheadInv'
    BY <1>2, <1>6 DEF AheadInv
  <1>8. VerdictInv'
    BY <1>1, VerdictKept DEF SearchInv, VerdictInv, MatchingAccepted, AcceptedMatches
  <1> QED BY <1>1, <1>2, <1>3, <1>4, <1>5, <1>7, <1>8 DEF SearchInv, FoundInv

(* With the hypothesis on the cases, SearchInv is inductive relative to    *)
(* MapInv.                                                                 *)
LEMMA SearchInvStep ==
    ASSUME AllSearchable
    PROVE  MapInv /\ SearchInv /\ [Next]_vars => SearchInv'
  <1> SUFFICES ASSUME MapInv, SearchInv, [Next]_vars PROVE SearchInv'
    OBVIOUS
  <1>1. FoundInv
    BY DEF SearchInv
  <1>2. CASE Next
    <2>1. FoundInv' /\ VerdictInv'
      BY <1>1, <1>2, StartMapFinds, MemberFullFinds, BeginSearchFinds, ScanWrapsFinds,
         KeyFoundFinds, KeySkippedFinds, DecodeValueFinds, EndMapFinds, SkipRestFinds,
         CloseMapFinds DEF Next
    <2> QED BY <2>1 DEF SearchInv
  <1>3. CASE UNCHANGED vars
    BY <1>3, StutterSearchInv
  <1> QED BY <1>2, <1>3

(* SearchInv holds in every reachable state.                               *)
LEMMA SearchInvInvariant ==
    ASSUME AllSearchable
    PROVE  Spec => []SearchInv
  <1>1. MapInv /\ SearchInv /\ [Next]_vars => SearchInv'
    BY SearchInvStep
  <1> QED BY InitSearchInv, MapInvInvariant, <1>1, PTL DEF Spec

(* Every member of an accepted map got pairs with its own key, each pair   *)
(* once: pairs are only counted by the code, and yet none is decoded twice *)
(* or into another member.                                                 *)
THEOREM ResultsFaithful ==
    ASSUME AllSearchable
    PROVE  Spec => []ResultFaithful
  <1>1. SearchInv => ResultFaithful
    BY DEF SearchInv, FoundInv, ValuesInv, ResultFaithful, Own
  <1> QED BY SearchInvInvariant, <1>1, PTL

(* What is accepted is an instance of the schema: nothing is missing, cut  *)
(* off, unknown in a closed map or there more often than allowed.          *)
THEOREM OnlyMatchingAccepted ==
    ASSUME AllSearchable
    PROVE  Spec => []AcceptedMatches
  <1>1. SearchInv => AcceptedMatches
    BY DEF SearchInv, VerdictInv
  <1> QED BY SearchInvInvariant, <1>1, PTL

(* An instance of the schema, in any order of its pairs, definite or       *)
(* indefinite, is rejected only for the type of a value.                   *)
THEOREM MatchingNotRejected ==
    ASSUME AllSearchable
    PROVE  Spec => []MatchingAccepted
  <1>1. SearchInv => MatchingAccepted
    BY DEF SearchInv, VerdictInv
  <1> QED BY SearchInvInvariant, <1>1, PTL
=============================================================================

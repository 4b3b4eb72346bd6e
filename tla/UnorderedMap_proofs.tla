--------------------------- MODULE UnorderedMap_proofs ---------------------------
(***************************************************************************)
(* Proofs about UnorderedMap, for schemas and messages of any size: where  *)
(* the cursor of the search is, and what its bookkeeping counts.           *)
(***************************************************************************)
EXTENDS UnorderedMap, ZcborState_proofs

Pairs    == Len(wire.pairs)
Complete == wire.cut = Total(wire)
Marks    == z.state.decode_state

-----------------------------------------------------------------------------
(* The context of an open map.                                             *)

(* What elem_count is when the payload pointer is at p.                    *)
ElemsAt(p) ==
    IF wire.indefinite THEN LargeElemCount - (p - 1) ELSE 2 * Pairs - (p - 1)

(* A state whose payload pointer is at p, with the bookkeeping d.          *)
StateAt(s, p, elems, d) ==
    /\ s \in State
    /\ s.payload = p /\ s.payload_end = wire.cut /\ s.elem_count = elems
    /\ ~ s.payload_moved /\ ~ s.inside_frag_str
    /\ s.decode_state = d

(* The backup the map start took, behind the header of the map.            *)
MapBackup(b) ==
    /\ StateAt(b, 1, 0, b.decode_state)
    /\ b.decode_state.map_elem_count = 0 /\ b.decode_state.map_elems_processed = 0

MapContext(c, p, d) ==
    /\ c \in Context
    /\ StateAt(c.state, p, ElemsAt(p), d)
    /\ Len(c.backup_list) = 1 /\ MapBackup(c.backup_list[1])

(* The search bookkeeping of this map.                                     *)
MapMarks(d) ==
    /\ d \in DecodeState
    /\ d.indefinite_length_array = wire.indefinite
    /\ d.map_start_backup_num = 1
    /\ d.map_elems_processed <= d.map_elem_count
    /\ d.map_elem_count <= Pairs + (IF Complete THEN 0 ELSE 1)
    /\ d.counting_map_elems => wire.indefinite
    /\ ~ d.counting_map_elems => d.map_elem_count = Pairs
    /\ ~ d.counting_map_elems /\ wire.indefinite => Complete

(* While counting, the pairs counted are those begun before p; one more    *)
(* may have been counted in vain, in a message that was cut.               *)
CountedTo(p, d) ==
    d.counting_map_elems =>
        /\ p <= 2 * d.map_elem_count + 1
        /\ Complete => 2 * d.map_elem_count <= p

Inside == pc \in {"search", "scan", "value", "skip"}

CursorInv ==
    /\ MapContext(z, z.state.payload, Marks)
    /\ MapMarks(Marks)
    /\ z.state.payload \in 1 .. 2 * Pairs + 1
    /\ z.state.payload <= wire.cut
    /\ pc # "skip" => CountedTo(z.state.payload, Marks)

(* An odd offset is that of a key, an even one that of a value.            *)
IsKeyOffset(p) == \E i \in 1 .. Pairs + 1 : p = 2 * i - 1

FromAt(f, p, d) ==
    /\ IsKeyOffset(f.payload) /\ f.payload <= wire.cut
    /\ f.elem_count = ElemsAt(f.payload)
    /\ d.counting_map_elems => f.payload <= p

ValueAt(p, d, k) ==
    \E i \in 1 .. Pairs :
        /\ p = 2 * i
        /\ wire.pairs[i].key = members[k].key
        /\ d.map_elems_processed < d.map_elem_count

(* Layer one: where the cursor is and what its marks count.                *)
MapInv ==
    /\ <<schema, wire>> \in Cases
    /\ TypeOK
    /\ result \in [DOMAIN members -> Seq(1 .. Pairs)]
    /\ pc = "start" => z = NewState(wire.cut, 1) /\ m = 1
                       /\ result = [i \in DOMAIN members |-> << >>]
    /\ Inside => CursorInv
    /\ pc \in {"search", "scan"} => IsKeyOffset(z.state.payload)
    /\ pc \in {"scan", "value"} => m <= Len(members)
    /\ pc = "scan" => FromAt(from, z.state.payload, Marks)
    /\ pc = "value" => ValueAt(z.state.payload, Marks, m)
    /\ pc = "skip" => m = Len(members) + 1

-----------------------------------------------------------------------------
(* The context of an open map, and what the functions do to it.            *)

(* What a case may be.                                                     *)
LEMMA CaseFacts ==
    ASSUME <<schema, wire>> \in Cases
    PROVE  /\ schema \in Schema /\ members \in Seq(Member) /\ schema.open \in BOOLEAN
           /\ wire \in Wire /\ wire.indefinite \in BOOLEAN /\ wire.cut \in Nat
           /\ wire.pairs \in Seq([key : Keys, good : BOOLEAN])
           /\ Pairs \in Nat /\ DOMAIN wire.pairs = 1 .. Pairs
           /\ Len(members) \in Nat /\ DOMAIN members = 1 .. Len(members)
           /\ LargeElemCount \in Nat /\ 2 * Pairs < LargeElemCount
           /\ LargeElemCount <= MaxElemCount
           /\ wire.cut <= Total(wire)
           /\ Total(wire) = 2 * Pairs + (IF wire.indefinite THEN 2 ELSE 1)
  <1>1. <<schema, wire>> \in Schema \X Wire
    BY MapInputsAssumption
  <1>2. schema \in Schema /\ wire \in Wire
    BY <1>1
  <1>3. /\ 2 * Len(<<schema, wire>>[2].pairs) < LargeElemCount
        /\ <<schema, wire>>[2].cut <= Total(<<schema, wire>>[2])
    BY MapInputsAssumption
  <1>4. 2 * Pairs < LargeElemCount /\ wire.cut <= Total(wire)
    BY <1>3 DEF Pairs
  <1>5. members \in Seq(Member) /\ schema.open \in BOOLEAN
    BY <1>2 DEF Schema, members
  <1>6. /\ wire.indefinite \in BOOLEAN /\ wire.cut \in Nat
        /\ wire.pairs \in Seq([key : Keys, good : BOOLEAN])
    BY <1>2 DEF Wire
  <1>7. Pairs \in Nat /\ DOMAIN wire.pairs = 1 .. Pairs
    BY <1>6 DEF Pairs
  <1>8. Len(members) \in Nat /\ DOMAIN members = 1 .. Len(members)
    BY <1>5
  <1>9. LargeElemCount \in Nat /\ LargeElemCount <= MaxElemCount
    BY MaxElemCountAssumption DEF LargeElemCount
  <1>10. Total(wire) = 2 * Pairs + (IF wire.indefinite THEN 2 ELSE 1)
    <2>1. CASE wire.indefinite
      BY <1>7, <2>1 DEF Total, Pairs
    <2>2. CASE ~ wire.indefinite
      BY <1>7, <2>2 DEF Total, Pairs
    <2> QED BY <2>1, <2>2
  <1> QED BY <1>2, <1>4, <1>5, <1>6, <1>7, <1>8, <1>9, <1>10

(* elem_count stays in its range, and tells the offset.                    *)
LEMMA ElemsRange ==
    ASSUME <<schema, wire>> \in Cases, NEW p \in 1 .. 2 * Pairs + 1
    PROVE  /\ ElemsAt(p) \in 0 .. MaxElemCount
           /\ ElemsAt(p) > 0 <=> p < 2 * Pairs + 1 \/ wire.indefinite
           /\ ElemsAt(p + 1) = ElemsAt(p) - 1
           /\ \A q \in 1 .. 2 * Pairs + 1 : ElemsAt(p) = ElemsAt(q) => p = q
  <1>1. /\ Pairs \in Nat /\ LargeElemCount \in Nat /\ 2 * Pairs < LargeElemCount
        /\ LargeElemCount <= MaxElemCount /\ MaxElemCount \in Nat
    BY CaseFacts, MaxElemCountAssumption
  <1>2. CASE wire.indefinite
    <2>1. \A q \in Nat : ElemsAt(q) = LargeElemCount - (q - 1)
      BY <1>2 DEF ElemsAt
    <2> QED BY <1>1, <1>2, <2>1
  <1>3. CASE ~ wire.indefinite
    <2>1. \A q \in Nat : ElemsAt(q) = 2 * Pairs - (q - 1)
      BY <1>3 DEF ElemsAt
    <2> QED BY <1>1, <1>3, <2>1
  <1> QED BY <1>2, <1>3

(* One byte and one element less.                                          *)
LEMMA WithoutOne ==
    ASSUME NEW s, NEW p \in Nat, NEW e \in 1 .. MaxElemCount, NEW d, StateAt(s, p, e, d)
    PROVE  StateAt(Without(s, 1), p + 1, e - 1, d)
  <1> DEFINE q == p + 1
             f == e - 1
             t == [s EXCEPT !.payload = q, !.elem_count = f]
  <1>1. s \in State /\ s.payload = p /\ s.elem_count = e
    BY DEF StateAt
  <1>2. q \in Nat /\ f \in 0 .. MaxElemCount
    BY MaxElemCountAssumption
  <1>3. Without(s, 1) = t
    BY <1>1 DEF Without
  <1> HIDE DEF q, f
  <1>4. t \in State
    BY <1>1, <1>2 DEF State
  <1>5. StateAt(t, q, f, d)
    BY <1>1, <1>4 DEF StateAt, State
  <1> QED BY <1>3, <1>5 DEF q, f

(* value_extract of one element moves the cursor on by one.                *)
LEMMA ExtractMoves ==
    ASSUME <<schema, wire>> \in Cases, NEW p \in 1 .. 2 * Pairs + 1,
           NEW c, NEW d, MapContext(c, p, d)
    PROVE  LET r == ValueExtract(c, 1) IN
           /\ r.ok \in BOOLEAN
           /\ r.ok <=> p < wire.cut /\ ElemsAt(p) # 0
           /\ r.ok => MapContext(r.z, p + 1, d)
           /\ ~ r.ok => r.z = c
  <1> DEFINE r == ValueExtract(c, 1)
             s == c.state
             t == Without(s, 1)
  <1>1. /\ c \in Context /\ StateAt(s, p, ElemsAt(p), d)
        /\ Len(c.backup_list) = 1 /\ MapBackup(c.backup_list[1])
        /\ wire.cut \in Nat /\ Pairs \in Nat
    BY CaseFacts DEF MapContext
  <1>2. /\ ElemsAt(p) \in 0 .. MaxElemCount /\ MaxElemCount \in Nat
        /\ ElemsAt(p + 1) = ElemsAt(p) - 1
    BY ElemsRange, MaxElemCountAssumption
  <1>3. CASE p < wire.cut /\ ElemsAt(p) # 0
    <2>1. r = Done([c EXCEPT !.state = t])
      <3>1. /\ ~ (s.payload >= s.payload_end) /\ ~ s.inside_frag_str
            /\ ~ (s.elem_count = 0) /\ ~ (s.payload + 1 > s.payload_end)
        BY <1>1, <1>2, <1>3 DEF StateAt
      <3> QED BY <3>1 DEF ValueExtract
    <2>2. StateAt(t, p + 1, ElemsAt(p + 1), d)
      BY <1>1, <1>2, <1>3, WithoutOne
    <2> HIDE DEF t
    <2>3. MapContext([c EXCEPT !.state = t], p + 1, d)
      BY <1>1, <2>2 DEF MapContext, Context, StateAt
    <2>4. r.ok = TRUE /\ r.z = [c EXCEPT !.state = t]
      BY <2>1 DEF Done
    <2> QED BY <1>3, <2>3, <2>4
  <1>4. CASE ~ (p < wire.cut /\ ElemsAt(p) # 0)
    <2>1. r.ok = FALSE /\ r.z = c
      BY <1>1, <1>2, <1>4 DEF ValueExtract, Fail, StateAt
    <2> QED BY <1>4, <2>1
  <1> QED BY <1>3, <1>4

(* Where the map ends.                                                     *)
LEMMA EndIsEnd ==
    ASSUME <<schema, wire>> \in Cases, NEW p \in 1 .. 2 * Pairs + 1,
           NEW s, NEW d, StateAt(s, p, ElemsAt(p), d),
           d.indefinite_length_array = wire.indefinite
    PROVE  /\ AtBreak(s) <=> wire.indefinite /\ p = 2 * Pairs + 1 /\ p < wire.cut
           /\ AtEnd(s) <=> p = 2 * Pairs + 1 /\ (wire.indefinite => p < wire.cut)
           /\ AtBreak(s) => Complete
           /\ AtEnd(s) /\ p <= wire.cut => Complete
  <1>1. /\ s.payload = p /\ s.payload_end = wire.cut /\ s.elem_count = ElemsAt(p)
        /\ s.decode_state = d
    BY DEF StateAt
  <1>2. /\ wire.indefinite \in BOOLEAN /\ Pairs \in Nat /\ wire.cut \in Nat
        /\ wire.cut <= Total(wire)
        /\ Total(wire) = 2 * Pairs + (IF wire.indefinite THEN 2 ELSE 1)
    BY CaseFacts
  <1>3. AtBreak(s) <=> wire.indefinite /\ p = 2 * Pairs + 1 /\ p < wire.cut
    BY <1>1, <1>2 DEF AtBreak
  <1>4. AtEnd(s) <=> p = 2 * Pairs + 1 /\ (wire.indefinite => p < wire.cut)
    <2>1. ElemsAt(p) \in Nat /\ (ElemsAt(p) > 0 <=> p < 2 * Pairs + 1 \/ wire.indefinite)
      BY ElemsRange
    <2>2. CASE wire.indefinite
      BY <1>1, <1>3, <2>2 DEF AtEnd
    <2>3. CASE ~ wire.indefinite
      BY <1>1, <1>2, <2>1, <2>3 DEF AtEnd
    <2> QED BY <2>2, <2>3
  <1>5. /\ AtBreak(s) => Complete
        /\ AtEnd(s) /\ p <= wire.cut => Complete
    BY <1>2, <1>3, <1>4 DEF Complete
  <1> QED BY <1>3, <1>4, <1>5

(* Assigning to the bookkeeping leaves the rest of the context alone.      *)
LEMMA AssignMarks ==
    ASSUME NEW c, NEW p, NEW d, MapContext(c, p, d), NEW e \in DecodeState
    PROVE  LET b == [c EXCEPT !.state = [c.state EXCEPT !.decode_state = e]] IN
           MapContext(b, p, e)
  <1> DEFINE t == [c.state EXCEPT !.decode_state = e]
             b == [c EXCEPT !.state = t]
  <1>1. c \in Context /\ StateAt(c.state, p, ElemsAt(p), d)
        /\ Len(c.backup_list) = 1 /\ MapBackup(c.backup_list[1])
    BY DEF MapContext
  <1>2. StateAt(t, p, ElemsAt(p), e)
    BY <1>1 DEF StateAt, State
  <1> HIDE DEF t
  <1>3. b \in Context /\ b.state = t /\ b.backup_list = c.backup_list
    BY <1>1, <1>2 DEF Context, StateAt
  <1> QED BY <1>1, <1>2, <1>3 DEF MapContext, t

(* Putting the cursor somewhere else in the map.                           *)
LEMMA AssignCursor ==
    ASSUME <<schema, wire>> \in Cases, NEW q \in 1 .. 2 * Pairs + 1,
           NEW c, NEW p, NEW d, MapContext(c, p, d)
    PROVE  LET b == [c EXCEPT !.state =
                        [c.state EXCEPT !.payload = q, !.elem_count = ElemsAt(q)]] IN
           MapContext(b, q, d)
  <1> DEFINE e == ElemsAt(q)
             t == [c.state EXCEPT !.payload = q, !.elem_count = e]
             b == [c EXCEPT !.state = t]
  <1>1. c \in Context /\ StateAt(c.state, p, ElemsAt(p), d)
        /\ Len(c.backup_list) = 1 /\ MapBackup(c.backup_list[1])
    BY DEF MapContext
  <1>2. q \in Nat /\ e \in 0 .. MaxElemCount
    BY ElemsRange, CaseFacts
  <1> HIDE DEF e
  <1>3. StateAt(t, q, e, d)
    BY <1>1, <1>2 DEF StateAt, State
  <1> HIDE DEF t
  <1>4. b \in Context /\ b.state = t /\ b.backup_list = c.backup_list
    BY <1>1, <1>3 DEF Context, StateAt
  <1> QED BY <1>1, <1>3, <1>4 DEF MapContext, e, t

(* At a key the pair is counted, if pairs are still being counted.         *)
LEMMA CountEffectAt ==
    ASSUME <<schema, wire>> \in Cases, NEW p \in 1 .. 2 * Pairs + 1,
           NEW c, NEW d, MapContext(c, p, d), MapMarks(d)
    PROVE  LET e == [d EXCEPT !.map_elem_count = Max2(@, (p + 1) \div 2)] IN
           IF d.counting_map_elems
           THEN /\ MapContext(CountPairs(c), p, e)
                /\ e \in DecodeState
           ELSE CountPairs(c) = c
  <1>1. c.state.decode_state = d /\ c.state.elem_count = ElemsAt(p) /\ d \in DecodeState
    BY DEF MapContext, StateAt, MapMarks
  <1>2. CASE d.counting_map_elems
    <2> DEFINE n == Max2(d.map_elem_count, (p + 1) \div 2)
               e == [d EXCEPT !.map_elem_count = n]
    <2>1. p \in Nat /\ (p + 1) \div 2 \in Nat /\ d.map_elem_count \in Nat
      BY <1>1, CaseFacts DEF DecodeState
    <2>2. n \in Nat
      BY <2>1 DEF Max2
    <2>3. LargeElemCount - ElemsAt(p) + 2 = p + 1
      <3>1. wire.indefinite /\ LargeElemCount \in Nat
        BY <1>2, CaseFacts DEF MapMarks
      <3>2. ElemsAt(p) = LargeElemCount - (p - 1)
        BY <3>1 DEF ElemsAt
      <3> QED BY <2>1, <3>1, <3>2
    <2>4. CountPairs(c) = [c EXCEPT !.state.decode_state.map_elem_count = n]
      BY <1>1, <1>2, <2>3 DEF CountPairs
    <2> HIDE DEF n
    <2>5. e \in DecodeState
      BY <1>1, <2>2 DEF DecodeState
    <2>6. CountPairs(c) = [c EXCEPT !.state = [c.state EXCEPT !.decode_state = e]]
      BY <1>1, <2>4
    <2>7. MapContext(CountPairs(c), p, e)
      BY <2>5, <2>6, AssignMarks
    <2> QED BY <1>2, <2>5, <2>7 DEF n
  <1>3. CASE ~ d.counting_map_elems
    BY <1>1, <1>3 DEF CountPairs
  <1> QED BY <1>2, <1>3

(* A decoded pair is marked, unless all the pairs were.                    *)
LEMMA ProcessedEffect ==
    ASSUME <<schema, wire>> \in Cases, NEW p \in 1 .. 2 * Pairs + 1, p > 1,
           NEW c, NEW d, MapContext(c, p, d), MapMarks(d),
           d.map_elems_processed < d.map_elem_count
    PROVE  LET r == ElemProcessed(c)
               e == [d EXCEPT !.map_elems_processed = @ + 1] IN
           r.ok = TRUE /\ MapContext(r.z, p, e) /\ e \in DecodeState
  <1> DEFINE n == d.map_elems_processed + 1
             e == [d EXCEPT !.map_elems_processed = n]
  <1>1. c.state.decode_state = d /\ c.state.elem_count = ElemsAt(p) /\ d \in DecodeState
    BY DEF MapContext, StateAt, MapMarks
  <1>2. ~ (c.state.elem_count >= CurrentMaxElemCount(c.state))
    <2>1. Pairs \in Nat /\ LargeElemCount \in Nat /\ wire.indefinite \in BOOLEAN
          /\ d.indefinite_length_array = wire.indefinite
          /\ (~ wire.indefinite => d.map_elem_count = Pairs)
      BY CaseFacts DEF MapMarks
    <2>2. CASE wire.indefinite
      BY <1>1, <2>1, <2>2 DEF CurrentMaxElemCount, ElemsAt
    <2>3. CASE ~ wire.indefinite
      BY <1>1, <2>1, <2>3 DEF CurrentMaxElemCount, ElemsAt
    <2> QED BY <2>1, <2>2, <2>3
  <1>3. ShouldTry(c.state)
    BY <1>1 DEF ShouldTry
  <1>4. n \in Nat
    BY <1>1 DEF DecodeState
  <1>5. ElemProcessed(c) = Done([c EXCEPT !.state.decode_state.map_elems_processed = n])
    BY <1>1, <1>2, <1>3 DEF ElemProcessed
  <1> HIDE DEF n
  <1>6. e \in DecodeState
    BY <1>1, <1>4 DEF DecodeState
  <1>7. ElemProcessed(c) = Done([c EXCEPT !.state = [c.state EXCEPT !.decode_state = e]])
    BY <1>1, <1>5
  <1>8. MapContext(ElemProcessed(c).z, p, e) /\ ElemProcessed(c).ok = TRUE
    BY <1>6, <1>7, AssignMarks DEF Done
  <1> QED BY <1>6, <1>8 DEF n

(* Going back to the first key; the pairs have all been counted.           *)
LEMMA RestartEffect ==
    ASSUME <<schema, wire>> \in Cases, NEW p \in 1 .. 2 * Pairs + 1,
           NEW c, NEW d, MapContext(c, p, d), MapMarks(d), d.map_elem_count = Pairs
    PROVE  LET r == HandleMapEnd(c)
               e == [d EXCEPT !.counting_map_elems = FALSE] IN
           r.ok = TRUE /\ MapContext(r.z, 1, e) /\ e \in DecodeState
  <1> DEFINE e == [d EXCEPT !.counting_map_elems = FALSE]
             a == [c EXCEPT !.state = [c.state EXCEPT !.decode_state = e]]
             b == a.backup_list[1]
             s == [b EXCEPT !.decode_state = e]
             t == [s EXCEPT !.elem_count = ElemsAt(1)]
             flags == {"RESTORE", "KEEP_DECODE_STATE"}
  <1>1. /\ c.state.decode_state = d /\ d \in DecodeState /\ d.map_start_backup_num = 1
        /\ d.indefinite_length_array = wire.indefinite
    BY DEF MapContext, StateAt, MapMarks
  <1>2. e \in DecodeState /\ e.map_start_backup_num = 1
        /\ e.indefinite_length_array = wire.indefinite /\ e.map_elem_count = Pairs
    BY <1>1 DEF DecodeState
  <1>3. HandleMapEnd(c) = MapRestart(a)
    BY <1>1 DEF HandleMapEnd
  <1>4. MapContext(a, p, e)
    BY <1>2, AssignMarks
  <1> HIDE DEF a, e
  <1>5. /\ a \in Context /\ Len(a.backup_list) = 1 /\ a.state.decode_state = e
        /\ StateAt(b, 1, 0, b.decode_state) /\ MapBackup(b)
    BY <1>4 DEF MapContext, MapBackup, StateAt
  <1> HIDE DEF b
  <1>6. b \in State /\ b.payload = 1 /\ ~ b.payload_moved
    BY <1>5 DEF StateAt
  <1>7. ProcessBackupNum(a, flags, 1) = Done([a EXCEPT !.state = s, !.backup_list = @])
    <2>1. Processed(a.state, b, flags) = s
      <3>1. [b EXCEPT !.payload = b.payload, !.decode_state = e] = s
        BY <1>6 DEF State
      <3> QED BY <1>5, <3>1 DEF Processed
    <2>2. ~ Outdated(b, flags)
      BY <1>6 DEF Outdated
    <2>3. 1 \in 1 .. Len(a.backup_list) /\ "CONSUME" \notin flags
      BY <1>5
    <2> QED BY <2>1, <2>2, <2>3 DEF ProcessBackupNum, b
  <1>8. s \in State /\ s.decode_state = e
    BY <1>2, <1>6 DEF State
  <1>9. StateAt(t, 1, ElemsAt(1), e)
    <2>1. ElemsAt(1) \in 0 .. MaxElemCount
      BY ElemsRange, CaseFacts
    <2>2. t \in State
      BY <1>8, <2>1 DEF State
    <2> QED BY <1>2, <1>5, <1>6, <2>1, <2>2 DEF State, StateAt
  <1>10. CurrentMaxElemCount(s) = ElemsAt(1)
    <2>1. Pairs \in Nat /\ LargeElemCount \in Nat
      BY CaseFacts
    <2> QED BY <1>2, <1>8, <2>1 DEF CurrentMaxElemCount, ElemsAt
  <1> HIDE DEF s
  <1> DEFINE y == [a EXCEPT !.state = s, !.backup_list = @]
             x == [y EXCEPT !.state.elem_count = ElemsAt(1)]
  <1>11. y \in Context /\ y.state = s /\ y.backup_list = a.backup_list
    BY <1>5, <1>8 DEF Context
  <1> HIDE DEF y, t
  <1>12. MapRestart(a) = Done(x)
    <2>1. a.state.decode_state.map_start_backup_num = 1
      BY <1>2, <1>5
    <2>2. ProcessBackupNum(a, flags, 1).ok = TRUE /\ ProcessBackupNum(a, flags, 1).z = y
      BY <1>7 DEF Done, y
    <2>3. CurrentMaxElemCount(y.state) = ElemsAt(1)
      BY <1>10, <1>11
    <2> QED BY <2>1, <2>2, <2>3 DEF MapRestart
  <1>13. x = [y EXCEPT !.state = t]
    BY <1>11 DEF t
  <1>14. x \in Context /\ x.state = t /\ x.backup_list = a.backup_list
    BY <1>9, <1>11, <1>13 DEF Context, StateAt
  <1>15. MapContext(x, 1, e)
    BY <1>5, <1>9, <1>14 DEF MapContext, b
  <1> HIDE DEF x
  <1>16. HandleMapEnd(c).ok = TRUE /\ MapContext(HandleMapEnd(c).z, 1, e) /\ e \in DecodeState
    BY <1>2, <1>3, <1>12, <1>15 DEF Done
  <1> QED BY <1>16 DEF e

(* The map starts behind its header, with nothing processed and, of an     *)
(* indefinite map, nothing counted; or there is no header.                 *)
LEMMA StartEffect ==
    ASSUME <<schema, wire>> \in Cases
    PROVE  LET new == NewState(wire.cut, 1)
               r == UnorderedMapStart(new, 1, Pairs, wire.indefinite)
               d == r.z.state.decode_state IN
           /\ r.ok \in BOOLEAN
           /\ r.ok <=> wire.cut > 0
           /\ ~ r.ok => r.z = new
           /\ r.ok => /\ MapContext(r.z, 1, d)
                      /\ MapMarks(d) /\ d.map_elems_processed = 0
                      /\ CountedTo(1, d)
  <1> DEFINE new == NewState(wire.cut, 1)
             d == new.state.decode_state
             v == Without(new.state, 1)
             elems == IF wire.indefinite THEN LargeElemCount ELSE Pairs
             saved == [v EXCEPT !.payload_moved = FALSE]
             ldm == [d EXCEPT !.map_elems_processed = 0, !.map_elem_count = 0,
                              !.map_start_backup_num = 1,
                              !.indefinite_length_array = wire.indefinite]
  <1>1. /\ Pairs \in Nat /\ LargeElemCount \in Nat /\ 2 * Pairs < LargeElemCount
        /\ wire.cut \in Nat /\ wire.indefinite \in BOOLEAN /\ LargeElemCount <= MaxElemCount
        /\ MaxElemCount \in Nat /\ NumBackups \in Nat /\ NumBackups >= 1
        /\ wire.cut <= Total(wire)
        /\ Total(wire) = 2 * Pairs + (IF wire.indefinite THEN 2 ELSE 1)
    BY CaseFacts, MaxElemCountAssumption, NumBackupsAssumption, MapInputsAssumption
  <1>2. /\ new \in Context /\ new.backup_list = << >>
        /\ StateAt(new.state, 0, 1, d) /\ d \in DecodeState
        /\ d.map_elems_processed = 0 /\ d.map_elem_count = 0 /\ ~ d.counting_map_elems
    <2>1. d \in DecodeState
          /\ d.map_elems_processed = 0 /\ d.map_elem_count = 0 /\ ~ d.counting_map_elems
      BY DEF NewState, DecodeState
    <2>2. 1 \in 0 .. MaxElemCount
      BY MaxElemCountAssumption
    <2>3. new.state \in State
      BY <1>1, <2>2 DEF NewState, State, DecodeState
    <2>4. StateAt(new.state, 0, 1, d)
      BY <2>3 DEF NewState, StateAt
    <2>5. new \in Context /\ new.backup_list = << >>
      BY <2>3 DEF NewState, Context
    <2> QED BY <2>1, <2>4, <2>5
  <1> HIDE DEF new, d
  <1>3. CASE wire.cut = 0
    <2>1. ValueExtract(new, 1) = Fail(new, "NO_PAYLOAD")
      <3>1. new.state.payload >= new.state.payload_end
        BY <1>2, <1>3 DEF StateAt
      <3> QED BY <3>1 DEF ValueExtract
    <2> DEFINE f == Fail(new, "NO_PAYLOAD")
    <2>2. f.ok = FALSE /\ f.z = new
      BY DEF Fail
    <2> HIDE DEF f
    <2>3. ListMapStart(new, 1, Pairs, wire.indefinite) = f
      BY <2>1, <2>2 DEF ListMapStart, f
    <2>4. MapStart(new, 1, Pairs, wire.indefinite) = f
      BY <2>2, <2>3 DEF MapStart
    <2>5. UnorderedMapStart(new, 1, Pairs, wire.indefinite) = f
      BY <2>2, <2>4 DEF UnorderedMapStart
    <2>6. ~ (wire.cut > 0)
      BY <1>3
    <2> QED BY <2>2, <2>5, <2>6 DEF new
  <1>4. CASE wire.cut > 0
    <2> DEFINE a == [new EXCEPT !.state = v]
               s1 == [saved EXCEPT !.elem_count = elems]
               b == [a EXCEPT !.state = s1, !.backup_list = <<saved>>]
               s2 == [s1 EXCEPT !.decode_state = ldm]
               l == [b EXCEPT !.state = s2]
    <2>1. StateAt(v, 1, 0, d)
      BY <1>2, WithoutOne, MaxElemCountAssumption
    <2>2. ValueExtract(new, 1) = Done(a)
      <3>1. /\ ~ (new.state.payload >= new.state.payload_end) /\ ~ new.state.inside_frag_str
            /\ ~ (new.state.elem_count = 0)
            /\ ~ (new.state.payload + 1 > new.state.payload_end)
        BY <1>1, <1>2, <1>4 DEF StateAt
      <3> QED BY <3>1 DEF ValueExtract
    <2> HIDE DEF v
    <2>3. a \in Context /\ a.state = v /\ a.backup_list = << >>
      BY <1>2, <2>1 DEF Context, StateAt
    <2> HIDE DEF a
    <2>4. StateAt(saved, 1, 0, d)
      BY <2>1 DEF StateAt, State
    <2>5. elems \in 0 .. MaxElemCount
      BY <1>1
    <2>6. NewBackup(a, elems) = Done(b)
      <3>1. Append(a.backup_list, saved) = <<saved>>
        BY <2>3
      <3>2. ~ (Len(a.backup_list) >= NumBackups)
        BY <1>1, <2>3
      <3> QED BY <2>3, <3>1, <3>2 DEF NewBackup
    <2> HIDE DEF saved, elems
    <2>7. StateAt(s1, 1, elems, d)
      BY <2>4, <2>5 DEF StateAt, State
    <2>8. <<saved>> \in Seq(State)
      BY <2>4 DEF StateAt
    <2> HIDE DEF s1
    <2>9. b \in Context /\ b.state = s1 /\ b.backup_list = <<saved>>
      BY <2>3, <2>7, <2>8 DEF Context, StateAt
    <2> HIDE DEF b
    <2>10. /\ ldm \in DecodeState /\ ldm.map_elems_processed = 0 /\ ldm.map_elem_count = 0
           /\ ldm.map_start_backup_num = 1 /\ ldm.indefinite_length_array = wire.indefinite
           /\ ldm.counting_map_elems = FALSE
      BY <1>1, <1>2 DEF DecodeState
    <2>11. ListMapStart(new, 1, Pairs, wire.indefinite) = Done(l)
      <3>1. ldm = [ExitMap(s1.decode_state) EXCEPT
                      !.map_start_backup_num = Len(b.backup_list),
                      !.indefinite_length_array = wire.indefinite]
        BY <2>7, <2>9 DEF ExitMap, StateAt
      <3>2. ValueExtract(new, 1).ok = TRUE /\ ValueExtract(new, 1).z = a
        BY <2>2 DEF Done
      <3>3. NewBackup(a, elems).ok = TRUE /\ NewBackup(a, elems).z = b
        BY <2>6 DEF Done
      <3>4. ListMapStart(new, 1, Pairs, wire.indefinite)
                = Done([b EXCEPT !.state.decode_state =
                            [ExitMap(@) EXCEPT
                                !.map_start_backup_num = Len(b.backup_list),
                                !.indefinite_length_array = wire.indefinite]])
        BY <3>2, <3>3 DEF ListMapStart, elems
      <3> QED BY <2>9, <3>1, <3>4
    <2> HIDE DEF ldm
    <2>12. StateAt(s2, 1, elems, ldm)
      BY <2>7, <2>10 DEF StateAt, State
    <2> HIDE DEF s2
    <2>13. l \in Context /\ l.state = s2 /\ l.backup_list = <<saved>>
      BY <2>9, <2>12 DEF Context, StateAt
    <2> HIDE DEF l
    <2> DEFINE s3 == [s2 EXCEPT !.elem_count = ElemsAt(1)]
               k == [l EXCEPT !.state = s3]
    <2>14. ElemsAt(1) \in 0 .. MaxElemCount
      BY <1>1, ElemsRange
    <2>15. StateAt(s3, 1, ElemsAt(1), ldm)
      BY <2>12, <2>14 DEF StateAt, State
    <2>16. MapStart(new, 1, Pairs, wire.indefinite) = Done(k)
      <3>1. CASE wire.indefinite
        <4>1. ElemsAt(1) = elems
          BY <1>1, <3>1 DEF ElemsAt, elems
        <4>2. s3 = s2
          BY <2>12, <4>1 DEF StateAt, State
        <4>3. k = l
          BY <2>13, <4>2 DEF Context
        <4> QED BY <2>11, <3>1, <4>3 DEF MapStart, Done
      <3>2. CASE ~ wire.indefinite
        <4>1. ElemsAt(1) = 2 * Pairs
          BY <1>1, <3>2 DEF ElemsAt
        <4>2. ~ (Pairs >= MaxElemCount \div 2)
          BY <1>1 DEF LargeElemCount
        <4>3. /\ ListMapStart(new, 1, Pairs, wire.indefinite).ok = TRUE
              /\ ListMapStart(new, 1, Pairs, wire.indefinite).z = l
          BY <2>11 DEF Done
        <4>4. MapStart(new, 1, Pairs, wire.indefinite)
                = Done([l EXCEPT !.state.elem_count = 2 * Pairs])
          BY <3>2, <4>2, <4>3 DEF MapStart
        <4>5. [l EXCEPT !.state.elem_count = 2 * Pairs] = k
          BY <2>13, <4>1
        <4> QED BY <4>4, <4>5
      <3> QED BY <3>1, <3>2
    <2> HIDE DEF s3
    <2>17. k \in Context /\ k.state = s3 /\ k.backup_list = <<saved>>
      BY <2>13, <2>15 DEF Context, StateAt
    <2> HIDE DEF k
    <2>18. MapContext(k, 1, ldm)
      BY <1>2, <2>4, <2>15, <2>17 DEF MapContext, MapBackup, StateAt
    <2> DEFINE count == IF wire.indefinite THEN 0 ELSE Pairs
               e == [ldm EXCEPT !.map_elems_processed = 0,
                                !.counting_map_elems = wire.indefinite,
                                !.map_elem_count = count]
    <2>19. UnorderedMapStart(new, 1, Pairs, wire.indefinite)
                = Done([k EXCEPT !.state = [k.state EXCEPT !.decode_state = e]])
      <3>1. k.state.decode_state = ldm /\ k.state.elem_count = ElemsAt(1)
        BY <2>15, <2>17 DEF StateAt
      <3>2. (IF wire.indefinite THEN 0 ELSE k.state.elem_count \div 2) = count
        BY <1>1, <3>1 DEF ElemsAt
      <3>3. /\ MapStart(new, 1, Pairs, wire.indefinite).ok = TRUE
            /\ MapStart(new, 1, Pairs, wire.indefinite).z = k
        BY <2>16 DEF Done
      <3>4. UnorderedMapStart(new, 1, Pairs, wire.indefinite)
                = Done([k EXCEPT
                    !.state.decode_state.map_elems_processed = 0,
                    !.state.decode_state.counting_map_elems = wire.indefinite,
                    !.state.decode_state.map_elem_count = count])
        BY <3>2, <3>3 DEF UnorderedMapStart
      <3> QED BY <3>1, <3>4
    <2>20. /\ e \in DecodeState /\ e.map_elems_processed = 0
           /\ e.counting_map_elems = wire.indefinite /\ e.map_elem_count = count
           /\ e.map_start_backup_num = 1 /\ e.indefinite_length_array = wire.indefinite
      BY <1>1, <2>10 DEF DecodeState
    <2> DEFINE y == [k EXCEPT !.state = [k.state EXCEPT !.decode_state = e]]
    <2> HIDE DEF e
    <2>21. MapContext(y, 1, e)
      BY <2>18, <2>20, AssignMarks
    <2>22. MapMarks(e) /\ CountedTo(1, e)
      BY <1>1, <2>20 DEF MapMarks, CountedTo, Complete
    <2>23. y.state.decode_state = e
      BY <2>21 DEF MapContext, StateAt
    <2> HIDE DEF y
    <2>24. /\ UnorderedMapStart(new, 1, Pairs, wire.indefinite).ok = TRUE
           /\ UnorderedMapStart(new, 1, Pairs, wire.indefinite).z = y
      BY <2>19 DEF Done, y
    <2> QED BY <1>4, <2>20, <2>21, <2>22, <2>23, <2>24 DEF new
  <1> QED BY <1>1, <1>3, <1>4

(* At the end of the map its end succeeds and resumes the parent, which    *)
(* has no pairs to count.                                                  *)
LEMMA CloseEffect ==
    ASSUME <<schema, wire>> \in Cases, NEW p \in 1 .. 2 * Pairs + 1,
           NEW c, NEW d, MapContext(c, p, d), MapMarks(d), AtEnd(c.state)
    PROVE  LET r == ListMapEnd(c, AtBreak(c.state)) IN
           /\ r.ok = TRUE /\ r.z \in Context
           /\ r.z.state.decode_state.map_elem_count = 0
           /\ r.z.state.decode_state.map_elems_processed = 0
  <1> DEFINE q == ProcessBackup(c, ResumeFlags)
             s == q.z.state
             b == c.backup_list[1]
  <1>1. /\ c \in Context /\ StateAt(c.state, p, ElemsAt(p), d)
        /\ Len(c.backup_list) = 1 /\ MapBackup(b)
        /\ d.indefinite_length_array = wire.indefinite
        /\ wire.indefinite \in BOOLEAN /\ wire.cut \in Nat /\ Pairs \in Nat
    BY CaseFacts DEF MapContext, MapMarks
  <1>2. b \in State /\ b.payload_end = wire.cut /\ ~ b.inside_frag_str
        /\ b.decode_state.map_elem_count = 0 /\ b.decode_state.map_elems_processed = 0
    BY <1>1 DEF MapBackup, StateAt
  <1>3. c.backup_list # << >> /\ Top(c.backup_list) = b
    BY <1>1 DEF Top
  <1>4. q.ok = TRUE /\ q.z \in Context /\ s = [b EXCEPT !.payload = c.state.payload]
    BY <1>1, <1>3, ResumeEffect DEF Pulled
  <1> HIDE DEF q, b
  <1>5. /\ s \in State /\ s.payload = p /\ s.payload_end = wire.cut
        /\ ~ s.inside_frag_str /\ s.decode_state = b.decode_state
    <2>1. c.state.payload = p
      BY <1>1 DEF StateAt
    <2> QED BY <1>2, <1>4, <2>1 DEF State
  <1>6. /\ AtBreak(c.state) <=> wire.indefinite /\ p = 2 * Pairs + 1 /\ p < wire.cut
        /\ AtEnd(c.state) <=> p = 2 * Pairs + 1 /\ (wire.indefinite => p < wire.cut)
    BY <1>1, EndIsEnd
  <1>7. CASE wire.indefinite
    <2>1. c.state.decode_state.indefinite_length_array /\ AtBreak(c.state)
          /\ ~ (s.payload >= s.payload_end)
      BY <1>1, <1>5, <1>6, <1>7 DEF StateAt
    <2> DEFINE t == [q.z EXCEPT !.state.payload = @ + 1]
    <2>2. ListMapEnd(c, AtBreak(c.state)) = Done(t)
      BY <1>4, <1>5, <2>1 DEF ListMapEnd, q, ResumeFlags
    <2> DEFINE n == s.payload + 1
               u == [s EXCEPT !.payload = n]
    <2>3. n \in Nat
      BY <1>5
    <2> HIDE DEF n
    <2>4. u \in State /\ u.decode_state = b.decode_state
      BY <1>5, <2>3 DEF State
    <2>5. t = [q.z EXCEPT !.state = u]
      BY DEF n
    <2> HIDE DEF u, t
    <2>6. t \in Context /\ t.state = u
      BY <1>4, <2>4, <2>5 DEF Context
    <2> QED BY <1>2, <2>2, <2>4, <2>6 DEF Done
  <1>8. CASE ~ wire.indefinite
    <2>1. ElemsAt(p) = 0
      BY <1>1, <1>6, <1>8 DEF ElemsAt
    <2>2. ~ c.state.decode_state.indefinite_length_array /\ ~ (c.state.elem_count > 0)
      BY <1>1, <1>8, <2>1 DEF StateAt
    <2>3. ListMapEnd(c, AtBreak(c.state)) = q
      BY <1>4, <2>2 DEF ListMapEnd, q, ResumeFlags
    <2> QED BY <1>2, <1>4, <1>5, <2>3
  <1> QED BY <1>1, <1>7, <1>8

(* any_skip of one element: it fails at the break byte and where the       *)
(* message was cut, and nowhere else before the end.                       *)
LEMMA SkipEffect ==
    ASSUME <<schema, wire>> \in Cases, NEW p \in 1 .. 2 * Pairs + 1,
           NEW c, NEW d, MapContext(c, p, d), d.indefinite_length_array = wire.indefinite
    PROVE  LET r == AnySkip(c) IN
           /\ r.ok \in BOOLEAN
           /\ r.ok => /\ MapContext(r.z, p + 1, d)
                      /\ p + 1 \in 1 .. 2 * Pairs + 1 /\ p + 1 <= wire.cut
           /\ ~ r.ok => r.z = c
           /\ ~ r.ok /\ p < 2 * Pairs + 1 => wire.cut <= p
           /\ ~ r.ok /\ Complete => AtEnd(c.state)
  <1>1. /\ StateAt(c.state, p, ElemsAt(p), d)
        /\ wire.indefinite \in BOOLEAN /\ wire.cut \in Nat /\ Pairs \in Nat
        /\ Total(wire) = 2 * Pairs + (IF wire.indefinite THEN 2 ELSE 1)
    BY CaseFacts DEF MapContext
  <1>2. /\ AtBreak(c.state) <=> wire.indefinite /\ p = 2 * Pairs + 1 /\ p < wire.cut
        /\ AtEnd(c.state) <=> p = 2 * Pairs + 1 /\ (wire.indefinite => p < wire.cut)
    BY <1>1, EndIsEnd
  <1>3. ElemsAt(p) \in Nat /\ (ElemsAt(p) > 0 <=> p < 2 * Pairs + 1 \/ wire.indefinite)
    BY ElemsRange
  <1>4. CASE AtBreak(c.state)
    <2> DEFINE r == AnySkip(c)
    <2>1. r.ok = FALSE /\ r.z = c
      BY <1>4 DEF AnySkip, Fail
    <2> HIDE DEF r
    <2>2. AtEnd(c.state) /\ p = 2 * Pairs + 1
      BY <1>1, <1>2, <1>4
    <2>3. ~ (p < 2 * Pairs + 1)
      BY <1>1, <2>2
    <2>4. r.ok \in BOOLEAN /\ ~ r.ok
      BY <2>1
    <2> QED BY <2>1, <2>2, <2>3, <2>4 DEF r
  <1>5. CASE ~ AtBreak(c.state)
    <2> DEFINE r == ValueExtract(c, 1)
    <2>1. AnySkip(c) = r
      BY <1>5 DEF AnySkip
    <2>2. /\ r.ok \in BOOLEAN
          /\ r.ok <=> p < wire.cut /\ ElemsAt(p) # 0
          /\ r.ok => MapContext(r.z, p + 1, d)
          /\ ~ r.ok => r.z = c
      BY ExtractMoves
    <2> HIDE DEF r
    <2>3. r.ok => p < 2 * Pairs + 1 /\ p < wire.cut
      BY <1>1, <1>2, <1>3, <1>5, <2>2
    <2>4. ~ r.ok /\ p < 2 * Pairs + 1 => wire.cut <= p
      BY <1>1, <1>3, <2>2
    <2>5. ~ r.ok /\ Complete => AtEnd(c.state)
      BY <1>1, <1>2, <1>3, <1>5, <2>2 DEF Complete
    <2> QED BY <1>1, <2>1, <2>2, <2>3, <2>4, <2>5
  <1> QED BY <1>4, <1>5

(* The bookkeeping after pair i was counted.                               *)
Counted(d, i) ==
    IF d.counting_map_elems THEN [d EXCEPT !.map_elem_count = Max2(@, i)] ELSE d

(* The count a first pass leaves in decode_state is one MapMarks accepts.  *)
LEMMA CountedMarks ==
    ASSUME <<schema, wire>> \in Cases, NEW i \in 1 .. Pairs + 1, Complete => i <= Pairs,
           NEW d, MapMarks(d), CountedTo(2 * i - 1, d)
    PROVE  LET e == Counted(d, i) IN
           /\ MapMarks(e)
           /\ e.counting_map_elems = d.counting_map_elems
           /\ e.map_elems_processed = d.map_elems_processed
           /\ e.map_elem_count >= d.map_elem_count
           /\ d.counting_map_elems => e.map_elem_count >= i
           /\ ~ Complete => CountedTo(2 * i - 1, e)
           /\ CountedTo(2 * i, e) /\ CountedTo(2 * i + 1, e)
  <1>1. /\ d \in DecodeState /\ d.map_elem_count \in Nat /\ d.map_elems_processed \in Nat
        /\ Pairs \in Nat
    BY CaseFacts DEF MapMarks, DecodeState
  <1>2. CASE d.counting_map_elems
    <2> DEFINE n == Max2(d.map_elem_count, i)
               e == [d EXCEPT !.map_elem_count = n]
    <2>1. n \in Nat /\ n >= d.map_elem_count /\ n >= i /\ n \in {d.map_elem_count, i}
      BY <1>1 DEF Max2
    <2> HIDE DEF n
    <2>2. /\ e \in DecodeState /\ e.map_elem_count = n
          /\ e.counting_map_elems = d.counting_map_elems
          /\ e.map_elems_processed = d.map_elems_processed
          /\ e.indefinite_length_array = d.indefinite_length_array
          /\ e.map_start_backup_num = d.map_start_backup_num
      BY <1>1, <2>1 DEF DecodeState
    <2>3. Counted(d, i) = e
      BY <1>2 DEF Counted, n
    <2> HIDE DEF e
    <2>4. MapMarks(e)
      BY <1>1, <1>2, <2>1, <2>2 DEF MapMarks
    <2>5. d.map_elem_count <= i
          \/ ~ Complete
      BY <1>1, <1>2 DEF CountedTo
    <2>6. Complete => n = i
      BY <1>1, <2>1, <2>5
    <2>7. /\ ~ Complete => CountedTo(2 * i - 1, e)
          /\ CountedTo(2 * i, e) /\ CountedTo(2 * i + 1, e)
      BY <1>1, <2>1, <2>2, <2>6 DEF CountedTo
    <2> QED BY <1>1, <1>2, <2>1, <2>2, <2>3, <2>4, <2>7
  <1>3. CASE ~ d.counting_map_elems
    <2>1. Counted(d, i) = d
      BY <1>3 DEF Counted
    <2> QED BY <1>1, <1>3, <2>1 DEF CountedTo
  <1> QED BY <1>2, <1>3

(* What zcbor_search_key_* does to the state once it has counted a pair.   *)
LEMMA CountEffect ==
    ASSUME <<schema, wire>> \in Cases, NEW i \in 1 .. Pairs + 1,
           NEW c, NEW d, MapContext(c, 2 * i - 1, d), MapMarks(d)
    PROVE  MapContext(CountPairs(c), 2 * i - 1, Counted(d, i))
  <1>1. 2 * i - 1 \in 1 .. 2 * Pairs + 1 /\ ((2 * i - 1) + 1) \div 2 = i
    BY CaseFacts
  <1>2. CASE d.counting_map_elems
    BY <1>1, <1>2, CountEffectAt DEF Counted
  <1>3. CASE ~ d.counting_map_elems
    BY <1>1, <1>3, CountEffectAt DEF Counted
  <1> QED BY <1>2, <1>3

-----------------------------------------------------------------------------
(* Layer one is inductive.                                                 *)

(* What a sequence holds is of its type.                                   *)
LEMMA SeqElements ==
    ASSUME NEW S, NEW seq \in Seq(S)
    PROVE  /\ Len(seq) \in Nat /\ DOMAIN seq = 1 .. Len(seq)
           /\ \A j \in DOMAIN seq : seq[j] \in S
  OBVIOUS

(* The bookkeeping of an open map is in the ranges of the type invariant.  *)
LEMMA MarksRange ==
    ASSUME <<schema, wire>> \in Cases, NEW d, MapMarks(d)
    PROVE  /\ d.map_elem_count \in 0 .. Pairs + (IF wire.cut < Total(wire) THEN 1 ELSE 0)
           /\ d.map_elems_processed \in 0 .. d.map_elem_count
  <1>1. /\ Pairs \in Nat /\ wire.cut \in Nat /\ Total(wire) \in Nat
        /\ wire.cut <= Total(wire)
    BY CaseFacts
  <1>2. /\ d.map_elem_count \in Nat /\ d.map_elems_processed \in Nat
        /\ d.map_elems_processed <= d.map_elem_count
    BY DEF MapMarks, DecodeState
  <1>3. CASE Complete
    BY <1>1, <1>2, <1>3 DEF Complete, MapMarks
  <1>4. CASE ~ Complete
    <2>1. wire.cut < Total(wire)
      BY <1>1, <1>4 DEF Complete
    <2>2. d.map_elem_count <= Pairs + 1
      BY <1>4 DEF MapMarks
    <2> QED BY <1>1, <1>2, <2>1, <2>2
  <1> QED BY <1>3, <1>4

(* A step that stays in the map keeps layer one when it leaves the cursor  *)
(* at p and the bookkeeping d.                                             *)
LEMMA StepKeeps ==
    ASSUME MapInv, UNCHANGED <<schema, wire>>,
           pc' \in {"search", "scan", "value", "skip"},
           m' \in 1 .. Len(members) + 1,
           from' \in [payload : Nat, elem_count : Nat],
           result' \in [DOMAIN members -> Seq(1 .. Pairs)],
           NEW p \in 1 .. 2 * Pairs + 1, p <= wire.cut,
           NEW d, MapContext(z', p, d), MapMarks(d),
           pc' # "skip" => CountedTo(p, d),
           pc' \in {"search", "scan"} => IsKeyOffset(p),
           pc' \in {"scan", "value"} => m' <= Len(members),
           pc' = "scan" => FromAt(from', p, d),
           pc' = "value" => ValueAt(p, d, m'),
           pc' = "skip" => m' = Len(members) + 1
    PROVE  MapInv'
  <1>1. <<schema, wire>> \in Cases
    BY DEF MapInv
  <1>2. /\ schema' = schema /\ wire' = wire /\ members' = members
        /\ Pairs' = Pairs /\ Complete' = Complete
    BY DEF members, Pairs, Complete, Total
  <1>3. /\ z'.state.payload = p /\ Marks' = d /\ ds' = d
        /\ z' \in Context
    BY DEF MapContext, StateAt, Marks, ds
  <1>4. MapContext(z, z.state.payload, Marks)'
    <2>1. MapContext(z', z'.state.payload, Marks')
      BY <1>3
    <2> QED BY <1>2, <2>1 DEF MapContext, StateAt, ElemsAt, MapBackup
  <1>5. MapMarks(Marks)' /\ (pc' # "skip" => CountedTo(z.state.payload, Marks)')
    BY <1>2, <1>3 DEF MapMarks, CountedTo
  <1>6. CursorInv'
    BY <1>2, <1>3, <1>4, <1>5 DEF CursorInv
  <1>7. TypeOK'
    <2>1. /\ d.map_elem_count \in 0 .. Pairs + (IF wire.cut < Total(wire) THEN 1 ELSE 0)
          /\ d.map_elems_processed \in 0 .. d.map_elem_count
      BY <1>1, MarksRange
    <2>2. \A i \in DOMAIN result' : \A j \in DOMAIN result'[i] : result'[i][j] \in 1 .. Pairs
      <3> TAKE i \in DOMAIN result'
      <3>1. result'[i] \in Seq(1 .. Pairs)
        OBVIOUS
      <3> QED BY <3>1, SeqElements
    <2>3. DOMAIN wire.pairs = 1 .. Pairs
      BY <1>1, CaseFacts
    <2> QED BY <1>2, <1>3, <2>1, <2>2, <2>3 DEF TypeOK, Steps, Pairs, Total
  <1>8. /\ pc' \in {"search", "scan"} => IsKeyOffset(z.state.payload)'
        /\ pc' = "scan" => FromAt(from, z.state.payload, Marks)'
        /\ pc' = "value" => ValueAt(z.state.payload, Marks, m)'
    BY <1>2, <1>3 DEF IsKeyOffset, FromAt, ValueAt, ElemsAt
  <1> QED BY <1>1, <1>2, <1>3, <1>6, <1>7, <1>8 DEF MapInv

(* A step that returns keeps it when the state keeps its types.            *)
LEMMA ReturnKeeps ==
    ASSUME MapInv, UNCHANGED <<schema, wire, from, result>>,
           pc' \in {"accepted", "rejected"}, m' \in 1 .. Len(members) + 1,
           z' \in Context,
           z'.state.decode_state.map_elem_count
                \in 0 .. Pairs + (IF wire.cut < Total(wire) THEN 1 ELSE 0),
           z'.state.decode_state.map_elems_processed
                \in 0 .. z'.state.decode_state.map_elem_count
    PROVE  MapInv'
  <1>1. /\ schema' = schema /\ wire' = wire /\ members' = members
        /\ Pairs' = Pairs /\ from' = from /\ result' = result
    BY DEF members, Pairs
  <1>2. TypeOK'
    BY <1>1 DEF MapInv, TypeOK, Steps, Pairs, Total, ds
  <1> QED BY <1>1, <1>2 DEF MapInv, Inside

(* What layer one says of a step inside the map.                           *)
LEMMA InsideFacts ==
    ASSUME MapInv, Inside
    PROVE  /\ <<schema, wire>> \in Cases
           /\ MapContext(z, z.state.payload, Marks) /\ MapMarks(Marks)
           /\ z.state.payload \in 1 .. 2 * Pairs + 1 /\ z.state.payload <= wire.cut
           /\ pc # "skip" => CountedTo(z.state.payload, Marks)
           /\ m \in 1 .. Len(members) + 1
           /\ from \in [payload : Nat, elem_count : Nat]
           /\ result \in [DOMAIN members -> Seq(1 .. Pairs)]
           /\ Len(members) \in Nat /\ Pairs \in Nat /\ wire.cut \in Nat
  BY CaseFacts DEF MapInv, TypeOK, CursorInv

(* A search that is given up: the next member's turn, or the function      *)
(* fails.                                                                  *)
LEMMA NotFoundKeeps ==
    ASSUME MapInv, Inside, m <= Len(members), NotFound,
           UNCHANGED <<schema, wire, from, result>>,
           NEW p \in 1 .. 2 * Pairs + 1, p <= wire.cut, IsKeyOffset(p),
           NEW d, MapContext(z', p, d), MapMarks(d), CountedTo(p, d)
    PROVE  MapInv'
  <1>1. /\ pc' \in {"search", "rejected"} /\ m' \in 1 .. Len(members) + 1
        /\ from' = from /\ result' = result
    BY InsideFacts DEF NotFound, Goto, NextMember
  <1>2. /\ from' \in [payload : Nat, elem_count : Nat]
        /\ result' \in [DOMAIN members -> Seq(1 .. Pairs)]
        /\ <<schema, wire>> \in Cases
    BY <1>1, InsideFacts
  <1>3. CASE pc' = "search"
    <2>1. UNCHANGED <<schema, wire>>
      OBVIOUS
    <2> QED BY <1>1, <1>2, <1>3, <2>1, StepKeeps
  <1>4. CASE pc' = "rejected"
    <2>1. z' \in Context /\ z'.state.decode_state = d
      BY DEF MapContext, StateAt
    <2> QED BY <1>1, <1>2, <1>4, <2>1, MarksRange, ReturnKeeps
  <1> QED BY <1>1, <1>3, <1>4

(* Assigning the payload pointer its own value changes nothing.            *)
LEMMA SamePayload ==
    ASSUME NEW p \in Nat, NEW c, NEW d, MapContext(c, p, d)
    PROVE  MapContext([c EXCEPT !.state.payload = p], p, d)
  <1> DEFINE t == [c.state EXCEPT !.payload = p]
             b == [c EXCEPT !.state = t]
  <1>1. c \in Context /\ StateAt(c.state, p, ElemsAt(p), d)
        /\ Len(c.backup_list) = 1 /\ MapBackup(c.backup_list[1])
    BY DEF MapContext
  <1>2. StateAt(t, p, ElemsAt(p), d)
    BY <1>1 DEF StateAt, State
  <1> HIDE DEF t
  <1>3. b \in Context /\ b.state = t /\ b.backup_list = c.backup_list
    BY <1>1, <1>2 DEF Context, StateAt
  <1> QED BY <1>1, <1>2, <1>3 DEF MapContext, t

(* The scan goes on, or ends where it began.                               *)
LEMMA ScanOnEffect ==
    ASSUME MapInv, pc = "scan", NEW p \in 1 .. 2 * Pairs + 1,
           NEW c, NEW d, MapContext(c, p, d), FromAt(from, p, d), ScanOn(c)
    PROVE  /\ MapContext(z', p, d)
           /\ \/ from.payload # p /\ pc' = "scan" /\ m' = m
              \/ from.payload = p /\ from.elem_count = ElemsAt(p) /\ NotFound
  <1>1. <<schema, wire>> \in Cases /\ Pairs \in Nat
    BY InsideFacts DEF Inside
  <1>2. c.state.elem_count = ElemsAt(p)
    BY DEF MapContext, StateAt
  <1>3. from.payload \in 1 .. 2 * Pairs + 1 /\ from.elem_count = ElemsAt(from.payload)
    BY <1>1 DEF FromAt, IsKeyOffset
  <1>4. CASE c.state.elem_count # from.elem_count
    <2>1. z' = c /\ pc' = "scan" /\ m' = m
      BY <1>4 DEF ScanOn, Goto
    <2> QED BY <1>2, <1>3, <1>4, <2>1
  <1>5. CASE c.state.elem_count = from.elem_count
    <2>1. z' = [c EXCEPT !.state.payload = from.payload] /\ NotFound
      BY <1>5 DEF ScanOn
    <2>2. from.payload = p
      BY <1>1, <1>2, <1>3, <1>5, ElemsRange
    <2>3. z' = [c EXCEPT !.state.payload = p] /\ p \in Nat
      BY <1>1, <2>1, <2>2
    <2>4. MapContext(z', p, d)
      BY <2>3, SamePayload
    <2> QED BY <1>3, <2>1, <2>2, <2>4
  <1> QED BY <1>4, <1>5

(* Going on with the search, at the next pair or after it, keeps MapInv.   *)
LEMMA ScanOnKeeps ==
    ASSUME MapInv, pc = "scan", UNCHANGED <<schema, wire, from, result>>,
           NEW p \in 1 .. 2 * Pairs + 1, p <= wire.cut, IsKeyOffset(p),
           NEW c, NEW d, MapContext(c, p, d), MapMarks(d), CountedTo(p, d),
           FromAt(from, p, d), ScanOn(c)
    PROVE  MapInv' /\ FailedSearchStep
  <1>1. /\ <<schema, wire>> \in Cases /\ Pairs \in Nat /\ m <= Len(members)
        /\ m \in 1 .. Len(members) + 1 /\ from \in [payload : Nat, elem_count : Nat]
        /\ result \in [DOMAIN members -> Seq(1 .. Pairs)] /\ Inside
        /\ from' = from /\ result' = result
    BY InsideFacts DEF Inside, MapInv
  <1>2. /\ MapContext(z', p, d)
        /\ \/ from.payload # p /\ pc' = "scan" /\ m' = m
           \/ from.payload = p /\ from.elem_count = ElemsAt(p) /\ NotFound
    BY ScanOnEffect
  <1>3. CASE pc' = "scan" /\ m' = m
    <2>1. UNCHANGED <<schema, wire>> /\ FromAt(from', p, d)
      BY <1>1
    <2>2. MapInv'
      BY <1>1, <1>2, <1>3, <2>1, StepKeeps
    <2> QED BY <1>3, <2>2 DEF FailedSearchStep
  <1>4. CASE from.payload = p /\ from.elem_count = ElemsAt(p) /\ NotFound
    <2>1. MapInv'
      BY <1>1, <1>2, <1>4, NotFoundKeeps
    <2>2. z'.state.payload = p /\ z'.state.elem_count = ElemsAt(p)
      BY <1>2 DEF MapContext, StateAt
    <2> QED BY <1>4, <2>1, <2>2 DEF FailedSearchStep
  <1> QED BY <1>2, <1>3, <1>4

(* The scan fails, and goes back to where it began.                        *)
LEMMA ScanErrorKeeps ==
    ASSUME MapInv, pc = "scan", UNCHANGED <<schema, wire, from, result>>,
           NEW p, NEW c, NEW d, MapContext(c, p, d), MapMarks(d),
           CountedTo(from.payload, d), FromAt(from, p, d), ScanError(c)
    PROVE  MapInv' /\ FailedSearchStep
  <1> DEFINE q == from.payload
  <1>1. /\ <<schema, wire>> \in Cases /\ Pairs \in Nat /\ m <= Len(members) /\ Inside
    BY InsideFacts DEF Inside, MapInv
  <1>2. /\ q \in 1 .. 2 * Pairs + 1 /\ from.elem_count = ElemsAt(q)
        /\ IsKeyOffset(q) /\ q <= wire.cut
    BY <1>1 DEF FromAt, IsKeyOffset
  <1>3. /\ z' = [c EXCEPT !.state.payload = q, !.state.elem_count = ElemsAt(q)]
        /\ NotFound
    BY <1>2 DEF ScanError
  <1> HIDE DEF q
  <1>4. z' = [c EXCEPT !.state = [c.state EXCEPT !.payload = q, !.elem_count = ElemsAt(q)]]
    BY <1>3
  <1>5. MapContext(z', q, d)
    BY <1>1, <1>2, <1>4, AssignCursor
  <1>6. MapInv'
    BY <1>1, <1>2, <1>3, <1>5, NotFoundKeeps DEF q
  <1>7. z'.state.payload = q /\ z'.state.elem_count = ElemsAt(q)
    BY <1>5 DEF MapContext, StateAt
  <1> QED BY <1>2, <1>6, <1>7 DEF FailedSearchStep, q

(* At a key the scan counts the pair before it tries or skips it.          *)
LEMMA AtKeyFacts ==
    ASSUME MapInv, pc = "scan", ~ AtEnd(z.state),
           NEW i \in 1 .. Pairs + 1, z.state.payload = 2 * i - 1
    PROVE  LET e == Counted(Marks, i)
               c == CountPairs(z) IN
           /\ MapContext(c, 2 * i - 1, e) /\ MapMarks(e)
           /\ e.counting_map_elems = Marks.counting_map_elems
           /\ e.map_elems_processed = Marks.map_elems_processed
           /\ e.map_elem_count >= Marks.map_elem_count
           /\ Marks.counting_map_elems => e.map_elem_count >= i
           /\ ~ Complete => CountedTo(2 * i - 1, e)
           /\ CountedTo(2 * i, e) /\ CountedTo(2 * i + 1, e)
           /\ Complete => i <= Pairs
           /\ ~ AtEnd(c.state)
  <1> DEFINE p == 2 * i - 1
             e == Counted(Marks, i)
             c == CountPairs(z)
  <1>1. /\ <<schema, wire>> \in Cases /\ MapContext(z, p, Marks) /\ MapMarks(Marks)
        /\ p \in 1 .. 2 * Pairs + 1 /\ p <= wire.cut /\ CountedTo(p, Marks) /\ Pairs \in Nat
    BY InsideFacts DEF Inside
  <1>2. /\ StateAt(z.state, p, ElemsAt(p), Marks)
        /\ Marks.indefinite_length_array = wire.indefinite
    BY <1>1 DEF MapContext, MapMarks
  <1>3. AtEnd(z.state) <=> p = 2 * Pairs + 1 /\ (wire.indefinite => p < wire.cut)
    BY <1>1, <1>2, EndIsEnd
  <1>4. Complete => i <= Pairs
    <2>1. Total(wire) = 2 * Pairs + (IF wire.indefinite THEN 2 ELSE 1)
      BY <1>1, CaseFacts
    <2> QED BY <1>1, <1>3, <2>1 DEF Complete
  <1>5. MapContext(c, p, e)
    BY <1>1, CountEffect
  <1>6. /\ MapMarks(e)
        /\ e.counting_map_elems = Marks.counting_map_elems
        /\ e.map_elems_processed = Marks.map_elems_processed
        /\ e.map_elem_count >= Marks.map_elem_count
        /\ Marks.counting_map_elems => e.map_elem_count >= i
        /\ ~ Complete => CountedTo(p, e)
        /\ CountedTo(2 * i, e) /\ CountedTo(2 * i + 1, e)
    BY <1>1, <1>4, CountedMarks
  <1> HIDE DEF e, c
  <1>7. StateAt(c.state, p, ElemsAt(p), e) /\ e.indefinite_length_array = wire.indefinite
    BY <1>5, <1>6 DEF MapContext, MapMarks
  <1>8. ~ AtEnd(c.state)
    <2>1. AtEnd(c.state) <=> p = 2 * Pairs + 1 /\ (wire.indefinite => p < wire.cut)
      BY <1>1, <1>7, EndIsEnd
    <2> QED BY <1>3, <2>1
  <1> HIDE DEF p
  <1> QED BY <1>4, <1>5, <1>6, <1>8 DEF p, e, c

(* Each action keeps MapInv; a failed search also puts the cursor back.    *)
LEMMA StartMapKeeps == ASSUME MapInv, StartMap PROVE MapInv'
  <1> DEFINE r == UnorderedMapStart(z, 1, Pairs, wire.indefinite)
             d == r.z.state.decode_state
  <1>1. /\ <<schema, wire>> \in Cases /\ z = NewState(wire.cut, 1)
        /\ m \in 1 .. Len(members) + 1 /\ from \in [payload : Nat, elem_count : Nat]
        /\ result \in [DOMAIN members -> Seq(1 .. Pairs)]
        /\ Len(members) \in Nat /\ Pairs \in Nat /\ wire.cut \in Nat
    BY CaseFacts DEF MapInv, TypeOK, StartMap
  <1>2. /\ r.ok \in BOOLEAN
        /\ r.ok <=> wire.cut > 0
        /\ ~ r.ok => r.z = z
        /\ r.ok => /\ MapContext(r.z, 1, d)
                   /\ MapMarks(d) /\ d.map_elems_processed = 0
                   /\ CountedTo(1, d)
    BY <1>1, StartEffect
  <1>3. /\ z' = r.z /\ pc' = (IF r.ok THEN "search" ELSE "rejected")
        /\ UNCHANGED <<schema, wire, from, result>> /\ m' = m
    BY DEF StartMap, Goto, Pairs
  <1> HIDE DEF r
  <1>4. CASE r.ok
    <2>1. 1 \in 1 .. 2 * Pairs + 1 /\ 1 <= wire.cut /\ IsKeyOffset(1)
      <3>1. 1 \in 1 .. Pairs + 1 /\ 1 = 2 * 1 - 1
        BY <1>1
      <3> QED BY <1>1, <1>2, <1>4, <3>1 DEF IsKeyOffset
    <2>2. MapContext(z', 1, d) /\ MapMarks(d) /\ CountedTo(1, d)
      BY <1>2, <1>3, <1>4
    <2> HIDE DEF d
    <2>3. pc' = "search" /\ UNCHANGED <<schema, wire>> /\ m' \in 1 .. Len(members) + 1
          /\ from' \in [payload : Nat, elem_count : Nat]
          /\ result' \in [DOMAIN members -> Seq(1 .. Pairs)]
      BY <1>1, <1>3, <1>4
    <2> QED BY <2>1, <2>2, <2>3, StepKeeps
  <1>5. CASE ~ r.ok
    <2>1. z' = z /\ pc' = "rejected"
      BY <1>2, <1>3, <1>5
    <2> QED BY <1>1, <1>3, <2>1, ReturnKeeps DEF MapInv, TypeOK, ds, Pairs
  <1> QED BY <1>2, <1>4, <1>5

LEMMA MemberFullKeeps == ASSUME MapInv, MemberFull PROVE MapInv'
  <1>1. /\ MapContext(z', z.state.payload, Marks) /\ MapMarks(Marks)
        /\ z.state.payload \in 1 .. 2 * Pairs + 1 /\ z.state.payload <= wire.cut
        /\ CountedTo(z.state.payload, Marks) /\ IsKeyOffset(z.state.payload)
        /\ UNCHANGED <<schema, wire>>
    BY InsideFacts DEF MemberFull, Inside, MapInv
  <1>2. /\ pc' = "search" /\ m' \in 1 .. Len(members) + 1
        /\ from' \in [payload : Nat, elem_count : Nat]
        /\ result' \in [DOMAIN members -> Seq(1 .. Pairs)]
    BY InsideFacts DEF MemberFull, Inside, NextMember, Goto
  <1> QED BY <1>1, <1>2, StepKeeps

LEMMA BeginSearchKeeps == ASSUME MapInv, BeginSearch PROVE MapInv'
  <1> DEFINE p == z.state.payload
  <1>1. /\ MapContext(z, p, Marks) /\ MapMarks(Marks)
        /\ p \in 1 .. 2 * Pairs + 1 /\ p <= wire.cut
        /\ CountedTo(p, Marks) /\ IsKeyOffset(p) /\ Inside
        /\ <<schema, wire>> \in Cases /\ Pairs \in Nat
        /\ result \in [DOMAIN members -> Seq(1 .. Pairs)]
        /\ m \in 1 .. Len(members) + 1 /\ m <= Len(members)
        /\ z' = z /\ result' = result /\ UNCHANGED <<schema, wire>>
    BY InsideFacts DEF BeginSearch, Inside, MapInv
  <1>2. CASE SearchError(z.state) = "SUCCESS"
    <2>1. /\ from' = [payload |-> p, elem_count |-> z.state.elem_count]
          /\ pc' = "scan" /\ m' = m
      BY <1>2 DEF BeginSearch, Goto
    <2>2. z.state.elem_count = ElemsAt(p) /\ ElemsAt(p) \in Nat
      BY <1>1, ElemsRange DEF MapContext, StateAt
    <2> HIDE DEF p
    <2>3. FromAt(from', p, Marks) /\ from' \in [payload : Nat, elem_count : Nat]
      BY <1>1, <2>1, <2>2 DEF FromAt
    <2> QED BY <1>1, <2>1, <2>3, StepKeeps
  <1>3. CASE SearchError(z.state) # "SUCCESS"
    <2>1. NotFound /\ UNCHANGED <<schema, wire, from, result>>
      BY <1>1, <1>3 DEF BeginSearch
    <2> HIDE DEF p
    <2> QED BY <1>1, <2>1, NotFoundKeeps
  <1> QED BY <1>2, <1>3

(* At the end of the map the pairs were all counted.                       *)
LEMMA CountedAtEnd ==
    ASSUME MapInv, pc \in {"search", "scan"}, AtEnd(z.state)
    PROVE  z.state.payload = 2 * Pairs + 1 /\ Complete /\ Marks.map_elem_count = Pairs
  <1> DEFINE p == z.state.payload
  <1>1. /\ <<schema, wire>> \in Cases /\ MapContext(z, p, Marks) /\ MapMarks(Marks)
        /\ p \in 1 .. 2 * Pairs + 1 /\ p <= wire.cut /\ CountedTo(p, Marks)
        /\ Pairs \in Nat
    BY InsideFacts DEF Inside
  <1>2. StateAt(z.state, p, ElemsAt(p), Marks)
    BY <1>1 DEF MapContext
  <1>3. p = 2 * Pairs + 1 /\ Complete
    BY <1>1, <1>2, EndIsEnd DEF MapMarks
  <1> HIDE DEF p
  <1>4. /\ Marks.map_elem_count \in Nat /\ Marks.map_elem_count <= Pairs
        /\ ~ Marks.counting_map_elems => Marks.map_elem_count = Pairs
    BY <1>1, <1>3 DEF MapMarks, DecodeState
  <1>5. Marks.counting_map_elems => 2 * Pairs + 1 <= 2 * Marks.map_elem_count + 1
    BY <1>1, <1>3 DEF CountedTo
  <1>6. Marks.map_elem_count = Pairs
    BY <1>1, <1>4, <1>5
  <1> QED BY <1>3, <1>6 DEF p

LEMMA ScanWrapsKeeps == ASSUME MapInv, ScanWraps PROVE MapInv' /\ FailedSearchStep
  <1> DEFINE r == HandleMapEnd(z)
             e == [Marks EXCEPT !.counting_map_elems = FALSE]
  <1>1. /\ <<schema, wire>> \in Cases /\ MapContext(z, z.state.payload, Marks)
        /\ MapMarks(Marks) /\ z.state.payload \in 1 .. 2 * Pairs + 1
        /\ z.state.payload <= wire.cut /\ Pairs \in Nat /\ wire.cut \in Nat
        /\ pc = "scan" /\ AtEnd(z.state) /\ UNCHANGED <<schema, wire, from, result>>
        /\ FromAt(from, z.state.payload, Marks)
    BY InsideFacts DEF ScanWraps, Inside, MapInv
  <1>2. Complete /\ Marks.map_elem_count = Pairs
    BY <1>1, CountedAtEnd
  <1>3. r.ok = TRUE /\ MapContext(r.z, 1, e) /\ e \in DecodeState
    BY <1>1, <1>2, RestartEffect
  <1>4. ScanOn(r.z)
    BY <1>3 DEF ScanWraps
  <1>5. /\ e.counting_map_elems = FALSE /\ e.map_elem_count = Pairs
        /\ e.indefinite_length_array = wire.indefinite /\ e.map_start_backup_num = 1
        /\ e.map_elems_processed = Marks.map_elems_processed
    BY <1>1, <1>2 DEF MapMarks, DecodeState
  <1> HIDE DEF e, r
  <1>6. MapMarks(e) /\ CountedTo(1, e) /\ FromAt(from, 1, e)
    BY <1>1, <1>2, <1>3, <1>5 DEF MapMarks, CountedTo, FromAt
  <1>7. 1 \in 1 .. 2 * Pairs + 1 /\ 1 <= wire.cut /\ IsKeyOffset(1)
    <2>1. 1 \in 1 .. Pairs + 1 /\ 1 = 2 * 1 - 1
      BY <1>1
    <2>2. \A p \in 1 .. 2 * Pairs + 1 : p <= wire.cut => 1 <= wire.cut
      BY <1>1
    <2>3. 1 <= wire.cut
      BY <1>1, <2>2
    <2> QED BY <1>1, <2>1, <2>3 DEF IsKeyOffset
  <1> QED BY <1>1, <1>3, <1>4, <1>6, <1>7, ScanOnKeeps

(* What a key found means: the pair is the member's, and is still counted  *)
(* as one to be found.                                                     *)
LEMMA KeyFoundEffect ==
    ASSUME MapInv, KeyFound
    PROVE  \E i \in 1 .. Pairs :
            LET e == Counted(Marks, i) IN
            /\ z.state.payload = 2 * i - 1
            /\ wire.pairs[i].key = members[m].key
            /\ e.map_elems_processed < e.map_elem_count
            /\ MapContext(z', 2 * i, e) /\ 2 * i <= wire.cut
  <1> DEFINE c == CountPairs(z)
             x == ValueExtract(c, 1)
  <1>1. /\ <<schema, wire>> \in Cases /\ pc = "scan" /\ ~ AtEnd(z.state)
        /\ KeyMatches(c, members[m].key) /\ z' = x.z /\ wire.cut \in Nat /\ Pairs \in Nat
    BY InsideFacts DEF KeyFound, Inside
  <1>2. PICK i \in 1 .. Pairs + 1 : z.state.payload = 2 * i - 1
    BY <1>1 DEF MapInv, IsKeyOffset
  <1> DEFINE e == Counted(Marks, i)
             p == 2 * i - 1
  <1>3. MapContext(c, p, e)
    BY <1>1, <1>2, AtKeyFacts
  <1>4. p \in 1 .. 2 * Pairs + 1
    BY <1>1
  <1> HIDE DEF e, c
  <1>5. c.state.payload = p /\ c.state.decode_state = e
    BY <1>3 DEF MapContext, StateAt
  <1>6. /\ AtKey(c.state) /\ ShouldTry(c.state) /\ x.ok
        /\ wire.pairs[PairAt(c.state)].key = members[m].key
    BY <1>1 DEF KeyMatches
  <1>7. i \in 1 .. Pairs /\ PairAt(c.state) = i
    <2>1. ((2 * i - 1) + 1) \div 2 = i
      BY <1>1
    <2>2. p < 2 * Pairs
      BY <1>5, <1>6 DEF AtKey, Pairs
    <2>3. PairAt(c.state) = (p + 1) \div 2
      BY <1>5 DEF PairAt
    <2> QED BY <1>1, <2>1, <2>2, <2>3
  <1>8. e.map_elems_processed < e.map_elem_count
    BY <1>5, <1>6 DEF ShouldTry
  <1>9. MapContext(x.z, p + 1, e) /\ p < wire.cut
    BY <1>1, <1>3, <1>4, <1>6, ExtractMoves
  <1> HIDE DEF x
  <1>10. p + 1 = 2 * i /\ 2 * i <= wire.cut
    BY <1>1, <1>7, <1>9
  <1>11. MapContext(z', 2 * i, e)
    BY <1>1, <1>9, <1>10
  <1> QED BY <1>2, <1>6, <1>7, <1>8, <1>10, <1>11 DEF e

LEMMA KeyFoundKeeps == ASSUME MapInv, KeyFound PROVE MapInv'
  <1>1. PICK i \in 1 .. Pairs :
            LET e == Counted(Marks, i) IN
            /\ z.state.payload = 2 * i - 1
            /\ wire.pairs[i].key = members[m].key
            /\ e.map_elems_processed < e.map_elem_count
            /\ MapContext(z', 2 * i, e) /\ 2 * i <= wire.cut
    BY KeyFoundEffect
  <1> DEFINE e == Counted(Marks, i)
  <1>2. /\ pc = "scan" /\ ~ AtEnd(z.state) /\ pc' = "value" /\ m' = m
        /\ UNCHANGED <<schema, wire>> /\ from' = from /\ result' = result
        /\ m <= Len(members) /\ m \in 1 .. Len(members) + 1 /\ Pairs \in Nat
        /\ from \in [payload : Nat, elem_count : Nat]
        /\ result \in [DOMAIN members -> Seq(1 .. Pairs)]
    BY InsideFacts DEF KeyFound, Inside, MapInv, Goto
  <1>3. i \in 1 .. Pairs + 1 /\ 2 * i \in 1 .. 2 * Pairs + 1
    BY <1>2
  <1>4. MapMarks(e) /\ CountedTo(2 * i, e)
    BY <1>1, <1>2, <1>3, AtKeyFacts
  <1>5. MapContext(z', 2 * i, e) /\ e.map_elems_processed < e.map_elem_count
    BY <1>1
  <1> HIDE DEF e
  <1>6. ValueAt(2 * i, e, m')
    BY <1>1, <1>2, <1>5 DEF ValueAt
  <1> QED BY <1>1, <1>2, <1>3, <1>4, <1>5, <1>6, StepKeeps

(* Skipping a pair takes the cursor to the next key; where it fails, the   *)
(* message was cut.                                                        *)
LEMMA SkipPairEffect ==
    ASSUME <<schema, wire>> \in Cases, NEW i \in 1 .. Pairs + 1, Complete => i <= Pairs,
           NEW c, NEW d, MapContext(c, 2 * i - 1, d), MapMarks(d),
           ~ AtEnd(c.state)
    PROVE  LET r == SkipPair(c) IN
           /\ r.ok \in BOOLEAN
           /\ r.ok => /\ MapContext(r.z, 2 * i + 1, d)
                      /\ i <= Pairs /\ 2 * i + 1 <= wire.cut
           /\ ~ r.ok => ~ Complete
  <1> DEFINE p == 2 * i - 1
             a == AnySkip(c)
             r == AnySkip(a.z)
  <1>1. /\ Pairs \in Nat /\ wire.cut \in Nat /\ p \in 1 .. 2 * Pairs + 1
        /\ d.indefinite_length_array = wire.indefinite /\ wire.indefinite \in BOOLEAN
        /\ Total(wire) = 2 * Pairs + (IF wire.indefinite THEN 2 ELSE 1)
    BY CaseFacts DEF MapMarks
  <1>2. /\ a.ok \in BOOLEAN
        /\ a.ok => /\ MapContext(a.z, p + 1, d)
                   /\ p + 1 \in 1 .. 2 * Pairs + 1 /\ p + 1 <= wire.cut
        /\ ~ a.ok /\ Complete => AtEnd(c.state)
    BY <1>1, SkipEffect
  <1> HIDE DEF a, p
  <1>3. CASE ~ a.ok
    <2>1. SkipPair(c) = a
      BY <1>3 DEF SkipPair, a
    <2> QED BY <1>2, <1>3, <2>1
  <1>4. CASE a.ok
    <2>1. SkipPair(c) = r
      BY <1>4 DEF SkipPair, a
    <2>2. /\ r.ok \in BOOLEAN
          /\ r.ok => /\ MapContext(r.z, p + 1 + 1, d)
                     /\ p + 1 + 1 \in 1 .. 2 * Pairs + 1 /\ p + 1 + 1 <= wire.cut
          /\ ~ r.ok /\ p + 1 < 2 * Pairs + 1 => wire.cut <= p + 1
      BY <1>1, <1>2, <1>4, SkipEffect
    <2> HIDE DEF r
    <2>3. i <= Pairs /\ p + 1 + 1 = 2 * i + 1 /\ p + 1 = 2 * i
      BY <1>1, <1>2, <1>4 DEF p
    <2>4. r.ok => MapContext(r.z, 2 * i + 1, d) /\ 2 * i + 1 <= wire.cut
      BY <2>2, <2>3
    <2>5. ~ r.ok => wire.cut <= 2 * i
      BY <1>1, <2>2, <2>3
    <2>6. ~ r.ok => ~ Complete
      BY <1>1, <2>3, <2>5 DEF Complete
    <2> QED BY <2>1, <2>2, <2>3, <2>4, <2>6
  <1> QED BY <1>2, <1>3, <1>4

LEMMA KeySkippedKeeps == ASSUME MapInv, KeySkipped PROVE MapInv' /\ FailedSearchStep
  <1> DEFINE c == CountPairs(z)
             r == SkipPair(c)
  <1>1. /\ <<schema, wire>> \in Cases /\ pc = "scan" /\ ~ AtEnd(z.state)
        /\ IF r.ok THEN ScanOn(r.z) ELSE ScanError(c)
        /\ UNCHANGED <<schema, wire, from, result>>
        /\ wire.cut \in Nat /\ Pairs \in Nat
        /\ FromAt(from, z.state.payload, Marks)
    BY InsideFacts DEF KeySkipped, Inside, MapInv
  <1>2. PICK i \in 1 .. Pairs + 1 : z.state.payload = 2 * i - 1
    BY <1>1 DEF MapInv, IsKeyOffset
  <1> DEFINE e == Counted(Marks, i)
  <1>3. /\ MapContext(c, 2 * i - 1, e) /\ MapMarks(e)
        /\ e.counting_map_elems = Marks.counting_map_elems
        /\ Marks.counting_map_elems => e.map_elem_count >= i
        /\ ~ Complete => CountedTo(2 * i - 1, e)
        /\ CountedTo(2 * i + 1, e)
        /\ Complete => i <= Pairs
        /\ ~ AtEnd(c.state)
    BY <1>1, <1>2, AtKeyFacts
  <1> HIDE DEF e, c
  <1>4. /\ r.ok \in BOOLEAN
        /\ r.ok => /\ MapContext(r.z, 2 * i + 1, e)
                   /\ i <= Pairs /\ 2 * i + 1 <= wire.cut
        /\ ~ r.ok => ~ Complete
    BY <1>1, <1>3, SkipPairEffect
  <1> HIDE DEF r
  <1>5. /\ FromAt(from, 2 * i - 1, e) /\ FromAt(from, 2 * i + 1, e)
        /\ from.payload \in Nat
    <2>1. from.payload \in Nat
      BY <1>1 DEF FromAt, IsKeyOffset
    <2>2. e.counting_map_elems => from.payload <= 2 * i - 1
      BY <1>1, <1>2, <1>3 DEF FromAt
    <2>3. e.counting_map_elems => from.payload <= 2 * i + 1
      BY <1>1, <2>1, <2>2
    <2> QED BY <1>1, <2>1, <2>2, <2>3 DEF FromAt
  <1>6. CASE r.ok
    <2>1. ScanOn(r.z) /\ MapContext(r.z, 2 * i + 1, e) /\ 2 * i + 1 <= wire.cut
      BY <1>1, <1>4, <1>6
    <2>2. 2 * i + 1 \in 1 .. 2 * Pairs + 1 /\ IsKeyOffset(2 * i + 1)
      <3>1. i + 1 \in 1 .. Pairs + 1 /\ 2 * i + 1 = 2 * (i + 1) - 1
        BY <1>1, <1>4, <1>6
      <3> QED BY <1>1, <3>1 DEF IsKeyOffset
    <2> QED BY <1>1, <1>3, <1>5, <2>1, <2>2, ScanOnKeeps
  <1>7. CASE ~ r.ok
    <2>1. ScanError(c) /\ ~ Complete
      BY <1>1, <1>4, <1>7
    <2>2. CountedTo(from.payload, e)
      <3>1. e.counting_map_elems => from.payload <= 2 * i - 1
        BY <1>5 DEF FromAt
      <3>2. e.counting_map_elems => 2 * i - 1 <= 2 * e.map_elem_count + 1
        BY <1>3, <2>1 DEF CountedTo
      <3>3. e.map_elem_count \in Nat
        BY <1>3 DEF MapMarks, DecodeState
      <3> QED BY <1>1, <1>5, <2>1, <3>1, <3>2, <3>3 DEF CountedTo
    <2> QED BY <1>1, <1>3, <1>5, <2>1, <2>2, ScanErrorKeeps
  <1> QED BY <1>4, <1>6, <1>7

(* A step that fails the function where it stands.                         *)
LEMMA RejectKeeps ==
    ASSUME MapInv, pc' = "rejected", UNCHANGED <<schema, wire, z, m, from, result>>
    PROVE  MapInv'
  BY ReturnKeeps DEF MapInv, TypeOK, ds, Pairs

(* A value that decodes is the member's and its pair is marked; it fails   *)
(* to decode only for the message's sake.                                  *)
Marked(d) == [d EXCEPT !.map_elems_processed = @ + 1]

(* What decoding the value of the found pair does to the state.            *)
LEMMA DecodeValueEffect ==
    ASSUME MapInv, DecodeValue
    PROVE  \E i \in 1 .. Pairs :
            /\ z.state.payload = 2 * i
            /\ wire.pairs[i].key = members[m].key
            /\ Marks.map_elems_processed < Marks.map_elem_count
            /\ \/ /\ ~ wire.pairs[i].good \/ ~ Complete
                  /\ pc' = "rejected" /\ UNCHANGED <<z, m, result>>
               \/ /\ MapContext(z', 2 * i + 1, Marked(Marks)) /\ Marked(Marks) \in DecodeState
                  /\ 2 * i + 1 <= wire.cut
                  /\ result' = [result EXCEPT ![m] = Append(@, i)]
                  /\ IF members[m].max = 1 THEN m' = m + 1 /\ pc' = "search"
                     ELSE m' = m /\ pc' = "search"
  <1> DEFINE v == AnySkip(z)
             r == ElemProcessed(v.z)
             e == Marked(Marks)
             pair == z.state.payload \div 2
  <1>1. /\ <<schema, wire>> \in Cases /\ MapContext(z, z.state.payload, Marks)
        /\ MapMarks(Marks) /\ Pairs \in Nat /\ wire.cut \in Nat
        /\ ValueAt(z.state.payload, Marks, m)
        /\ wire.indefinite \in BOOLEAN
        /\ Total(wire) = 2 * Pairs + (IF wire.indefinite THEN 2 ELSE 1)
    BY InsideFacts, CaseFacts DEF DecodeValue, Inside, MapInv
  <1>2. PICK i \in 1 .. Pairs :
            /\ z.state.payload = 2 * i
            /\ wire.pairs[i].key = members[m].key
            /\ Marks.map_elems_processed < Marks.map_elem_count
    BY <1>1 DEF ValueAt
  <1>3. pair = i /\ 2 * i \in 1 .. 2 * Pairs + 1 /\ 2 * i + 1 \in 1 .. 2 * Pairs + 1
        /\ 2 * i < 2 * Pairs + 1 /\ 2 * i + 1 > 1
    BY <1>1, <1>2
  <1>4. /\ v.ok \in BOOLEAN
        /\ v.ok => MapContext(v.z, 2 * i + 1, Marks) /\ 2 * i + 1 <= wire.cut
        /\ ~ v.ok => wire.cut <= 2 * i
    BY <1>1, <1>2, <1>3, SkipEffect DEF MapMarks
  <1>5. ~ v.ok => ~ Complete
    BY <1>1, <1>3, <1>4 DEF Complete
  <1>6. v.ok => r.ok = TRUE /\ MapContext(r.z, 2 * i + 1, e) /\ e \in DecodeState
    BY <1>1, <1>2, <1>3, <1>4, ProcessedEffect DEF Marked
  <1>7. CASE v.ok /\ wire.pairs[i].good
    <2>1. /\ z' = r.z /\ result' = [result EXCEPT ![m] = Append(@, i)]
          /\ IF members[m].max = 1 THEN m' = m + 1 /\ pc' = "search"
             ELSE m' = m /\ pc' = "search"
      <3>1. pair = i /\ v.ok /\ wire.pairs[pair].good /\ r.ok
        BY <1>3, <1>6, <1>7
      <3> QED BY <3>1 DEF DecodeValue, NextMember, Goto
    <2> HIDE DEF r, v, e
    <2>2. MapContext(z', 2 * i + 1, e) /\ e \in DecodeState /\ 2 * i + 1 <= wire.cut
      BY <1>4, <1>6, <1>7, <2>1
    <2> QED BY <1>2, <2>1, <2>2 DEF e
  <1>8. CASE ~ (v.ok /\ wire.pairs[i].good)
    <2>1. ~ wire.pairs[i].good \/ ~ Complete
      BY <1>5, <1>8
    <2>2. ~ (v.ok /\ wire.pairs[pair].good /\ r.ok)
      BY <1>3, <1>8
    <2>3. pc' = "rejected" /\ UNCHANGED <<z, m, result>>
      BY <2>2 DEF DecodeValue, Goto
    <2> QED BY <1>2, <2>1, <2>3
  <1> QED BY <1>7, <1>8

(* The bookkeeping after a pair was marked.                                *)
LEMMA MarkedMarks ==
    ASSUME <<schema, wire>> \in Cases, NEW d, MapMarks(d),
           d.map_elems_processed < d.map_elem_count,
           NEW i \in 1 .. Pairs, CountedTo(2 * i, d)
    PROVE  MapMarks(Marked(d)) /\ CountedTo(2 * i + 1, Marked(d))
  <1>1. /\ d \in DecodeState /\ d.map_elem_count \in Nat /\ d.map_elems_processed \in Nat
        /\ Pairs \in Nat
    BY CaseFacts DEF MapMarks, DecodeState
  <1> DEFINE n == d.map_elems_processed + 1
             e == [d EXCEPT !.map_elems_processed = n]
  <1>2. n \in Nat /\ n <= d.map_elem_count
    BY <1>1
  <1> HIDE DEF n
  <1>3. /\ e \in DecodeState /\ e.map_elem_count = d.map_elem_count
        /\ e.counting_map_elems = d.counting_map_elems
        /\ e.map_elems_processed = n
        /\ e.indefinite_length_array = d.indefinite_length_array
        /\ e.map_start_backup_num = d.map_start_backup_num
    BY <1>1, <1>2 DEF DecodeState
  <1>4. Marked(d) = e
    BY DEF Marked, n
  <1> HIDE DEF e
  <1>5. MapMarks(e)
    BY <1>2, <1>3 DEF MapMarks
  <1>6. CountedTo(2 * i + 1, e)
    <2>1. d.counting_map_elems => 2 * i <= 2 * d.map_elem_count + 1
            /\ (Complete => 2 * d.map_elem_count <= 2 * i)
      BY DEF CountedTo
    <2> QED BY <1>1, <1>3, <2>1 DEF CountedTo
  <1> QED BY <1>4, <1>5, <1>6

LEMMA DecodeValueKeeps == ASSUME MapInv, DecodeValue PROVE MapInv'
  <1>1. PICK i \in 1 .. Pairs :
            /\ z.state.payload = 2 * i
            /\ wire.pairs[i].key = members[m].key
            /\ Marks.map_elems_processed < Marks.map_elem_count
            /\ \/ /\ ~ wire.pairs[i].good \/ ~ Complete
                  /\ pc' = "rejected" /\ UNCHANGED <<z, m, result>>
               \/ /\ MapContext(z', 2 * i + 1, Marked(Marks)) /\ Marked(Marks) \in DecodeState
                  /\ 2 * i + 1 <= wire.cut
                  /\ result' = [result EXCEPT ![m] = Append(@, i)]
                  /\ IF members[m].max = 1 THEN m' = m + 1 /\ pc' = "search"
                     ELSE m' = m /\ pc' = "search"
    BY DecodeValueEffect
  <1>2. /\ <<schema, wire>> \in Cases /\ MapMarks(Marks) /\ Pairs \in Nat
        /\ CountedTo(z.state.payload, Marks)
        /\ m \in 1 .. Len(members) + 1 /\ Len(members) \in Nat /\ m <= Len(members)
        /\ from \in [payload : Nat, elem_count : Nat]
        /\ result \in [DOMAIN members -> Seq(1 .. Pairs)]
        /\ UNCHANGED <<schema, wire, from>> /\ from' = from
        /\ DOMAIN members = 1 .. Len(members)
    BY InsideFacts, CaseFacts DEF DecodeValue, Inside, MapInv
  <1>3. CASE pc' = "rejected" /\ UNCHANGED <<z, m, result>>
    BY <1>2, <1>3, RejectKeeps
  <1>4. CASE /\ MapContext(z', 2 * i + 1, Marked(Marks)) /\ Marked(Marks) \in DecodeState
             /\ 2 * i + 1 <= wire.cut
             /\ result' = [result EXCEPT ![m] = Append(@, i)]
             /\ IF members[m].max = 1 THEN m' = m + 1 /\ pc' = "search"
                ELSE m' = m /\ pc' = "search"
    <2>1. MapMarks(Marked(Marks)) /\ CountedTo(2 * i + 1, Marked(Marks))
      BY <1>1, <1>2, MarkedMarks
    <2>2. 2 * i + 1 \in 1 .. 2 * Pairs + 1 /\ IsKeyOffset(2 * i + 1)
      <3>1. Pairs \in Nat
        BY <1>2
      <3>2. /\ i + 1 \in 1 .. Pairs + 1 /\ 2 * i + 1 = 2 * (i + 1) - 1
            /\ 2 * i + 1 \in 1 .. 2 * Pairs + 1
        BY <3>1
      <3> QED BY <3>2 DEF IsKeyOffset
    <2>3. pc' = "search" /\ m' \in 1 .. Len(members) + 1
      BY <1>2, <1>4
    <2>4. result' \in [DOMAIN members -> Seq(1 .. Pairs)]
      <3> DEFINE S == 1 .. Pairs
                 t == Append(result[m], i)
      <3>1. result[m] \in Seq(S) /\ i \in S /\ m \in DOMAIN members
        BY <1>2
      <3> HIDE DEF S
      <3>2. t \in Seq(S)
        BY <3>1
      <3>3. result' = [result EXCEPT ![m] = t] /\ result \in [DOMAIN members -> Seq(S)]
        BY <1>2, <1>4 DEF S
      <3> HIDE DEF t
      <3>4. result' \in [DOMAIN members -> Seq(S)]
        BY <3>1, <3>2, <3>3
      <3> QED BY <3>4 DEF S
    <2> QED BY <1>2, <1>4, <2>1, <2>2, <2>3, <2>4, StepKeeps
  <1> QED BY <1>1, <1>3, <1>4

LEMMA EndMapKeeps == ASSUME MapInv, EndMap PROVE MapInv'
  <1>1. /\ MapContext(z, z.state.payload, Marks) /\ MapMarks(Marks)
        /\ z.state.payload \in 1 .. 2 * Pairs + 1 /\ z.state.payload <= wire.cut
        /\ m = Len(members) + 1 /\ m \in 1 .. Len(members) + 1
        /\ from \in [payload : Nat, elem_count : Nat]
        /\ result \in [DOMAIN members -> Seq(1 .. Pairs)]
        /\ UNCHANGED <<schema, wire, z, m, from, result>>
        /\ pc' \in {"skip", "rejected"}
    BY InsideFacts DEF EndMap, Inside, Goto
  <1>2. CASE pc' = "rejected"
    BY <1>1, <1>2, RejectKeeps
  <1>3. CASE pc' = "skip"
    <2>1. UNCHANGED <<schema, wire>> /\ MapContext(z', z.state.payload, Marks)
      BY <1>1
    <2> QED BY <1>1, <1>3, <2>1, StepKeeps
  <1> QED BY <1>1, <1>2, <1>3

LEMMA SkipRestKeeps == ASSUME MapInv, SkipRest PROVE MapInv'
  <1> DEFINE p == z.state.payload
             r == AnySkip(z)
  <1>1. /\ <<schema, wire>> \in Cases /\ MapContext(z, p, Marks) /\ MapMarks(Marks)
        /\ p \in 1 .. 2 * Pairs + 1 /\ p <= wire.cut
        /\ m = Len(members) + 1 /\ m \in 1 .. Len(members) + 1
        /\ from \in [payload : Nat, elem_count : Nat]
        /\ result \in [DOMAIN members -> Seq(1 .. Pairs)]
        /\ UNCHANGED <<schema, wire, m, from, result>>
        /\ z' = r.z /\ pc' \in {"skip", "rejected"}
    BY InsideFacts DEF SkipRest, Inside, Goto, MapInv
  <1>2. /\ r.ok \in BOOLEAN
        /\ r.ok => /\ MapContext(r.z, p + 1, Marks)
                   /\ p + 1 \in 1 .. 2 * Pairs + 1 /\ p + 1 <= wire.cut
        /\ ~ r.ok => r.z = z
    BY <1>1, SkipEffect DEF MapMarks
  <1> HIDE DEF r, p
  <1>3. PICK q \in 1 .. 2 * Pairs + 1 : MapContext(z', q, Marks) /\ q <= wire.cut
    <2>1. CASE r.ok
      BY <1>1, <1>2, <2>1
    <2>2. CASE ~ r.ok
      BY <1>1, <1>2, <2>2
    <2> QED BY <1>2, <2>1, <2>2
  <1>4. CASE pc' = "rejected"
    <2>1. z' \in Context /\ z'.state.decode_state = Marks
      BY <1>3 DEF MapContext, StateAt
    <2> QED BY <1>1, <1>4, <2>1, MarksRange, ReturnKeeps
  <1>5. CASE pc' = "skip"
    <2>1. UNCHANGED <<schema, wire>>
      BY <1>1
    <2> DEFINE d == Marks
    <2>2. MapContext(z', q, d) /\ MapMarks(d)
      BY <1>1, <1>3
    <2> HIDE DEF d
    <2> QED BY <1>1, <1>3, <1>5, <2>1, <2>2, StepKeeps
  <1> QED BY <1>1, <1>4, <1>5

LEMMA CloseMapKeeps == ASSUME MapInv, CloseMap PROVE MapInv' /\ pc' = "accepted"
  <1> DEFINE p == z.state.payload
             r == ListMapEnd(z, AtBreak(z.state))
  <1>1. /\ <<schema, wire>> \in Cases /\ MapContext(z, p, Marks) /\ MapMarks(Marks)
        /\ p \in 1 .. 2 * Pairs + 1 /\ AtEnd(z.state)
        /\ m \in 1 .. Len(members) + 1 /\ Pairs \in Nat
        /\ UNCHANGED <<schema, wire, m, from, result>>
        /\ z' = r.z /\ pc' = (IF r.ok THEN "accepted" ELSE "rejected")
    BY InsideFacts DEF CloseMap, Inside, Goto
  <1>2. /\ r.ok = TRUE /\ r.z \in Context
        /\ r.z.state.decode_state.map_elem_count = 0
        /\ r.z.state.decode_state.map_elems_processed = 0
    BY <1>1, CloseEffect
  <1> HIDE DEF r, p
  <1>3. /\ z' \in Context /\ pc' = "accepted"
        /\ z'.state.decode_state.map_elem_count = 0
        /\ z'.state.decode_state.map_elems_processed = 0
    BY <1>1, <1>2
  <1>4. 0 \in 0 .. Pairs + (IF wire.cut < Total(wire) THEN 1 ELSE 0) /\ 0 \in 0 .. 0
    BY <1>1
  <1> QED BY <1>1, <1>3, <1>4, ReturnKeeps

(* The map as it is initially.                                             *)
LEMMA InitMapInv == Init => MapInv
  <1> SUFFICES ASSUME Init PROVE MapInv
    OBVIOUS
  <1>1. <<schema, wire>> \in Cases
    <2>1. PICK c \in Cases : schema = c[1] /\ wire = c[2]
      BY DEF Init
    <2>2. c = <<c[1], c[2]>>
      BY MapInputsAssumption
    <2> QED BY <2>1, <2>2
  <1>2. /\ wire.cut \in Nat /\ Pairs \in Nat /\ Len(members) \in Nat
        /\ DOMAIN members = 1 .. Len(members) /\ wire.cut <= Total(wire)
        /\ Total(wire) \in Nat
    BY <1>1, CaseFacts
  <1>3. /\ z = NewState(wire.cut, 1) /\ pc = "start" /\ m = 1
        /\ from = [payload |-> 0, elem_count |-> 0]
        /\ result = [i \in DOMAIN members |-> << >>]
    BY DEF Init
  <1>4. result \in [DOMAIN members -> Seq(1 .. Pairs)]
    <2> DEFINE S == 1 .. Pairs
    <2>1. << >> \in Seq(S)
      OBVIOUS
    <2> HIDE DEF S
    <2>2. result \in [DOMAIN members -> Seq(S)]
      BY <1>3, <2>1
    <2> QED BY <2>2 DEF S
  <1>5. /\ z \in Context /\ ds.map_elem_count = 0 /\ ds.map_elems_processed = 0
    <2>1. 1 \in 0 .. MaxElemCount
      BY MaxElemCountAssumption
    <2>2. z.state \in State /\ z.backup_list = << >>
      BY <1>2, <1>3, <2>1 DEF NewState, State, DecodeState
    <2>3. z \in Context
      BY <1>3, <2>2 DEF NewState, Context
    <2> QED BY <1>3, <2>3 DEF ds, NewState
  <1>6. TypeOK
    <2>1. 0 \in 0 .. Pairs + (IF wire.cut < Total(wire) THEN 1 ELSE 0) /\ 0 \in 0 .. 0
      BY <1>2
    <2>2. \A i \in DOMAIN result : \A j \in DOMAIN result[i] : FALSE
      <3>1. \A i \in DOMAIN result : result[i] = << >>
        BY <1>3
      <3>2. \A j \in DOMAIN << >> : FALSE
        OBVIOUS
      <3> QED BY <3>1, <3>2
    <2>3. m \in 1 .. Len(members) + 1 /\ from \in [payload : Nat, elem_count : Nat]
      BY <1>2, <1>3
    <2> QED BY <1>3, <1>5, <2>1, <2>2, <2>3 DEF TypeOK, Steps, Pairs
  <1> QED BY <1>1, <1>3, <1>4, <1>6 DEF MapInv, Inside

(* A step that changes nothing keeps MapInv.                               *)
LEMMA StutterMapInv == MapInv /\ UNCHANGED vars => MapInv'
  BY ZenonT(40)
     DEF vars, MapInv, TypeOK, ds, Pairs, Complete, Marks, Inside, CursorInv, MapContext,
         MapMarks, CountedTo, IsKeyOffset, FromAt, ValueAt, ElemsAt, StateAt, MapBackup,
         Total, members

(* MapInv is inductive, and every step obeys FailedSearchRestores.         *)
LEMMA MapInvStep == MapInv /\ [Next]_vars => MapInv' /\ (UNCHANGED vars \/ FailedSearchStep)
  <1> SUFFICES ASSUME MapInv, [Next]_vars
               PROVE  MapInv' /\ (UNCHANGED vars \/ FailedSearchStep)
    OBVIOUS
  <1>1. CASE StartMap
    BY <1>1, StartMapKeeps DEF StartMap, FailedSearchStep
  <1>2. CASE MemberFull
    BY <1>2, MemberFullKeeps DEF MemberFull, FailedSearchStep
  <1>3. CASE BeginSearch
    BY <1>3, BeginSearchKeeps DEF BeginSearch, FailedSearchStep
  <1>4. CASE ScanWraps
    BY <1>4, ScanWrapsKeeps
  <1>5. CASE KeyFound
    BY <1>5, KeyFoundKeeps DEF KeyFound, Goto, FailedSearchStep
  <1>6. CASE KeySkipped
    BY <1>6, KeySkippedKeeps
  <1>7. CASE DecodeValue
    BY <1>7, DecodeValueKeeps DEF DecodeValue, FailedSearchStep
  <1>8. CASE EndMap
    BY <1>8, EndMapKeeps DEF EndMap, FailedSearchStep
  <1>9. CASE SkipRest
    BY <1>9, SkipRestKeeps DEF SkipRest, FailedSearchStep
  <1>10. CASE CloseMap
    BY <1>10, CloseMapKeeps DEF CloseMap, FailedSearchStep
  <1>11. CASE UNCHANGED vars
    BY <1>11, StutterMapInv
  <1> QED BY <1>1, <1>2, <1>3, <1>4, <1>5, <1>6, <1>7, <1>8, <1>9, <1>10, <1>11 DEF Next

(* MapInv holds in every reachable state.                                  *)
LEMMA MapInvInvariant == Spec => []MapInv
  <1>1. MapInv /\ [Next]_vars => MapInv'
    BY MapInvStep
  <1> QED BY InitMapInv, <1>1, PTL DEF Spec

(* The state keeps its C types, and never counts more pairs than the       *)
(* message has or processes more than it counted, for every schema and     *)
(* every message, well formed, wrong or cut short.                         *)
THEOREM MapTypeCorrect == Spec => []TypeOK
  <1>1. MapInv => TypeOK
    BY DEF MapInv
  <1> QED BY MapInvInvariant, <1>1, PTL

(* MapInv has CursorAligned in it.                                         *)
LEMMA CursorInvAligned == MapInv => CursorAligned
  <1> SUFFICES ASSUME MapInv, pc \in {"search", "scan"} PROVE
        z.state.payload - 1 = CurrentMaxElemCount(z.state) - z.state.elem_count
    BY DEF CursorAligned
  <1> DEFINE p == z.state.payload
  <1>1. /\ MapContext(z, p, Marks) /\ MapMarks(Marks) /\ p \in 1 .. 2 * Pairs + 1
        /\ Pairs \in Nat /\ LargeElemCount \in Nat /\ wire.indefinite \in BOOLEAN
    BY InsideFacts, CaseFacts DEF Inside
  <1>2. z.state.elem_count = ElemsAt(p) /\ z.state.decode_state = Marks
    BY <1>1 DEF MapContext, StateAt
  <1> HIDE DEF p
  <1>3. CASE wire.indefinite
    <2>1. CurrentMaxElemCount(z.state) = LargeElemCount /\ ElemsAt(p) = LargeElemCount - (p - 1)
      BY <1>1, <1>2, <1>3 DEF CurrentMaxElemCount, ElemsAt, MapMarks
    <2>2. p - 1 = CurrentMaxElemCount(z.state) - z.state.elem_count
      BY <1>1, <1>2, <2>1
    <2> QED BY <2>2 DEF p
  <1>4. CASE ~ wire.indefinite
    <2>1. CurrentMaxElemCount(z.state) = 2 * Pairs /\ ElemsAt(p) = 2 * Pairs - (p - 1)
      BY <1>1, <1>2, <1>4 DEF CurrentMaxElemCount, ElemsAt, MapMarks
    <2>2. p - 1 = CurrentMaxElemCount(z.state) - z.state.elem_count
      BY <1>1, <1>2, <2>1
    <2> QED BY <2>2 DEF p
  <1> QED BY <1>3, <1>4

(* Wherever searches leave it, and in whatever form the map came, the      *)
(* element count and the payload pointer agree about the position.         *)
THEOREM CursorStaysAligned == Spec => []CursorAligned
  BY MapInvInvariant, CursorInvAligned, PTL

(* Every search that finds nothing, or fails, puts the cursor back where   *)
(* it began: the generated code goes on with the next member from there.   *)
THEOREM FailedSearchLeavesCursor == Spec => FailedSearchRestores
  <1>1. MapInv /\ [Next]_vars => [FailedSearchStep]_vars
    BY MapInvStep
  <1> QED BY MapInvInvariant, <1>1, PTL DEF Spec, FailedSearchRestores
=============================================================================

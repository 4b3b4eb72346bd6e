------------------------ MODULE EncodeDocument_proofs -----------------------
(***************************************************************************)
(* EncodeSession implements Document, for every number of backups, nesting *)
(* of constructs, size hint and section: whatever the encoder writes,      *)
(* moves, overwrites or rolls back, each of its calls is a step of the     *)
(* document.                                                               *)
(***************************************************************************)
EXTENDS EncodeSession_proofs, WellFoundedInduction

-----------------------------------------------------------------------------
(* The document of a session, by name.                                     *)

Levels ==
    IF mode # "run" /\ Standing = 0 THEN << >>
    ELSE [i \in 1 .. Standing + 1 |-> LevelOf(i - 1)]

Streamed ==
    IF BetweenItems \/ mode # "run" THEN [done |-> 0, left |-> -1]
    ELSE [done |-> fed, left |-> StringRemainder(z.state)]

Status == IF mode = "run" THEN "open" ELSE IF Standing = 0 THEN "failed" ELSE "failing"

Doc == INSTANCE Document WITH levels <- Levels, stream <- Streamed, status <- Status

(* The document of this module is the one that EncodeSession names.        *)
LEMMA SameDocument ==
    /\ Doc!Init => Document!Init
    /\ [Doc!Next]_(Doc!vars) => [Document!Next]_(Document!vars)
  <1>1. Doc!Init => Document!Init
    BY DEF Doc!Init, Document!Init, Doc!NewLevel, Document!NewLevel, Doc!NoString, Document!NoString, Levels, Streamed, Status
  <1>2. Doc!Next <=> Document!Next
    BY DEF Doc!Next, Doc!AddValue, Doc!AddTag, Doc!AddString, Doc!Open, Doc!CloseContainer,
           Doc!CloseBstr, Doc!CloseItem, Doc!Abandon, Doc!BeginString, Doc!Stream, Doc!EndString,
           Doc!Fail, Doc!DropItem, Doc!Add, Doc!Close, Doc!Between, Doc!With, Doc!Grown, Doc!NewLevel,
           Doc!NoString, Doc!Inner, Doc!Outer, Doc!Containers, Doc!Count, Doc!Items,
           Doc!Bytes, Doc!Header, Doc!Data, Doc!HeaderLen,
           Document!Next, Document!AddValue, Document!AddTag, Document!AddString, Document!Open, Document!CloseContainer,
           Document!CloseBstr, Document!CloseItem, Document!Abandon, Document!BeginString, Document!Stream, Document!EndString,
           Document!Fail, Document!DropItem, Document!Add, Document!Close, Document!Between, Document!With, Document!Grown, Document!NewLevel,
           Document!NoString, Document!Inner, Document!Outer, Document!Containers, Document!Count, Document!Items,
           Document!Bytes, Document!Header, Document!Data, Document!HeaderLen,
           Levels, Streamed, Status
  <1>3. UNCHANGED (Doc!vars) => UNCHANGED (Document!vars)
    BY DEF Doc!vars, Document!vars, Levels, Streamed, Status
  <1> QED BY <1>1, <1>2, <1>3

NoString == [done |-> 0, left |-> -1]

(* The steps of the document in these terms.                               *)
LEMMA AddStep ==
    ASSUME Status = "open", Streamed = NoString, Status' = "open", Streamed' = NoString,
           NEW n \in ValueLens,
           \/ Levels' = Doc!With(Levels, Bytes("value", n, n), 1)
           \/ Levels' = Doc!With(Levels, Bytes("tag", n, n), 0)
    PROVE  Doc!Next
  <1>1. Doc!Bytes("value", n, n) = Bytes("value", n, n)
    BY DEF Doc!Bytes, Bytes
  <1> QED BY <1>1 DEF Doc!Next, Doc!AddValue, Doc!AddTag, Doc!Add, Doc!Between,
         Doc!NoString, NoString, Doc!Bytes, Bytes

-----------------------------------------------------------------------------
(* Sequences and records.                                                  *)

(* Two sequences with the same elements are the same.                      *)
LEMMA SequencesEqual ==
    ASSUME NEW S, NEW a \in Seq(S), NEW b \in Seq(S), Len(a) = Len(b),
           \A i \in 1 .. Len(a) : a[i] = b[i]
    PROVE  a = b
  OBVIOUS

(* What stands where in the concatenation of two byte sequences.           *)
LEMMA Joined ==
    ASSUME NEW a \in Seq(Byte), NEW b \in Seq(Byte)
    PROVE  /\ a \o b \in Seq(Byte)
           /\ Len(a \o b) = Len(a) + Len(b)
           /\ \A i \in 1 .. Len(a) : (a \o b)[i] = a[i]
           /\ \A i \in 1 .. Len(b) : (a \o b)[Len(a) + i] = b[i]
  OBVIOUS

(* The levels of a document, as the session has them.                      *)
DocLevel ==
    [kind : {"list", "map", "document", "bstr", "item"}, items : Int, text : Seq(Byte)]

(* Two levels that agree in each field are the same.                       *)
LEMMA LevelsEqual ==
    ASSUME NEW a \in DocLevel, NEW b \in DocLevel,
           a.kind = b.kind, a.items = b.items, a.text = b.text
    PROVE  a = b
  BY DEF DocLevel

-----------------------------------------------------------------------------
(* The levels of a document, from a context c, the memory m behind the     *)
(* bytes s that were sent, and k of the frames fs, of which the innermost  *)
(* goes on to position to and has counted count elements.                  *)

At(s, m, p) == IF p < Len(s) THEN s[p + 1] ELSE m[p - Len(s)]

Stretch(s, m, from, to) == [i \in 1 .. to - from |-> At(s, m, from + i - 1)]

BodyAt(fs, i) ==
    IF i = 0 THEN 0
    ELSE fs[i].at + (IF fs[i].kind = "item" THEN 0 ELSE HeaderLen(fs[i].hint))

EndAt(fs, k, to, i) == IF i < k THEN fs[i + 1].at ELSE to

CountAt(c, k, count, i) == IF i < k THEN c.backup_list[i + 1].elem_count ELSE count

CountBefore(c, fs, i) ==
    IF i = 0 THEN 0
    ELSE IF fs[i].kind = "item" THEN c.backup_list[i].elem_count
    ELSE IF fs[i].kind \in Containers THEN 0 ELSE 1

KindAt(fs, i) ==
    IF i = 0 THEN "document"
    ELSE IF fs[i].kind = "cborfrag" THEN "bstr" ELSE fs[i].kind

LevelsOf(c, m, s, fs, k, to, count) ==
    [i \in 1 .. k + 1 |->
        [ kind  |-> KindAt(fs, i - 1),
          items |-> CountAt(c, k, count, i - 1) - CountBefore(c, fs, i - 1),
          text  |-> Stretch(s, m, BodyAt(fs, i - 1), EndAt(fs, k, to, i - 1)) ]]

(* What the frames and the memory must be for this to make sense.          *)
Readable(c, m, s, fs, k, to, count) ==
    /\ c \in Context /\ m \in Memory /\ s \in Seq(Byte) /\ fs \in Seq(Frame)
    /\ k \in Nat /\ k <= Len(fs) /\ k <= Len(c.backup_list)
    /\ to \in Nat /\ to <= Len(s) + MaxRoom
    /\ \A i \in 0 .. k : BodyAt(fs, i) <= to
    /\ \A i, j \in 0 .. k : i < j => BodyAt(fs, i) <= fs[j].at
    /\ count \in Int

(* A header has one to nine bytes.                                         *)
LEMMA HeaderLenType ==
    ASSUME NEW n \in Int
    PROVE  HeaderLen(n) \in 1 .. 9
  <1>1. n <= n
    OBVIOUS
  <1> QED BY <1>1, HeaderLenGrows

(* A construct's contents begin at or behind the construct itself.         *)
LEMMA BodyAtType ==
    ASSUME NEW fs \in Seq(Frame), NEW i \in 0 .. Len(fs)
    PROVE  BodyAt(fs, i) \in Nat /\ (i > 0 => fs[i].at \in Nat /\ fs[i].at <= BodyAt(fs, i))
  <1>1. CASE i = 0
    BY <1>1 DEF BodyAt
  <1>2. CASE i > 0
    <2>1. fs[i] \in Frame
      BY <1>2
    <2>2. fs[i].at \in Nat /\ HeaderLen(fs[i].hint) \in 1 .. 9
      <3>1. fs[i].at \in Nat /\ fs[i].hint \in Int
        BY <2>1 DEF Frame
      <3> QED BY <3>1, HeaderLenType
    <2>3. CASE fs[i].kind = "item"
      <3>1. BodyAt(fs, i) = fs[i].at + 0
        BY <1>2, <2>3 DEF BodyAt
      <3> QED BY <2>2, <3>1
    <2>4. CASE fs[i].kind # "item"
      <3>1. BodyAt(fs, i) = fs[i].at + HeaderLen(fs[i].hint)
        BY <1>2, <2>4 DEF BodyAt
      <3> QED BY <2>2, <3>1
    <2> QED BY <2>3, <2>4
  <1> QED BY <1>1, <1>2

(* The bytes between two positions of the document, and their number.      *)
LEMMA StretchType ==
    ASSUME NEW s \in Seq(Byte), NEW m \in Memory, NEW from \in Nat, NEW to \in Nat,
           from <= to, to <= Len(s) + MaxRoom
    PROVE  /\ Stretch(s, m, from, to) \in Seq(Byte)
           /\ Len(Stretch(s, m, from, to)) = to - from
           /\ \A i \in 1 .. to - from : Stretch(s, m, from, to)[i] = At(s, m, from + i - 1)
  <1>1. ASSUME NEW p \in Nat, p < to PROVE At(s, m, p) \in Byte
    <2>1. CASE p < Len(s)
      BY <2>1 DEF At
    <2>2. CASE ~ p < Len(s)
      <3>1. p - Len(s) \in Offsets
        BY <1>1, <2>2, EncodeInputsAssumption DEF Offsets
      <3>2. m[p - Len(s)] \in Byte
        BY <3>1 DEF Memory
      <3>3. At(s, m, p) = m[p - Len(s)]
        BY <2>2 DEF At
      <3> QED BY <3>2, <3>3
    <2> QED BY <2>1, <2>2
  <1>2. ASSUME NEW i \in 1 .. to - from PROVE At(s, m, from + i - 1) \in Byte
    <2>1. from + i - 1 \in Nat /\ from + i - 1 < to
      OBVIOUS
    <2> HIDE DEF At
    <2> QED BY <1>1, <2>1
  <1>3. to - from \in Nat
    OBVIOUS
  <1> QED BY <1>2, <1>3 DEF Stretch

(* What each level of a document is, field by field.                       *)
LEMMA LevelsOfType ==
    ASSUME NEW c, NEW m, NEW s, NEW fs, NEW k, NEW to, NEW count,
           Readable(c, m, s, fs, k, to, count)
    PROVE  LET L == LevelsOf(c, m, s, fs, k, to, count) IN
           /\ L \in Seq(DocLevel) /\ Len(L) = k + 1
           /\ \A i \in 0 .. k :
                /\ L[i + 1].kind = KindAt(fs, i)
                /\ L[i + 1].items = CountAt(c, k, count, i) - CountBefore(c, fs, i)
                /\ L[i + 1].text = Stretch(s, m, BodyAt(fs, i), EndAt(fs, k, to, i))
                /\ L[i + 1].text \in Seq(Byte)
  <1> DEFINE Item(i) ==
        [ kind  |-> KindAt(fs, i - 1),
          items |-> CountAt(c, k, count, i - 1) - CountBefore(c, fs, i - 1),
          text  |-> Stretch(s, m, BodyAt(fs, i - 1), EndAt(fs, k, to, i - 1)) ]
  <1>0. /\ c \in Context /\ m \in Memory /\ s \in Seq(Byte) /\ fs \in Seq(Frame)
        /\ k \in Nat /\ k <= Len(fs) /\ k <= Len(c.backup_list) /\ c.backup_list \in Seq(State)
        /\ to \in Nat /\ to <= Len(s) + MaxRoom
        /\ count \in Int
    BY ContextFields DEF Readable
  <1>1. ASSUME NEW i \in 0 .. k PROVE Item(i + 1) \in DocLevel
    <2>a. i # 0 => fs[i] \in Frame /\ c.backup_list[i] \in State
      BY <1>0
    <2>b. i < k => c.backup_list[i + 1] \in State
      BY <1>0
    <2>1. KindAt(fs, i) \in {"list", "map", "document", "bstr", "item"}
      <3>1. i # 0 => fs[i].kind \in Containers \cup {"bstr", "cborfrag", "item"}
        BY <2>a DEF Frame
      <3> QED BY <3>1 DEF KindAt, Containers
    <2>2. CountAt(c, k, count, i) \in Int
      <3>1. i < k => c.backup_list[i + 1].elem_count \in Int
        BY <2>b DEF State
      <3> QED BY <1>0, <3>1 DEF CountAt
    <2>3. CountBefore(c, fs, i) \in Int
      <3>1. i # 0 => c.backup_list[i].elem_count \in Int
        BY <2>a DEF State
      <3> QED BY <3>1 DEF CountBefore
    <2>4. BodyAt(fs, i) \in Nat
      BY <1>0, BodyAtType
    <2>5. /\ EndAt(fs, k, to, i) \in Nat /\ EndAt(fs, k, to, i) <= to
          /\ BodyAt(fs, i) <= EndAt(fs, k, to, i)
      <3>1. CASE i < k
        <4>1. i + 1 \in 1 .. k /\ i + 1 \in 0 .. Len(fs) /\ (i + 1) - 1 = i
          BY <1>0, <3>1
        <4>2. BodyAt(fs, i) <= fs[i + 1].at /\ BodyAt(fs, i + 1) <= to
          BY <1>0, <4>1 DEF Readable
        <4>3. BodyAt(fs, i + 1) \in Nat /\ fs[i + 1].at \in Nat /\ fs[i + 1].at <= BodyAt(fs, i + 1)
          BY <1>0, <4>1, BodyAtType
        <4>4. EndAt(fs, k, to, i) = fs[i + 1].at
          BY <3>1 DEF EndAt
        <4> QED BY <1>0, <4>2, <4>3, <4>4
      <3>2. CASE i = k
        <4>1. EndAt(fs, k, to, i) = to
          BY <1>0, <3>2 DEF EndAt
        <4>2. BodyAt(fs, k) <= to
          BY <1>0 DEF Readable
        <4> QED BY <1>0, <3>2, <4>1, <4>2
      <3> QED BY <1>0, <3>1, <3>2
    <2>6. Stretch(s, m, BodyAt(fs, i), EndAt(fs, k, to, i)) \in Seq(Byte)
      <3> DEFINE from == BodyAt(fs, i)
                 end == EndAt(fs, k, to, i)
      <3>1. from \in Nat /\ end \in Nat /\ from <= end /\ end <= Len(s) + MaxRoom
        BY <1>0, <2>4, <2>5, EncodeInputsAssumption
      <3> HIDE DEF from, end
      <3>2. Stretch(s, m, from, end) \in Seq(Byte)
        BY <1>0, <3>1, StretchType
      <3> QED BY <3>2 DEF from, end
    <2>7. CountAt(c, k, count, i) - CountBefore(c, fs, i) \in Int
      BY <2>2, <2>3
    <2>8. i + 1 - 1 = i
      OBVIOUS
    <2> QED BY <2>1, <2>6, <2>7, <2>8 DEF DocLevel
  <1>2. ASSUME NEW i \in 0 .. k
        PROVE  /\ Item(i + 1).kind = KindAt(fs, i)
               /\ Item(i + 1).items = CountAt(c, k, count, i) - CountBefore(c, fs, i)
               /\ Item(i + 1).text = Stretch(s, m, BodyAt(fs, i), EndAt(fs, k, to, i))
    <2>1. i + 1 - 1 = i
      OBVIOUS
    <2> QED BY <2>1
  <1>3. LevelsOf(c, m, s, fs, k, to, count) = [i \in 1 .. k + 1 |-> Item(i)]
    BY DEF LevelsOf
  <1> HIDE DEF Item
  <1>4. \A i \in 1 .. k + 1 : Item(i) \in DocLevel
    <2> SUFFICES ASSUME NEW i \in 1 .. k + 1 PROVE Item(i) \in DocLevel
      OBVIOUS
    <2>1. i - 1 \in 0 .. k /\ (i - 1) + 1 = i
      BY <1>0
    <2> QED BY <1>1, <2>1
  <1> DEFINE L == LevelsOf(c, m, s, fs, k, to, count)
  <1>5. L \in Seq(DocLevel) /\ Len(L) = k + 1 /\ \A i \in 1 .. k + 1 : L[i] = Item(i)
    BY <1>0, <1>3, <1>4
  <1> HIDE DEF L
  <1>6. ASSUME NEW i \in 0 .. k
        PROVE  /\ L[i + 1].kind = KindAt(fs, i)
               /\ L[i + 1].items = CountAt(c, k, count, i) - CountBefore(c, fs, i)
               /\ L[i + 1].text = Stretch(s, m, BodyAt(fs, i), EndAt(fs, k, to, i))
               /\ L[i + 1].text \in Seq(Byte)
    <2>1. L[i + 1] = Item(i + 1)
      BY <1>0, <1>5
    <2>2. L[i + 1] \in DocLevel
      BY <1>1, <2>1
    <2> QED BY <1>2, <2>1, <2>2 DEF DocLevel
  <1> QED BY <1>5, <1>6 DEF L

(* Two memories that hold the same before position p.                      *)
Agree(s, m, t, n, p) == \A q \in Nat : q < p => At(t, n, q) = At(s, m, q)

(* k frames and what was counted before them are the same.                 *)
Alike(c, fs, d, gs, k) ==
    \A i \in 1 .. k :
        gs[i] = fs[i] /\ d.backup_list[i].elem_count = c.backup_list[i].elem_count

(* Where the bytes agree a stretch of them is the same.                    *)
LEMMA StretchSame ==
    ASSUME NEW s, NEW m, NEW t, NEW n, NEW p, Agree(s, m, t, n, p),
           NEW from \in Nat, NEW to \in Nat, to <= p, p \in Nat
    PROVE  Stretch(t, n, from, to) = Stretch(s, m, from, to)
  <1>1. ASSUME NEW i \in 1 .. to - from
        PROVE  At(t, n, from + i - 1) = At(s, m, from + i - 1)
    <2>1. from + i - 1 \in Nat /\ from + i - 1 < p
      OBVIOUS
    <2> QED BY <2>1 DEF Agree
  <1> QED BY <1>1 DEF Stretch

(* The bytes from position p on are those of T.                            *)
Reads(s, m, p, T) == \A i \in 1 .. Len(T) : At(s, m, p + i - 1) = T[i]

(* What was written before and after position mid, joined.                 *)
LEMMA StretchJoined ==
    ASSUME NEW s \in Seq(Byte), NEW m \in Memory,
           NEW from \in Nat, NEW mid \in Nat, NEW to \in Nat,
           from <= mid, mid <= to, to <= Len(s) + MaxRoom,
           NEW T \in Seq(Byte), to = mid + Len(T),
           Reads(s, m, mid, T)
    PROVE  Stretch(s, m, from, to) = Stretch(s, m, from, mid) \o T
  <1> DEFINE A == Stretch(s, m, from, mid)
             B == Stretch(s, m, from, to)
  <1>0. Len(T) \in Nat /\ mid <= Len(s) + MaxRoom /\ from <= to
    BY EncodeInputsAssumption
  <1>1. /\ A \in Seq(Byte) /\ Len(A) = mid - from
        /\ \A i \in 1 .. mid - from : A[i] = At(s, m, from + i - 1)
    BY <1>0, StretchType
  <1>2. /\ B \in Seq(Byte) /\ Len(B) = to - from
        /\ \A i \in 1 .. to - from : B[i] = At(s, m, from + i - 1)
    BY <1>0, StretchType
  <1> HIDE DEF A, B
  <1>3. /\ A \o T \in Seq(Byte) /\ Len(A \o T) = Len(A) + Len(T)
        /\ \A i \in 1 .. Len(A) : (A \o T)[i] = A[i]
        /\ \A i \in 1 .. Len(T) : (A \o T)[Len(A) + i] = T[i]
    BY <1>1, Joined
  <1>4. ASSUME NEW i \in 1 .. Len(B) PROVE B[i] = (A \o T)[i]
    <2>1. CASE i <= mid - from
      <3>1. i \in 1 .. mid - from /\ i \in 1 .. to - from
        BY <1>0, <1>2, <2>1
      <3>2. A[i] = At(s, m, from + i - 1)
        BY <1>1, <3>1
      <3>3. B[i] = At(s, m, from + i - 1)
        BY <1>2, <3>1
      <3>4. (A \o T)[i] = A[i]
        BY <1>1, <1>3, <3>1
      <3> QED BY <3>2, <3>3, <3>4
    <2>2. CASE i > mid - from
      <3> DEFINE j == i - (mid - from)
      <3>1. j \in 1 .. Len(T) /\ i = Len(A) + j /\ mid + j - 1 = from + i - 1 /\ i \in 1 .. to - from
        BY <1>0, <1>1, <1>2, <2>2
      <3> HIDE DEF j
      <3>2. (A \o T)[i] = T[j]
        BY <1>3, <3>1
      <3>3. B[i] = At(s, m, mid + j - 1)
        <4>1. B[i] = At(s, m, from + i - 1)
          BY <1>2, <3>1
        <4> QED BY <3>1, <4>1
      <3>4. At(s, m, mid + j - 1) = T[j]
        BY <3>1 DEF Reads
      <3> QED BY <3>2, <3>3, <3>4
    <2>3. i <= mid - from \/ i > mid - from
      BY <1>0, <1>2
    <2> QED BY <2>1, <2>2, <2>3
  <1>5. Len(B) = Len(A \o T)
    BY <1>0, <1>1, <1>2, <1>3
  <1> QED BY <1>2, <1>3, <1>4, <1>5, SequencesEqual DEF A, B

(* A level below the innermost frame that two sessions share is the same.  *)
LEMMA LevelBelow ==
    ASSUME NEW c, NEW m, NEW s, NEW fs, NEW k, NEW to, NEW count,
           NEW d, NEW n, NEW t, NEW gs, NEW j, NEW end, NEW number,
           Readable(c, m, s, fs, k, to, count), Readable(d, n, t, gs, j, end, number),
           NEW h \in Nat, h <= k, h <= j, Alike(c, fs, d, gs, h),
           NEW p \in Nat, Agree(s, m, t, n, p),
           NEW i \in 0 .. h - 1, fs[i + 1].at <= p
    PROVE  LevelsOf(d, n, t, gs, j, end, number)[i + 1]
                = LevelsOf(c, m, s, fs, k, to, count)[i + 1]
  <1> DEFINE A == LevelsOf(c, m, s, fs, k, to, count)
             B == LevelsOf(d, n, t, gs, j, end, number)
  <1>0. k \in Nat /\ j \in Nat /\ k <= Len(fs) /\ fs \in Seq(Frame) /\ k <= Len(c.backup_list)
    BY DEF Readable
  <1>1. i \in 0 .. k /\ i \in 0 .. j /\ i + 1 \in 1 .. k + 1 /\ i + 1 \in 1 .. j + 1
        /\ i < k /\ i < j /\ i + 1 \in 1 .. h /\ (i # 0 => i \in 1 .. h) /\ i \in 0 .. Len(fs)
    BY <1>0
  <1>2. /\ A \in Seq(DocLevel) /\ Len(A) = k + 1
        /\ A[i + 1].kind = KindAt(fs, i)
        /\ A[i + 1].items = CountAt(c, k, count, i) - CountBefore(c, fs, i)
        /\ A[i + 1].text = Stretch(s, m, BodyAt(fs, i), EndAt(fs, k, to, i))
    BY <1>1, LevelsOfType
  <1>3. /\ B \in Seq(DocLevel) /\ Len(B) = j + 1
        /\ B[i + 1].kind = KindAt(gs, i)
        /\ B[i + 1].items = CountAt(d, j, number, i) - CountBefore(d, gs, i)
        /\ B[i + 1].text = Stretch(t, n, BodyAt(gs, i), EndAt(gs, j, end, i))
    BY <1>1, LevelsOfType
  <1> HIDE DEF A, B
  <1>4. /\ gs[i + 1] = fs[i + 1]
        /\ d.backup_list[i + 1].elem_count = c.backup_list[i + 1].elem_count
        /\ i # 0 => gs[i] = fs[i] /\ d.backup_list[i].elem_count = c.backup_list[i].elem_count
    BY <1>1 DEF Alike
  <1>5. KindAt(gs, i) = KindAt(fs, i) /\ BodyAt(gs, i) = BodyAt(fs, i)
        /\ CountBefore(d, gs, i) = CountBefore(c, fs, i)
    BY <1>4 DEF KindAt, BodyAt, CountBefore
  <1>6. CountAt(d, j, number, i) = CountAt(c, k, count, i)
    BY <1>1, <1>4 DEF CountAt
  <1>7. EndAt(gs, j, end, i) = fs[i + 1].at /\ EndAt(fs, k, to, i) = fs[i + 1].at
    BY <1>1, <1>4 DEF EndAt
  <1>8. BodyAt(fs, i) \in Nat /\ fs[i + 1].at \in Nat
    <2>1. fs[i + 1] \in Frame
      BY <1>0, <1>1
    <2> QED BY <1>0, <1>1, <2>1, BodyAtType DEF Frame
  <1>9. B[i + 1].text = A[i + 1].text
    <2> DEFINE from == BodyAt(fs, i)
               last == fs[i + 1].at
    <2>1. B[i + 1].text = Stretch(t, n, from, last) /\ A[i + 1].text = Stretch(s, m, from, last)
      BY <1>2, <1>3, <1>5, <1>7
    <2>2. from \in Nat /\ last \in Nat /\ last <= p
      BY <1>8
    <2> HIDE DEF from, last
    <2> QED BY <2>1, <2>2, StretchSame
  <1>10. B[i + 1] \in DocLevel /\ A[i + 1] \in DocLevel
    BY <1>1, <1>2, <1>3
  <1>11. B[i + 1].kind = A[i + 1].kind /\ B[i + 1].items = A[i + 1].items
    BY <1>2, <1>3, <1>5, <1>6
  <1>12. B[i + 1] = A[i + 1]
    BY <1>9, <1>10, <1>11, LevelsEqual
  <1> QED BY <1>12 DEF A, B

(* The levels of the outer frames, up to the header of frame h.            *)
LEMMA LevelsCut ==
    ASSUME NEW c, NEW m, NEW s, NEW fs, NEW k, NEW to, NEW count,
           Readable(c, m, s, fs, k, to, count), NEW h \in 1 .. k
    PROVE  /\ Readable(c, m, s, fs, h - 1, fs[h].at, c.backup_list[h].elem_count)
           /\ LevelsOf(c, m, s, fs, h - 1, fs[h].at, c.backup_list[h].elem_count)
                = SubSeq(LevelsOf(c, m, s, fs, k, to, count), 1, h)
  <1> DEFINE last == fs[h].at
             number == c.backup_list[h].elem_count
             A == LevelsOf(c, m, s, fs, k, to, count)
             B == LevelsOf(c, m, s, fs, h - 1, last, number)
  <1>0. /\ c \in Context /\ m \in Memory /\ s \in Seq(Byte) /\ fs \in Seq(Frame)
        /\ k \in Nat /\ k <= Len(fs) /\ k <= Len(c.backup_list) /\ c.backup_list \in Seq(State)
        /\ to \in Nat /\ to <= Len(s) + MaxRoom
        /\ \A i \in 0 .. k : BodyAt(fs, i) <= to
        /\ \A i, j \in 0 .. k : i < j => BodyAt(fs, i) <= fs[j].at
    BY ContextFields DEF Readable
  <1>1. last \in Nat /\ number \in Int
    <2>1. fs[h] \in Frame /\ c.backup_list[h] \in State
      BY <1>0
    <2> QED BY <2>1 DEF Frame, State
  <1>2. last <= BodyAt(fs, h) /\ BodyAt(fs, h) \in Nat /\ BodyAt(fs, h) <= to
    <2>1. h \in 0 .. Len(fs) /\ h > 0 /\ h \in 0 .. k
      BY <1>0
    <2> QED BY <1>0, <2>1, BodyAtType
  <1>3. \A i \in 0 .. h - 1 : BodyAt(fs, i) <= last
    BY <1>0
  <1>4. Readable(c, m, s, fs, h - 1, last, number)
    <2>1. last <= Len(s) + MaxRoom
      BY <1>0, <1>1, <1>2, EncodeInputsAssumption
    <2>2. h - 1 \in Nat /\ h - 1 <= Len(fs) /\ h - 1 <= Len(c.backup_list)
      BY <1>0
    <2>3. \A i, j \in 0 .. h - 1 : i < j => BodyAt(fs, i) <= fs[j].at
      BY <1>0
    <2> HIDE DEF last, number
    <2> QED BY <1>0, <1>1, <1>3, <2>1, <2>2, <2>3 DEF Readable
  <1>5. /\ A \in Seq(DocLevel) /\ Len(A) = k + 1
        /\ \A i \in 0 .. k :
                /\ A[i + 1].kind = KindAt(fs, i)
                /\ A[i + 1].items = CountAt(c, k, count, i) - CountBefore(c, fs, i)
                /\ A[i + 1].text = Stretch(s, m, BodyAt(fs, i), EndAt(fs, k, to, i))
    BY LevelsOfType
  <1>6. /\ B \in Seq(DocLevel) /\ Len(B) = h
        /\ \A i \in 0 .. h - 1 :
                /\ B[i + 1].kind = KindAt(fs, i)
                /\ B[i + 1].items = CountAt(c, h - 1, number, i) - CountBefore(c, fs, i)
                /\ B[i + 1].text = Stretch(s, m, BodyAt(fs, i), EndAt(fs, h - 1, last, i))
    <2> HIDE DEF last, number
    <2>1. h - 1 + 1 = h
      OBVIOUS
    <2> QED BY <1>4, <2>1, LevelsOfType
  <1>7. ASSUME NEW i \in 0 .. h - 1
        PROVE  /\ CountAt(c, h - 1, number, i) = CountAt(c, k, count, i)
               /\ EndAt(fs, h - 1, last, i) = EndAt(fs, k, to, i)
    <2>1. CASE i < h - 1
      BY <1>0, <2>1 DEF CountAt, EndAt
    <2>2. CASE i = h - 1
      <3>1. i + 1 = h /\ i < k /\ ~ i < h - 1
        BY <1>0, <2>2
      <3> QED BY <3>1 DEF CountAt, EndAt
    <2> QED BY <2>1, <2>2
  <1> HIDE DEF A, B, last, number
  <1>8. ASSUME NEW i \in 1 .. h PROVE B[i] = A[i]
    <2>1. i - 1 \in 0 .. h - 1 /\ i - 1 \in 0 .. k /\ i - 1 + 1 = i /\ i \in 1 .. k + 1
      BY <1>0
    <2>2. B[i].kind = A[i].kind /\ B[i].items = A[i].items /\ B[i].text = A[i].text
      BY <1>5, <1>6, <1>7, <2>1
    <2>3. B[i] \in DocLevel /\ A[i] \in DocLevel
      BY <1>5, <1>6, <2>1
    <2> QED BY <2>2, <2>3, LevelsEqual
  <1>9. B = SubSeq(A, 1, h)
    <2>1. h \in 0 .. Len(A)
      BY <1>0, <1>5
    <2>2. /\ SubSeq(A, 1, h) \in Seq(DocLevel) /\ Len(SubSeq(A, 1, h)) = h
          /\ \A i \in 1 .. h : SubSeq(A, 1, h)[i] = A[i]
      BY <1>5, <2>1, Prefix
    <2> QED BY <1>6, <1>8, <2>2, SequencesEqual
  <1> QED BY <1>4, <1>9 DEF A, B, last, number

(* The levels are the same while the bytes below the end are.              *)
LEMMA LevelsSame ==
    ASSUME NEW c, NEW m, NEW s, NEW fs, NEW k, NEW to, NEW count,
           NEW d, NEW n, NEW t, NEW gs,
           Readable(c, m, s, fs, k, to, count), Readable(d, n, t, gs, k, to, count),
           Alike(c, fs, d, gs, k), Agree(s, m, t, n, to)
    PROVE  LevelsOf(d, n, t, gs, k, to, count) = LevelsOf(c, m, s, fs, k, to, count)
  <1> DEFINE A == LevelsOf(c, m, s, fs, k, to, count)
             B == LevelsOf(d, n, t, gs, k, to, count)
  <1>0. /\ k \in Nat /\ to \in Nat /\ fs \in Seq(Frame) /\ k <= Len(fs)
        /\ \A i \in 0 .. k : BodyAt(fs, i) <= to
    BY DEF Readable
  <1>1. /\ A \in Seq(DocLevel) /\ Len(A) = k + 1
        /\ A[k + 1].kind = KindAt(fs, k)
        /\ A[k + 1].items = CountAt(c, k, count, k) - CountBefore(c, fs, k)
        /\ A[k + 1].text = Stretch(s, m, BodyAt(fs, k), EndAt(fs, k, to, k))
    BY <1>0, LevelsOfType
  <1>2. /\ B \in Seq(DocLevel) /\ Len(B) = k + 1
        /\ B[k + 1].kind = KindAt(gs, k)
        /\ B[k + 1].items = CountAt(d, k, count, k) - CountBefore(d, gs, k)
        /\ B[k + 1].text = Stretch(t, n, BodyAt(gs, k), EndAt(gs, k, to, k))
    BY <1>0, LevelsOfType
  <1>3. ASSUME NEW i \in 0 .. k - 1 PROVE B[i + 1] = A[i + 1]
    <2>1. i + 1 \in 0 .. Len(fs) /\ i + 1 > 0 /\ i + 1 \in 0 .. k
      BY <1>0
    <2>2. fs[i + 1].at \in Nat /\ fs[i + 1].at <= BodyAt(fs, i + 1) /\ BodyAt(fs, i + 1) \in Nat
      BY <1>0, <2>1, BodyAtType
    <2>3. fs[i + 1].at <= to
      BY <1>0, <2>1, <2>2
    <2>4. k <= k
      BY <1>0
    <2> HIDE DEF A, B
    <2> QED BY <1>0, <2>3, <2>4, LevelBelow DEF A, B
  <1> HIDE DEF A, B
  <1>4. k # 0 => gs[k] = fs[k] /\ d.backup_list[k].elem_count = c.backup_list[k].elem_count
    BY <1>0 DEF Alike
  <1>5. /\ KindAt(gs, k) = KindAt(fs, k) /\ BodyAt(gs, k) = BodyAt(fs, k)
        /\ CountBefore(d, gs, k) = CountBefore(c, fs, k)
        /\ CountAt(c, k, count, k) = count /\ CountAt(d, k, count, k) = count
        /\ EndAt(gs, k, to, k) = to /\ EndAt(fs, k, to, k) = to
    BY <1>0, <1>4 DEF KindAt, BodyAt, CountBefore, CountAt, EndAt
  <1>6. B[k + 1].text = A[k + 1].text
    <2> DEFINE from == BodyAt(fs, k)
    <2>1. from \in Nat /\ to <= to
      BY <1>0, BodyAtType
    <2>2. B[k + 1].text = Stretch(t, n, from, to) /\ A[k + 1].text = Stretch(s, m, from, to)
      BY <1>1, <1>2, <1>5
    <2> HIDE DEF from
    <2> QED BY <1>0, <2>1, <2>2, StretchSame
  <1>7. B[k + 1] = A[k + 1]
    <2>1. B[k + 1] \in DocLevel /\ A[k + 1] \in DocLevel
      BY <1>0, <1>1, <1>2
    <2>2. B[k + 1].kind = A[k + 1].kind /\ B[k + 1].items = A[k + 1].items
      BY <1>1, <1>2, <1>5
    <2> QED BY <1>6, <2>1, <2>2, LevelsEqual
  <1>8. ASSUME NEW i \in 1 .. k + 1 PROVE B[i] = A[i]
    <2>1. CASE i = k + 1
      BY <1>7, <2>1
    <2>2. CASE i # k + 1
      <3>1. i - 1 \in 0 .. k - 1 /\ i - 1 + 1 = i
        BY <1>0, <2>2
      <3> QED BY <1>3, <3>1
    <2> QED BY <2>1, <2>2
  <1>9. B = A
    BY <1>1, <1>2, <1>8, SequencesEqual
  <1> QED BY <1>9 DEF A, B

(* The innermost level gets the text T and items more items: With.         *)
LEMMA LevelsGrow ==
    ASSUME NEW c, NEW m, NEW s, NEW fs, NEW k, NEW mid, NEW count,
           NEW d, NEW n, NEW t, NEW gs, NEW to, NEW items \in Int,
           Readable(c, m, s, fs, k, mid, count), Readable(d, n, t, gs, k, to, count + items),
           Alike(c, fs, d, gs, k), Agree(s, m, t, n, mid),
           NEW T \in Seq(Byte), to = mid + Len(T),
           Reads(t, n, mid, T)
    PROVE  LevelsOf(d, n, t, gs, k, to, count + items)
                = Doc!With(LevelsOf(c, m, s, fs, k, mid, count), T, items)
  <1> DEFINE A == LevelsOf(c, m, s, fs, k, mid, count)
             B == LevelsOf(d, n, t, gs, k, to, count + items)
             W == Doc!With(A, T, items)
  <1>0. /\ k \in Nat /\ mid \in Nat /\ fs \in Seq(Frame) /\ k <= Len(fs)
        /\ n \in Memory /\ t \in Seq(Byte) /\ to \in Nat /\ to <= Len(t) + MaxRoom
        /\ count \in Int /\ Len(T) \in Nat
        /\ \A i \in 0 .. k : BodyAt(fs, i) <= mid
    BY DEF Readable
  <1>1. /\ A \in Seq(DocLevel) /\ Len(A) = k + 1
        /\ A[k + 1].kind = KindAt(fs, k)
        /\ A[k + 1].items = CountAt(c, k, count, k) - CountBefore(c, fs, k)
        /\ A[k + 1].text = Stretch(s, m, BodyAt(fs, k), EndAt(fs, k, mid, k))
        /\ A[k + 1].text \in Seq(Byte)
    BY <1>0, LevelsOfType
  <1>2. /\ B \in Seq(DocLevel) /\ Len(B) = k + 1
        /\ B[k + 1].kind = KindAt(gs, k)
        /\ B[k + 1].items = CountAt(d, k, count + items, k) - CountBefore(d, gs, k)
        /\ B[k + 1].text = Stretch(t, n, BodyAt(gs, k), EndAt(gs, k, to, k))
    BY <1>0, LevelsOfType
  <1>3. ASSUME NEW i \in 0 .. k - 1 PROVE B[i + 1] = A[i + 1]
    <2>1. i + 1 \in 0 .. Len(fs) /\ i + 1 > 0 /\ i + 1 \in 0 .. k
      BY <1>0
    <2>2. fs[i + 1].at \in Nat /\ fs[i + 1].at <= BodyAt(fs, i + 1) /\ BodyAt(fs, i + 1) \in Nat
      BY <1>0, <2>1, BodyAtType
    <2>3. fs[i + 1].at <= mid
      BY <1>0, <2>1, <2>2
    <2>4. k <= k
      BY <1>0
    <2> HIDE DEF A, B
    <2> QED BY <1>0, <2>3, <2>4, LevelBelow DEF A, B
  <1> HIDE DEF A, B
  <1>4. k # 0 => gs[k] = fs[k] /\ d.backup_list[k].elem_count = c.backup_list[k].elem_count
    BY <1>0 DEF Alike
  <1>5. /\ KindAt(gs, k) = KindAt(fs, k) /\ BodyAt(gs, k) = BodyAt(fs, k)
        /\ CountBefore(d, gs, k) = CountBefore(c, fs, k)
        /\ CountAt(c, k, count, k) = count /\ CountAt(d, k, count + items, k) = count + items
        /\ EndAt(gs, k, to, k) = to /\ EndAt(fs, k, mid, k) = mid
    BY <1>0, <1>4 DEF KindAt, BodyAt, CountBefore, CountAt, EndAt
  <1>6. B[k + 1].text = A[k + 1].text \o T
    <2> DEFINE from == BodyAt(fs, k)
    <2>1. from \in Nat /\ from <= mid /\ mid <= to /\ mid <= mid
      BY <1>0, BodyAtType
    <2>2. B[k + 1].text = Stretch(t, n, from, to) /\ A[k + 1].text = Stretch(s, m, from, mid)
      BY <1>1, <1>2, <1>5
    <2> HIDE DEF from
    <2>3. Stretch(t, n, from, mid) = Stretch(s, m, from, mid)
      BY <1>0, <2>1, StretchSame
    <2>4. Stretch(t, n, from, to) = Stretch(t, n, from, mid) \o T
      BY <1>0, <2>1, StretchJoined
    <2> QED BY <2>2, <2>3, <2>4
  <1>7. B[k + 1].items = A[k + 1].items + items
    <2>2. CountBefore(c, fs, k) \in Int
      <3>1. k # 0 => c.backup_list[k].elem_count \in Int
        <4>1. k # 0 => c.backup_list[k] \in State
          BY <1>0, ContextFields DEF Readable
        <4> QED BY <4>1 DEF State
      <3> QED BY <3>1 DEF CountBefore
    <2> QED BY <1>0, <1>1, <1>2, <1>5, <2>2
  <1>8. Doc!Grown(A[k + 1], T, items) = B[k + 1]
    <2>1. B[k + 1] \in DocLevel /\ A[k + 1] \in DocLevel
      BY <1>0, <1>1, <1>2
    <2> DEFINE G == Doc!Grown(A[k + 1], T, items)
    <2>2. G.kind = A[k + 1].kind /\ G.items = A[k + 1].items + items /\ G.text = A[k + 1].text \o T
      BY DEF Doc!Grown
    <2>3. G \in DocLevel
      <3>1. A[k + 1].kind \in {"list", "map", "document", "bstr", "item"} /\ A[k + 1].items \in Int
        BY <2>1 DEF DocLevel
      <3>2. A[k + 1].text \o T \in Seq(Byte)
        BY <1>1, Joined
      <3> QED BY <3>1, <3>2 DEF Doc!Grown, DocLevel
    <2>4. G.kind = B[k + 1].kind /\ G.items = B[k + 1].items /\ G.text = B[k + 1].text
      BY <1>1, <1>2, <1>5, <1>6, <1>7, <2>2
    <2> HIDE DEF G
    <2>5. G = B[k + 1]
      BY <2>1, <2>3, <2>4, LevelsEqual
    <2> QED BY <2>5 DEF G
  <1>9. W \in Seq(DocLevel) /\ Len(W) = k + 1 /\ W[k + 1] = B[k + 1]
        /\ \A i \in 1 .. k : W[i] = A[i]
    <2>1. W = [A EXCEPT ![k + 1] = B[k + 1]]
      BY <1>1, <1>8 DEF Doc!With
    <2>2. B[k + 1] \in DocLevel
      BY <1>0, <1>2
    <2> HIDE DEF W
    <2> QED BY <1>0, <1>1, <2>1, <2>2
  <1>10. ASSUME NEW i \in 1 .. k + 1 PROVE B[i] = W[i]
    <2>1. CASE i = k + 1
      BY <1>9, <2>1
    <2>2. CASE i # k + 1
      <3>1. i - 1 \in 0 .. k - 1 /\ i - 1 + 1 = i /\ i \in 1 .. k
        BY <1>0, <2>2
      <3>2. B[i] = A[i]
        BY <1>3, <3>1
      <3> QED BY <1>9, <3>1, <3>2
    <2> QED BY <2>1, <2>2
  <1> HIDE DEF W
  <1>11. B = W
    BY <1>2, <1>9, <1>10, SequencesEqual
  <1> QED BY <1>11 DEF A, B, W

(* A construct is opened: a level with nothing in it.                      *)
OneMore(c, m, s, fs, k, mid, count, d, n, t, gs, h, to, number) ==
    /\ h = k + 1
    /\ Readable(c, m, s, fs, k, mid, count)
    /\ Readable(d, n, t, gs, h, to, number)
    /\ Alike(c, fs, d, gs, k)
    /\ Agree(s, m, t, n, mid)
    /\ gs[h].at = mid
    /\ BodyAt(gs, h) = to
    /\ d.backup_list[h].elem_count = count
    /\ number = CountBefore(d, gs, h)

(* With one more frame there is one more level, and it is empty.           *)
LEMMA LevelsOpen ==
    ASSUME NEW c, NEW m, NEW s, NEW fs, NEW k, NEW mid, NEW count,
           NEW d, NEW n, NEW t, NEW gs, NEW to, NEW number, NEW h,
           OneMore(c, m, s, fs, k, mid, count, d, n, t, gs, h, to, number)
    PROVE  LevelsOf(d, n, t, gs, h, to, number)
                = Append(LevelsOf(c, m, s, fs, k, mid, count), Doc!NewLevel(KindAt(gs, h)))
  <1> DEFINE A == LevelsOf(c, m, s, fs, k, mid, count)
             B == LevelsOf(d, n, t, gs, h, to, number)
             N == Doc!NewLevel(KindAt(gs, h))
  <1>a. /\ h = k + 1
        /\ Readable(c, m, s, fs, k, mid, count) /\ Readable(d, n, t, gs, h, to, number)
        /\ Alike(c, fs, d, gs, k) /\ Agree(s, m, t, n, mid)
        /\ gs[h].at = mid /\ BodyAt(gs, h) = to
        /\ d.backup_list[h].elem_count = count /\ number = CountBefore(d, gs, h)
    BY DEF OneMore
  <1>0. k \in Nat /\ h \in Nat /\ h = k + 1 /\ to \in Nat /\ gs \in Seq(Frame) /\ h <= Len(gs) /\ number \in Int
        /\ n \in Memory /\ t \in Seq(Byte) /\ to <= Len(t) + MaxRoom
    BY <1>a DEF Readable
  <1>1. SubSeq(B, 1, h) = A
    <2>1. h \in 1 .. h /\ h - 1 = k /\ Readable(d, n, t, gs, h, to, number)
          /\ gs[h].at = mid /\ d.backup_list[h].elem_count = count
          /\ B = LevelsOf(d, n, t, gs, h, to, number)
      BY <1>0, <1>a
    <2> HIDE DEF B
    <2>2. /\ Readable(d, n, t, gs, h - 1, gs[h].at, d.backup_list[h].elem_count)
          /\ LevelsOf(d, n, t, gs, h - 1, gs[h].at, d.backup_list[h].elem_count)
                = SubSeq(LevelsOf(d, n, t, gs, h, to, number), 1, h)
      BY <2>1, LevelsCut
    <2>3. /\ Readable(d, n, t, gs, k, mid, count)
          /\ LevelsOf(d, n, t, gs, k, mid, count) = SubSeq(B, 1, h)
      BY <2>1, <2>2
    <2>4. LevelsOf(d, n, t, gs, k, mid, count) = LevelsOf(c, m, s, fs, k, mid, count)
      <3>1. Readable(d, n, t, gs, k, mid, count)
        BY <2>3
      <3> QED BY ONLY <1>a, <3>1, LevelsSame
    <2> QED BY <2>3, <2>4
  <1>2. A \in Seq(DocLevel) /\ Len(A) = h
    BY <1>a, LevelsOfType
  <1>3. /\ B \in Seq(DocLevel) /\ Len(B) = h + 1
        /\ B[h + 1].kind = KindAt(gs, h)
        /\ B[h + 1].items = CountAt(d, h, number, h) - CountBefore(d, gs, h)
        /\ B[h + 1].text = Stretch(t, n, BodyAt(gs, h), EndAt(gs, h, to, h))
    <2>1. h \in 0 .. h
      BY <1>0
    <2> QED BY <1>a, <2>1, LevelsOfType
  <1>4. B[h + 1] = N
    <2>1. CountAt(d, h, number, h) = number /\ EndAt(gs, h, to, h) = to
      BY <1>0, <1>a DEF CountAt, EndAt
    <2>2. B[h + 1].items = 0
      BY <1>0, <1>3, <1>a, <2>1
    <2>3. B[h + 1].text = Stretch(t, n, to, to)
      BY <1>3, <1>a, <2>1
    <2>4. B[h + 1].text = << >>
      <3>1. Stretch(t, n, to, to) \in Seq(Byte) /\ Len(Stretch(t, n, to, to)) = to - to
        BY <1>0, StretchType
      <3> QED BY <1>0, <2>3, <3>1
    <2>5. B[h + 1] \in DocLevel
      BY <1>0, <1>3
    <2>6. N.kind = KindAt(gs, h) /\ N.items = 0 /\ N.text = << >>
      BY DEF Doc!NewLevel
    <2>7. N \in DocLevel
      <3>1. KindAt(gs, h) \in {"list", "map", "document", "bstr", "item"}
        BY <1>3, <2>5 DEF DocLevel
      <3> QED BY <3>1 DEF Doc!NewLevel, DocLevel
    <2> HIDE DEF N, B
    <2> QED BY <1>3, <2>2, <2>4, <2>5, <2>6, <2>7, LevelsEqual
  <1> HIDE DEF A, B, N
  <1>5. B = Append(A, N)
    <2>1. N \in DocLevel
      BY <1>0, <1>3, <1>4
    <2>2. Append(A, N) \in Seq(DocLevel) /\ Len(Append(A, N)) = h + 1
          /\ Append(A, N)[h + 1] = N /\ \A i \in 1 .. h : Append(A, N)[i] = A[i]
      BY <1>0, <1>2, <2>1
    <2>3. ASSUME NEW i \in 1 .. h + 1 PROVE B[i] = Append(A, N)[i]
      <3>1. CASE i = h + 1
        BY <1>4, <2>2, <3>1
      <3>2. CASE i # h + 1
        <4>1. i \in 1 .. h /\ h \in 0 .. Len(B)
          BY <1>0, <1>3, <3>2
        <4>2. SubSeq(B, 1, h)[i] = B[i]
          BY <1>3, <4>1, Prefix
        <4> QED BY <1>1, <2>2, <4>1, <4>2
      <3> QED BY <3>1, <3>2
    <2> QED BY <1>3, <2>2, <2>3, SequencesEqual
  <1> QED BY <1>5 DEF A, B, N

-----------------------------------------------------------------------------
(* What a call writes, and where.                                          *)

(* n is m with the bytes T at offset at, and anything behind them.         *)
Put(m, n, at, T) ==
    /\ n \in Memory
    /\ \A i \in Offsets : i < at => n[i] = m[i]
    /\ \A j \in 1 .. Len(T) : n[at + j - 1] = T[j]

SameCbor(s, t) ==
    /\ t.frag_offset_cbor = s.frag_offset_cbor
    /\ t.str_total_len_cbor = s.str_total_len_cbor

(* d is c after len bytes and items elements.                              *)
Counts(c, d, len, items) ==
    /\ Same(c, d)
    /\ d.state.payload = c.state.payload + len
    /\ d.state.elem_count = c.state.elem_count + items
    /\ SameCbor(c.state, d.state)
    /\ d.state.inside_frag_str = c.state.inside_frag_str

Writes(c, m, d, n, T, items) ==
    /\ T \in Seq(Byte)
    /\ Counts(c, d, Len(T), items)
    /\ Put(m, n, c.state.payload, T)

(* memcpy puts its bytes at the offset and leaves the ones in front of it. *)
LEMMA WriteGives ==
    ASSUME NEW m \in Memory, NEW at \in Nat, NEW bytes \in Seq(Byte),
           at + Len(bytes) <= MaxRoom
    PROVE  Put(m, Write(m, at, bytes), at, bytes)
  <1> DEFINE n == Write(m, at, bytes)
  <1>0. Len(bytes) \in Nat /\ MaxRoom \in Nat
    BY EncodeInputsAssumption
  <1>1. n \in Memory
    BY <1>0, WriteEffect DEF Inside
  <1>2. ASSUME NEW i \in Offsets, i < at PROVE n[i] = m[i]
    <2>1. i \in Int /\ i \notin at .. at + Len(bytes) - 1
      BY <1>2, EncodeInputsAssumption DEF Offsets
    <2> QED BY <2>1 DEF Write, Memory
  <1>3. ASSUME NEW j \in 1 .. Len(bytes) PROVE n[at + j - 1] = bytes[j]
    <2> DEFINE i == at + j - 1
    <2>1. i \in Offsets /\ i \in at .. at + Len(bytes) - 1 /\ i - at + 1 = j
      BY <1>0, EncodeInputsAssumption DEF Offsets
    <2> HIDE DEF i
    <2>2. n[i] = bytes[i - at + 1]
      BY <2>1 DEF Write, Memory
    <2> QED BY <2>1, <2>2 DEF i
  <1> QED BY <1>1, <1>2, <1>3 DEF Put

(* memmove of overlapping ranges: the target holds what the source held    *)
(* before.                                                                 *)
LEMMA MoveGives ==
    ASSUME NEW m \in Memory, NEW to \in Nat, NEW from \in Nat, NEW len \in Nat,
           to + len <= MaxRoom, from + len <= MaxRoom
    PROVE  /\ Move(m, to, from, len) \in Memory
           /\ \A i \in Offsets : i < to => Move(m, to, from, len)[i] = m[i]
           /\ \A j \in 1 .. len : Move(m, to, from, len)[to + j - 1] = m[from + j - 1]
  <1> DEFINE n == Move(m, to, from, len)
  <1>0. MaxRoom \in Nat
    BY EncodeInputsAssumption
  <1>1. n \in Memory
    BY <1>0, MoveEffect DEF Inside
  <1>2. ASSUME NEW i \in Offsets, i < to PROVE n[i] = m[i]
    <2>1. i \in Int /\ i \notin to .. to + len - 1
      BY <1>2, EncodeInputsAssumption DEF Offsets
    <2> QED BY <2>1 DEF Move, Memory
  <1>3. ASSUME NEW j \in 1 .. len PROVE n[to + j - 1] = m[from + j - 1]
    <2> DEFINE i == to + j - 1
    <2>1. i \in Offsets /\ i \in to .. to + len - 1 /\ i - to + from = from + j - 1
      BY <1>0, EncodeInputsAssumption DEF Offsets
    <2> HIDE DEF i
    <2>2. n[i] = m[i - to + from]
      BY <2>1 DEF Move, Memory
    <2> QED BY <2>1, <2>2 DEF i
  <1> QED BY <1>1, <1>2, <1>3

(* o is m with len bytes from offset from on copied to offset to.          *)
Copies(m, o, to, from, len) ==
    /\ o \in Memory
    /\ \A i \in Offsets : i < to => o[i] = m[i]
    /\ \A j \in 1 .. len : o[to + j - 1] = m[from + j - 1]

(* The same in the form the encoders' lemmas use.                          *)
LEMMA MoveCopies ==
    ASSUME NEW m \in Memory, NEW to \in Nat, NEW from \in Nat, NEW len \in Nat,
           to + len <= MaxRoom, from + len <= MaxRoom
    PROVE  Copies(m, Move(m, to, from, len), to, from, len)
  BY MoveGives DEF Copies

(* Two writes one behind the other are one write of both texts.            *)
LEMMA PutBoth ==
    ASSUME NEW m \in Memory, NEW n, NEW o, NEW at \in Nat,
           NEW T \in Seq(Byte), NEW U \in Seq(Byte),
           Put(m, n, at, T), Put(n, o, at + Len(T), U), at + Len(T) <= MaxRoom
    PROVE  Put(m, o, at, T \o U)
  <1>0. /\ Len(T) \in Nat /\ Len(U) \in Nat /\ MaxRoom \in Nat /\ Slack \in Nat
        /\ Len(T \o U) = Len(T) + Len(U)
        /\ \A i \in 1 .. Len(T) : (T \o U)[i] = T[i]
        /\ \A i \in 1 .. Len(U) : (T \o U)[Len(T) + i] = U[i]
    BY Joined, EncodeInputsAssumption
  <1>1. \A i \in Offsets : i < at => o[i] = m[i]
    <2> SUFFICES ASSUME NEW i \in Offsets, i < at PROVE o[i] = m[i]
      OBVIOUS
    <2>1. i \in Int /\ i < at + Len(T)
      BY <1>0 DEF Offsets
    <2> QED BY <2>1 DEF Put
  <1>2. ASSUME NEW j \in 1 .. Len(T \o U) PROVE o[at + j - 1] = (T \o U)[j]
    <2>1. CASE j <= Len(T)
      <3> DEFINE i == at + j - 1
      <3>1. i \in Offsets /\ i < at + Len(T) /\ j \in 1 .. Len(T)
        BY <1>0, <2>1 DEF Offsets
      <3>2. n[i] = T[j]
        BY <3>1 DEF Put
      <3> HIDE DEF i
      <3>3. o[i] = n[i]
        BY <3>1 DEF Put
      <3>4. o[i] = (T \o U)[j]
        BY <1>0, <3>1, <3>2, <3>3
      <3> QED BY <3>4 DEF i
    <2>2. CASE j > Len(T)
      <3> DEFINE l == j - Len(T)
      <3>1. l \in 1 .. Len(U) /\ j = Len(T) + l /\ at + Len(T) + l - 1 = at + j - 1
        BY <1>0, <2>2
      <3> HIDE DEF l
      <3>2. o[at + Len(T) + l - 1] = U[l]
        BY <3>1 DEF Put
      <3>3. (T \o U)[j] = U[l]
        BY <1>0, <3>1
      <3> QED BY <3>1, <3>2, <3>3
    <2>3. j <= Len(T) \/ j > Len(T)
      BY <1>0
    <2> QED BY <2>1, <2>2, <2>3
  <1> QED BY <1>1, <1>2 DEF Put

(* The same in positions of the document.                                  *)
LEMMA PutLogical ==
    ASSUME NEW s \in Seq(Byte), NEW m \in Memory, NEW n, NEW at \in Nat, NEW T \in Seq(Byte),
           Put(m, n, at, T), at <= MaxRoom
    PROVE  Agree(s, m, s, n, Len(s) + at) /\ Reads(s, n, Len(s) + at, T)
  <1>0. Len(s) \in Nat /\ Len(T) \in Nat /\ MaxRoom \in Nat /\ Slack \in Nat
    BY EncodeInputsAssumption
  <1>1. ASSUME NEW q \in Nat, q < Len(s) + at PROVE At(s, n, q) = At(s, m, q)
    <2>1. CASE q < Len(s)
      BY <2>1 DEF At
    <2>2. CASE ~ q < Len(s)
      <3>1. q - Len(s) \in Offsets /\ q - Len(s) < at
        BY <1>0, <1>1, <2>2 DEF Offsets
      <3>2. n[q - Len(s)] = m[q - Len(s)]
        BY <3>1 DEF Put
      <3> QED BY <2>2, <3>2 DEF At
    <2> QED BY <2>1, <2>2
  <1>2. ASSUME NEW j \in 1 .. Len(T) PROVE At(s, n, Len(s) + at + j - 1) = T[j]
    <2> DEFINE p == Len(s) + at + j - 1
    <2>1. ~ p < Len(s) /\ p - Len(s) = at + j - 1
      BY <1>0
    <2> HIDE DEF p
    <2>2. At(s, n, p) = n[at + j - 1]
      BY <2>1 DEF At
    <2>3. n[at + j - 1] = T[j]
      BY DEF Put
    <2> QED BY <2>2, <2>3 DEF p
  <1> QED BY <1>1, <1>2 DEF Agree, Reads

(* Two changes of the context's counters add up.                           *)
LEMMA CountsBoth ==
    ASSUME NEW c \in Context, NEW d, NEW e, NEW len \in Nat, NEW more \in Nat,
           NEW items \in Int, NEW others \in Int,
           Counts(c, d, len, items), Counts(d, e, more, others)
    PROVE  Counts(c, e, len + more, items + others)
  <1>1. c.state.payload \in Nat /\ c.state.elem_count \in Nat
    BY ContextFields DEF State
  <1> QED BY <1>1 DEF Counts, Same, SameCbor

(* Two calls that write one behind the other write both texts.             *)
LEMMA WritesBoth ==
    ASSUME NEW c \in Context, NEW m \in Memory, NEW d, NEW n, NEW e, NEW o,
           NEW T, NEW U, NEW items \in Int, NEW others \in Int,
           Writes(c, m, d, n, T, items), Writes(d, n, e, o, U, others),
           d.state.payload <= MaxRoom
    PROVE  Writes(c, m, e, o, T \o U, items + others)
  <1>1. T \in Seq(Byte) /\ U \in Seq(Byte) /\ Len(T) \in Nat /\ Len(U) \in Nat
        /\ c.state.payload \in Nat
    BY ContextFields DEF Writes, State
  <1>2. T \o U \in Seq(Byte) /\ Len(T \o U) = Len(T) + Len(U)
    BY <1>1, Joined
  <1>3. Counts(c, e, Len(T) + Len(U), items + others)
    BY <1>1, CountsBoth DEF Writes
  <1>4. d.state.payload = c.state.payload + Len(T)
    BY DEF Writes, Counts
  <1>5. Put(m, o, c.state.payload, T \o U)
    <2> DEFINE at == c.state.payload
    <2>1. Put(m, n, at, T) /\ Put(n, o, at + Len(T), U) /\ at + Len(T) <= MaxRoom /\ at \in Nat
      BY <1>1, <1>4 DEF Writes
    <2> HIDE DEF at
    <2>2. Put(m, o, at, T \o U)
      BY <1>1, <2>1, PutBoth
    <2> QED BY <2>2 DEF at
  <1> QED BY <1>2, <1>3, <1>5 DEF Writes

-----------------------------------------------------------------------------
(* What the functions of zcbor_encode.c write.                             *)

(* Setting elem_count alone counts the difference and writes nothing.      *)
LEMMA ElemSet ==
    ASSUME NEW c \in Context, NEW n \in 0 .. MaxElemCount
    PROVE  LET d == [c EXCEPT !.state.elem_count = n] IN
           /\ Counts(c, d, 0, n - c.state.elem_count)
  <1> DEFINE s == [c.state EXCEPT !.elem_count = n]
             d == [c EXCEPT !.state = s]
  <1>1. c.state \in State /\ c.state.elem_count \in Nat /\ c.state.payload \in Nat
    BY ContextFields DEF State
  <1>2. /\ s \in State /\ s.payload = c.state.payload /\ s.elem_count = n
        /\ s.frag_offset_cbor = c.state.frag_offset_cbor
        /\ s.str_total_len_cbor = c.state.str_total_len_cbor
        /\ s.inside_frag_str = c.state.inside_frag_str
    BY <1>1 DEF State
  <1>3. d = [c EXCEPT !.state.elem_count = n]
    OBVIOUS
  <1> HIDE DEF s
  <1>4. Same(c, d) /\ d.state = s
    BY <1>2, SetState
  <1>5. s.elem_count = c.state.elem_count + (n - c.state.elem_count)
    BY <1>1, <1>2
  <1> HIDE DEF d
  <1>6. Counts(c, d, 0, n - c.state.elem_count)
    BY <1>1, <1>2, <1>4, <1>5 DEF Counts, SameCbor
  <1> QED BY <1>3, <1>6

(* elem_count goes up or down by one unless it would wrap.                 *)
LEMMA CountedOnce ==
    ASSUME NEW c \in Context
    PROVE  /\ c.state.elem_count < MaxElemCount => Counts(c, Counted(c), 0, 1)
           /\ c.state.elem_count > 0 => Counts(c, Uncounted(c), 0, -1)
  <1> DEFINE n == c.state.elem_count
  <1>1. n \in 0 .. MaxElemCount
    BY ContextFields DEF State
  <1>2. ASSUME n < MaxElemCount PROVE Counts(c, Counted(c), 0, 1)
    <2> DEFINE k == n + 1
    <2>1. Incremented(n) = n + 1 /\ k \in 0 .. MaxElemCount /\ k - n = 1
      BY <1>1, <1>2, MaxElemCountAssumption DEF Incremented
    <2>2. Counted(c) = [c EXCEPT !.state.elem_count = k]
      BY <2>1 DEF Counted
    <2> HIDE DEF k
    <2>3. Counts(c, [c EXCEPT !.state.elem_count = k], 0, k - n)
      BY <2>1, ElemSet
    <2> QED BY <2>1, <2>2, <2>3
  <1>3. ASSUME n > 0 PROVE Counts(c, Uncounted(c), 0, -1)
    <2> DEFINE k == n - 1
    <2>1. Decremented(n) = n - 1 /\ k \in 0 .. MaxElemCount /\ k - n = -1
      BY <1>1, <1>3, MaxElemCountAssumption DEF Decremented
    <2>2. Uncounted(c) = [c EXCEPT !.state.elem_count = k]
      BY <2>1 DEF Uncounted
    <2> HIDE DEF k
    <2>3. Counts(c, [c EXCEPT !.state.elem_count = k], 0, k - n)
      BY <2>1, ElemSet
    <2> QED BY <2>1, <2>2, <2>3
  <1> QED BY <1>2, <1>3

(* Moving the payload pointer on counts no element.                        *)
LEMMA AdvancedCounts ==
    ASSUME NEW c \in Context, NEW len \in Nat
    PROVE  Counts(c, Advanced(c, len), len, 0)
  <1> DEFINE s == [c.state EXCEPT !.payload = c.state.payload + len]
             d == [c EXCEPT !.state = s]
  <1>1. c.state \in State /\ c.state.elem_count \in Nat /\ c.state.payload \in Nat
    BY ContextFields DEF State
  <1>2. /\ s \in State /\ s.payload = c.state.payload + len
        /\ s.elem_count = c.state.elem_count
        /\ s.frag_offset_cbor = c.state.frag_offset_cbor
        /\ s.str_total_len_cbor = c.state.str_total_len_cbor
        /\ s.inside_frag_str = c.state.inside_frag_str
    BY <1>1 DEF State
  <1>3. d = Advanced(c, len)
    BY DEF Advanced
  <1> HIDE DEF s
  <1>4. Same(c, d) /\ d.state = s
    BY <1>2, SetState
  <1> HIDE DEF d
  <1>5. Counts(c, d, len, 0)
    BY <1>1, <1>2, <1>4 DEF Counts, SameCbor
  <1> QED BY <1>3, <1>5

(* One value: its bytes, and one element.                                  *)
LEMMA ValueEncodeLenWrites ==
    ASSUME NEW c \in Context, NEW m \in Memory, NEW kind \in Kinds, NEW arg \in Nat,
           NEW len \in Nat, c.state.elem_count < MaxElemCount, c.state.payload_end <= MaxRoom
    PROVE  LET r == ValueEncodeLen(c, m, kind, arg, len) IN
           r.ok => Writes(c, m, r.z, r.mem, Bytes(kind, arg, len), 1)
  <1> DEFINE r == ValueEncodeLen(c, m, kind, arg, len)
             after == c.state.payload + len
             bytes == Bytes(kind, arg, len)
             a == Advanced(c, len)
             d == Counted(a)
             n == Write(m, c.state.payload, bytes)
  <1>1. /\ c.state.payload \in Nat /\ c.state.payload_end \in Nat /\ MaxRoom \in Nat
        /\ c.state.elem_count \in Nat
    BY ContextFields, EncodeInputsAssumption DEF State
  <1>2. SUFFICES ASSUME r.ok PROVE Writes(c, m, r.z, r.mem, bytes, 1)
    OBVIOUS
  <1>3. after <= c.state.payload_end /\ ~ c.state.inside_frag_str
    <2> HIDE DEF r
    <2> QED BY <1>2, ValueEncodeLenEffect DEF r
  <1>4. r.z = d /\ r.mem = n
    <2>1. ~ (after > c.state.payload_end)
      BY <1>1, <1>3
    <2> QED BY <1>3, <2>1 DEF ValueEncodeLen, Wrote
  <1>5. bytes \in Seq(Byte) /\ Len(bytes) = len
    BY BytesType
  <1> HIDE DEF r, bytes
  <1>6. Counts(c, a, len, 0)
    BY AdvancedCounts
  <1>7. Counts(a, d, 0, 1)
    <2>1. a \in Context /\ a.state.elem_count = c.state.elem_count
      BY <1>1, <1>6 DEF Counts, Same
    <2> HIDE DEF a
    <2> QED BY <2>1, CountedOnce
  <1> HIDE DEF a, d
  <1>8. Counts(c, d, len, 1)
    <2>1. Counts(c, d, len + 0, 0 + 1)
      BY <1>6, <1>7, CountsBoth
    <2> QED BY <2>1
  <1>9. Put(m, n, c.state.payload, bytes)
    BY <1>1, <1>3, <1>5, WriteGives
  <1> QED BY <1>4, <1>5, <1>8, <1>9 DEF Writes

(* A header that is encoded is written whole and counts as one element.    *)
LEMMA HeaderWrites ==
    ASSUME NEW c \in Context, NEW m \in Memory, NEW kind \in Kinds, NEW arg \in Nat,
           c.state.elem_count < MaxElemCount, c.state.payload_end <= MaxRoom
    PROVE  LET r == ValueEncode(c, m, kind, arg) IN
           /\ r.ok => Writes(c, m, r.z, r.mem, Header(kind, arg), 1)
           /\ Header(kind, arg) \in Seq(Byte) /\ Len(Header(kind, arg)) = HeaderLen(arg)
  <1>1. HeaderLen(arg) \in Nat
    BY HeaderLenType
  <1> QED BY <1>1, ValueEncodeLenWrites, BytesType DEF ValueEncode, Header

(* A tag: its bytes, and no element.                                       *)
LEMMA TagEncodeWrites ==
    ASSUME NEW c \in Context, NEW m \in Memory, NEW arg \in Nat, NEW len \in Nat,
           c.state.elem_count < MaxElemCount, c.state.payload_end <= MaxRoom
    PROVE  LET r == TagEncode(c, m, arg, len) IN
           r.ok => Writes(c, m, r.z, r.mem, Bytes("tag", arg, len), 0)
  <1> DEFINE r == TagEncode(c, m, arg, len)
             v == ValueEncodeLen(c, m, "tag", arg, len)
             u == Uncounted(v.z)
  <1>1. SUFFICES ASSUME r.ok PROVE Writes(c, m, r.z, r.mem, Bytes("tag", arg, len), 0)
    OBVIOUS
  <1>2. v.ok /\ r.z = u /\ r.mem = v.mem
    <2>1. v.ok
      <3> SUFFICES ASSUME ~ v.ok PROVE FALSE
        OBVIOUS
      <3>1. r = v
        BY DEF TagEncode
      <3> QED BY <1>1, <3>1
    <2> HIDE DEF v
    <2> QED BY <2>1 DEF TagEncode, v, Wrote
  <1>3. Writes(c, m, v.z, v.mem, Bytes("tag", arg, len), 1)
    <2>1. "tag" \in Kinds
      BY DEF Kinds
    <2> QED BY <1>2, <2>1, ValueEncodeLenWrites
  <1> HIDE DEF r, v
  <1>4. Counts(v.z, u, 0, -1)
    <2>1. v.z \in Context /\ v.z.state.elem_count = c.state.elem_count + 1
      BY <1>3 DEF Writes, Counts, Same
    <2>2. c.state.elem_count \in Nat
      BY ContextFields DEF State
    <2> QED BY <2>1, <2>2, CountedOnce
  <1> HIDE DEF u
  <1>5. Counts(c, u, Len(Bytes("tag", arg, len)), 0)
    <2> DEFINE l == Len(Bytes("tag", arg, len))
    <2>1. l \in Nat /\ Counts(c, v.z, l, 1)
      BY <1>3 DEF Writes
    <2> HIDE DEF l
    <2>2. Counts(c, u, l + 0, 1 + -1)
      BY <1>4, <2>1, CountsBoth
    <2>3. Counts(c, u, l, 0)
      BY <2>1, <2>2
    <2> QED BY <2>3 DEF l
  <1> QED BY <1>2, <1>3, <1>5 DEF Writes

(* What memory m holds from offset from on.                                *)
Copied(m, from, len) == [i \in 1 .. len |-> m[from + i - 1]]

(* The bytes that are copied out of the payload section.                   *)
LEMMA CopiedType ==
    ASSUME NEW m \in Memory, NEW from \in Nat, NEW len \in Nat, from + len <= MaxRoom
    PROVE  /\ Copied(m, from, len) \in Seq(Byte) /\ Len(Copied(m, from, len)) = len
           /\ \A i \in 1 .. len : Copied(m, from, len)[i] = m[from + i - 1]
  <1>1. ASSUME NEW i \in 1 .. len PROVE m[from + i - 1] \in Byte
    <2>1. from + i - 1 \in Offsets
      BY EncodeInputsAssumption DEF Offsets
    <2> QED BY <2>1 DEF Memory
  <1> QED BY <1>1 DEF Copied


(* A string: its header, and its contents behind it, wherever these were.  *)
LEMMA StrEncodeWrites ==
    ASSUME NEW c \in Context, NEW m \in Memory, NEW kind \in Kinds, NEW len \in Nat,
           NEW from, NEW U,
           c.state.elem_count < MaxElemCount, c.state.payload_end <= MaxRoom,
           \/ from = Elsewhere /\ U = Data(0, len)
           \/ /\ from \in Nat /\ from + len <= MaxRoom /\ U = Copied(m, from, len)
              /\ c.state.payload + HeaderLen(len) <= from
    PROVE  LET r == StrEncode(c, m, kind, len, from) IN
           /\ r.ok \in BOOLEAN
           /\ r.ok => Writes(c, m, r.z, r.mem, Header(kind, len) \o U, 1)
           /\ r.ok => HeaderLen(len) + len <= Room(c.state)
           /\ ~ r.ok => r.z = c /\ r.mem = m
  <1> DEFINE r == StrEncode(c, m, kind, len, from)
             h == HeaderLen(len)
             v == ValueEncode(c, m, kind, len)
             to == v.z.state.payload
             d == Advanced(v.z, len)
             n == IF from = Elsewhere THEN Write(v.mem, to, Data(0, len))
                  ELSE Move(v.mem, to, from, len)
             full == \/ Room(c.state) <= 0
                     \/ len > Room(c.state) \/ h + len > Room(c.state)
  <1>0. /\ c.state.payload \in Nat /\ c.state.payload_end \in Nat /\ MaxRoom \in Nat
        /\ h \in 1 .. 9 /\ h \in Nat
    BY ContextFields, EncodeInputsAssumption, HeaderLenType, SMTT(30) DEF State
  <1>1. /\ v.ok \in BOOLEAN
        /\ v.ok => Inside(m, v.mem, c.state.payload + h)
        /\ ~ v.ok => v.z = c /\ v.mem = m
    BY <1>0, ValueEncodeLenEffect DEF ValueEncode
  <1>2. v.ok => Writes(c, m, v.z, v.mem, Header(kind, len), 1)
    BY HeaderWrites
  <1>3. /\ full => r = Stopped(c, m, "NO_PAYLOAD")
        /\ ~ full /\ ~ v.ok => r = v
        /\ ~ full /\ v.ok => r = Wrote(d, n)
    BY DEF StrEncode
  <1>4. full \in BOOLEAN
    OBVIOUS
  <1> HIDE DEF r, v, d, n, full
  <1>5. /\ r.ok \in BOOLEAN
        /\ ~ r.ok => r.z = c /\ r.mem = m
        /\ r.ok => ~ full /\ v.ok /\ r.z = d /\ r.mem = n
    <2>1. ASSUME full PROVE r.ok = FALSE /\ r.z = c /\ r.mem = m
      <3>1. r = Stopped(c, m, "NO_PAYLOAD")
        BY <1>3, <2>1
      <3> QED BY <3>1 DEF Stopped
    <2>2. ASSUME ~ full, ~ v.ok PROVE r.ok = FALSE /\ r.z = c /\ r.mem = m
      BY <1>1, <1>3, <2>2
    <2>3. ASSUME ~ full, v.ok PROVE r.ok = TRUE /\ r.z = d /\ r.mem = n
      <3>1. r = Wrote(d, n)
        BY <1>3, <2>3
      <3> QED BY <3>1 DEF Wrote
    <2> QED BY <1>1, <1>4, <2>1, <2>2, <2>3
  <1>6. ASSUME ~ full PROVE h + len <= Room(c.state)
    <2>1. ~ (h + len > Room(c.state))
      BY <1>6 DEF full
    <2> QED BY <1>0, <2>1 DEF Room
  <1>7. ASSUME ~ full, v.ok PROVE Writes(c, m, d, n, Header(kind, len) \o U, 1)
    <2>1. /\ v.z \in Context /\ v.mem \in Memory
          /\ to = c.state.payload + h
          /\ to + len <= MaxRoom /\ to \in Nat
      <3> HIDE DEF h
      <3>1. Len(Header(kind, len)) = h /\ Writes(c, m, v.z, v.mem, Header(kind, len), 1)
        BY <1>2, <1>7, HeaderWrites DEF h
      <3>2. v.z \in Context /\ to = c.state.payload + h /\ v.mem \in Memory
        BY <3>1 DEF Writes, Counts, Same, Put
      <3> QED BY <1>0, <1>6, <1>7, <3>2 DEF Room
    <2>2. Counts(v.z, d, len, 0)
      BY <2>1, AdvancedCounts DEF d
    <2>3. U \in Seq(Byte) /\ Len(U) = len /\ Put(v.mem, n, to, U)
      <3>1. CASE from = Elsewhere /\ U = Data(0, len)
        <4>1. U \in Seq(Byte) /\ Len(U) = len
          BY <3>1, DataType
        <4>2. n = Write(v.mem, to, U)
          BY <3>1 DEF n
        <4> QED BY <2>1, <4>1, <4>2, WriteGives
      <3>2. CASE /\ from \in Nat /\ from + len <= MaxRoom /\ U = Copied(m, from, len)
                 /\ c.state.payload + HeaderLen(len) <= from
        <4>1. /\ U \in Seq(Byte) /\ Len(U) = len
              /\ \A i \in 1 .. len : U[i] = m[from + i - 1]
          BY <3>2, CopiedType
        <4>2. n = Move(v.mem, to, from, len)
          BY <3>2 DEF n, Elsewhere
        <4>3. /\ n \in Memory
              /\ \A i \in Offsets : i < to => n[i] = v.mem[i]
              /\ \A j \in 1 .. len : n[to + j - 1] = v.mem[from + j - 1]
          <5> DEFINE old == v.mem
                     o == Move(old, to, from, len)
          <5>1. /\ old \in Memory /\ n = o /\ to \in Nat /\ from \in Nat
                /\ to + len <= MaxRoom /\ from + len <= MaxRoom
            BY <2>1, <3>2, <4>2
          <5> HIDE DEF to, old
          <5>2. /\ o \in Memory
                /\ \A i \in Offsets : i < to => o[i] = old[i]
                /\ \A j \in 1 .. len : o[to + j - 1] = old[from + j - 1]
            BY ONLY <5>1, len \in Nat, MoveGives, ZenonT(40)
          <5> HIDE DEF o
          <5> QED BY <5>1, <5>2 DEF old
        <4>4. ASSUME NEW j \in 1 .. len PROVE v.mem[from + j - 1] = m[from + j - 1]
          <5> DEFINE q == from + j - 1
          <5>1. q \in Offsets /\ q >= c.state.payload + h
            BY <1>0, <3>2, EncodeInputsAssumption DEF Offsets
          <5> HIDE DEF q
          <5>2. v.mem[q] = m[q]
            BY <1>1, <1>7, <5>1 DEF Inside
          <5> QED BY <5>2 DEF q
        <4> QED BY <4>1, <4>3, <4>4 DEF Put
      <3> QED BY <3>1, <3>2
    <2>4. Writes(v.z, v.mem, d, n, U, 0)
      BY <2>2, <2>3 DEF Writes
    <2>5. v.z.state.payload <= MaxRoom
      BY <1>0, <2>1
    <2>6. Writes(c, m, d, n, Header(kind, len) \o U, 1 + 0)
      <3>1. Writes(c, m, v.z, v.mem, Header(kind, len), 1)
        BY <1>2, <1>7
      <3> QED BY <2>4, <2>5, <3>1, WritesBoth
    <2> QED BY <2>6
  <1> QED BY <1>5, <1>6, <1>7 DEF r


HeaderSteps(n, h) ==
    /\ h \in {1, 2, 3, 5, 9}
    /\ h > 1 <=> n > InHeader
    /\ h > 2 <=> n > InOneByte
    /\ h > 3 <=> n > InTwoBytes
    /\ h > 5 <=> n > InFourBytes

(* The lengths of a header, at each threshold of its argument.             *)
LEMMA HeaderLenSteps ==
    ASSUME NEW n \in Int
    PROVE  HeaderSteps(n, HeaderLen(n))
  BY ThresholdsAssumption DEF HeaderLen, HeaderSteps

(* A string that fits with its header has none that is longer than the     *)
(* dummy: at the end of a byte string what was encoded moves down, if at   *)
(* all.                                                                    *)
LEMMA DummyHeaderLongest ==
    ASSUME NEW left \in Nat, NEW len \in Nat, HeaderLen(len) + len <= left,
           len <= left - HeaderLen(RemainingStrLen(left))
    PROVE  HeaderLen(len) <= HeaderLen(RemainingStrLen(left))
  <1> DEFINE max_header_len == HeaderLen(left)
             min_header_len == HeaderLen(left - max_header_len)
             header_len     == HeaderLen(left - min_header_len)
             dummy == RemainingStrLen(left)
  <1>1. left # 0 /\ max_header_len \in 1 .. 9 /\ min_header_len \in 1 .. 9 /\ header_len \in 1 .. 9
        /\ HeaderLen(len) \in 1 .. 9
    <2>1. HeaderLen(len) \in 1 .. 9 /\ max_header_len \in 1 .. 9
      BY HeaderLenType
    <2> HIDE DEF max_header_len
    <2>2. min_header_len \in 1 .. 9
      BY <2>1, HeaderLenType
    <2> HIDE DEF min_header_len
    <2>3. header_len \in 1 .. 9
      BY <2>2, HeaderLenType
    <2> QED BY <2>1, <2>2, <2>3
  <1>2. dummy = left - header_len
    BY <1>1 DEF RemainingStrLen
  <1> HIDE DEF dummy
  <1>3. dummy \in Int
    BY <1>1, <1>2
  <1>4. CASE len <= dummy
    BY <1>3, <1>4, HeaderLenGrows DEF dummy
  <1>5. CASE len > dummy
    <2> DEFINE x == HeaderLen(len)
               y == HeaderLen(dummy)
    <2>1. min_header_len <= y /\ y \in Int
      <3>1. header_len <= max_header_len
        <4>1. left - min_header_len <= left /\ left - min_header_len \in Int
          BY <1>1
        <4> HIDE DEF min_header_len
        <4> QED BY <4>1, HeaderLenGrows
      <3>2. left - max_header_len <= dummy /\ left - max_header_len \in Int
        BY <1>1, <1>2, <3>1
      <3> HIDE DEF max_header_len, header_len
      <3>3. y \in 1 .. 9
        BY <1>3, HeaderLenType
      <3> QED BY <1>3, <3>2, <3>3, HeaderLenGrows
    <2>2. x < header_len
      BY <1>1, <1>2, <1>5
    <2>3. /\ HeaderSteps(len, x) /\ HeaderSteps(dummy, y)
          /\ HeaderSteps(left - min_header_len, header_len)
          /\ HeaderSteps(left, max_header_len)
          /\ HeaderSteps(left - max_header_len, min_header_len)
      <3>1. left - min_header_len \in Int /\ left - max_header_len \in Int
        BY <1>1
      <3>2. HeaderSteps(left, max_header_len)
        BY HeaderLenSteps
      <3> HIDE DEF max_header_len
      <3>3. HeaderSteps(left - max_header_len, min_header_len)
        BY <3>1, HeaderLenSteps
      <3> HIDE DEF min_header_len
      <3> QED BY <1>3, <3>1, <3>2, <3>3, HeaderLenSteps
    <2>4. dummy = left - header_len /\ left \in Nat /\ len \in Nat /\ len > dummy
      BY <1>2, <1>5
    <2> HIDE DEF x, y, header_len, min_header_len, max_header_len
    <2>5. x <= y
      BY ONLY <2>1, <2>2, <2>3, <2>4, ThresholdsAssumption, Z3 DEF HeaderSteps
    <2> QED BY <2>5 DEF x, y, dummy
  <1>6. len <= dummy \/ len > dummy
    BY <1>3
  <1> QED BY <1>4, <1>5, <1>6

(* A call that closes the innermost construct from where it was opened:    *)
(* what was written there is replaced by T.                                *)
Replaces(c, m, d, n, T, items) ==
    /\ ~ Top(c.backup_list).payload_moved
    /\ T \in Seq(Byte)
    /\ Pulled(c, d)
    /\ d.state.payload = Top(c.backup_list).payload + Len(T)
    /\ d.state.elem_count = Top(c.backup_list).elem_count + items
    /\ SameCbor(Top(c.backup_list), d.state)
    /\ d.state.inside_frag_str = Top(c.backup_list).inside_frag_str
    /\ Put(m, n, Top(c.backup_list).payload, T)

(* What is written from a backup that was restored replaces what was       *)
(* encoded since it was made.                                              *)
LEMMA WritesReplaces ==
    ASSUME NEW c \in Context, NEW m, NEW e, NEW d, NEW n, NEW T, NEW items,
           Pulled(c, e), e.state = Top(c.backup_list), Writes(e, m, d, n, T, items),
           ~ Top(c.backup_list).payload_moved
    PROVE  Replaces(c, m, d, n, T, items)
  BY DEF Pulled, Writes, Counts, Same, Replaces

(* n holds the same as m in front of offset at.                            *)
Behind(m, n, at) == n \in Memory /\ \A i \in Offsets : i < at => n[i] = m[i]

(* zcbor_bstr_end_encode replaces the dummy header by the one of the real  *)
(* length, with the contents behind it; when it fails the bytes are as     *)
(* they were.                                                              *)
LEMMA BstrEndWrites ==
    ASSUME NEW c \in Context, NEW m \in Memory, c.backup_list # << >>,
           NEW b, b = Top(c.backup_list), NEW value,
           value = b.payload + HeaderLen(RemainingStrLen(Room(b))),
           b.elem_count < MaxElemCount, b.payload_end <= MaxRoom,
           value <= c.state.payload, c.state.payload <= b.payload_end
    PROVE  LET r == BstrEndEncode(c, m)
               len == c.state.payload - value IN
           /\ r.ok => Replaces(c, m, r.z, r.mem, Header("bstr", len) \o Copied(m, value, len), 1)
           /\ ~ r.ok => r.mem = m
  <1> DEFINE r == BstrEndEncode(c, m)
             len == c.state.payload - value
             p == ProcessBackup(c, {"RESTORE", "CONSUME"})
             e == p.z
             v == StrEncode(e, m, "bstr", len, value)
             U == Copied(m, value, len)
             left == Room(b)
             h == HeaderLen(len)
  <1>1. /\ p.ok \in BOOLEAN
        /\ p.ok => Pulled(c, e) /\ e.state = b /\ ~ b.payload_moved
        /\ ~ p.ok => e = c
    BY RollBackEffect
  <1>2. /\ b \in State /\ b.payload \in Nat /\ b.payload_end \in Nat /\ c.state.payload \in Nat
        /\ MaxRoom \in Nat /\ left \in Int
    <2>1. b \in State
      BY ContextFields DEF Top
    <2>2. b.payload \in Nat /\ b.payload_end \in Nat /\ c.state.payload \in Nat
      BY <2>1, ContextFields DEF State
    <2>3. left \in Int
      BY <2>2 DEF Room
    <2> QED BY <2>1, <2>2, <2>3, EncodeInputsAssumption
  <1>3. HeaderLen(RemainingStrLen(left)) \in 1 .. 9 /\ value \in Nat /\ len \in Nat
        /\ value + len = c.state.payload /\ left \in Nat
        /\ len <= left - HeaderLen(RemainingStrLen(left)) /\ h \in 1 .. 9
    <2>1. RemainingStrLen(left) \in Int
      <3> DEFINE a == HeaderLen(left)
                 min == HeaderLen(left - a)
                 last == HeaderLen(left - min)
      <3>1. a \in Int
        BY <1>2, HeaderLenType
      <3> HIDE DEF a
      <3>2. min \in Int
        BY <1>2, <3>1, HeaderLenType
      <3> HIDE DEF min
      <3>3. last \in Int
        BY <1>2, <3>2, HeaderLenType
      <3>4. RemainingStrLen(left) = 0 \/ RemainingStrLen(left) = left - last
        BY DEF RemainingStrLen, a, min
      <3> HIDE DEF last
      <3> QED BY <1>2, <3>3, <3>4
    <2>2. HeaderLen(RemainingStrLen(left)) \in 1 .. 9
      BY <2>1, HeaderLenType
    <2> DEFINE dummy == HeaderLen(RemainingStrLen(left))
    <2>3. value = b.payload + dummy /\ left = b.payload_end - b.payload
      BY DEF Room
    <2>4. dummy \in 1 .. 9
      BY <2>2
    <2> HIDE DEF dummy, left
    <2>5. value \in Nat /\ len \in Nat /\ value + len = c.state.payload /\ left \in Nat
          /\ len <= left - dummy
      <3> DEFINE first == b.payload
                 end   == b.payload_end
                 here  == c.state.payload
      <3>1. /\ first \in Nat /\ end \in Nat /\ here \in Nat /\ dummy \in 1 .. 9
            /\ value = first + dummy /\ left = end - first
            /\ value <= here /\ here <= end /\ len = here - value
        BY <1>2, <2>3, <2>4
      <3> HIDE DEF first, end, here, len
      <3>2. value \in Nat /\ len \in Nat /\ value + len = here /\ left \in Nat
            /\ len <= left - dummy
        BY ONLY <3>1
      <3> QED BY <3>2 DEF here
    <2>6. h \in 1 .. 9
      BY <2>5, HeaderLenType
    <2> QED BY <2>2, <2>5, <2>6 DEF dummy
  <1>4. ASSUME ~ p.ok PROVE r.ok = FALSE /\ r.mem = m
    <2>1. r = Keeping(p, m)
      BY <1>4 DEF BstrEndEncode
    <2> QED BY <1>1, <1>4, <2>1 DEF Keeping
  <1>5. ASSUME p.ok
        PROVE  /\ r.ok \in BOOLEAN
               /\ r.ok => Writes(e, m, r.z, r.mem, Header("bstr", len) \o U, 1)
               /\ ~ r.ok => r.mem = m
    <2>1. e \in Context /\ e.state = b
      BY <1>1, <1>5 DEF Pulled
    <2>2. r = v
      BY <1>5, <2>1 DEF BstrEndEncode
    <2>3. CASE h <= HeaderLen(RemainingStrLen(left))
      <3>1. "bstr" \in Kinds /\ value + len <= MaxRoom
        <4> DEFINE here == c.state.payload
                   end  == b.payload_end
        <4>1. here \in Nat /\ end \in Nat /\ MaxRoom \in Nat /\ end <= MaxRoom
              /\ here <= end /\ value + len = here
          BY <1>2, <1>3
        <4> HIDE DEF here, end, len
        <4>2. value + len <= MaxRoom
          BY ONLY <4>1
        <4> QED BY <4>2 DEF Kinds
      <3>2. e.state.payload + HeaderLen(len) <= value
        <4> DEFINE dummy == HeaderLen(RemainingStrLen(left))
        <4>1. value = b.payload + dummy
          OBVIOUS
        <4>2. h <= dummy /\ e.state.payload = b.payload /\ dummy \in 1 .. 9 /\ h \in 1 .. 9
          BY <1>3, <2>1, <2>3
        <4> HIDE DEF dummy
        <4> QED BY <1>2, <4>1, <4>2, SMTT(30)
      <3>3. e.state.elem_count < MaxElemCount /\ e.state.payload_end <= MaxRoom
        BY <2>1
      <3>4. value \in Nat /\ len \in Nat
        BY <1>3
      <3> HIDE DEF e, len
      <3>5. /\ v.ok \in BOOLEAN
            /\ v.ok => Writes(e, m, v.z, v.mem, Header("bstr", len) \o U, 1)
            /\ ~ v.ok => v.mem = m
        <4>1. \/ value = Elsewhere /\ U = Data(0, len)
              \/ /\ value \in Nat /\ value + len <= MaxRoom /\ U = Copied(m, value, len)
                 /\ e.state.payload + HeaderLen(len) <= value
          BY <3>1, <3>2, <3>4
        <4>2. e \in Context /\ m \in Memory /\ "bstr" \in Kinds /\ len \in Nat
              /\ e.state.elem_count < MaxElemCount /\ e.state.payload_end <= MaxRoom
          BY <2>1, <3>1, <3>3, <3>4
        <4> HIDE DEF U, v
        <4>3. v = StrEncode(e, m, "bstr", len, value)
          BY DEF v
        <4> QED BY ONLY <4>1, <4>2, <4>3, StrEncodeWrites
      <3> HIDE DEF v, r, U
      <3> QED BY <2>2, <3>5
    <2>4. CASE h > HeaderLen(RemainingStrLen(left))
      <3>1. h + len > left
        <4>1. ~ (h <= HeaderLen(RemainingStrLen(left)))
          BY <1>3, <2>4, SMTT(30)
        <4> HIDE DEF left, len
        <4>2. ~ (h + len <= left)
          BY <1>3, <4>1, DummyHeaderLongest
        <4> QED BY <1>3, <4>2
      <3>2. v = Stopped(e, m, "NO_PAYLOAD")
        <4>1. left = Room(e.state)
          BY <2>1
        <4> HIDE DEF left, len, e
        <4> QED BY <3>1, <4>1 DEF StrEncode
      <3> HIDE DEF v, r
      <3>3. r.ok = FALSE /\ r.mem = m
        BY <2>2, <3>2 DEF Stopped
      <3> QED BY <3>3
    <2> QED BY <1>3, <2>3, <2>4, SMTT(30)
  <1>6. ASSUME r.ok PROVE Replaces(c, m, r.z, r.mem, Header("bstr", len) \o U, 1)
    <2>1. p.ok
      BY <1>1, <1>4, <1>6
    <2>2. Pulled(c, e) /\ e.state = Top(c.backup_list) /\ ~ Top(c.backup_list).payload_moved
      BY <1>1, <2>1
    <2>3. Writes(e, m, r.z, r.mem, Header("bstr", len) \o U, 1)
      BY <1>5, <1>6, <2>1
    <2> HIDE DEF e, r, len, U
    <2> QED BY <2>2, <2>3, WritesReplaces
  <1>7. ASSUME ~ r.ok PROVE r.mem = m
    BY <1>1, <1>4, <1>5, <1>7
  <1> QED BY <1>6, <1>7


(* A call that writes leaves what is in front of the payload pointer.      *)
LEMMA WritesBehind ==
    ASSUME NEW c \in Context, NEW m \in Memory, NEW d, NEW n, NEW T, NEW items,
           Writes(c, m, d, n, T, items)
    PROVE  Behind(m, n, c.state.payload)
  BY DEF Writes, Put, Behind

(* The contents of a container follow its header to where that ends now.   *)
LEMMA ListMapRewriteWrites ==
    ASSUME NEW c \in Context, NEW m \in Memory, NEW kind \in Containers,
           NEW size_hint \in Nat, NEW list_count \in Nat, NEW old_end \in Nat, NEW old_body,
           old_body = c.state.payload + HeaderLen(size_hint), old_body <= old_end,
           old_end <= c.state.payload_end, c.state.payload_end <= MaxRoom,
           c.state.elem_count < MaxElemCount
    PROVE  LET r == ListMapRewrite(c, m, kind, size_hint, list_count, old_end) IN
           /\ r.ok \in BOOLEAN
           /\ r.ok => Writes(c, m, r.z, r.mem,
                             Header(kind, list_count) \o Copied(m, old_body, old_end - old_body), 1)
           /\ Behind(m, r.mem, c.state.payload)
  <1> DEFINE first     == c.state.payload
             end       == c.state.payload_end
             h         == HeaderLen(list_count)
             new_body  == first + h
             body_size == old_end - old_body
             moved == IF new_body # old_body THEN Move(m, new_body, old_body, body_size) ELSE m
             v == ValueEncode(c, moved, kind, list_count)
             d == Advanced(v.z, body_size)
             U == Copied(m, old_body, body_size)
             r == ListMapRewrite(c, m, kind, size_hint, list_count, old_end)
             full == new_body # old_body /\ new_body + body_size > end
  <1>1. /\ first \in Nat /\ end \in Nat /\ MaxRoom \in Nat /\ h \in 1 .. 9
        /\ old_body \in Nat /\ end <= MaxRoom /\ old_end <= end
    <2>1. HeaderLen(size_hint) \in 1 .. 9 /\ h \in 1 .. 9
      BY HeaderLenType
    <2>2. first \in Nat /\ end \in Nat
      BY ContextFields DEF State
    <2>3. old_body = first + HeaderLen(size_hint) /\ end <= MaxRoom /\ old_end <= end
      OBVIOUS
    <2> HIDE DEF first, end
    <2> QED BY <2>1, <2>2, <2>3, EncodeInputsAssumption
  <1>2. ~ (old_end < old_body)
    BY <1>1
  <1>3. /\ full => r = Stopped(c, m, "NO_PAYLOAD")
        /\ ~ full /\ ~ v.ok => r = v
        /\ ~ full /\ v.ok => r = Wrote(d, v.mem)
    BY <1>2 DEF ListMapRewrite
  <1>4. new_body \in Nat /\ body_size \in Nat /\ old_body + body_size = old_end
    <2> HIDE DEF first, h
    <2> QED BY <1>1
  <1>5. full \in BOOLEAN
    OBVIOUS
  <1> HIDE DEF r, full
  <1>6. Behind(m, m, first)
    BY DEF Behind
  <1>7. ASSUME full
        PROVE  r.ok = FALSE /\ r.mem = m
    <2>1. r = Stopped(c, m, "NO_PAYLOAD")
      BY <1>3, <1>7
    <2> QED BY <2>1 DEF Stopped
  <1>8. ASSUME ~ full
        PROVE  /\ r.ok \in BOOLEAN
               /\ r.ok => Writes(c, m, r.z, r.mem, Header(kind, list_count) \o U, 1)
               /\ Behind(m, r.mem, first)
    <2>1. new_body + body_size <= MaxRoom /\ old_body + body_size <= MaxRoom
      <3>1. new_body = old_body \/ ~ (new_body + body_size > end)
        BY <1>8 DEF full
      <3> HIDE DEF body_size, first, end, new_body
      <3> QED BY <1>1, <1>4, <3>1
    <2>2. /\ moved \in Memory
          /\ \A i \in Offsets : i < new_body => moved[i] = m[i]
          /\ \A j \in 1 .. body_size : moved[new_body + j - 1] = m[old_body + j - 1]
      <3>1. CASE new_body # old_body
        <4> DEFINE to == new_body
                   len == body_size
                   o == Move(m, to, old_body, len)
        <4>1. moved = o /\ to \in Nat /\ len \in Nat /\ old_body \in Nat
              /\ to + len <= MaxRoom /\ old_body + len <= MaxRoom
          BY <1>1, <1>4, <2>1, <3>1
        <4> HIDE DEF moved, to, len
        <4>2. Copies(m, o, to, old_body, len)
          <5>1. /\ m \in Memory /\ to \in Nat /\ len \in Nat /\ old_body \in Nat
                /\ to + len <= MaxRoom /\ old_body + len <= MaxRoom
            BY <4>1
          <5> HIDE DEF o
          <5>2. o = Move(m, to, old_body, len)
            BY DEF o
          <5> QED BY ONLY <5>1, <5>2, MoveCopies
        <4> HIDE DEF o
        <4> QED BY <4>1, <4>2 DEF to, len, Copies
      <3>2. CASE new_body = old_body
        <4>1. moved = m
          BY <3>2
        <4> HIDE DEF moved, new_body
        <4> QED BY <3>2, <4>1
      <3> QED BY <3>1, <3>2
    <2> HIDE DEF moved
    <2>3. kind \in Kinds
      BY DEF Containers, Kinds
    <2>4. /\ v.ok \in BOOLEAN
          /\ v.ok => Inside(moved, v.mem, new_body)
          /\ ~ v.ok => v.z = c /\ v.mem = moved
      <3>1. HeaderLen(list_count) \in Nat
        BY <1>1
      <3> QED BY <2>2, <2>3, <3>1, ValueEncodeLenEffect DEF ValueEncode
    <2>5. /\ v.ok => Writes(c, moved, v.z, v.mem, Header(kind, list_count), 1)
          /\ Len(Header(kind, list_count)) = h
      BY <2>2, <2>3, HeaderWrites
    <2>6. Behind(m, moved, first)
      <3>1. \A i \in Offsets : i < first => i < new_body
        <4> HIDE DEF first, h
        <4> QED BY <1>1, EncodeInputsAssumption DEF Offsets
      <3> HIDE DEF new_body, first
      <3> QED BY <2>2, <3>1 DEF Behind
    <2>7. ASSUME ~ v.ok PROVE r.ok = FALSE /\ r.mem = moved
      <3>1. r = v
        BY <1>3, <1>8, <2>7
      <3> HIDE DEF v
      <3> QED BY <2>4, <2>7, <3>1
    <2>8. ASSUME v.ok
          PROVE  r.ok = TRUE /\ Writes(c, m, r.z, r.mem, Header(kind, list_count) \o U, 1)
      <3>1. r = Wrote(d, v.mem)
        BY <1>3, <1>8, <2>8
      <3>2. r.ok = TRUE /\ r.z = d /\ r.mem = v.mem
        <4> HIDE DEF d, v
        <4> QED BY <3>1 DEF Wrote
      <3> HIDE DEF v
      <3>3. Writes(c, moved, v.z, v.mem, Header(kind, list_count), 1)
        BY <2>5, <2>8
      <3>4. v.z \in Context /\ v.mem \in Memory /\ v.z.state.payload = new_body
        <4>1. v.z.state.payload = first + Len(Header(kind, list_count))
          BY <3>3 DEF Writes, Counts
        <4> QED BY <2>5, <3>3, <4>1 DEF Writes, Counts, Same, Put
      <3>5. Counts(v.z, d, body_size, 0)
        BY <1>4, <3>4, AdvancedCounts
      <3>6. /\ U \in Seq(Byte) /\ Len(U) = body_size
            /\ \A i \in 1 .. body_size : U[i] = m[old_body + i - 1]
        BY <1>1, <1>4, <2>1, CopiedType, ZenonT(40)
      <3>7. ASSUME NEW j \in 1 .. body_size PROVE v.mem[new_body + j - 1] = m[old_body + j - 1]
        <4> DEFINE q == new_body + j - 1
        <4>1. q \in Offsets /\ q >= new_body
          <5> HIDE DEF new_body, body_size
          <5> QED BY <1>1, <1>4, <2>1, EncodeInputsAssumption DEF Offsets
        <4> HIDE DEF q, new_body
        <4>2. v.mem[q] = moved[q]
          BY <2>4, <2>8, <4>1 DEF Inside
        <4>3. moved[new_body + j - 1] = m[old_body + j - 1]
          BY <2>2
        <4> QED BY <4>2, <4>3 DEF q
      <3> HIDE DEF d, U
      <3>8. Put(v.mem, v.mem, v.z.state.payload, U)
        <4> HIDE DEF new_body, body_size
        <4> QED BY <3>4, <3>6, <3>7 DEF Put
      <3>9. Writes(v.z, v.mem, d, v.mem, U, 0)
        BY <3>5, <3>6, <3>8 DEF Writes
      <3>10. v.z.state.payload <= MaxRoom
        <4> HIDE DEF new_body, body_size
        <4> QED BY <1>1, <1>4, <2>1, <3>4
      <3>11. Writes(c, moved, d, v.mem, Header(kind, list_count) \o U, 1 + 0)
        BY <2>2, <3>3, <3>9, <3>10, WritesBoth
      <3>12. Put(m, v.mem, first, Header(kind, list_count) \o U)
        BY <2>6, <3>11 DEF Writes, Put, Behind
      <3> QED BY <3>2, <3>11, <3>12 DEF Writes
    <2>9. ASSUME v.ok PROVE Behind(m, r.mem, first)
      BY <2>8, <2>9, WritesBehind
    <2> QED BY <2>4, <2>6, <2>7, <2>8, <2>9
  <1> QED BY <1>5, <1>6, <1>7, <1>8 DEF r


(* A call that closes the innermost construct where it is.                 *)
Continues(c, d, items) ==
    /\ Pulled(c, d)
    /\ d.state.payload = c.state.payload
    /\ d.state.elem_count = Top(c.backup_list).elem_count + items
    /\ SameCbor(Top(c.backup_list), d.state)
    /\ d.state.inside_frag_str = Top(c.backup_list).inside_frag_str

(* Leaving a container of the size that was announced keeps its bytes and  *)
(* counts it once.                                                         *)
LEMMA ResumeContinues ==
    ASSUME NEW c \in Context, c.backup_list # << >>, NEW b, b = Top(c.backup_list),
           b.elem_count < MaxElemCount
    PROVE  LET r == ProcessBackup(c, ResumeFlags) IN
           r.ok = TRUE /\ Continues(c, Counted(r.z), 1)
  <1> DEFINE r == ProcessBackup(c, ResumeFlags)
             e == r.z
             d == Counted(e)
  <1>1. r.ok = TRUE /\ Pulled(c, e) /\ e.state = [b EXCEPT !.payload = c.state.payload]
    BY ResumeEffect
  <1>2. b \in State /\ e \in Context
    BY <1>1, ContextFields DEF Top, Pulled
  <1> HIDE DEF e
  <1>3. e.state.payload = c.state.payload /\ e.state.elem_count = b.elem_count
        /\ SameCbor(b, e.state) /\ e.state.inside_frag_str = b.inside_frag_str
    BY <1>1, <1>2 DEF State, SameCbor
  <1>4. Counts(e, d, 0, 1)
    BY <1>2, <1>3, CountedOnce
  <1> HIDE DEF d
  <1>5. Pulled(c, d)
    BY <1>1, <1>4 DEF Pulled, Counts, Same
  <1>6. d.state.payload = c.state.payload
    <2>1. c.state.payload \in Nat
      BY ContextFields DEF State
    <2> QED BY <1>3, <1>4, <2>1 DEF Counts
  <1>7. Continues(c, d, 1)
    BY <1>3, <1>4, <1>5, <1>6 DEF Continues, Counts, SameCbor
  <1> QED BY <1>1, <1>7 DEF d, e

(* The end of a list or map keeps what was written when the hint was the   *)
(* count, and replaces it by the right header and the same contents when   *)
(* it was not.                                                             *)
LEMMA ListMapEndWrites ==
    ASSUME NEW c \in Context, NEW m \in Memory, NEW kind \in Containers,
           NEW size_hint \in Nat, NEW b, b = Top(c.backup_list), NEW old_body,
           old_body = b.payload + HeaderLen(size_hint),
           c.backup_list # << >>, b.payload_end <= MaxRoom, b.elem_count < MaxElemCount,
           ~ b.payload_moved => old_body <= c.state.payload /\ c.state.payload <= b.payload_end
    PROVE  LET r == ListMapEndEncode(c, m, kind, size_hint)
               list_count == ListCount(c, kind)
               body == Copied(m, old_body, c.state.payload - old_body) IN
           /\ list_count \in Nat
           /\ r.ok /\ size_hint = list_count => Continues(c, r.z, 1) /\ r.mem = m
           /\ r.ok /\ size_hint # list_count =>
                Replaces(c, m, r.z, r.mem, Header(kind, list_count) \o body, 1)
           /\ ~ r.ok => r.mem = m \/ (~ b.payload_moved /\ Behind(m, r.mem, b.payload))
  <1> DEFINE r == ListMapEndEncode(c, m, kind, size_hint)
             list_count == ListCount(c, kind)
             old_end == c.state.payload
             body == Copied(m, old_body, old_end - old_body)
             kept == ProcessBackup(c, ResumeFlags)
             restored == ProcessBackup(c, {"RESTORE", "CONSUME"})
             e == restored.z
             w == ListMapRewrite(e, m, kind, size_hint, list_count, old_end)
  <1>1. list_count \in Nat /\ old_end \in Nat
    <2>1. c.state.elem_count \in 0 .. MaxElemCount /\ old_end \in Nat
      BY ContextFields DEF State
    <2>2. \A n \in Nat : n \div 2 \in Nat
      OBVIOUS
    <2> QED BY <2>1, <2>2, MaxElemCountAssumption DEF ListCount
  <1>2. kept.ok = TRUE /\ Continues(c, Counted(kept.z), 1)
    BY ResumeContinues
  <1>3. /\ restored.ok \in BOOLEAN
        /\ restored.ok => Pulled(c, e) /\ e.state = b /\ ~ b.payload_moved
    BY RollBackEffect
  <1>4. CASE size_hint = list_count
    <2>1. r = Wrote(Counted(kept.z), m)
      BY <1>2, <1>4 DEF ListMapEndEncode, ResumeFlags
    <2> HIDE DEF r, kept
    <2>2. r.ok = TRUE /\ r.z = Counted(kept.z) /\ r.mem = m
      BY <2>1 DEF Wrote
    <2> QED BY <1>1, <1>2, <1>4, <2>2 DEF r
  <1>5. ASSUME size_hint # list_count, ~ restored.ok PROVE r.ok = FALSE /\ r.mem = m
    <2>1. r = Keeping(restored, m)
      BY <1>5 DEF ListMapEndEncode
    <2> HIDE DEF r, restored
    <2> QED BY <1>3, <1>5, <2>1 DEF Keeping
  <1>6. ASSUME size_hint # list_count, restored.ok
        PROVE  /\ r.ok \in BOOLEAN
               /\ r.ok => Replaces(c, m, r.z, r.mem, Header(kind, list_count) \o body, 1)
               /\ ~ b.payload_moved /\ Behind(m, r.mem, b.payload)
    <2>1. r = w
      BY <1>6 DEF ListMapEndEncode
    <2>2. Pulled(c, e) /\ e.state = b /\ ~ b.payload_moved /\ e \in Context
      BY <1>3, <1>6 DEF Pulled
    <2>3. /\ old_body = e.state.payload + HeaderLen(size_hint) /\ old_body <= old_end
          /\ old_end <= e.state.payload_end /\ e.state.payload_end <= MaxRoom
          /\ e.state.elem_count < MaxElemCount
      BY <2>2
    <2> HIDE DEF e, list_count, old_end
    <2>4. /\ w.ok \in BOOLEAN
          /\ w.ok => Writes(e, m, w.z, w.mem, Header(kind, list_count) \o body, 1)
          /\ Behind(m, w.mem, e.state.payload)
      BY <1>1, <2>2, <2>3, ListMapRewriteWrites
    <2> HIDE DEF w, r, body
    <2>5. w.ok => Replaces(c, m, w.z, w.mem, Header(kind, list_count) \o body, 1)
      BY <2>2, <2>4, WritesReplaces
    <2> QED BY <2>1, <2>2, <2>4, <2>5
  <1>7. ASSUME size_hint # list_count
        PROVE  /\ r.ok => Replaces(c, m, r.z, r.mem, Header(kind, list_count) \o body, 1)
               /\ ~ r.ok => r.mem = m \/ (~ b.payload_moved /\ Behind(m, r.mem, b.payload))
    <2> HIDE DEF r, restored, body, list_count
    <2>1. CASE restored.ok
      BY <1>6, <1>7, <2>1
    <2>2. CASE ~ restored.ok
      <3>1. ~ r.ok /\ r.mem = m
        BY <1>5, <1>7, <2>2
      <3> QED BY ONLY <3>1
    <2> QED BY <1>3, <2>1, <2>2
  <1> HIDE DEF r, body, list_count
  <1>8. CASE size_hint # list_count
    BY <1>1, <1>7, <1>8 DEF r, body, list_count
  <1> QED BY <1>4, <1>8 DEF r, body, list_count

(* The end of a CBOR string whose length was known.                        *)
LEMMA CborFragmentsEndWrites ==
    ASSUME NEW c \in Context, NEW m \in Memory, ~ c.state.inside_frag_str,
           NEW b, b = Top(c.backup_list), c.backup_list # << >>, b.elem_count < MaxElemCount
    PROVE  LET r == FragmentsEndEncode(c, m) IN
           /\ r.mem = m
           /\ r.ok => Continues(c, r.z, 1) /\ StringRemainder(c.state) = 0
  <1> DEFINE r == FragmentsEndEncode(c, m)
             kept == ProcessBackup(c, ResumeFlags)
  <1>1. kept.ok = TRUE /\ Continues(c, Counted(kept.z), 1)
    BY ResumeContinues
  <1>2. \/ r.ok = FALSE /\ r.mem = m
        \/ r = Wrote(Counted(kept.z), m) /\ StringRemainder(c.state) = 0
    BY <1>1 DEF FragmentsEndEncode, Stopped, ResumeFlags
  <1> HIDE DEF r, kept
  <1>3. ASSUME r = Wrote(Counted(kept.z), m) PROVE r.ok = TRUE /\ r.z = Counted(kept.z) /\ r.mem = m
    BY <1>3 DEF Wrote
  <1>4. r.mem = m /\ (r.ok => Continues(c, r.z, 1) /\ StringRemainder(c.state) = 0)
    BY <1>1, <1>2, <1>3
  <1> QED BY <1>4 DEF r

(* A call that opens a construct, writes T and counts items elements.      *)
Starts(c, m, d, n, T, items) ==
    /\ d \in Context /\ d.base = c.base /\ d.section = c.section
    /\ T \in Seq(Byte)
    /\ \E b \in State :
        /\ d.backup_list = Append(c.backup_list, b)
        /\ b.payload = c.state.payload /\ b.elem_count = c.state.elem_count
        /\ SameCbor(c.state, b)
    /\ d.state.payload = c.state.payload + Len(T)
    /\ d.state.elem_count = items
    /\ d.state.inside_frag_str = c.state.inside_frag_str
    /\ Put(m, n, c.state.payload, T)

(* A backup that fits keeps the state and begins a count of its own.       *)
LEMMA BackupStarts ==
    ASSUME NEW c \in Context, NEW m \in Memory, NEW elems \in 0 .. MaxElemCount
    PROVE  LET r == NewBackup(c, elems) IN
           /\ r.ok \in BOOLEAN
           /\ r.ok => Starts(c, m, r.z, m, << >>, elems) /\ SameCbor(c.state, r.z.state)
           /\ ~ r.ok => r.z = c
  <1> DEFINE r == NewBackup(c, elems)
             b == [c.state EXCEPT !.payload_moved = FALSE]
             s == [b EXCEPT !.elem_count = elems]
  <1>1. /\ r.ok \in BOOLEAN
        /\ r.ok => Pushed(c, r.z)
        /\ ~ r.ok => r.z = c
    BY NewBackupEffect
  <1>2. ASSUME r.ok PROVE Starts(c, m, r.z, m, << >>, elems) /\ SameCbor(c.state, r.z.state)
    <2>1. c.state \in State /\ c.state.payload \in Nat
      BY ContextFields DEF State
    <2>2. /\ b \in State /\ b.payload = c.state.payload /\ b.elem_count = c.state.elem_count
          /\ SameCbor(c.state, b) /\ b.inside_frag_str = c.state.inside_frag_str
      BY <2>1 DEF State, SameCbor
    <2>3. r = Done([c EXCEPT !.state = s, !.backup_list = Append(@, b)])
      BY <1>2 DEF NewBackup, Fail, Done
    <2> HIDE DEF b
    <2>4. /\ s.payload = b.payload /\ s.elem_count = elems
          /\ SameCbor(b, s) /\ s.inside_frag_str = b.inside_frag_str
      BY <2>2 DEF State, SameCbor
    <2> HIDE DEF s, r
    <2>5. r.z.state = s /\ r.z.backup_list = Append(c.backup_list, b)
      BY <2>3 DEF Done, Context
    <2>6. r.z \in Context /\ r.z.base = c.base /\ r.z.section = c.section
      BY <1>1, <1>2 DEF Pushed
    <2>7. Put(m, m, c.state.payload, << >>) /\ << >> \in Seq(Byte) /\ Len(<< >>) = 0
      BY DEF Put
    <2> QED BY <2>1, <2>2, <2>4, <2>5, <2>6, <2>7 DEF Starts, SameCbor
  <1> QED BY <1>1, <1>2

(* A backup and a header behind it begin a construct.                      *)
LEMMA StartsWrites ==
    ASSUME NEW c \in Context, NEW m \in Memory, NEW e, NEW d, NEW n, NEW T,
           NEW elems \in Int, NEW items \in Int,
           Starts(c, m, e, m, << >>, elems), Writes(e, m, d, n, T, items)
    PROVE  Starts(c, m, d, n, T, elems + items) /\ SameCbor(e.state, d.state)
  <1>1. c.state.payload \in Nat /\ Len(<< >>) = 0
    BY ContextFields DEF State
  <1>2. e.state.payload = c.state.payload
    BY <1>1 DEF Starts
  <1> QED BY <1>1, <1>2 DEF Starts, Writes, Counts, Same, SameCbor


(* How the start functions fail: with no bytes in front of the present     *)
(* place touched.                                                          *)
LEMMA ListMapStartWrites ==
    ASSUME NEW c \in Context, NEW m \in Memory, NEW kind \in Containers,
           NEW size_hint \in Nat, c.state.payload_end <= MaxRoom
    PROVE  LET r == ListMapStartEncode(c, m, kind, size_hint) IN
           /\ r.ok => /\ Starts(c, m, r.z, r.mem, Header(kind, size_hint), 0)
                      /\ SameCbor(c.state, r.z.state)
           /\ ~ r.ok => r.mem = m
  <1> DEFINE r == ListMapStartEncode(c, m, kind, size_hint)
             b == NewBackup(c, 0)
             e == b.z
             v == ValueEncode(e, m, kind, size_hint)
             d == v.z
             T == Header(kind, size_hint)
  <1>1. /\ b.ok \in BOOLEAN
        /\ b.ok => Starts(c, m, e, m, << >>, 0) /\ SameCbor(c.state, e.state) /\ Saved(c, e)
    <2>1. 0 \in 0 .. MaxElemCount
      BY MaxElemCountAssumption
    <2> QED BY <2>1, BackupStarts, BackupEffect
  <1>2. ASSUME ~ b.ok PROVE r.ok = FALSE /\ r.mem = m
    <2>1. r = Keeping(b, m)
      BY <1>2 DEF ListMapStartEncode
    <2> HIDE DEF r, b
    <2> QED BY <1>1, <1>2, <2>1 DEF Keeping
  <1>3. ASSUME b.ok
        PROVE  /\ e \in Context /\ e.state.elem_count = 0 /\ e.state.elem_count < MaxElemCount
               /\ e.state.payload_end <= MaxRoom
    <2> HIDE DEF e
    <2> QED BY <1>1, <1>3, MaxElemCountAssumption DEF Starts, Saved, Together, Located
  <1>4. kind \in Kinds /\ HeaderLen(size_hint) \in Nat
    BY HeaderLenType DEF Containers, Kinds
  <1>5. ASSUME b.ok, ~ v.ok PROVE r.ok = FALSE /\ r.mem = m
    <2>1. r = v
      BY <1>5 DEF ListMapStartEncode
    <2>2. v.ok \in BOOLEAN /\ v.mem = m
      <3> HIDE DEF e
      <3> QED BY <1>3, <1>4, <1>5, ValueEncodeLenEffect DEF ValueEncode
    <2> HIDE DEF r, v
    <2> QED BY <1>5, <2>1, <2>2
  <1>6. ASSUME b.ok, v.ok
        PROVE  /\ r.ok = TRUE
               /\ Starts(c, m, r.z, r.mem, T, 0)
               /\ SameCbor(c.state, r.z.state)
    <2> DEFINE u == Uncounted(d)
    <2>1. r = Wrote(u, v.mem)
      BY <1>6 DEF ListMapStartEncode
    <2>2. Writes(e, m, d, v.mem, T, 1)
      <3> HIDE DEF e
      <3> QED BY <1>3, <1>4, <1>6, HeaderWrites
    <2>3. Counts(d, u, 0, -1)
      <3>1. d \in Context /\ d.state.elem_count = 0 + 1
        BY <1>3, <1>6, <2>2 DEF Writes, Counts, Same
      <3> HIDE DEF d
      <3> QED BY <3>1, CountedOnce
    <2> HIDE DEF v, e, d, u, r
    <2>4. r.ok = TRUE /\ r.z = u /\ r.mem = v.mem
      BY <2>1 DEF Wrote
    <2>5. Writes(e, m, u, v.mem, T, 0)
      <3> DEFINE l == Len(T)
      <3>1. l \in Nat /\ Counts(e, d, l, 1)
        BY <2>2 DEF Writes
      <3> HIDE DEF l
      <3>2. Counts(e, u, l + 0, 1 + -1)
        BY <1>3, <1>6, <2>3, <3>1, CountsBoth
      <3>3. Counts(e, u, l, 0)
        BY <3>1, <3>2
      <3> QED BY <2>2, <3>3 DEF Writes, l
    <2> HIDE DEF T
    <2>6. Starts(c, m, u, v.mem, T, 0 + 0) /\ SameCbor(e.state, u.state)
      BY <1>1, <1>6, <2>5, StartsWrites
    <2> QED BY <1>1, <1>6, <2>4, <2>6 DEF SameCbor
  <1> HIDE DEF r, b, v
  <1>7. \/ ~ r.ok /\ r.mem = m
        \/ r.ok = TRUE /\ Starts(c, m, r.z, r.mem, T, 0) /\ SameCbor(c.state, r.z.state)
    <2>1. CASE ~ b.ok
      BY <1>2, <2>1
    <2>2. CASE b.ok /\ ~ v.ok
      BY <1>5, <2>2
    <2>3. CASE b.ok /\ v.ok
      BY <1>6, <2>3
    <2> QED BY <2>1, <2>2, <2>3
  <1> HIDE DEF T
  <1>8. /\ r.ok => Starts(c, m, r.z, r.mem, T, 0) /\ SameCbor(c.state, r.z.state)
        /\ ~ r.ok => r.mem = m
    BY <1>7
  <1> QED BY <1>8 DEF r, T


(* zcbor_bstr_start_encode begins a byte string with a dummy header for    *)
(* all the room that is left.                                              *)
LEMMA BstrStartWrites ==
    ASSUME NEW c \in Context, NEW m \in Memory, c.state.payload_end <= MaxRoom
    PROVE  LET r == BstrStartEncode(c, m)
               hint == RemainingStrLen(Room(c.state)) IN
           /\ r.ok => /\ hint \in Nat
                      /\ Starts(c, m, r.z, r.mem, Header("bstr", hint), 1)
                      /\ SameCbor(c.state, r.z.state)
           /\ ~ r.ok => r.mem = m
  <1> DEFINE r == BstrStartEncode(c, m)
             b == NewBackup(c, 0)
             e == b.z
             hint == RemainingStrLen(Room(c.state))
             v == ValueEncode(e, m, "bstr", hint)
             d == v.z
             T == Header("bstr", hint)
  <1>1. /\ b.ok \in BOOLEAN
        /\ b.ok => Starts(c, m, e, m, << >>, 0) /\ SameCbor(c.state, e.state) /\ Saved(c, e)
    <2>1. 0 \in 0 .. MaxElemCount
      BY MaxElemCountAssumption
    <2> QED BY <2>1, BackupStarts, BackupEffect
  <1>2. ASSUME ~ b.ok PROVE ~ r.ok /\ r.mem = m
    <2>1. r = Keeping(b, m)
      BY <1>2 DEF BstrStartEncode
    <2> HIDE DEF r, b
    <2> QED BY <1>1, <1>2, <2>1 DEF Keeping
  <1>3. ASSUME b.ok
        PROVE  /\ e \in Context /\ e.state.elem_count = 0 /\ e.state.elem_count < MaxElemCount
               /\ e.state.payload_end <= MaxRoom
               /\ Room(e.state) = Room(c.state)
    <2> HIDE DEF e
    <2>1. /\ e \in Context /\ e.state.elem_count = 0
          /\ e.state.payload_end = c.state.payload_end
          /\ e.state.payload = c.state.payload
      BY <1>1, <1>3 DEF Starts, Saved, Together, Located
    <2> QED BY <2>1, MaxElemCountAssumption DEF Room
  <1>4. v.ok = TRUE \/ (v.ok = FALSE /\ v.mem = m)
    BY DEF ValueEncode, ValueEncodeLen, Wrote, Stopped
  <1>5. ASSUME b.ok, v.ok = FALSE PROVE ~ r.ok /\ r.mem = m
    <2>1. r = Stopped(ProcessBackup(v.z, {"CONSUME"}).z, v.mem, v.err)
      BY <1>3, <1>5 DEF BstrStartEncode
    <2> HIDE DEF r, v
    <2> QED BY <1>4, <1>5, <2>1 DEF Stopped
  <1>6. ASSUME b.ok, v.ok = TRUE
        PROVE  /\ r.ok = TRUE /\ hint \in Nat
               /\ Starts(c, m, r.z, r.mem, T, 1)
               /\ SameCbor(c.state, r.z.state)
    <2>1. r = v
      BY <1>3, <1>6 DEF BstrStartEncode
    <2>2. r.ok
      <3> HIDE DEF r, v
      <3> QED BY <1>6, <2>1
    <2>3. hint \in Nat
      BY <2>2, BstrStartEffect
    <2>4. "bstr" \in Kinds
      BY DEF Kinds
    <2> HIDE DEF r, e, hint
    <2>5. Writes(e, m, d, v.mem, T, 1)
      BY <1>3, <1>6, <2>3, <2>4, HeaderWrites
    <2> HIDE DEF v, T, d
    <2>6. Starts(c, m, d, v.mem, T, 0 + 1) /\ SameCbor(e.state, d.state)
      BY <1>1, <1>6, <2>5, StartsWrites
    <2> QED BY <1>1, <1>6, <2>1, <2>2, <2>3, <2>6 DEF SameCbor, d
  <1> HIDE DEF r, b, v, T, hint
  <1>7. \/ ~ r.ok /\ r.mem = m
        \/ /\ r.ok = TRUE /\ hint \in Nat
           /\ Starts(c, m, r.z, r.mem, T, 1) /\ SameCbor(c.state, r.z.state)
    <2>1. CASE ~ b.ok
      BY <1>2, <2>1
    <2>2. CASE b.ok /\ v.ok = FALSE
      BY <1>5, <2>2
    <2>3. CASE b.ok /\ v.ok = TRUE
      BY <1>6, <2>3
    <2> QED BY <1>4, <2>1, <2>2, <2>3
  <1>8. /\ r.ok => hint \in Nat /\ Starts(c, m, r.z, r.mem, T, 1) /\ SameCbor(c.state, r.z.state)
        /\ ~ r.ok => r.mem = m
    BY <1>7
  <1> QED BY <1>8 DEF r, T, hint

(* What a fragmented string sets in the state, and what it does not.       *)
Beside(c, d) ==
    /\ Same(c, d)
    /\ d.state.payload = c.state.payload
    /\ d.state.elem_count = c.state.elem_count

InCbor(c, d, len) ==
    /\ Beside(c, d) /\ d.state.inside_frag_str = c.state.inside_frag_str
    /\ d.state.frag_offset_cbor = 0 - c.state.payload
    /\ d.state.str_total_len_cbor = len

InPlain(c, d, len) ==
    /\ Beside(c, d) /\ SameCbor(c.state, d.state) /\ d.state.inside_frag_str
    /\ d.state.frag_offset = 0 - c.state.payload /\ d.state.str_total_len = len

OutOfPlain(c, d) ==
    Beside(c, d) /\ SameCbor(c.state, d.state) /\ ~ d.state.inside_frag_str

(* Entering a CBOR string of fragments sets its own offset and length.     *)
LEMMA SetInCbor ==
    ASSUME NEW c \in Context, NEW len \in Nat, NEW d,
           d = [c EXCEPT !.state = [@ EXCEPT !.frag_offset_cbor = 0 - c.state.payload,
                            !.str_total_len_cbor = len, !.inside_cbor_bstr = TRUE]]
    PROVE  InCbor(c, d, len)
  <1> DEFINE o == 0 - c.state.payload
             s == [c.state EXCEPT !.frag_offset_cbor = o,
                            !.str_total_len_cbor = len, !.inside_cbor_bstr = TRUE]
  <1>1. c.state \in State /\ o \in Int /\ o = 0 - c.state.payload
    <2>1. c.state \in State
      BY ContextFields
    <2> QED BY <2>1 DEF State
  <1>2. d = [c EXCEPT !.state = s]
    OBVIOUS
  <1> HIDE DEF o
  <1>3. /\ s \in State /\ s.payload = c.state.payload /\ s.elem_count = c.state.elem_count
        /\ s.inside_frag_str = c.state.inside_frag_str
        /\ s.frag_offset_cbor = o /\ s.str_total_len_cbor = len
    BY <1>1 DEF State, SameCbor
  <1> HIDE DEF s
  <1>4. Same(c, d) /\ d.state = s
    BY <1>2, <1>3, SetState
  <1> QED BY <1>1, <1>3, <1>4 DEF InCbor, Beside, SameCbor

(* Entering a string of fragments sets its offset and length.              *)
LEMMA SetInPlain ==
    ASSUME NEW c \in Context, NEW len \in Nat, NEW d,
           d = [c EXCEPT !.state = [@ EXCEPT !.frag_offset = 0 - c.state.payload,
                            !.str_total_len = len, !.inside_frag_str = TRUE]]
    PROVE  InPlain(c, d, len)
  <1> DEFINE o == 0 - c.state.payload
             s == [c.state EXCEPT !.frag_offset = o,
                            !.str_total_len = len, !.inside_frag_str = TRUE]
  <1>1. c.state \in State /\ o \in Int /\ o = 0 - c.state.payload
    <2>1. c.state \in State
      BY ContextFields
    <2> QED BY <2>1 DEF State
  <1>2. d = [c EXCEPT !.state = s]
    OBVIOUS
  <1> HIDE DEF o
  <1>3. /\ s \in State /\ s.payload = c.state.payload /\ s.elem_count = c.state.elem_count
        /\ SameCbor(c.state, s) /\ s.inside_frag_str
        /\ s.frag_offset = o /\ s.str_total_len = len
    BY <1>1 DEF State, SameCbor
  <1> HIDE DEF s
  <1>4. Same(c, d) /\ d.state = s
    BY <1>2, <1>3, SetState
  <1> QED BY <1>1, <1>3, <1>4 DEF InPlain, Beside, SameCbor

(* Leaving a string of fragments resets its flag alone.                    *)
LEMMA SetOutOfPlain ==
    ASSUME NEW c \in Context, NEW d,
           d = [c EXCEPT !.state.inside_frag_str = FALSE]
    PROVE  OutOfPlain(c, d)
  <1> DEFINE o == 0 - c.state.payload
             s == [c.state EXCEPT !.inside_frag_str = FALSE]
  <1>1. c.state \in State /\ o \in Int /\ o = 0 - c.state.payload
    <2>1. c.state \in State
      BY ContextFields
    <2> QED BY <2>1 DEF State
  <1>2. d = [c EXCEPT !.state = s]
    OBVIOUS
  <1> HIDE DEF o
  <1>3. /\ s \in State /\ s.payload = c.state.payload /\ s.elem_count = c.state.elem_count
        /\ SameCbor(c.state, s) /\ ~ s.inside_frag_str
    BY <1>1 DEF State, SameCbor
  <1> HIDE DEF s
  <1>4. Same(c, d) /\ d.state = s
    BY <1>2, <1>3, SetState
  <1> QED BY <1>1, <1>3, <1>4 DEF OutOfPlain, Beside, SameCbor

(* A CBOR string remembers where it began and how long it is.              *)
LEMMA CborFragmentsStartWrites ==
    ASSUME NEW c \in Context, NEW m \in Memory, NEW len \in Nat, c.state.payload_end <= MaxRoom
    PROVE  LET r == FragmentsStartEncode(c, m, "bstr", len, TRUE) IN
           /\ r.ok => /\ Starts(c, m, r.z, r.mem, Header("bstr", len), 1)
                      /\ r.z.state.frag_offset_cbor = 0 - r.z.state.payload
                      /\ r.z.state.str_total_len_cbor = len
           /\ ~ r.ok => r.mem = m
  <1> DEFINE r == FragmentsStartEncode(c, m, "bstr", len, TRUE)
             b == NewBackup(c, 0)
             e == b.z
             v == ValueEncode(e, m, "bstr", len)
             d == v.z
             T == Header("bstr", len)
             f == [d EXCEPT !.state = [@ EXCEPT
                        !.frag_offset_cbor = 0 - d.state.payload,
                        !.str_total_len_cbor = len,
                        !.inside_cbor_bstr = TRUE]]
  <1>1. /\ b.ok \in BOOLEAN
        /\ b.ok => Starts(c, m, e, m, << >>, 0) /\ Saved(c, e)
    <2>1. 0 \in 0 .. MaxElemCount
      BY MaxElemCountAssumption
    <2> QED BY <2>1, BackupStarts, BackupEffect
  <1>2. v.ok = TRUE \/ (v.ok = FALSE /\ v.mem = m)
    BY DEF ValueEncode, ValueEncodeLen, Wrote, Stopped
  <1>3. \/ r.ok = FALSE /\ r.mem = m
        \/ b.ok /\ v.ok = FALSE /\ r.ok = FALSE /\ r.mem = v.mem
        \/ b.ok /\ v.ok = TRUE /\ r = Wrote(f, v.mem)
    BY <1>1, <1>2 DEF FragmentsStartEncode, Stopped, Keeping
  <1>4. ASSUME b.ok, v.ok = TRUE, r = Wrote(f, v.mem)
        PROVE  /\ r.ok = TRUE
               /\ Starts(c, m, r.z, r.mem, T, 1)
               /\ r.z.state.frag_offset_cbor = 0 - r.z.state.payload
               /\ r.z.state.str_total_len_cbor = len
    <2>1. /\ e \in Context /\ e.state.elem_count < MaxElemCount
          /\ e.state.payload_end <= MaxRoom
      <3> HIDE DEF e
      <3> QED BY <1>1, <1>4, MaxElemCountAssumption DEF Starts, Saved, Together, Located
    <2>2. "bstr" \in Kinds
      BY DEF Kinds
    <2>3. Writes(e, m, d, v.mem, T, 1)
      <3> HIDE DEF e
      <3> QED BY <1>4, <2>1, <2>2, HeaderWrites
    <2>4. r.ok = TRUE /\ r.z = f /\ r.mem = v.mem
      <3> HIDE DEF r, f, v
      <3> QED BY <1>4 DEF Wrote
    <2>5. d \in Context /\ d.state \in State /\ d.state.payload \in Nat
      <3>1. d \in Context
        BY <2>3 DEF Writes, Counts, Same
      <3> HIDE DEF d
      <3> QED BY <3>1, ContextFields DEF State
    <2> HIDE DEF r, e, d
    <2>6. Beside(d, f) /\ f.state.inside_frag_str = d.state.inside_frag_str
          /\ f.state.frag_offset_cbor = 0 - d.state.payload
          /\ f.state.str_total_len_cbor = len
      <3>1. d \in Context /\ len \in Nat
        BY <2>5
      <3>2. f = [d EXCEPT !.state = [@ EXCEPT
                            !.frag_offset_cbor = 0 - d.state.payload,
                            !.str_total_len_cbor = len,
                            !.inside_cbor_bstr = TRUE]]
        OBVIOUS
      <3> HIDE DEF f
      <3>3. InCbor(d, f, len)
        BY ONLY <3>1, <3>2, SetInCbor
      <3> QED BY <3>3 DEF InCbor
    <2> HIDE DEF v, T, f
    <2>7. Starts(c, m, d, v.mem, T, 0 + 1)
      BY <1>1, <1>4, <2>3, StartsWrites
    <2>8. Starts(c, m, f, v.mem, T, 1)
      BY <2>6, <2>7 DEF Starts, Same, Beside
    <2>9. f.state.payload = d.state.payload
      BY <2>6 DEF Beside
    <2> QED BY <2>4, <2>6, <2>8, <2>9
  <1> HIDE DEF r, v, b, f, T
  <1>5. \/ ~ r.ok /\ r.mem = m
        \/ /\ r.ok = TRUE
           /\ Starts(c, m, r.z, r.mem, T, 1)
           /\ r.z.state.frag_offset_cbor = 0 - r.z.state.payload
           /\ r.z.state.str_total_len_cbor = len
    BY <1>2, <1>3, <1>4
  <1>6. /\ r.ok => /\ Starts(c, m, r.z, r.mem, T, 1)
                   /\ r.z.state.frag_offset_cbor = 0 - r.z.state.payload
                   /\ r.z.state.str_total_len_cbor = len
        /\ ~ r.ok => r.mem = m
    BY <1>5
  <1> QED BY <1>6 DEF r, T


(* A call that stays in the innermost construct, and writes T there.       *)
Grows(c, m, d, n, T, items) ==
    /\ T \in Seq(Byte)
    /\ Same(c, d) /\ SameCbor(c.state, d.state)
    /\ d.state.payload = c.state.payload + Len(T)
    /\ d.state.elem_count = c.state.elem_count + items
    /\ Put(m, n, c.state.payload, T)

(* The start of a string of fragments writes its header, and all of it     *)
(* remains to be written.                                                  *)
LEMMA FragmentsStartWrites ==
    ASSUME NEW c \in Context, NEW m \in Memory, NEW len \in Nat,
           c.state.elem_count < MaxElemCount, c.state.payload_end <= MaxRoom
    PROVE  LET r == FragmentsStartEncode(c, m, "tstr", len, FALSE) IN
           /\ r.ok => /\ Grows(c, m, r.z, r.mem, Header("tstr", len), 1)
                      /\ r.z.state.inside_frag_str /\ StringRemainder(r.z.state) = len
           /\ ~ r.ok => r.mem = m
  <1> DEFINE r == FragmentsStartEncode(c, m, "tstr", len, FALSE)
             v == ValueEncode(c, m, "tstr", len)
             d == v.z
             T == Header("tstr", len)
             f == [d EXCEPT !.state = [@ EXCEPT
                        !.frag_offset = 0 - d.state.payload,
                        !.str_total_len = len,
                        !.inside_frag_str = TRUE]]
  <1>1. v.ok = TRUE \/ (v.ok = FALSE /\ v.mem = m)
    BY DEF ValueEncode, ValueEncodeLen, Wrote, Stopped
  <1>2. \/ r.ok = FALSE /\ r.mem = m
        \/ v.ok = FALSE /\ r.ok = FALSE /\ r.mem = v.mem
        \/ v.ok = TRUE /\ r = Wrote(f, v.mem)
    BY <1>1 DEF FragmentsStartEncode, Stopped, Keeping, Done
  <1>3. ASSUME v.ok = TRUE, r = Wrote(f, v.mem)
        PROVE  /\ r.ok = TRUE
               /\ Grows(c, m, r.z, r.mem, T, 1)
               /\ r.z.state.inside_frag_str /\ StringRemainder(r.z.state) = len
    <2>1. "tstr" \in Kinds
      BY DEF Kinds
    <2>2. Writes(c, m, d, v.mem, T, 1)
      BY <1>3, <2>1, HeaderWrites
    <2>3. r.ok = TRUE /\ r.z = f /\ r.mem = v.mem
      <3> HIDE DEF r, f, v
      <3> QED BY <1>3 DEF Wrote
    <2>4. d \in Context
      BY <2>2 DEF Writes, Counts, Same
    <2> HIDE DEF r, d
    <2>5. d.state.payload \in Nat
      BY <2>4, ContextFields DEF State
    <2>6. InPlain(d, f, len)
      <3>1. f = [d EXCEPT !.state = [@ EXCEPT
                        !.frag_offset = 0 - d.state.payload,
                        !.str_total_len = len, !.inside_frag_str = TRUE]]
        OBVIOUS
      <3> HIDE DEF f
      <3> QED BY ONLY <2>4, <3>1, len \in Nat, SetInPlain
    <2> HIDE DEF v, T, f
    <2>7. Grows(c, m, f, v.mem, T, 1)
      BY <2>2, <2>6 DEF Writes, Counts, Same, SameCbor, InPlain, Beside, Grows
    <2>8. StringRemainder(f.state) = len
      <3> DEFINE p == d.state.payload
      <3>1. f.state.payload = p /\ f.state.frag_offset = 0 - p /\ f.state.str_total_len = len
            /\ f.state.inside_frag_str
        BY <2>6 DEF InPlain, Beside
      <3>2. p \in Nat
        BY <2>5
      <3> HIDE DEF p
      <3>3. StringRemainder(f.state) = len - (p + (0 - p))
        BY <3>1 DEF StringRemainder, StringTotal, StringOffset
      <3> QED BY <3>2, <3>3
    <2> QED BY <2>3, <2>6, <2>7, <2>8 DEF InPlain
  <1> HIDE DEF r, v, f, T
  <1>4. \/ ~ r.ok /\ r.mem = m
        \/ /\ r.ok = TRUE
           /\ Grows(c, m, r.z, r.mem, T, 1)
           /\ r.z.state.inside_frag_str /\ StringRemainder(r.z.state) = len
    BY <1>1, <1>2, <1>3
  <1>5. /\ r.ok => /\ Grows(c, m, r.z, r.mem, T, 1)
                   /\ r.z.state.inside_frag_str /\ StringRemainder(r.z.state) = len
        /\ ~ r.ok => r.mem = m
    BY <1>4
  <1> QED BY <1>5 DEF r, T

(* A fragment writes at most what remains of its string, and never         *)
(* nothing.                                                                *)
LEMMA FragmentEncodeWrites ==
    ASSUME NEW c \in Context, NEW m \in Memory, NEW from \in Nat, NEW len \in Nat \ {0},
           c.state.payload_end <= MaxRoom
    PROVE  LET r == FragmentEncode(c, m, from, len) IN
           /\ r.ok => \E n \in 1 .. len :
                        /\ n <= StringRemainder(c.state)
                        /\ Grows(c, m, r.z, r.mem, Data(from, n), 0)
                        /\ r.z.state.inside_frag_str
                        /\ r.z.state.payload = c.state.payload + n
                        /\ StringRemainder(r.z.state) = StringRemainder(c.state) - n
           /\ ~ r.ok => r.mem = m
  <1> DEFINE r == FragmentEncode(c, m, from, len)
             n == Least(Room(c.state), len)
             T == Data(from, n)
             d == Advanced(c, n)
             p == c.state.payload
             o == Write(m, p, T)
  <1>1. /\ p \in Nat /\ c.state.payload_end \in Nat /\ c.state.str_total_len \in Nat
        /\ c.state.frag_offset \in Int /\ MaxRoom \in Nat /\ c.state \in State
        /\ c.state.elem_count \in Nat
    BY ContextFields, EncodeInputsAssumption DEF State
  <1>2. \/ r.ok = FALSE /\ r.mem = m
        \/ /\ ~ (Room(c.state) <= 0) /\ c.state.inside_frag_str
           /\ ~ (len > StringRemainder(c.state))
           /\ r = Wrote(d, o)
    BY DEF FragmentEncode, Stopped
  <1>3. ASSUME ~ (Room(c.state) <= 0), c.state.inside_frag_str,
               ~ (len > StringRemainder(c.state)), r = Wrote(d, o)
        PROVE  /\ r.ok = TRUE /\ n \in 1 .. len
               /\ n <= StringRemainder(c.state)
               /\ Grows(c, m, r.z, r.mem, T, 0)
               /\ r.z.state.inside_frag_str
               /\ r.z.state.payload = p + n
               /\ StringRemainder(r.z.state) = StringRemainder(c.state) - n
    <2>1. Room(c.state) = c.state.payload_end - p
      BY DEF Room
    <2>2. StringRemainder(c.state) = c.state.str_total_len - (p + c.state.frag_offset)
      BY <1>3 DEF StringRemainder, StringTotal, StringOffset
    <2>3. /\ n \in 1 .. len /\ n <= StringRemainder(c.state)
          /\ p + n <= c.state.payload_end
      <3> DEFINE end == c.state.payload_end
                 left == Room(c.state)
                 rem == StringRemainder(c.state)
      <3>1. left = end - p /\ left \in Int /\ ~ (left <= 0) /\ ~ (len > rem) /\ rem \in Int /\ end \in Nat
        BY <1>1, <1>3, <2>1, <2>2
      <3>2. (n = left /\ left < len) \/ (n = len /\ ~ (left < len))
        BY DEF Least
      <3> HIDE DEF n, left, rem, end, p
      <3>3. n \in 1 .. len /\ n <= rem /\ p + n <= end
        BY <1>1, <3>1, <3>2 DEF p
      <3> QED BY <3>3 DEF rem, end
    <2> HIDE DEF n
    <2>4. n \in Nat /\ p + n <= MaxRoom
      <3> DEFINE end == c.state.payload_end
      <3>1. end \in Nat /\ end <= MaxRoom /\ p + n <= end
        BY <1>1, <2>3
      <3> HIDE DEF end, p
      <3> QED BY <1>1, <2>3, <3>1 DEF p
    <2>5. T \in Seq(Byte) /\ Len(T) = n
      BY <2>4, DataType
    <2>6. Put(m, o, p, T)
      <3> HIDE DEF T, p
      <3>1. p \in Nat
        BY <1>1
      <3> QED BY <2>4, <2>5, <3>1, WriteGives
    <2>7. Counts(c, d, n, 0)
      BY <2>4, AdvancedCounts
    <2>8. r.ok = TRUE /\ r.z = d /\ r.mem = o
      <3> HIDE DEF r, d, o
      <3> QED BY <1>3 DEF Wrote
    <2>9. d.state.frag_offset = c.state.frag_offset /\ d.state.str_total_len = c.state.str_total_len
      <3> DEFINE q == p + n
      <3>1. d = [c EXCEPT !.state.payload = q]
        BY DEF Advanced
      <3> HIDE DEF q, d
      <3> QED BY <1>1, <3>1 DEF Context, State
    <2> HIDE DEF d, o, T, r
    <2>10. Grows(c, m, d, o, T, 0)
      BY <2>5, <2>6, <2>7 DEF Counts, Grows
    <2>11. d.state.inside_frag_str /\ d.state.payload = p + n
      BY <1>3, <2>7 DEF Counts
    <2>12. StringRemainder(d.state) = c.state.str_total_len - (p + n + c.state.frag_offset)
      BY <2>9, <2>11 DEF StringRemainder, StringTotal, StringOffset
    <2>13. StringRemainder(d.state) = StringRemainder(c.state) - n
      <3> DEFINE t == c.state.str_total_len
                 f == c.state.frag_offset
      <3>1. t \in Nat /\ f \in Int /\ p \in Nat
        BY <1>1
      <3>2. StringRemainder(c.state) = t - (p + f) /\ StringRemainder(d.state) = t - (p + n + f)
        BY <2>2, <2>12
      <3> HIDE DEF t, f, p
      <3> QED BY <2>4, <3>1, <3>2
    <2> QED BY <2>3, <2>8, <2>10, <2>11, <2>13
  <1> HIDE DEF r, d, o, n
  <1>4. ASSUME r.ok
        PROVE  \E k \in 1 .. len :
                        /\ k <= StringRemainder(c.state)
                        /\ Grows(c, m, r.z, r.mem, Data(from, k), 0)
                        /\ r.z.state.inside_frag_str
                        /\ r.z.state.payload = c.state.payload + k
                        /\ StringRemainder(r.z.state) = StringRemainder(c.state) - k
    <2>1. /\ n \in 1 .. len
          /\ n <= StringRemainder(c.state)
          /\ Grows(c, m, r.z, r.mem, T, 0)
          /\ r.z.state.inside_frag_str
          /\ r.z.state.payload = p + n
          /\ StringRemainder(r.z.state) = StringRemainder(c.state) - n
      BY <1>2, <1>3, <1>4
    <2> QED BY <2>1
  <1>5. ~ r.ok => r.mem = m
    BY <1>2, <1>3
  <1> QED BY <1>4, <1>5 DEF r

(* A string of fragments ends only when nothing of it remains.             *)
LEMMA FragmentsEndWrites ==
    ASSUME NEW c \in Context, NEW m \in Memory, c.state.inside_frag_str
    PROVE  LET r == FragmentsEndEncode(c, m) IN
           /\ r.mem = m
           /\ r.ok => OutOfPlain(c, r.z) /\ StringRemainder(c.state) = 0
  <1> DEFINE r == FragmentsEndEncode(c, m)
             d == [c EXCEPT !.state.inside_frag_str = FALSE]
  <1>1. \/ r.ok = FALSE /\ r.mem = m
        \/ r = Wrote(d, m) /\ StringRemainder(c.state) = 0
    BY DEF FragmentsEndEncode, Stopped
  <1>2. OutOfPlain(c, d)
    BY SetOutOfPlain
  <1> HIDE DEF r, d
  <1>3. ASSUME r = Wrote(d, m) PROVE r.ok = TRUE /\ r.z = d /\ r.mem = m
    BY <1>3 DEF Wrote
  <1>4. r.mem = m /\ (r.ok => OutOfPlain(c, r.z) /\ StringRemainder(c.state) = 0)
    BY <1>1, <1>2, <1>3
  <1> QED BY <1>4 DEF r


-----------------------------------------------------------------------------
(* Where the constructs of the caller are in the document.                 *)

(* A construct lies behind the headers of the outer ones.                  *)
Ordered(fs) == \A i, j \in DOMAIN fs : i < j => BodyAt(fs, i) <= fs[j].at

(* The header of an open container or CBOR string can be read where it is  *)
(* said to be.  (That of a zcbor_bstr_start_encode is a dummy.)            *)
HeaderRead(s, m, f) ==
    LET kind == IF f.kind = "cborfrag" THEN "bstr" ELSE f.kind
    IN  Reads(s, m, f.at, Header(kind, f.hint))

HeadersWritten(s, m, fs) ==
    \A i \in DOMAIN fs :
        fs[i].kind \in Containers \cup {"cborfrag"} => HeaderRead(s, m, fs[i])

(* Frame i is the innermost CBOR string of the first k frames.             *)
LastString(fs, k, i) ==
    fs[i].kind = "cborfrag" /\ \A j \in 1 .. k : fs[j].kind = "cborfrag" => j <= i

(* A state in k frames knows where the innermost CBOR string begins and    *)
(* how long it was said to be.                                             *)
KnowsString(st, fs, k, base) ==
    \A i \in 1 .. k : LastString(fs, k, i) =>
        st.frag_offset_cbor = base - BodyAt(fs, i) /\ st.str_total_len_cbor = fs[i].hint

(* The backup of a construct is the state before its header.               *)
BackupPlaced(b, fs, i, c) ==
    /\ b.elem_count <= fs[i].at
    /\ fs[i].section = c.section => fs[i].at = c.base + b.payload
    /\ KnowsString(b, fs, i - 1, c.base)

BackupsPlaced(c, fs) == \A i \in DOMAIN fs : BackupPlaced(c.backup_list[i], fs, i, c)

Laid(c, m, s, fs) ==
    /\ c.base = Len(s)
    /\ Ordered(fs)
    /\ HeadersWritten(s, m, fs)
    /\ BackupsPlaced(c, fs)

PositionOf(c) == c.base + c.state.payload

(* The state itself, while no call has failed.  Every element took a byte. *)
OnTop(c, fs) ==
    /\ c.state.elem_count <= PositionOf(c)
    /\ \A i \in DOMAIN fs : BodyAt(fs, i) <= PositionOf(c)
    /\ KnowsString(c.state, fs, Len(fs), c.base)

(* The types of all that.                                                  *)
Typed(c, m, s, fs) ==
    /\ c \in Context /\ m \in Memory /\ s \in Seq(Byte) /\ fs \in Seq(Frame)
    /\ Len(fs) <= Len(c.backup_list)
    /\ c.state.payload <= MaxRoom

Written(c, m, s, fs) == Typed(c, m, s, fs) /\ Laid(c, m, s, fs) /\ OnTop(c, fs)

(* The levels as they are now.                                             *)
Now(c, m, s, fs) == LevelsOf(c, m, s, fs, Len(fs), PositionOf(c), c.state.elem_count)

(* The types of the parts of a session, one by one.                        *)
LEMMA TypedFields ==
    ASSUME NEW c, NEW m, NEW s, NEW fs, Typed(c, m, s, fs)
    PROVE  /\ Len(fs) \in Nat /\ Len(s) \in Nat /\ DOMAIN fs = 1 .. Len(fs)
           /\ c.backup_list \in Seq(State) /\ Len(c.backup_list) \in Nat
           /\ c.base \in Nat /\ c.section \in Nat
           /\ c.state \in State /\ c.state.payload \in Nat /\ c.state.elem_count \in Nat
           /\ PositionOf(c) \in Nat
           /\ \A i \in 1 .. Len(fs) :
                /\ c.backup_list[i] \in State /\ fs[i] \in Frame
                /\ BodyAt(fs, i) \in Nat /\ fs[i].at \in Nat /\ fs[i].at <= BodyAt(fs, i)
                /\ c.backup_list[i].elem_count \in Nat /\ c.backup_list[i].payload \in Nat
  <1>1. /\ c \in Context /\ m \in Memory /\ s \in Seq(Byte) /\ fs \in Seq(Frame)
        /\ Len(fs) <= Len(c.backup_list)
    BY DEF Typed
  <1>2. /\ c.state \in State /\ c.backup_list \in Seq(State) /\ Len(c.backup_list) \in Nat
        /\ c.base \in Nat /\ c.section \in Nat
    BY <1>1, ContextFields
  <1>3. c.state.payload \in Nat /\ c.state.elem_count \in Nat
    BY <1>2, MaxElemCountAssumption DEF State
  <1>4. PositionOf(c) \in Nat
    BY <1>2, <1>3 DEF PositionOf
  <1>5. Len(fs) \in Nat /\ Len(s) \in Nat /\ DOMAIN fs = 1 .. Len(fs)
    BY <1>1
  <1>6. ASSUME NEW i \in 1 .. Len(fs)
        PROVE  /\ c.backup_list[i] \in State /\ fs[i] \in Frame
               /\ BodyAt(fs, i) \in Nat /\ fs[i].at \in Nat /\ fs[i].at <= BodyAt(fs, i)
               /\ c.backup_list[i].elem_count \in Nat /\ c.backup_list[i].payload \in Nat
    <2>1. c.backup_list[i] \in State /\ fs[i] \in Frame
      BY <1>1, <1>2
    <2>2. i \in 0 .. Len(fs) /\ i > 0
      BY <1>5
    <2>3. BodyAt(fs, i) \in Nat /\ fs[i].at \in Nat /\ fs[i].at <= BodyAt(fs, i)
      BY <1>1, <2>2, BodyAtType
    <2>4. c.backup_list[i].elem_count \in Nat /\ c.backup_list[i].payload \in Nat
      BY <2>1, MaxElemCountAssumption DEF State
    <2> QED BY <2>1, <2>3, <2>4
  <1> QED BY <1>2, <1>3, <1>4, <1>5, <1>6

(* The levels of the first k frames can be read if they end in the section.*)
LEMMA LaidReadable ==
    ASSUME NEW c, NEW m, NEW s, NEW fs, Typed(c, m, s, fs), Ordered(fs),
           NEW k \in 0 .. Len(fs), NEW to \in Nat, to <= Len(s) + MaxRoom, NEW count \in Int,
           \A i \in 1 .. k : BodyAt(fs, i) <= to
    PROVE  Readable(c, m, s, fs, k, to, count)
  <1>1. /\ Len(fs) \in Nat /\ DOMAIN fs = 1 .. Len(fs) /\ Len(c.backup_list) \in Nat
        /\ \A i \in 1 .. Len(fs) : BodyAt(fs, i) \in Nat /\ fs[i].at \in Nat
    BY TypedFields
  <1>2. BodyAt(fs, 0) = 0
    BY DEF BodyAt
  <1>3. ASSUME NEW i \in 0 .. k PROVE BodyAt(fs, i) <= to
    BY <1>2
  <1>4. ASSUME NEW i \in 0 .. k, NEW j \in 0 .. k, i < j PROVE BodyAt(fs, i) <= fs[j].at
    <2>1. j \in 1 .. Len(fs)
      BY <1>1, <1>4
    <2>2. CASE i = 0
      BY <1>1, <1>2, <2>1, <2>2
    <2>3. CASE i # 0
      <3>1. i \in DOMAIN fs /\ j \in DOMAIN fs
        BY <1>1, <2>1, <2>3
      <3> QED BY <1>4, <3>1 DEF Ordered
    <2> QED BY <2>2, <2>3
  <1>5. k \in Nat /\ k <= Len(fs) /\ k <= Len(c.backup_list)
    BY <1>1 DEF Typed
  <1> QED BY <1>3, <1>4, <1>5 DEF Readable, Typed

(* A session whose bytes are in place has a document.                      *)
LEMMA WrittenReadable ==
    ASSUME NEW c, NEW m, NEW s, NEW fs, Written(c, m, s, fs)
    PROVE  Readable(c, m, s, fs, Len(fs), PositionOf(c), c.state.elem_count)
  <1>1. Typed(c, m, s, fs) /\ Ordered(fs) /\ c.base = Len(s)
    BY DEF Written, Laid
  <1>2. /\ Len(fs) \in Nat /\ DOMAIN fs = 1 .. Len(fs) /\ PositionOf(c) \in Nat
        /\ c.state.elem_count \in Nat /\ c.state.payload \in Nat /\ c.base \in Nat
    BY <1>1, TypedFields
  <1>3. PositionOf(c) <= Len(s) + MaxRoom
    BY <1>1, <1>2, EncodeInputsAssumption DEF PositionOf, Typed
  <1>4. \A i \in 1 .. Len(fs) : BodyAt(fs, i) <= PositionOf(c)
    BY <1>2 DEF Written, OnTop
  <1>5. Len(fs) \in 0 .. Len(fs) /\ c.state.elem_count \in Int
    BY <1>2
  <1> QED BY <1>1, <1>2, <1>3, <1>4, <1>5, LaidReadable

(* The position in the document moves with the payload pointer.            *)
LEMMA PositionMoves ==
    ASSUME NEW c, NEW d, NEW len \in Int, c.base \in Nat, c.state.payload \in Nat,
           d.base = c.base, d.state.payload = c.state.payload + len
    PROVE  PositionOf(d) = PositionOf(c) + len
  BY DEF PositionOf

(* What a state knows of its CBOR string it knows as long as the string's  *)
(* fields stay.                                                            *)
LEMMA KnowsSame ==
    ASSUME NEW st, NEW t, NEW fs, NEW gs, NEW k \in Nat, NEW base,
           SameCbor(st, t), KnowsString(st, fs, k, base),
           \A i \in 1 .. k : gs[i] = fs[i]
    PROVE  KnowsString(t, gs, k, base)
  <1> SUFFICES ASSUME NEW i \in 1 .. k, LastString(gs, k, i)
               PROVE  t.frag_offset_cbor = base - BodyAt(gs, i) /\ t.str_total_len_cbor = gs[i].hint
    BY DEF KnowsString
  <1>1. LastString(fs, k, i)
    BY DEF LastString
  <1>2. BodyAt(gs, i) = BodyAt(fs, i)
    BY DEF BodyAt
  <1> QED BY <1>1, <1>2 DEF KnowsString, SameCbor

(* What is before position p is the same.                                  *)
LEMMA HeaderSame ==
    ASSUME NEW s, NEW m, NEW t, NEW n, NEW p \in Nat, Agree(s, m, t, n, p),
           NEW f \in Frame, f.kind # "item", f.at + HeaderLen(f.hint) <= p,
           HeaderRead(s, m, f)
    PROVE  HeaderRead(t, n, f)
  <1> DEFINE kind == IF f.kind = "cborfrag" THEN "bstr" ELSE f.kind
             T == Header(kind, f.hint)
  <1>1. f.hint \in Nat /\ f.at \in Nat /\ HeaderLen(f.hint) \in 1 .. 9
    BY HeaderLenType DEF Frame
  <1>2. kind \in Kinds
    BY DEF Frame, Kinds, Containers
  <1>3. Len(T) = HeaderLen(f.hint)
    <2> DEFINE len == HeaderLen(f.hint)
    <2>1. len \in Nat
      BY <1>1
    <2> HIDE DEF kind, len
    <2>2. Len(Bytes(kind, f.hint, len)) = len
      BY <1>1, <1>2, <2>1, BytesType
    <2> QED BY <2>2 DEF Header, len
  <1> HIDE DEF T
  <1>4. Reads(s, m, f.at, T)
    BY DEF HeaderRead, T
  <1>5. ASSUME NEW i \in 1 .. Len(T) PROVE At(t, n, f.at + i - 1) = T[i]
    <2>1. f.at + i - 1 \in Nat /\ f.at + i - 1 < p
      BY <1>1, <1>3
    <2>2. At(s, m, f.at + i - 1) = T[i]
      BY <1>4 DEF Reads
    <2> QED BY <2>1, <2>2 DEF Agree
  <1>6. Reads(t, n, f.at, T)
    BY <1>5 DEF Reads
  <1> QED BY <1>6 DEF HeaderRead, T

(* The outer frames stay where they are.                                   *)
LEMMA LaidKept ==
    ASSUME NEW c, NEW m, NEW s, NEW fs, Typed(c, m, s, fs), Laid(c, m, s, fs),
           NEW d, NEW n, NEW gs, Typed(d, n, s, gs),
           d.base = c.base, d.section = c.section,
           Len(gs) <= Len(fs), \A i \in 1 .. Len(gs) : gs[i] = fs[i],
           \A i \in 1 .. Len(gs) : d.backup_list[i] = c.backup_list[i],
           NEW p \in Nat, Agree(s, m, s, n, p), \A i \in 1 .. Len(gs) : BodyAt(gs, i) <= p
    PROVE  Laid(d, n, s, gs)
  <1>1. /\ Len(fs) \in Nat /\ DOMAIN fs = 1 .. Len(fs)
        /\ Len(gs) \in Nat /\ DOMAIN gs = 1 .. Len(gs)
        /\ \A i \in 1 .. Len(gs) : gs[i] \in Frame
    BY TypedFields
  <1>2. \A i \in 1 .. Len(gs) : i \in DOMAIN fs
    BY <1>1
  <1>3. \A i \in 1 .. Len(gs) : BodyAt(gs, i) = BodyAt(fs, i)
    BY DEF BodyAt
  <1>4. Ordered(gs)
    BY <1>1, <1>2, <1>3 DEF Ordered, Laid
  <1>5. HeadersWritten(s, n, gs)
    <2> SUFFICES ASSUME NEW i \in 1 .. Len(gs), gs[i].kind \in Containers \cup {"cborfrag"}
                 PROVE  HeaderRead(s, n, gs[i])
      BY <1>1 DEF HeadersWritten
    <2>1. HeaderRead(s, m, gs[i])
      BY <1>2 DEF Laid, HeadersWritten
    <2>2. gs[i] \in Frame /\ gs[i].kind # "item" /\ BodyAt(gs, i) <= p
      BY <1>1 DEF Containers
    <2>3. gs[i].at + HeaderLen(gs[i].hint) <= p
      BY <1>1, <2>2 DEF BodyAt
    <2> QED BY <2>1, <2>2, <2>3, HeaderSame
  <1>6. BackupsPlaced(d, gs)
    <2> SUFFICES ASSUME NEW i \in 1 .. Len(gs) PROVE BackupPlaced(d.backup_list[i], gs, i, d)
      BY <1>1 DEF BackupsPlaced
    <2>1. BackupPlaced(c.backup_list[i], fs, i, c)
      BY <1>2 DEF Laid, BackupsPlaced
    <2>2. d.backup_list[i] = c.backup_list[i] /\ gs[i] = fs[i] /\ i - 1 \in Nat
      BY <1>1
    <2>3. KnowsString(c.backup_list[i], fs, i - 1, c.base)
      BY <2>1 DEF BackupPlaced
    <2>4. \A j \in 1 .. i - 1 : gs[j] = fs[j]
      BY <1>1
    <2>5. SameCbor(c.backup_list[i], c.backup_list[i])
      BY DEF SameCbor
    <2>6. KnowsString(c.backup_list[i], gs, i - 1, c.base)
      BY <2>2, <2>3, <2>4, <2>5, KnowsSame
    <2> QED BY <2>1, <2>2, <2>6 DEF BackupPlaced
  <1> QED BY <1>4, <1>5, <1>6 DEF Laid


(* Something is written behind what there is.                              *)
LEMMA WrittenGrows ==
    ASSUME NEW c, NEW m, NEW s, NEW fs, Written(c, m, s, fs),
           NEW d, NEW n, NEW T, NEW items \in Int, Grows(c, m, d, n, T, items),
           items <= Len(T), d.state.payload <= MaxRoom
    PROVE  /\ Written(d, n, s, fs)
           /\ Now(d, n, s, fs) = Doc!With(Now(c, m, s, fs), T, items)
  <1> DEFINE p == PositionOf(c)
             q == PositionOf(d)
  <1>1. Typed(c, m, s, fs) /\ Laid(c, m, s, fs) /\ OnTop(c, fs)
    BY DEF Written
  <1>2. /\ Len(fs) \in Nat /\ DOMAIN fs = 1 .. Len(fs) /\ Len(s) \in Nat
        /\ c.base \in Nat /\ c.state.payload \in Nat /\ c.state.elem_count \in Nat
        /\ p \in Nat /\ m \in Memory /\ s \in Seq(Byte) /\ fs \in Seq(Frame)
        /\ Len(fs) <= Len(c.backup_list) /\ c.state.payload <= MaxRoom
        /\ p = c.base + c.state.payload /\ c.base = Len(s)
        /\ \A i \in 1 .. Len(fs) : BodyAt(fs, i) \in Nat
    BY <1>1, TypedFields DEF Typed, Laid, PositionOf
  <1>3. /\ T \in Seq(Byte) /\ Len(T) \in Nat
        /\ d \in Context /\ d.backup_list = c.backup_list
        /\ d.base = c.base /\ d.section = c.section
        /\ SameCbor(c.state, d.state)
        /\ d.state.payload = c.state.payload + Len(T)
        /\ d.state.elem_count = c.state.elem_count + items
        /\ Put(m, n, c.state.payload, T) /\ n \in Memory
    BY DEF Grows, Same, Put
  <1>4. Typed(d, n, s, fs)
    BY <1>2, <1>3 DEF Typed
  <1>5. q \in Nat /\ q = p + Len(T) /\ d.state.elem_count \in Nat
    <2>1. d.state.elem_count \in Nat /\ d.state.payload \in Nat
      BY <1>4, TypedFields
    <2>2. q = p + Len(T)
      <3>1. Len(T) \in Int
        BY <1>3
      <3> QED BY <1>2, <1>3, <3>1, PositionMoves
    <2> HIDE DEF p, q
    <2>3. p + Len(T) \in Nat
      BY <1>2, <1>3
    <2> QED BY <2>1, <2>2, <2>3
  <1>6. Agree(s, m, s, n, p) /\ Reads(s, n, p, T)
    BY <1>2, <1>3, PutLogical
  <1>7. \A i \in 1 .. Len(fs) : BodyAt(fs, i) <= p
    BY <1>1, <1>2 DEF OnTop
  <1>8. Laid(d, n, s, fs)
    <2> HIDE DEF p, q
    <2>1. Len(fs) <= Len(fs)
      BY <1>2
    <2> QED BY <1>1, <1>2, <1>3, <1>4, <1>6, <1>7, <2>1, LaidKept
  <1>9. OnTop(d, fs)
    <2>1. d.state.elem_count <= q
      <3>1. c.state.elem_count <= p
        BY <1>1 DEF OnTop
      <3>2. d.state.elem_count = c.state.elem_count + items /\ c.state.elem_count \in Nat
        BY <1>2, <1>3
      <3>3. p \in Nat /\ q = p + Len(T) /\ Len(T) \in Nat /\ items <= Len(T)
        BY <1>2, <1>3, <1>5
      <3> HIDE DEF p, q
      <3> DEFINE count == c.state.elem_count
                 after == d.state.elem_count
                 len == Len(T)
      <3>4. /\ count <= p /\ after = count + items /\ count \in Nat
            /\ p \in Nat /\ q = p + len /\ len \in Nat /\ items <= len
        BY <3>1, <3>2, <3>3
      <3>5. items \in Int
        OBVIOUS
      <3> HIDE DEF count, after, len
      <3>6. after <= q
        BY ONLY <3>4, <3>5
      <3> QED BY <3>6 DEF after
    <2>2. \A i \in 1 .. Len(fs) : BodyAt(fs, i) <= q
      <3> SUFFICES ASSUME NEW i \in 1 .. Len(fs) PROVE BodyAt(fs, i) <= q
        OBVIOUS
      <3> DEFINE len == Len(T)
                 body == BodyAt(fs, i)
      <3> HIDE DEF p, q
      <3>1. body <= p /\ body \in Nat
        BY <1>2, <1>7
      <3>2. p \in Nat /\ q = p + len /\ len \in Nat
        BY <1>2, <1>3, <1>5
      <3> HIDE DEF len, body
      <3>3. body <= q
        BY ONLY <3>1, <3>2
      <3> QED BY <3>3 DEF body
    <2>3. KnowsString(d.state, fs, Len(fs), d.base)
      <3>1. KnowsString(c.state, fs, Len(fs), c.base)
        BY <1>1 DEF OnTop
      <3> QED BY <1>2, <1>3, <3>1, KnowsSame
    <2> QED BY <1>2, <2>1, <2>2, <2>3 DEF OnTop
  <1>10. Written(d, n, s, fs)
    BY <1>4, <1>8, <1>9 DEF Written
  <1>11. /\ Readable(c, m, s, fs, Len(fs), p, c.state.elem_count)
         /\ Readable(d, n, s, fs, Len(fs), q, c.state.elem_count + items)
    BY <1>3, <1>10, WrittenReadable
  <1>12. Alike(c, fs, d, fs, Len(fs))
    BY <1>3 DEF Alike
  <1> DEFINE count == c.state.elem_count
             k == Len(fs)
  <1>13. Now(d, n, s, fs) = LevelsOf(d, n, s, fs, k, q, count + items)
         /\ Now(c, m, s, fs) = LevelsOf(c, m, s, fs, k, p, count)
    BY <1>3 DEF Now
  <1> HIDE DEF p, q, count, k
  <1>14. LevelsOf(d, n, s, fs, k, q, count + items)
                = Doc!With(LevelsOf(c, m, s, fs, k, p, count), T, items)
    BY <1>3, <1>5, <1>6, <1>11, <1>12, LevelsGrow DEF count, k
  <1> QED BY <1>10, <1>13, <1>14

(* A construct is opened, its header written.                              *)
HeaderKind(kind) == IF kind = "cborfrag" THEN "bstr" ELSE kind

HeaderOf(g) == IF g.kind = "item" THEN << >> ELSE Header(HeaderKind(g.kind), g.hint)

FirstCount(g, count) ==
    IF g.kind = "item" THEN count ELSE IF g.kind \in Containers THEN 0 ELSE 1

(* The header of a frame, and its length.                                  *)
LEMMA HeaderOfType ==
    ASSUME NEW g \in Frame
    PROVE  /\ HeaderOf(g) \in Seq(Byte)
           /\ Len(HeaderOf(g)) = IF g.kind = "item" THEN 0 ELSE HeaderLen(g.hint)
           /\ Len(HeaderOf(g)) \in Nat
           /\ g.kind # "item" => Len(HeaderOf(g)) >= 1
  <1>1. /\ g.hint \in Nat /\ HeaderLen(g.hint) \in 1 .. 9
        /\ g.kind # "item" => HeaderKind(g.kind) \in Kinds
    BY HeaderLenType DEF Frame, HeaderKind, Kinds, Containers
  <1>2. CASE g.kind = "item"
    BY <1>2 DEF HeaderOf
  <1>3. CASE g.kind # "item"
    <2> DEFINE kind == HeaderKind(g.kind)
               len == HeaderLen(g.hint)
    <2>1. HeaderOf(g) = Bytes(kind, g.hint, len)
      BY <1>3 DEF HeaderOf, Header
    <2>2. kind \in Kinds /\ len \in Nat /\ len >= 1
      BY <1>1, <1>3
    <2> HIDE DEF kind, len
    <2>3. Bytes(kind, g.hint, len) \in Seq(Byte) /\ Len(Bytes(kind, g.hint, len)) = len
      BY <1>1, <2>2, BytesType
    <2> QED BY <1>3, <2>1, <2>2, <2>3 DEF len
  <1> QED BY <1>2, <1>3


(* A construct that starts is a new innermost level of the document.       *)
LEMMA WrittenOpens ==
    ASSUME NEW c, NEW m, NEW s, NEW fs, Written(c, m, s, fs), Len(c.backup_list) = Len(fs),
           NEW g \in Frame, g.at = PositionOf(c), g.section = c.section,
           NEW d, NEW n,
           Starts(c, m, d, n, HeaderOf(g), FirstCount(g, c.state.elem_count)),
           IF g.kind = "cborfrag"
           THEN /\ d.state.frag_offset_cbor = 0 - d.state.payload
                /\ d.state.str_total_len_cbor = g.hint
           ELSE SameCbor(c.state, d.state),
           d.state.payload <= MaxRoom
    PROVE  /\ Written(d, n, s, Append(fs, g))
           /\ Now(d, n, s, Append(fs, g))
                = Append(Now(c, m, s, fs), Doc!NewLevel(HeaderKind(g.kind)))
  <1> DEFINE p == PositionOf(c)
             q == PositionOf(d)
             gs == Append(fs, g)
             k == Len(fs)
             T == HeaderOf(g)
             first == FirstCount(g, c.state.elem_count)
  <1>1. Typed(c, m, s, fs) /\ Laid(c, m, s, fs) /\ OnTop(c, fs)
    BY DEF Written
  <1>2. /\ k \in Nat /\ DOMAIN fs = 1 .. k /\ Len(s) \in Nat
        /\ c.base \in Nat /\ c.state.payload \in Nat /\ c.state.elem_count \in Nat
        /\ p \in Nat /\ m \in Memory /\ s \in Seq(Byte) /\ fs \in Seq(Frame)
        /\ c.state.payload <= MaxRoom
        /\ c.backup_list \in Seq(State)
        /\ p = c.base + c.state.payload /\ c.base = Len(s)
        /\ \A i \in 1 .. k : BodyAt(fs, i) \in Nat /\ fs[i] \in Frame
    BY <1>1, TypedFields DEF Typed, Laid, PositionOf
  <1>3. PICK b \in State :
            /\ d.backup_list = Append(c.backup_list, b)
            /\ b.payload = c.state.payload /\ b.elem_count = c.state.elem_count
            /\ SameCbor(c.state, b)
    BY DEF Starts
  <1>4. /\ T \in Seq(Byte) /\ Len(T) \in Nat
        /\ g.kind # "item" => Len(T) >= 1
    BY HeaderOfType
  <1>5. /\ d \in Context /\ d.base = c.base /\ d.section = c.section
        /\ d.state.payload = c.state.payload + Len(T)
        /\ d.state.elem_count = first
        /\ Put(m, n, c.state.payload, T) /\ n \in Memory
    BY DEF Starts, Put
  <1>6. /\ gs \in Seq(Frame) /\ Len(gs) = k + 1 /\ gs[k + 1] = g /\ DOMAIN gs = 1 .. k + 1
        /\ \A i \in 1 .. k : gs[i] = fs[i]
    BY <1>2
  <1>7. /\ Len(d.backup_list) = k + 1 /\ d.backup_list[k + 1] = b
        /\ \A i \in 1 .. k : d.backup_list[i] = c.backup_list[i]
    BY <1>2, <1>3
  <1> HIDE DEF T, gs
  <1>8. Typed(d, n, s, gs) /\ Typed(d, n, s, fs)
    BY <1>2, <1>5, <1>6, <1>7 DEF Typed
  <1>9. q \in Nat /\ q = p + Len(T)
    <2>1. q = p + Len(T)
      <3>1. Len(T) \in Int
        BY <1>4
      <3> QED BY <1>2, <1>5, <3>1, PositionMoves
    <2> HIDE DEF p, q
    <2>2. p + Len(T) \in Nat
      BY <1>2, <1>4
    <2> QED BY <2>1, <2>2
  <1>10. Agree(s, m, s, n, p) /\ Reads(s, n, p, T)
    BY <1>2, <1>4, <1>5, PutLogical
  <1>11. \A i \in 1 .. k : BodyAt(fs, i) <= p /\ BodyAt(gs, i) = BodyAt(fs, i)
    <2>1. \A i \in 1 .. k : BodyAt(fs, i) <= p
      BY <1>1, <1>2 DEF OnTop
    <2>2. \A i \in 1 .. k : BodyAt(gs, i) = BodyAt(fs, i)
      BY <1>6 DEF BodyAt
    <2> QED BY <2>1, <2>2
  <1>12. BodyAt(gs, k + 1) = q
    <2>1. g.at \in Nat /\ k + 1 # 0 /\ HeaderLen(g.hint) \in 1 .. 9
      BY <1>2, HeaderLenType DEF Frame
    <2>2. CASE g.kind = "item"
      <3>1. BodyAt(gs, k + 1) = g.at + 0 /\ Len(T) = 0
        BY <1>6, <2>1, <2>2, HeaderOfType DEF BodyAt, T
      <3> QED BY <1>2, <1>9, <2>1, <3>1
    <2>3. CASE g.kind # "item"
      <3>1. BodyAt(gs, k + 1) = g.at + HeaderLen(g.hint) /\ Len(T) = HeaderLen(g.hint)
        BY <1>6, <2>1, <2>3, HeaderOfType DEF BodyAt, T
      <3> QED BY <1>9, <3>1
    <2> QED BY <2>2, <2>3
  <1>13. Laid(d, n, s, fs)
    <2>1. Len(fs) <= Len(fs)
      BY <1>2
    <2> HIDE DEF p, q
    <2> QED BY <1>1, <1>2, <1>5, <1>7, <1>8, <1>10, <1>11, <2>1, LaidKept
  <1>14. Ordered(gs)
    <2> SUFFICES ASSUME NEW i \in 1 .. k + 1, NEW j \in 1 .. k + 1, i < j
                 PROVE  BodyAt(gs, i) <= gs[j].at
      BY <1>6 DEF Ordered
    <2>1. i \in 1 .. k
      BY <1>2
    <2>2. CASE j = k + 1
      BY <1>6, <1>11, <2>1, <2>2
    <2>3. CASE j # k + 1
      <3>1. j \in 1 .. k
        BY <1>2, <2>3
      <3>2. BodyAt(fs, i) <= fs[j].at
        BY <1>2, <1>13, <2>1, <3>1 DEF Laid, Ordered
      <3> QED BY <1>6, <1>11, <2>1, <3>1, <3>2
    <2> QED BY <2>2, <2>3
  <1>15. HeadersWritten(s, n, gs)
    <2> SUFFICES ASSUME NEW i \in 1 .. k + 1, gs[i].kind \in Containers \cup {"cborfrag"}
                 PROVE  HeaderRead(s, n, gs[i])
      BY <1>6 DEF HeadersWritten
    <2>1. CASE i = k + 1
      <3>1. T = Header(HeaderKind(g.kind), g.hint)
        BY <1>6, <2>1 DEF T, HeaderOf, Containers
      <3> QED BY <1>6, <1>10, <2>1, <3>1 DEF HeaderRead, HeaderKind
    <2>2. CASE i # k + 1
      <3>1. i \in 1 .. k
        BY <1>2, <2>2
      <3> QED BY <1>2, <1>6, <1>13, <3>1 DEF Laid, HeadersWritten
    <2> QED BY <2>1, <2>2
  <1>16. BackupsPlaced(d, gs)
    <2> SUFFICES ASSUME NEW i \in 1 .. k + 1 PROVE BackupPlaced(d.backup_list[i], gs, i, d)
      BY <1>6 DEF BackupsPlaced
    <2>1. CASE i = k + 1
      <3>1. KnowsString(c.state, fs, k, c.base)
        BY <1>1 DEF OnTop
      <3>2. KnowsString(b, gs, k, c.base)
        BY <1>2, <1>3, <1>6, <3>1, KnowsSame, ZenonT(40)
      <3>3. b.elem_count <= g.at
        BY <1>1, <1>3 DEF OnTop
      <3>4. g.at = d.base + b.payload
        BY <1>2, <1>3, <1>5
      <3>5. k + 1 - 1 = k
        BY <1>2
      <3>6. i - 1 = k /\ gs[i] = g /\ d.backup_list[i] = b
        BY <1>2, <1>6, <1>7, <2>1, <3>5
      <3> HIDE DEF k, p, q
      <3> QED BY <1>5, <3>2, <3>3, <3>4, <3>6 DEF BackupPlaced
    <2>2. CASE i # k + 1
      <3>1. i \in 1 .. k /\ i - 1 \in Nat
        BY <1>2, <2>2
      <3>2. BackupPlaced(d.backup_list[i], fs, i, d)
        BY <1>2, <1>13, <3>1 DEF Laid, BackupsPlaced
      <3>3. \A j \in 1 .. i - 1 : gs[j] = fs[j]
        BY <1>2, <1>6, <3>1
      <3>4. SameCbor(d.backup_list[i], d.backup_list[i])
        BY DEF SameCbor
      <3>5. KnowsString(d.backup_list[i], gs, i - 1, d.base)
        BY <3>1, <3>2, <3>3, <3>4, KnowsSame DEF BackupPlaced
      <3> QED BY <1>6, <3>1, <3>2, <3>5 DEF BackupPlaced
    <2> QED BY <2>1, <2>2
  <1>17. Laid(d, n, s, gs)
    BY <1>13, <1>14, <1>15, <1>16 DEF Laid
  <1>18. d.state.elem_count <= q
    <2>1. c.state.elem_count <= p
      BY <1>1 DEF OnTop
    <2>2. CASE g.kind = "item"
      <3>1. d.state.elem_count = c.state.elem_count
        BY <1>5, <2>2 DEF FirstCount
      <3> HIDE DEF p, q
      <3> QED BY <1>2, <1>4, <1>9, <2>1, <3>1, SMTT(30)
    <2>3. CASE g.kind # "item"
      <3>1. d.state.elem_count = 0 \/ d.state.elem_count = 1
        BY <1>5, <2>3 DEF FirstCount
      <3> HIDE DEF p, q
      <3> QED BY <1>2, <1>4, <1>9, <2>3, <3>1
    <2> QED BY <2>2, <2>3
  <1>19. KnowsString(d.state, gs, k + 1, d.base)
    <2>1. CASE g.kind = "cborfrag"
      <3> SUFFICES ASSUME NEW i \in 1 .. k + 1, LastString(gs, k + 1, i)
                   PROVE  d.state.frag_offset_cbor = d.base - BodyAt(gs, i) /\ d.state.str_total_len_cbor = gs[i].hint
        BY DEF KnowsString
      <3>1. k + 1 \in 1 .. k + 1
        BY <1>2
      <3>2. i = k + 1
        BY <1>2, <1>6, <2>1, <3>1 DEF LastString
      <3>3. d.base - q = 0 - d.state.payload
        BY <1>2, <1>5, <1>4 DEF PositionOf
      <3> HIDE DEF q
      <3> QED BY <1>6, <1>12, <2>1, <3>2, <3>3
    <2>2. CASE g.kind # "cborfrag"
      <3> SUFFICES ASSUME NEW i \in 1 .. k + 1, LastString(gs, k + 1, i)
                   PROVE  d.state.frag_offset_cbor = d.base - BodyAt(gs, i) /\ d.state.str_total_len_cbor = gs[i].hint
        BY DEF KnowsString
      <3>1. i \in 1 .. k
        BY <1>2, <1>6, <2>2 DEF LastString
      <3>2. LastString(fs, k, i)
        BY <1>2, <1>6, <3>1 DEF LastString
      <3>3. KnowsString(c.state, fs, k, c.base)
        BY <1>1 DEF OnTop
      <3>4. c.state.frag_offset_cbor = c.base - BodyAt(fs, i) /\ c.state.str_total_len_cbor = fs[i].hint
        BY <3>1, <3>2, <3>3 DEF KnowsString
      <3> QED BY <1>5, <1>6, <1>11, <2>2, <3>1, <3>4 DEF SameCbor
    <2> QED BY <2>1, <2>2
  <1>20. OnTop(d, gs)
    <2>1. \A i \in 1 .. k + 1 : BodyAt(gs, i) <= q
      <3> SUFFICES ASSUME NEW i \in 1 .. k + 1 PROVE BodyAt(gs, i) <= q
        OBVIOUS
      <3>1. i = k + 1 \/ i \in 1 .. k
        BY <1>2
      <3> HIDE DEF p, q
      <3> QED BY <1>2, <1>4, <1>9, <1>11, <1>12, <3>1, SMTT(30)
    <2> QED BY <1>6, <1>18, <1>19, <2>1 DEF OnTop
  <1>21. Written(d, n, s, gs)
    BY <1>8, <1>17, <1>20 DEF Written
  <1>22. /\ Readable(c, m, s, fs, k, p, c.state.elem_count)
         /\ Readable(d, n, s, gs, k + 1, q, d.state.elem_count)
    BY <1>6, <1>21, WrittenReadable
  <1>23. Alike(c, fs, d, gs, k)
    BY <1>6, <1>7 DEF Alike
  <1> DEFINE count == c.state.elem_count
             number == d.state.elem_count
  <1>24. /\ Now(d, n, s, gs) = LevelsOf(d, n, s, gs, k + 1, q, number)
         /\ Now(c, m, s, fs) = LevelsOf(c, m, s, fs, k, p, count)
    BY <1>6 DEF Now
  <1>25. gs[k + 1].at = p /\ d.backup_list[k + 1].elem_count = count
    BY <1>3, <1>6, <1>7
  <1>26. number = CountBefore(d, gs, k + 1)
    BY <1>2, <1>3, <1>5, <1>6, <1>7 DEF CountBefore, FirstCount
  <1>27. KindAt(gs, k + 1) = HeaderKind(g.kind)
    BY <1>2, <1>6 DEF KindAt, HeaderKind
  <1> DEFINE h == k + 1
  <1> HIDE DEF p, q, count, number, k
  <1>28. LevelsOf(d, n, s, gs, h, q, number)
                = Append(LevelsOf(c, m, s, fs, k, p, count), Doc!NewLevel(KindAt(gs, h)))
    <2>1. Readable(c, m, s, fs, k, p, count) /\ Readable(d, n, s, gs, h, q, number)
      BY <1>22 DEF count, number
    <2>2. Agree(s, m, s, n, p)
      BY <1>10
    <2>3. gs[h].at = p /\ d.backup_list[h].elem_count = count /\ BodyAt(gs, h) = q
          /\ number = CountBefore(d, gs, h) /\ h = k + 1
      BY <1>12, <1>25, <1>26
    <2> HIDE DEF h
    <2>4. OneMore(c, m, s, fs, k, p, count, d, n, s, gs, h, q, number)
      BY <1>23, <2>1, <2>2, <2>3 DEF OneMore
    <2> QED BY ONLY <2>4, LevelsOpen
  <1> QED BY <1>21, <1>24, <1>27, <1>28 DEF gs


(* The innermost construct is closed: what is written from its header on   *)
(* becomes T, which counts as items elements of the construct outside.     *)
Ends(c, m, s, fs, d, n, T, items) ==
    /\ Pulled(c, d)
    /\ d.state.elem_count = Top(c.backup_list).elem_count + items
    /\ d.state.elem_count <= PositionOf(d)
    /\ \/ SameCbor(Top(c.backup_list), d.state)
       \/ Top(fs).kind = "item" /\ SameCbor(c.state, d.state)
    /\ d.state.payload <= MaxRoom
    /\ T \in Seq(Byte) /\ n \in Memory
    /\ PositionOf(d) = Top(fs).at + Len(T)
    /\ Agree(s, m, s, n, Top(fs).at)
    /\ Reads(s, n, Top(fs).at, T)

(* A construct that ends is text of the level around it.                   *)
LEMMA WrittenEnds ==
    ASSUME NEW c, NEW m, NEW s, NEW fs, Written(c, m, s, fs), Len(c.backup_list) = Len(fs),
           fs # << >>, NEW d, NEW n, NEW T, NEW items \in Int,
           Ends(c, m, s, fs, d, n, T, items)
    PROVE  /\ Written(d, n, s, Popped(fs))
           /\ Now(d, n, s, Popped(fs))
                = Doc!With(SubSeq(Now(c, m, s, fs), 1, Len(fs)), T, items)
  <1> DEFINE gs == Popped(fs)
             k == Len(fs)
             h == k - 1
             b == c.backup_list[k]
             p == fs[k].at
             q == PositionOf(d)
             count == b.elem_count
  <1>1. Typed(c, m, s, fs) /\ Laid(c, m, s, fs) /\ OnTop(c, fs)
    BY DEF Written
  <1>2. /\ k \in Nat /\ DOMAIN fs = 1 .. k /\ Len(s) \in Nat
        /\ m \in Memory /\ s \in Seq(Byte) /\ fs \in Seq(Frame)
        /\ c.backup_list \in Seq(State)
        /\ \A i \in 1 .. k : BodyAt(fs, i) \in Nat /\ fs[i] \in Frame /\ fs[i].at \in Nat
    BY <1>1, TypedFields DEF Typed
  <1>3. k \in 1 .. k /\ h \in Nat /\ h \in 0 .. k /\ k # 0
    BY <1>2
  <1>4. p \in Nat /\ count \in Nat
    BY <1>1, <1>3, TypedFields
  <1>5. /\ Top(c.backup_list) = b /\ Top(fs) = fs[k]
        /\ gs \in Seq(Frame) /\ Len(gs) = h /\ DOMAIN gs = 1 .. h
        /\ \A i \in 1 .. h : gs[i] = fs[i]
    BY <1>2, <1>3, Prefix DEF Top, Popped
  <1>6. /\ d \in Context /\ d.base = c.base /\ d.section = c.section
        /\ Len(d.backup_list) = h
        /\ \A i \in 1 .. h : d.backup_list[i] = c.backup_list[i]
    <2>1. d \in Context /\ d.base = c.base /\ d.section = c.section
          /\ d.backup_list = SubSeq(c.backup_list, 1, h)
      BY DEF Ends, Pulled, Popped
    <2>2. h \in 0 .. Len(c.backup_list)
      BY <1>3
    <2> QED BY <1>2, <2>1, <2>2, Prefix
  <1>7. /\ d.state.elem_count = count + items
        /\ d.state.elem_count <= q
        /\ SameCbor(b, d.state) \/ (fs[k].kind = "item" /\ SameCbor(c.state, d.state))
        /\ d.state.payload <= MaxRoom
        /\ T \in Seq(Byte) /\ Len(T) \in Nat /\ n \in Memory
        /\ q = p + Len(T)
        /\ Agree(s, m, s, n, p)
        /\ Reads(s, n, p, T)
    <2> DEFINE bb == Top(c.backup_list)
               f == Top(fs)
    <2>1. bb = b /\ f = fs[k]
      BY <1>5
    <2>2. /\ d.state.elem_count = bb.elem_count + items
          /\ d.state.elem_count <= q
          /\ SameCbor(bb, d.state) \/ (f.kind = "item" /\ SameCbor(c.state, d.state))
          /\ d.state.payload <= MaxRoom
          /\ T \in Seq(Byte) /\ n \in Memory
          /\ q = f.at + Len(T)
          /\ Agree(s, m, s, n, f.at)
          /\ Reads(s, n, f.at, T)
      BY DEF Ends
    <2>3. Len(T) \in Nat
      BY <2>2
    <2> HIDE DEF bb, f, q, b, k
    <2> QED BY <2>1, <2>2, <2>3
  <1> HIDE DEF gs
  <1>8. Typed(d, n, s, gs)
    <2>1. Len(gs) <= Len(d.backup_list)
      BY <1>3, <1>5, <1>6
    <2> QED BY <1>2, <1>5, <1>6, <1>7, <2>1 DEF Typed
  <1>9. \A i \in 1 .. h : BodyAt(gs, i) <= p /\ BodyAt(gs, i) = BodyAt(fs, i)
    <2> SUFFICES ASSUME NEW i \in 1 .. h
                 PROVE  BodyAt(gs, i) <= p /\ BodyAt(gs, i) = BodyAt(fs, i)
      OBVIOUS
    <2>1. i \in 1 .. k /\ i < k
      BY <1>2, <1>3
    <2>2. BodyAt(fs, i) <= p
      BY <1>1, <1>2, <1>3, <2>1 DEF Laid, Ordered
    <2>3. BodyAt(gs, i) = BodyAt(fs, i)
      BY <1>5 DEF BodyAt
    <2> QED BY <2>2, <2>3
  <1>10. Laid(d, n, s, gs)
    <2>1. Len(gs) <= Len(fs)
      BY <1>3, <1>5
    <2> HIDE DEF p, q
    <2> QED BY <1>1, <1>4, <1>5, <1>6, <1>7, <1>8, <1>9, <2>1, LaidKept
  <1>11. OnTop(d, gs)
    <2>1. \A i \in 1 .. h : BodyAt(gs, i) <= q
      <3> SUFFICES ASSUME NEW i \in 1 .. h PROVE BodyAt(gs, i) <= q
        OBVIOUS
      <3>1. i \in 1 .. k /\ BodyAt(fs, i) \in Nat
        BY <1>2, <1>3
      <3> HIDE DEF p, q, h
      <3> QED BY <1>4, <1>7, <1>9, <3>1
    <2>2. KnowsString(b, fs, h, c.base)
      BY <1>1, <1>2, <1>3 DEF Laid, BackupsPlaced, BackupPlaced
    <2>3. KnowsString(d.state, gs, h, d.base)
      <3>1. CASE SameCbor(b, d.state)
        BY <1>3, <1>5, <1>6, <2>2, <3>1, KnowsSame
      <3>2. CASE fs[k].kind = "item" /\ SameCbor(c.state, d.state)
        <4>1. KnowsString(c.state, fs, k, c.base)
          BY <1>1 DEF OnTop
        <4>2. \A i \in 1 .. h : i \in 1 .. k /\ (LastString(fs, h, i) => LastString(fs, k, i))
          BY <1>2, <1>3, <3>2 DEF LastString
        <4>3. KnowsString(c.state, fs, h, c.base)
          BY <4>1, <4>2 DEF KnowsString
        <4> QED BY <1>3, <1>5, <1>6, <3>2, <4>3, KnowsSame
      <3> QED BY <1>7, <3>1, <3>2
    <2> QED BY <1>5, <1>7, <2>1, <2>3 DEF OnTop
  <1>12. Written(d, n, s, gs)
    BY <1>8, <1>10, <1>11 DEF Written
  <1> DEFINE A == LevelsOf(c, m, s, fs, h, p, count)
  <1>13. Readable(c, m, s, fs, h, p, count) /\ A = SubSeq(Now(c, m, s, fs), 1, k)
    <2>1. Readable(c, m, s, fs, k, PositionOf(c), c.state.elem_count)
      BY WrittenReadable
    <2> QED BY <1>3, <2>1, LevelsCut DEF Now
  <1>14. Readable(d, n, s, gs, h, q, count + items)
    BY <1>5, <1>7, <1>12, WrittenReadable
  <1>15. Alike(c, fs, d, gs, h)
    BY <1>5, <1>6 DEF Alike
  <1>16. Now(d, n, s, gs) = LevelsOf(d, n, s, gs, h, q, count + items)
    BY <1>5, <1>7 DEF Now
  <1>17. LevelsOf(d, n, s, gs, h, q, count + items) = Doc!With(A, T, items)
    <2> HIDE DEF p, q, count, h
    <2>1. q = p + Len(T) /\ T \in Seq(Byte) /\ Agree(s, m, s, n, p) /\ Reads(s, n, p, T)
      BY <1>7
    <2>2. Readable(c, m, s, fs, h, p, count)
      BY <1>13
    <2>3. items \in Int
      OBVIOUS
    <2> QED BY ONLY <1>14, <1>15, <2>1, <2>2, <2>3, LevelsGrow DEF A
  <1> HIDE DEF A
  <1> QED BY <1>12, <1>13, <1>16, <1>17 DEF gs

(* A call fails: the frames gs are left, of which the j-th is an item.     *)
LEMMA WrittenCut ==
    ASSUME NEW c, NEW m, NEW s, NEW fs, Written(c, m, s, fs),
           NEW d, NEW n, NEW gs, Typed(d, n, s, gs), Laid(d, n, s, gs),
           Len(gs) <= Len(fs), \A i \in 1 .. Len(gs) : gs[i] = fs[i],
           \A i \in 1 .. Len(gs) : d.backup_list[i] = c.backup_list[i],
           NEW j \in 1 .. Len(gs), gs[j].kind = "item",
           NEW p \in Nat, Agree(s, m, s, n, p), BodyAt(gs, j) <= p
    PROVE  LET count == d.backup_list[j].elem_count IN
           /\ Readable(d, n, s, gs, j, BodyAt(gs, j), count)
           /\ LevelsOf(d, n, s, gs, j, BodyAt(gs, j), count)
                = Append(SubSeq(Now(c, m, s, fs), 1, j), Doc!NewLevel("item"))
  <1> DEFINE to == fs[j].at
             count == d.backup_list[j].elem_count
             h == j - 1
  <1>1. Typed(c, m, s, fs) /\ Laid(c, m, s, fs) /\ OnTop(c, fs)
    BY DEF Written
  <1>2. /\ Len(fs) \in Nat /\ DOMAIN fs = 1 .. Len(fs) /\ Len(s) \in Nat
        /\ \A i \in 1 .. Len(fs) : BodyAt(fs, i) \in Nat /\ fs[i] \in Frame /\ fs[i].at \in Nat
        /\ Len(gs) \in Nat /\ DOMAIN gs = 1 .. Len(gs)
        /\ \A i \in 1 .. Len(gs) : BodyAt(gs, i) \in Nat /\ d.backup_list[i].elem_count \in Nat
        /\ PositionOf(c) \in Nat
    BY <1>1, TypedFields
  <1>3. j \in 1 .. Len(fs) /\ j # 0 /\ h \in Nat /\ j = h + 1 /\ gs[j] = fs[j]
        /\ d.backup_list[j] = c.backup_list[j]
    BY <1>2
  <1>4. BodyAt(gs, j) = to /\ gs[j].at = to /\ to \in Nat /\ count \in Nat
    <2>1. to \in Nat /\ count \in Nat
      BY <1>2, <1>3
    <2>2. BodyAt(gs, j) = to + 0
      BY <1>3 DEF BodyAt
    <2> QED BY <1>3, <2>1, <2>2
  <1>5. /\ Readable(c, m, s, fs, h, to, count)
        /\ LevelsOf(c, m, s, fs, h, to, count) = SubSeq(Now(c, m, s, fs), 1, j)
    <2>1. Readable(c, m, s, fs, Len(fs), PositionOf(c), c.state.elem_count)
      BY WrittenReadable
    <2> QED BY <1>3, <2>1, LevelsCut DEF Now
  <1>6. Readable(d, n, s, gs, j, to, count)
    <2>1. \A i \in 1 .. j : BodyAt(gs, i) <= to
      <3> SUFFICES ASSUME NEW i \in 1 .. j PROVE BodyAt(gs, i) <= to
        OBVIOUS
      <3>1. CASE i = j
        BY <1>4, <3>1
      <3>2. CASE i # j
        <4>1. i \in DOMAIN gs /\ j \in DOMAIN gs /\ i < j
          BY <1>2, <3>2
        <4> QED BY <1>4, <4>1 DEF Laid, Ordered
      <3> QED BY <3>1, <3>2
    <2>2. to <= Len(s) + MaxRoom
      <3>1. BodyAt(fs, j) <= PositionOf(c) /\ BodyAt(fs, j) = to
        BY <1>1, <1>2, <1>3, <1>4 DEF OnTop, BodyAt
      <3>2. PositionOf(c) <= Len(s) + MaxRoom
        BY WrittenReadable DEF Readable
      <3> QED BY <1>2, <1>4, <3>1, <3>2, EncodeInputsAssumption
    <2>3. Ordered(gs) /\ j \in 0 .. Len(gs) /\ count \in Int
      BY <1>2, <1>4 DEF Laid
    <2> HIDE DEF to, count
    <2> QED BY <1>4, <2>1, <2>2, <2>3, LaidReadable
  <1>7. OneMore(c, m, s, fs, h, to, count, d, n, s, gs, j, to, count)
    <2>1. Alike(c, fs, d, gs, h)
      BY <1>2, <1>3 DEF Alike
    <2>2. Agree(s, m, s, n, to)
      BY <1>4 DEF Agree
    <2>3. count = CountBefore(d, gs, j)
      BY <1>3 DEF CountBefore
    <2> HIDE DEF to, h
    <2> QED BY <1>3, <1>4, <1>5, <1>6, <2>1, <2>2, <2>3 DEF OneMore
  <1>8. KindAt(gs, j) = "item"
    BY <1>3 DEF KindAt
  <1> HIDE DEF to, count, h
  <1>9. LevelsOf(d, n, s, gs, j, to, count)
            = Append(LevelsOf(c, m, s, fs, h, to, count), Doc!NewLevel(KindAt(gs, j)))
    BY ONLY <1>7, LevelsOpen
  <1> QED BY <1>4, <1>5, <1>6, <1>8, <1>9 DEF count


(* Of the frames fs of c, d and gs are what the item of frame n leaves.     *)
Dropped(c, fs, n, d, gs) ==
    /\ n \in 1 .. Len(fs) /\ fs[n].section = c.section
    /\ d \in Context /\ d.base = c.base /\ d.section = c.section
    /\ d.state = c.backup_list[n] /\ d.backup_list = SubSeq(c.backup_list, 1, n - 1)
    /\ d.state.payload <= MaxRoom
    /\ gs = SubSeq(fs, 1, n - 1)

(* The item of frame n is given up: everything is as it was before it.     *)
LEMMA WrittenDrops ==
    ASSUME NEW c, NEW m, NEW s, NEW fs, Typed(c, m, s, fs), Laid(c, m, s, fs),
           NEW n, NEW d, NEW gs, Dropped(c, fs, n, d, gs),
           NEW to, NEW count, Readable(c, m, s, fs, n, to, count)
    PROVE  /\ Written(d, m, s, gs)
           /\ Now(d, m, s, gs) = SubSeq(LevelsOf(c, m, s, fs, n, to, count), 1, n)
  <1>0. /\ n \in 1 .. Len(fs) /\ fs[n].section = c.section
        /\ d \in Context /\ d.base = c.base /\ d.section = c.section
        /\ d.state = c.backup_list[n] /\ d.backup_list = SubSeq(c.backup_list, 1, n - 1)
        /\ d.state.payload <= MaxRoom
        /\ gs = SubSeq(fs, 1, n - 1)
    BY DEF Dropped
  <1> USE <1>0
  <1> DEFINE h == n - 1
             p == fs[n].at
             b == c.backup_list[n]
  <1>1. /\ Len(fs) \in Nat /\ DOMAIN fs = 1 .. Len(fs)
        /\ c.backup_list \in Seq(State) /\ c.base \in Nat
        /\ m \in Memory /\ s \in Seq(Byte) /\ fs \in Seq(Frame)
        /\ Len(fs) <= Len(c.backup_list) /\ Len(c.backup_list) \in Nat
        /\ b.elem_count \in Nat /\ b.payload \in Nat /\ p \in Nat
        /\ \A i \in 1 .. Len(fs) : BodyAt(fs, i) \in Nat
    BY TypedFields DEF Typed
  <1>2. h \in Nat /\ h \in 0 .. Len(fs) /\ h \in 0 .. Len(c.backup_list) /\ n \in DOMAIN fs
    BY <1>1
  <1>3. /\ gs \in Seq(Frame) /\ Len(gs) = h /\ DOMAIN gs = 1 .. h
        /\ \A i \in 1 .. h : gs[i] = fs[i]
    BY <1>1, <1>2, Prefix
  <1>4. /\ Len(d.backup_list) = h
        /\ \A i \in 1 .. h : d.backup_list[i] = c.backup_list[i]
    BY <1>1, <1>2, Prefix
  <1>5. Typed(d, m, s, gs)
    <2>1. Len(gs) <= Len(d.backup_list)
      BY <1>2, <1>3, <1>4
    <2> QED BY <1>1, <1>3, <2>1 DEF Typed
  <1>6. BackupPlaced(b, fs, n, c) /\ Ordered(fs)
    BY <1>2 DEF Laid, BackupsPlaced
  <1>7. PositionOf(d) = p
    BY <1>6 DEF BackupPlaced, PositionOf
  <1>8. \A i \in 1 .. h : BodyAt(gs, i) <= p
    <2> SUFFICES ASSUME NEW i \in 1 .. h PROVE BodyAt(gs, i) <= p
      OBVIOUS
    <2>1. i \in DOMAIN fs /\ i < n
      BY <1>1, <1>2
    <2>2. BodyAt(fs, i) <= p
      BY <1>2, <1>6, <2>1 DEF Ordered
    <2>3. BodyAt(gs, i) = BodyAt(fs, i)
      BY <1>3 DEF BodyAt
    <2> QED BY <2>2, <2>3
  <1>9. Laid(d, m, s, gs)
    <2>1. Len(gs) <= Len(fs)
      BY <1>1, <1>2, <1>3
    <2>2. Agree(s, m, s, m, p)
      BY DEF Agree
    <2> HIDE DEF p, h
    <2> QED BY <1>1, <1>3, <1>4, <1>5, <1>8, <2>1, <2>2, LaidKept
  <1>10. OnTop(d, gs)
    <2>1. d.state.elem_count <= PositionOf(d)
      BY <1>6, <1>7 DEF BackupPlaced
    <2>2. KnowsString(b, fs, h, c.base)
      BY <1>6 DEF BackupPlaced
    <2>3. KnowsString(d.state, gs, h, d.base)
      <3>1. SameCbor(b, d.state)
        BY DEF SameCbor
      <3> QED BY <1>2, <1>3, <2>2, <3>1, KnowsSame
    <2> QED BY <1>3, <1>7, <1>8, <2>1, <2>3 DEF OnTop
  <1>11. Written(d, m, s, gs)
    BY <1>5, <1>9, <1>10 DEF Written
  <1> DEFINE number == b.elem_count
  <1>12. /\ Readable(c, m, s, fs, h, p, number)
         /\ LevelsOf(c, m, s, fs, h, p, number) = SubSeq(LevelsOf(c, m, s, fs, n, to, count), 1, n)
    <2>1. n \in 1 .. n /\ Readable(c, m, s, fs, n, to, count)
      BY <1>1
    <2> QED BY ONLY <2>1, LevelsCut
  <1>13. Readable(d, m, s, gs, h, p, number) /\ Now(d, m, s, gs) = LevelsOf(d, m, s, gs, h, p, number)
    BY <1>3, <1>7, <1>11, WrittenReadable DEF Now
  <1>14. Alike(c, fs, d, gs, h) /\ Agree(s, m, s, m, p)
    BY <1>3, <1>4 DEF Alike, Agree
  <1> HIDE DEF h, p, number
  <1>15. LevelsOf(d, m, s, gs, h, p, number) = LevelsOf(c, m, s, fs, h, p, number)
    <2>1. Readable(c, m, s, fs, h, p, number) /\ Readable(d, m, s, gs, h, p, number)
      BY <1>12, <1>13
    <2> QED BY ONLY <1>14, <2>1, LevelsSame
  <1> QED BY <1>11, <1>12, <1>13, <1>15

(* The section is sent and the next one begins: the document is the same.  *)
Sent(s, m, len) == s \o [i \in 1 .. len |-> m[i - 1]]

(* Sending a section leaves every byte where it was in the document.       *)
LEMMA BytesKept ==
    ASSUME NEW m \in Memory, NEW s \in Seq(Byte), NEW len \in Nat, len <= MaxRoom, NEW n
    PROVE  /\ Sent(s, m, len) \in Seq(Byte)
           /\ Len(Sent(s, m, len)) = Len(s) + len
           /\ Agree(s, m, Sent(s, m, len), n, Len(s) + len)
  <1> DEFINE u == [i \in 1 .. len |-> m[i - 1]]
             t == Sent(s, m, len)
  <1>1. \A i \in 1 .. len : m[i - 1] \in Byte
    BY EncodeInputsAssumption DEF Memory, Offsets
  <1>2. u \in Seq(Byte) /\ Len(u) = len /\ \A i \in 1 .. len : u[i] = m[i - 1]
    BY <1>1
  <1> HIDE DEF u
  <1>3. /\ t \in Seq(Byte) /\ Len(t) = Len(s) + len
        /\ \A i \in 1 .. Len(s) : t[i] = s[i]
        /\ \A i \in 1 .. len : t[Len(s) + i] = u[i]
    <2>1. t = s \o u
      BY DEF u, Sent
    <2> HIDE DEF t
    <2>2. /\ s \o u \in Seq(Byte)
          /\ Len(s \o u) = Len(s) + Len(u)
          /\ \A i \in 1 .. Len(s) : (s \o u)[i] = s[i]
          /\ \A i \in 1 .. Len(u) : (s \o u)[Len(s) + i] = u[i]
      BY <1>2, Joined
    <2> QED BY <1>2, <2>1, <2>2
  <1> HIDE DEF t
  <1>4. ASSUME NEW q \in Nat, q < Len(s) + len PROVE At(t, n, q) = At(s, m, q)
    <2>1. At(t, n, q) = t[q + 1]
      BY <1>3, <1>4 DEF At
    <2>2. CASE q < Len(s)
      <3>1. q + 1 \in 1 .. Len(s)
        BY <2>2
      <3> QED BY <1>3, <2>1, <2>2, <3>1 DEF At
    <2>3. CASE ~ q < Len(s)
      <3> DEFINE i == q + 1 - Len(s)
      <3>1. i \in 1 .. len /\ Len(s) + i = q + 1 /\ i - 1 = q - Len(s)
        BY <1>4, <2>3
      <3>2. t[q + 1] = m[i - 1]
        <4> HIDE DEF i
        <4> QED BY <1>2, <1>3, <3>1
      <3>3. At(s, m, q) = m[q - Len(s)]
        BY <2>3 DEF At
      <3> QED BY <2>1, <3>1, <3>2, <3>3
    <2> QED BY <2>2, <2>3
  <1>5. Agree(s, m, t, n, Len(s) + len)
    BY <1>4 DEF Agree
  <1> QED BY <1>3, <1>5 DEF t


(* Entering the next section moves the offsets of both strings along, so   *)
(* that as much of them remains as before.                                 *)
LEMMA StringMoves ==
    ASSUME NEW st \in State, NEW len \in Nat
    PROVE  LET e == EnterSection(st, len, st.payload) IN
           /\ e \in State /\ e.payload = 0
           /\ e.elem_count = st.elem_count
           /\ e.inside_frag_str = st.inside_frag_str
           /\ e.frag_offset_cbor = st.frag_offset_cbor + st.payload
           /\ e.str_total_len_cbor = st.str_total_len_cbor
           /\ StringRemainder(e) = StringRemainder(st)
  <1> DEFINE e == EnterSection(st, len, st.payload)
  <1>1. /\ st.payload \in Nat /\ st.frag_offset \in Int /\ st.frag_offset_cbor \in Int
        /\ st.str_total_len \in Nat /\ st.str_total_len_cbor \in Nat
    BY DEF State
  <1>2. /\ e \in State /\ Kept(e) = Kept(st)
        /\ e.frag_offset = st.frag_offset + st.payload
        /\ e.frag_offset_cbor = st.frag_offset_cbor + st.payload
    BY <1>1, EnterSectionEffect
  <1>3. e.payload = 0
    BY DEF EnterSection, State
  <1>4. /\ e.elem_count = st.elem_count
        /\ e.inside_frag_str = st.inside_frag_str
        /\ e.str_total_len = st.str_total_len
        /\ e.str_total_len_cbor = st.str_total_len_cbor
    BY <1>2 DEF Kept
  <1> HIDE DEF e
  <1>5. StringRemainder(e) = StringRemainder(st)
    <2>1. CASE st.inside_frag_str
      <3>1. StringRemainder(e) = e.str_total_len - (e.payload + e.frag_offset)
        BY <1>4, <2>1 DEF StringRemainder, StringTotal, StringOffset
      <3>2. StringRemainder(st) = st.str_total_len - (st.payload + st.frag_offset)
        BY <2>1 DEF StringRemainder, StringTotal, StringOffset
      <3> QED BY <1>1, <1>2, <1>3, <1>4, <3>1, <3>2
    <2>2. CASE ~ st.inside_frag_str
      <3>1. StringRemainder(e) = e.str_total_len_cbor - (e.payload + e.frag_offset_cbor)
        BY <1>4, <2>2 DEF StringRemainder, StringTotal, StringOffset
      <3>2. StringRemainder(st) = st.str_total_len_cbor - (st.payload + st.frag_offset_cbor)
        BY <2>2 DEF StringRemainder, StringTotal, StringOffset
      <3> QED BY <1>1, <1>2, <1>3, <1>4, <3>1, <3>2
    <2> QED BY <2>1, <2>2
  <1> QED BY <1>2, <1>3, <1>4, <1>5 DEF e

(* The document of a session is the same in the next section.              *)
LEMMA WrittenMoves ==
    ASSUME NEW c, NEW m, NEW s, NEW fs, Written(c, m, s, fs),
           \A i \in DOMAIN fs : fs[i].section <= c.section,
           NEW len \in Nat, NEW d, d = UpdateState(c, len),
           NEW t, t = Sent(s, m, c.state.payload), NEW n \in Memory
    PROVE  /\ Written(d, n, t, fs)
           /\ Now(d, n, t, fs) = Now(c, m, s, fs)
           /\ PositionOf(d) = PositionOf(c) /\ d.base = PositionOf(c)
           /\ d.state.inside_frag_str = c.state.inside_frag_str
           /\ StringRemainder(d.state) = StringRemainder(c.state)
  <1> DEFINE p == PositionOf(c)
             k == Len(fs)
             from == c.state.payload
  <1>1. Typed(c, m, s, fs) /\ Laid(c, m, s, fs) /\ OnTop(c, fs)
    BY DEF Written
  <1>2. /\ k \in Nat /\ DOMAIN fs = 1 .. k /\ Len(s) \in Nat
        /\ c \in Context /\ m \in Memory /\ s \in Seq(Byte) /\ fs \in Seq(Frame)
        /\ k <= Len(c.backup_list) /\ Len(c.backup_list) \in Nat
        /\ c.base \in Nat /\ c.section \in Nat /\ p \in Nat
        /\ c.state \in State /\ from \in Nat /\ from <= MaxRoom
        /\ \A i \in 1 .. k : /\ BodyAt(fs, i) \in Nat /\ fs[i] \in Frame /\ fs[i].section <= c.section
                             /\ c.backup_list[i] \in State
    BY <1>1, TypedFields DEF Typed
  <1>3. c.base = Len(s) /\ p = Len(s) + from
    BY <1>1 DEF Laid, PositionOf
  <1>4. t \in Seq(Byte) /\ Len(t) = p /\ Agree(s, m, t, n, p)
    <2> HIDE DEF p, from
    <2>1. t = Sent(s, m, from)
      BY DEF from
    <2>2. /\ Sent(s, m, from) \in Seq(Byte)
          /\ Len(Sent(s, m, from)) = Len(s) + from
          /\ Agree(s, m, Sent(s, m, from), n, Len(s) + from)
      BY <1>2, BytesKept
    <2> QED BY <1>3, <2>1, <2>2
  <1>5. /\ d \in Context /\ d.section = c.section + 1 /\ d.base = p
        /\ d.state = EnterSection(c.state, len, from)
        /\ Len(d.backup_list) = Len(c.backup_list)
        /\ \A i \in 1 .. Len(c.backup_list) :
            /\ Kept(d.backup_list[i]) = Kept(c.backup_list[i])
            /\ d.backup_list[i].frag_offset_cbor - d.base
                    = c.backup_list[i].frag_offset_cbor - c.base
    <2>1. d.base = p /\ d.state = EnterSection(c.state, len, from)
      BY DEF UpdateState, PositionOf
    <2> HIDE DEF p
    <2> QED BY <1>2, <2>1, UpdateStateEffect
  <1>6. /\ d.state \in State /\ d.state.payload = 0
        /\ d.state.elem_count = c.state.elem_count
        /\ d.state.inside_frag_str = c.state.inside_frag_str
        /\ d.state.frag_offset_cbor = c.state.frag_offset_cbor + from
        /\ d.state.str_total_len_cbor = c.state.str_total_len_cbor
        /\ StringRemainder(d.state) = StringRemainder(c.state)
    <2> DEFINE st == c.state
               e == EnterSection(st, len, st.payload)
    <2>1. st \in State
      BY <1>2
    <2> HIDE DEF st
    <2>2. /\ e \in State /\ e.payload = 0
          /\ e.elem_count = st.elem_count
          /\ e.inside_frag_str = st.inside_frag_str
          /\ e.frag_offset_cbor = st.frag_offset_cbor + st.payload
          /\ e.str_total_len_cbor = st.str_total_len_cbor
          /\ StringRemainder(e) = StringRemainder(st)
      BY <2>1, StringMoves
    <2>3. d.state = e
      BY <1>5 DEF st
    <2> HIDE DEF e
    <2> QED BY <2>2, <2>3 DEF st
  <1>7. Typed(d, n, t, fs)
    BY <1>2, <1>4, <1>5, <1>6, EncodeInputsAssumption DEF Typed
  <1>8. PositionOf(d) = p
    <2>1. PositionOf(d) = d.base + 0
      BY <1>6 DEF PositionOf
    <2> HIDE DEF p
    <2> QED BY <1>2, <1>5, <2>1
  <1>9. \A i \in 1 .. k : BodyAt(fs, i) <= p
    BY <1>1, <1>2 DEF OnTop
  <1>10. HeadersWritten(t, n, fs)
    <2> SUFFICES ASSUME NEW i \in 1 .. k, fs[i].kind \in Containers \cup {"cborfrag"}
                 PROVE  HeaderRead(t, n, fs[i])
      BY <1>2 DEF HeadersWritten
    <2>1. HeaderRead(s, m, fs[i])
      BY <1>1, <1>2 DEF Laid, HeadersWritten
    <2>2. fs[i] \in Frame /\ fs[i].kind # "item" /\ BodyAt(fs, i) <= p
      BY <1>2, <1>9 DEF Containers
    <2>3. fs[i].at + HeaderLen(fs[i].hint) <= p
      BY <2>2 DEF BodyAt
    <2> HIDE DEF p
    <2> QED BY <1>2, <1>4, <2>1, <2>2, <2>3, HeaderSame
  <1>11. ASSUME NEW i \in 1 .. k
         PROVE  /\ d.backup_list[i].elem_count = c.backup_list[i].elem_count
                /\ KnowsString(c.backup_list[i], fs, i - 1, c.base)
                        => KnowsString(d.backup_list[i], fs, i - 1, d.base)
    <2> DEFINE b == c.backup_list[i]
               e == d.backup_list[i]
    <2>1. i \in 1 .. Len(c.backup_list)
      BY <1>2
    <2>2. Kept(e) = Kept(b) /\ e.frag_offset_cbor - d.base = b.frag_offset_cbor - c.base
      BY <1>5, <2>1
    <2>3. e.elem_count = b.elem_count /\ e.str_total_len_cbor = b.str_total_len_cbor
      BY <2>2 DEF Kept
    <2>4. e \in State /\ b \in State
      BY <1>2, <1>5, <2>1, ContextFields
    <2>5. e.frag_offset_cbor \in Int /\ b.frag_offset_cbor \in Int
      BY <2>4 DEF State
    <2> HIDE DEF b, e
    <2>6. ASSUME KnowsString(b, fs, i - 1, c.base), NEW j \in 1 .. i - 1, LastString(fs, i - 1, j)
          PROVE  e.frag_offset_cbor = d.base - BodyAt(fs, j) /\ e.str_total_len_cbor = fs[j].hint
      <3>1. b.frag_offset_cbor = c.base - BodyAt(fs, j) /\ b.str_total_len_cbor = fs[j].hint
        BY <2>6 DEF KnowsString
      <3>2. BodyAt(fs, j) \in Nat /\ d.base \in Nat
        BY <1>2, <1>5
      <3> DEFINE at == BodyAt(fs, j)
                 base == d.base
                 here == c.base
                 x == e.frag_offset_cbor
                 y == b.frag_offset_cbor
      <3>3. at \in Nat /\ base \in Nat /\ here \in Nat /\ x \in Int /\ y \in Int
            /\ x - base = y - here /\ y = here - at
        BY <1>2, <2>2, <2>5, <3>1, <3>2
      <3> HIDE DEF at, base, here, x, y
      <3>4. x = base - at
        BY <3>3
      <3> QED BY <2>3, <3>1, <3>4 DEF at, base, x
    <2>7. KnowsString(b, fs, i - 1, c.base) => KnowsString(e, fs, i - 1, d.base)
      BY <2>6 DEF KnowsString
    <2> QED BY <2>3, <2>7 DEF b, e
  <1>12. BackupsPlaced(d, fs)
    <2> SUFFICES ASSUME NEW i \in 1 .. k PROVE BackupPlaced(d.backup_list[i], fs, i, d)
      BY <1>2 DEF BackupsPlaced
    <2>1. BackupPlaced(c.backup_list[i], fs, i, c)
      BY <1>1, <1>2 DEF Laid, BackupsPlaced
    <2>2. fs[i].section # d.section
      <3>1. fs[i].section \in Nat
        BY <1>2 DEF Frame
      <3>2. fs[i].section <= c.section /\ d.section = c.section + 1 /\ c.section \in Nat
        BY <1>2, <1>5
      <3> QED BY <3>1, <3>2
    <2> QED BY <1>11, <2>1, <2>2 DEF BackupPlaced
  <1>13. Laid(d, n, t, fs)
    BY <1>1, <1>4, <1>5, <1>10, <1>12 DEF Laid
  <1>14. KnowsString(d.state, fs, k, d.base)
    <2> SUFFICES ASSUME NEW i \in 1 .. k, LastString(fs, k, i)
                 PROVE  d.state.frag_offset_cbor = d.base - BodyAt(fs, i) /\ d.state.str_total_len_cbor = fs[i].hint
      BY DEF KnowsString
    <2>1. c.state.frag_offset_cbor = c.base - BodyAt(fs, i) /\ c.state.str_total_len_cbor = fs[i].hint
      BY <1>1 DEF OnTop, KnowsString
    <2>2. d.base = c.base + from
      BY <1>3, <1>5
    <2> HIDE DEF p, from
    <2> QED BY <1>2, <1>6, <2>1, <2>2
  <1>15. Written(d, n, t, fs)
    <2>1. d.state.elem_count <= PositionOf(d)
      BY <1>1, <1>6, <1>8 DEF OnTop
    <2> QED BY <1>2, <1>7, <1>8, <1>9, <1>13, <1>14, <2>1 DEF Written, OnTop
  <1> DEFINE count == c.state.elem_count
  <1>16. /\ Readable(c, m, s, fs, k, p, count)
         /\ Readable(d, n, t, fs, k, p, count)
    BY <1>6, <1>8, <1>15, WrittenReadable
  <1>17. Alike(c, fs, d, fs, k)
    BY <1>11 DEF Alike
  <1>18. Now(d, n, t, fs) = LevelsOf(d, n, t, fs, k, p, count)
         /\ Now(c, m, s, fs) = LevelsOf(c, m, s, fs, k, p, count)
    BY <1>6, <1>8 DEF Now
  <1>19. Agree(s, m, t, n, p)
    BY <1>4
  <1> HIDE DEF p, k, count
  <1>20. LevelsOf(d, n, t, fs, k, p, count) = LevelsOf(c, m, s, fs, k, p, count)
    BY ONLY <1>16, <1>17, <1>19, LevelsSame
  <1> QED BY <1>5, <1>6, <1>8, <1>15, <1>18, <1>20 DEF p


-----------------------------------------------------------------------------
(* The levels of the session.                                              *)

(* The levels while the session runs.                                      *)
LEMMA RunningLevels ==
    TypeOK /\ Len(frames) <= Len(z.backup_list) /\ mode = "run"
        => Levels = Now(z, mem, sent, frames)
  <1> SUFFICES ASSUME TypeOK, Len(frames) <= Len(z.backup_list), mode = "run"
               PROVE  Levels = Now(z, mem, sent, frames)
    OBVIOUS
  <1> DEFINE k == Len(frames)
             count == z.state.elem_count
             to == PositionOf(z)
             Item(i) ==
                [ kind  |-> KindAt(frames, i - 1),
                  items |-> CountAt(z, k, count, i - 1) - CountBefore(z, frames, i - 1),
                  text  |-> Stretch(sent, mem, BodyAt(frames, i - 1), EndAt(frames, k, to, i - 1)) ]
  <1>1. Standing = k /\ Position = to /\ k \in Nat
    BY DEF Standing, Position, PositionOf, TypeOK
  <1>2. count \in Int /\ \A i \in 1 .. k : z.backup_list[i].elem_count \in Int
    <2>1. z.state \in State /\ z.backup_list \in Seq(State) /\ frames \in Seq(Frame)
      BY ContextFields DEF TypeOK
    <2>2. \A i \in 1 .. k : z.backup_list[i] \in State
      BY <1>1, <2>1
    <2>3. \A st \in State : st.elem_count \in Int
      BY DEF State
    <2> QED BY <2>1, <2>2, <2>3
  <1>3. ASSUME NEW i \in 0 .. k PROVE LevelOf(i) = Item(i + 1)
    <2>1. i + 1 - 1 = i
      OBVIOUS
    <2>2. CountAt(z, k, count, i) \in Int /\ ElemCount(i) = CountAt(z, k, count, i)
      <3>1. i < k => i + 1 \in 1 .. k
        BY <1>1
      <3> QED BY <1>1, <1>2, <3>1 DEF CountAt, ElemCount
    <2>3. End(i) = EndAt(frames, k, to, i) /\ Begin(i) = BodyAt(frames, i)
      BY <1>1 DEF End, EndAt, Begin, BodyAt
    <2>4. Text(Begin(i), End(i)) = Stretch(sent, mem, BodyAt(frames, i), EndAt(frames, k, to, i))
      BY <2>3 DEF Text, Stretch, ByteAt, At
    <2>5. (IF i = 0 THEN "document"
           ELSE IF frames[i].kind = "cborfrag" THEN "bstr" ELSE frames[i].kind) = KindAt(frames, i)
      BY DEF KindAt
    <2>6. (IF i = 0 THEN ElemCount(0)
           ELSE IF frames[i].kind = "item" THEN ElemCount(i) - z.backup_list[i].elem_count
           ELSE IF frames[i].kind \in Containers THEN ElemCount(i)
           ELSE ElemCount(i) - 1)
          = CountAt(z, k, count, i) - CountBefore(z, frames, i)
      <3> DEFINE e == CountAt(z, k, count, i)
                 x == ElemCount(i)
                 f == frames[i].kind
                 before == z.backup_list[i].elem_count
      <3>1. e \in Int /\ x = e
        BY <2>2
      <3> SUFFICES (IF i = 0 THEN x ELSE IF f = "item" THEN x - before
                    ELSE IF f \in Containers THEN x ELSE x - 1) = e - CountBefore(z, frames, i)
        OBVIOUS
      <3>6. CountBefore(z, frames, i) = IF i = 0 THEN 0 ELSE IF f = "item" THEN before
                    ELSE IF f \in Containers THEN 0 ELSE 1
        BY DEF CountBefore
      <3> HIDE DEF e, x, f, before
      <3>2. CASE i = 0
        BY <3>1, <3>6, <3>2
      <3>3. CASE i # 0 /\ f = "item"
        BY <3>1, <3>6, <3>3
      <3>4. CASE i # 0 /\ f # "item" /\ f \in Containers
        BY <3>1, <3>6, <3>4
      <3>5. CASE i # 0 /\ f # "item" /\ f \notin Containers
        BY <3>1, <3>6, <3>5
      <3> QED BY <3>2, <3>3, <3>4, <3>5
    <2> HIDE DEF k, to, count
    <2> QED BY <2>1, <2>4, <2>5, <2>6 DEF LevelOf
  <1> HIDE DEF Item
  <1>4. Levels = [i \in 1 .. k + 1 |-> LevelOf(i - 1)]
    BY <1>1 DEF Levels
  <1>5. \A i \in 1 .. k + 1 : LevelOf(i - 1) = Item(i)
    <2> SUFFICES ASSUME NEW i \in 1 .. k + 1 PROVE LevelOf(i - 1) = Item(i)
      OBVIOUS
    <2>1. i - 1 \in 0 .. k /\ (i - 1) + 1 = i
      BY <1>1
    <2> QED BY <1>3, <2>1
  <1>6. Now(z, mem, sent, frames) = [i \in 1 .. k + 1 |-> Item(i)]
    BY DEF Now, LevelsOf, Item
  <1> QED BY <1>4, <1>5, <1>6


(* The same while a call has failed: up to the item that is dropped.       *)
LEMMA FailingLevels ==
    ASSUME TypeOK, Len(frames) <= Len(z.backup_list), mode # "run",
           NEW n, n = Standing, n \in DOMAIN frames
    PROVE  Levels = LevelsOf(z, mem, sent, frames, n, BodyAt(frames, n), z.backup_list[n].elem_count)
  <1> DEFINE count == z.backup_list[n].elem_count
             to == BodyAt(frames, n)
             Item(i) ==
                [ kind  |-> KindAt(frames, i - 1),
                  items |-> CountAt(z, n, count, i - 1) - CountBefore(z, frames, i - 1),
                  text  |-> Stretch(sent, mem, BodyAt(frames, i - 1), EndAt(frames, n, to, i - 1)) ]
  <1>1. n \in Nat /\ n # 0 /\ Standing = n /\ Len(frames) \in Nat /\ n \in 1 .. Len(frames)
    BY DEF TypeOK
  <1>2. count \in Int /\ \A i \in 1 .. n : z.backup_list[i].elem_count \in Int
    <2>1. z.state \in State /\ z.backup_list \in Seq(State) /\ frames \in Seq(Frame)
      BY ContextFields DEF TypeOK
    <2>2. \A i \in 1 .. n : z.backup_list[i] \in State
      BY <1>1, <2>1
    <2>3. \A st \in State : st.elem_count \in Int
      BY DEF State
    <2> QED BY <1>1, <2>2, <2>3
  <1>3. ASSUME NEW i \in 0 .. n PROVE LevelOf(i) = Item(i + 1)
    <2>1. i + 1 - 1 = i
      OBVIOUS
    <2>0. i < n \/ i = n
      BY <1>1
    <2>2. CountAt(z, n, count, i) \in Int /\ ElemCount(i) = CountAt(z, n, count, i)
      <3>1. i < n => i + 1 \in 1 .. n
        BY <1>1
      <3> QED BY <1>1, <1>2, <2>0, <3>1 DEF CountAt, ElemCount
    <2>3. End(i) = EndAt(frames, n, to, i) /\ Begin(i) = BodyAt(frames, i)
      BY <1>1, <2>0 DEF End, EndAt, Begin, BodyAt
    <2>4. Text(Begin(i), End(i)) = Stretch(sent, mem, BodyAt(frames, i), EndAt(frames, n, to, i))
      BY <2>3 DEF Text, Stretch, ByteAt, At
    <2>5. (IF i = 0 THEN "document"
           ELSE IF frames[i].kind = "cborfrag" THEN "bstr" ELSE frames[i].kind) = KindAt(frames, i)
      BY DEF KindAt
    <2>6. (IF i = 0 THEN ElemCount(0)
           ELSE IF frames[i].kind = "item" THEN ElemCount(i) - z.backup_list[i].elem_count
           ELSE IF frames[i].kind \in Containers THEN ElemCount(i)
           ELSE ElemCount(i) - 1)
          = CountAt(z, n, count, i) - CountBefore(z, frames, i)
      <3> DEFINE e == CountAt(z, n, count, i)
                 x == ElemCount(i)
                 f == frames[i].kind
                 before == z.backup_list[i].elem_count
      <3>1. e \in Int /\ x = e
        BY <2>2
      <3> SUFFICES (IF i = 0 THEN x ELSE IF f = "item" THEN x - before
                    ELSE IF f \in Containers THEN x ELSE x - 1) = e - CountBefore(z, frames, i)
        OBVIOUS
      <3>6. CountBefore(z, frames, i) = IF i = 0 THEN 0 ELSE IF f = "item" THEN before
                    ELSE IF f \in Containers THEN 0 ELSE 1
        BY DEF CountBefore
      <3> HIDE DEF e, x, f, before
      <3>2. CASE i = 0
        BY <3>1, <3>6, <3>2
      <3>3. CASE i # 0 /\ f = "item"
        BY <3>1, <3>6, <3>3
      <3>4. CASE i # 0 /\ f # "item" /\ f \in Containers
        BY <3>1, <3>6, <3>4
      <3>5. CASE i # 0 /\ f # "item" /\ f \notin Containers
        BY <3>1, <3>6, <3>5
      <3> QED BY <3>2, <3>3, <3>4, <3>5
    <2> HIDE DEF to, count
    <2> QED BY <2>1, <2>4, <2>5, <2>6 DEF LevelOf
  <1> HIDE DEF Item
  <1>4. Levels = [i \in 1 .. n + 1 |-> LevelOf(i - 1)]
    BY <1>1 DEF Levels
  <1>5. \A i \in 1 .. n + 1 : LevelOf(i - 1) = Item(i)
    <2> SUFFICES ASSUME NEW i \in 1 .. n + 1 PROVE LevelOf(i - 1) = Item(i)
      OBVIOUS
    <2>1. i - 1 \in 0 .. n /\ (i - 1) + 1 = i
      BY <1>1
    <2> QED BY <1>3, <2>1
  <1>6. LevelsOf(z, mem, sent, frames, n, to, count) = [i \in 1 .. n + 1 |-> Item(i)]
    BY DEF LevelsOf, Item
  <1> QED BY <1>4, <1>5, <1>6

(* The levels while an item is failing: those up to the item.              *)
LEMMA FailingLevelsThen ==
    TypeOK /\ Len(frames) <= Len(z.backup_list) /\ mode # "run" /\ Standing \in DOMAIN frames
        => Levels = LevelsOf(z, mem, sent, frames, Standing,
                             BodyAt(frames, Standing), z.backup_list[Standing].elem_count)
  BY FailingLevels

(* Of the items that are open one is the innermost.                        *)
LEMMA Largest ==
    ASSUME NEW k \in Nat, NEW S \in SUBSET (1 .. k), S # {}
    PROVE  \E i \in S : \A j \in S : j <= i
  <1> DEFINE R == {ss \in Nat \X Nat : ss[1] < ss[2]}
             D == {k - i : i \in S}
  <1>1. IsWellFoundedOn(R, Nat)
    BY ONLY NatLessThanWellFounded DEF OpToRel
  <1>2. D \subseteq Nat /\ D # {}
    <2>1. \A i \in S : k - i \in Nat
      OBVIOUS
    <2>2. PICK i \in S : TRUE
      OBVIOUS
    <2>3. k - i \in D
      OBVIOUS
    <2> QED BY <2>1, <2>3
  <1>3. PICK x \in D : \A y \in D : ~ (<<y, x>> \in R)
    <2> HIDE DEF R, D
    <2> QED BY <1>1, <1>2, WFMin
  <1>4. PICK i \in S : x = k - i
    OBVIOUS
  <1>5. ASSUME NEW j \in S PROVE j <= i
    <2>1. k - j \in D /\ k - j \in Nat /\ x \in Nat
      BY <1>2
    <2>2. ~ (k - j < x)
      BY <1>3, <2>1
    <2> QED BY <1>4, <2>1, <2>2
  <1> QED BY <1>5

LastItemOf(fs, n) ==
    /\ n \in DOMAIN fs /\ fs[n].kind = "item"
    /\ \A i \in DOMAIN fs : fs[i].kind = "item" => i <= n

(* If an item is open one of them is the innermost.                        *)
LEMMA LastItemIs ==
    ASSUME NEW fs \in Seq(Frame), NEW i \in DOMAIN fs, fs[i].kind = "item"
    PROVE  \E n \in DOMAIN fs : LastItemOf(fs, n)
  <1> DEFINE S == {j \in DOMAIN fs : fs[j].kind = "item"}
  <1>1. Len(fs) \in Nat /\ DOMAIN fs = 1 .. Len(fs)
    OBVIOUS
  <1>2. S \in SUBSET (1 .. Len(fs)) /\ S # {}
    BY <1>1
  <1>3. PICK n \in S : \A j \in S : j <= n
    <2> HIDE DEF S
    <2> QED BY <1>1, <1>2, Largest
  <1> QED BY <1>3 DEF LastItemOf

(* What stands of the frames when a call failed: those up to the last      *)
(* item.                                                                   *)
LEMMA StandingIs ==
    mode # "run" /\ frames \in Seq(Frame) =>
        IF \E i \in DOMAIN frames : frames[i].kind = "item"
        THEN Standing \in DOMAIN frames /\ LastItemOf(frames, Standing)
        ELSE Standing = 0
  <1> SUFFICES ASSUME mode # "run", frames \in Seq(Frame)
               PROVE  IF \E i \in DOMAIN frames : frames[i].kind = "item"
                      THEN Standing \in DOMAIN frames /\ LastItemOf(frames, Standing)
                      ELSE Standing = 0
    OBVIOUS
  <1>1. CASE \E i \in DOMAIN frames : frames[i].kind = "item"
    <2>1. \E n \in DOMAIN frames : LastItem(n)
      BY <1>1, LastItemIs DEF LastItemOf, LastItem
    <2>2. Standing \in DOMAIN frames /\ LastItem(Standing)
      BY <1>1, <2>1 DEF Standing, Open
    <2> QED BY <1>1, <2>2 DEF LastItemOf, LastItem
  <1>2. CASE ~ \E i \in DOMAIN frames : frames[i].kind = "item"
    BY <1>2 DEF Standing, Open
  <1> QED BY <1>1, <1>2


-----------------------------------------------------------------------------
(* No document is so long that the count of its elements could wrap.       *)
Countable == MaxRoom < MaxElemCount /\ MaxText < MaxElemCount

(* The invariant: the constructs of the session are where they are said to *)
(* be, and what is encoded next comes behind them.                         *)
DocInv ==
    /\ Laid(z, mem, sent, frames)
    /\ z.base + room < MaxElemCount
    /\ mode = "run" => OnTop(z, frames)

(* What the invariant of EncodeSession gives here.                         *)
LEMMA SessionTyped ==
    ASSUME IInv
    PROVE  /\ Typed(z, mem, sent, frames) /\ TypeOK
           /\ Len(frames) <= Len(z.backup_list)
           /\ room \in Nat /\ room <= MaxRoom /\ z.state.payload <= room
           /\ mode = "run" => Len(z.backup_list) = Len(frames)
           /\ MaxRoom \in Nat
  <1>1. /\ z.state.payload \in Nat /\ z.state.payload <= room
        /\ room \in Nat /\ room <= MaxRoom
        /\ z \in Context /\ mem \in Memory /\ frames \in Seq(Frame)
        /\ Sound(z, frames)
        /\ mode = "run" => Live(z, frames)
    BY LiveEnd
  <1>2. TypeOK /\ sent \in Seq(Byte)
    BY DEF IInv, TypeOK
  <1>3. Len(frames) <= Len(z.backup_list) /\ Len(frames) \in Nat /\ Len(z.backup_list) \in Nat
    BY <1>1, ContextFields DEF Sound
  <1>4. z.state.payload <= MaxRoom /\ MaxRoom \in Nat
    BY <1>1, EncodeInputsAssumption
  <1>5. mode = "run" => Len(z.backup_list) = Len(frames)
    BY <1>1 DEF Live
  <1> QED BY <1>1, <1>2, <1>3, <1>4, <1>5 DEF Typed

(* While the session runs its bytes are in place and no count has wrapped. *)
LEMMA SessionWritten ==
    ASSUME IInv, DocInv, mode = "run"
    PROVE  /\ Written(z, mem, sent, frames) /\ Len(z.backup_list) = Len(frames)
           /\ Levels = Now(z, mem, sent, frames)
           /\ Status = "open"
           /\ z.state.elem_count < MaxElemCount
           /\ \A i \in 1 .. Len(frames) : z.backup_list[i].elem_count < MaxElemCount
           /\ z.state.payload_end <= MaxRoom
  <1>1. /\ Typed(z, mem, sent, frames) /\ TypeOK
        /\ Len(frames) <= Len(z.backup_list) /\ Len(z.backup_list) = Len(frames)
        /\ room \in Nat /\ room <= MaxRoom /\ z.state.payload <= room
    BY SessionTyped
  <1>2. Written(z, mem, sent, frames) /\ OnTop(z, frames) /\ Laid(z, mem, sent, frames)
    BY <1>1 DEF Written, DocInv
  <1>3. Levels = Now(z, mem, sent, frames) /\ Status = "open"
    BY <1>1, RunningLevels DEF Status
  <1>4. /\ z.base \in Nat /\ z.state.payload \in Nat /\ z.state.elem_count \in Nat
        /\ DOMAIN frames = 1 .. Len(frames)
        /\ \A i \in 1 .. Len(frames) :
            /\ BodyAt(frames, i) \in Nat /\ frames[i].at \in Nat /\ frames[i].at <= BodyAt(frames, i)
            /\ z.backup_list[i].elem_count \in Nat
    BY <1>1, TypedFields
  <1>5. PositionOf(z) < MaxElemCount /\ PositionOf(z) \in Nat
    BY <1>1, <1>4, MaxElemCountAssumption DEF PositionOf, DocInv
  <1>6. z.state.elem_count < MaxElemCount
    BY <1>2, <1>4, <1>5, MaxElemCountAssumption DEF OnTop
  <1>7. ASSUME NEW i \in 1 .. Len(frames) PROVE z.backup_list[i].elem_count < MaxElemCount
    <2>1. z.backup_list[i].elem_count <= frames[i].at
      BY <1>2, <1>4 DEF Laid, BackupsPlaced, BackupPlaced
    <2>2. BodyAt(frames, i) <= PositionOf(z)
      BY <1>2, <1>4 DEF OnTop
    <2> QED BY <1>4, <1>5, <2>1, <2>2, MaxElemCountAssumption
  <1>8. z.state.payload_end <= MaxRoom
    BY <1>1, LiveEnd, EncodeInputsAssumption
  <1> QED BY <1>1, <1>2, <1>3, <1>6, <1>7, <1>8

(* After a step.                                                           *)
LEMMA StillWritten ==
    ASSUME IInv', mode' = "run", Written(z', mem', sent', frames'),
           z'.base + room' < MaxElemCount
    PROVE  /\ DocInv'
           /\ Levels' = Now(z', mem', sent', frames')
           /\ Status' = "open"
  <1>1. (TypeOK /\ Len(frames) <= Len(z.backup_list) /\ mode = "run"
            => Levels = Now(z, mem, sent, frames))'
    BY RunningLevels, PTL
  <1>2. TypeOK' /\ Len(frames') <= Len(z'.backup_list)
    BY DEF IInv, Written, Typed
  <1>3. DocInv'
    BY DEF DocInv, Written
  <1>4. Status' = "open"
    BY DEF Status
  <1> QED BY <1>1, <1>2, <1>3, <1>4

(* The payload stays in the section, and no section is longer than MaxRoom. *)
LEMMA PayloadFits ==
    IInv => /\ z.state.payload \in Nat /\ z.state.payload <= MaxRoom
            /\ room \in Nat /\ room <= MaxRoom
  <1> SUFFICES ASSUME IInv
               PROVE  /\ z.state.payload \in Nat /\ z.state.payload <= MaxRoom
                      /\ room \in Nat /\ room <= MaxRoom
    OBVIOUS
  <1>1. /\ room \in Nat /\ room <= MaxRoom /\ z.state.payload <= room /\ z.state.payload \in Nat
    BY SessionTyped, LiveEnd
  <1>2. MaxRoom \in Nat
    BY EncodeInputsAssumption
  <1> QED BY <1>1, <1>2

(* Something is written: the innermost construct grows.                    *)
LEMMA GrowStep ==
    ASSUME IInv, DocInv, IInv', mode = "run", mode' = "run",
           room' = room, sent' = sent, frames' = frames,
           NEW T, NEW items \in Int, Grows(z, mem, z', mem', T, items), items <= Len(T)
    PROVE  /\ DocInv'
           /\ Levels' = Doc!With(Levels, T, items)
           /\ Status = "open" /\ Status' = "open"
  <1>1. /\ Written(z, mem, sent, frames) /\ Levels = Now(z, mem, sent, frames)
        /\ Status = "open"
    BY SessionWritten
  <1>2. z'.state.payload <= MaxRoom
    <2>1. (IInv => /\ z.state.payload \in Nat /\ z.state.payload <= MaxRoom
                   /\ room \in Nat /\ room <= MaxRoom)'
      BY PayloadFits, PTL
    <2> QED BY <2>1
  <1>3. /\ Written(z', mem', sent, frames)
        /\ Now(z', mem', sent, frames) = Doc!With(Now(z, mem, sent, frames), T, items)
    BY <1>1, <1>2, WrittenGrows
  <1>4. z'.base + room' < MaxElemCount
    BY DEF DocInv, Grows, Same
  <1> QED BY <1>1, <1>3, <1>4, StillWritten

-----------------------------------------------------------------------------
(* The steps of the session.                                               *)

(* A construct is opened: it is the new innermost level.                   *)
LEMMA OpenStep ==
    ASSUME IInv, DocInv, IInv', mode = "run", mode' = "run", room' = room, sent' = sent,
           NEW g \in Frame, frames' = Append(frames, g),
           g.at = PositionOf(z), g.section = z.section,
           Starts(z, mem, z', mem', HeaderOf(g), FirstCount(g, z.state.elem_count)),
           IF g.kind = "cborfrag"
           THEN /\ z'.state.frag_offset_cbor = 0 - z'.state.payload
                /\ z'.state.str_total_len_cbor = g.hint
           ELSE SameCbor(z.state, z'.state)
    PROVE  /\ DocInv'
           /\ Levels' = Append(Levels, Doc!NewLevel(HeaderKind(g.kind)))
           /\ Status = "open" /\ Status' = "open"
  <1>1. /\ Written(z, mem, sent, frames) /\ Len(z.backup_list) = Len(frames)
        /\ Levels = Now(z, mem, sent, frames) /\ Status = "open"
    BY SessionWritten
  <1>2. z'.state.payload <= MaxRoom
    <2>1. (IInv => /\ z.state.payload \in Nat /\ z.state.payload <= MaxRoom
                   /\ room \in Nat /\ room <= MaxRoom)'
      BY PayloadFits, PTL
    <2> QED BY <2>1
  <1>3. /\ Written(z', mem', sent, Append(frames, g))
        /\ Now(z', mem', sent, Append(frames, g))
                = Append(Now(z, mem, sent, frames), Doc!NewLevel(HeaderKind(g.kind)))
    BY <1>1, <1>2, WrittenOpens
  <1>4. z'.base + room' < MaxElemCount
    BY DEF DocInv, Starts
  <1> QED BY <1>1, <1>3, <1>4, StillWritten

(* The innermost construct.                                                *)
LEMMA InnerIs ==
    ASSUME IInv, DocInv, mode = "run", frames # << >>,
           NEW k, k = Len(frames)
    PROVE  /\ k \in Nat /\ k > 0 /\ Levels \in Seq(DocLevel) /\ Len(Levels) = k + 1
           /\ Doc!Outer = SubSeq(Levels, 1, k)
           /\ Doc!Inner.kind = HeaderKind(frames[k].kind)
           /\ Doc!Inner.items = z.state.elem_count - CountBefore(z, frames, k)
           /\ Doc!Inner.text = Stretch(sent, mem, BodyAt(frames, k), PositionOf(z))
           /\ Doc!Inner.text \in Seq(Byte)
           /\ BodyAt(frames, k) \in Nat /\ PositionOf(z) \in Nat
           /\ BodyAt(frames, k) <= PositionOf(z)
           /\ Len(Doc!Inner.text) = PositionOf(z) - BodyAt(frames, k)
  <1>1. /\ Written(z, mem, sent, frames) /\ Levels = Now(z, mem, sent, frames)
        /\ Typed(z, mem, sent, frames)
    BY SessionWritten DEF Written
  <1>0. frames \in Seq(Frame)
    BY <1>1 DEF Typed
  <1>a. k \in Nat /\ k > 0 /\ DOMAIN frames = 1 .. k /\ k \in 1 .. k
    BY <1>0
  <1>2. /\ k \in Nat /\ k > 0 /\ DOMAIN frames = 1 .. k /\ k \in 1 .. k
        /\ PositionOf(z) \in Nat /\ BodyAt(frames, k) \in Nat /\ z.state.elem_count \in Nat
        /\ mem \in Memory /\ sent \in Seq(Byte) /\ z.base \in Nat /\ z.state.payload \in Nat
    BY <1>1, <1>a, TypedFields DEF Typed
  <1>3. BodyAt(frames, k) <= PositionOf(z)
    BY <1>1, <1>2 DEF Written, OnTop
  <1>4. PositionOf(z) <= Len(sent) + MaxRoom
    <2>1. z.base = Len(sent) /\ z.state.payload <= MaxRoom /\ MaxRoom \in Nat
      BY <1>1, EncodeInputsAssumption DEF Written, Typed, Laid
    <2> QED BY <1>2, <2>1 DEF PositionOf
  <1>5. Readable(z, mem, sent, frames, k, PositionOf(z), z.state.elem_count)
    BY <1>1, WrittenReadable
  <1> DEFINE L == LevelsOf(z, mem, sent, frames, k, PositionOf(z), z.state.elem_count)
  <1>6. /\ L \in Seq(DocLevel) /\ Len(L) = k + 1
        /\ \A i \in 0 .. k :
            /\ L[i + 1].kind = KindAt(frames, i)
            /\ L[i + 1].items = CountAt(z, k, z.state.elem_count, i) - CountBefore(z, frames, i)
            /\ L[i + 1].text = Stretch(sent, mem, BodyAt(frames, i), EndAt(frames, k, PositionOf(z), i))
            /\ L[i + 1].text \in Seq(Byte)
    BY <1>5, LevelsOfType
  <1>7. Levels = L
    BY <1>1 DEF Now
  <1> HIDE DEF L
  <1>8. /\ L[k + 1].kind = KindAt(frames, k)
        /\ L[k + 1].items = CountAt(z, k, z.state.elem_count, k) - CountBefore(z, frames, k)
        /\ L[k + 1].text = Stretch(sent, mem, BodyAt(frames, k), EndAt(frames, k, PositionOf(z), k))
        /\ L[k + 1].text \in Seq(Byte)
    BY <1>2, <1>6
  <1>9. /\ KindAt(frames, k) = HeaderKind(frames[k].kind)
        /\ CountAt(z, k, z.state.elem_count, k) = z.state.elem_count
        /\ EndAt(frames, k, PositionOf(z), k) = PositionOf(z)
    BY <1>2 DEF KindAt, HeaderKind, CountAt, EndAt
  <1>10. Doc!Inner = L[k + 1] /\ Doc!Outer = SubSeq(Levels, 1, k)
    BY <1>2, <1>6, <1>7 DEF Doc!Inner, Doc!Outer
  <1>11. Len(L[k + 1].text) = PositionOf(z) - BodyAt(frames, k)
    <2> DEFINE from == BodyAt(frames, k)
               to == PositionOf(z)
    <2>1. from \in Nat /\ to \in Nat /\ from <= to /\ to <= Len(sent) + MaxRoom
      BY <1>2, <1>3, <1>4
    <2>2. L[k + 1].text = Stretch(sent, mem, from, to)
      BY <1>8, <1>9
    <2> HIDE DEF from, to
    <2>3. Len(Stretch(sent, mem, from, to)) = to - from
      BY <1>2, <2>1, StretchType
    <2> QED BY <2>2, <2>3 DEF from, to
  <1> QED BY <1>2, <1>3, <1>6, <1>7, <1>8, <1>9, <1>10, <1>11

(* The innermost construct is closed: the one around it gets T.            *)
LEMMA CloseStep ==
    ASSUME IInv, DocInv, IInv', mode = "run", mode' = "run", room' = room, sent' = sent,
           frames # << >>, frames' = Popped(frames),
           NEW T, NEW items \in Int, Ends(z, mem, sent, frames, z', mem', T, items)
    PROVE  /\ DocInv'
           /\ Levels' = Doc!With(Doc!Outer, T, items)
           /\ Status = "open" /\ Status' = "open"
  <1>1. /\ Written(z, mem, sent, frames) /\ Len(z.backup_list) = Len(frames)
        /\ Levels = Now(z, mem, sent, frames) /\ Status = "open"
    BY SessionWritten
  <1>2. /\ Written(z', mem', sent, Popped(frames))
        /\ Now(z', mem', sent, Popped(frames))
                = Doc!With(SubSeq(Now(z, mem, sent, frames), 1, Len(frames)), T, items)
    BY <1>1, WrittenEnds
  <1>3. Doc!Outer = SubSeq(Levels, 1, Len(frames))
    BY InnerIs
  <1>4. z'.base + room' < MaxElemCount
    BY DEF DocInv, Ends, Pulled
  <1> QED BY <1>1, <1>2, <1>3, <1>4, StillWritten
(* Which levels are items.                                                 *)
LEMMA ItemsAre ==
    ASSUME IInv, DocInv, mode = "run"
    PROVE  /\ Len(frames) \in Nat /\ DOMAIN frames = 1 .. Len(frames)
           /\ Doc!Items = {i + 1 : i \in {j \in DOMAIN frames : frames[j].kind = "item"}}
  <1>1. /\ Written(z, mem, sent, frames) /\ Levels = Now(z, mem, sent, frames)
        /\ Typed(z, mem, sent, frames)
    BY SessionWritten DEF Written
  <1> DEFINE k == Len(frames)
  <1>2. k \in Nat /\ DOMAIN frames = 1 .. k
    BY <1>1, TypedFields
  <1>3. Readable(z, mem, sent, frames, k, PositionOf(z), z.state.elem_count)
    BY <1>1, WrittenReadable
  <1> HIDE DEF k
  <1>4. /\ Levels \in Seq(DocLevel) /\ Len(Levels) = k + 1
        /\ \A i \in 0 .. k : Levels[i + 1].kind = KindAt(frames, i)
    <2>1. Levels = LevelsOf(z, mem, sent, frames, k, PositionOf(z), z.state.elem_count)
      BY <1>1 DEF Now, k
    <2> QED BY <1>3, <2>1, LevelsOfType
  <1>5. DOMAIN Levels = 1 .. k + 1
    BY <1>2, <1>4
  <1>6. \A i \in 0 .. k : KindAt(frames, i) = "item" <=> i \in 1 .. k /\ frames[i].kind = "item"
    BY <1>2 DEF KindAt
  <1>7. ASSUME NEW x PROVE x \in Doc!Items <=> \E i \in 1 .. k : frames[i].kind = "item" /\ x = i + 1
    <2>1. ASSUME x \in Doc!Items PROVE \E i \in 1 .. k : frames[i].kind = "item" /\ x = i + 1
      <3>1. x \in 1 .. k + 1 /\ Levels[x].kind = "item"
        BY <1>5, <2>1 DEF Doc!Items
      <3>2. x - 1 \in 0 .. k /\ x = (x - 1) + 1
        BY <1>2, <3>1
      <3>3. x - 1 \in 1 .. k /\ frames[x - 1].kind = "item"
        BY <1>4, <1>6, <3>1, <3>2
      <3> QED BY <3>2, <3>3
    <2>2. ASSUME NEW i \in 1 .. k, frames[i].kind = "item", x = i + 1 PROVE x \in Doc!Items
      <3>1. i \in 0 .. k /\ i + 1 \in 1 .. k + 1
        BY <1>2
      <3>2. Levels[i + 1].kind = "item"
        BY <1>4, <1>6, <2>2, <3>1
      <3> QED BY <1>5, <2>2, <3>1, <3>2 DEF Doc!Items
    <2> QED BY <2>1, <2>2
  <1> QED BY <1>2, <1>7 DEF k

(* A call fails: what is left is the document up to the innermost item, or *)
(* nothing.                                                                *)
LEMMA FailStep ==
    ASSUME IInv, DocInv, IInv', mode = "run", mode' = "failing", room' = room, sent' = sent,
           z'.base = z.base, z'.section = z.section,
           Len(frames') <= Len(frames), \A i \in 1 .. Len(frames') : frames'[i] = frames[i],
           \A i \in 1 .. Len(frames) : frames[i].kind = "item" => i <= Len(frames'),
           \A i \in 1 .. Len(frames') : z'.backup_list[i] = z.backup_list[i],
           NEW p \in Nat, Agree(sent, mem, sent, mem', p),
           \A i \in 1 .. Len(frames') : BodyAt(frames', i) <= p
    PROVE  DocInv' /\ Doc!Next
  <1> DEFINE gs == frames'
             n == Standing'
  <1>1. /\ Written(z, mem, sent, frames) /\ Levels = Now(z, mem, sent, frames)
        /\ Typed(z, mem, sent, frames) /\ Laid(z, mem, sent, frames) /\ Status = "open"
    BY SessionWritten DEF Written
  <1>2. TypeOK' /\ Len(frames') <= Len(z'.backup_list)
    BY DEF IInv, Sound
  <1>3. Typed(z', mem', sent, gs) /\ gs \in Seq(Frame)
    <2>1. (IInv => /\ z.state.payload \in Nat /\ z.state.payload <= MaxRoom
                   /\ room \in Nat /\ room <= MaxRoom)'
      BY PayloadFits, PTL
    <2>2. z' \in Context /\ mem' \in Memory /\ sent \in Seq(Byte) /\ frames' \in Seq(Frame)
      BY <1>2 DEF TypeOK, Memory
    <2> QED BY <1>2, <2>1, <2>2 DEF Typed
  <1>4. Laid(z', mem', sent, gs)
    BY <1>1, <1>3, LaidKept
  <1>5. DocInv'
    BY <1>4 DEF DocInv
  <1>6. IF \E i \in DOMAIN gs : gs[i].kind = "item"
        THEN n \in DOMAIN gs /\ LastItemOf(gs, n)
        ELSE n = 0
    <2>1. (mode # "run" /\ frames \in Seq(Frame) =>
                IF \E i \in DOMAIN frames : frames[i].kind = "item"
                THEN Standing \in DOMAIN frames /\ LastItemOf(frames, Standing)
                ELSE Standing = 0)'
      BY StandingIs, PTL
    <2> QED BY <1>3, <2>1
  <1>7. (TypeOK /\ Len(frames) <= Len(z.backup_list) /\ mode # "run" /\ Standing \in DOMAIN frames
            => Levels = LevelsOf(z, mem, sent, frames, Standing,
                                 BodyAt(frames, Standing), z.backup_list[Standing].elem_count))'
    BY FailingLevelsThen, PTL
  <1>8. Streamed' = NoString
    BY DEF Streamed, NoString
  <1>9. /\ Len(frames) \in Nat /\ DOMAIN frames = 1 .. Len(frames)
        /\ Doc!Items = {i + 1 : i \in {j \in DOMAIN frames : frames[j].kind = "item"}}
    BY ItemsAre
  <1>10. Len(gs) \in Nat /\ DOMAIN gs = 1 .. Len(gs)
    BY <1>3
  <1>11. CASE ~ \E i \in DOMAIN gs : gs[i].kind = "item"
    <2>1. n = 0
      BY <1>6, <1>11
    <2>2. Levels' = << >> /\ Status' = "failed"
      BY <2>1 DEF Levels, Status
    <2>3. Doc!Items = {}
      BY <1>9, <1>10, <1>11
    <2> QED BY <1>1, <1>5, <1>8, <2>2, <2>3 DEF Doc!Next, Doc!Fail, Doc!NoString, NoString
  <1>12. CASE \E i \in DOMAIN gs : gs[i].kind = "item"
    <2>1. n \in 1 .. Len(gs) /\ LastItemOf(gs, n)
      BY <1>6, <1>10, <1>12
    <2>2. Status' = "failing"
      BY <1>10, <2>1 DEF Status
    <2>3. Levels' = LevelsOf(z', mem', sent, gs, n, BodyAt(gs, n), z'.backup_list[n].elem_count)
      BY <1>2, <1>7, <1>10, <2>1
    <2>4. gs[n].kind = "item" /\ BodyAt(gs, n) <= p
      BY <2>1 DEF LastItemOf
    <2> HIDE DEF gs, n
    <2>5. Levels' = Append(SubSeq(Levels, 1, n), Doc!NewLevel("item"))
      <3>1. /\ Len(gs) <= Len(frames) /\ \A i \in 1 .. Len(gs) : gs[i] = frames[i]
            /\ \A i \in 1 .. Len(gs) : z'.backup_list[i] = z.backup_list[i]
        BY DEF gs
      <3>2. Agree(sent, mem, sent, mem', p) /\ p \in Nat
        OBVIOUS
      <3>3. LevelsOf(z', mem', sent, gs, n, BodyAt(gs, n), z'.backup_list[n].elem_count)
                = Append(SubSeq(Now(z, mem, sent, frames), 1, n), Doc!NewLevel("item"))
        BY ONLY <1>1, <1>3, <1>4, <2>1, <2>4, <3>1, <3>2, WrittenCut
      <3> QED BY <1>1, <2>3, <3>3
    <2>6. n + 1 \in Doc!Items /\ \A j \in Doc!Items : j <= n + 1
      <3>1. n \in 1 .. Len(frames) /\ frames[n].kind = "item"
        BY <1>9, <1>10, <2>1, <2>4 DEF gs
      <3>2. ASSUME NEW i \in 1 .. Len(frames), frames[i].kind = "item" PROVE i <= n
        BY <1>9, <1>10, <2>1, <3>2 DEF gs, LastItemOf
      <3> QED BY <1>9, <3>1, <3>2
    <2>7. (CHOOSE i \in Doc!Items : \A j \in Doc!Items : j <= i) = n + 1
      <3>1. \A i \in Doc!Items : i \in Nat
        BY <1>9
      <3>2. n \in Nat
        BY <1>10, <2>1
      <3>3. \A i \in Doc!Items : (\A j \in Doc!Items : j <= i) => i = n + 1
        BY <2>6, <3>1, <3>2
      <3> QED BY <2>6, <3>3
    <2>8. Doc!Items # {} /\ (n + 1) - 1 = n
      BY <1>10, <2>1, <2>6
    <2>9. Doc!Fail
      BY <1>1, <1>8, <2>2, <2>5, <2>7, <2>8 DEF Doc!Fail, Doc!NoString, NoString
    <2> QED BY <1>5, <2>9 DEF Doc!Next
  <1> QED BY <1>11, <1>12
(* A call fails that opened or wrote nothing of the document.              *)
LEMMA FailCall ==
    ASSUME IInv, DocInv, IInv', mode = "run", mode' = "failing", room' = room, sent' = sent,
           mem' = mem, frames' = frames, Same(z, z') \/ Saved(z, z')
    PROVE  DocInv' /\ Doc!Next
  <1>1. Written(z, mem, sent, frames) /\ Typed(z, mem, sent, frames)
        /\ Len(z.backup_list) = Len(frames)
    BY SessionWritten DEF Written
  <1>2. /\ PositionOf(z) \in Nat /\ Len(frames) \in Nat /\ DOMAIN frames = 1 .. Len(frames)
        /\ z.backup_list \in Seq(State)
    BY <1>1, TypedFields
  <1>3. z'.base = z.base /\ z'.section = z.section
    BY DEF Same, Saved
  <1>4. \A i \in 1 .. Len(frames) : z'.backup_list[i] = z.backup_list[i]
    <2>1. CASE Same(z, z')
      BY <2>1 DEF Same
    <2>2. CASE Saved(z, z')
      <3>1. PICK b \in State : z'.backup_list = Append(z.backup_list, b)
        BY <2>2 DEF Saved
      <3> QED BY <1>1, <1>2, <3>1
    <2> QED BY <2>1, <2>2
  <1>5. Agree(sent, mem, sent, mem', PositionOf(z))
    BY DEF Agree
  <1>6. \A i \in 1 .. Len(frames') : BodyAt(frames', i) <= PositionOf(z)
    BY <1>1, <1>2 DEF Written, OnTop
  <1>7. /\ Len(frames') <= Len(frames) /\ \A i \in 1 .. Len(frames') : frames'[i] = frames[i]
        /\ \A i \in 1 .. Len(frames) : frames[i].kind = "item" => i <= Len(frames')
        /\ \A i \in 1 .. Len(frames') : z'.backup_list[i] = z.backup_list[i]
    BY <1>2, <1>4
  <1> QED BY <1>2, <1>3, <1>5, <1>6, <1>7, FailStep

(* The end of a construct fails: it is lost, but what is before it is as it *)
(* was.                                                                    *)
LEMMA FailClose ==
    ASSUME IInv, DocInv, IInv', mode = "run", mode' = "failing", room' = room, sent' = sent,
           frames # << >>, Top(frames).kind # "item", frames' = Popped(frames),
           z' = z \/ Pulled(z, z'),
           \/ mem' = mem
           \/ /\ ~ Top(z.backup_list).payload_moved
              /\ Behind(mem, mem', Top(z.backup_list).payload)
    PROVE  DocInv' /\ Doc!Next
  <1>1. /\ Written(z, mem, sent, frames) /\ Typed(z, mem, sent, frames)
        /\ Laid(z, mem, sent, frames) /\ Len(z.backup_list) = Len(frames)
        /\ frames \in Seq(Frame)
    BY SessionWritten DEF Written, Typed
  <1> DEFINE k == Len(frames)
             p == frames[k].at
  <1>2. k \in Nat /\ k > 0 /\ k \in 1 .. k /\ DOMAIN frames = 1 .. k /\ k - 1 \in Nat
    BY <1>1
  <1>3. /\ z.backup_list \in Seq(State) /\ Len(sent) \in Nat /\ z.base = Len(sent)
        /\ z.base \in Nat /\ p \in Nat /\ z.backup_list[k].payload \in Nat
    BY <1>1, <1>2, TypedFields DEF Laid
  <1>4. z'.base = z.base /\ z'.section = z.section
    BY DEF Pulled
  <1>5. Len(Popped(frames)) = k - 1 /\ \A i \in 1 .. k - 1 : Popped(frames)[i] = frames[i]
    BY <1>1, <1>2 DEF Popped
  <1>6. \A i \in 1 .. k - 1 : z'.backup_list[i] = z.backup_list[i]
    <2>1. CASE z' = z
      BY <2>1
    <2>2. CASE Pulled(z, z')
      BY <1>1, <1>2, <1>3, <2>2 DEF Pulled, Popped
    <2> QED BY <2>1, <2>2
  <1>7. Agree(sent, mem, sent, mem', p)
    <2>1. CASE mem' = mem
      BY <2>1 DEF Agree
    <2>2. CASE ~ Top(z.backup_list).payload_moved
               /\ Behind(mem, mem', Top(z.backup_list).payload)
      <3> DEFINE b == z.backup_list[k]
      <3>1. b = Top(z.backup_list) /\ frames[k] = Top(frames)
        BY <1>1 DEF Top
      <3>2. frames[k].section = z.section
        BY <2>2, <3>1, InnermostFrame DEF FrameSound
      <3>3. p = Len(sent) + b.payload
        BY <1>1, <1>2, <1>3, <3>2 DEF Laid, BackupsPlaced, BackupPlaced
      <3>4. b.payload <= MaxRoom /\ b.payload \in Nat /\ MaxRoom \in Nat /\ Slack \in Nat
        <4>1. b.payload <= room /\ room <= MaxRoom /\ room \in Nat
          BY <1>1, <1>2, LiveEnd DEF Bounded, Fits
        <4> QED BY <1>3, <4>1, EncodeInputsAssumption
      <3>5. \A i \in Offsets : i < b.payload => mem'[i] = mem[i]
        BY <2>2, <3>1 DEF Behind
      <3> HIDE DEF b
      <3>6. ASSUME NEW q \in Nat, q < p PROVE At(sent, mem', q) = At(sent, mem, q)
        <4>1. CASE q < Len(sent)
          BY <4>1 DEF At
        <4>2. CASE ~ q < Len(sent)
          <5>1. q - Len(sent) \in Offsets /\ q - Len(sent) < b.payload
            BY <1>3, <3>3, <3>4, <3>6, <4>2 DEF Offsets
          <5> QED BY <3>5, <4>2, <5>1 DEF At
        <4> QED BY <4>1, <4>2
      <3> QED BY <3>6 DEF Agree
    <2> QED BY <2>1, <2>2
  <1>8. \A i \in 1 .. k - 1 : BodyAt(Popped(frames), i) <= p
    <2>1. \A i \in 1 .. k - 1 : BodyAt(Popped(frames), i) = BodyAt(frames, i)
      BY <1>2, <1>5 DEF BodyAt
    <2>2. \A i \in 1 .. k - 1 : BodyAt(frames, i) <= p
      BY <1>1, <1>2 DEF Laid, Ordered
    <2> QED BY <2>1, <2>2
  <1>9. frames[k].kind # "item"
    BY <1>1 DEF Top
  <1> HIDE DEF p
  <1>10. /\ Len(frames') <= Len(frames) /\ \A i \in 1 .. Len(frames') : frames'[i] = frames[i]
         /\ \A i \in 1 .. Len(frames) : frames[i].kind = "item" => i <= Len(frames')
         /\ \A i \in 1 .. Len(frames') : z'.backup_list[i] = z.backup_list[i]
         /\ \A i \in 1 .. Len(frames') : BodyAt(frames', i) <= p
    BY <1>2, <1>5, <1>6, <1>8, <1>9
  <1> QED BY <1>3, <1>4, <1>7, <1>10, FailStep

(* The bytes of the document are those of the encoder.                     *)
LEMMA DocBytes ==
    ASSUME NEW kind, NEW n, NEW from
    PROVE  /\ Doc!Header(kind, n) = Header(kind, n)
           /\ Doc!Data(from, n) = Data(from, n)
  BY DEF Doc!Header, Doc!Data, Doc!Bytes, Doc!HeaderLen, Header, Data, Bytes, HeaderLen

(* What is streamed while no string is, and while one is.                  *)
LEMMA StreamIs ==
    /\ mode = "run" /\ ~ z.state.inside_frag_str => Streamed = NoString
    /\ mode = "run" /\ z.state.inside_frag_str =>
            Streamed = [done |-> fed, left |-> StringRemainder(z.state)]
    /\ mode # "run" => Streamed = NoString
  BY DEF Streamed, BetweenItems, Running, NoString
(* What the innermost construct is made of, in the section it was opened   *)
(* in.                                                                     *)
LEMMA InnerIsHere ==
    ASSUME IInv, DocInv, mode = "run", frames # << >>,
           NEW k, k = Len(frames), NEW b, b = Top(z.backup_list), ~ b.payload_moved
    PROVE  /\ frames[k].at = Len(sent) + b.payload
           /\ PositionOf(z) = Len(sent) + z.state.payload
           /\ Within(z.state, b, frames[k])
           /\ b \in State /\ b.payload \in Nat /\ b.payload_end \in Nat /\ b.payload_end <= MaxRoom
  <1>1. /\ Written(z, mem, sent, frames) /\ Typed(z, mem, sent, frames)
        /\ Laid(z, mem, sent, frames) /\ Len(z.backup_list) = Len(frames)
        /\ frames \in Seq(Frame)
    BY SessionWritten DEF Written, Typed
  <1>2. k \in Nat /\ k > 0 /\ k \in 1 .. k /\ DOMAIN frames = 1 .. k
    BY <1>1
  <1>3. b = z.backup_list[k] /\ frames[k] = Top(frames)
    BY <1>1, <1>2 DEF Top
  <1>4. /\ b \in State /\ b.payload_end \in Nat /\ b.payload_end <= room
        /\ FrameSound(b, frames[k], z.section)
        /\ frames[k].section = z.section => Within(z.state, b, frames[k])
    BY <1>3, InnermostFrame
  <1>5. frames[k].section = z.section
    BY <1>4 DEF FrameSound
  <1>6. frames[k].at = z.base + b.payload /\ z.base = Len(sent)
    BY <1>1, <1>2, <1>3, <1>5 DEF Laid, BackupsPlaced, BackupPlaced
  <1>7. room \in Nat /\ room <= MaxRoom /\ MaxRoom \in Nat
    BY LiveEnd, EncodeInputsAssumption
  <1>8. b.payload \in Nat
    BY <1>4 DEF State
  <1> QED BY <1>4, <1>5, <1>6, <1>7, <1>8 DEF PositionOf

(* A construct that is closed where it is: its header is right.            *)
LEMMA EndsAsItIs ==
    ASSUME IInv, DocInv, mode = "run", frames # << >>,
           NEW f, f = Top(frames), f.kind \in Containers \cup {"cborfrag"},
           NEW d, Continues(z, d, 1)
    PROVE  Ends(z, mem, sent, frames, d, mem, Header(HeaderKind(f.kind), f.hint) \o Doc!Inner.text, 1)
  <1> DEFINE k == Len(frames)
             H == Header(HeaderKind(f.kind), f.hint)
             B == Doc!Inner.text
             p == frames[k].at
             q == BodyAt(frames, k)
             end == PositionOf(z)
  <1>1. /\ Written(z, mem, sent, frames) /\ Typed(z, mem, sent, frames)
        /\ Laid(z, mem, sent, frames) /\ OnTop(z, frames) /\ Len(z.backup_list) = Len(frames)
        /\ frames \in Seq(Frame) /\ mem \in Memory /\ z.state.payload <= MaxRoom
    BY SessionWritten DEF Written, Typed
  <1>2. k \in Nat /\ k > 0 /\ k \in 1 .. k /\ DOMAIN frames = 1 .. k
    BY <1>1
  <1>3. f = frames[k] /\ f \in Frame /\ f.kind # "item" /\ p \in Nat
    <2>1. f = frames[k] /\ f \in Frame
      BY <1>1, <1>2 DEF Top
    <2>2. f.kind # "item"
      BY DEF Containers
    <2> QED BY <2>1, <2>2 DEF Frame
  <1>4. /\ q \in Nat /\ end \in Nat /\ q <= end
        /\ B = Stretch(sent, mem, q, end) /\ B \in Seq(Byte) /\ Len(B) = end - q
    BY InnerIs
  <1>5. H \in Seq(Byte) /\ Len(H) = HeaderLen(f.hint) /\ Len(H) \in Nat /\ Len(H) >= 1
    <2>1. H = HeaderOf(f)
      BY <1>3 DEF HeaderOf
    <2> HIDE DEF H
    <2> QED BY <1>3, <2>1, HeaderOfType
  <1>6. q = p + Len(H)
    BY <1>2, <1>3, <1>5 DEF BodyAt
  <1>7. Reads(sent, mem, p, H)
    <2>1. HeaderRead(sent, mem, frames[k])
      BY <1>1, <1>2, <1>3 DEF Laid, HeadersWritten
    <2> QED BY <1>3, <2>1 DEF HeaderRead, HeaderKind
  <1>8. z.backup_list[k].elem_count <= p /\ z.backup_list[k].elem_count \in Nat
    BY <1>1, <1>2, TypedFields DEF Laid, BackupsPlaced, BackupPlaced
  <1>9. Top(z.backup_list) = z.backup_list[k] /\ Top(frames) = frames[k]
    BY <1>1 DEF Top
  <1>10. PositionOf(d) = end
    BY DEF Continues, Pulled, PositionOf
  <1> HIDE DEF k, H, B, q, end, p
  <1>11. /\ H \o B \in Seq(Byte) /\ Len(H \o B) = Len(H) + Len(B)
         /\ \A i \in 1 .. Len(H) : (H \o B)[i] = H[i]
         /\ \A i \in 1 .. Len(B) : (H \o B)[Len(H) + i] = B[i]
    BY <1>4, <1>5, Joined
  <1>12. PositionOf(d) = p + Len(H \o B)
    <2> DEFINE x == Len(H)
               y == Len(B)
               v == Len(H \o B)
    <2>1. x \in Nat /\ y = end - q /\ v = x + y /\ q = p + x /\ p \in Nat /\ end \in Nat
      BY <1>3, <1>4, <1>5, <1>6, <1>11
    <2> HIDE DEF x, y, v
    <2>2. end = p + v
      BY <2>1
    <2> QED BY <1>10, <2>2 DEF v
  <1>13. Reads(sent, mem, p, H \o B)
    <2>1. ASSUME NEW j \in 1 .. Len(H \o B) PROVE At(sent, mem, p + j - 1) = (H \o B)[j]
      <3>1. CASE j <= Len(H)
        <4>1. j \in 1 .. Len(H)
          BY <3>1
        <4> QED BY <1>7, <1>11, <4>1 DEF Reads
      <3>2. CASE j > Len(H)
        <4> DEFINE i == j - Len(H)
        <4>1. i \in 1 .. Len(B) /\ j = Len(H) + i /\ i \in 1 .. end - q
          BY <1>4, <1>5, <1>11, <3>2
        <4>2. p + j - 1 = q + i - 1
          BY <1>3, <1>4, <1>5, <1>6
        <4> HIDE DEF i
        <4>3. B[i] = At(sent, mem, q + i - 1)
          BY <1>4, <4>1 DEF Stretch
        <4>4. (H \o B)[j] = B[i]
          BY <1>11, <4>1
        <4> QED BY <4>2, <4>3, <4>4
      <3> QED BY <1>5, <1>11, <3>1, <3>2
    <2> QED BY <2>1 DEF Reads
  <1>14. Agree(sent, mem, sent, mem, p)
    BY DEF Agree
  <1>15. d.state.elem_count = z.backup_list[k].elem_count + 1
    BY <1>9 DEF Continues
  <1>16. d.state.elem_count <= PositionOf(d)
    BY <1>3, <1>4, <1>5, <1>6, <1>8, <1>10, <1>15
  <1>17. /\ Pulled(z, d) /\ SameCbor(Top(z.backup_list), d.state)
         /\ d.state.elem_count = Top(z.backup_list).elem_count + 1
         /\ d.state.payload <= MaxRoom
    BY <1>1 DEF Continues
  <1> QED BY <1>1, <1>9, <1>11, <1>12, <1>13, <1>14, <1>16, <1>17 DEF Ends, p, H, B

(* A construct that is closed with a new header, moved behind it.          *)
LEMMA EndsReplaced ==
    ASSUME IInv, DocInv, mode = "run", frames # << >>,
           NEW d, NEW n, NEW T, NEW items \in Int, Replaces(z, mem, d, n, T, items),
           items <= Len(T), d.state.payload <= MaxRoom
    PROVE  Ends(z, mem, sent, frames, d, n, T, items)
  <1> DEFINE k == Len(frames)
             b == Top(z.backup_list)
             p == frames[k].at
  <1>1. /\ Written(z, mem, sent, frames) /\ Typed(z, mem, sent, frames)
        /\ Laid(z, mem, sent, frames) /\ Len(z.backup_list) = Len(frames)
        /\ frames \in Seq(Frame) /\ mem \in Memory /\ sent \in Seq(Byte)
    BY SessionWritten DEF Written, Typed
  <1>2. k \in Nat /\ k > 0 /\ k \in 1 .. k /\ DOMAIN frames = 1 .. k
    BY <1>1
  <1>3. ~ b.payload_moved /\ T \in Seq(Byte) /\ Put(mem, n, b.payload, T)
    BY DEF Replaces
  <1>4. /\ p = Len(sent) + b.payload /\ b.payload \in Nat /\ b.payload <= MaxRoom
        /\ Len(sent) \in Nat /\ Len(T) \in Nat
    <2>1. b \in State /\ b.payload_end <= MaxRoom /\ p = Len(sent) + b.payload /\ b.payload \in Nat
      BY <1>3, InnerIsHere
    <2>2. b = z.backup_list[k] /\ k \in 1 .. Len(z.backup_list)
      BY <1>1, <1>2 DEF Top
    <2>3. b.payload <= room /\ room \in Nat /\ room <= MaxRoom
      BY <2>2, LiveEnd DEF Bounded, Fits
    <2> HIDE DEF b, p
    <2> QED BY <1>1, <1>3, <2>1, <2>3, EncodeInputsAssumption
  <1>5. z.backup_list[k].elem_count <= p /\ z.backup_list[k].elem_count \in Nat
    BY <1>1, <1>2, TypedFields DEF Laid, BackupsPlaced, BackupPlaced
  <1>6. b = z.backup_list[k] /\ Top(frames) = frames[k]
    BY <1>1 DEF Top
  <1>7. /\ Pulled(z, d) /\ d.state.payload = b.payload + Len(T)
        /\ d.state.elem_count = b.elem_count + items /\ SameCbor(b, d.state)
    BY DEF Replaces
  <1>8. d.base = Len(sent)
    BY <1>1, <1>7 DEF Pulled, Laid
  <1>9. Agree(sent, mem, sent, n, Len(sent) + b.payload) /\ Reads(sent, n, Len(sent) + b.payload, T)
    <2> HIDE DEF b
    <2> QED BY <1>1, <1>3, <1>4, PutLogical
  <1>10. n \in Memory
    BY <1>3 DEF Put
  <1> HIDE DEF b, p, k
  <1>11. PositionOf(d) = p + Len(T)
    BY <1>4, <1>7, <1>8 DEF PositionOf
  <1>12. d.state.elem_count <= PositionOf(d)
    <2> DEFINE e == b.elem_count
               t == Len(T)
    <2>1. /\ e \in Nat /\ e <= p /\ p \in Nat /\ t \in Nat /\ items <= t
          /\ d.state.elem_count = e + items /\ PositionOf(d) = p + t
      BY <1>4, <1>5, <1>6, <1>7, <1>11
    <2> HIDE DEF e, t
    <2> QED BY <2>1
  <1> QED BY <1>3, <1>4, <1>6, <1>7, <1>9, <1>10, <1>11, <1>12 DEF Ends, b, p

(* The bytes that are moved are the contents.                              *)
LEMMA CopiedText ==
    ASSUME NEW s \in Seq(Byte), NEW m \in Memory, NEW from \in Nat, NEW end \in Nat,
           from <= end
    PROVE  Copied(m, from, end - from) = Stretch(s, m, Len(s) + from, Len(s) + end)
  <1>1. Len(s) \in Nat /\ (Len(s) + end) - (Len(s) + from) = end - from
    OBVIOUS
  <1>2. ASSUME NEW i \in 1 .. end - from
        PROVE  m[from + i - 1] = At(s, m, Len(s) + from + i - 1)
    <2> DEFINE p == Len(s) + from + i - 1
    <2>1. ~ p < Len(s) /\ p - Len(s) = from + i - 1
      BY <1>1
    <2> HIDE DEF p
    <2>2. m[from + i - 1] = At(s, m, p)
      BY <2>1 DEF At
    <2> QED BY <2>2 DEF p
  <1> QED BY <1>1, <1>2 DEF Copied, Stretch
(* A call that writes something: Writes is growth.                         *)
LEMMA WritesGrows ==
    ASSUME NEW c, NEW m, NEW d, NEW n, NEW T, NEW items, Writes(c, m, d, n, T, items)
    PROVE  Grows(c, m, d, n, T, items) /\ d.state.inside_frag_str = c.state.inside_frag_str
  BY DEF Writes, Counts, Grows

(* What is streamed after a step that is outside of strings.               *)
LEMMA StreamStays ==
    ASSUME mode' = "run", ~ z'.state.inside_frag_str
    PROVE  Streamed' = NoString
  BY DEF Streamed, BetweenItems, Running, NoString

(* A value, a tag or a string is added, or the document fails.             *)
LEMMA ValueStep ==
    ASSUME IInv, DocInv, IInv', mode = "run", NEW r, r.ok \in BOOLEAN, Call(r),
           NEW T, NEW items \in {0, 1},
           r.ok => /\ Writes(z, mem, r.z, r.mem, T, items) /\ items <= Len(T)
                   /\ ~ z.state.inside_frag_str,
           ~ r.ok => r.z = z /\ r.mem = mem
    PROVE  /\ DocInv'
           /\ \/ Doc!Next
              \/ /\ Doc!Between
                 /\ Levels' = Doc!With(Levels, T, items)
                 /\ Status' = Status /\ Streamed' = Streamed
  <1>1. /\ z' = r.z /\ mem' = r.mem /\ room' = room /\ sent' = sent /\ frames' = frames
        /\ mode' = IF r.ok THEN "run" ELSE "failing"
    BY DEF Call, Did
  <1>2. CASE r.ok
    <2>1. Grows(z, mem, z', mem', T, items) /\ z'.state.inside_frag_str = z.state.inside_frag_str
      BY <1>1, <1>2, WritesGrows
    <2>2. /\ DocInv' /\ Levels' = Doc!With(Levels, T, items)
          /\ Status = "open" /\ Status' = "open"
      BY <1>1, <1>2, <2>1, GrowStep
    <2>3. Streamed = NoString /\ Streamed' = NoString
      BY <1>1, <1>2, <2>1, StreamIs, StreamStays
    <2> QED BY <2>2, <2>3 DEF Doc!Between, Doc!NoString, NoString
  <1>3. CASE ~ r.ok
    <2>1. Same(z, z')
      BY <1>1, <1>3, LiveEnd DEF Same
    <2> QED BY <1>1, <1>3, <2>1, FailCall
  <1> QED BY <1>2, <1>3

(* Values, tags and strings are added to the innermost level.              *)
LEMMA ValuesDocument ==
    ASSUME IInv, DocInv, IInv', EncodeValue \/ EncodeTag \/ EncodeString
    PROVE  DocInv' /\ Doc!Next
  <1>1. /\ z \in Context /\ mem \in Memory /\ mode = "run"
        /\ z.state.payload \in Nat /\ z.state.payload_end \in Nat
    BY LiveEnd DEF EncodeValue, EncodeTag, EncodeString, BetweenItems, Running
  <1>2. z.state.elem_count < MaxElemCount /\ z.state.payload_end <= MaxRoom
    BY <1>1, SessionWritten
  <1>3. CASE EncodeValue
    <2>1. PICK n \in ValueLens : Call(ValueEncodeLen(z, mem, "value", n, n))
      BY <1>3 DEF EncodeValue
    <2> DEFINE r == ValueEncodeLen(z, mem, "value", n, n)
               T == Bytes("value", n, n)
    <2>2. n \in Nat /\ n > 0 /\ "value" \in Kinds
      BY EncodeInputsAssumption DEF Kinds
    <2>3. /\ r.ok \in BOOLEAN
          /\ r.ok => Writes(z, mem, r.z, r.mem, T, 1)
          /\ r.ok => ~ z.state.inside_frag_str
          /\ ~ r.ok => r.z = z /\ r.mem = mem
      BY <1>1, <1>2, <2>2, ValueEncodeLenEffect, ValueEncodeLenWrites
    <2>4. 1 <= Len(T)
      BY <2>2, BytesType DEF Kinds
    <2>5. Call(r)
      BY <2>1
    <2>6. T = Doc!Bytes("value", n, n)
      BY DEF Bytes, Doc!Bytes
    <2> HIDE DEF r, T
    <2>7. /\ DocInv'
          /\ \/ Doc!Next
             \/ /\ Doc!Between
                /\ Levels' = Doc!With(Levels, T, 1)
                /\ Status' = Status /\ Streamed' = Streamed
      BY <1>1, <2>3, <2>4, <2>5, ValueStep
    <2> QED BY <2>6, <2>7 DEF Doc!Next, Doc!AddValue, Doc!Add
  <1>4. CASE EncodeTag
    <2>1. PICK n \in ValueLens : Call(TagEncode(z, mem, n, n))
      BY <1>4 DEF EncodeTag
    <2> DEFINE r == TagEncode(z, mem, n, n)
               T == Bytes("tag", n, n)
    <2>2. n \in Nat /\ ~ z.state.inside_frag_str
      BY <1>4, EncodeInputsAssumption DEF EncodeTag, BetweenItems
    <2>3. /\ r.ok \in BOOLEAN
          /\ r.ok => Writes(z, mem, r.z, r.mem, T, 0)
          /\ ~ r.ok => r.z = z /\ r.mem = mem
      BY <1>1, <1>2, <2>2, TagEncodeEffect, TagEncodeWrites
    <2>4. 0 <= Len(T)
      BY <2>2, BytesType DEF Kinds
    <2>5. Call(r)
      BY <2>1
    <2>6. T = Doc!Bytes("tag", n, n)
      BY DEF Bytes, Doc!Bytes
    <2> HIDE DEF r, T
    <2>7. /\ DocInv'
          /\ \/ Doc!Next
             \/ /\ Doc!Between
                /\ Levels' = Doc!With(Levels, T, 0)
                /\ Status' = Status /\ Streamed' = Streamed
      BY <1>1, <2>2, <2>3, <2>4, <2>5, ValueStep
    <2> QED BY <2>6, <2>7 DEF Doc!Next, Doc!AddTag, Doc!Add
  <1>5. CASE EncodeString
    <2>1. PICK n \in StringLens : Call(StrEncode(z, mem, "tstr", n, Elsewhere))
      BY <1>5 DEF EncodeString
    <2> DEFINE r == StrEncode(z, mem, "tstr", n, Elsewhere)
               H == Header("tstr", n)
               U == Data(0, n)
               T == H \o U
    <2>2. n \in Nat /\ ~ z.state.inside_frag_str /\ "tstr" \in Kinds
      BY <1>5, EncodeInputsAssumption DEF EncodeString, BetweenItems, Kinds
    <2>3. /\ r.ok \in BOOLEAN
          /\ r.ok => Writes(z, mem, r.z, r.mem, T, 1)
          /\ ~ r.ok => r.z = z /\ r.mem = mem
      BY <1>1, <1>2, <2>2, StrEncodeWrites
    <2>4. 1 <= Len(T)
      <3>1. H \in Seq(Byte) /\ Len(H) \in Nat /\ Len(H) >= 1
        <4>1. HeaderLen(n) \in 1 .. 9
          BY <2>2, HeaderLenType
        <4>2. HeaderLen(n) \in Nat /\ HeaderLen(n) >= 1
          BY <4>1
        <4>3. H = Bytes("tstr", n, HeaderLen(n))
          BY DEF Header
        <4> HIDE DEF H, U, T, r
        <4> QED BY <2>2, <4>2, <4>3, BytesType
      <3>2. U \in Seq(Byte) /\ Len(U) \in Nat
        BY <2>2, DataType
      <3> HIDE DEF H, U
      <3> QED BY <3>1, <3>2
    <2>5. Call(r)
      BY <2>1
    <2>6. H = Doc!Header("tstr", n) /\ U = Doc!Data(0, n)
      BY DocBytes
    <2>8. T = Doc!Header("tstr", n) \o Doc!Data(0, n)
      BY <2>6
    <2> HIDE DEF r, H, U, T
    <2>7. /\ DocInv'
          /\ \/ Doc!Next
             \/ /\ Doc!Between
                /\ Levels' = Doc!With(Levels, T, 1)
                /\ Status' = Status /\ Streamed' = Streamed
      BY <1>1, <2>2, <2>3, <2>4, <2>5, ValueStep
    <2> QED BY <2>7, <2>8 DEF Doc!Next, Doc!AddString, Doc!Add
  <1> QED BY <1>3, <1>4, <1>5
(* A call that opens a construct, or fails.                                *)
LEMMA OpenDocument ==
    ASSUME IInv, DocInv, IInv', BetweenItems,
           NEW kind \in Containers \cup {"bstr", "cborfrag", "item"}, NEW hint,
           NEW g, g = FrameOf(kind, hint),
           NEW r, r.ok \in BOOLEAN, OpenFrame(kind, hint, r),
           r.ok => /\ hint \in Nat
                   /\ Starts(z, mem, r.z, r.mem, HeaderOf(g), FirstCount(g, z.state.elem_count))
                   /\ IF kind = "cborfrag"
                      THEN /\ r.z.state.frag_offset_cbor = 0 - r.z.state.payload
                           /\ r.z.state.str_total_len_cbor = hint
                      ELSE SameCbor(z.state, r.z.state),
           ~ r.ok => r.mem = mem /\ (Same(z, r.z) \/ Saved(z, r.z))
    PROVE  DocInv' /\ Doc!Next
  <1>1. /\ mode = "run" /\ ~ z.state.inside_frag_str
        /\ z' = r.z /\ mem' = r.mem /\ room' = room /\ sent' = sent
        /\ mode' = (IF r.ok THEN "run" ELSE "failing")
        /\ frames' = IF r.ok THEN Append(frames, g) ELSE frames
    BY DEF BetweenItems, Running, OpenFrame, Did
  <1>2. CASE r.ok
    <2>1. g.kind = kind /\ g.hint = hint /\ g.at = PositionOf(z) /\ g.section = z.section
      BY DEF FrameOf, Position, PositionOf
    <2>2. PositionOf(z) \in Nat /\ z.section \in Nat
      BY LiveEnd, ContextFields DEF PositionOf
    <2>3. g \in Frame
      BY <1>2, <2>2 DEF FrameOf, Frame, Position, PositionOf
    <2>4. /\ Starts(z, mem, z', mem', HeaderOf(g), FirstCount(g, z.state.elem_count))
          /\ IF g.kind = "cborfrag"
             THEN /\ z'.state.frag_offset_cbor = 0 - z'.state.payload
                  /\ z'.state.str_total_len_cbor = g.hint
             ELSE SameCbor(z.state, z'.state)
      BY <1>1, <1>2, <2>1
    <2>5. /\ DocInv' /\ Levels' = Append(Levels, Doc!NewLevel(HeaderKind(kind)))
          /\ Status = "open" /\ Status' = "open"
      BY <1>1, <1>2, <2>1, <2>3, <2>4, OpenStep
    <2>6. Streamed = NoString /\ Streamed' = NoString
      BY <1>1, <1>2, <2>4, StreamIs, StreamStays DEF Starts
    <2>7. HeaderKind(kind) \in Doc!Containers \cup {"bstr", "item"}
      BY DEF HeaderKind, Containers, Doc!Containers
    <2> QED BY <2>5, <2>6, <2>7 DEF Doc!Next, Doc!Open, Doc!Between, Doc!NoString, NoString
  <1>3. CASE ~ r.ok
    BY <1>1, <1>3, FailCall
  <1> QED BY <1>2, <1>3

(* Each of the starts opens a level.                                       *)
LEMMA StartsDocument ==
    ASSUME IInv, DocInv, IInv',
           \/ \E kind \in Containers : StartContainer(kind)
           \/ StartBstr \/ StartCborFragments \/ StartItem
    PROVE  DocInv' /\ Doc!Next
  <1>1. /\ z \in Context /\ mem \in Memory /\ BetweenItems /\ mode = "run"
    BY LiveEnd DEF StartContainer, StartBstr, StartCborFragments, StartItem, BetweenItems, Running
  <1>2. z.state.payload_end <= MaxRoom
    BY <1>1, SessionWritten
  <1>3. ASSUME NEW kind \in Containers, StartContainer(kind)
        PROVE  DocInv' /\ Doc!Next
    <2>1. PICK n \in Hints : OpenFrame(kind, n, ListMapStartEncode(z, mem, kind, n))
      BY <1>3 DEF StartContainer
    <2> DEFINE r == ListMapStartEncode(z, mem, kind, n)
               g == FrameOf(kind, n)
    <2>2. n \in Nat /\ kind # "cborfrag" /\ kind # "item" /\ kind \in {"list", "map"}
      BY EncodeInputsAssumption DEF Containers
    <2>3. /\ r.ok \in BOOLEAN
          /\ ~ r.ok => r.z = z \/ Saved(z, r.z)
          /\ r.ok => /\ Starts(z, mem, r.z, r.mem, Header(kind, n), 0)
                     /\ SameCbor(z.state, r.z.state)
          /\ ~ r.ok => r.mem = mem
      BY <1>1, <1>2, <2>2, ListMapStartEffect, ListMapStartWrites
    <2>4. HeaderOf(g) = Header(kind, n) /\ FirstCount(g, z.state.elem_count) = 0
      BY <2>2 DEF FrameOf, HeaderOf, HeaderKind, FirstCount, Containers
    <2>5. OpenFrame(kind, n, r)
      BY <2>1
    <2>6. Same(z, z)
      BY <1>1 DEF Same
    <2> HIDE DEF r
    <2> QED BY <1>1, <2>2, <2>3, <2>4, <2>5, <2>6, OpenDocument
  <1>4. CASE StartBstr
    <2> DEFINE r == BstrStartEncode(z, mem)
               hint == RemainingStrLen(Room(z.state))
               g == FrameOf("bstr", hint)
    <2>1. OpenFrame("bstr", hint, r)
      BY <1>4 DEF StartBstr
    <2>2. /\ r.ok \in BOOLEAN
          /\ ~ r.ok => Stays(z, r.z)
          /\ r.ok => /\ hint \in Nat
                     /\ Starts(z, mem, r.z, r.mem, Header("bstr", hint), 1)
                     /\ SameCbor(z.state, r.z.state)
          /\ ~ r.ok => r.mem = mem
      BY <1>1, <1>2, BstrStartEffect, BstrStartWrites
    <2>3. HeaderOf(g) = Header("bstr", hint) /\ FirstCount(g, z.state.elem_count) = 1
      BY DEF FrameOf, HeaderOf, HeaderKind, FirstCount, Containers
    <2> HIDE DEF r, hint
    <2> QED BY <1>1, <2>1, <2>2, <2>3, OpenDocument DEF Stays
  <1>5. CASE StartCborFragments
    <2>1. PICK n \in StringLens :
            OpenFrame("cborfrag", n, FragmentsStartEncode(z, mem, "bstr", n, TRUE))
      BY <1>5 DEF StartCborFragments
    <2> DEFINE r == FragmentsStartEncode(z, mem, "bstr", n, TRUE)
               g == FrameOf("cborfrag", n)
    <2>2. n \in Nat
      BY EncodeInputsAssumption
    <2>3. /\ r.ok \in BOOLEAN
          /\ ~ r.ok => Stays(z, r.z)
          /\ r.ok => /\ Starts(z, mem, r.z, r.mem, Header("bstr", n), 1)
                     /\ r.z.state.frag_offset_cbor = 0 - r.z.state.payload
                     /\ r.z.state.str_total_len_cbor = n
          /\ ~ r.ok => r.mem = mem
      BY <1>1, <1>2, <2>2, CborFragmentsStartEffect, CborFragmentsStartWrites
    <2>4. HeaderOf(g) = Header("bstr", n) /\ FirstCount(g, z.state.elem_count) = 1
      BY DEF FrameOf, HeaderOf, HeaderKind, FirstCount, Containers
    <2>5. OpenFrame("cborfrag", n, r)
      BY <2>1
    <2>6. g = FrameOf("cborfrag", n)
      OBVIOUS
    <2> DEFINE kind == "cborfrag"
    <2>7. kind \in Containers \cup {"bstr", "cborfrag", "item"} /\ kind = "cborfrag"
      OBVIOUS
    <2> HIDE DEF r, g
    <2>8. /\ r.ok => /\ n \in Nat
                     /\ Starts(z, mem, r.z, r.mem, HeaderOf(g), FirstCount(g, z.state.elem_count))
                     /\ IF kind = "cborfrag"
                        THEN /\ r.z.state.frag_offset_cbor = 0 - r.z.state.payload
                             /\ r.z.state.str_total_len_cbor = n
                        ELSE SameCbor(z.state, r.z.state)
          /\ ~ r.ok => r.mem = mem /\ (Same(z, r.z) \/ Saved(z, r.z))
      BY <2>2, <2>3, <2>4 DEF Stays
    <2>9. r.ok \in BOOLEAN /\ g = FrameOf(kind, n) /\ OpenFrame(kind, n, r)
      BY <2>3, <2>5, <2>6
    <2> HIDE DEF kind
    <2> QED BY <1>1, <2>7, <2>8, <2>9, OpenDocument
  <1>6. CASE StartItem
    <2> DEFINE b == NewBackup(z, z.state.elem_count)
               r == Keeping(b, mem)
               g == FrameOf("item", 0)
    <2>1. OpenFrame("item", 0, r)
      BY <1>6 DEF StartItem
    <2>2. z.state.elem_count \in 0 .. MaxElemCount
      BY <1>1, ContextFields DEF State
    <2>3. /\ b.ok \in BOOLEAN
          /\ b.ok => Starts(z, mem, b.z, mem, << >>, z.state.elem_count) /\ SameCbor(z.state, b.z.state)
          /\ ~ b.ok => b.z = z
      BY <1>1, <2>2, BackupStarts
    <2>4. r.ok = b.ok /\ r.z = b.z /\ r.mem = mem
      BY DEF Keeping
    <2>5. HeaderOf(g) = << >> /\ FirstCount(g, z.state.elem_count) = z.state.elem_count
      BY DEF FrameOf, HeaderOf, FirstCount
    <2>6. Same(z, z)
      BY <1>1 DEF Same
    <2> HIDE DEF r, b
    <2>7. /\ r.ok \in BOOLEAN
          /\ r.ok => /\ 0 \in Nat
                     /\ Starts(z, mem, r.z, r.mem, HeaderOf(g), FirstCount(g, z.state.elem_count))
                     /\ SameCbor(z.state, r.z.state)
          /\ ~ r.ok => r.mem = mem /\ Same(z, r.z)
      BY <2>3, <2>4, <2>5, <2>6
    <2>8. g = FrameOf("item", 0)
      OBVIOUS
    <2> DEFINE kind == "item"
               hint == 0
    <2>9. kind \in Containers \cup {"bstr", "cborfrag", "item"} /\ kind # "cborfrag"
      OBVIOUS
    <2> HIDE DEF g
    <2>10. g = FrameOf(kind, hint) /\ OpenFrame(kind, hint, r) /\ hint \in Nat
      BY <2>1, <2>8
    <2> HIDE DEF kind, hint
    <2>11. /\ r.ok => /\ hint \in Nat
                      /\ Starts(z, mem, r.z, r.mem, HeaderOf(g), FirstCount(g, z.state.elem_count))
                      /\ IF kind = "cborfrag"
                         THEN /\ r.z.state.frag_offset_cbor = 0 - r.z.state.payload
                              /\ r.z.state.str_total_len_cbor = hint
                         ELSE SameCbor(z.state, r.z.state)
           /\ ~ r.ok => r.mem = mem /\ (Same(z, r.z) \/ Saved(z, r.z))
      BY <2>7, <2>9, <2>10
    <2>12. r.ok \in BOOLEAN
      BY <2>7
    <2> QED BY <1>1, <2>9, <2>10, <2>11, <2>12, OpenDocument
  <1> QED BY <1>3, <1>4, <1>5, <1>6
(* A call that closes the innermost construct, or fails.                   *)
LEMMA CloseDocument ==
    ASSUME IInv, DocInv, IInv', BetweenItems, frames # << >>,
           NEW r, r.ok \in BOOLEAN, CloseFrame(r), NEW T, NEW items \in Int,
           r.ok => /\ Ends(z, mem, sent, frames, r.z, r.mem, T, items)
                   /\ ~ r.z.state.inside_frag_str,
           ~ r.ok => /\ Top(frames).kind # "item"
                     /\ r.z = z \/ Pulled(z, r.z)
                     /\ \/ r.mem = mem
                        \/ /\ ~ Top(z.backup_list).payload_moved
                           /\ Behind(mem, r.mem, Top(z.backup_list).payload)
    PROVE  /\ DocInv'
           /\ \/ Doc!Next
              \/ /\ Doc!Between
                 /\ Levels' = Doc!With(Doc!Outer, T, items)
                 /\ Status' = Status /\ Streamed' = Streamed
  <1>1. /\ mode = "run" /\ ~ z.state.inside_frag_str
        /\ z' = r.z /\ mem' = r.mem /\ room' = room /\ sent' = sent /\ frames' = Popped(frames)
        /\ mode' = (IF r.ok THEN "run" ELSE "failing")
    BY DEF BetweenItems, Running, CloseFrame, Did
  <1>2. CASE r.ok
    <2>1. Ends(z, mem, sent, frames, z', mem', T, items) /\ ~ z'.state.inside_frag_str
      BY <1>1, <1>2
    <2>2. /\ DocInv' /\ Levels' = Doc!With(Doc!Outer, T, items)
          /\ Status = "open" /\ Status' = "open"
      BY <1>1, <1>2, <2>1, CloseStep
    <2>3. Streamed = NoString /\ Streamed' = NoString
      BY <1>1, <1>2, <2>1, StreamIs, StreamStays
    <2> QED BY <2>2, <2>3 DEF Doc!Between, Doc!NoString, NoString
  <1>3. CASE ~ r.ok
    <2>1. /\ Top(frames).kind # "item" /\ mode' = "failing"
          /\ z' = z \/ Pulled(z, z')
          /\ \/ mem' = mem
             \/ /\ ~ Top(z.backup_list).payload_moved
                /\ Behind(mem, mem', Top(z.backup_list).payload)
      BY <1>1, <1>3
    <2> QED BY <1>1, <2>1, FailClose
  <1> QED BY <1>2, <1>3

(* What the closing functions need to know of the innermost construct.     *)
LEMMA InnermostIs ==
    ASSUME IInv, DocInv, BetweenItems, frames # << >>,
           NEW b, b = Top(z.backup_list), NEW f, f = Top(frames),
           NEW k, k = Len(frames)
    PROVE  /\ mode = "run" /\ z \in Context /\ mem \in Memory /\ sent \in Seq(Byte)
           /\ z.backup_list # << >> /\ b \in State /\ f \in Frame /\ k \in Nat
           /\ f = frames[k] /\ b = z.backup_list[k]
           /\ b.payload_end \in Nat /\ b.payload_end <= MaxRoom
           /\ b.elem_count < MaxElemCount /\ ~ b.inside_frag_str
           /\ FrameSound(b, f, z.section)
           /\ ~ b.payload_moved => Within(z.state, b, f)
  <1>1. /\ mode = "run" /\ z \in Context /\ mem \in Memory /\ room \in Nat /\ room <= MaxRoom
    BY LiveEnd DEF BetweenItems, Running
  <1>2. /\ z.backup_list # << >> /\ b \in State /\ f \in Frame
        /\ b.payload_end \in Nat /\ b.payload_end <= room
        /\ FrameSound(b, f, z.section)
        /\ f.section = z.section => Within(z.state, b, f)
    BY <1>1, InnermostFrame
  <1>3. /\ Written(z, mem, sent, frames) /\ Len(z.backup_list) = Len(frames)
        /\ \A i \in 1 .. Len(frames) : z.backup_list[i].elem_count < MaxElemCount
    BY <1>1, SessionWritten
  <1>4. frames \in Seq(Frame) /\ sent \in Seq(Byte)
    BY <1>3 DEF Written, Typed
  <1>5. k \in Nat /\ k \in 1 .. k
    BY <1>4
  <1>6. f = frames[k] /\ b = z.backup_list[k]
    BY <1>3 DEF Top
  <1>7. b.elem_count < MaxElemCount
    BY <1>3, <1>5, <1>6
  <1>8. ~ b.inside_frag_str /\ (~ b.payload_moved => Within(z.state, b, f))
    BY <1>2 DEF FrameSound
  <1>9. b.payload_end <= MaxRoom
    BY <1>1, <1>2, EncodeInputsAssumption
  <1> QED BY <1>1, <1>2, <1>4, <1>5, <1>6, <1>7, <1>8, <1>9

(* The contents of a construct, in its section.                            *)
LEMMA TextCopied ==
    ASSUME IInv, DocInv, mode = "run", frames # << >>,
           NEW b, b = Top(z.backup_list), ~ b.payload_moved,
           NEW f, f = Top(frames), f.kind # "item",
           NEW value, value = b.payload + HeaderLen(f.hint)
    PROVE  /\ value \in Nat /\ value <= z.state.payload
           /\ Copied(mem, value, z.state.payload - value) = Doc!Inner.text
           /\ Len(Doc!Inner.text) = z.state.payload - value
  <1> DEFINE k == Len(frames)
             v == z.state.payload
  <1>1. /\ frames[k].at = Len(sent) + b.payload /\ PositionOf(z) = Len(sent) + v
        /\ Within(z.state, b, frames[k]) /\ b \in State /\ b.payload \in Nat
    BY InnerIsHere
  <1>2. /\ k \in Nat /\ k > 0
        /\ Doc!Inner.text = Stretch(sent, mem, BodyAt(frames, k), PositionOf(z))
        /\ Len(Doc!Inner.text) = PositionOf(z) - BodyAt(frames, k)
        /\ BodyAt(frames, k) <= PositionOf(z)
    BY InnerIs
  <1>3. frames \in Seq(Frame) /\ mem \in Memory /\ sent \in Seq(Byte) /\ v \in Nat
    BY LiveEnd DEF IInv, TypeOK
  <1>4. f = frames[k] /\ f.hint \in Nat
    <2>1. f = frames[k] /\ f \in Frame
      BY <1>2, <1>3 DEF Top
    <2> QED BY <2>1 DEF Frame
  <1>5. HeaderLen(f.hint) \in 1 .. 9
    BY <1>4, HeaderLenType
  <1>6. BodyAt(frames, k) = Len(sent) + value /\ value \in Nat /\ Len(sent) \in Nat
    <2>1. BodyAt(frames, k) = frames[k].at + HeaderLen(f.hint)
      BY <1>2, <1>4 DEF BodyAt
    <2> QED BY <1>1, <1>3, <1>5, <2>1
  <1> HIDE DEF k, v
  <1>7. value <= v
    BY <1>1, <1>2, <1>3, <1>6
  <1>8. Copied(mem, value, v - value) = Stretch(sent, mem, Len(sent) + value, Len(sent) + v)
    BY <1>3, <1>6, <1>7, CopiedText
  <1>9. PositionOf(z) - BodyAt(frames, k) = v - value
    BY <1>1, <1>3, <1>6
  <1> QED BY <1>1, <1>2, <1>6, <1>7, <1>8, <1>9 DEF v
(* A container is closed: its header says how many items it has.           *)
LEMMA EndContainerDocument ==
    ASSUME IInv, DocInv, IInv', EndContainer
    PROVE  DocInv' /\ Doc!Next
  <1> DEFINE f == Top(frames)
             b == Top(z.backup_list)
             k == Len(frames)
             r == ListMapEndEncode(z, mem, f.kind, f.hint)
             count == ListCount(z, f.kind)
             B == Doc!Inner.text
             H == Header(f.kind, count)
             T == H \o B
             value == b.payload + HeaderLen(f.hint)
  <1>1. /\ BetweenItems /\ frames # << >> /\ CloseFrame(r) /\ r.ok \in BOOLEAN
        /\ ~ r.ok => r.z = z \/ Closes(z, r.z)
    BY EndContainerEffect
  <1>2. f.kind \in Containers
    BY DEF EndContainer, InFrame
  <1>3. /\ mode = "run" /\ z \in Context /\ mem \in Memory /\ sent \in Seq(Byte)
        /\ z.backup_list # << >> /\ b \in State /\ f \in Frame /\ k \in Nat
        /\ f = frames[k]
        /\ b.payload_end \in Nat /\ b.payload_end <= MaxRoom
        /\ b.elem_count < MaxElemCount /\ ~ b.inside_frag_str
        /\ ~ b.payload_moved => Within(z.state, b, f)
    BY <1>1, InnermostIs
  <1>4. f.hint \in Nat /\ f.kind # "item" /\ HeaderKind(f.kind) = f.kind
    BY <1>2, <1>3 DEF Frame, Containers, HeaderKind
  <1>5. /\ Levels \in Seq(DocLevel) /\ Len(Levels) = k + 1 /\ k > 0
        /\ Doc!Inner.kind = f.kind
        /\ Doc!Inner.items = z.state.elem_count - CountBefore(z, frames, k)
        /\ B \in Seq(Byte)
    BY <1>1, <1>3, <1>4, InnerIs
  <1>6. z.state.elem_count \in Nat
    BY <1>3, ContextFields DEF State
  <1>7. Doc!Inner.items = z.state.elem_count
    <2>1. CountBefore(z, frames, k) = 0
      BY <1>2, <1>3, <1>4, <1>5 DEF CountBefore
    <2> QED BY <1>5, <1>6, <2>1
  <1>8. Doc!Count(Doc!Inner) = count
    BY <1>2, <1>5, <1>7 DEF Doc!Count, ListCount, Containers
  <1>9. ~ b.payload_moved => value <= z.state.payload /\ z.state.payload <= b.payload_end
    BY <1>3, <1>4 DEF Within, Body
  <1> HIDE DEF b, f
  <1>10. /\ count \in Nat
         /\ r.ok /\ f.hint = count => Continues(z, r.z, 1) /\ r.mem = mem
         /\ r.ok /\ f.hint # count =>
                Replaces(z, mem, r.z, r.mem,
                         Header(f.kind, count) \o Copied(mem, value, z.state.payload - value), 1)
         /\ ~ r.ok => r.mem = mem \/ (~ b.payload_moved /\ Behind(mem, r.mem, b.payload))
    <2>1. b = Top(z.backup_list)
      BY DEF b
    <2>2. value = b.payload + HeaderLen(f.hint)
      OBVIOUS
    <2> HIDE DEF value
    <2> QED BY <1>2, <1>3, <1>4, <1>9, <2>1, <2>2, ListMapEndWrites
  <1>11. z' = r.z
    BY <1>1 DEF CloseFrame, Did
  <1>12. b = Top(z.backup_list) /\ f = Top(frames) /\ value = b.payload + HeaderLen(f.hint)
    BY DEF b, f
  <1> HIDE DEF r, count, value, B, k
  <1>13. H \in Seq(Byte) /\ Len(H) \in Nat /\ Len(H) >= 1
    <2>1. HeaderLen(count) \in 1 .. 9 /\ f.kind \in Kinds
      BY <1>2, <1>10, HeaderLenType DEF Kinds, Containers
    <2>2. HeaderLen(count) \in Nat /\ HeaderLen(count) >= 1
      BY <2>1
    <2>3. H = Bytes(f.kind, count, HeaderLen(count))
      BY DEF Header
    <2> HIDE DEF H
    <2> QED BY <1>10, <2>1, <2>2, <2>3, BytesType
  <1>14. r.ok => Ends(z, mem, sent, frames, r.z, r.mem, T, 1) /\ ~ r.z.state.inside_frag_str
    <2>1. ASSUME r.ok, f.hint = count
          PROVE  Ends(z, mem, sent, frames, r.z, r.mem, T, 1) /\ ~ r.z.state.inside_frag_str
      <3>1. Continues(z, r.z, 1) /\ r.mem = mem
        BY <1>10, <2>1
      <3>2. Ends(z, mem, sent, frames, r.z, mem, Header(HeaderKind(f.kind), f.hint) \o Doc!Inner.text, 1)
        BY <1>1, <1>2, <1>3, <1>12, <3>1, EndsAsItIs
      <3>3. ~ r.z.state.inside_frag_str
        BY <1>3, <1>12, <3>1 DEF Continues
      <3> QED BY <1>4, <2>1, <3>1, <3>2, <3>3 DEF B
    <2>2. ASSUME r.ok, f.hint # count
          PROVE  Ends(z, mem, sent, frames, r.z, r.mem, T, 1) /\ ~ r.z.state.inside_frag_str
      <3>1. Replaces(z, mem, r.z, r.mem,
                     Header(f.kind, count) \o Copied(mem, value, z.state.payload - value), 1)
        BY <1>10, <2>2
      <3>2. ~ b.payload_moved
        BY <1>12, <3>1 DEF Replaces
      <3>3. Copied(mem, value, z.state.payload - value) = B
        BY <1>1, <1>3, <1>4, <1>12, <3>2, TextCopied DEF B
      <3>4. Replaces(z, mem, r.z, r.mem, T, 1)
        BY <3>1, <3>3
      <3>5. ~ r.z.state.inside_frag_str
        BY <1>3, <1>12, <3>4 DEF Replaces
      <3>6. r.z.state.payload <= MaxRoom
        <4>1. (IInv => /\ z.state.payload \in Nat /\ z.state.payload <= MaxRoom
                       /\ room \in Nat /\ room <= MaxRoom)'
          BY PayloadFits, PTL
        <4> QED BY <1>11, <4>1
      <3>7. 1 <= Len(T)
        <4> HIDE DEF H
        <4> QED BY <1>5, <1>13
      <3> HIDE DEF T
      <3> QED BY <1>1, <1>3, <3>4, <3>5, <3>6, <3>7, EndsReplaced
    <2> QED BY <2>1, <2>2
  <1>15. ~ r.ok => /\ Top(frames).kind # "item"
                   /\ r.z = z \/ Pulled(z, r.z)
                   /\ \/ r.mem = mem
                      \/ /\ ~ Top(z.backup_list).payload_moved
                         /\ Behind(mem, r.mem, Top(z.backup_list).payload)
    BY <1>1, <1>4, <1>10, <1>12 DEF Closes
  <1> HIDE DEF T
  <1>16. /\ DocInv'
         /\ \/ Doc!Next
            \/ /\ Doc!Between
               /\ Levels' = Doc!With(Doc!Outer, T, 1)
               /\ Status' = Status /\ Streamed' = Streamed
    BY <1>1, <1>14, <1>15, CloseDocument
  <1>17. Levels # << >> /\ Doc!Inner.kind \in Doc!Containers
    BY <1>2, <1>3, <1>5 DEF Containers, Doc!Containers
  <1>18. T = Doc!Header(Doc!Inner.kind, Doc!Count(Doc!Inner)) \o Doc!Inner.text
    BY <1>5, <1>8, DocBytes DEF T, B
  <1> QED BY <1>16, <1>17, <1>18 DEF Doc!Next, Doc!CloseContainer, Doc!Close
(* A byte string is closed: its header says how long it is.                *)
LEMMA EndBstrDocument ==
    ASSUME IInv, DocInv, IInv', EndBstr
    PROVE  DocInv' /\ Doc!Next
  <1> DEFINE f == Top(frames)
             b == Top(z.backup_list)
             k == Len(frames)
             r == BstrEndEncode(z, mem)
             B == Doc!Inner.text
             value == b.payload + HeaderLen(RemainingStrLen(Room(b)))
             len == z.state.payload - value
             H == Header("bstr", len)
             T == H \o B
  <1>1. /\ BetweenItems /\ frames # << >> /\ CloseFrame(r) /\ f.kind = "bstr"
    BY DEF EndBstr, InFrame
  <1>2. /\ mode = "run" /\ z \in Context /\ mem \in Memory /\ sent \in Seq(Byte)
        /\ z.backup_list # << >> /\ b \in State /\ f \in Frame /\ k \in Nat
        /\ f = frames[k]
        /\ b.payload_end \in Nat /\ b.payload_end <= MaxRoom
        /\ b.elem_count < MaxElemCount /\ ~ b.inside_frag_str
        /\ FrameSound(b, f, z.section)
        /\ ~ b.payload_moved => Within(z.state, b, f)
    BY <1>1, InnermostIs
  <1>3. ~ b.payload_moved /\ f.hint = RemainingStrLen(Room(b))
    BY <1>1, <1>2 DEF FrameSound
  <1>4. z.state.payload <= b.payload_end
    BY <1>1, <1>2, <1>3 DEF Within
  <1>5. /\ Levels \in Seq(DocLevel) /\ Len(Levels) = k + 1 /\ k > 0
        /\ Doc!Inner.kind = "bstr" /\ B \in Seq(Byte)
    BY <1>1, <1>2, InnerIs DEF HeaderKind
  <1>6. /\ value \in Nat /\ value <= z.state.payload
        /\ Copied(mem, value, len) = B
        /\ Len(B) = len
    <2>1. b = Top(z.backup_list) /\ f = Top(frames) /\ f.kind # "item"
      BY <1>1
    <2>2. value = b.payload + HeaderLen(f.hint)
      BY <1>3
    <2> HIDE DEF b, f, value
    <2> QED BY <1>1, <1>2, <1>3, <2>1, <2>2, TextCopied
  <1>7. b = Top(z.backup_list) /\ value = b.payload + HeaderLen(RemainingStrLen(Room(b)))
    OBVIOUS
  <1>8. f = Top(frames)
    OBVIOUS
  <1> HIDE DEF b, f, value
  <1>9. /\ r.ok => Replaces(z, mem, r.z, r.mem, Header("bstr", len) \o Copied(mem, value, len), 1)
        /\ ~ r.ok => r.mem = mem
    BY <1>2, <1>4, <1>6, <1>7, BstrEndWrites
  <1>10. /\ r.ok \in BOOLEAN
         /\ ~ r.ok => r.z = z \/ Closes(z, r.z)
    BY <1>2, <1>4, <1>6, <1>7, BstrEndEffect
  <1>11. z' = r.z
    BY <1>1 DEF CloseFrame, Did
  <1>12. z.state.payload \in Nat
    BY LiveEnd
  <1>13. H \in Seq(Byte) /\ Len(H) \in Nat /\ Len(H) >= 1
    <2>1. len \in Nat
      BY <1>6, <1>12
    <2> HIDE DEF len
    <2>2. HeaderLen(len) \in 1 .. 9 /\ "bstr" \in Kinds
      BY <2>1, HeaderLenType DEF Kinds
    <2>3. HeaderLen(len) \in Nat /\ HeaderLen(len) >= 1
      BY <2>2
    <2>4. H = Bytes("bstr", len, HeaderLen(len))
      BY DEF Header
    <2> HIDE DEF H
    <2> QED BY <2>1, <2>2, <2>3, <2>4, BytesType
  <1> HIDE DEF r, len, B, k
  <1>14. r.ok => Ends(z, mem, sent, frames, r.z, r.mem, T, 1) /\ ~ r.z.state.inside_frag_str
    <2> SUFFICES ASSUME r.ok
                 PROVE  Ends(z, mem, sent, frames, r.z, r.mem, T, 1) /\ ~ r.z.state.inside_frag_str
      OBVIOUS
    <2>1. Replaces(z, mem, r.z, r.mem, T, 1)
      BY <1>6, <1>9
    <2>2. ~ r.z.state.inside_frag_str
      BY <1>2, <1>7, <2>1 DEF Replaces
    <2>3. r.z.state.payload <= MaxRoom
      <3>1. (IInv => /\ z.state.payload \in Nat /\ z.state.payload <= MaxRoom
                     /\ room \in Nat /\ room <= MaxRoom)'
        BY PayloadFits, PTL
      <3> QED BY <1>11, <3>1
    <2>4. 1 <= Len(T)
      <3> HIDE DEF H
      <3> QED BY <1>5, <1>13
    <2> HIDE DEF T
    <2> QED BY <1>1, <1>2, <2>1, <2>2, <2>3, <2>4, EndsReplaced
  <1>15. ~ r.ok => /\ Top(frames).kind # "item"
                   /\ r.z = z \/ Pulled(z, r.z)
                   /\ r.mem = mem
    BY <1>1, <1>8, <1>9, <1>10 DEF Closes
  <1> HIDE DEF T
  <1>16. /\ DocInv'
         /\ \/ Doc!Next
            \/ /\ Doc!Between
               /\ Levels' = Doc!With(Doc!Outer, T, 1)
               /\ Status' = Status /\ Streamed' = Streamed
    BY <1>1, <1>10, <1>14, <1>15, CloseDocument
  <1>17. Levels # << >>
    BY <1>2, <1>5
  <1>18. T = Doc!Header("bstr", Len(Doc!Inner.text)) \o Doc!Inner.text
    BY <1>6, DocBytes DEF T, B
  <1> QED BY <1>5, <1>16, <1>17, <1>18 DEF Doc!Next, Doc!CloseBstr, Doc!Close

(* How much of the innermost string is missing.                            *)
LEMMA StringMissing ==
    ASSUME IInv, DocInv, BetweenItems, frames # << >>,
           NEW f, f = Top(frames), f.kind = "cborfrag",
           StringRemainder(z.state) = 0
    PROVE  f.hint = Len(Doc!Inner.text)
  <1> DEFINE k == Len(frames)
             v == z.state.payload
             q == BodyAt(frames, k)
             s == z.state
  <1>1. /\ mode = "run" /\ z \in Context /\ f \in Frame /\ k \in Nat /\ f = frames[k]
    BY InnermostIs
  <1>2. /\ k > 0 /\ Len(Doc!Inner.text) = PositionOf(z) - q /\ q \in Nat
    BY <1>1, InnerIs
  <1>3. KnowsString(s, frames, k, z.base)
    BY <1>1, SessionWritten DEF Written, OnTop
  <1>4. LastString(frames, k, k) /\ k \in 1 .. k
    BY <1>1, <1>2 DEF LastString
  <1>5. s.frag_offset_cbor = z.base - q /\ s.str_total_len_cbor = f.hint
    BY <1>1, <1>3, <1>4 DEF KnowsString
  <1>6. ~ s.inside_frag_str
    BY DEF BetweenItems
  <1>7. s.str_total_len_cbor - (s.payload + s.frag_offset_cbor) = 0
    BY <1>6 DEF StringRemainder, StringTotal, StringOffset
  <1>8. z.base \in Nat /\ v \in Nat /\ f.hint \in Nat
    BY <1>1, LiveEnd, ContextFields DEF Frame
  <1> HIDE DEF q, v, s
  <1>9. PositionOf(z) = z.base + v /\ s.payload = v
    BY DEF PositionOf, v, s
  <1> QED BY <1>2, <1>5, <1>7, <1>8, <1>9

(* A CBOR string is closed: its header was right from the start.           *)
LEMMA EndCborFragmentsDocument ==
    ASSUME IInv, DocInv, IInv', EndCborFragments
    PROVE  DocInv' /\ Doc!Next
  <1> DEFINE f == Top(frames)
             b == Top(z.backup_list)
             k == Len(frames)
             r == FragmentsEndEncode(z, mem)
             T == Header("bstr", f.hint) \o Doc!Inner.text
  <1>1. /\ BetweenItems /\ frames # << >> /\ CloseFrame(r) /\ f.kind = "cborfrag"
        /\ ~ z.state.inside_frag_str
    BY DEF EndCborFragments, InFrame, BetweenItems
  <1>2. /\ mode = "run" /\ z \in Context /\ mem \in Memory
        /\ z.backup_list # << >> /\ k \in Nat /\ f = frames[k]
        /\ b.elem_count < MaxElemCount /\ ~ b.inside_frag_str
    BY <1>1, InnermostIs
  <1>3. /\ Levels \in Seq(DocLevel) /\ Len(Levels) = k + 1 /\ k > 0
        /\ Doc!Inner.kind = "bstr"
    BY <1>1, <1>2, InnerIs DEF HeaderKind
  <1>4. b = Top(z.backup_list) /\ f = Top(frames)
    OBVIOUS
  <1> HIDE DEF b, f
  <1>5. /\ r.mem = mem /\ r.ok \in BOOLEAN
        /\ ~ r.ok => r.z = z
        /\ r.ok => Continues(z, r.z, 1) /\ StringRemainder(z.state) = 0
    BY <1>1, <1>2, <1>4, FragmentsEndEffect, CborFragmentsEndWrites
  <1> HIDE DEF r
  <1>6. r.ok => /\ Ends(z, mem, sent, frames, r.z, r.mem, T, 1) /\ ~ r.z.state.inside_frag_str
                /\ f.hint = Len(Doc!Inner.text)
    <2> SUFFICES ASSUME r.ok
                 PROVE  /\ Ends(z, mem, sent, frames, r.z, r.mem, T, 1) /\ ~ r.z.state.inside_frag_str
                        /\ f.hint = Len(Doc!Inner.text)
      OBVIOUS
    <2>1. Continues(z, r.z, 1) /\ StringRemainder(z.state) = 0
      BY <1>5
    <2>2. Ends(z, mem, sent, frames, r.z, mem, Header(HeaderKind(f.kind), f.hint) \o Doc!Inner.text, 1)
      BY <1>1, <1>2, <1>4, <2>1, EndsAsItIs
    <2>3. HeaderKind(f.kind) = "bstr"
      BY <1>1 DEF HeaderKind
    <2>4. ~ r.z.state.inside_frag_str
      BY <1>2, <1>4, <2>1 DEF Continues
    <2>5. f.hint = Len(Doc!Inner.text)
      BY <1>1, <1>4, <2>1, StringMissing
    <2> QED BY <1>5, <2>2, <2>3, <2>4, <2>5
  <1> HIDE DEF T, k
  <1>7. ~ r.ok => /\ Top(frames).kind # "item"
                  /\ r.z = z \/ Pulled(z, r.z)
                  /\ r.mem = mem
    BY <1>1, <1>4, <1>5
  <1>8. /\ DocInv'
        /\ \/ Doc!Next
           \/ /\ Doc!Between
              /\ Levels' = Doc!With(Doc!Outer, T, 1)
              /\ Status' = Status /\ Streamed' = Streamed
    BY <1>1, <1>5, <1>6, <1>7, CloseDocument
  <1>9. CASE r.ok
    <2>1. Levels # << >>
      BY <1>2, <1>3
    <2>2. T = Doc!Header("bstr", Len(Doc!Inner.text)) \o Doc!Inner.text
      BY <1>6, <1>9, DocBytes DEF T
    <2> QED BY <1>3, <1>8, <2>1, <2>2 DEF Doc!Next, Doc!CloseBstr, Doc!Close
  <1>10. CASE ~ r.ok
    <2>1. /\ mode = "run" /\ mode' = "failing" /\ room' = room /\ sent' = sent
          /\ z' = r.z /\ mem' = r.mem /\ frames' = Popped(frames)
      BY <1>1, <1>2, <1>10 DEF CloseFrame, Did
    <2> QED BY <1>1, <1>5, <1>7, <1>10, <2>1, FailClose
  <1> QED BY <1>5, <1>9, <1>10
(* An item is over: it becomes part of the string it is in.                *)
LEMMA EndItemDocument ==
    ASSUME IInv, DocInv, IInv', EndItem
    PROVE  DocInv' /\ Doc!Next
  <1> DEFINE f == Top(frames)
             b == Top(z.backup_list)
             k == Len(frames)
             q == ProcessBackup(z, {"CONSUME"})
             r == Keeping(q, mem)
             T == Doc!Inner.text
             items == Doc!Inner.items
             p == frames[k].at
             end == PositionOf(z)
  <1>1. /\ BetweenItems /\ frames # << >> /\ CloseFrame(r) /\ f.kind = "item"
        /\ ~ z.state.inside_frag_str
    BY DEF EndItem, InFrame, BetweenItems
  <1>2. /\ mode = "run" /\ z \in Context /\ mem \in Memory /\ f \in Frame
        /\ z.backup_list # << >> /\ k \in Nat /\ f = frames[k] /\ b = z.backup_list[k]
        /\ b \in State
    BY <1>1, InnermostIs
  <1>3. /\ Levels \in Seq(DocLevel) /\ Len(Levels) = k + 1 /\ k > 0
        /\ Doc!Inner.kind = "item" /\ T \in Seq(Byte)
        /\ items = z.state.elem_count - CountBefore(z, frames, k)
        /\ T = Stretch(sent, mem, BodyAt(frames, k), end)
        /\ Len(T) = end - BodyAt(frames, k) /\ BodyAt(frames, k) <= end
        /\ end \in Nat /\ BodyAt(frames, k) \in Nat
    BY <1>1, <1>2, InnerIs DEF HeaderKind
  <1>4. q.ok = TRUE /\ Pulled(z, q.z) /\ q.z.state = z.state
    BY <1>2, ConsumeEffect
  <1>5. r.ok = TRUE /\ r.z = q.z /\ r.mem = mem
    BY <1>4 DEF Keeping
  <1>6. /\ z.state.elem_count \in Nat /\ b.elem_count \in Nat /\ p \in Nat
    <2>1. z.state \in State
      BY <1>2, ContextFields
    <2>2. frames[k] \in Frame
      BY <1>2
    <2> HIDE DEF b, f, k
    <2>3. z.state.elem_count \in Nat /\ b.elem_count \in Nat
      BY <1>2, <2>1, MaxElemCountAssumption DEF State
    <2> QED BY <2>2, <2>3 DEF Frame
  <1>7. items = z.state.elem_count - b.elem_count /\ items \in Int
    <2>1. CountBefore(z, frames, k) = b.elem_count
      BY <1>1, <1>2, <1>3 DEF CountBefore
    <2> HIDE DEF b, k, items
    <2> QED BY <1>3, <1>6, <2>1
  <1>8. BodyAt(frames, k) = p
    BY <1>1, <1>2, <1>3, <1>6 DEF BodyAt
  <1>9. /\ z.state.elem_count <= end /\ z.state.payload <= MaxRoom
    BY <1>2, SessionWritten DEF Written, Typed, OnTop
  <1>10. b = Top(z.backup_list) /\ Top(frames).at = p /\ Top(frames).kind = "item"
    BY <1>1, <1>2
  <1>11. PositionOf(q.z) = end
    BY <1>4 DEF PositionOf, Pulled
  <1> HIDE DEF b, f, k, q, r, T, items, p, end
  <1>12. PositionOf(q.z) = p + Len(T)
    BY <1>3, <1>6, <1>8, <1>11
  <1>13. Reads(sent, mem, p, T)
    <2>1. \A i \in 1 .. end - p : T[i] = At(sent, mem, p + i - 1)
      BY <1>3, <1>8 DEF Stretch
    <2> QED BY <1>3, <1>8, <2>1 DEF Reads
  <1>14. Agree(sent, mem, sent, mem, p) /\ SameCbor(z.state, q.z.state)
    BY <1>4 DEF Agree, SameCbor
  <1>15. /\ q.z.state.elem_count = b.elem_count + items
         /\ q.z.state.elem_count <= PositionOf(q.z)
         /\ q.z.state.payload <= MaxRoom
    BY <1>4, <1>6, <1>7, <1>9, <1>11
  <1>16. Ends(z, mem, sent, frames, q.z, mem, T, items)
    BY <1>2, <1>3, <1>4, <1>10, <1>12, <1>13, <1>14, <1>15 DEF Ends
  <1>17. /\ r.ok \in BOOLEAN
         /\ r.ok => Ends(z, mem, sent, frames, r.z, r.mem, T, items) /\ ~ r.z.state.inside_frag_str
         /\ ~ r.ok => /\ Top(frames).kind # "item"
                      /\ r.z = z \/ Pulled(z, r.z)
                      /\ \/ r.mem = mem
                         \/ /\ ~ Top(z.backup_list).payload_moved
                            /\ Behind(mem, r.mem, Top(z.backup_list).payload)
    BY <1>1, <1>4, <1>5, <1>16
  <1>18. /\ DocInv'
         /\ \/ Doc!Next
            \/ /\ Doc!Between
               /\ Levels' = Doc!With(Doc!Outer, T, items)
               /\ Status' = Status /\ Streamed' = Streamed
    BY <1>1, <1>7, <1>17, CloseDocument
  <1>19. Levels # << >>
    BY <1>2, <1>3
  <1> QED BY <1>3, <1>18, <1>19 DEF Doc!Next, Doc!CloseItem, Doc!Close, T, items

(* Growing by nothing.                                                     *)
LEMMA GrownByNothing ==
    ASSUME NEW ls \in Seq(DocLevel), ls # << >>
    PROVE  Doc!With(ls, << >>, 0) = ls
  <1> DEFINE n == Len(ls)
             l == ls[n]
             g == [kind |-> l.kind, items |-> l.items + 0, text |-> l.text \o << >>]
  <1>1. n \in 1 .. n /\ DOMAIN ls = 1 .. n /\ l \in DocLevel
    OBVIOUS
  <1>2. l.items \in Int /\ l.text \in Seq(Byte)
    BY <1>1 DEF DocLevel
  <1>3. l.items + 0 = l.items /\ l.text \o << >> = l.text
    BY <1>2
  <1>4. g = l
    <2>1. l = [kind |-> l.kind, items |-> l.items, text |-> l.text]
      BY <1>1 DEF DocLevel
    <2> HIDE DEF l
    <2> QED BY <1>3, <2>1
  <1>5. Doc!With(ls, << >>, 0) = [ls EXCEPT ![n] = g]
    BY DEF Doc!With, Doc!Grown
  <1>6. [ls EXCEPT ![n] = l] = ls
    BY <1>1
  <1> QED BY <1>4, <1>5, <1>6

(* A container is given up, with what is in it.                            *)
LEMMA AbandonDocument ==
    ASSUME IInv, DocInv, IInv', AbandonContainer
    PROVE  DocInv' /\ Doc!Next
  <1> DEFINE f == Top(frames)
             b == Top(z.backup_list)
             k == Len(frames)
             r == ListMapEndForceEncode(z, mem)
             q == ProcessBackup(z, {"RESTORE", "CONSUME"})
             T == << >>
  <1>1. /\ BetweenItems /\ frames # << >> /\ CloseFrame(r) /\ f.kind \in Containers
    BY DEF AbandonContainer, InFrame
  <1>2. /\ mode = "run" /\ z \in Context /\ mem \in Memory /\ b \in State
        /\ z.backup_list # << >> /\ k \in Nat /\ f = frames[k]
        /\ ~ b.inside_frag_str /\ f.kind # "item" /\ HeaderKind(f.kind) = f.kind
    <2>1. f.kind # "item" /\ HeaderKind(f.kind) = f.kind
      BY <1>1 DEF Containers, HeaderKind
    <2> QED BY <1>1, <2>1, InnermostIs
  <1>3. /\ Levels \in Seq(DocLevel) /\ Len(Levels) = k + 1 /\ k > 0
        /\ Doc!Outer = SubSeq(Levels, 1, k)
        /\ Doc!Inner.kind = f.kind
    BY <1>1, <1>2, InnerIs
  <1>4. /\ q.ok \in BOOLEAN
        /\ q.ok <=> ~ b.payload_moved
        /\ q.ok => Pulled(z, q.z) /\ q.z.state = b
        /\ ~ q.ok => q.z = z
    BY <1>2, RollBackEffect
  <1>5. r.ok = q.ok /\ r.z = q.z /\ r.mem = mem
    BY DEF ListMapEndForceEncode, Keeping
  <1>6. b.payload \in Nat /\ b.elem_count \in Nat
    <2> HIDE DEF b
    <2> QED BY <1>2 DEF State
  <1>7. Top(z.backup_list) = b /\ Top(frames) = f /\ z' = r.z
    BY <1>1 DEF CloseFrame, Did
  <1> HIDE DEF b, f, r, q, k
  <1>8. r.ok => Ends(z, mem, sent, frames, r.z, r.mem, T, 0) /\ ~ r.z.state.inside_frag_str
    <2> SUFFICES ASSUME r.ok
                 PROVE  Ends(z, mem, sent, frames, r.z, r.mem, T, 0) /\ ~ r.z.state.inside_frag_str
      OBVIOUS
    <2>1. Pulled(z, r.z) /\ r.z.state = b /\ ~ b.payload_moved
      BY <1>4, <1>5
    <2>2. T \in Seq(Byte) /\ Len(T) = 0
      OBVIOUS
    <2>3. Put(mem, r.mem, b.payload, T)
      BY <1>2, <1>5, <2>2 DEF Put
    <2>4. b.payload = b.payload + Len(T) /\ b.elem_count = b.elem_count + 0 /\ 0 <= Len(T)
      BY <1>6, <2>2
    <2> HIDE DEF T
    <2>5. Replaces(z, mem, r.z, r.mem, T, 0)
      BY <1>7, <2>1, <2>2, <2>3, <2>4 DEF Replaces, SameCbor
    <2>6. r.z.state.payload <= MaxRoom
      <3>1. (IInv => /\ z.state.payload \in Nat /\ z.state.payload <= MaxRoom
                     /\ room \in Nat /\ room <= MaxRoom)'
        BY PayloadFits, PTL
      <3> QED BY <1>7, <3>1
    <2> QED BY <1>1, <1>2, <2>1, <2>4, <2>5, <2>6, EndsReplaced
  <1>9. /\ r.ok \in BOOLEAN
        /\ ~ r.ok => /\ Top(frames).kind # "item"
                     /\ r.z = z \/ Pulled(z, r.z)
                     /\ r.mem = mem
    BY <1>2, <1>4, <1>5, <1>7
  <1> HIDE DEF T
  <1>10. /\ DocInv'
         /\ \/ Doc!Next
            \/ /\ Doc!Between
               /\ Levels' = Doc!With(Doc!Outer, T, 0)
               /\ Status' = Status /\ Streamed' = Streamed
    BY <1>1, <1>8, <1>9, CloseDocument, SMTT(30)
  <1>11. Doc!With(Doc!Outer, T, 0) = Doc!Outer
    <2>1. SubSeq(Levels, 1, k) \in Seq(DocLevel) /\ SubSeq(Levels, 1, k) # << >>
      BY <1>2, <1>3
    <2>2. Doc!Outer \in Seq(DocLevel) /\ Doc!Outer # << >>
      BY <1>3, <2>1
    <2> QED BY <2>2, GrownByNothing DEF T
  <1>12. Doc!Inner.kind \in Doc!Containers
    BY <1>1, <1>3 DEF Containers, Doc!Containers
  <1> QED BY <1>10, <1>11, <1>12 DEF Doc!Next, Doc!Abandon
(* The levels of a running session.                                        *)
LEMMA LevelsAre ==
    ASSUME IInv, DocInv, mode = "run"
    PROVE  Levels \in Seq(DocLevel) /\ Levels # << >>
  <1>1. Written(z, mem, sent, frames) /\ Levels = Now(z, mem, sent, frames)
    BY SessionWritten
  <1> DEFINE k == Len(frames)
  <1>2. Readable(z, mem, sent, frames, k, PositionOf(z), z.state.elem_count)
    BY <1>1, WrittenReadable
  <1>3. k \in Nat
    BY <1>2 DEF Readable
  <1>4. Levels = LevelsOf(z, mem, sent, frames, k, PositionOf(z), z.state.elem_count)
    BY <1>1 DEF Now
  <1> HIDE DEF k
  <1>5. Levels \in Seq(DocLevel) /\ Len(Levels) = k + 1
    BY <1>2, <1>4, LevelsOfType
  <1> QED BY <1>3, <1>5

(* A streamed string is begun, goes on and ends.                           *)
LEMMA FragmentsDocument ==
    ASSUME IInv, DocInv, IInv', StartFragments \/ FeedFragment \/ EndFragments
    PROVE  DocInv' /\ Doc!Next
  <1>1. /\ z \in Context /\ mem \in Memory /\ mode = "run" /\ z.state.payload \in Nat
        /\ fed \in Nat
    BY LiveEnd DEF StartFragments, FeedFragment, EndFragments, BetweenItems, Running, IInv, TypeOK
  <1>2. z.state.elem_count < MaxElemCount /\ z.state.payload_end <= MaxRoom
    BY <1>1, SessionWritten
  <1>3. CASE StartFragments
    <2>1. PICK n \in StringLens : Did(FragmentsStartEncode(z, mem, "tstr", n, FALSE))
      BY <1>3 DEF StartFragments
    <2> DEFINE r == FragmentsStartEncode(z, mem, "tstr", n, FALSE)
               H == Header("tstr", n)
    <2>2. n \in Nat /\ ~ z.state.inside_frag_str /\ frames' = frames /\ fed' = 0
      BY <1>3, EncodeInputsAssumption DEF StartFragments, BetweenItems
    <2>3. /\ r.ok \in BOOLEAN /\ Stays(z, r.z)
          /\ r.ok => /\ Grows(z, mem, r.z, r.mem, H, 1)
                     /\ r.z.state.inside_frag_str /\ StringRemainder(r.z.state) = n
          /\ ~ r.ok => r.mem = mem
      BY <1>1, <1>2, <2>2, FragmentsStartEffect, FragmentsStartWrites
    <2>4. /\ z' = r.z /\ mem' = r.mem /\ room' = room /\ sent' = sent
          /\ mode' = IF r.ok THEN "run" ELSE "failing"
      BY <2>1 DEF Did
    <2>5. H \in Seq(Byte) /\ 1 <= Len(H)
      <3>1. HeaderLen(n) \in 1 .. 9 /\ "tstr" \in Kinds
        BY <2>2, HeaderLenType DEF Kinds
      <3>2. HeaderLen(n) \in Nat /\ HeaderLen(n) >= 1
        BY <3>1
      <3>3. H = Bytes("tstr", n, HeaderLen(n))
        BY DEF Header
      <3> HIDE DEF H, r
      <3> QED BY <2>2, <3>1, <3>2, <3>3, BytesType
    <2>6. H = Doc!Header("tstr", n)
      BY DocBytes
    <2> HIDE DEF r, H
    <2>7. CASE r.ok
      <3>1. Grows(z, mem, z', mem', H, 1) /\ mode' = "run"
        BY <2>3, <2>4, <2>7
      <3>2. /\ DocInv' /\ Levels' = Doc!With(Levels, H, 1)
            /\ Status = "open" /\ Status' = "open"
        BY <1>1, <2>2, <2>4, <2>5, <3>1, GrowStep
      <3>3. Streamed = NoString
        BY <1>1, <2>2, StreamIs
      <3>4. z'.state.inside_frag_str /\ StringRemainder(z'.state) = n
        BY <2>3, <2>4, <2>7
      <3>5. Streamed' = [done |-> 0, left |-> n]
        BY <2>2, <3>1, <3>4 DEF Streamed, BetweenItems, StringRemainder, StringTotal, StringOffset
      <3> QED BY <2>6, <3>2, <3>3, <3>5
              DEF Doc!Next, Doc!BeginString, Doc!Between, Doc!NoString, NoString
    <2>8. CASE ~ r.ok
      BY <1>1, <2>2, <2>3, <2>4, <2>8, FailCall DEF Stays
    <2> QED BY <2>3, <2>7, <2>8
  <1>4. CASE FeedFragment
    <2>1. PICK len \in 1 .. z.state.str_total_len :
            LET r == FragmentEncode(z, mem, fed, len)
            IN  Did(r) /\ fed' = fed + (r.z.state.payload - z.state.payload)
      BY <1>4 DEF FeedFragment
    <2> DEFINE r == FragmentEncode(z, mem, fed, len)
               left == StringRemainder(z.state)
    <2>2. len \in Nat /\ len \in Nat \ {0} /\ frames' = frames /\ z.state.inside_frag_str
      BY <1>4 DEF FeedFragment
    <2>3. /\ r.ok \in BOOLEAN /\ Stays(z, r.z)
          /\ r.ok => \E n \in 1 .. len :
                        /\ n <= left
                        /\ Grows(z, mem, r.z, r.mem, Data(fed, n), 0)
                        /\ r.z.state.inside_frag_str
                        /\ r.z.state.payload = z.state.payload + n
                        /\ StringRemainder(r.z.state) = left - n
          /\ ~ r.ok => r.mem = mem
      <3>1. /\ z \in Context /\ mem \in Memory /\ fed \in Nat
            /\ z.state.payload_end <= MaxRoom
        BY <1>1, <1>2
      <3>2. r.ok \in BOOLEAN /\ Stays(z, r.z)
        BY ONLY <2>2, <3>1, FragmentEncodeEffect
      <3>3. /\ r.ok => \E n \in 1 .. len :
                         /\ n <= left
                         /\ Grows(z, mem, r.z, r.mem, Data(fed, n), 0)
                         /\ r.z.state.inside_frag_str
                         /\ r.z.state.payload = z.state.payload + n
                         /\ StringRemainder(r.z.state) = left - n
            /\ ~ r.ok => r.mem = mem
        BY ONLY <2>2, <3>1, FragmentEncodeWrites
      <3> QED BY ONLY <3>2, <3>3
    <2>4. /\ z' = r.z /\ mem' = r.mem /\ room' = room /\ sent' = sent
          /\ mode' = (IF r.ok THEN "run" ELSE "failing")
          /\ fed' = fed + (r.z.state.payload - z.state.payload)
      BY <2>1 DEF Did
    <2>5. Streamed = [done |-> fed, left |-> left]
      BY <1>1, <2>2, StreamIs
    <2>6. left \in Int
      <3>1. z.state \in State
        BY <1>1, ContextFields
      <3> QED BY <3>1 DEF StringRemainder, StringTotal, StringOffset, State
    <2> HIDE DEF r, left
    <2>7. CASE r.ok
      <3>1. PICK n \in 1 .. len :
                /\ n <= left
                /\ Grows(z, mem, r.z, r.mem, Data(fed, n), 0)
                /\ r.z.state.inside_frag_str
                /\ r.z.state.payload = z.state.payload + n
                /\ StringRemainder(r.z.state) = left - n
        BY <2>3, <2>7
      <3> DEFINE T == Data(fed, n)
      <3>2. n \in Nat /\ n \in 1 .. left
        BY <2>2, <2>6, <3>1
      <3>3. T \in Seq(Byte) /\ 0 <= Len(T)
        <4>1. fed \in Nat /\ n \in Nat
          BY <1>1, <3>2
        <4>2. T \in Seq(Byte) /\ Len(T) = n
          BY ONLY <4>1, DataType
        <4> QED BY <4>1, <4>2
      <3>4. T = Doc!Data(fed, n)
        BY DocBytes
      <3> HIDE DEF T
      <3>5. Grows(z, mem, z', mem', T, 0) /\ mode' = "run"
        BY <2>4, <2>7, <3>1 DEF T
      <3>6. /\ DocInv' /\ Levels' = Doc!With(Levels, T, 0)
            /\ Status = "open" /\ Status' = "open"
        BY <1>1, <2>2, <2>4, <3>3, <3>5, GrowStep
      <3>7. z'.state.inside_frag_str /\ StringRemainder(z'.state) = left - n /\ fed' = fed + n
        BY <1>1, <2>4, <3>1, <3>2
      <3>8. Streamed' = [done |-> fed + n, left |-> left - n]
        BY <3>5, <3>7 DEF Streamed, BetweenItems, StringRemainder, StringTotal, StringOffset
      <3>9. Streamed.done = fed /\ Streamed.left = left
        BY <2>5
      <3>10. Doc!Stream
        BY <3>2, <3>4, <3>6, <3>8, <3>9 DEF Doc!Stream
      <3> QED BY <3>6, <3>10 DEF Doc!Next
    <2>8. CASE ~ r.ok
      BY <1>1, <2>2, <2>3, <2>4, <2>8, FailCall DEF Stays
    <2> QED BY <2>3, <2>7, <2>8
  <1>5. CASE EndFragments
    <2> DEFINE r == FragmentsEndEncode(z, mem)
               T == << >>
    <2>1. z.state.inside_frag_str /\ frames' = frames /\ fed' = 0 /\ Did(r)
      BY <1>5 DEF EndFragments
    <2>2. /\ r.mem = mem /\ r.ok \in BOOLEAN /\ Stays(z, r.z)
          /\ r.ok => OutOfPlain(z, r.z) /\ StringRemainder(z.state) = 0
      BY <1>1, <2>1, FragmentsEndEffect, FragmentsEndWrites
    <2>3. /\ z' = r.z /\ mem' = r.mem /\ room' = room /\ sent' = sent
          /\ mode' = IF r.ok THEN "run" ELSE "failing"
      BY <2>1 DEF Did
    <2>4. T \in Seq(Byte) /\ Len(T) = 0
      OBVIOUS
    <2>5. Levels \in Seq(DocLevel) /\ Levels # << >>
      BY <1>1, LevelsAre
    <2>6. Doc!With(Levels, T, 0) = Levels
      BY <2>5, GrownByNothing
    <2> HIDE DEF r, T
    <2>7. CASE r.ok
      <3>1. OutOfPlain(z, z') /\ StringRemainder(z.state) = 0 /\ mode' = "run" /\ mem' = mem
        BY <2>2, <2>3, <2>7
      <3>2. z.state.elem_count \in Nat
        BY <1>1, ContextFields, MaxElemCountAssumption DEF State
      <3>3. /\ z.state.payload = z.state.payload + Len(T)
            /\ z.state.elem_count = z.state.elem_count + 0
        BY <1>1, <2>4, <3>2
      <3>4. Put(mem, mem', z.state.payload, T)
        BY <1>1, <2>4, <3>1 DEF Put
      <3>5. Grows(z, mem, z', mem', T, 0)
        BY <2>4, <3>1, <3>3, <3>4 DEF Grows, OutOfPlain, Beside
      <3>6. /\ DocInv' /\ Levels' = Doc!With(Levels, T, 0)
            /\ Status = "open" /\ Status' = "open"
        BY <1>1, <2>1, <2>3, <2>4, <3>1, <3>5, GrowStep
      <3>7. Streamed' = NoString
        BY <3>1, StreamStays DEF OutOfPlain
      <3>8. Streamed = [done |-> fed, left |-> 0]
        BY <1>1, <2>1, <3>1, StreamIs
      <3> QED BY <2>6, <3>6, <3>7, <3>8 DEF Doc!Next, Doc!EndString, Doc!NoString, NoString
    <2>8. CASE ~ r.ok
      BY <1>1, <2>1, <2>2, <2>3, <2>8, FailCall DEF Stays
    <2> QED BY <2>2, <2>7, <2>8
  <1> QED BY <1>3, <1>4, <1>5
(* The next section is fed: the document stays as it is.                   *)
LEMMA FeedSectionDocument ==
    ASSUME IInv, DocInv, IInv', FeedSection, Countable
    PROVE  DocInv' /\ UNCHANGED (Doc!vars)
  <1>1. PICK len \in Rooms :
            /\ Position + len <= MaxText
            /\ z' = UpdateState(z, len) /\ room' = len
    BY DEF FeedSection
  <1>2. /\ mode = "run" /\ mode' = "run" /\ frames' = frames /\ fed' = fed /\ mem' = Blank
        /\ sent' = Sent(sent, mem, z.state.payload)
    BY DEF FeedSection, Running, Sent
  <1>3. len \in Nat /\ MaxText \in Nat
    BY EncodeInputsAssumption
  <1>4. /\ Written(z, mem, sent, frames) /\ Levels = Now(z, mem, sent, frames)
        /\ Status = "open"
    BY <1>2, SessionWritten
  <1>5. \A i \in DOMAIN frames : frames[i].section <= z.section
    BY LiveEnd DEF Sound, FrameSound
  <1>6. /\ Written(z', mem', sent', frames)
        /\ Now(z', mem', sent', frames) = Now(z, mem, sent, frames)
        /\ z'.base = PositionOf(z)
        /\ z'.state.inside_frag_str = z.state.inside_frag_str
        /\ StringRemainder(z'.state) = StringRemainder(z.state)
    BY <1>1, <1>2, <1>3, <1>4, <1>5, BlankType, WrittenMoves
  <1>7. z'.base + room' < MaxElemCount
    BY <1>1, <1>3, <1>6, MaxElemCountAssumption, LiveEnd, ContextFields
       DEF Position, PositionOf, Countable
  <1>8. /\ DocInv' /\ Levels' = Now(z', mem', sent', frames') /\ Status' = "open"
    BY <1>2, <1>6, <1>7, StillWritten
  <1>9. Levels' = Levels /\ Status' = Status
    BY <1>2, <1>4, <1>6, <1>8
  <1>10. Streamed' = Streamed
    BY <1>2, <1>6 DEF Streamed, BetweenItems, Running, StringRemainder, StringTotal, StringOffset
  <1> QED BY <1>8, <1>9, <1>10 DEF Doc!vars

(* An item that failed is dropped: the document is as it was before.       *)
LEMMA ItemFailedDocument ==
    ASSUME IInv, DocInv, IInv', ItemFailed
    PROVE  DocInv' /\ Doc!Next
  <1>1. PICK n \in DOMAIN frames :
            /\ LastItem(n)
            /\ z' = ProcessBackup(DropTo(z, n), {"RESTORE", "CONSUME"}).z
            /\ frames' = SubSeq(frames, 1, n - 1)
    BY DEF ItemFailed
  <1>2. /\ mode = "failing" /\ mode' = "run" /\ mem' = mem /\ room' = room /\ sent' = sent
    BY DEF ItemFailed
  <1>3. /\ Typed(z, mem, sent, frames) /\ TypeOK /\ Len(frames) <= Len(z.backup_list)
        /\ Laid(z, mem, sent, frames)
    BY SessionTyped DEF DocInv
  <1>4. /\ z \in Context /\ mem \in Memory /\ sent \in Seq(Byte) /\ frames \in Seq(Frame)
        /\ Sound(z, frames)
    BY <1>3, LiveEnd DEF Typed
  <1> DEFINE b == z.backup_list[n]
             e == DropTo(z, n)
             q == ProcessBackup(e, {"RESTORE", "CONSUME"})
             to == BodyAt(frames, n)
             count == b.elem_count
  <1>5. /\ n \in 1 .. Len(frames) /\ n \in Nat /\ n \in 1 .. Len(z.backup_list)
        /\ z.backup_list \in Seq(State) /\ n \in 0 .. Len(z.backup_list)
        /\ n - 1 \in 0 .. Len(frames)
    <2>1. Len(frames) \in Nat /\ DOMAIN frames = 1 .. Len(frames)
          /\ z.backup_list \in Seq(State) /\ Len(z.backup_list) \in Nat
      BY <1>3, TypedFields
    <2> QED BY <1>1, <1>3, <2>1
  <1>6. frames[n].kind = "item" /\ LastItemOf(frames, n)
    BY <1>1 DEF LastItem, LastItemOf
  <1>7. /\ frames[n].section = z.section /\ ~ b.payload_moved /\ ~ b.inside_frag_str
        /\ b \in State
    BY <1>4, <1>5, <1>6, SoundTypes DEF Sound, FrameSound
  <1>8. /\ e \in Context /\ e.section = z.section /\ e.base = z.base
        /\ e.backup_list = SubSeq(z.backup_list, 1, n)
        /\ Len(e.backup_list) = n
        /\ \A i \in 1 .. n : e.backup_list[i] = z.backup_list[i]
    BY <1>4, <1>5, DropToEffect, Prefix
  <1> HIDE DEF e
  <1>9. e.backup_list # << >> /\ Top(e.backup_list) = b
    BY <1>5, <1>8 DEF Top
  <1>10. q.ok = TRUE /\ Pulled(e, q.z) /\ q.z.state = b
    BY <1>7, <1>8, <1>9, RollBackEffect
  <1>11. z' = q.z
    BY <1>1 DEF e
  <1> HIDE DEF q
  <1>12. /\ z' \in Context /\ z'.base = z.base /\ z'.section = z.section /\ z'.state = b
         /\ z'.backup_list = SubSeq(z.backup_list, 1, n - 1)
    <2>1. /\ z' \in Context /\ z'.base = z.base /\ z'.section = z.section /\ z'.state = b
          /\ z'.backup_list = SubSeq(e.backup_list, 1, n - 1)
      BY <1>8, <1>10, <1>11 DEF Pulled, Popped
    <2>2. SubSeq(SubSeq(z.backup_list, 1, n), 1, n - 1) = SubSeq(z.backup_list, 1, n - 1)
      BY <1>5
    <2> QED BY <1>8, <2>1, <2>2
  <1>13. z'.state.payload <= MaxRoom
    <2>1. (IInv => /\ z.state.payload \in Nat /\ z.state.payload <= MaxRoom
                   /\ room \in Nat /\ room <= MaxRoom)'
      BY PayloadFits, PTL
    <2> QED BY <2>1
  <1>14. Standing = n
    <2>1. \E i \in DOMAIN frames : frames[i].kind = "item"
      BY <1>1, <1>6
    <2>2. Standing \in DOMAIN frames /\ LastItemOf(frames, Standing)
      BY <1>2, <1>4, <2>1, StandingIs
    <2>3. \A i \in DOMAIN frames : i \in Nat
      BY <1>4
    <2>4. Standing <= n /\ n <= Standing
      BY <1>1, <1>6, <2>2 DEF LastItemOf
    <2> HIDE DEF b, to, count
    <2> QED BY <1>1, <2>2, <2>3, <2>4
  <1>15. Levels = LevelsOf(z, mem, sent, frames, n, to, count)
    BY <1>1, <1>2, <1>3, <1>14, FailingLevelsThen
  <1>16. /\ to \in Nat /\ frames[n].at \in Nat /\ count \in Nat /\ count \in Int
    <2>1. to \in Nat /\ frames[n].at \in Nat /\ count \in Nat
      BY <1>3, <1>5, TypedFields
    <2> QED BY <2>1
  <1>17. Readable(z, mem, sent, frames, n, to, count)
    <2>1. \A i \in 1 .. n : BodyAt(frames, i) <= to
      <3> SUFFICES ASSUME NEW i \in 1 .. n PROVE BodyAt(frames, i) <= to
        OBVIOUS
      <3>1. i \in 1 .. Len(frames) /\ n \in DOMAIN frames /\ i \in DOMAIN frames
        BY <1>1, <1>4, <1>5
      <3>2. CASE i = n
        BY <1>16, <3>2
      <3>3. CASE i < n
        <4>1. BodyAt(frames, i) <= frames[n].at
          BY <1>3, <3>1, <3>3 DEF Laid, Ordered
        <4>2. BodyAt(frames, i) \in Nat /\ frames[n].at <= to
          BY <1>3, <1>5, <3>1, TypedFields
        <4> HIDE DEF to
        <4> QED BY <1>16, <4>1, <4>2
      <3> QED BY <1>5, <3>2, <3>3
    <2>2. to <= Len(sent) + MaxRoom
      <3>1. to = frames[n].at
        <4>1. n # 0 /\ frames[n].kind = "item" /\ frames[n].at \in Nat
          BY <1>5, <1>6, <1>16
        <4>2. to = frames[n].at + 0
          BY ONLY <4>1 DEF BodyAt
        <4> HIDE DEF to
        <4> QED BY <4>1, <4>2
      <3>2. frames[n].at = z.base + b.payload /\ z.base = Len(sent)
        BY <1>1, <1>3, <1>7 DEF Laid, BackupsPlaced, BackupPlaced
      <3>3. b.payload <= MaxRoom /\ b.payload \in Nat
        <4>1. b.payload <= room /\ room \in Nat /\ room <= MaxRoom
          BY <1>5, LiveEnd DEF Bounded, Fits
        <4>2. b.payload \in Nat
          BY <1>7 DEF State
        <4> HIDE DEF b
        <4> QED BY <4>1, <4>2, EncodeInputsAssumption
      <3>4. Len(sent) \in Nat /\ MaxRoom \in Nat
        BY <1>4, EncodeInputsAssumption
      <3> HIDE DEF to, b
      <3> QED BY <3>1, <3>2, <3>3, <3>4
    <2>3. n \in 0 .. Len(frames) /\ Ordered(frames)
      BY <1>3, <1>5 DEF Laid
    <2> HIDE DEF to, count
    <2> QED BY <1>3, <1>16, <2>1, <2>2, <2>3, LaidReadable
  <1> DEFINE gs == SubSeq(frames, 1, n - 1)
  <1>18. frames' = gs
    BY <1>1
  <1> HIDE DEF to, count
  <1>19. /\ Written(z', mem, sent, gs)
         /\ Now(z', mem, sent, gs) = SubSeq(Levels, 1, n)
    <2>1. z'.state = z.backup_list[n]
      BY <1>12
    <2>2. gs = SubSeq(frames, 1, n - 1)
      OBVIOUS
    <2>3. /\ Typed(z, mem, sent, frames) /\ Laid(z, mem, sent, frames)
          /\ n \in 1 .. Len(frames) /\ frames[n].section = z.section
          /\ z' \in Context /\ z'.base = z.base /\ z'.section = z.section
          /\ z'.backup_list = SubSeq(z.backup_list, 1, n - 1)
          /\ z'.state.payload <= MaxRoom
      BY <1>3, <1>5, <1>7, <1>12, <1>13
    <2>4. Dropped(z, frames, n, z', gs)
      BY <2>1, <2>2, <2>3 DEF Dropped
    <2> HIDE DEF gs, b
    <2>5. /\ Written(z', mem, sent, gs)
          /\ Now(z', mem, sent, gs)
                = SubSeq(LevelsOf(z, mem, sent, frames, n, to, count), 1, n)
      BY ONLY <2>3, <2>4, <1>17, WrittenDrops
    <2> QED BY <1>15, <2>5
  <1> HIDE DEF gs
  <1>20. z'.base + room' < MaxElemCount
    BY <1>2, <1>12 DEF DocInv
  <1>21. /\ DocInv' /\ Levels' = SubSeq(Levels, 1, n) /\ Status' = "open"
    BY <1>2, <1>18, <1>19, <1>20, StillWritten
  <1>22. Len(Levels) = n + 1
    BY <1>15, <1>17, LevelsOfType
  <1>23. Doc!Outer = SubSeq(Levels, 1, n)
    BY <1>5, <1>22 DEF Doc!Outer
  <1>24. Status = "failing"
    BY <1>2, <1>5, <1>14 DEF Status
  <1>25. Streamed = NoString /\ Streamed' = NoString
    BY <1>2, <1>7, <1>12, StreamIs, StreamStays
  <1> QED BY <1>21, <1>23, <1>24, <1>25 DEF Doc!Next, Doc!DropItem

(* The empty document.                                                     *)
LEMMA InitDocument ==
    ASSUME Init, Countable
    PROVE  DocInv /\ Doc!Init
  <1>1. PICK len \in Rooms : z = NewState(len, 0) /\ room = len
    BY DEF Init
  <1>2. /\ mem = Blank /\ sent = << >> /\ frames = << >> /\ fed = 0 /\ mode = "run"
    BY DEF Init
  <1>3. len \in Nat /\ len <= MaxRoom /\ MaxRoom \in Nat
    BY EncodeInputsAssumption
  <1>4. /\ z.base = 0 /\ z.state.payload = 0 /\ z.state.elem_count = 0
        /\ ~ z.state.inside_frag_str
    BY <1>1 DEF NewState
  <1>5. PositionOf(z) = 0
    BY <1>4 DEF PositionOf
  <1>6. Laid(z, mem, sent, frames)
    BY <1>2, <1>4 DEF Laid, Ordered, HeadersWritten, BackupsPlaced
  <1>7. OnTop(z, frames)
    BY <1>2, <1>4, <1>5 DEF OnTop, KnowsString
  <1>8. DocInv
    BY <1>1, <1>3, <1>4, <1>6, <1>7, MaxElemCountAssumption DEF DocInv, Countable
  <1>9. Levels = <<Doc!NewLevel("document")>>
    <2>1. Standing = 0 /\ Position = 0
      BY <1>2, <1>5 DEF Standing, Position, PositionOf
    <2>2. LevelOf(0) = [kind |-> "document", items |-> 0, text |-> << >>]
      <3>1. Begin(0) = 0 /\ End(0) = 0 /\ ElemCount(0) = 0
        BY <1>2, <1>4, <2>1 DEF Begin, End, ElemCount
      <3>2. Text(0, 0) = << >>
        BY DEF Text
      <3> QED BY <3>1, <3>2 DEF LevelOf
    <2>3. Levels = [i \in 1 .. 1 |-> LevelOf(i - 1)]
      BY <1>2, <2>1 DEF Levels
    <2>4. [i \in 1 .. 1 |-> LevelOf(i - 1)] = <<LevelOf(0)>>
      OBVIOUS
    <2> QED BY <2>2, <2>3, <2>4 DEF Doc!NewLevel
  <1>10. Streamed = NoString /\ Status = "open"
    BY <1>2, <1>4, StreamIs DEF Status
  <1> QED BY <1>8, <1>9, <1>10 DEF Doc!Init, Doc!NoString, NoString

(* Every step of the session is a step of the document, or none.           *)
LEMMA DocumentStep ==
    Countable /\ IInv /\ DocInv /\ [Next]_vars => DocInv' /\ [Doc!Next]_(Doc!vars)
  <1> SUFFICES ASSUME Countable, IInv, DocInv, [Next]_vars
               PROVE  DocInv' /\ [Doc!Next]_(Doc!vars)
    OBVIOUS
  <1>0. IInv'
    BY NextSound
  <1>1. CASE UNCHANGED vars
    <2>1. DocInv'
      BY <1>1 DEF vars, DocInv, Laid, OnTop
    <2>2. UNCHANGED (Doc!vars)
      BY <1>1 DEF vars, Doc!vars, Levels, Streamed, Status, Standing, Open, LastItem, LevelOf,
         Begin, End, ElemCount, Text, ByteAt, BetweenItems, Running, Position,
         StringRemainder, StringTotal, StringOffset
    <2> QED BY <2>1, <2>2
  <1>2. CASE EncodeValue \/ EncodeTag \/ EncodeString
    BY <1>0, <1>2, ValuesDocument
  <1>3. CASE StartContainer("list") \/ StartContainer("map") \/ StartBstr
             \/ StartCborFragments \/ StartItem
    BY <1>0, <1>3, StartsDocument DEF Containers
  <1>4. CASE EndContainer
    BY <1>0, <1>4, EndContainerDocument
  <1>5. CASE AbandonContainer
    BY <1>0, <1>5, AbandonDocument
  <1>6. CASE EndBstr
    BY <1>0, <1>6, EndBstrDocument
  <1>7. CASE EndCborFragments
    BY <1>0, <1>7, EndCborFragmentsDocument
  <1>8. CASE EndItem
    BY <1>0, <1>8, EndItemDocument
  <1>9. CASE StartFragments \/ FeedFragment \/ EndFragments
    BY <1>0, <1>9, FragmentsDocument
  <1>10. CASE FeedSection
    BY <1>0, <1>10, FeedSectionDocument
  <1>11. CASE ItemFailed
    BY <1>0, <1>11, ItemFailedDocument
  <1> QED BY <1>1, <1>2, <1>3, <1>4, <1>5, <1>6, <1>7, <1>8, <1>9, <1>10, <1>11 DEF Next

(* EncodeSession implements Document: closed containers say how many items *)
(* they have and strings how long they are, wherever zcbor_bstr_start_     *)
(* encode or a size hint guessed a header that had to be moved, grown or   *)
(* shrunk, and in whatever sections the bytes were sent; an item that      *)
(* failed leaves no trace, and nothing is added to a document that failed. *)
(* Countable says that no document is as long as elem_count goes: the      *)
(* field is a size_t, and MaxElemCount is SIZE_MAX.                        *)
THEOREM EncoderWritesDocuments ==
    ASSUME Countable
    PROVE  Spec => ImplementsDocument
  <1>1. Init => DocInv /\ Doc!Init
    BY InitDocument
  <1>2. IInv /\ DocInv /\ [Next]_vars => DocInv' /\ [Doc!Next]_(Doc!vars)
    BY DocumentStep
  <1> QED BY <1>1, <1>2, SameDocument, EncodeInvariant, PTL DEF Spec, ImplementsDocument, Document!Spec
=============================================================================

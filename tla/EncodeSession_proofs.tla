--------------------------- MODULE EncodeSession_proofs ---------------------------
(***************************************************************************)
(* Theorems about EncodeSession, for every number of backups, every        *)
(* nesting, any sections and any strings.                                  *)
(*                                                                         *)
(* The inductive invariant, IInv, says how the backups, the live state and *)
(* the section fit together: all positions are within the section; below   *)
(* what failed calls left behind each construct has its own backup, which  *)
(* can be restored as long as no section was fed since; and of two open    *)
(* constructs of this section the inner one began behind the header of the *)
(* outer one.  That last part is what the end of a container or string     *)
(* relies on when it computes from its backup where the contents are.      *)
(***************************************************************************)
EXTENDS EncodeSession, ZcborState_proofs

Memory == [Offsets -> Byte]

(* Memory n differs from m only before end.                                *)
Inside(m, n, end) ==
    /\ n \in Memory
    /\ \A i \in Offsets : i >= end => n[i] = m[i]

Fits(s, len) == s.payload <= len /\ s.payload_end <= len

(* No state on the stack points beyond a section of len bytes.             *)
Bounded(c, len) ==
    /\ Fits(c.state, len)
    /\ \A i \in 1 .. Len(c.backup_list) : Fits(c.backup_list[i], len)

(* Where the contents of construct f begin, whose backup is b.             *)
Body(b, f) == b.payload + (IF f.kind = "item" THEN 0 ELSE HeaderLen(f.hint))

(* What holds between an open construct and its backup.                    *)
FrameSound(b, f, section) ==
    /\ b.payload_moved <=> f.section # section
    /\ f.section <= section
    /\ f.kind \in {"item", "bstr"} => f.section = section
    /\ ~ b.inside_frag_str
    /\ f.kind = "bstr" => f.hint = RemainingStrLen(Room(b))

(* State s is one inside construct f, in the section f was opened in.      *)
Within(s, b, f) ==
    /\ s.payload_end = b.payload_end
    /\ Body(b, f) <= s.payload
    /\ f.kind # "item" => s.payload <= s.payload_end

(* Each open construct has its own backup, in order, and those of the      *)
(* present section lie within each other.                                  *)
Sound(c, fs) ==
    /\ Len(c.backup_list) >= Len(fs)
    /\ \A i \in DOMAIN fs : FrameSound(c.backup_list[i], fs[i], c.section)
    /\ \A i, j \in DOMAIN fs :
        i < j /\ fs[i].section = c.section => Within(c.backup_list[j], c.backup_list[i], fs[i])

(* The live state is inside all of them.                                   *)
Live(c, fs) ==
    /\ Len(c.backup_list) = Len(fs)
    /\ \A i \in DOMAIN fs :
        fs[i].section = c.section => Within(c.state, c.backup_list[i], fs[i])

(* The inductive invariant.                                                *)
IInv ==
    /\ TypeOK
    /\ NothingPastEnd
    /\ Bounded(z, room)
    /\ Sound(z, frames)
    /\ mode = "run" => Live(z, frames)

-----------------------------------------------------------------------------
(* A longer header is for a larger value, and no header is longer than the *)
(* value it holds by more than one.                                        *)
LEMMA HeaderLenGrows ==
    ASSUME NEW m \in Int, NEW n \in Int, m <= n
    PROVE  /\ HeaderLen(m) \in 1 .. 9
           /\ HeaderLen(m) <= HeaderLen(n)
           /\ m >= 0 => HeaderLen(m) <= m + 1
  BY ThresholdsAssumption DEF HeaderLen

(* The dummy header of a byte string (zcbor_remaining_str_len): the length *)
(* in it, with the header for that length, fits in the rest of the payload.*)
THEOREM RemainingStrLenFits ==
    ASSUME NEW left \in Nat, left # 0
    PROVE  /\ RemainingStrLen(left) \in Nat
           /\ RemainingStrLen(left) + HeaderLen(RemainingStrLen(left)) <= left
  <1> DEFINE longest  == HeaderLen(left)
             shortest == HeaderLen(left - longest)
             header   == HeaderLen(left - shortest)
  <1>1. longest \in 1 .. 9
    BY HeaderLenGrows
  <1> HIDE DEF longest
  <1>2. shortest \in 1 .. 9 /\ shortest <= HeaderLen(left - 1)
    BY <1>1, HeaderLenGrows
  <1>3. shortest <= left
    BY <1>2, HeaderLenGrows
  <1>4. shortest <= longest
    <2>1. left - longest \in Int /\ left - longest <= left
      BY <1>1
    <2> QED BY <2>1, HeaderLenGrows DEF longest
  <1> HIDE DEF shortest
  <1>5. left - shortest \in Nat /\ left - longest <= left - shortest
    BY <1>1, <1>2, <1>3, <1>4
  <1>6. shortest <= header /\ header \in 1 .. 9 /\ header <= left - shortest + 1
    BY <1>1, <1>5, HeaderLenGrows DEF shortest
  <1> HIDE DEF header
  <1>7. left - header \in Nat /\ left - header <= left - shortest
    BY <1>2, <1>5, <1>6
  <1>8. HeaderLen(left - header) <= header
    BY <1>5, <1>7, HeaderLenGrows DEF header
  <1>9. RemainingStrLen(left) = left - header
    BY DEF RemainingStrLen, header, shortest, longest
  <1> QED BY <1>6, <1>7, <1>8, <1>9, HeaderLenGrows

(* The bytes of a value are bytes.                                         *)
LEMMA BytesType ==
    ASSUME NEW kind \in Kinds, NEW arg \in Nat, NEW len \in Nat
    PROVE  /\ Bytes(kind, arg, len) \in Seq(Byte)
           /\ Len(Bytes(kind, arg, len)) = len
  <1>1. \A i \in 1 .. len : [kind |-> kind, arg |-> arg, index |-> i] \in Byte
    BY DEF Byte
  <1> QED BY <1>1 DEF Bytes

(* So are those of the contents of a string.                               *)
LEMMA DataType ==
    ASSUME NEW from \in Nat, NEW len \in Nat
    PROVE  /\ Data(from, len) \in Seq(Byte)
           /\ Len(Data(from, len)) = len
  <1>1. \A i \in 1 .. len : [kind |-> "data", arg |-> 0, index |-> from + i] \in Byte
    BY DEF Byte, Kinds
  <1> QED BY <1>1 DEF Data

(* A write changes the memory from where it begins to where it ends.       *)
LEMMA WriteEffect ==
    ASSUME NEW m \in Memory, NEW at \in Nat, NEW bytes \in Seq(Byte),
           NEW end \in Nat, at + Len(bytes) <= end
    PROVE  Inside(m, Write(m, at, bytes), end)
  <1>1. ASSUME NEW i \in Offsets
        PROVE  /\ Write(m, at, bytes)[i] \in Byte
               /\ i >= end => Write(m, at, bytes)[i] = m[i]
    <2>1. i \in Int
      BY EncodeInputsAssumption DEF Offsets
    <2>2. Len(bytes) \in Nat
      OBVIOUS
    <2>3. m[i] \in Byte
      BY DEF Memory
    <2>4. CASE i \in at .. at + Len(bytes) - 1
      <3>1. i - at + 1 \in 1 .. Len(bytes)
        BY <2>1, <2>2, <2>4
      <3>2. bytes[i - at + 1] \in Byte
        BY <3>1
      <3>3. i < end
        BY <2>1, <2>2, <2>4
      <3> QED BY <2>1, <2>4, <3>2, <3>3 DEF Write, Memory
    <2>5. CASE i \notin at .. at + Len(bytes) - 1
      BY <2>3, <2>5 DEF Write, Memory
    <2> QED BY <2>4, <2>5
  <1> QED BY <1>1 DEF Inside, Memory, Write

(* memmove within the section.                                             *)
LEMMA MoveEffect ==
    ASSUME NEW m \in Memory, NEW to \in Nat, NEW from \in Nat, NEW len \in Nat,
           NEW end \in Nat, to + len <= end, from + len <= MaxRoom
    PROVE  Inside(m, Move(m, to, from, len), end)
  <1>1. ASSUME NEW i \in Offsets
        PROVE  /\ Move(m, to, from, len)[i] \in Byte
               /\ i >= end => Move(m, to, from, len)[i] = m[i]
    <2>1. i \in Int
      BY EncodeInputsAssumption DEF Offsets
    <2>3. m[i] \in Byte
      BY DEF Memory
    <2>4. CASE i \in to .. to + len - 1
      <3>1. i - to + from \in Offsets
        BY <2>1, <2>4, EncodeInputsAssumption DEF Offsets
      <3>2. m[i - to + from] \in Byte
        BY <3>1 DEF Memory
      <3>3. i < end
        BY <2>1, <2>4
      <3> QED BY <2>1, <2>4, <3>2, <3>3 DEF Move, Memory
    <2>5. CASE i \notin to .. to + len - 1
      BY <2>3, <2>5 DEF Move, Memory
    <2> QED BY <2>4, <2>5
  <1> QED BY <1>1 DEF Inside, Memory, Move

(* One change after another.                                               *)
LEMMA InsideBoth ==
    ASSUME NEW m, NEW n, NEW o, NEW end \in Nat, NEW far \in Nat, end <= far,
           Inside(m, n, end), Inside(n, o, far)
    PROVE  Inside(m, o, far)
  BY EncodeInputsAssumption DEF Inside, Offsets

(* No change is one within any section.                                    *)
LEMMA InsideSame ==
    ASSUME NEW m \in Memory, NEW end
    PROVE  Inside(m, m, end)
  BY DEF Inside

-----------------------------------------------------------------------------
(* The effects of the encoding functions.                                  *)

(* State t is where s is, in its string and in its section.                *)
Located(s, t) ==
    /\ t \in State
    /\ t.payload_end = s.payload_end
    /\ t.inside_frag_str = s.inside_frag_str

(* A call that writes len bytes at the payload pointer and moves it.       *)
Forward(c, d, len) ==
    /\ Same(c, d)
    /\ Located(c.state, d.state)
    /\ d.state.payload = c.state.payload + len

(* Assigning elem_count leaves the rest of the state alone.                *)
LEMMA ElemCountEffect ==
    ASSUME NEW c \in Context, NEW n \in 0 .. MaxElemCount
    PROVE  Forward(c, [c EXCEPT !.state.elem_count = n], 0)
  <1> DEFINE s == [c.state EXCEPT !.elem_count = n]
             d == [c EXCEPT !.state = s]
  <1>1. c.state \in State
    BY ContextFields
  <1>2. s \in State /\ Located(c.state, s) /\ s.payload = c.state.payload + 0
    BY <1>1 DEF State, Located
  <1>3. d = [c EXCEPT !.state.elem_count = n]
    OBVIOUS
  <1> HIDE DEF s
  <1>4. Same(c, d) /\ d.state = s
    BY <1>2, SetState
  <1> HIDE DEF d
  <1> QED BY <1>2, <1>3, <1>4 DEF Forward

(* elem_count wraps, and stays a size_t.                                   *)
LEMMA CountedEffect ==
    ASSUME NEW c \in Context
    PROVE  /\ Forward(c, Counted(c), 0)
           /\ Forward(c, Uncounted(c), 0)
  <1> DEFINE n == c.state.elem_count
  <1>1. n \in 0 .. MaxElemCount
    BY ContextFields DEF State
  <1>2. Incremented(n) \in 0 .. MaxElemCount /\ Decremented(n) \in 0 .. MaxElemCount
    BY <1>1, MaxElemCountAssumption DEF Incremented, Decremented
  <1>3. Counted(c) = [c EXCEPT !.state.elem_count = Incremented(n)]
    BY DEF Counted
  <1>4. Uncounted(c) = [c EXCEPT !.state.elem_count = Decremented(n)]
    BY DEF Uncounted
  <1> HIDE DEF n
  <1> QED BY <1>2, <1>3, <1>4, ElemCountEffect

(* The payload pointer moves, and nothing else.                            *)
LEMMA AdvancedEffect ==
    ASSUME NEW c \in Context, NEW len \in Nat
    PROVE  Forward(c, Advanced(c, len), len)
  <1> DEFINE p == c.state.payload + len
             s == [c.state EXCEPT !.payload = p]
             d == [c EXCEPT !.state = s]
  <1>1. c.state \in State
    BY ContextFields
  <1>2. p \in Nat
    BY <1>1 DEF State
  <1>3. d = Advanced(c, len)
    BY DEF Advanced
  <1> HIDE DEF p
  <1>4. s \in State /\ Located(c.state, s) /\ s.payload = p
    BY <1>1, <1>2 DEF State, Located
  <1> HIDE DEF s
  <1>5. Same(c, d) /\ d.state = s
    BY <1>4, SetState
  <1> HIDE DEF d
  <1> QED BY <1>3, <1>4, <1>5 DEF Forward, p

(* One such call after another.                                            *)
LEMMA ForwardBoth ==
    ASSUME NEW c \in Context, NEW d, NEW e, NEW len \in Nat, NEW more \in Nat,
           Forward(c, d, len), Forward(d, e, more)
    PROVE  Forward(c, e, len + more)
  <1>1. c.state.payload \in Nat
    BY ContextFields DEF State
  <1> QED BY <1>1 DEF Forward, Same, Located

(* A value is written whole, before the end, or not at all.                *)
LEMMA ValueEncodeLenEffect ==
    ASSUME NEW c \in Context, NEW m \in Memory,
           NEW kind \in Kinds, NEW arg \in Nat, NEW len \in Nat
    PROVE  LET r == ValueEncodeLen(c, m, kind, arg, len)
               after == c.state.payload + len IN
           /\ r.ok \in BOOLEAN
           /\ r.ok <=> after <= c.state.payload_end /\ ~ c.state.inside_frag_str
           /\ r.ok => Forward(c, r.z, len) /\ Inside(m, r.mem, after)
           /\ ~ r.ok => r.z = c /\ r.mem = m
  <1> DEFINE r == ValueEncodeLen(c, m, kind, arg, len)
             after == c.state.payload + len
             bytes == Bytes(kind, arg, len)
             a == Advanced(c, len)
             d == Counted(a)
             n == Write(m, c.state.payload, bytes)
  <1>1. c.state \in State /\ c.state.payload \in Nat /\ c.state.payload_end \in Nat
        /\ c.state.inside_frag_str \in BOOLEAN
    BY ContextFields DEF State
  <1>2. CASE after > c.state.payload_end \/ c.state.inside_frag_str
    <2>1. r.ok = FALSE /\ r.z = c /\ r.mem = m
      BY <1>2 DEF ValueEncodeLen, Stopped
    <2>2. ~ (after <= c.state.payload_end /\ ~ c.state.inside_frag_str)
      BY <1>1, <1>2
    <2> QED BY <2>1, <2>2
  <1>3. CASE ~ (after > c.state.payload_end) /\ ~ c.state.inside_frag_str
    <2>1. r.ok = TRUE /\ r.z = d /\ r.mem = n
      BY <1>3 DEF ValueEncodeLen, Wrote
    <2>2. Forward(c, a, len)
      BY AdvancedEffect
    <2> HIDE DEF a
    <2>3. Forward(a, d, 0)
      BY <2>2, CountedEffect DEF Forward, Same
    <2> HIDE DEF d
    <2>4. Forward(c, d, len)
      BY <2>2, <2>3, ForwardBoth
    <2>5. bytes \in Seq(Byte) /\ Len(bytes) = len
      BY BytesType
    <2> HIDE DEF bytes
    <2>6. Inside(m, n, after)
      BY <1>1, <2>5, WriteEffect
    <2>7. after <= c.state.payload_end
      BY <1>1, <1>3
    <2> HIDE DEF n
    <2> QED BY <1>3, <2>1, <2>4, <2>6, <2>7
  <1> QED BY <1>1, <1>2, <1>3

(* So is a tag.                                                            *)
LEMMA TagEncodeEffect ==
    ASSUME NEW c \in Context, NEW m \in Memory, NEW arg \in Nat, NEW len \in Nat
    PROVE  LET r == TagEncode(c, m, arg, len)
               after == c.state.payload + len IN
           /\ r.ok \in BOOLEAN
           /\ r.ok => /\ Forward(c, r.z, len) /\ Inside(m, r.mem, after)
                      /\ after <= c.state.payload_end
           /\ ~ r.ok => r.z = c /\ r.mem = m
  <1> DEFINE v == ValueEncodeLen(c, m, "tag", arg, len)
             after == c.state.payload + len
             r == TagEncode(c, m, arg, len)
  <1>1. /\ v.ok \in BOOLEAN
        /\ v.ok => /\ Forward(c, v.z, len) /\ Inside(m, v.mem, after)
                   /\ after <= c.state.payload_end
        /\ ~ v.ok => v.z = c /\ v.mem = m
    BY ValueEncodeLenEffect DEF Kinds
  <1>2. r = IF v.ok THEN Wrote(Uncounted(v.z), v.mem) ELSE v
    BY DEF TagEncode
  <1> HIDE DEF v
  <1>3. CASE v.ok
    <2>1. Forward(v.z, Uncounted(v.z), 0)
      BY <1>1, <1>3, CountedEffect DEF Forward, Same
    <2>2. Forward(c, Uncounted(v.z), len)
      BY <1>1, <1>3, <2>1, ForwardBoth
    <2>3. r.ok = TRUE /\ r.z = Uncounted(v.z) /\ r.mem = v.mem
      BY <1>2, <1>3 DEF Wrote
    <2> QED BY <1>1, <1>3, <2>2, <2>3
  <1>4. CASE ~ v.ok
    BY <1>1, <1>2, <1>4
  <1> QED BY <1>1, <1>3, <1>4

(* Two states at one place: in the same string, section and position.      *)
Together(s, t) == Located(s, t) /\ t.payload = s.payload

(* A call that saved a restorable backup of the present place.             *)
Saved(c, d) ==
    /\ d \in Context
    /\ d.base = c.base /\ d.section = c.section
    /\ Together(c.state, d.state)
    /\ \E b \in State :
        /\ ~ b.payload_moved /\ Together(c.state, b)
        /\ d.backup_list = Append(c.backup_list, b)

(* zcbor_new_backup saves the present place or changes nothing.            *)
LEMMA BackupEffect ==
    ASSUME NEW c \in Context, NEW elems \in 0 .. MaxElemCount
    PROVE  LET r == NewBackup(c, elems) IN
           /\ r.ok \in BOOLEAN
           /\ r.ok => Saved(c, r.z)
           /\ ~ r.ok => r.z = c
  <1> DEFINE unmoved == [c.state EXCEPT !.payload_moved = FALSE]
             s == [unmoved EXCEPT !.elem_count = elems]
             list == Append(c.backup_list, unmoved)
             d == [c EXCEPT !.state = s, !.backup_list = list]
             r == NewBackup(c, elems)
  <1>1. c.state \in State /\ c.backup_list \in Seq(State)
    BY ContextFields
  <1>2. unmoved \in State /\ ~ unmoved.payload_moved /\ Together(c.state, unmoved)
    BY <1>1 DEF State, Together, Located
  <1>3. s \in State /\ Together(c.state, s)
    BY <1>2 DEF State, Together, Located
  <1>4. CASE Len(c.backup_list) >= NumBackups
    BY <1>4 DEF NewBackup, Fail
  <1>5. CASE ~ (Len(c.backup_list) >= NumBackups)
    <2>1. r.ok = TRUE /\ r.z = d
      BY <1>5 DEF NewBackup, Done
    <2> HIDE DEF s, unmoved
    <2>2. list \in Seq(State)
      BY <1>1, <1>2
    <2> HIDE DEF list
    <2>3. /\ d \in Context /\ d.backup_list = list /\ d.state = s
          /\ d.base = c.base /\ d.section = c.section
      BY <1>3, <2>2 DEF Context
    <2> HIDE DEF d
    <2>4. Saved(c, d)
      BY <1>2, <1>3, <2>3 DEF Saved, list
    <2> QED BY <2>1, <2>4
  <1> QED BY <1>4, <1>5

(* A saved backup is the innermost one, and was not there before.          *)
LEMMA SavedTop ==
    ASSUME NEW c \in Context, NEW d, Saved(c, d)
    PROVE  /\ d.backup_list # << >>
           /\ Popped(d.backup_list) = c.backup_list
           /\ ~ Top(d.backup_list).payload_moved
           /\ Together(c.state, Top(d.backup_list))
  <1>1. c.backup_list \in Seq(State)
    BY ContextFields
  <1>2. PICK b \in State :
            /\ ~ b.payload_moved /\ Together(c.state, b)
            /\ d.backup_list = Append(c.backup_list, b)
    BY DEF Saved
  <1>3. /\ Append(c.backup_list, b) # << >>
        /\ Popped(Append(c.backup_list, b)) = c.backup_list
        /\ Top(Append(c.backup_list, b)) = b
    BY <1>1 DEF Popped, Top
  <1> QED BY <1>2, <1>3

(* The shapes a call can have.  It stays in its frame and may have written *)
(* something before the end; ...                                           *)
Grown(s, t) ==
    /\ t.payload_end = s.payload_end
    /\ \/ t.payload = s.payload
       \/ s.payload <= t.payload /\ t.payload <= t.payload_end

Stays(c, d) == Same(c, d) /\ Grown(c.state, d.state)

(* ... it opens a frame; ...                                               *)
Opens(c, d, kind, hint) ==
    /\ d \in Context
    /\ d.base = c.base /\ d.section = c.section
    /\ \E b \in State :
        /\ ~ b.payload_moved /\ Together(c.state, b)
        /\ d.backup_list = Append(c.backup_list, b)
        /\ d.state.payload_end = b.payload_end
        /\ d.state.payload = b.payload + (IF kind = "item" THEN 0 ELSE HeaderLen(hint))
    /\ kind # "item" => d.state.payload <= d.state.payload_end

(* ... or it closes the innermost one, from where it is or from where the  *)
(* frame was opened.                                                       *)
Closes(c, d) ==
    /\ Pulled(c, d)
    /\ \/ /\ d.state.payload_end = Top(c.backup_list).payload_end
          /\ d.state.payload = c.state.payload
       \/ Grown(Top(c.backup_list), d.state)


(* A call that writes before the end stays in its frame.                   *)
LEMMA ForwardStays ==
    ASSUME NEW c \in Context, NEW d, NEW len \in Nat, Forward(c, d, len),
           len = 0 \/ c.state.payload + len <= c.state.payload_end
    PROVE  Stays(c, d)
  <1>1. c.state.payload \in Nat /\ c.state.payload_end \in Nat
    BY ContextFields DEF State
  <1> QED BY <1>1 DEF Forward, Located, Stays, Grown

(* So does one that changed nothing.                                       *)
LEMMA SameStays ==
    ASSUME NEW c \in Context
    PROVE  Stays(c, c)
  BY DEF Stays, Same, Grown

(* One such call after another.                                            *)
LEMMA StaysBoth ==
    ASSUME NEW c \in Context, NEW d, NEW e, Stays(c, d), Stays(d, e)
    PROVE  Stays(c, e)
  <1>1. d \in Context /\ e \in Context
    BY DEF Stays, Same
  <1>2. /\ c.state.payload \in Nat /\ d.state.payload \in Nat /\ e.state.payload \in Nat
        /\ e.state.payload_end \in Nat
    BY <1>1, ContextFields DEF State
  <1> QED BY <1>1, <1>2 DEF Stays, Same, Grown

(* A header behind a backup opens a frame.                                 *)
LEMMA HeaderOpens ==
    ASSUME NEW c \in Context, NEW e, NEW d, NEW kind, NEW hint \in Nat,
           kind # "item", Saved(c, e), Forward(e, d, HeaderLen(hint)),
           e.state.payload + HeaderLen(hint) <= e.state.payload_end
    PROVE  Opens(c, d, kind, hint)
  BY DEF Saved, Forward, Same, Together, Located, Opens

(* A string with its header is written whole, before the end, or not.      *)
LEMMA StrEncodeEffect ==
    ASSUME NEW c \in Context, NEW m \in Memory, NEW kind \in Kinds, NEW len \in Nat,
           NEW from, \/ from = Elsewhere
                     \/ from \in Nat /\ from + len <= MaxRoom
    PROVE  LET r == StrEncode(c, m, kind, len, from) IN
           /\ r.ok \in BOOLEAN
           /\ Stays(c, r.z)
           /\ Inside(m, r.mem, c.state.payload_end)
           /\ ~ r.ok => r.z = c
  <1> DEFINE r == StrEncode(c, m, kind, len, from)
             h == HeaderLen(len)
             v == ValueEncodeLen(c, m, kind, len, h)
             end == c.state.payload_end
             to == v.z.state.payload
             d == Advanced(v.z, len)
             n == IF from = Elsewhere THEN Write(v.mem, to, Data(0, len))
                  ELSE Move(v.mem, to, from, len)
  <1>1. c.state.payload \in Nat /\ end \in Nat
    BY ContextFields DEF State
  <1>2. h \in 1 .. 9
    BY HeaderLenGrows
  <1>3. /\ v.ok \in BOOLEAN
        /\ v.ok => /\ Forward(c, v.z, h) /\ Inside(m, v.mem, c.state.payload + h)
        /\ ~ v.ok => v.z = c /\ v.mem = m
    BY <1>2, ValueEncodeLenEffect
  <1>4. \/ r.ok = FALSE /\ r.z = c /\ r.mem = m
        \/ /\ ~ (h + len > end - c.state.payload) /\ ~ v.ok /\ r = v
        \/ /\ ~ (h + len > end - c.state.payload) /\ v.ok
           /\ r.ok = TRUE /\ r.z = d /\ r.mem = n
    BY DEF StrEncode, ValueEncode, Room, Stopped, Wrote
  <1>5. Stays(c, c) /\ Inside(m, m, end)
    BY SameStays, InsideSame
  <1>6. CASE /\ ~ (h + len > end - c.state.payload) /\ v.ok
             /\ r.ok = TRUE /\ r.z = d /\ r.mem = n
    <2> HIDE DEF h, v, r, end
    <2>1. v.z \in Context /\ v.z.state.payload = c.state.payload + h /\ v.mem \in Memory
      BY <1>3, <1>6 DEF Forward, Same, Inside
    <2>2. Forward(v.z, d, len)
      BY <2>1, AdvancedEffect
    <2>3. Forward(c, d, h + len)
      BY <1>2, <1>3, <1>6, <2>2, ForwardBoth
    <2>4. c.state.payload + (h + len) <= end /\ to \in Nat /\ to + len <= end
          /\ c.state.payload + h <= end
      BY <1>1, <1>2, <1>6, <2>1
    <2>5. Stays(c, d)
      BY <1>2, <2>3, <2>4, ForwardStays DEF end
    <2>6. Inside(v.mem, n, end)
      <3>1. Data(0, len) \in Seq(Byte) /\ Len(Data(0, len)) = len
        BY DataType
      <3> HIDE DEF to
      <3>2. CASE from = Elsewhere
        <4>1. Inside(v.mem, Write(v.mem, to, Data(0, len)), end)
          BY <1>1, <2>1, <2>4, <3>1, WriteEffect
        <4> QED BY <3>2, <4>1
      <3>3. CASE from # Elsewhere
        <4>1. Inside(v.mem, Move(v.mem, to, from, len), end)
          BY <1>1, <2>1, <2>4, <3>3, MoveEffect
        <4> QED BY <3>3, <4>1
      <3> QED BY <3>2, <3>3
    <2> HIDE DEF d, n
    <2>7. Inside(m, n, end)
      BY <1>1, <1>2, <1>3, <1>6, <2>4, <2>6, InsideBoth
    <2> QED BY <1>6, <2>5, <2>7 DEF end, r
  <1> HIDE DEF d, n, v
  <1> QED BY <1>3, <1>4, <1>5, <1>6

(* A container is opened, or its backup is left behind, or nothing changed.*)
LEMMA ListMapStartEffect ==
    ASSUME NEW c \in Context, NEW m \in Memory, NEW kind \in Containers,
           NEW size_hint \in Nat
    PROVE  LET r == ListMapStartEncode(c, m, kind, size_hint) IN
           /\ r.ok \in BOOLEAN
           /\ r.ok => Opens(c, r.z, kind, size_hint)
           /\ ~ r.ok => r.z = c \/ Saved(c, r.z)
           /\ Inside(m, r.mem, c.state.payload_end)
  <1> DEFINE r == ListMapStartEncode(c, m, kind, size_hint)
             b == NewBackup(c, 0)
             h == HeaderLen(size_hint)
             v == ValueEncodeLen(b.z, m, kind, size_hint, h)
             d == Uncounted(v.z)
             end == c.state.payload_end
  <1>1. c.state.payload \in Nat /\ end \in Nat
    BY ContextFields DEF State
  <1>2. h \in 1 .. 9
    BY HeaderLenGrows
  <1>3. /\ b.ok \in BOOLEAN
        /\ b.ok => Saved(c, b.z)
        /\ ~ b.ok => b.z = c
    BY MaxElemCountAssumption, BackupEffect
  <1>4. \/ ~ b.ok /\ r.ok = FALSE /\ r.z = b.z /\ r.mem = m
        \/ b.ok /\ v.ok /\ r.ok = TRUE /\ r.z = d /\ r.mem = v.mem
        \/ b.ok /\ ~ v.ok /\ r = v
    BY <1>3 DEF ListMapStartEncode, ValueEncode, Keeping, Wrote
  <1>5. Inside(m, m, end)
    BY InsideSame
  <1>6. CASE ~ b.ok /\ r.ok = FALSE /\ r.z = b.z /\ r.mem = m
    BY <1>3, <1>5, <1>6
  <1>7. CASE b.ok
    <2> HIDE DEF b
    <2>1. b.z \in Context /\ Together(c.state, b.z.state)
      BY <1>3, <1>7 DEF Saved
    <2>2. kind \in Kinds /\ kind # "item"
      BY DEF Containers, Kinds
    <2>3. b.z.state.payload = c.state.payload /\ b.z.state.payload_end = end
      BY <2>1 DEF Together, Located
    <2>4. /\ v.ok \in BOOLEAN
          /\ v.ok => /\ c.state.payload + h <= end
                     /\ Forward(b.z, v.z, h) /\ Inside(m, v.mem, c.state.payload + h)
          /\ ~ v.ok => v.z = b.z /\ v.mem = m
      BY <1>2, <2>1, <2>2, <2>3, ValueEncodeLenEffect
    <2> HIDE DEF v, h, r
    <2>5. CASE v.ok /\ r.ok = TRUE /\ r.z = d /\ r.mem = v.mem
      <3>1. Forward(v.z, d, 0)
        BY <2>4, <2>5, CountedEffect DEF Forward, Same
      <3>2. Forward(b.z, d, h)
        BY <1>2, <2>1, <2>4, <2>5, <3>1, ForwardBoth
      <3> HIDE DEF d
      <3>3. Opens(c, d, kind, size_hint)
        BY <1>3, <1>7, <2>2, <2>3, <2>4, <2>5, <3>2, HeaderOpens DEF h
      <3>4. Inside(m, v.mem, end)
        BY <1>1, <1>2, <2>4, <2>5, InsideBoth, InsideSame DEF Inside, Offsets
      <3> QED BY <2>5, <3>3, <3>4 DEF r
    <2>6. CASE ~ v.ok /\ r = v
      BY <1>3, <1>5, <1>7, <2>4, <2>6 DEF r
    <2> QED BY <1>4, <1>7, <2>5, <2>6 DEF b, v, r
  <1> QED BY <1>3, <1>4, <1>6, <1>7

(* A byte string is opened with the dummy header of the room there is.     *)
LEMMA BstrStartEffect ==
    ASSUME NEW c \in Context, NEW m \in Memory
    PROVE  LET r == BstrStartEncode(c, m) IN
           /\ r.ok \in BOOLEAN
           /\ r.ok => /\ RemainingStrLen(Room(c.state)) \in Nat
                      /\ Opens(c, r.z, "bstr", RemainingStrLen(Room(c.state)))
           /\ ~ r.ok => Stays(c, r.z)
           /\ Inside(m, r.mem, c.state.payload_end)
  <1> DEFINE r == BstrStartEncode(c, m)
             b == NewBackup(c, 0)
             len == RemainingStrLen(Room(b.z.state))
             v == ValueEncodeLen(b.z, m, "bstr", len, HeaderLen(len))
             q == ProcessBackup(v.z, {"CONSUME"})
             end == c.state.payload_end
  <1>1. c.state.payload \in Nat /\ end \in Nat
    BY ContextFields DEF State
  <1>2. /\ b.ok \in BOOLEAN
        /\ b.ok => Saved(c, b.z)
        /\ ~ b.ok => b.z = c
    BY MaxElemCountAssumption, BackupEffect
  <1>3. \/ ~ b.ok /\ r.ok = FALSE /\ r.z = b.z /\ r.mem = m
        \/ b.ok /\ v.ok /\ r = v
        \/ b.ok /\ ~ v.ok /\ r.ok = FALSE /\ r.z = q.z /\ r.mem = v.mem
    BY <1>2 DEF BstrStartEncode, ValueEncode, Keeping, Stopped
  <1>4. Inside(m, m, end)
    BY InsideSame
  <1>5. CASE ~ b.ok /\ r.ok = FALSE /\ r.z = b.z /\ r.mem = m
    BY <1>2, <1>4, <1>5, SameStays
  <1>6. CASE b.ok
    <2> HIDE DEF b
    <2>1. b.z \in Context /\ Together(c.state, b.z.state)
      BY <1>2, <1>6 DEF Saved
    <2>2. b.z.state.payload = c.state.payload /\ b.z.state.payload_end = end
          /\ Room(b.z.state) = Room(c.state)
      BY <2>1 DEF Together, Located, Room
    <2>3. len \in Int
      BY <1>1, <2>2 DEF RemainingStrLen, HeaderLen, Room
    <2>4. HeaderLen(len) \in 1 .. 9
      BY <2>3, HeaderLenGrows
    <2>5. CASE len \in Nat
      <3> HIDE DEF len
      <3>1. /\ v.ok \in BOOLEAN
            /\ v.ok => /\ c.state.payload + HeaderLen(len) <= end
                       /\ Forward(b.z, v.z, HeaderLen(len))
                       /\ Inside(m, v.mem, c.state.payload + HeaderLen(len))
            /\ ~ v.ok => v.z = b.z /\ v.mem = m
        <4>1. "bstr" \in Kinds
          BY DEF Kinds
        <4> DEFINE h == HeaderLen(len)
        <4>2. h \in Nat
          BY <2>4
        <4> HIDE DEF h
        <4>3. LET w == ValueEncodeLen(b.z, m, "bstr", len, h) IN
              /\ w.ok \in BOOLEAN
              /\ w.ok => /\ c.state.payload + h <= end
                         /\ Forward(b.z, w.z, h) /\ Inside(m, w.mem, c.state.payload + h)
              /\ ~ w.ok => w.z = b.z /\ w.mem = m
          BY <2>1, <2>2, <2>5, <4>1, <4>2, ValueEncodeLenEffect
        <4> QED BY <4>3 DEF h
      <3> HIDE DEF v, r, q
      <3>2. CASE v.ok /\ r = v
        <4>1. Opens(c, v.z, "bstr", len)
          BY <1>2, <1>6, <2>2, <2>5, <3>1, <3>2, HeaderOpens
        <4>2. Inside(m, v.mem, end)
          BY <1>1, <2>4, <3>1, <3>2 DEF Inside, Offsets
        <4> QED BY <2>2, <2>5, <3>1, <3>2, <4>1, <4>2 DEF r, len
      <3>3. CASE ~ v.ok /\ r.ok = FALSE /\ r.z = q.z /\ r.mem = v.mem
        <4>1. /\ b.z.backup_list # << >>
              /\ Popped(b.z.backup_list) = c.backup_list
          BY <1>2, <1>6, SavedTop
        <4>2. Pulled(b.z, q.z) /\ q.z.state = b.z.state
          BY <2>1, <3>1, <3>3, <4>1, ConsumeEffect DEF q
        <4>3. Stays(c, q.z)
          BY <1>2, <1>6, <2>2, <4>1, <4>2 DEF Stays, Same, Grown, Pulled, Saved
        <4> QED BY <1>4, <3>1, <3>3, <4>3 DEF r
      <3> QED BY <1>3, <1>6, <3>2, <3>3 DEF b, v, r, q, len
    <2>6. CASE len \notin Nat
      <3>1. Room(c.state) \in Int /\ Room(c.state) \notin Nat
        <4>1. Room(c.state) \in Int
          BY <1>1 DEF Room
        <4>2. Room(c.state) = 0 => len = 0
          BY <2>2 DEF RemainingStrLen
        <4>3. Room(c.state) \in Nat /\ Room(c.state) # 0 => len \in Nat
          BY <2>2, RemainingStrLenFits
        <4> QED BY <2>6, <4>1, <4>2, <4>3
      <3>2. c.state.payload + HeaderLen(len) > end
        BY <1>1, <2>4, <3>1 DEF Room
      <3> HIDE DEF len
      <3>3. v.ok = FALSE /\ v.z = b.z /\ v.mem = m
        BY <2>2, <3>2 DEF ValueEncodeLen, Stopped
      <3> HIDE DEF v, r, q
      <3>4. r.ok = FALSE /\ r.z = q.z /\ r.mem = m
        BY <1>3, <1>6, <3>3 DEF b, v, r, q, len
      <3>5. /\ b.z.backup_list # << >>
            /\ Popped(b.z.backup_list) = c.backup_list
        BY <1>2, <1>6, SavedTop
      <3>6. Pulled(b.z, q.z) /\ q.z.state = b.z.state
        BY <2>1, <3>3, <3>5, ConsumeEffect DEF q
      <3>7. Stays(c, q.z)
        BY <1>2, <1>6, <2>2, <3>5, <3>6 DEF Stays, Same, Grown, Pulled, Saved
      <3> QED BY <1>4, <3>4, <3>7 DEF r
    <2> QED BY <2>5, <2>6
  <1> QED BY <1>2, <1>3, <1>5, <1>6

(* What the end of a container relies on: c, back at its header, is not    *)
(* inside a string, and the contents that end at old_end begin behind the  *)
(* header and end before the end of the section.                           *)
LEMMA ListMapRewriteEffect ==
    ASSUME NEW c \in Context, NEW m \in Memory, NEW kind \in Containers,
           NEW size_hint \in Nat, NEW list_count \in Nat, NEW old_end \in Nat,
           ~ c.state.inside_frag_str,
           c.state.payload + HeaderLen(size_hint) <= old_end,
           old_end <= c.state.payload_end, c.state.payload_end <= MaxRoom
    PROVE  LET r == ListMapRewrite(c, m, kind, size_hint, list_count, old_end) IN
           /\ r.ok \in BOOLEAN
           /\ Stays(c, r.z)
           /\ Inside(m, r.mem, c.state.payload_end)
           /\ list_count <= size_hint => r.ok
  <1> DEFINE r == ListMapRewrite(c, m, kind, size_hint, list_count, old_end)
             h == HeaderLen(size_hint)
             k == HeaderLen(list_count)
             p == c.state.payload
             end == c.state.payload_end
             size == old_end - (p + h)
             moved == IF p + k # p + h THEN Move(m, p + k, p + h, size) ELSE m
             v == ValueEncodeLen(c, moved, kind, list_count, k)
             d == Advanced(v.z, size)
  <1>1. p \in Nat /\ end \in Nat /\ h \in 1 .. 9 /\ k \in 1 .. 9
        /\ (list_count <= size_hint => k <= h)
    <2>1. p \in Nat /\ end \in Nat
      BY ContextFields DEF State
    <2>2. h \in 1 .. 9 /\ k \in 1 .. 9 /\ (list_count <= size_hint => k <= h)
      BY HeaderLenGrows
    <2> QED BY <2>1, <2>2
  <1>2. p + h <= old_end /\ old_end <= end /\ end <= MaxRoom /\ size \in Nat
    BY <1>1
  <1>3. \/ /\ p + k # p + h /\ p + k + size > end
           /\ r.ok = FALSE /\ r.z = c /\ r.mem = m
        \/ ~ (p + k # p + h /\ p + k + size > end) /\ ~ v.ok /\ r = v
        \/ /\ ~ (p + k # p + h /\ p + k + size > end) /\ v.ok
           /\ r.ok = TRUE /\ r.z = d /\ r.mem = v.mem
    <2>1. ~ (old_end < p + h)
      BY <1>1, <1>2
    <2> QED BY <2>1 DEF ListMapRewrite, ValueEncode, Stopped, Wrote
  <1>4. CASE p + k # p + h /\ p + k + size > end /\ r.ok = FALSE /\ r.z = c /\ r.mem = m
    <2>1. ~ (list_count <= size_hint)
      BY <1>1, <1>2, <1>4
    <2> HIDE DEF r
    <2> QED BY <1>4, <2>1, SameStays, InsideSame DEF r
  <1>5. CASE ~ (p + k # p + h /\ p + k + size > end)
    <2>1. p + k + size <= end /\ p + k <= end
      BY <1>1, <1>2, <1>5
    <2>2. Inside(m, moved, end)
      <3>1. CASE p + k = p + h
        BY <3>1, InsideSame
      <3>2. CASE p + k # p + h
        <4>1. p + k \in Nat /\ p + h \in Nat /\ p + h + size <= MaxRoom
              /\ p + k + size <= end
          <5> HIDE DEF h, k, p, end
          <5>1. p + h + size = old_end
            BY <1>1
          <5> QED BY <1>1, <1>2, <2>1, <5>1, EncodeInputsAssumption
        <4> HIDE DEF h, k, p, end, size
        <4>2. Inside(m, Move(m, p + k, p + h, size), end)
          BY <1>1, <1>2, <4>1, MoveEffect
        <4> QED BY <3>2, <4>2
      <3> QED BY <3>1, <3>2
    <2> HIDE DEF moved
    <2>3. moved \in Memory
      BY <2>2 DEF Inside
    <2>4. /\ v.ok = TRUE
          /\ Forward(c, v.z, k) /\ Inside(moved, v.mem, p + k)
      <3>1. kind \in Kinds /\ k \in Nat
        BY <1>1 DEF Containers, Kinds
      <3> HIDE DEF k
      <3>2. /\ v.ok \in BOOLEAN
            /\ v.ok <=> p + k <= end /\ ~ c.state.inside_frag_str
            /\ v.ok => Forward(c, v.z, k) /\ Inside(moved, v.mem, p + k)
        BY <2>3, <3>1, ValueEncodeLenEffect
      <3> HIDE DEF v
      <3> QED BY <2>1, <3>2
    <2> HIDE DEF v, r, size, k, h
    <2>5. r.ok = TRUE /\ r.z = d /\ r.mem = v.mem
      BY <1>3, <1>5, <2>4
    <2>6. Forward(v.z, d, size)
      BY <1>2, <2>4, AdvancedEffect DEF Forward, Same
    <2>7. Forward(c, d, k + size)
      BY <1>1, <1>2, <2>4, <2>6, ForwardBoth
    <2> HIDE DEF d
    <2>8. Stays(c, d)
      BY <1>1, <1>2, <2>1, <2>7, ForwardStays
    <2>9. Inside(m, v.mem, end)
      BY <1>1, <2>1, <2>2, <2>4 DEF Inside, Offsets
    <2> QED BY <2>5, <2>8, <2>9 DEF r
  <1> QED BY <1>3, <1>4, <1>5

(* What is written after a roll back is written where the frame was.       *)
LEMMA RolledBackCloses ==
    ASSUME NEW c \in Context, NEW d, NEW e,
           Pulled(c, d), d.state = Top(c.backup_list), Stays(d, e)
    PROVE  Closes(c, e)
  BY DEF Pulled, Stays, Same, Closes

(* Abandoning a container rolls back to its header, or is refused.         *)
LEMMA ForceEndEffect ==
    ASSUME NEW c \in Context, NEW m, c.backup_list # << >>
    PROVE  LET r == ListMapEndForceEncode(c, m) IN
           /\ r.ok \in BOOLEAN
           /\ r.ok => Closes(c, r.z)
           /\ ~ r.ok => r.z = c
           /\ r.mem = m
  <1> DEFINE q == ProcessBackup(c, {"RESTORE", "CONSUME"})
             r == ListMapEndForceEncode(c, m)
  <1>1. r.ok = q.ok /\ r.z = q.z /\ r.mem = m
    BY DEF ListMapEndForceEncode, Keeping
  <1>2. /\ q.ok \in BOOLEAN
        /\ q.ok => Pulled(c, q.z) /\ q.z.state = Top(c.backup_list)
        /\ ~ q.ok => q.z = c
    BY RollBackEffect
  <1> HIDE DEF q
  <1>3. q.ok => q.z \in Context
    BY <1>2 DEF Pulled
  <1>4. q.ok => Closes(c, q.z)
    BY <1>2, <1>3, SameStays, RolledBackCloses
  <1> QED BY <1>1, <1>2, <1>4

(* A container is closed if its hint was exact; if it was at least as      *)
(* large as the count and its header is in this section; and otherwise     *)
(* perhaps, but then it is back at its header.                             *)
LEMMA ListMapEndEffect ==
    ASSUME NEW c \in Context, NEW m \in Memory, NEW kind \in Containers,
           NEW size_hint \in Nat, NEW b, b = Top(c.backup_list),
           c.backup_list # << >>, ~ b.inside_frag_str, b.payload_end <= MaxRoom,
           ~ b.payload_moved =>
                /\ b.payload + HeaderLen(size_hint) <= c.state.payload
                /\ c.state.payload <= b.payload_end
    PROVE  LET r == ListMapEndEncode(c, m, kind, size_hint) IN
           /\ r.ok \in BOOLEAN
           /\ r.ok => Closes(c, r.z)
           /\ ~ r.ok => r.z = c \/ Closes(c, r.z)
           /\ Inside(m, r.mem, b.payload_end)
           /\ size_hint = ListCount(c, kind) => r.ok
           /\ ListCount(c, kind) <= size_hint /\ ~ b.payload_moved => r.ok
  <1> DEFINE r == ListMapEndEncode(c, m, kind, size_hint)
             list_count == ListCount(c, kind)
             kept == ProcessBackup(c, ResumeFlags)
             q == ProcessBackup(c, {"RESTORE", "CONSUME"})
             w == ListMapRewrite(q.z, m, kind, size_hint, list_count, c.state.payload)
  <1>1. c.state.payload \in Nat /\ list_count \in Nat
    <2>1. c.state.payload \in Nat /\ c.state.elem_count \in Nat
      BY ContextFields DEF State
    <2> QED BY <2>1 DEF ListCount
  <1>2. Inside(m, m, b.payload_end)
    BY InsideSame
  <1>3. CASE size_hint = list_count
    <2>1. /\ kept.ok = TRUE /\ Pulled(c, kept.z)
          /\ kept.z.state = [b EXCEPT !.payload = c.state.payload]
      BY ResumeEffect
    <2>2. b \in State
      BY ContextFields DEF Top
    <2>3. r.ok = TRUE /\ r.z = Counted(kept.z) /\ r.mem = m
      BY <1>3, <2>1 DEF ListMapEndEncode, Wrote, ResumeFlags
    <2>4. kept.z.state.payload = c.state.payload /\ kept.z.state.payload_end = b.payload_end
      BY <1>1, <2>1, <2>2 DEF State
    <2> HIDE DEF kept
    <2>5. Forward(kept.z, Counted(kept.z), 0)
      BY <2>1, CountedEffect DEF Pulled
    <2>6. Closes(c, Counted(kept.z))
      BY <1>1, <2>1, <2>4, <2>5 DEF Forward, Same, Located, Pulled, Closes
    <2> QED BY <1>2, <2>3, <2>6
  <1>4. CASE size_hint # list_count
    <2>1. /\ q.ok \in BOOLEAN /\ (q.ok <=> ~ b.payload_moved)
          /\ q.ok => Pulled(c, q.z) /\ q.z.state = b
          /\ ~ q.ok => q.z = c
      BY RollBackEffect
    <2>2. \/ ~ q.ok /\ r.ok = q.ok /\ r.z = q.z /\ r.mem = m
          \/ q.ok /\ r = w
      BY <1>4, <2>1 DEF ListMapEndEncode, Keeping
    <2> HIDE DEF q, list_count
    <2>3. CASE q.ok
      <3>1. /\ q.z \in Context /\ ~ q.z.state.inside_frag_str
            /\ q.z.state.payload + HeaderLen(size_hint) <= c.state.payload
            /\ c.state.payload <= q.z.state.payload_end
            /\ q.z.state.payload_end <= MaxRoom /\ q.z.state.payload_end = b.payload_end
        BY <2>1, <2>3 DEF Pulled
      <3>2. /\ w.ok \in BOOLEAN
            /\ Stays(q.z, w.z)
            /\ Inside(m, w.mem, b.payload_end)
            /\ list_count <= size_hint => w.ok
        BY <1>1, <3>1, ListMapRewriteEffect
      <3> HIDE DEF w, r
      <3>3. Closes(c, w.z)
        BY <2>1, <2>3, <3>2, RolledBackCloses
      <3> QED BY <1>4, <2>2, <2>3, <3>2, <3>3 DEF r, list_count
    <2>4. CASE ~ q.ok
      <3> HIDE DEF r, w
      <3> QED BY <1>2, <1>4, <2>1, <2>2, <2>4 DEF r, list_count
    <2> QED BY <2>1, <2>3, <2>4
  <1> QED BY <1>3, <1>4

(* A byte string is closed, with its contents behind its own header, or    *)
(* the session is back at its header.                                      *)
LEMMA BstrEndEffect ==
    ASSUME NEW c \in Context, NEW m \in Memory, NEW b, b = Top(c.backup_list),
           c.backup_list # << >>, b.payload_end <= MaxRoom,
           b.payload + HeaderLen(RemainingStrLen(Room(b))) <= c.state.payload,
           c.state.payload <= b.payload_end
    PROVE  LET r == BstrEndEncode(c, m) IN
           /\ r.ok \in BOOLEAN
           /\ r.ok => Closes(c, r.z)
           /\ ~ r.ok => r.z = c \/ Closes(c, r.z)
           /\ Inside(m, r.mem, b.payload_end)
  <1> DEFINE r == BstrEndEncode(c, m)
             q == ProcessBackup(c, {"RESTORE", "CONSUME"})
             value == b.payload + HeaderLen(RemainingStrLen(Room(b)))
             len == c.state.payload - value
             w == StrEncode(q.z, m, "bstr", len, value)
  <1>1. b \in State /\ c.state.payload \in Nat
    <2>1. c.state.payload \in Nat
      BY ContextFields DEF State
    <2> QED BY <2>1, ContextFields DEF Top
  <1>2. b.payload \in Nat /\ b.payload_end \in Nat /\ Room(b) \in Int
    BY <1>1 DEF State, Room
  <1>3. value \in Nat /\ value # Elsewhere
    <2>1. RemainingStrLen(Room(b)) \in Int
      BY <1>2 DEF RemainingStrLen, HeaderLen
    <2>2. HeaderLen(RemainingStrLen(Room(b))) \in 1 .. 9
      BY <2>1, HeaderLenGrows
    <2> QED BY <1>2, <2>2 DEF Elsewhere
  <1>4. /\ q.ok \in BOOLEAN
        /\ q.ok => Pulled(c, q.z) /\ q.z.state = b
        /\ ~ q.ok => q.z = c
    BY RollBackEffect
  <1>5. \/ ~ q.ok /\ r.ok = q.ok /\ r.z = q.z /\ r.mem = m
        \/ q.ok /\ r = w
    BY <1>4 DEF BstrEndEncode, Keeping
  <1> HIDE DEF q
  <1>6. CASE q.ok
    <2>1. len \in Nat /\ value + len <= MaxRoom
      <3> HIDE DEF value
      <3> QED BY <1>1, <1>2, <1>3, EncodeInputsAssumption DEF value
    <2>2. q.z \in Context /\ "bstr" \in Kinds
      BY <1>4, <1>6 DEF Pulled, Kinds
    <2> HIDE DEF len, value
    <2>3. /\ w.ok \in BOOLEAN
          /\ Stays(q.z, w.z)
          /\ Inside(m, w.mem, q.z.state.payload_end)
      BY <1>3, <2>1, <2>2, StrEncodeEffect
    <2> HIDE DEF w, r
    <2>4. Closes(c, w.z)
      BY <1>4, <1>6, <2>3, RolledBackCloses
    <2> QED BY <1>4, <1>5, <1>6, <2>3, <2>4 DEF r
  <1>7. CASE ~ q.ok
    <2> HIDE DEF r, w
    <2> QED BY <1>4, <1>5, <1>7, InsideSame DEF r
  <1> QED BY <1>4, <1>6, <1>7

(* Where a fragmented string begins is noted in the live state only.       *)
LEMMA FragmentFieldsEffect ==
    ASSUME NEW c \in Context, NEW len \in Nat, NEW inside \in BOOLEAN
    PROVE  LET cbor == [c EXCEPT !.state = [@ EXCEPT
                            !.frag_offset_cbor = 0 - c.state.payload,
                            !.str_total_len_cbor = len,
                            !.inside_cbor_bstr = TRUE]]
               plain == [c EXCEPT !.state = [@ EXCEPT
                            !.frag_offset = 0 - c.state.payload,
                            !.str_total_len = len,
                            !.inside_frag_str = TRUE]]
               left == [c EXCEPT !.state.inside_frag_str = FALSE] IN
           /\ Forward(c, cbor, 0)
           /\ Stays(c, plain)
           /\ Stays(c, left)
  <1> DEFINE p == c.state.payload
             o == 0 - c.state.payload
             s == [c.state EXCEPT !.frag_offset_cbor = o, !.str_total_len_cbor = len,
                                  !.inside_cbor_bstr = TRUE]
             t == [c.state EXCEPT !.frag_offset = o, !.str_total_len = len,
                                  !.inside_frag_str = TRUE]
             u == [c.state EXCEPT !.inside_frag_str = FALSE]
  <1>1. c.state \in State
    BY ContextFields
  <1>2. p \in Nat /\ o \in Int
    BY <1>1 DEF State
  <1> HIDE DEF o
  <1>3. s \in State /\ Located(c.state, s) /\ s.payload = p + 0
    <2>1. s \in State /\ Located(c.state, s) /\ s.payload = p
      BY <1>1, <1>2 DEF State, Located
    <2> HIDE DEF s, p
    <2> QED BY <1>2, <2>1
  <1>4. t \in State /\ Grown(c.state, t)
    BY <1>1, <1>2 DEF State, Grown
  <1>5. u \in State /\ Grown(c.state, u)
    BY <1>1, <1>2 DEF State, Grown
  <1> HIDE DEF s, t, u
  <1>6. Same(c, [c EXCEPT !.state = s]) /\ [c EXCEPT !.state = s].state = s
    BY <1>3, SetState
  <1>7. Same(c, [c EXCEPT !.state = t]) /\ [c EXCEPT !.state = t].state = t
    BY <1>4, SetState
  <1>8. Same(c, [c EXCEPT !.state = u]) /\ [c EXCEPT !.state = u].state = u
    BY <1>5, SetState
  <1>9. Forward(c, [c EXCEPT !.state = s], 0)
    BY <1>3, <1>6 DEF Forward
  <1>10. Stays(c, [c EXCEPT !.state = t]) /\ Stays(c, [c EXCEPT !.state = u])
    BY <1>4, <1>5, <1>7, <1>8 DEF Stays
  <1> QED BY <1>9, <1>10 DEF s, t, u, o

(* A plain fragmented string is begun: its header is written, or nothing.  *)
LEMMA FragmentsStartEffect ==
    ASSUME NEW c \in Context, NEW m \in Memory, NEW len \in Nat
    PROVE  LET r == FragmentsStartEncode(c, m, "tstr", len, FALSE) IN
           /\ r.ok \in BOOLEAN
           /\ Stays(c, r.z)
           /\ Inside(m, r.mem, c.state.payload_end)
  <1> DEFINE r == FragmentsStartEncode(c, m, "tstr", len, FALSE)
             h == HeaderLen(len)
             v == ValueEncodeLen(c, m, "tstr", len, h)
             d == [v.z EXCEPT !.state = [@ EXCEPT
                        !.frag_offset = 0 - v.z.state.payload,
                        !.str_total_len = len,
                        !.inside_frag_str = TRUE]]
             end == c.state.payload_end
  <1>1. c.state.payload \in Nat /\ end \in Nat
    BY ContextFields DEF State
  <1>2. h \in 1 .. 9 /\ "tstr" \in Kinds
    BY HeaderLenGrows DEF Kinds
  <1>3. /\ v.ok \in BOOLEAN
        /\ v.ok => /\ c.state.payload + h <= end
                   /\ Forward(c, v.z, h) /\ Inside(m, v.mem, c.state.payload + h)
        /\ ~ v.ok => v.z = c /\ v.mem = m
    <2> HIDE DEF h
    <2> QED BY <1>2, ValueEncodeLenEffect
  <1>4. \/ r.ok = FALSE /\ r.z = c /\ r.mem = m
        \/ ~ v.ok /\ r = v
        \/ v.ok /\ r.ok = TRUE /\ r.z = d /\ r.mem = v.mem
    BY DEF FragmentsStartEncode, ValueEncode, Done, Keeping, Stopped, Wrote
  <1> HIDE DEF v, h, r
  <1>5. CASE r.ok = FALSE /\ r.z = c /\ r.mem = m
    BY <1>5, SameStays, InsideSame DEF r
  <1>6. CASE ~ v.ok /\ r = v
    BY <1>3, <1>6, SameStays, InsideSame DEF r
  <1>7. CASE v.ok /\ r.ok = TRUE /\ r.z = d /\ r.mem = v.mem
    <2>1. Stays(c, v.z)
      BY <1>2, <1>3, <1>7, ForwardStays
    <2>2. Stays(v.z, d)
      BY <2>1, FragmentFieldsEffect DEF Stays, Same
    <2> HIDE DEF d
    <2>4. Stays(c, d)
      BY <2>1, <2>2, StaysBoth
    <2>5. Inside(m, v.mem, end)
      BY <1>1, <1>2, <1>3, <1>7 DEF Inside, Offsets
    <2> QED BY <1>7, <2>4, <2>5 DEF r
  <1> QED BY <1>4, <1>5, <1>6, <1>7

(* A CBOR string is opened, or the session is where it was.                *)
LEMMA CborFragmentsStartEffect ==
    ASSUME NEW c \in Context, NEW m \in Memory, NEW len \in Nat
    PROVE  LET r == FragmentsStartEncode(c, m, "bstr", len, TRUE) IN
           /\ r.ok \in BOOLEAN
           /\ r.ok => Opens(c, r.z, "cborfrag", len)
           /\ ~ r.ok => Stays(c, r.z)
           /\ Inside(m, r.mem, c.state.payload_end)
  <1> DEFINE r == FragmentsStartEncode(c, m, "bstr", len, TRUE)
             b == NewBackup(c, 0)
             h == HeaderLen(len)
             v == ValueEncodeLen(b.z, m, "bstr", len, h)
             q == ProcessBackup(v.z, {"CONSUME", "RESTORE"})
             d == [v.z EXCEPT !.state = [@ EXCEPT
                        !.frag_offset_cbor = 0 - v.z.state.payload,
                        !.str_total_len_cbor = len,
                        !.inside_cbor_bstr = TRUE]]
             end == c.state.payload_end
  <1>1. c.state.payload \in Nat /\ end \in Nat
    BY ContextFields DEF State
  <1>2. h \in 1 .. 9 /\ "bstr" \in Kinds
    BY HeaderLenGrows DEF Kinds
  <1>3. /\ b.ok \in BOOLEAN
        /\ b.ok => Saved(c, b.z)
        /\ ~ b.ok => b.z = c
    BY MaxElemCountAssumption, BackupEffect
  <1>4. \/ r.ok = FALSE /\ r.z = c /\ r.mem = m
        \/ ~ b.ok /\ r.ok = b.ok /\ r.z = b.z /\ r.mem = m
        \/ b.ok /\ ~ v.ok /\ r.ok = FALSE /\ r.z = q.z /\ r.mem = v.mem
        \/ b.ok /\ v.ok /\ r.ok = TRUE /\ r.z = d /\ r.mem = v.mem
    BY <1>3 DEF FragmentsStartEncode, ValueEncode, Keeping, Stopped, Wrote
  <1>5. Inside(m, m, end)
    BY InsideSame
  <1> HIDE DEF r, b
  <1>6. CASE r.ok = FALSE /\ r.z = c /\ r.mem = m
    BY <1>5, <1>6, SameStays DEF r
  <1>7. CASE ~ b.ok /\ r.ok = b.ok /\ r.z = b.z /\ r.mem = m
    BY <1>3, <1>5, <1>7, SameStays DEF r
  <1>8. CASE b.ok
    <2>1. b.z \in Context /\ Together(c.state, b.z.state)
      BY <1>3, <1>8 DEF Saved
    <2>2. b.z.state.payload = c.state.payload /\ b.z.state.payload_end = end
      BY <2>1 DEF Together, Located
    <2>3. /\ v.ok \in BOOLEAN
          /\ v.ok => /\ c.state.payload + h <= end
                     /\ Forward(b.z, v.z, h) /\ Inside(m, v.mem, c.state.payload + h)
          /\ ~ v.ok => v.z = b.z /\ v.mem = m
      <3> HIDE DEF h
      <3> QED BY <1>2, <2>1, <2>2, ValueEncodeLenEffect
    <2> HIDE DEF v
    <2>4. CASE v.ok /\ r.ok = TRUE /\ r.z = d /\ r.mem = v.mem
      <3>1. Forward(v.z, d, 0)
        BY <2>3, <2>4, FragmentFieldsEffect DEF Forward, Same
      <3> HIDE DEF h, d
      <3>2. Forward(b.z, d, h)
        BY <1>2, <2>1, <2>3, <2>4, <3>1, ForwardBoth
      <3>3. Opens(c, d, "cborfrag", len)
        BY <1>3, <1>8, <2>2, <2>3, <2>4, <3>2, HeaderOpens DEF h
      <3>4. Inside(m, v.mem, end)
        BY <1>1, <1>2, <2>3, <2>4 DEF Inside, Offsets
      <3> QED BY <2>4, <3>3, <3>4 DEF r
    <2>5. CASE ~ v.ok /\ r.ok = FALSE /\ r.z = q.z /\ r.mem = v.mem
      <3>1. /\ b.z.backup_list # << >>
            /\ Popped(b.z.backup_list) = c.backup_list
            /\ ~ Top(b.z.backup_list).payload_moved
            /\ Together(c.state, Top(b.z.backup_list))
        BY <1>3, <1>8, SavedTop
      <3>2. {"CONSUME", "RESTORE"} = {"RESTORE", "CONSUME"}
        OBVIOUS
      <3>3. Pulled(b.z, q.z) /\ q.z.state = Top(b.z.backup_list)
        BY <2>1, <2>3, <2>5, <3>1, <3>2, RollBackEffect DEF q
      <3> HIDE DEF q
      <3>4. Stays(c, q.z)
        BY <1>3, <1>8, <3>1, <3>3
        DEF Stays, Same, Grown, Pulled, Saved, Together, Located
      <3> QED BY <1>5, <2>3, <2>5, <3>4 DEF r
    <2> QED BY <1>4, <1>6, <1>8, <2>4, <2>5
  <1> QED BY <1>4, <1>6, <1>7, <1>8

(* A fragment is written as far as there is room.                          *)
LEMMA FragmentEncodeEffect ==
    ASSUME NEW c \in Context, NEW m \in Memory, NEW from \in Nat, NEW len \in Nat
    PROVE  LET r == FragmentEncode(c, m, from, len) IN
           /\ r.ok \in BOOLEAN
           /\ Stays(c, r.z)
           /\ c.state.payload <= r.z.state.payload
           /\ Inside(m, r.mem, c.state.payload_end)
  <1> DEFINE r == FragmentEncode(c, m, from, len)
             n == Least(Room(c.state), len)
             p == c.state.payload
             end == c.state.payload_end
             d == Advanced(c, n)
             o == Write(m, p, Data(from, n))
  <1>1. p \in Nat /\ end \in Nat
    BY ContextFields DEF State
  <1>2. \/ r.ok = FALSE /\ r.z = c /\ r.mem = m
        \/ ~ (Room(c.state) <= 0) /\ r.ok = TRUE /\ r.z = d /\ r.mem = o
    BY DEF FragmentEncode, Stopped, Wrote
  <1>3. CASE r.ok = FALSE /\ r.z = c /\ r.mem = m
    <2>1. Stays(c, c) /\ Inside(m, m, end) /\ p <= p
      BY <1>1, SameStays, InsideSame
    <2> HIDE DEF r
    <2> QED BY <1>3, <2>1 DEF r
  <1>4. CASE ~ (Room(c.state) <= 0) /\ r.ok = TRUE /\ r.z = d /\ r.mem = o
    <2>1. n \in Nat /\ p + n <= end
      BY <1>1, <1>4 DEF Least, Room
    <2> HIDE DEF r, n
    <2>2. Forward(c, d, n)
      BY <2>1, AdvancedEffect
    <2> HIDE DEF d
    <2>3. Stays(c, d)
      BY <2>1, <2>2, ForwardStays
    <2>4. p <= d.state.payload
      BY <1>1, <2>1, <2>2 DEF Forward
    <2>5. Data(from, n) \in Seq(Byte) /\ Len(Data(from, n)) = n
      BY <2>1, DataType
    <2>6. Inside(m, o, end)
      BY <1>1, <2>1, <2>5, WriteEffect
    <2> HIDE DEF o
    <2> QED BY <1>4, <2>3, <2>4, <2>6 DEF r
  <1> QED BY <1>2, <1>3, <1>4

(* A fragmented string ends in its frame, a CBOR string closes one, and a  *)
(* string that is not complete does neither.                               *)
LEMMA FragmentsEndEffect ==
    ASSUME NEW c \in Context, NEW m \in Memory
    PROVE  LET r == FragmentsEndEncode(c, m) IN
           /\ r.mem = m
           /\ c.state.inside_frag_str => r.ok \in BOOLEAN /\ Stays(c, r.z)
           /\ ~ c.state.inside_frag_str /\ c.backup_list # << >> =>
                /\ r.ok \in BOOLEAN
                /\ r.ok => Closes(c, r.z)
                /\ ~ r.ok => r.z = c
  <1> DEFINE r == FragmentsEndEncode(c, m)
             kept == ProcessBackup(c, ResumeFlags)
             left == [c EXCEPT !.state.inside_frag_str = FALSE]
             b == Top(c.backup_list)
  <1>1. CASE c.state.inside_frag_str
    <2>1. \/ r.ok = FALSE /\ r.z = c /\ r.mem = m
          \/ r.ok = TRUE /\ r.z = left /\ r.mem = m
      BY <1>1 DEF FragmentsEndEncode, Stopped, Wrote
    <2>2. Stays(c, left)
      BY FragmentFieldsEffect
    <2> HIDE DEF r, left
    <2> QED BY <1>1, <2>1, <2>2, SameStays DEF r
  <1>2. CASE ~ c.state.inside_frag_str /\ c.backup_list # << >>
    <2>1. /\ kept.ok = TRUE /\ Pulled(c, kept.z)
          /\ kept.z.state = [b EXCEPT !.payload = c.state.payload]
      BY <1>2, ResumeEffect
    <2>2. \/ r.ok = FALSE /\ r.z = c /\ r.mem = m
          \/ r.ok = TRUE /\ r.z = Counted(kept.z) /\ r.mem = m
      BY <1>2, <2>1 DEF FragmentsEndEncode, Stopped, Wrote, ResumeFlags
    <2>3. b \in State /\ c.state.payload \in Nat
      <3>1. c.state.payload \in Nat
        BY ContextFields DEF State
      <3> QED BY <1>2, <3>1, ContextFields DEF Top
    <2>4. kept.z.state.payload = c.state.payload /\ kept.z.state.payload_end = b.payload_end
      BY <2>1, <2>3 DEF State
    <2> HIDE DEF kept
    <2>5. Forward(kept.z, Counted(kept.z), 0)
      BY <2>1, CountedEffect DEF Pulled
    <2>6. Closes(c, Counted(kept.z))
      BY <2>1, <2>3, <2>4, <2>5 DEF Forward, Same, Located, Pulled, Closes
    <2> HIDE DEF r, b
    <2> QED BY <1>2, <2>2, <2>6 DEF r
  <1>3. CASE ~ c.state.inside_frag_str /\ c.backup_list = << >>
    <2>1. ProcessBackup(c, ResumeFlags) = Fail(c, "NO_BACKUP_ACTIVE")
      BY <1>3 DEF ProcessBackup
    <2>2. r.mem = m
      BY <1>3, <2>1 DEF FragmentsEndEncode, Stopped, Wrote, Keeping, Fail
    <2> HIDE DEF r
    <2> QED BY <1>3, <2>2 DEF r
  <1> QED BY <1>1, <1>2, <1>3

-----------------------------------------------------------------------------
(* What the shapes keep of the invariant.                                  *)

(* Where the contents of a construct begin is a position.                  *)
LEMMA BodyType ==
    ASSUME NEW b \in State, NEW f \in Frame
    PROVE  Body(b, f) \in Nat
  <1>1. b.payload \in Nat /\ f.hint \in Nat
    BY DEF State, Frame
  <1>2. HeaderLen(f.hint) \in 1 .. 9
    BY <1>1, HeaderLenGrows
  <1> QED BY <1>1, <1>2 DEF Body

(* The types of the backups and frames of a sound session.                 *)
LEMMA SoundTypes ==
    ASSUME NEW c \in Context, NEW fs \in Seq(Frame), Sound(c, fs), NEW i \in 1 .. Len(fs)
    PROVE  /\ i \in 1 .. Len(c.backup_list) /\ i \in DOMAIN fs
           /\ c.backup_list[i] \in State /\ fs[i] \in Frame
           /\ Body(c.backup_list[i], fs[i]) \in Nat
           /\ c.backup_list[i].payload \in Nat /\ c.backup_list[i].payload_end \in Nat
  <1>1. c.backup_list \in Seq(State) /\ Len(fs) \in Nat /\ Len(c.backup_list) \in Nat
    BY ContextFields
  <1>2. i \in 1 .. Len(c.backup_list) /\ i \in DOMAIN fs
    BY <1>1 DEF Sound
  <1>3. c.backup_list[i] \in State /\ fs[i] \in Frame
    BY <1>1, <1>2
  <1> QED BY <1>2, <1>3, BodyType DEF State

(* The lower constructs stay sound as long as their backups are there.     *)
LEMMA SoundBelow ==
    ASSUME NEW c \in Context, NEW d \in Context,
           NEW fs \in Seq(Frame), NEW gs \in Seq(Frame),
           Sound(c, fs), d.section = c.section,
           Len(gs) <= Len(fs), \A i \in 1 .. Len(gs) : gs[i] = fs[i],
           Len(gs) <= Len(d.backup_list),
           \A i \in 1 .. Len(gs) : d.backup_list[i] = c.backup_list[i]
    PROVE  Sound(d, gs)
  <1>1. Len(gs) \in Nat /\ Len(fs) \in Nat /\ Len(d.backup_list) \in Nat
        /\ DOMAIN gs = 1 .. Len(gs) /\ DOMAIN fs = 1 .. Len(fs)
    BY ContextFields
  <1>2. DOMAIN gs \subseteq DOMAIN fs
    BY <1>1
  <1> QED BY <1>1, <1>2 DEF Sound

(* A call that stays in its frame.                                         *)
LEMMA StaysKeeps ==
    ASSUME NEW c \in Context, NEW fs \in Seq(Frame), NEW len \in Nat, NEW d,
           Sound(c, fs), Bounded(c, len), Stays(c, d)
    PROVE  /\ d \in Context /\ Sound(d, fs) /\ Bounded(d, len)
           /\ Live(c, fs) => Live(d, fs)
  <1>1. /\ d \in Context /\ d.backup_list = c.backup_list /\ d.section = c.section
        /\ Grown(c.state, d.state)
    BY DEF Stays, Same
  <1>2. /\ c.state.payload \in Nat /\ c.state.payload_end \in Nat
        /\ d.state.payload \in Nat /\ d.state.payload_end \in Nat
    BY <1>1, ContextFields DEF State
  <1>3. Sound(d, fs)
    BY <1>1 DEF Sound
  <1>4. Bounded(d, len)
    BY <1>1, <1>2 DEF Bounded, Fits, Grown
  <1>5. ASSUME Live(c, fs)
        PROVE  Live(d, fs)
    <2>1. ASSUME NEW i \in 1 .. Len(fs), fs[i].section = c.section
          PROVE  Within(d.state, c.backup_list[i], fs[i])
      <3>1. Within(c.state, c.backup_list[i], fs[i]) /\ Body(c.backup_list[i], fs[i]) \in Nat
        BY <1>5, <2>1, SoundTypes DEF Live
      <3> QED BY <1>1, <1>2, <3>1 DEF Within, Grown
    <2> QED BY <1>1, <1>5, <2>1 DEF Live
  <1> QED BY <1>1, <1>3, <1>4, <1>5

(* A call that failed and left its backup behind.                          *)
LEMMA SavedKeeps ==
    ASSUME NEW c \in Context, NEW fs \in Seq(Frame), NEW len \in Nat, NEW d,
           Sound(c, fs), Bounded(c, len), Saved(c, d)
    PROVE  d \in Context /\ Sound(d, fs) /\ Bounded(d, len)
  <1>1. d \in Context /\ d.section = c.section /\ Together(c.state, d.state)
    BY DEF Saved
  <1>2. PICK b \in State : Together(c.state, b) /\ d.backup_list = Append(c.backup_list, b)
    BY DEF Saved
  <1>3. c.backup_list \in Seq(State) /\ Len(c.backup_list) \in Nat /\ Len(fs) \in Nat
    BY ContextFields
  <1>4. /\ Len(d.backup_list) = Len(c.backup_list) + 1
        /\ \A i \in 1 .. Len(c.backup_list) : d.backup_list[i] = c.backup_list[i]
        /\ d.backup_list[Len(c.backup_list) + 1] = b
    BY <1>2, <1>3
  <1>5. Len(fs) <= Len(c.backup_list)
    BY DEF Sound
  <1>6. Sound(d, fs)
    BY <1>1, <1>3, <1>4, <1>5, SoundBelow
  <1>7. Bounded(d, len)
    <2>1. Fits(d.state, len) /\ Fits(b, len)
      BY <1>1, <1>2 DEF Bounded, Fits, Together, Located
    <2>2. ASSUME NEW i \in 1 .. Len(d.backup_list)
          PROVE  Fits(d.backup_list[i], len)
      <3>1. i \in 1 .. Len(c.backup_list) \/ i = Len(c.backup_list) + 1
        BY <1>3, <1>4
      <3> QED BY <1>4, <2>1, <3>1 DEF Bounded
    <2> QED BY <2>1, <2>2 DEF Bounded
  <1> QED BY <1>1, <1>6, <1>7

(* A call that opened frame g.                                             *)
LEMMA OpensKeeps ==
    ASSUME NEW c \in Context, NEW fs \in Seq(Frame), NEW len \in Nat, NEW d, NEW g \in Frame,
           Sound(c, fs), Bounded(c, len), Live(c, fs), Opens(c, d, g.kind, g.hint),
           g.section = c.section, ~ c.state.inside_frag_str,
           g.kind = "bstr" => g.hint = RemainingStrLen(Room(c.state))
    PROVE  /\ d \in Context
           /\ Sound(d, Append(fs, g)) /\ Bounded(d, len) /\ Live(d, Append(fs, g))
  <1> DEFINE gs == Append(fs, g)
             n == Len(fs)
  <1>1. d \in Context /\ d.section = c.section
    BY DEF Opens
  <1>2. PICK b \in State :
            /\ ~ b.payload_moved /\ Together(c.state, b)
            /\ d.backup_list = Append(c.backup_list, b)
            /\ d.state.payload_end = b.payload_end
            /\ d.state.payload = Body(b, g)
    BY DEF Opens, Body
  <1>3. /\ c.backup_list \in Seq(State) /\ n \in Nat /\ Len(c.backup_list) = n
        /\ c.section \in Nat
    BY ContextFields DEF Live
  <1>4. /\ Len(d.backup_list) = n + 1 /\ Len(gs) = n + 1 /\ gs \in Seq(Frame)
        /\ DOMAIN gs = 1 .. n + 1
        /\ \A i \in 1 .. n : d.backup_list[i] = c.backup_list[i] /\ gs[i] = fs[i]
        /\ d.backup_list[n + 1] = b /\ gs[n + 1] = g
    BY <1>2, <1>3
  <1> HIDE DEF gs
  <1>5. /\ c.state.payload = b.payload /\ c.state.payload_end = b.payload_end
        /\ ~ b.inside_frag_str /\ Room(b) = Room(c.state)
        /\ b.payload \in Nat /\ b.payload_end \in Nat
    BY <1>2 DEF Together, Located, Room, State
  <1>6. b.payload <= Body(b, g) /\ Body(b, g) \in Nat
    <2>1. g.hint \in Nat
      BY DEF Frame
    <2>2. HeaderLen(g.hint) \in 1 .. 9
      BY <2>1, HeaderLenGrows
    <2> QED BY <1>5, <2>2 DEF Body
  <1>7. Within(d.state, b, g)
    BY <1>2, <1>5, <1>6 DEF Within, Opens
  <1>8. ASSUME NEW i \in 1 .. n, fs[i].section = c.section
        PROVE  /\ Within(b, c.backup_list[i], fs[i])
               /\ Within(d.state, c.backup_list[i], fs[i])
    <2> DEFINE e == c.backup_list[i]
               f == fs[i]
    <2>1. Body(e, f) \in Nat /\ Within(c.state, e, f) /\ e.payload_end \in Nat
      BY <1>3, <1>8, SoundTypes DEF Live
    <2> HIDE DEF e, f
    <2>2. Within(b, e, f)
      BY <1>5, <2>1 DEF Within
    <2>3. f.kind # "item" => d.state.payload <= d.state.payload_end
      <3>1. CASE g.kind # "item"
        BY <3>1 DEF Opens
      <3>2. CASE g.kind = "item"
        <4>1. Body(b, g) = b.payload
          BY <1>5, <3>2 DEF Body
        <4> QED BY <1>2, <1>5, <2>2, <4>1 DEF Within
      <3> QED BY <3>1, <3>2
    <2>4. Within(d.state, e, f)
      BY <1>2, <1>5, <1>6, <2>1, <2>2, <2>3 DEF Within
    <2> QED BY <2>2, <2>4 DEF e, f
  <1>9. Sound(d, gs)
    <2>1. ASSUME NEW i \in 1 .. n + 1
          PROVE  FrameSound(d.backup_list[i], gs[i], d.section)
      <3>1. CASE i \in 1 .. n
        <4>1. FrameSound(c.backup_list[i], fs[i], c.section)
          BY <3>1, SoundTypes DEF Sound
        <4> QED BY <1>1, <1>4, <3>1, <4>1
      <3>2. CASE i = n + 1
        <4>1. FrameSound(b, g, c.section)
          BY <1>2, <1>3, <1>5 DEF FrameSound
        <4> QED BY <1>1, <1>4, <3>2, <4>1
      <3> QED BY <1>3, <3>1, <3>2
    <2>2. ASSUME NEW i \in 1 .. n + 1, NEW j \in 1 .. n + 1,
                 i < j, gs[i].section = d.section
          PROVE  Within(d.backup_list[j], d.backup_list[i], gs[i])
      <3>1. i \in 1 .. n
        BY <1>3, <2>2
      <3>2. CASE j \in 1 .. n
        <4>1. Within(c.backup_list[j], c.backup_list[i], fs[i])
          BY <1>1, <1>4, <2>2, <3>1, <3>2, SoundTypes DEF Sound
        <4> QED BY <1>4, <3>1, <3>2, <4>1
      <3>3. CASE j = n + 1
        BY <1>1, <1>4, <1>8, <2>2, <3>1, <3>3
      <3> QED BY <1>3, <3>2, <3>3
    <2> QED BY <1>3, <1>4, <2>1, <2>2 DEF Sound
  <1>10. Live(d, gs)
    <2>1. ASSUME NEW i \in 1 .. n + 1, gs[i].section = d.section
          PROVE  Within(d.state, d.backup_list[i], gs[i])
      <3>1. i \in 1 .. n \/ i = n + 1
        BY <1>3
      <3> QED BY <1>1, <1>4, <1>7, <1>8, <2>1, <3>1
    <2> QED BY <1>4, <2>1 DEF Live
  <1>11. Bounded(d, len)
    <2>1. b.payload <= len /\ b.payload_end <= len
      BY <1>5 DEF Bounded, Fits
    <2>2. d.state.payload <= len
      <3>1. CASE g.kind # "item"
        BY <1>2, <1>5, <1>6, <2>1, <3>1 DEF Opens
      <3>2. CASE g.kind = "item"
        BY <1>2, <1>5, <2>1, <3>2 DEF Body
      <3> QED BY <3>1, <3>2
    <2>3. ASSUME NEW i \in 1 .. n + 1
          PROVE  Fits(d.backup_list[i], len)
      <3>1. i \in 1 .. n \/ i = n + 1
        BY <1>3
      <3> QED BY <1>3, <1>4, <2>1, <3>1 DEF Bounded, Fits
    <2> QED BY <1>2, <1>4, <2>1, <2>2, <2>3 DEF Bounded, Fits
  <1> QED BY <1>1, <1>9, <1>10, <1>11 DEF gs

(* A call that left its frame without ending it.                           *)
LEMMA LeavesKeeps ==
    ASSUME NEW c \in Context, NEW fs \in Seq(Frame), fs # << >>, Sound(c, fs)
    PROVE  Popped(fs) \in Seq(Frame) /\ Sound(c, Popped(fs))
  <1>1. Len(fs) \in Nat /\ Len(fs) >= 1 /\ Len(fs) - 1 \in 0 .. Len(fs)
    OBVIOUS
  <1>2. /\ Popped(fs) \in Seq(Frame) /\ Len(Popped(fs)) = Len(fs) - 1
        /\ \A i \in 1 .. Len(fs) - 1 : Popped(fs)[i] = fs[i]
    BY <1>1, Prefix DEF Popped
  <1>3. Len(Popped(fs)) <= Len(c.backup_list)
    BY <1>1, <1>2, ContextFields DEF Sound
  <1> QED BY <1>1, <1>2, <1>3, SoundBelow

(* A call that closed the innermost frame.                                 *)
LEMMA ClosesKeeps ==
    ASSUME NEW c \in Context, NEW fs \in Seq(Frame), NEW len \in Nat, NEW d, fs # << >>,
           Sound(c, fs), Bounded(c, len), Live(c, fs), Closes(c, d)
    PROVE  /\ d \in Context /\ Popped(fs) \in Seq(Frame)
           /\ Sound(d, Popped(fs)) /\ Bounded(d, len) /\ Live(d, Popped(fs))
  <1> DEFINE n == Len(fs)
             b == c.backup_list[n]
             gs == Popped(fs)
  <1>1. /\ d \in Context /\ d.section = c.section
        /\ d.backup_list = Popped(c.backup_list)
    BY DEF Closes, Pulled
  <1>2. /\ c.backup_list \in Seq(State) /\ n \in Nat /\ n >= 1 /\ Len(c.backup_list) = n
        /\ n - 1 \in 0 .. n
    BY ContextFields DEF Live
  <1>3. /\ gs \in Seq(Frame) /\ Len(gs) = n - 1 /\ DOMAIN gs = 1 .. n - 1
        /\ \A i \in 1 .. n - 1 : gs[i] = fs[i]
    <2>1. gs = SubSeq(fs, 1, n - 1) /\ n - 1 \in 0 .. Len(fs)
      BY <1>2 DEF Popped
    <2>2. n - 1 \in Nat
      BY <1>2
    <2> HIDE DEF n, gs
    <2>3. gs \in Seq(Frame) /\ Len(gs) = n - 1 /\ \A i \in 1 .. n - 1 : gs[i] = fs[i]
      BY <2>1, Prefix
    <2> QED BY <2>2, <2>3
  <1>4. /\ Len(d.backup_list) = n - 1
        /\ \A i \in 1 .. n - 1 : d.backup_list[i] = c.backup_list[i]
    <2>1. d.backup_list = SubSeq(c.backup_list, 1, n - 1)
      BY <1>1, <1>2 DEF Popped
    <2>2. n - 1 \in 0 .. Len(c.backup_list)
      BY <1>2
    <2> HIDE DEF n
    <2> QED BY <1>2, <2>1, <2>2, Prefix
  <1> HIDE DEF gs
  <1>5. /\ b \in State /\ b.payload \in Nat /\ b.payload_end \in Nat
    BY <1>2, SoundTypes
  <1>6. /\ c.state.payload \in Nat /\ c.state.payload_end \in Nat
        /\ d.state.payload \in Nat /\ d.state.payload_end \in Nat
    BY <1>1, ContextFields DEF State
  <1>7. /\ d.state.payload_end = b.payload_end
        /\ \/ d.state.payload = c.state.payload
           \/ Grown(b, d.state)
    BY <1>2 DEF Closes, Top, Grown
  <1>8. Fits(c.state, len) /\ Fits(b, len)
    BY <1>2 DEF Bounded
  <1> HIDE DEF b
  <1>9. Sound(d, gs)
    <2>1. /\ Len(gs) <= n /\ Len(gs) <= Len(d.backup_list)
          /\ \A i \in 1 .. Len(gs) : gs[i] = fs[i] /\ d.backup_list[i] = c.backup_list[i]
      BY <1>2, <1>3, <1>4, SMTT(30)
    <2> QED BY <1>1, <1>3, <2>1, SoundBelow
  <1>10. Live(d, gs)
    <2>1. ASSUME NEW i \in 1 .. n - 1, gs[i].section = d.section
          PROVE  Within(d.state, d.backup_list[i], gs[i])
      <3> DEFINE e == c.backup_list[i]
                 f == fs[i]
      <3>1. i \in 1 .. n /\ n \in 1 .. n /\ i < n /\ f.section = c.section
        BY <1>1, <1>2, <1>3, <2>1
      <3>2. Within(b, e, f) /\ Within(c.state, e, f)
        BY <1>2, <3>1, SoundTypes DEF Sound, Live, b
      <3>3. Body(e, f) \in Nat
        BY <3>1, SoundTypes
      <3> HIDE DEF e, f
      <3>4. Within(d.state, e, f)
        BY <1>5, <1>6, <1>7, <3>2, <3>3 DEF Within, Grown
      <3> QED BY <1>3, <1>4, <3>4 DEF e, f
    <2> QED BY <1>3, <1>4, <2>1 DEF Live
  <1>11. Bounded(d, len)
    <2>1. Fits(d.state, len)
      BY <1>5, <1>6, <1>7, <1>8 DEF Fits, Grown
    <2>2. \A i \in 1 .. n - 1 : Fits(d.backup_list[i], len)
      BY <1>2, <1>4 DEF Bounded
    <2> QED BY <1>4, <2>1, <2>2 DEF Bounded
  <1> QED BY <1>1, <1>3, <1>9, <1>10, <1>11 DEF gs

(* A failed item: the session is back at the item's backup.                *)
LEMMA ItemFailedKeeps ==
    ASSUME NEW c \in Context, NEW fs \in Seq(Frame), NEW len \in Nat,
           NEW n \in 1 .. Len(fs), fs[n].kind = "item",
           Sound(c, fs), Bounded(c, len)
    PROVE  LET d == ProcessBackup(DropTo(c, n), {"RESTORE", "CONSUME"}).z
               gs == SubSeq(fs, 1, n - 1) IN
           /\ d \in Context /\ gs \in Seq(Frame)
           /\ Sound(d, gs) /\ Bounded(d, len) /\ Live(d, gs)
  <1> DEFINE e == DropTo(c, n)
             q == ProcessBackup(e, {"RESTORE", "CONSUME"})
             d == q.z
             gs == SubSeq(fs, 1, n - 1)
             b == c.backup_list[n]
  <1>1. /\ c.backup_list \in Seq(State) /\ Len(c.backup_list) \in Nat /\ Len(fs) \in Nat
        /\ Len(fs) <= Len(c.backup_list) /\ n \in Nat /\ c.section \in Nat
        /\ n \in 0 .. Len(c.backup_list) /\ n - 1 \in 0 .. Len(fs)
        /\ n \in 1 .. Len(c.backup_list)
    BY ContextFields DEF Sound
  <1>2. /\ e \in Context /\ e.section = c.section /\ e.base = c.base
        /\ Len(e.backup_list) = n
        /\ \A i \in 1 .. n : e.backup_list[i] = c.backup_list[i]
    BY <1>1, DropToEffect, Prefix
  <1>3. fs[n].section = c.section /\ ~ b.payload_moved /\ b \in State
    BY SoundTypes DEF Sound, FrameSound
  <1> HIDE DEF e
  <1>4. e.backup_list # << >> /\ Top(e.backup_list) = b
    BY <1>1, <1>2 DEF Top
  <1>5. q.ok = TRUE /\ Pulled(e, q.z) /\ q.z.state = b
    BY <1>2, <1>3, <1>4, RollBackEffect
  <1> HIDE DEF q
  <1>6. /\ d \in Context /\ d.section = c.section /\ d.state = b
        /\ d.backup_list = Popped(e.backup_list)
    BY <1>2, <1>5 DEF Pulled
  <1>7. /\ Len(d.backup_list) = n - 1
        /\ \A i \in 1 .. n - 1 : d.backup_list[i] = c.backup_list[i]
    <2>1. e.backup_list \in Seq(State) /\ n - 1 \in 0 .. Len(e.backup_list)
      BY <1>1, <1>2, ContextFields
    <2>2. /\ Len(d.backup_list) = n - 1
          /\ \A i \in 1 .. n - 1 : d.backup_list[i] = e.backup_list[i]
      BY <1>2, <1>6, <2>1, Prefix DEF Popped
    <2> QED BY <1>1, <1>2, <2>2
  <1>8. /\ gs \in Seq(Frame) /\ Len(gs) = n - 1 /\ DOMAIN gs = 1 .. n - 1
        /\ \A i \in 1 .. n - 1 : gs[i] = fs[i]
    BY <1>1, Prefix
  <1> HIDE DEF gs, d
  <1>9. Sound(d, gs)
    <2>1. n - 1 \in Nat /\ n - 1 <= Len(fs) /\ Len(gs) = Len(d.backup_list)
      BY <1>1, <1>7, <1>8
    <2>2. \A i \in 1 .. Len(gs) : gs[i] = fs[i]
      BY <1>8
    <2>3. \A i \in 1 .. Len(gs) : d.backup_list[i] = c.backup_list[i]
      BY <1>7, <1>8
    <2>4. Len(gs) <= Len(fs) /\ Len(gs) <= Len(d.backup_list)
      BY <1>8, <2>1
    <2>5. d \in Context /\ d.section = c.section /\ gs \in Seq(Frame)
      BY <1>6, <1>8
    <2> QED BY <2>2, <2>3, <2>4, <2>5, SoundBelow
  <1>10. Live(d, gs)
    <2>1. ASSUME NEW i \in 1 .. n - 1, gs[i].section = d.section
          PROVE  Within(d.state, d.backup_list[i], gs[i])
      <3>1. i \in 1 .. Len(fs) /\ i < n /\ fs[i].section = c.section
        BY <1>1, <1>6, <1>8, <2>1
      <3>2. Within(b, c.backup_list[i], fs[i])
        BY <3>1, SoundTypes DEF Sound
      <3> QED BY <1>6, <1>7, <1>8, <3>2
    <2> QED BY <1>7, <1>8, <2>1 DEF Live
  <1>11. Bounded(d, len)
    <2>1. Fits(b, len)
      BY <1>1 DEF Bounded
    <2>2. \A i \in 1 .. n - 1 : Fits(d.backup_list[i], len)
      BY <1>1, <1>7 DEF Bounded
    <2> QED BY <1>6, <1>7, <2>1, <2>2 DEF Bounded
  <1> QED BY <1>6, <1>8, <1>9, <1>10, <1>11 DEF d, gs, q, e

(* A state that enters a section of len bytes does not point beyond it.    *)
LEMMA EnterSectionFits ==
    ASSUME NEW s \in State, NEW len \in Nat, NEW prev_len \in Nat
    PROVE  Fits(EnterSection(s, len, prev_len), len)
  <1> DEFINE left == s.str_total_len_cbor - (s.frag_offset_cbor + prev_len)
             t == EnterSection(s, len, prev_len)
  <1>1. t.payload = 0
        /\ (t.payload_end = len \/ t.payload_end = ClampToString(len, left))
    BY DEF EnterSection, State
  <1>2. ClampToString(len, left) <= len
    BY DEF ClampToString
  <1> QED BY <1>1, <1>2 DEF Fits

(* A section is fed: every backup is marked, and none points beyond it.    *)
LEMMA FeedKeeps ==
    ASSUME NEW c \in Context, NEW fs \in Seq(Frame), NEW len \in Nat,
           \A i \in DOMAIN fs : fs[i].kind \notin {"item", "bstr"},
           Sound(c, fs), Live(c, fs)
    PROVE  LET d == UpdateState(c, len) IN
           /\ d \in Context /\ Sound(d, fs) /\ Bounded(d, len) /\ Live(d, fs)
  <1> DEFINE d == UpdateState(c, len)
             n == Len(fs)
             prev_len == c.state.payload
  <1>1. /\ c.state \in State /\ c.backup_list \in Seq(State)
        /\ n \in Nat /\ Len(c.backup_list) = n /\ DOMAIN fs = 1 .. n
        /\ c.section \in Nat
    BY ContextFields DEF Live
  <1>2. prev_len \in Nat
    BY <1>1 DEF State
  <1>3. /\ d \in Context /\ d.section = c.section + 1 /\ Len(d.backup_list) = n
        /\ \A i \in 1 .. n :
            Kept(d.backup_list[i]) = Kept(c.backup_list[i]) /\ d.backup_list[i].payload_moved
    BY <1>1, UpdateStateEffect
  <1>4. Bounded(d, len)
    <2>1. d.state = EnterSection(c.state, len, prev_len)
      BY DEF UpdateState
    <2>2. ASSUME NEW i \in 1 .. n
          PROVE  Fits(d.backup_list[i], len)
      <3> DEFINE t == EnterSection(c.backup_list[i], len, prev_len)
      <3>1. d.backup_list[i] = [t EXCEPT !.payload_moved = TRUE]
        BY <1>1 DEF UpdateState
      <3>2. c.backup_list[i] \in State
        BY <1>1
      <3>3. t \in State /\ Fits(t, len)
        BY <1>2, <3>2, EnterSectionEffect, EnterSectionFits
      <3> HIDE DEF t
      <3> QED BY <3>1, <3>3 DEF Fits, State
    <2> HIDE DEF prev_len
    <2> QED BY <1>1, <1>2, <1>3, <2>1, <2>2, EnterSectionFits DEF Bounded
  <1> HIDE DEF d
  <1>5. ASSUME NEW i \in 1 .. n
        PROVE  FrameSound(d.backup_list[i], fs[i], d.section) /\ fs[i].section < d.section
    <2> DEFINE b == c.backup_list[i]
               e == d.backup_list[i]
               f == fs[i]
    <2>1. FrameSound(b, f, c.section) /\ f \in Frame
      BY SoundTypes DEF Sound
    <2>2. Kept(e) = Kept(b) /\ e.payload_moved
      BY <1>3
    <2>3. f.kind \notin {"item", "bstr"}
      BY <1>1
    <2> HIDE DEF b, e, f
    <2>4. e.inside_frag_str = b.inside_frag_str
      BY <2>2 DEF Kept
    <2>5. f.section \in Nat /\ f.section <= c.section
      BY <2>1 DEF FrameSound, Frame
    <2>6. f.section < d.section /\ f.section <= d.section /\ f.section # d.section
      BY <1>1, <1>3, <2>5
    <2>7. FrameSound(e, f, d.section)
      BY <2>1, <2>2, <2>3, <2>4, <2>6 DEF FrameSound
    <2> QED BY <2>6, <2>7 DEF e, f
  <1>6. \A i \in 1 .. n : fs[i].section # d.section
    <2>1. ASSUME NEW i \in 1 .. n PROVE fs[i].section # d.section
      <3>1. fs[i].section < d.section /\ d.section \in Nat
        BY <1>1, <1>3, <1>5
      <3>2. fs[i].section \in Nat
        BY SoundTypes DEF Frame
      <3> QED BY <3>1, <3>2
    <2> QED BY <2>1
  <1> QED BY <1>1, <1>3, <1>4, <1>5, <1>6 DEF Sound, Live, d

-----------------------------------------------------------------------------
(* The invariant is inductive.                                             *)

(* What IInv says of the frame that a call is about to end.                *)
LEMMA InnermostFrame ==
    ASSUME IInv, mode = "run", frames # << >>
    PROVE  LET b == Top(z.backup_list)
               f == Top(frames) IN
           /\ z.backup_list # << >> /\ b \in State /\ f \in Frame
           /\ b.payload_end \in Nat /\ b.payload_end <= room
           /\ FrameSound(b, f, z.section)
           /\ f.section = z.section => Within(z.state, b, f)
           /\ f.section \in Nat /\ z.section \in Nat
  <1> DEFINE n == Len(frames)
  <1>1. z \in Context /\ frames \in Seq(Frame) /\ Sound(z, frames) /\ Live(z, frames)
        /\ Bounded(z, room)
    BY DEF IInv, TypeOK
  <1>2. n \in Nat /\ n \in 1 .. n /\ Len(z.backup_list) = n
    BY <1>1 DEF Live
  <1>3. /\ n \in DOMAIN frames /\ frames[n] \in Frame /\ z.backup_list[n] \in State
        /\ z.backup_list[n].payload_end \in Nat
    BY <1>1, <1>2, SoundTypes
  <1>4. /\ FrameSound(z.backup_list[n], frames[n], z.section)
        /\ frames[n].section = z.section => Within(z.state, z.backup_list[n], frames[n])
        /\ z.backup_list[n].payload_end <= room
    BY <1>1, <1>2, <1>3 DEF Sound, Live, Bounded, Fits
  <1>5. z.backup_list # << >>
    BY <1>2
  <1>6. frames[n].section \in Nat /\ z.section \in Nat
    BY <1>1, <1>3 DEF Frame, Context
  <1> QED BY <1>2, <1>3, <1>4, <1>5, <1>6 DEF Top

(* A step that leaves the section in place.                                *)
LEMMA InvariantAfter ==
    ASSUME IInv, NEW end \in Nat, end <= room, Inside(mem, mem', end),
           room' = room, sent' = sent,
           z' \in Context, frames' \in Seq(Frame), fed' \in Nat,
           mode' \in {"run", "failing"},
           Sound(z', frames'), Bounded(z', room), mode' = "run" => Live(z', frames')
    PROVE  IInv'
  <1>1. TypeOK'
    BY DEF IInv, TypeOK, Inside, Memory
  <1>2. NothingPastEnd'
    <2>1. ASSUME NEW i \in Offsets, i >= room
          PROVE  mem'[i] = Unwritten
      <3>1. i \in Int /\ room \in Int
        BY EncodeInputsAssumption DEF Offsets, IInv, TypeOK
      <3>2. i >= end
        BY <2>1, <3>1
      <3> QED BY <2>1, <3>2 DEF Inside, IInv, NothingPastEnd
    <2> QED BY <2>1 DEF NothingPastEnd
  <1> QED BY <1>1, <1>2 DEF IInv

(* The ends of the live state and of its backups are within the section.   *)
LEMMA LiveEnd ==
    ASSUME IInv
    PROVE  /\ z.state.payload_end \in Nat /\ z.state.payload_end <= room
           /\ z.state.payload \in Nat /\ z.state.payload <= room
           /\ room \in Nat /\ room <= MaxRoom
           /\ z \in Context /\ mem \in Memory /\ frames \in Seq(Frame)
           /\ Sound(z, frames) /\ Bounded(z, room)
           /\ mode = "run" => Live(z, frames)
  BY EncodeInputsAssumption, ContextFields DEF IInv, TypeOK, Bounded, Fits, State, Memory

(* A call that stays in its frame, whether it fails or not.                *)
LEMMA CallKeeps ==
    ASSUME IInv, Running, NEW r, r.ok \in BOOLEAN, Stays(z, r.z),
           Inside(mem, r.mem, z.state.payload_end),
           Did(r), frames' = frames, fed' \in Nat
    PROVE  IInv'
  <1>1. mode = "run" /\ z' = r.z /\ mem' = r.mem /\ room' = room /\ sent' = sent
        /\ mode' \in {"run", "failing"}
    BY DEF Running, Did
  <1>2. /\ z' \in Context /\ Sound(z', frames) /\ Bounded(z', room) /\ Live(z', frames)
    BY <1>1, LiveEnd, StaysKeeps
  <1> QED BY <1>1, <1>2, LiveEnd, InvariantAfter

(* A call that opens a frame, or fails.                                    *)
LEMMA OpenKeeps ==
    ASSUME IInv, BetweenItems,
           NEW kind \in Containers \cup {"bstr", "cborfrag", "item"}, NEW hint,
           NEW r, r.ok \in BOOLEAN,
           r.ok => hint \in Nat /\ Opens(z, r.z, kind, hint),
           ~ r.ok => Stays(z, r.z) \/ Saved(z, r.z),
           kind = "bstr" => hint = RemainingStrLen(Room(z.state)),
           Inside(mem, r.mem, z.state.payload_end),
           OpenFrame(kind, hint, r)
    PROVE  IInv'
  <1>1. /\ mode = "run" /\ ~ z.state.inside_frag_str
        /\ z' = r.z /\ mem' = r.mem /\ room' = room /\ sent' = sent /\ fed' = fed
        /\ mode' = (IF r.ok THEN "run" ELSE "failing")
        /\ frames' = IF r.ok THEN Append(frames, FrameOf(kind, hint)) ELSE frames
    BY DEF BetweenItems, Running, OpenFrame, Did
  <1>2. fed' \in Nat
    BY <1>1 DEF IInv, TypeOK
  <1>3. CASE r.ok
    <2> DEFINE g == FrameOf(kind, hint)
    <2>1. Position \in Nat /\ z.section \in Nat
      BY LiveEnd, ContextFields DEF Position
    <2>2. g \in Frame
      BY <1>3, <2>1 DEF FrameOf, Frame
    <2>3. g.kind = kind /\ g.hint = hint /\ g.section = z.section
      BY DEF FrameOf
    <2> HIDE DEF g
    <2>4. /\ z' \in Context
          /\ Sound(z', Append(frames, g)) /\ Bounded(z', room) /\ Live(z', Append(frames, g))
      BY <1>1, <1>3, <2>2, <2>3, LiveEnd, OpensKeeps
    <2>5. frames' = Append(frames, g) /\ frames' \in Seq(Frame)
      BY <1>1, <1>3, <2>2, LiveEnd DEF g
    <2> QED BY <1>1, <1>2, <1>3, <2>4, <2>5, LiveEnd, InvariantAfter
  <1>4. CASE ~ r.ok
    <2>1. z' \in Context /\ Sound(z', frames) /\ Bounded(z', room)
      BY <1>1, <1>4, LiveEnd, StaysKeeps, SavedKeeps
    <2> QED BY <1>1, <1>2, <1>4, <2>1, LiveEnd, InvariantAfter
  <1> QED BY <1>3, <1>4

(* A call that closes the innermost frame, or fails.                       *)
LEMMA CloseKeeps ==
    ASSUME IInv, BetweenItems, frames # << >>, NEW r, r.ok \in BOOLEAN,
           r.ok => Closes(z, r.z),
           ~ r.ok => r.z = z \/ Closes(z, r.z),
           NEW end \in Nat, end <= room, Inside(mem, r.mem, end),
           CloseFrame(r)
    PROVE  IInv'
  <1>1. /\ mode = "run"
        /\ z' = r.z /\ mem' = r.mem /\ room' = room /\ sent' = sent /\ fed' = fed
        /\ mode' = (IF r.ok THEN "run" ELSE "failing")
        /\ frames' = Popped(frames)
    BY DEF BetweenItems, Running, CloseFrame, Did
  <1>2. fed' \in Nat
    BY <1>1 DEF IInv, TypeOK
  <1>3. CASE Closes(z, r.z)
    <2>1. /\ z' \in Context /\ Popped(frames) \in Seq(Frame)
          /\ Sound(z', Popped(frames)) /\ Bounded(z', room) /\ Live(z', Popped(frames))
      BY <1>1, <1>3, LiveEnd, ClosesKeeps
    <2> QED BY <1>1, <1>2, <2>1, InvariantAfter
  <1>4. CASE ~ r.ok /\ r.z = z
    <2>1. Popped(frames) \in Seq(Frame) /\ Sound(z, Popped(frames))
      BY LiveEnd, LeavesKeeps
    <2> QED BY <1>1, <1>2, <1>4, <2>1, LiveEnd, InvariantAfter
  <1> QED BY <1>3, <1>4

(* Values, tags and strings.                                               *)
LEMMA ValuesKeep ==
    ASSUME IInv, EncodeValue \/ EncodeTag \/ EncodeString
    PROVE  IInv'
  <1>1. /\ z \in Context /\ mem \in Memory /\ z.state.payload_end \in Nat
        /\ z.state.payload \in Nat
    BY LiveEnd
  <1>2. fed \in Nat
    BY DEF IInv, TypeOK
  <1>3. CASE EncodeValue
    <2>1. PICK n \in ValueLens : Call(ValueEncodeLen(z, mem, "value", n, n)) /\ Running
      BY <1>3 DEF EncodeValue
    <2> DEFINE r == ValueEncodeLen(z, mem, "value", n, n)
    <2>2. n \in Nat /\ "value" \in Kinds
      BY EncodeInputsAssumption DEF Kinds
    <2>3. /\ r.ok \in BOOLEAN
          /\ r.ok => /\ z.state.payload + n <= z.state.payload_end
                     /\ Forward(z, r.z, n) /\ Inside(mem, r.mem, z.state.payload + n)
          /\ ~ r.ok => r.z = z /\ r.mem = mem
      BY <1>1, <2>2, ValueEncodeLenEffect
    <2>4. Call(r)
      BY <2>1
    <2> HIDE DEF r
    <2>5. Stays(z, r.z) /\ Inside(mem, r.mem, z.state.payload_end)
      <3>1. CASE r.ok
        BY <1>1, <2>2, <2>3, <3>1, ForwardStays DEF Inside, Offsets
      <3>2. CASE ~ r.ok
        BY <1>1, <2>3, <3>2, SameStays, InsideSame
      <3> QED BY <2>3, <3>1, <3>2
    <2> QED BY <1>2, <2>1, <2>3, <2>4, <2>5, CallKeeps DEF Call
  <1>4. CASE EncodeTag
    <2>1. PICK n \in ValueLens : Call(TagEncode(z, mem, n, n)) /\ Running
      BY <1>4 DEF EncodeTag, BetweenItems
    <2> DEFINE r == TagEncode(z, mem, n, n)
    <2>2. n \in Nat
      BY EncodeInputsAssumption
    <2>3. /\ r.ok \in BOOLEAN
          /\ r.ok => /\ z.state.payload + n <= z.state.payload_end
                     /\ Forward(z, r.z, n) /\ Inside(mem, r.mem, z.state.payload + n)
          /\ ~ r.ok => r.z = z /\ r.mem = mem
      BY <1>1, <2>2, TagEncodeEffect
    <2>4. Call(r)
      BY <2>1
    <2> HIDE DEF r
    <2>5. Stays(z, r.z) /\ Inside(mem, r.mem, z.state.payload_end)
      <3>1. CASE r.ok
        BY <1>1, <2>2, <2>3, <3>1, ForwardStays DEF Inside, Offsets
      <3>2. CASE ~ r.ok
        BY <1>1, <2>3, <3>2, SameStays, InsideSame
      <3> QED BY <2>3, <3>1, <3>2
    <2> QED BY <1>2, <2>1, <2>3, <2>4, <2>5, CallKeeps DEF Call
  <1>5. CASE EncodeString
    <2>1. PICK n \in StringLens : Call(StrEncode(z, mem, "tstr", n, Elsewhere)) /\ Running
      BY <1>5 DEF EncodeString, BetweenItems
    <2> DEFINE r == StrEncode(z, mem, "tstr", n, Elsewhere)
    <2>2. n \in Nat /\ "tstr" \in Kinds
      BY EncodeInputsAssumption DEF Kinds
    <2>3. /\ r.ok \in BOOLEAN
          /\ Stays(z, r.z)
          /\ Inside(mem, r.mem, z.state.payload_end)
      BY <1>1, <2>2, StrEncodeEffect
    <2>4. Call(r)
      BY <2>1
    <2> HIDE DEF r
    <2> QED BY <1>2, <2>1, <2>3, <2>4, CallKeeps DEF Call
  <1> QED BY <1>3, <1>4, <1>5

(* The start of a container, a byte string, a CBOR string or an item.      *)
LEMMA StartsKeep ==
    ASSUME IInv,
           \/ \E kind \in Containers : StartContainer(kind)
           \/ StartBstr \/ StartCborFragments \/ StartItem
    PROVE  IInv'
  <1>1. /\ z \in Context /\ mem \in Memory /\ z.state.payload_end \in Nat
    BY LiveEnd
  <1>2. ASSUME NEW kind \in Containers, StartContainer(kind)
        PROVE  IInv'
    <2>1. PICK n \in Hints : OpenFrame(kind, n, ListMapStartEncode(z, mem, kind, n))
      BY <1>2 DEF StartContainer
    <2> DEFINE r == ListMapStartEncode(z, mem, kind, n)
    <2>2. n \in Nat /\ BetweenItems /\ kind # "bstr"
      BY <1>2, EncodeInputsAssumption DEF StartContainer, Containers
    <2>3. /\ r.ok \in BOOLEAN
          /\ r.ok => Opens(z, r.z, kind, n)
          /\ ~ r.ok => r.z = z \/ Saved(z, r.z)
          /\ Inside(mem, r.mem, z.state.payload_end)
      BY <1>1, <2>2, ListMapStartEffect
    <2>4. OpenFrame(kind, n, r)
      BY <2>1
    <2> HIDE DEF r
    <2>5. Stays(z, z)
      BY <1>1, SameStays
    <2> QED BY <2>2, <2>3, <2>4, <2>5, OpenKeeps
  <1>3. CASE StartBstr
    <2> DEFINE r == BstrStartEncode(z, mem)
               hint == RemainingStrLen(Room(z.state))
    <2>1. BetweenItems /\ OpenFrame("bstr", hint, r)
      BY <1>3 DEF StartBstr
    <2>2. /\ r.ok \in BOOLEAN
          /\ r.ok => hint \in Nat /\ Opens(z, r.z, "bstr", hint)
          /\ ~ r.ok => Stays(z, r.z)
          /\ Inside(mem, r.mem, z.state.payload_end)
      BY <1>1, BstrStartEffect
    <2> HIDE DEF r
    <2>3. hint = RemainingStrLen(Room(z.state))
      OBVIOUS
    <2> HIDE DEF hint
    <2> QED BY <2>1, <2>2, <2>3, OpenKeeps
  <1>4. CASE StartCborFragments
    <2>1. PICK n \in StringLens :
            OpenFrame("cborfrag", n, FragmentsStartEncode(z, mem, "bstr", n, TRUE))
      BY <1>4 DEF StartCborFragments
    <2> DEFINE r == FragmentsStartEncode(z, mem, "bstr", n, TRUE)
    <2>2. n \in Nat /\ BetweenItems
      BY <1>4, EncodeInputsAssumption DEF StartCborFragments
    <2>3. /\ r.ok \in BOOLEAN
          /\ r.ok => Opens(z, r.z, "cborfrag", n)
          /\ ~ r.ok => Stays(z, r.z)
          /\ Inside(mem, r.mem, z.state.payload_end)
      BY <1>1, <2>2, CborFragmentsStartEffect
    <2>4. OpenFrame("cborfrag", n, r)
      BY <2>1
    <2> HIDE DEF r
    <2> QED BY <2>2, <2>3, <2>4, OpenKeeps
  <1>5. CASE StartItem
    <2> DEFINE b == NewBackup(z, z.state.elem_count)
               r == Keeping(b, mem)
    <2>1. BetweenItems /\ OpenFrame("item", 0, r)
      BY <1>5 DEF StartItem
    <2>2. z.state.elem_count \in 0 .. MaxElemCount
      BY <1>1, ContextFields DEF State
    <2>3. /\ b.ok \in BOOLEAN
          /\ b.ok => Saved(z, b.z)
          /\ ~ b.ok => b.z = z
      BY <1>1, <2>2, BackupEffect
    <2>4. r.ok = b.ok /\ r.z = b.z /\ r.mem = mem
      BY DEF Keeping
    <2> HIDE DEF r, b
    <2>5. r.ok => Opens(z, r.z, "item", 0)
      <3> SUFFICES ASSUME r.ok PROVE Opens(z, r.z, "item", 0)
        OBVIOUS
      <3>1. Saved(z, r.z)
        BY <2>3, <2>4
      <3>2. PICK s \in State :
                /\ ~ s.payload_moved /\ Together(z.state, s)
                /\ r.z.backup_list = Append(z.backup_list, s)
        BY <3>1 DEF Saved
      <3>3. s.payload \in Nat /\ s.payload = s.payload + 0
        BY DEF State
      <3>4. r.z.state.payload_end = s.payload_end /\ r.z.state.payload = s.payload
        BY <3>1, <3>2 DEF Saved, Together, Located
      <3> QED BY <3>1, <3>2, <3>3, <3>4 DEF Saved, Opens
    <2>6. Stays(z, z) /\ Inside(mem, mem, z.state.payload_end)
      BY <1>1, SameStays, InsideSame
    <2> QED BY <2>1, <2>3, <2>4, <2>5, <2>6, OpenKeeps
  <1> QED BY <1>2, <1>3, <1>4, <1>5

(* Whether the end of a container succeeds, and what it does; f is its     *)
(* frame.                                                                  *)
LEMMA EndContainerEffect ==
    ASSUME IInv, EndContainer
    PROVE  LET f == Top(frames)
               r == ListMapEndEncode(z, mem, f.kind, f.hint)
               end == Top(z.backup_list).payload_end IN
           /\ BetweenItems /\ frames # << >> /\ CloseFrame(r)
           /\ r.ok \in BOOLEAN
           /\ r.ok => Closes(z, r.z)
           /\ ~ r.ok => r.z = z \/ Closes(z, r.z)
           /\ end \in Nat /\ end <= room /\ Inside(mem, r.mem, end)
           /\ f.hint = ListCount(z, f.kind) => r.ok
           /\ ListCount(z, f.kind) <= f.hint /\ f.section >= z.section => r.ok
  <1> DEFINE f == Top(frames)
             b == Top(z.backup_list)
             r == ListMapEndEncode(z, mem, f.kind, f.hint)
  <1>1. BetweenItems /\ mode = "run" /\ frames # << >> /\ f.kind \in Containers
        /\ CloseFrame(r)
    BY DEF EndContainer, BetweenItems, Running, InFrame
  <1>2. /\ z.backup_list # << >> /\ b \in State /\ f \in Frame
        /\ b.payload_end \in Nat /\ b.payload_end <= room
        /\ FrameSound(b, f, z.section)
        /\ f.section = z.section => Within(z.state, b, f)
        /\ f.section \in Nat /\ z.section \in Nat
    BY <1>1, InnermostFrame
  <1>3. z \in Context /\ mem \in Memory /\ room \in Nat /\ room <= MaxRoom
    BY LiveEnd
  <1> HIDE DEF b, f
  <1>4. f.hint \in Nat /\ f.kind # "item" /\ b.payload_end <= MaxRoom
    BY <1>1, <1>2, <1>3, EncodeInputsAssumption DEF Frame, Containers
  <1>5. ~ b.payload_moved =>
            /\ b.payload + HeaderLen(f.hint) <= z.state.payload
            /\ z.state.payload <= b.payload_end
    BY <1>2, <1>4 DEF FrameSound, Within, Body
  <1>6. ~ b.inside_frag_str /\ (f.section >= z.section => ~ b.payload_moved)
    BY <1>2 DEF FrameSound
  <1>7. /\ r.ok \in BOOLEAN
        /\ r.ok => Closes(z, r.z)
        /\ ~ r.ok => r.z = z \/ Closes(z, r.z)
        /\ Inside(mem, r.mem, b.payload_end)
        /\ f.hint = ListCount(z, f.kind) => r.ok
        /\ ListCount(z, f.kind) <= f.hint /\ ~ b.payload_moved => r.ok
    <2>1. b = Top(z.backup_list)
      BY DEF b
    <2> HIDE DEF r
    <2> QED BY <1>1, <1>2, <1>3, <1>4, <1>5, <1>6, <2>1, ListMapEndEffect DEF r
  <1> HIDE DEF r
  <1> QED BY <1>1, <1>2, <1>6, <1>7 DEF r, f, b

(* The end of a container, a byte string, a CBOR string or an item.        *)
LEMMA EndsKeep ==
    ASSUME IInv,
           \/ EndContainer \/ AbandonContainer
           \/ EndBstr \/ EndCborFragments \/ EndItem
    PROVE  IInv'
  <1> DEFINE b == Top(z.backup_list)
             f == Top(frames)
             end == b.payload_end
  <1>1. BetweenItems /\ mode = "run" /\ ~ z.state.inside_frag_str /\ frames # << >>
    BY DEF EndContainer, AbandonContainer, EndBstr, EndCborFragments, EndItem,
           BetweenItems, Running, InFrame
  <1>2. /\ z.backup_list # << >> /\ b \in State /\ f \in Frame
        /\ end \in Nat /\ end <= room
        /\ FrameSound(b, f, z.section)
        /\ f.section = z.section => Within(z.state, b, f)
    BY <1>1, InnermostFrame
  <1>3. z \in Context /\ mem \in Memory /\ room \in Nat /\ room <= MaxRoom
    BY LiveEnd
  <1>4. Inside(mem, mem, end)
    BY <1>3, InsideSame
  <1>5. CASE EndContainer
    <2> DEFINE r == ListMapEndEncode(z, mem, f.kind, f.hint)
    <2>1. /\ r.ok \in BOOLEAN /\ CloseFrame(r)
          /\ r.ok => Closes(z, r.z)
          /\ ~ r.ok => r.z = z \/ Closes(z, r.z)
          /\ Inside(mem, r.mem, end)
      BY <1>5, EndContainerEffect
    <2> HIDE DEF r, end
    <2> QED BY <1>1, <1>2, <2>1, CloseKeeps
  <1>6. CASE AbandonContainer
    <2> DEFINE r == ListMapEndForceEncode(z, mem)
    <2>1. CloseFrame(r)
      BY <1>6 DEF AbandonContainer
    <2>2. /\ r.ok \in BOOLEAN
          /\ r.ok => Closes(z, r.z)
          /\ ~ r.ok => r.z = z
          /\ r.mem = mem
      BY <1>2, <1>3, ForceEndEffect
    <2> HIDE DEF r, end
    <2> QED BY <1>1, <1>2, <1>4, <2>1, <2>2, CloseKeeps
  <1>7. CASE EndBstr
    <2> DEFINE r == BstrEndEncode(z, mem)
    <2>1. CloseFrame(r) /\ f.kind = "bstr"
      BY <1>7 DEF EndBstr, InFrame
    <2>2. /\ f.section = z.section /\ f.hint = RemainingStrLen(Room(b))
          /\ b.payload + HeaderLen(f.hint) <= z.state.payload
          /\ z.state.payload <= end
      <3> HIDE DEF b, f
      <3> QED BY <1>2, <2>1 DEF FrameSound, Within, Body
    <2>3. end <= MaxRoom
      <3> HIDE DEF end
      <3> QED BY <1>2, <1>3, EncodeInputsAssumption
    <2>4. /\ r.ok \in BOOLEAN
          /\ r.ok => Closes(z, r.z)
          /\ ~ r.ok => r.z = z \/ Closes(z, r.z)
          /\ Inside(mem, r.mem, end)
      <3>1. b = Top(z.backup_list)
        OBVIOUS
      <3> HIDE DEF b, r, f
      <3> QED BY <1>2, <1>3, <2>2, <2>3, <3>1, BstrEndEffect DEF r
    <2> HIDE DEF r, end
    <2> QED BY <1>1, <1>2, <2>1, <2>4, CloseKeeps
  <1>8. CASE EndCborFragments
    <2> DEFINE r == FragmentsEndEncode(z, mem)
    <2>1. CloseFrame(r)
      BY <1>8 DEF EndCborFragments
    <2>2. /\ r.mem = mem /\ r.ok \in BOOLEAN
          /\ r.ok => Closes(z, r.z)
          /\ ~ r.ok => r.z = z
      BY <1>1, <1>2, <1>3, FragmentsEndEffect
    <2> HIDE DEF r, end
    <2> QED BY <1>1, <1>2, <1>4, <2>1, <2>2, CloseKeeps
  <1>9. CASE EndItem
    <2> DEFINE q == ProcessBackup(z, {"CONSUME"})
               r == Keeping(q, mem)
    <2>1. CloseFrame(r) /\ f.kind = "item"
      BY <1>9 DEF EndItem, InFrame
    <2>2. q.ok = TRUE /\ Pulled(z, q.z) /\ q.z.state = z.state
      BY <1>2, <1>3, ConsumeEffect
    <2>3. r.ok = q.ok /\ r.z = q.z /\ r.mem = mem
      BY DEF Keeping
    <2> HIDE DEF q, r
    <2>4. z.state.payload_end = b.payload_end
      <3> HIDE DEF b, f
      <3> QED BY <1>2, <2>1 DEF FrameSound, Within
    <2>5. Closes(z, r.z)
      BY <2>2, <2>3, <2>4 DEF Closes
    <2>6. /\ r.ok \in BOOLEAN /\ r.ok = TRUE
          /\ Inside(mem, r.mem, end)
      BY <1>4, <2>2, <2>3
    <2> HIDE DEF end
    <2> QED BY <1>1, <1>2, <2>1, <2>5, <2>6, CloseKeeps
  <1> QED BY <1>5, <1>6, <1>7, <1>8, <1>9

(* A fragmented string, from its start to its end.                         *)
LEMMA FragmentsKeep ==
    ASSUME IInv, StartFragments \/ FeedFragment \/ EndFragments
    PROVE  IInv'
  <1>1. /\ z \in Context /\ mem \in Memory /\ z.state.payload \in Nat
    BY LiveEnd
  <1>2. fed \in Nat
    BY DEF IInv, TypeOK
  <1>3. CASE StartFragments
    <2>1. PICK n \in StringLens : Did(FragmentsStartEncode(z, mem, "tstr", n, FALSE))
      BY <1>3 DEF StartFragments
    <2> DEFINE r == FragmentsStartEncode(z, mem, "tstr", n, FALSE)
    <2>2. n \in Nat /\ Running /\ frames' = frames /\ fed' \in Nat
      BY <1>3, EncodeInputsAssumption DEF StartFragments, BetweenItems
    <2>3. /\ r.ok \in BOOLEAN /\ Stays(z, r.z)
          /\ Inside(mem, r.mem, z.state.payload_end)
      BY <1>1, <2>2, FragmentsStartEffect
    <2>4. Did(r)
      BY <2>1
    <2> HIDE DEF r
    <2> QED BY <2>2, <2>3, <2>4, CallKeeps
  <1>4. CASE FeedFragment
    <2>1. PICK len \in 1 .. z.state.str_total_len :
            LET r == FragmentEncode(z, mem, fed, len)
            IN  Did(r) /\ fed' = fed + (r.z.state.payload - z.state.payload)
      BY <1>4 DEF FeedFragment
    <2> DEFINE r == FragmentEncode(z, mem, fed, len)
    <2>2. len \in Nat /\ Running /\ frames' = frames
      BY <1>4 DEF FeedFragment
    <2>3. /\ r.ok \in BOOLEAN /\ Stays(z, r.z)
          /\ z.state.payload <= r.z.state.payload
          /\ Inside(mem, r.mem, z.state.payload_end)
      BY <1>1, <1>2, <2>2, FragmentEncodeEffect
    <2>4. Did(r) /\ fed' = fed + (r.z.state.payload - z.state.payload)
      BY <2>1
    <2> HIDE DEF r
    <2>5. fed' \in Nat
      <3>1. r.z.state.payload \in Nat
        BY <2>3, ContextFields DEF Stays, Same, State
      <3> QED BY <1>1, <1>2, <2>3, <2>4, <3>1
    <2> QED BY <2>2, <2>3, <2>4, <2>5, CallKeeps
  <1>5. CASE EndFragments
    <2> DEFINE r == FragmentsEndEncode(z, mem)
    <2>1. Running /\ z.state.inside_frag_str /\ Did(r) /\ frames' = frames /\ fed' \in Nat
      BY <1>5 DEF EndFragments
    <2>2. r.mem = mem /\ r.ok \in BOOLEAN /\ Stays(z, r.z)
      BY <1>1, <2>1, FragmentsEndEffect
    <2> HIDE DEF r
    <2>3. Inside(mem, mem, z.state.payload_end)
      BY <1>1, InsideSame
    <2> QED BY <2>1, <2>2, <2>3, CallKeeps
  <1> QED BY <1>3, <1>4, <1>5

(* A fresh section holds bytes, and nothing was written in it.             *)
LEMMA BlankType == Blank \in Memory /\ \A i \in Offsets : Blank[i] = Unwritten
  BY DEF Blank, Memory, Unwritten, Byte, Kinds

(* The next section is fed.                                                *)
LEMMA FeedSectionKeeps ==
    ASSUME IInv, FeedSection
    PROVE  IInv'
  <1> DEFINE written == [i \in 1 .. z.state.payload |-> mem[i - 1]]
  <1>1. PICK len \in Rooms : z' = UpdateState(z, len) /\ room' = len
    BY DEF FeedSection
  <1>2. /\ mode = "run" /\ mode' = mode /\ frames' = frames /\ fed' = fed
        /\ mem' = Blank /\ sent' = sent \o written
        /\ ~ Open("item") /\ ~ Open("bstr")
    BY DEF FeedSection, Running
  <1>3. len \in Nat /\ len \in 0 .. MaxRoom
    BY EncodeInputsAssumption
  <1>4. \A i \in DOMAIN frames : frames[i].kind \notin {"item", "bstr"}
    BY <1>2 DEF Open
  <1>5. /\ z' \in Context /\ Sound(z', frames') /\ Bounded(z', room') /\ Live(z', frames')
    BY <1>1, <1>2, <1>3, <1>4, LiveEnd, FeedKeeps
  <1>6. sent' \in Seq(Byte)
    <2>1. z.state.payload \in Nat /\ z.state.payload <= MaxRoom
      BY LiveEnd, EncodeInputsAssumption
    <2>2. ASSUME NEW i \in 1 .. z.state.payload
          PROVE  mem[i - 1] \in Byte
      <3>1. i - 1 \in Offsets
        BY <2>1, EncodeInputsAssumption DEF Offsets
      <3> QED BY <3>1, LiveEnd DEF Memory
    <2>3. written \in Seq(Byte)
      BY <2>1, <2>2
    <2> HIDE DEF written
    <2>4. sent \in Seq(Byte)
      BY DEF IInv, TypeOK
    <2> QED BY <1>2, <2>3, <2>4
  <1>7. TypeOK'
    BY <1>1, <1>2, <1>3, <1>5, <1>6, BlankType DEF IInv, TypeOK, Memory
  <1>8. NothingPastEnd'
    BY <1>2, BlankType DEF NothingPastEnd
  <1> QED BY <1>5, <1>7, <1>8 DEF IInv

(* A failed item is rolled back.                                           *)
LEMMA ItemFailedRollsBack ==
    ASSUME IInv, ItemFailed
    PROVE  IInv'
  <1>1. PICK n \in DOMAIN frames :
            /\ frames[n].kind = "item"
            /\ z' = ProcessBackup(DropTo(z, n), {"RESTORE", "CONSUME"}).z
            /\ frames' = SubSeq(frames, 1, n - 1)
    BY DEF ItemFailed, LastItem
  <1>2. mode' = "run" /\ fed' \in Nat /\ mem' = mem /\ room' = room /\ sent' = sent
    BY DEF ItemFailed
  <1>3. /\ z \in Context /\ frames \in Seq(Frame) /\ room \in Nat /\ mem \in Memory
        /\ Sound(z, frames) /\ Bounded(z, room)
    BY LiveEnd
  <1>4. n \in 1 .. Len(frames)
    BY <1>1, <1>3
  <1>5. /\ z' \in Context /\ frames' \in Seq(Frame)
        /\ Sound(z', frames') /\ Bounded(z', room) /\ Live(z', frames')
    BY <1>1, <1>3, <1>4, ItemFailedKeeps
  <1>6. Inside(mem, mem', 0) /\ 0 \in Nat /\ 0 <= room
    BY <1>2, <1>3, InsideSame
  <1> QED BY <1>2, <1>5, <1>6, InvariantAfter

(* The first section, with no construct open.                              *)
LEMMA InitSound == Init => IInv
  <1> SUFFICES ASSUME Init PROVE IInv
    OBVIOUS
  <1>1. PICK len \in Rooms : z = NewState(len, 0) /\ room = len
    BY DEF Init
  <1>2. len \in Nat /\ len \in 0 .. MaxRoom
    BY EncodeInputsAssumption
  <1>3. /\ z \in Context /\ z.backup_list = << >>
        /\ z.state.payload = 0 /\ z.state.payload_end = len
    BY <1>1, <1>2, MaxElemCountAssumption DEF NewState, Context, State, DecodeState
  <1>4. frames = << >> /\ mem = Blank /\ sent = << >> /\ fed = 0 /\ mode = "run"
    BY DEF Init
  <1>5. TypeOK
    BY <1>1, <1>2, <1>3, <1>4, BlankType DEF TypeOK, Memory
  <1>6. NothingPastEnd
    BY <1>4, BlankType DEF NothingPastEnd
  <1>7. Bounded(z, room)
    BY <1>1, <1>2, <1>3 DEF Bounded, Fits
  <1>8. Sound(z, frames) /\ Live(z, frames)
    BY <1>3, <1>4 DEF Sound, Live
  <1> QED BY <1>5, <1>6, <1>7, <1>8 DEF IInv

(* Every step keeps the invariant.                                         *)
LEMMA NextSound == IInv /\ [Next]_vars => IInv'
  <1> SUFFICES ASSUME IInv, [Next]_vars PROVE IInv'
    OBVIOUS
  <1>1. CASE UNCHANGED vars
    BY <1>1 DEF vars, IInv, TypeOK, NothingPastEnd, Bounded, Sound, Live, FrameSound, Within
  <1>2. CASE EncodeValue \/ EncodeTag \/ EncodeString
    BY <1>2, ValuesKeep
  <1>3. CASE StartContainer("list") \/ StartContainer("map") \/ StartBstr
             \/ StartCborFragments \/ StartItem
    BY <1>3, StartsKeep DEF Containers
  <1>4. CASE EndContainer \/ AbandonContainer \/ EndBstr \/ EndCborFragments \/ EndItem
    BY <1>4, EndsKeep
  <1>5. CASE StartFragments \/ FeedFragment \/ EndFragments
    BY <1>5, FragmentsKeep
  <1>6. CASE FeedSection
    BY <1>6, FeedSectionKeeps
  <1>7. CASE ItemFailed
    BY <1>7, ItemFailedRollsBack
  <1> QED BY <1>1, <1>2, <1>3, <1>4, <1>5, <1>6, <1>7 DEF Next

(* IInv holds throughout every encoding session.                           *)
THEOREM EncodeInvariant == Spec => []IInv
  BY InitSound, NextSound, PTL DEF Spec

-----------------------------------------------------------------------------
(* The properties that TLC checks on a small instance.                     *)

(* The types of the context, the memory and the frames, after any calls.   *)
THEOREM EncodeTypeCorrect == Spec => []TypeOK
  BY EncodeInvariant, PTL DEF IInv

(* No call, and no memmove at the end of a container or string, writes     *)
(* past the end of the section it was given, however long the headers are. *)
THEOREM NothingWrittenPastEnd == Spec => []NothingPastEnd
  BY EncodeInvariant, PTL DEF IInv

(* While no call has failed every open construct has its backup, and there *)
(* is no other.                                                            *)
THEOREM EncodeBackupsBalanced == Spec => []BackupsMatchFrames
  <1>1. IInv => BackupsMatchFrames
    BY DEF IInv, Live, BackupsMatchFrames
  <1> QED BY <1>1, EncodeInvariant, PTL

(* A container with an exact hint is closed, in whatever section.          *)
THEOREM ExactHintAlwaysCloses == Spec => ExactHintCloses
  <1>1. IInv /\ [Next]_vars => [EndContainer /\ HintCounts => mode' = "run"]_vars
    <2> SUFFICES ASSUME IInv, EndContainer, HintCounts
                 PROVE  mode' = "run"
      OBVIOUS
    <2> DEFINE f == Top(frames)
               r == ListMapEndEncode(z, mem, f.kind, f.hint)
    <2>1. /\ CloseFrame(r)
          /\ f.hint = ListCount(z, f.kind) => r.ok
      BY EndContainerEffect
    <2>2. r.ok
      BY <2>1 DEF HintCounts
    <2> HIDE DEF r
    <2> QED BY <2>1, <2>2 DEF CloseFrame, Did
  <1> QED BY <1>1, EncodeInvariant, PTL DEF Spec, ExactHintCloses

(* The end of a container fails only for a hint that was too small, or for *)
(* a wrong one whose header is in a section that was sent: when the hint   *)
(* was large enough the contents and the shorter header have room.         *)
THEOREM EndFailsOnlyThen == Spec => EndFailsOnlyForHint
  <1>1. IInv /\ [Next]_vars =>
            [EndContainer /\ mode' = "failing" =>
                \/ Top(frames).hint < ListCount(z, Top(frames).kind)
                \/ Top(frames).section < z.section]_vars
    <2> SUFFICES ASSUME IInv, EndContainer, mode' = "failing"
                 PROVE  \/ Top(frames).hint < ListCount(z, Top(frames).kind)
                        \/ Top(frames).section < z.section
      OBVIOUS
    <2> DEFINE f == Top(frames)
               count == ListCount(z, f.kind)
               r == ListMapEndEncode(z, mem, f.kind, f.hint)
    <2>1. /\ CloseFrame(r) /\ frames # << >> /\ mode = "run"
          /\ count <= f.hint /\ f.section >= z.section => r.ok
      BY EndContainerEffect DEF BetweenItems, Running
    <2>2. ~ r.ok
      <3> HIDE DEF r
      <3> QED BY <2>1 DEF CloseFrame, Did
    <2>3. f \in Frame /\ f.section \in Nat /\ z.section \in Nat
      BY <2>1, InnermostFrame
    <2>4. f.hint \in Nat /\ count \in Int
      <3>1. z.state.elem_count \in Nat
        BY LiveEnd, ContextFields DEF State
      <3> QED BY <2>3, <3>1 DEF Frame, ListCount
    <2> HIDE DEF r, count, f
    <2>5. count > f.hint \/ f.section < z.section
      BY <2>1, <2>2, <2>3, <2>4
    <2>6. f.hint < count \/ f.section < z.section
      BY <2>4, <2>5
    <2> QED BY <2>6 DEF count, f
  <1> QED BY <1>1, EncodeInvariant, PTL DEF Spec, EndFailsOnlyForHint
=============================================================================

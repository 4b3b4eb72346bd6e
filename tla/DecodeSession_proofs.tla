--------------------------- MODULE DecodeSession_proofs ---------------------------
(***************************************************************************)
(* Theorems about DecodeSession, for every number of backups, every        *)
(* nesting and any number of payload sections.                             *)
(*                                                                         *)
(* The inductive invariant, IInv, says that below every backup a failed    *)
(* call left behind, each open construct still has its own backup, which   *)
(* is the state it saved unless a section was fed since, and then marked.  *)
(* First what each zcbor function does to the backups; then that Sound,    *)
(* the heart of IInv, survives each of those effects; then one lemma per   *)
(* group of actions; then the theorems.  The strings have an invariant of  *)
(* their own on top of it, StringsInv, and how far a section reaches one   *)
(* on top of that, BoundsInv.                                              *)
(***************************************************************************)
EXTENDS DecodeSession, ZcborState_proofs

(* value_extract decrements an elem_count that is not 0, or changes        *)
(* nothing.                                                                *)
LEMMA ValueExtractEffect ==
    ASSUME NEW c \in Context, NEW h \in Nat
    PROVE  LET r == ValueExtract(c, h) IN
           /\ r.ok \in BOOLEAN
           /\ Same(c, r.z)
           /\ ~ r.ok => r.z = c
  <1>1. c.state \in State
    BY DEF Context
  <1>2. ASSUME c.state.elem_count # 0
        PROVE  Without(c.state, h) \in State
    <2>1. c.state.payload + h \in Nat
      BY <1>1 DEF State
    <2>2. c.state.elem_count - 1 \in 0 .. MaxElemCount
      BY <1>1, <1>2, MaxElemCountAssumption DEF State
    <2>3. \A p \in Nat, e \in 0 .. MaxElemCount :
            [c.state EXCEPT !.payload = p, !.elem_count = e] \in State
      BY <1>1 DEF State
    <2> QED BY <2>1, <2>2, <2>3 DEF Without
  <1>3. Same(c, c)
    BY DEF Same
  <1>4. ASSUME NEW s \in State
        PROVE  Same(c, [c EXCEPT !.state = s])
    BY DEF Same, Context
  <1> QED BY <1>1, <1>2, <1>3, <1>4 DEF ValueExtract, Done, Fail

(* Reading a string's header is reading a header.                          *)
LEMMA StrStartEffect ==
    ASSUME NEW c \in Context, NEW h \in Nat, NEW len \in Nat
    PROVE  /\ StrStart(c, h, len).ok \in BOOLEAN
           /\ Same(c, StrStart(c, h, len).z)
           /\ ~ StrStart(c, h, len).ok => StrStart(c, h, len).z = c
  <1>1. Same(c, c)
    BY DEF Same
  <1> QED BY <1>1, ValueExtractEffect DEF StrStart, Fail

(* Decoding a string changes no backup.                                    *)
LEMMA StrDecodeEffect ==
    ASSUME NEW c \in Context, NEW h \in Nat, NEW len \in Nat
    PROVE  /\ StrDecode(c, h, len).ok \in BOOLEAN
           /\ Same(c, StrDecode(c, h, len).z)
  <1> DEFINE d == StrStart(c, h, len).z
  <1>1. Same(c, d) /\ StrStart(c, h, len).ok \in BOOLEAN
    BY StrStartEffect
  <1> HIDE DEF d
  <1>2. d \in Context /\ d.state \in State
    BY <1>1 DEF Same, Context
  <1>3. d.state.payload + len \in Nat
    BY <1>2 DEF State
  <1>4. \A p \in Nat : [d.state EXCEPT !.payload = p] \in State
    BY <1>2 DEF State
  <1>5. Same(d, [d EXCEPT !.state.payload = @ + len])
    BY <1>2, <1>3, <1>4, SetState
  <1> QED BY <1>1, <1>5 DEF StrDecode, Same, Done, d

(* Opening a list pushes one backup or leaves the context as it was.       *)
LEMMA ListMapStartEffect ==
    ASSUME NEW c \in Context, NEW h \in Nat,
           NEW n \in 0 .. MaxElemCount, NEW indefinite \in BOOLEAN
    PROVE  LET r == ListMapStart(c, h, n, indefinite) IN
           /\ r.ok \in BOOLEAN
           /\ r.ok => Pushed(c, r.z)
           /\ ~ r.ok => r.z = c
  <1> DEFINE v == ValueExtract(c, h)
             elems == IF indefinite THEN LargeElemCount ELSE n
             b == NewBackup(v.z, elems)
             t == b.z.state.decode_state
             u == [ExitMap(t) EXCEPT !.map_start_backup_num = Len(b.z.backup_list),
                                     !.indefinite_length_array = indefinite]
             d == [b.z EXCEPT !.state.decode_state = u]
  <1>1. v.ok \in BOOLEAN /\ Same(c, v.z) /\ (~ v.ok => v.z = c)
    BY ValueExtractEffect
  <1>2. elems \in 0 .. MaxElemCount
    BY LargeElemCountInRange
  <1>3. v.z \in Context
    BY <1>1 DEF Same
  <1> HIDE DEF v, elems
  <1>4. b.ok \in BOOLEAN /\ (b.ok => Pushed(v.z, b.z) /\ b.z.state \in State)
    BY <1>2, <1>3, NewBackupEffect
  <1> HIDE DEF b
  <1>5. ASSUME b.ok
        PROVE  Pushed(c, d)
    <2>0. b.z \in Context
      BY <1>4, <1>5 DEF Pushed
    <2>1. b.z \in Context /\ t \in DecodeState /\ Len(b.z.backup_list) \in Nat
      BY <2>0, ContextFields
    <2>2. u \in DecodeState
      BY <2>1 DEF ExitMap, DecodeState
    <2> HIDE DEF u
    <2>3. [b.z.state EXCEPT !.decode_state = u] \in State
      BY <1>4, <1>5, <2>2 DEF State
    <2>4. Same(b.z, d)
      BY <2>1, <2>3, SetState
    <2> QED BY <1>1, <1>4, <1>5, <2>4 DEF Same, Pushed
  <1>6. CASE ~ v.ok
    <2>1. ListMapStart(c, h, n, indefinite) = v
      BY <1>6 DEF ListMapStart, v
    <2> QED BY <1>1, <1>6, <2>1
  <1>7. CASE v.ok /\ ~ b.ok
    <2>1. ListMapStart(c, h, n, indefinite) = Fail(c, b.err)
      BY <1>7 DEF ListMapStart, v, b, elems
    <2> QED BY <2>1 DEF Fail
  <1>8. CASE v.ok /\ b.ok
    <2>1. ListMapStart(c, h, n, indefinite) = Done(d)
      BY <1>8 DEF ListMapStart, v, b, elems
    <2> QED BY <1>5, <1>8, <2>1 DEF Done
  <1> QED BY <1>1, <1>4, <1>6, <1>7, <1>8

(* Opening a map pushes one backup, also in the failing branch that leaves *)
(* it there; any other failure leaves the context as it was.               *)
LEMMA MapStartEffect ==
    ASSUME NEW c \in Context, NEW h \in Nat,
           NEW n \in 0 .. MaxElemCount, NEW indefinite \in BOOLEAN
    PROVE  LET r == MapStart(c, h, n, indefinite) IN
           /\ r.ok \in BOOLEAN
           /\ r.ok => Pushed(c, r.z)
           /\ ~ r.ok => r.z = c \/ Pushed(c, r.z)
  <1> DEFINE v == ListMapStart(c, h, n, indefinite)
             wrapped == (n + 1) % (MaxElemCount + 1)
             p == c.state.payload
             d == [v.z EXCEPT !.state.payload = p, !.state.elem_count = wrapped]
             e == [v.z EXCEPT !.state.elem_count = 2 * n]
  <1>1. v.ok \in BOOLEAN /\ (v.ok => Pushed(c, v.z)) /\ (~ v.ok => v.z = c)
    BY ListMapStartEffect
  <1> HIDE DEF v
  <1>2. p \in Nat
    BY ContextFields DEF State
  <1>3. wrapped \in 0 .. MaxElemCount
    BY MaxElemCountAssumption
  <1> HIDE DEF wrapped, p
  <1>4. ASSUME v.ok
        PROVE  Pushed(c, d)
    <2>1. v.z \in Context /\ v.z.state \in State
      BY <1>1, <1>4, ContextFields DEF Pushed
    <2>2. [v.z.state EXCEPT !.payload = p, !.elem_count = wrapped] \in State
      BY <1>2, <1>3, <2>1 DEF State
    <2>3. Same(v.z, d)
      BY <2>1, <2>2 DEF Same, Context
    <2> QED BY <1>1, <1>4, <2>3 DEF Same, Pushed
  <1>5. ASSUME v.ok, ~ (n >= MaxElemCount \div 2)
        PROVE  Pushed(c, e)
    <2>1. v.z \in Context /\ v.z.state \in State
      BY <1>1, <1>5, ContextFields DEF Pushed
    <2>2. 2 * n \in 0 .. MaxElemCount
      BY <1>5, MaxElemCountAssumption
    <2>3. \A m \in 0 .. MaxElemCount : [v.z.state EXCEPT !.elem_count = m] \in State
      BY <2>1 DEF State
    <2>4. Same(v.z, e)
      BY <2>1, <2>2, <2>3, SetState
    <2> QED BY <1>1, <1>5, <2>4 DEF Same, Pushed
  <1>6. CASE ~ v.ok \/ indefinite
    <2>1. MapStart(c, h, n, indefinite) = v
      BY <1>6 DEF MapStart, v
    <2> QED BY <1>1, <2>1
  <1>7. CASE v.ok /\ ~ indefinite /\ n >= MaxElemCount \div 2
    <2>1. MapStart(c, h, n, indefinite) = Fail(d, "INT_SIZE")
      BY <1>7 DEF MapStart, v, p, wrapped
    <2> QED BY <1>4, <1>7, <2>1 DEF Fail
  <1>8. CASE v.ok /\ ~ indefinite /\ ~ (n >= MaxElemCount \div 2)
    <2>1. MapStart(c, h, n, indefinite) = Done(e)
      BY <1>8 DEF MapStart, v
    <2> QED BY <1>5, <1>8, <2>1 DEF Done
  <1> QED BY <1>1, <1>6, <1>7, <1>8

(* Opening a CBOR bstr pushes one backup or leaves the context as it was.  *)
LEMMA BstrStartEffect ==
    ASSUME NEW c \in Context, NEW h \in Nat, NEW len \in Nat
    PROVE  LET r == BstrStart(c, h, len) IN
           /\ r.ok \in BOOLEAN
           /\ r.ok => Pushed(c, r.z)
           /\ ~ r.ok => r.z = c
  <1> DEFINE v == StrStart(c, h, len)
             b == NewBackup(v.z, MaxElemCount)
             t == ExitMap(b.z.state.decode_state)
             end == v.z.state.payload + len
             d == [b.z EXCEPT !.state.decode_state = t,
                              !.state.payload_end = end,
                              !.state.inside_cbor_bstr = TRUE]
  <1>1. v.ok \in BOOLEAN /\ Same(c, v.z) /\ (~ v.ok => v.z = c)
    BY StrStartEffect
  <1>2. v.z \in Context /\ MaxElemCount \in 0 .. MaxElemCount
    BY <1>1, MaxElemCountAssumption DEF Same
  <1>3. end \in Nat
    BY <1>2, ContextFields DEF State
  <1> HIDE DEF v, end
  <1>4. b.ok \in BOOLEAN /\ (b.ok => Pushed(v.z, b.z))
    BY <1>2, NewBackupEffect
  <1> HIDE DEF b
  <1>5. ASSUME b.ok
        PROVE  Pushed(c, d)
    <2>1. b.z \in Context
      BY <1>4, <1>5 DEF Pushed
    <2>2. b.z.state \in State /\ b.z.state.decode_state \in DecodeState
      BY <2>1, ContextFields
    <2>3. t \in DecodeState
      BY <2>2 DEF ExitMap, DecodeState
    <2> HIDE DEF t
    <2>4. [b.z.state EXCEPT !.decode_state = t, !.payload_end = end,
                            !.inside_cbor_bstr = TRUE] \in State
      BY <1>3, <2>2, <2>3 DEF State
    <2>5. Same(b.z, d)
      BY <2>1, <2>4 DEF Same, Context
    <2> QED BY <1>1, <1>4, <1>5, <2>5 DEF Same, Pushed
  <1>6. CASE ~ v.ok
    <2>1. BstrStart(c, h, len) = v
      BY <1>6 DEF BstrStart, v
    <2> QED BY <1>1, <1>6, <2>1
  <1>7. CASE v.ok /\ ~ b.ok
    <2>1. BstrStart(c, h, len) = Fail(c, b.err)
      BY <1>7 DEF BstrStart, v, b
    <2> QED BY <2>1 DEF Fail
  <1>8. CASE v.ok /\ b.ok
    <2>1. BstrStart(c, h, len) = Done(d)
      BY <1>8 DEF BstrStart, v, b, end
    <2> QED BY <1>5, <1>8, <2>1 DEF Done
  <1> QED BY <1>1, <1>4, <1>6, <1>7, <1>8

(* Starting a fragmented string pushes a backup exactly for a CBOR bstr,   *)
(* or leaves the context as it was.                                        *)
LEMMA FragmentsStartEffect ==
    ASSUME NEW c \in Context, NEW h \in Nat, NEW len \in Nat,
           NEW cborBstr \in BOOLEAN
    PROVE  LET r == FragmentsStart(c, h, len, cborBstr) IN
           /\ r.ok \in BOOLEAN
           /\ r.ok => IF cborBstr THEN Pushed(c, r.z) ELSE Same(c, r.z)
           /\ ~ r.ok => r.z = c
  <1> DEFINE v == ValueExtract(c, h)
             e == StringError(v.z.state)
             offset == 0 - v.z.state.payload
             b == NewBackup(v.z, MaxElemCount)
             plain == [v.z EXCEPT !.state.frag_offset = offset,
                                  !.state.str_total_len = len,
                                  !.state.inside_frag_str = TRUE]
             cbor == [b.z EXCEPT !.state.frag_offset_cbor = offset,
                                 !.state.str_total_len_cbor = len,
                                 !.state.inside_cbor_bstr = TRUE]
             unfit == /\ v.z.state.inside_cbor_bstr
                      /\ e # "SUCCESS" \/ StringRemainder(v.z.state) < len
  <1>1. v.ok \in BOOLEAN /\ Same(c, v.z) /\ (~ v.ok => v.z = c)
    BY ValueExtractEffect
  <1>2. v.z \in Context /\ v.z.state \in State /\ MaxElemCount \in 0 .. MaxElemCount
    BY <1>1, ContextFields, MaxElemCountAssumption DEF Same
  <1>3. offset \in Int
    BY <1>2 DEF State
  <1> HIDE DEF v, offset
  <1>4. b.ok \in BOOLEAN /\ (b.ok => Pushed(v.z, b.z))
    BY <1>2, NewBackupEffect
  <1> HIDE DEF b
  <1>5. Same(c, plain)
    <2>1. [v.z.state EXCEPT !.frag_offset = offset, !.str_total_len = len,
                            !.inside_frag_str = TRUE] \in State
      BY <1>2, <1>3 DEF State
    <2>2. Same(v.z, plain)
      BY <1>2, <2>1 DEF Same, Context
    <2> QED BY <1>1, <2>2 DEF Same
  <1>6. ASSUME b.ok
        PROVE  Pushed(c, cbor)
    <2>1. b.z \in Context
      BY <1>4, <1>6 DEF Pushed
    <2>2. b.z.state \in State
      BY <2>1, ContextFields
    <2>3. [b.z.state EXCEPT !.frag_offset_cbor = offset, !.str_total_len_cbor = len,
                            !.inside_cbor_bstr = TRUE] \in State
      BY <1>3, <2>2 DEF State
    <2>4. Same(b.z, cbor)
      BY <2>1, <2>3 DEF Same, Context
    <2> QED BY <1>1, <1>4, <1>6, <2>4 DEF Same, Pushed
  <1>7. CASE ~ v.ok
    <2>1. FragmentsStart(c, h, len, cborBstr) = v
      BY <1>7 DEF FragmentsStart, v
    <2> QED BY <1>1, <1>7, <2>1
  <1>8. CASE v.ok /\ unfit
    <2>1. \E err : FragmentsStart(c, h, len, cborBstr) = Fail(c, err)
      <3>1. CASE e # "SUCCESS"
        BY <1>8, <3>1 DEF FragmentsStart, v
      <3>2. CASE e = "SUCCESS"
        BY <1>8, <3>2 DEF FragmentsStart, v
      <3> QED BY <3>1, <3>2
    <2> QED BY <2>1 DEF Fail
  <1>9. CASE v.ok /\ ~ unfit /\ ~ cborBstr
    <2>1. FragmentsStart(c, h, len, cborBstr) = Done(plain)
      BY <1>9 DEF FragmentsStart, v, offset
    <2> QED BY <1>5, <1>9, <2>1 DEF Done
  <1>10. CASE v.ok /\ ~ unfit /\ cborBstr /\ ~ b.ok
    <2>1. FragmentsStart(c, h, len, cborBstr) = Fail(c, b.err)
      BY <1>10 DEF FragmentsStart, v, b
    <2> QED BY <2>1 DEF Fail
  <1>11. CASE v.ok /\ ~ unfit /\ cborBstr /\ b.ok
    <2>1. FragmentsStart(c, h, len, cborBstr) = Done(cbor)
      BY <1>11 DEF FragmentsStart, v, b, offset
    <2>2. Pushed(c, cbor)
      BY <1>6, <1>11
    <2> HIDE DEF cbor
    <2>3. Done(cbor).ok = TRUE /\ Done(cbor).z = cbor
      BY DEF Done
    <2> QED BY <1>11, <2>1, <2>2, <2>3
  <1> QED BY <1>1, <1>4, <1>7, <1>8, <1>9, <1>10, <1>11

(* Consuming a fragment changes no backup.                                 *)
LEMMA FragmentDecodeEffect ==
    ASSUME NEW c \in Context
    PROVE  /\ FragmentDecode(c).ok \in BOOLEAN
           /\ Same(c, FragmentDecode(c).z)
  <1> DEFINE s == c.state
             left == s.payload_end - s.payload
             rem == StringRemainder(s)
             taken == IF left < rem THEN left ELSE rem
             d == [c EXCEPT !.state.payload = @ + taken]
  <1>1. s \in State
    BY ContextFields
  <1>2. Same(c, c)
    BY DEF Same
  <1>3. ASSUME ~ (left <= 0), StringError(s) = "SUCCESS"
        PROVE  Same(c, d)
    <2>1. left \in Int /\ rem \in Int /\ left > 0
      BY <1>1, <1>3 DEF State, StringRemainder, StringTotal, StringOffset
    <2>2. StringOffset(s) \in 0 .. StringTotal(s)
      BY <1>3 DEF StringError
    <2>3. rem >= 0
      BY <1>1, <2>2 DEF State, StringRemainder, StringTotal, StringOffset
    <2> HIDE DEF left, rem
    <2>4. taken \in Nat
      BY <2>1, <2>3
    <2> HIDE DEF taken
    <2>5. s.payload + taken \in Nat
      BY <1>1, <2>4 DEF State
    <2>6. \A p \in Nat : [s EXCEPT !.payload = p] \in State
      BY <1>1 DEF State
    <2> QED BY <2>5, <2>6, SetState
  <1>4. CASE left <= 0 \/ StringError(s) # "SUCCESS"
    BY <1>2, <1>4 DEF FragmentDecode, Fail
  <1>5. CASE ~ (left <= 0) /\ StringError(s) = "SUCCESS" /\ ~ s.inside_frag_str
    BY <1>2, <1>5 DEF FragmentDecode, Done
  <1>6. CASE ~ (left <= 0) /\ StringError(s) = "SUCCESS" /\ s.inside_frag_str
    <2>1. FragmentDecode(c) = Done(d)
      BY <1>6 DEF FragmentDecode
    <2> HIDE DEF d
    <2> QED BY <1>3, <1>6, <2>1 DEF Done
  <1> QED BY <1>4, <1>5, <1>6

(* What ending a construct gives back to the one around it.                *)
Resumed(c, d) ==
    /\ Pulled(c, d)
    /\ d.state.elem_count = Top(c.backup_list).elem_count
    /\ d.state.decode_state = Top(c.backup_list).decode_state
    /\ d.state.payload - c.state.payload \in {0, 1}

(* Restoring with the payload pointer kept resumes the parent.             *)
LEMMA ResumeIsResumed ==
    ASSUME NEW c \in Context, c.backup_list # << >>
    PROVE  /\ ProcessBackup(c, ResumeFlags).ok = TRUE
           /\ Resumed(c, ProcessBackup(c, ResumeFlags).z)
           /\ ProcessBackup(c, ResumeFlags).z.state.payload = c.state.payload
  <1> DEFINE b == Top(c.backup_list)
             d == ProcessBackup(c, ResumeFlags).z
  <1>1. /\ ProcessBackup(c, ResumeFlags).ok = TRUE
        /\ Pulled(c, d)
        /\ d.state = [b EXCEPT !.payload = c.state.payload]
    BY ResumeEffect
  <1>2. c.state.payload \in Nat
    BY ContextFields DEF State
  <1>3. b \in State
    BY ContextFields DEF Top
  <1> HIDE DEF b, d
  <1>4. /\ d.state.payload = c.state.payload
        /\ d.state.elem_count = b.elem_count
        /\ d.state.decode_state = b.decode_state
    BY <1>1, <1>2, <1>3 DEF State
  <1> QED BY <1>1, <1>2, <1>4 DEF Resumed, b, d

(* Ending a list or map removes its backup, also when it fails; success    *)
(* resumes the parent.                                                     *)
LEMMA ListMapEndEffect ==
    ASSUME NEW c \in Context, c.backup_list # << >>, NEW isBreak \in BOOLEAN
    PROVE  LET r == ListMapEnd(c, isBreak) IN
           /\ r.ok \in BOOLEAN
           /\ Pulled(c, r.z)
           /\ r.ok => Resumed(c, r.z)
  <1> DEFINE v == ProcessBackup(c, ResumeFlags)
             d == [v.z EXCEPT !.state.payload = @ + 1]
             ends == ListMapEnd(c, isBreak)
  <1>1. v.ok = TRUE /\ Resumed(c, v.z) /\ v.z.state.payload = c.state.payload
    BY ResumeIsResumed
  <1>2. \/ ends = v
        \/ ends = Done(d)
        \/ \E err : ends = Fail(v.z, err)
    BY DEF ListMapEnd, ResumeFlags
  <1> HIDE DEF v, ends
  <1>3. Resumed(c, d)
    <2>1. v.z \in Context /\ v.z.state \in State /\ c.state.payload \in Nat
      BY <1>1, ContextFields DEF Resumed, Pulled, State
    <2>2. v.z.state.payload + 1 \in Nat
      BY <2>1, <1>1
    <2>3. [v.z.state EXCEPT !.payload = @ + 1] \in State
      BY <2>1, <2>2 DEF State
    <2>4. Same(v.z, d) /\ d.state = [v.z.state EXCEPT !.payload = @ + 1]
      BY <2>1, <2>3, SetState
    <2> HIDE DEF d
    <2>5. /\ d.state.payload = v.z.state.payload + 1
          /\ d.state.elem_count = v.z.state.elem_count
          /\ d.state.decode_state = v.z.state.decode_state
      BY <2>1, <2>2, <2>4 DEF State
    <2>6. Pulled(c, d)
      BY <1>1, <2>4 DEF Same, Pulled, Resumed
    <2> QED BY <1>1, <2>1, <2>5, <2>6 DEF Resumed
  <1>4. Pulled(c, v.z) /\ Pulled(c, d)
    BY <1>1, <1>3 DEF Resumed
  <1> HIDE DEF d
  <1>5. CASE ends = v
    BY <1>1, <1>4, <1>5 DEF ends
  <1>6. CASE ends = Done(d)
    <2>1. ends.ok = TRUE /\ ends.z = d
      BY <1>6 DEF Done
    <2> QED BY <1>3, <1>4, <2>1 DEF ends
  <1>7. CASE \E err : ends = Fail(v.z, err)
    <2>1. ends.ok = FALSE /\ ends.z = v.z
      BY <1>7 DEF Fail
    <2> QED BY <1>4, <2>1 DEF ends
  <1> QED BY <1>2, <1>5, <1>6, <1>7

(* Ending a CBOR bstr resumes the state around it or changes nothing.      *)
LEMMA BstrEndEffect ==
    ASSUME NEW c \in Context, c.backup_list # << >>
    PROVE  /\ BstrEnd(c).ok \in BOOLEAN
           /\ BstrEnd(c).ok => Resumed(c, BstrEnd(c).z)
           /\ ~ BstrEnd(c).ok => BstrEnd(c).z = c
  <1>1. CASE c.state.payload # c.state.payload_end
    BY <1>1 DEF BstrEnd, Fail
  <1>2. CASE c.state.payload = c.state.payload_end
    <2>1. BstrEnd(c) = ProcessBackup(c, ResumeFlags)
      BY <1>2 DEF BstrEnd, ResumeFlags
    <2> QED BY <2>1, ResumeIsResumed
  <1> QED BY <1>1, <1>2

(* Ending a plain fragmented string takes no backup; ending a CBOR bstr    *)
(* takes the one of the bstr.                                              *)
LEMMA FragmentsEndEffect ==
    ASSUME NEW c \in Context,
           c.state.inside_frag_str \/ c.backup_list # << >>
    PROVE  LET r == FragmentsEnd(c) IN
           /\ r.ok \in BOOLEAN
           /\ ~ r.ok => r.z = c
           /\ r.ok => IF c.state.inside_frag_str THEN Same(c, r.z) ELSE Resumed(c, r.z)
  <1> DEFINE v == BstrEnd(c)
             plain == [c EXCEPT !.state.inside_frag_str = FALSE]
             cbor == [v.z EXCEPT !.state.inside_cbor_bstr = FALSE]
             ends == FragmentsEnd(c)
             wrong == StringError(c.state) # "SUCCESS" \/ StringRemainder(c.state) # 0
  <1>1. c.state \in State
    BY ContextFields
  <1>2. CASE wrong
    <2>1. \E err : ends = Fail(c, err)
      BY <1>2 DEF FragmentsEnd
    <2> HIDE DEF ends
    <2>2. ends.ok = FALSE /\ ends.z = c
      BY <2>1 DEF Fail
    <2> QED BY <2>2 DEF ends
  <1>3. CASE ~ wrong /\ c.state.inside_frag_str
    <2>1. ends = Done(plain)
      BY <1>3 DEF FragmentsEnd
    <2>2. [c.state EXCEPT !.inside_frag_str = FALSE] \in State
      BY <1>1 DEF State
    <2>3. Same(c, plain)
      BY <2>2, SetState
    <2> HIDE DEF plain, ends
    <2>4. ends.ok = TRUE /\ ends.z = plain
      BY <2>1 DEF Done
    <2> QED BY <1>3, <2>3, <2>4 DEF ends
  <1>4. CASE ~ wrong /\ ~ c.state.inside_frag_str /\ ~ v.ok
    <2>1. ends = v
      BY <1>4 DEF FragmentsEnd
    <2>2. v.z = c
      BY <1>4, BstrEndEffect
    <2> HIDE DEF ends, v
    <2> QED BY <1>4, <2>1, <2>2, BstrEndEffect DEF ends, v
  <1>5. CASE ~ wrong /\ ~ c.state.inside_frag_str /\ v.ok
    <2>1. ends = Done(cbor)
      BY <1>5 DEF FragmentsEnd
    <2>2. Resumed(c, v.z)
      BY <1>5, BstrEndEffect
    <2> HIDE DEF v
    <2>3. v.z \in Context /\ v.z.state \in State
      BY <2>2, ContextFields DEF Resumed, Pulled
    <2>4. [v.z.state EXCEPT !.inside_cbor_bstr = FALSE] \in State
      BY <2>3 DEF State
    <2>5. Same(v.z, cbor) /\ cbor.state = [v.z.state EXCEPT !.inside_cbor_bstr = FALSE]
      BY <2>3, <2>4, SetState
    <2> HIDE DEF cbor, ends
    <2>6. /\ cbor.state.payload = v.z.state.payload
          /\ cbor.state.elem_count = v.z.state.elem_count
          /\ cbor.state.decode_state = v.z.state.decode_state
      BY <2>3, <2>5 DEF State
    <2>7. Resumed(c, cbor)
      BY <2>2, <2>5, <2>6 DEF Same, Pulled, Resumed
    <2>8. ends.ok = TRUE /\ ends.z = cbor
      BY <2>1 DEF Done
    <2> QED BY <1>5, <2>7, <2>8 DEF ends
  <1> QED BY <1>2, <1>3, <1>4, <1>5, BstrEndEffect

-----------------------------------------------------------------------------
(* What holds between the backup at the place of an open construct and the *)
(* construct.                                                              *)
FrameSound(b, f, base, section) ==
    /\ Kept(b) = Kept(f.taken)
    /\ b.payload_moved <=> f.section # section
    /\ ~ b.payload_moved => b = f.taken /\ base = f.base
    /\ b.frag_offset_cbor - base = f.taken.frag_offset_cbor - f.base
    /\ b.frag_offset - base = f.taken.frag_offset - f.base
    /\ f.section <= section
    /\ f.kind = "item" => f.section = section

(* Each open construct has its own backup, in order.                       *)
Sound(c, fs) ==
    /\ Len(c.backup_list) >= Len(fs)
    /\ \A i \in DOMAIN fs : FrameSound(c.backup_list[i], fs[i], c.base, c.section)

(* The inductive invariant.                                                *)
IInv ==
    /\ TypeOK
    /\ Sound(z, frames)
    /\ mode = "run" => Len(z.backup_list) = Len(frames)

(* Popping the frames keeps those below.                                   *)
LEMMA PoppedFrames ==
    ASSUME NEW fs \in Seq(Frame), fs # << >>
    PROVE  /\ Popped(fs) \in Seq(Frame)
           /\ Len(Popped(fs)) = Len(fs) - 1
           /\ DOMAIN Popped(fs) = 1 .. Len(fs) - 1
           /\ \A i \in 1 .. Len(fs) - 1 : Popped(fs)[i] = fs[i]
           /\ Len(fs) \in Nat /\ Len(fs) >= 1
  <1>1. Len(fs) \in Nat /\ Len(fs) >= 1
    OBVIOUS
  <1>2. Len(fs) - 1 \in 0 .. Len(fs)
    BY <1>1
  <1> QED BY <1>1, <1>2, Prefix DEF Popped

(* A call that leaves the backups alone keeps the frames sound.            *)
LEMMA SoundSame ==
    ASSUME NEW c, NEW d, NEW fs \in Seq(Frame), Sound(c, fs), Same(c, d)
    PROVE  Sound(d, fs)
  BY DEF Sound, Same

(* A construct that returns false leaves the outer ones sound.             *)
LEMMA SoundPopped ==
    ASSUME NEW c \in Context, NEW fs \in Seq(Frame), fs # << >>, Sound(c, fs)
    PROVE  Sound(c, Popped(fs))
  <1> DEFINE n == Len(fs) - 1
             gs == Popped(fs)
  <1>1. Len(c.backup_list) \in Nat /\ Len(c.backup_list) >= Len(fs)
    BY ContextFields DEF Sound
  <1>2. /\ Len(gs) = n /\ DOMAIN gs = 1 .. n /\ n \in Nat /\ Len(fs) = n + 1
        /\ \A i \in 1 .. n : gs[i] = fs[i] /\ i \in DOMAIN fs
    BY PoppedFrames
  <1> HIDE DEF gs, n
  <1>3. \A i \in DOMAIN gs : FrameSound(c.backup_list[i], gs[i], c.base, c.section)
    BY <1>2 DEF Sound
  <1>4. Len(c.backup_list) >= Len(gs)
    BY <1>1, <1>2
  <1>5. Sound(c, gs)
    BY <1>3, <1>4 DEF Sound
  <1> QED BY <1>5 DEF gs

(* A construct that ends with its backup leaves the outer ones sound.      *)
LEMMA SoundPulled ==
    ASSUME NEW c \in Context, NEW d, NEW fs \in Seq(Frame), fs # << >>,
           Sound(c, fs), Pulled(c, d)
    PROVE  /\ Sound(d, Popped(fs))
           /\ Len(d.backup_list) = Len(c.backup_list) - 1
  <1> DEFINE list == c.backup_list
             n == Len(fs) - 1
  <1>1. list \in Seq(State) /\ Len(list) \in Nat /\ Len(list) >= Len(fs)
    BY ContextFields DEF Sound
  <1>2. n \in Nat /\ Len(fs) = n + 1
    OBVIOUS
  <1>3. d.backup_list = SubSeq(list, 1, Len(list) - 1) /\ d.base = c.base /\ d.section = c.section
    BY DEF Pulled, Popped
  <1>4. Len(d.backup_list) = Len(list) - 1
    BY <1>1, <1>2, <1>3
  <1>5. \A i \in 1 .. n : d.backup_list[i] = list[i]
    BY <1>1, <1>2, <1>3
  <1>6. \A i \in 1 .. n : FrameSound(list[i], fs[i], c.base, c.section)
    BY <1>2 DEF Sound
  <1>7. /\ Len(Popped(fs)) = n /\ DOMAIN Popped(fs) = 1 .. n
        /\ \A i \in 1 .. n : Popped(fs)[i] = fs[i]
    BY PoppedFrames
  <1> HIDE DEF n, list
  <1>8. \A i \in DOMAIN Popped(fs) :
            FrameSound(d.backup_list[i], Popped(fs)[i], d.base, d.section)
    BY <1>3, <1>5, <1>6, <1>7
  <1>9. Len(d.backup_list) >= Len(Popped(fs))
    BY <1>1, <1>2, <1>4, <1>7
  <1>10. Sound(d, Popped(fs))
    BY <1>8, <1>9 DEF Sound
  <1> QED BY <1>4, <1>10 DEF list

(* A backup that a failed construct leaves on top disturbs nobody below.   *)
LEMMA SoundPushed ==
    ASSUME NEW c \in Context, NEW d, NEW fs \in Seq(Frame),
           Sound(c, fs), Pushed(c, d)
    PROVE  /\ Sound(d, fs)
           /\ Len(d.backup_list) = Len(c.backup_list) + 1
  <1>1. PICK b \in State : d.backup_list = Append(c.backup_list, b)
    BY DEF Pushed
  <1>2. c.backup_list \in Seq(State) /\ Len(c.backup_list) \in Nat
    BY ContextFields
  <1>3. \A i \in 1 .. Len(c.backup_list) : d.backup_list[i] = c.backup_list[i]
    BY <1>1, <1>2
  <1>4. Len(d.backup_list) = Len(c.backup_list) + 1
    BY <1>1, <1>2
  <1>5. d.base = c.base /\ d.section = c.section
    BY DEF Pushed
  <1>6. \A i \in DOMAIN fs : i \in 1 .. Len(c.backup_list)
    BY <1>2 DEF Sound
  <1>7. Len(fs) \in Nat
    OBVIOUS
  <1> QED BY <1>2, <1>3, <1>4, <1>5, <1>6, <1>7 DEF Sound

(* A construct opens: its frame describes the backup just taken.           *)
LEMMA SoundOpened ==
    ASSUME NEW c \in Context, NEW d, NEW fs \in Seq(Frame),
           Sound(c, fs), Pushed(c, d), Len(c.backup_list) = Len(fs),
           NEW kind \in Containers \cup Strings \cup Rollbacks, NEW len \in Nat
    PROVE  /\ Append(fs, FrameOf(kind, d, len)) \in Seq(Frame)
           /\ Sound(d, Append(fs, FrameOf(kind, d, len)))
           /\ Len(d.backup_list) = Len(Append(fs, FrameOf(kind, d, len)))
  <1> DEFINE f == FrameOf(kind, d, len)
             gs == Append(fs, f)
             n == Len(fs) + 1
  <1>1. PICK b \in State : ~ b.payload_moved /\ d.backup_list = Append(c.backup_list, b)
    BY DEF Pushed
  <1>2. c.backup_list \in Seq(State) /\ Len(fs) \in Nat
    BY ContextFields
  <1>3. Len(d.backup_list) = n /\ d.backup_list[n] = b
    BY <1>1, <1>2
  <1>4. d \in Context /\ d.base \in Nat /\ d.section \in Nat /\ d.state.payload \in Nat
    BY ContextFields DEF Pushed, State
  <1>5. f = [ kind |-> kind, taken |-> b, base |-> d.base, section |-> d.section,
              first |-> d.base + d.state.payload, len |-> len ]
    BY <1>3 DEF FrameOf, Top
  <1>6. f \in Frame /\ f.taken = b /\ f.base = d.base /\ f.section = d.section
    BY <1>4, <1>5 DEF Frame
  <1>7. FrameSound(b, f, d.base, d.section)
    <2>1. b.payload_moved \in BOOLEAN /\ d.section <= d.section
      BY <1>4 DEF State
    <2> HIDE DEF f
    <2> QED BY <1>1, <1>6, <2>1 DEF FrameSound
  <1> HIDE DEF f
  <1>8. gs \in Seq(Frame) /\ Len(gs) = n /\ DOMAIN gs = 1 .. n /\ gs[n] = f
        /\ \A i \in DOMAIN fs : gs[i] = fs[i]
    BY <1>2, <1>6
  <1>9. Sound(d, fs)
    BY SoundPushed
  <1>10. ASSUME NEW i \in 1 .. n
         PROVE  FrameSound(d.backup_list[i], gs[i], d.base, d.section)
    <2>1. CASE i = n
      BY <1>3, <1>7, <1>8, <2>1
    <2>2. CASE i # n
      <3>1. i \in DOMAIN fs
        BY <1>2, <2>2
      <3> QED BY <1>8, <1>9, <3>1 DEF Sound
    <2> QED BY <2>1, <2>2
  <1> HIDE DEF gs, n
  <1>11. Sound(d, gs)
    BY <1>2, <1>3, <1>8, <1>10 DEF Sound, n
  <1> QED BY <1>3, <1>8, <1>11 DEF gs, f

(* What failed constructs left behind is dropped, and only that.           *)
LEMMA SoundDropped ==
    ASSUME NEW c \in Context, NEW fs \in Seq(Frame), Sound(c, fs)
    PROVE  LET d == DropTo(c, Len(fs)) IN
           /\ d \in Context /\ Sound(d, fs)
           /\ Len(d.backup_list) = Len(fs)
           /\ d.base = c.base /\ d.section = c.section /\ d.state = c.state
  <1> DEFINE d == DropTo(c, Len(fs))
             n == Len(fs)
  <1>1. c.backup_list \in Seq(State) /\ Len(c.backup_list) \in Nat /\ n \in Nat
        /\ n <= Len(c.backup_list)
    BY ContextFields DEF Sound
  <1>2. n \in 0 .. Len(c.backup_list)
    BY <1>1
  <1>3. /\ d \in Context /\ d.base = c.base /\ d.section = c.section
        /\ d.state = c.state /\ d.backup_list = SubSeq(c.backup_list, 1, n)
        /\ Len(d.backup_list) = n
    BY <1>2, DropToEffect
  <1>4. \A i \in 1 .. n : d.backup_list[i] = c.backup_list[i]
    BY <1>1, <1>2, <1>3, Prefix
  <1> HIDE DEF d
  <1>5. DOMAIN fs = 1 .. n
    OBVIOUS
  <1> HIDE DEF n
  <1>6. \A i \in DOMAIN fs : FrameSound(d.backup_list[i], fs[i], d.base, d.section)
    BY <1>3, <1>4, <1>5 DEF Sound
  <1>7. Sound(d, fs)
    BY <1>1, <1>3, <1>6 DEF Sound, n
  <1> QED BY <1>3, <1>7 DEF d, n

(* A section is fed, while no *_frag_item call is under way.               *)
LEMMA SoundFed ==
    ASSUME NEW c \in Context, NEW fs \in Seq(Frame), NEW len \in Nat,
           Sound(c, fs), \A i \in DOMAIN fs : fs[i].kind # "item"
    PROVE  LET d == UpdateState(c, len) IN
           /\ d \in Context /\ Sound(d, fs)
           /\ Len(d.backup_list) = Len(c.backup_list)
  <1> DEFINE d == UpdateState(c, len)
             n == Len(c.backup_list)
  <1>1. /\ d \in Context /\ d.section = c.section + 1
        /\ Len(d.backup_list) = n
        /\ \A i \in 1 .. n :
             /\ Kept(d.backup_list[i]) = Kept(c.backup_list[i])
             /\ d.backup_list[i].payload_moved
             /\ d.backup_list[i].frag_offset - d.base = c.backup_list[i].frag_offset - c.base
             /\ d.backup_list[i].frag_offset_cbor - d.base
                    = c.backup_list[i].frag_offset_cbor - c.base
    BY UpdateStateEffect
  <1> HIDE DEF d
  <1>2. ASSUME NEW i \in DOMAIN fs
        PROVE  FrameSound(d.backup_list[i], fs[i], d.base, d.section)
    <2>1. i \in 1 .. n
      BY ContextFields DEF Sound
    <2>2. FrameSound(c.backup_list[i], fs[i], c.base, c.section)
      BY DEF Sound
    <2>3. fs[i] \in Frame /\ fs[i].kind # "item"
      OBVIOUS
    <2>4. fs[i].section \in Nat /\ c.section \in Nat
      BY <2>3, ContextFields DEF Frame
    <2>5. fs[i].section <= d.section /\ fs[i].section # d.section
      BY <1>1, <2>2, <2>4 DEF FrameSound
    <2> QED BY <1>1, <2>1, <2>2, <2>3, <2>5 DEF FrameSound
  <1>3. Sound(d, fs)
    BY <1>1, <1>2 DEF Sound
  <1> QED BY <1>1, <1>3 DEF d

-----------------------------------------------------------------------------
(* A new state has no construct open and no backup.                        *)
LEMMA InitSound == Init => IInv
  <1> SUFFICES ASSUME Init PROVE IInv
    OBVIOUS
  <1>1. PICK len \in 0 .. MaxMessage : z = NewState(len, LargeElemCount)
    BY DEF Init
  <1>2. len \in Nat
    BY InputsAssumption
  <1>3. z.state \in State /\ z.backup_list = << >> /\ z.base = 0 /\ z.section = 0
    BY <1>1, <1>2, LargeElemCountInRange DEF NewState, State, DecodeState
  <1>4. z \in Context
    BY <1>1, <1>3 DEF NewState, Context
  <1>5. frames = << >> /\ mode = "run"
    BY DEF Init
  <1>6. frames \in Seq(Frame) /\ Len(frames) = 0 /\ DOMAIN frames = {}
    BY <1>5
  <1>7. Len(z.backup_list) = 0
    BY <1>3
  <1> QED BY <1>4, <1>5, <1>6, <1>7 DEF IInv, TypeOK, Sound

(* The three shapes of a call: it stays in the frame, opens one, ends one. *)
LEMMA CallKeeps ==
    ASSUME IInv, mode = "run", NEW r, r.ok \in BOOLEAN, Same(z, r.z), Call(r)
    PROVE  IInv'
  <1>1. z' = r.z /\ frames' = frames /\ mode' \in {"run", "failing"}
    BY DEF Call
  <1>2. z' \in Context /\ Len(z'.backup_list) = Len(frames')
    BY <1>1 DEF Same, IInv
  <1>3. Sound(z', frames')
    BY <1>1, SoundSame DEF IInv, TypeOK
  <1> QED BY <1>1, <1>2, <1>3 DEF IInv, TypeOK

(* A call that opens a construct keeps the invariant, also when it fails.  *)
LEMMA OpenKeeps ==
    ASSUME IInv, mode = "run", NEW r, r.ok \in BOOLEAN,
           r.ok => Pushed(z, r.z), ~ r.ok => r.z = z \/ Pushed(z, r.z),
           NEW kind \in Containers \cup Strings \cup Rollbacks, NEW len \in Nat,
           OpenFrame(kind, r, len)
    PROVE  IInv'
  <1>1. z' = r.z /\ z \in Context /\ frames \in Seq(Frame) /\ Sound(z, frames)
        /\ Len(z.backup_list) = Len(frames) /\ Len(frames) \in Nat
    BY DEF OpenFrame, IInv, TypeOK
  <1>2. CASE r.ok
    <2> DEFINE gs == Append(frames, FrameOf(kind, r.z, len))
    <2>1. frames' = gs /\ mode' = "run"
      BY <1>2 DEF OpenFrame
    <2>2. gs \in Seq(Frame) /\ Sound(r.z, gs) /\ Len(r.z.backup_list) = Len(gs)
      BY <1>1, <1>2, SoundOpened
    <2>3. r.z \in Context
      BY <1>2 DEF Pushed
    <2> QED BY <1>1, <2>1, <2>2, <2>3 DEF IInv, TypeOK
  <1>3. CASE ~ r.ok
    <2>1. frames' = frames /\ mode' = "failing"
      BY <1>3 DEF OpenFrame
    <2>2. Sound(r.z, frames) /\ r.z \in Context
      <3>1. CASE r.z = z
        BY <1>1, <3>1
      <3>2. CASE Pushed(z, r.z)
        BY <1>1, <3>2, SoundPushed DEF Pushed
      <3> QED BY <1>3, <3>1, <3>2
    <2> QED BY <1>1, <2>1, <2>2 DEF IInv, TypeOK
  <1> QED BY <1>2, <1>3

(* A call that ends the innermost construct keeps the invariant.           *)
LEMMA CloseKeeps ==
    ASSUME IInv, mode = "run", frames # << >>, NEW r, r.ok \in BOOLEAN,
           r.ok => Pulled(z, r.z), ~ r.ok => r.z = z \/ Pulled(z, r.z),
           CloseFrame(r)
    PROVE  IInv'
  <1>1. z' = r.z /\ z \in Context /\ frames \in Seq(Frame) /\ Sound(z, frames)
        /\ Len(z.backup_list) = Len(frames) /\ frames' = Popped(frames)
        /\ mode' = IF r.ok THEN "run" ELSE "failing"
    BY DEF CloseFrame, IInv, TypeOK
  <1>2. frames' \in Seq(Frame) /\ Len(frames') = Len(frames) - 1
    BY <1>1, PoppedFrames
  <1>3. CASE Pulled(z, r.z)
    <2>1. Sound(r.z, Popped(frames)) /\ Len(r.z.backup_list) = Len(z.backup_list) - 1
      BY <1>1, <1>3, SoundPulled
    <2>2. r.z \in Context
      BY <1>3 DEF Pulled
    <2> QED BY <1>1, <1>2, <2>1, <2>2 DEF IInv, TypeOK
  <1>4. CASE ~ r.ok /\ r.z = z
    <2>1. Sound(z, Popped(frames))
      BY <1>1, SoundPopped
    <2> QED BY <1>1, <1>2, <1>4, <2>1 DEF IInv, TypeOK
  <1> QED BY <1>3, <1>4

(* The innermost construct has a backup, and it is sound.                  *)
LEMMA TopSound ==
    ASSUME NEW c \in Context, NEW fs \in Seq(Frame), fs # << >>,
           Sound(c, fs), Len(c.backup_list) = Len(fs)
    PROVE  /\ FrameSound(Top(c.backup_list), Top(fs), c.base, c.section)
           /\ c.backup_list # << >>
  <1>1. Len(fs) \in DOMAIN fs
    OBVIOUS
  <1>2. Len(c.backup_list) # 0
    OBVIOUS
  <1> QED BY <1>1, <1>2 DEF Sound, Top

(* While a construct is open some backup is in use.                        *)
LEMMA BackupActive ==
    ASSUME IInv, frames # << >>
    PROVE  z \in Context /\ z.backup_list # << >>
  <1>1. z \in Context /\ Len(frames) >= 1 /\ Len(z.backup_list) \in Nat
    BY ContextFields DEF IInv, TypeOK
  <1> QED BY <1>1 DEF IInv, Sound

(* Roll back of the innermost construct, whatever failed inside it.        *)
LEMMA DroppedTop ==
    ASSUME IInv, frames # << >>
    PROVE  LET d == DropTo(z, Len(frames)) IN
           /\ d \in Context /\ Sound(d, frames) /\ Len(d.backup_list) = Len(frames)
           /\ d.base = z.base /\ d.section = z.section /\ d.backup_list # << >>
           /\ FrameSound(Top(d.backup_list), Top(frames), z.base, z.section)
  <1> DEFINE d == DropTo(z, Len(frames))
  <1>1. z \in Context /\ frames \in Seq(Frame) /\ Sound(z, frames)
    BY DEF IInv, TypeOK
  <1>2. d \in Context /\ Sound(d, frames) /\ Len(d.backup_list) = Len(frames)
        /\ d.base = z.base /\ d.section = z.section
    BY <1>1, SoundDropped
  <1> HIDE DEF d
  <1>3. d.backup_list # << >> /\ FrameSound(Top(d.backup_list), Top(frames), d.base, d.section)
    BY <1>1, <1>2, TopSound
  <1> QED BY <1>2, <1>3 DEF d

(* Decoding a value, a fragment or a fragmented string's ends.             *)
LEMMA CallActions ==
    ASSUME IInv, DecodeValue \/ StartFragments \/ DecodeFragment \/ EndFragments
    PROVE  IInv'
  <1>1. z \in Context /\ HeaderLens \subseteq Nat /\ Lengths \cup {0} \subseteq Nat
    BY InputsAssumption DEF IInv, TypeOK
  <1>2. CASE DecodeValue
    <2>1. PICK h \in HeaderLens, len \in Lengths \cup {0} : Call(StrDecode(z, h, len))
      BY <1>2 DEF DecodeValue
    <2>2. StrDecode(z, h, len).ok \in BOOLEAN /\ Same(z, StrDecode(z, h, len).z)
      BY <1>1, StrDecodeEffect
    <2> QED BY <1>2, <2>1, <2>2, CallKeeps DEF DecodeValue, Running
  <1>3. CASE StartFragments
    <2>1. PICK h \in HeaderLens, len \in Lengths : Call(FragmentsStart(z, h, len, FALSE))
      BY <1>3 DEF StartFragments
    <2> DEFINE r == FragmentsStart(z, h, len, FALSE)
    <2>2. /\ r.ok \in BOOLEAN
          /\ r.ok => Same(z, r.z)
          /\ ~ r.ok => r.z = z
      BY <1>1, FragmentsStartEffect
    <2>3. Same(z, r.z)
      BY <1>1, <2>2 DEF Same
    <2>4. mode = "run" /\ Call(r)
      BY <1>3, <2>1 DEF StartFragments, BetweenItems, Running
    <2> HIDE DEF r
    <2> QED BY <2>2, <2>3, <2>4, CallKeeps
  <1>4. CASE DecodeFragment
    <2>1. FragmentDecode(z).ok \in BOOLEAN /\ Same(z, FragmentDecode(z).z)
      BY <1>1, FragmentDecodeEffect
    <2> QED BY <1>4, <2>1, CallKeeps DEF DecodeFragment, Running
  <1>5. CASE EndFragments
    <2> DEFINE r == FragmentsEnd(z)
    <2>1. z.state.inside_frag_str /\ Call(r) /\ mode = "run"
      BY <1>5 DEF EndFragments, Running
    <2>2. /\ r.ok \in BOOLEAN
          /\ r.ok => Same(z, r.z)
          /\ ~ r.ok => r.z = z
      BY <1>1, <2>1, FragmentsEndEffect
    <2>3. Same(z, r.z)
      BY <1>1, <2>2 DEF Same
    <2> QED BY <2>1, <2>2, <2>3, CallKeeps
  <1> QED BY <1>2, <1>3, <1>4, <1>5

(* Opening a container, a string or a rollback point.                      *)
LEMMA OpenActions ==
    ASSUME IInv,
           \/ \E kind \in Containers : StartContainer(kind)
           \/ StartBstr \/ StartCborFragments
           \/ StartUnion \/ StartIteration \/ StartItem
    PROVE  IInv'
  <1>1. /\ z \in Context /\ z.state.elem_count \in 0 .. MaxElemCount
        /\ HeaderLens \subseteq Nat /\ Lengths \subseteq Nat /\ Counts \subseteq 0 .. MaxElemCount
    BY InputsAssumption, ContextFields DEF IInv, TypeOK, State
  <1>2. ASSUME NEW kind \in Containers, StartContainer(kind)
        PROVE  IInv'
    <2>1. PICK h \in HeaderLens, n \in Counts, indefinite \in BOOLEAN :
            OpenFrame(kind, IF kind = "map" THEN MapStart(z, h, n, indefinite)
                                            ELSE ListMapStart(z, h, n, indefinite), 0)
      BY <1>2 DEF StartContainer
    <2> DEFINE r == IF kind = "map" THEN MapStart(z, h, n, indefinite)
                                    ELSE ListMapStart(z, h, n, indefinite)
    <2>2. /\ r.ok \in BOOLEAN
          /\ r.ok => Pushed(z, r.z)
          /\ ~ r.ok => r.z = z \/ Pushed(z, r.z)
      <3>1. CASE kind = "map"
        BY <1>1, <3>1, MapStartEffect
      <3>2. CASE kind # "map"
        BY <1>1, <3>2, ListMapStartEffect
      <3> QED BY <3>1, <3>2
    <2>3. OpenFrame(kind, r, 0)
      BY <2>1
    <2>4. mode = "run" /\ kind \in Containers \cup Strings \cup Rollbacks /\ 0 \in Nat
      BY <1>2 DEF StartContainer, BetweenItems, Running
    <2> HIDE DEF r
    <2> QED BY <2>2, <2>3, <2>4, OpenKeeps
  <1>3. CASE StartBstr
    <2>1. PICK h \in HeaderLens, len \in Lengths : OpenFrame("bstr", BstrStart(z, h, len), len)
      BY <1>3 DEF StartBstr
    <2> DEFINE r == BstrStart(z, h, len)
    <2>2. r.ok \in BOOLEAN /\ (r.ok => Pushed(z, r.z)) /\ (~ r.ok => r.z = z)
      BY <1>1, BstrStartEffect
    <2>3. mode = "run" /\ "bstr" \in Containers \cup Strings \cup Rollbacks /\ len \in Nat
      BY <1>1, <1>3 DEF StartBstr, BetweenItems, Running, Strings
    <2> QED BY <2>1, <2>2, <2>3, OpenKeeps
  <1>4. CASE StartCborFragments
    <2>1. PICK h \in HeaderLens, len \in Lengths :
            OpenFrame("cborfrag", FragmentsStart(z, h, len, TRUE), len)
      BY <1>4 DEF StartCborFragments
    <2> DEFINE r == FragmentsStart(z, h, len, TRUE)
    <2>2. r.ok \in BOOLEAN /\ (r.ok => Pushed(z, r.z)) /\ (~ r.ok => r.z = z)
      BY <1>1, FragmentsStartEffect
    <2>3. mode = "run" /\ "cborfrag" \in Containers \cup Strings \cup Rollbacks /\ len \in Nat
      BY <1>1, <1>4 DEF StartCborFragments, BetweenItems, Running, Strings
    <2>4. OpenFrame("cborfrag", r, len)
      BY <2>1
    <2> HIDE DEF r
    <2> QED BY <2>2, <2>3, <2>4, OpenKeeps
  <1>5. ASSUME NEW kind \in Rollbacks, mode = "run",
               OpenFrame(kind, NewBackup(z, z.state.elem_count), 0)
        PROVE  IInv'
    <2> DEFINE r == NewBackup(z, z.state.elem_count)
    <2>1. r.ok \in BOOLEAN /\ (r.ok => Pushed(z, r.z)) /\ (~ r.ok => r.z = z)
      BY <1>1, NewBackupEffect
    <2>2. kind \in Containers \cup Strings \cup Rollbacks /\ 0 \in Nat
      OBVIOUS
    <2> QED BY <1>5, <2>1, <2>2, OpenKeeps
  <1>6. CASE StartUnion \/ StartIteration \/ StartItem
    BY <1>5, <1>6 DEF StartUnion, StartIteration, StartItem, UnionStart, BetweenItems,
                      Running, Rollbacks
  <1> QED BY <1>2, <1>3, <1>4, <1>6

(* Ending a container, a string or a rollback point that succeeded.        *)
LEMMA CloseActions ==
    ASSUME IInv,
           \/ EndContainer \/ EndBstr \/ EndCborFragments
           \/ EndUnion \/ EndIteration \/ EndItem
    PROVE  IInv'
  <1>1. mode = "run" /\ frames # << >>
    BY DEF EndContainer, EndBstr, EndCborFragments, EndUnion, EndIteration, EndItem,
           BetweenItems, Running, InFrame
  <1>2. z \in Context /\ z.backup_list # << >>
    BY <1>1, BackupActive
  <1>3. CASE EndContainer
    <2>1. PICK isBreak \in BOOLEAN : CloseFrame(ListMapEnd(z, isBreak))
      BY <1>3 DEF EndContainer
    <2> DEFINE r == ListMapEnd(z, isBreak)
    <2>2. r.ok \in BOOLEAN /\ Pulled(z, r.z) /\ CloseFrame(r)
      BY <1>2, <2>1, ListMapEndEffect
    <2> HIDE DEF r
    <2> QED BY <1>1, <2>2, CloseKeeps
  <1>4. CASE EndBstr
    <2>1. BstrEnd(z).ok \in BOOLEAN
          /\ (BstrEnd(z).ok => Pulled(z, BstrEnd(z).z)) /\ (~ BstrEnd(z).ok => BstrEnd(z).z = z)
      BY <1>2, BstrEndEffect DEF Resumed
    <2> QED BY <1>1, <1>4, <2>1, CloseKeeps DEF EndBstr
  <1>5. CASE EndCborFragments
    <2> DEFINE r == FragmentsEnd(z)
    <2>1. ~ z.state.inside_frag_str /\ CloseFrame(r)
      BY <1>5 DEF EndCborFragments, BetweenItems
    <2>2. r.ok \in BOOLEAN /\ (r.ok => Pulled(z, r.z)) /\ (~ r.ok => r.z = z)
      BY <1>2, <2>1, FragmentsEndEffect DEF Resumed
    <2> HIDE DEF r
    <2> QED BY <1>1, <2>1, <2>2, CloseKeeps
  <1>6. CASE EndUnion
    <2> DEFINE d == DropTo(z, Len(frames))
               r == ProcessBackup(d, {"CONSUME"})
    <2>1. d = z
      <3>1. Len(frames) = Len(z.backup_list) /\ z.backup_list \in Seq(State)
        BY <1>1, <1>2, ContextFields DEF IInv
      <3>2. SubSeq(z.backup_list, 1, Len(frames)) = z.backup_list
        BY <3>1
      <3> QED BY <1>2, <3>2 DEF DropTo, Context
    <2>2. r.ok = TRUE /\ Pulled(z, r.z)
      BY <1>2, <2>1, ConsumeEffect
    <2>3. CloseFrame(r)
      BY <1>6 DEF EndUnion, UnionEnd
    <2> HIDE DEF r
    <2>4. r.ok \in BOOLEAN /\ (r.ok => Pulled(z, r.z)) /\ (~ r.ok => r.z = z)
      BY <2>2
    <2> QED BY <1>1, <2>3, <2>4, CloseKeeps
  <1>7. CASE EndIteration \/ EndItem
    <2> DEFINE r == ProcessBackup(z, {"CONSUME"})
    <2>1. r.ok = TRUE /\ Pulled(z, r.z)
      BY <1>2, ConsumeEffect
    <2>2. CloseFrame(r)
      BY <1>7 DEF EndIteration, EndItem
    <2> HIDE DEF r
    <2>4. r.ok \in BOOLEAN /\ (r.ok => Pulled(z, r.z)) /\ (~ r.ok => r.z = z)
      BY <2>1
    <2> QED BY <1>1, <2>2, <2>4, CloseKeeps
  <1> QED BY <1>3, <1>4, <1>5, <1>6, <1>7

(* Feeding a payload section.                                              *)
LEMMA FeedKeeps ==
    ASSUME IInv, FeedSection
    PROVE  IInv'
  <1>1. PICK len \in 0 .. MaxMessage - Position : z' = UpdateState(z, len)
    BY DEF FeedSection
  <1>2. /\ z \in Context /\ frames \in Seq(Frame) /\ Sound(z, frames)
        /\ mode = "run" /\ Len(z.backup_list) = Len(frames)
        /\ frames' = frames /\ mode' = mode
    BY DEF FeedSection, Running, IInv, TypeOK
  <1>3. Position \in Nat
    BY <1>2, ContextFields DEF Position, State
  <1>4. len \in Nat
    BY <1>3, InputsAssumption
  <1>5. \A i \in DOMAIN frames : frames[i].kind # "item"
    BY DEF FeedSection, Open
  <1>6. z' \in Context /\ Sound(z', frames) /\ Len(z'.backup_list) = Len(z.backup_list)
    BY <1>1, <1>2, <1>4, <1>5, SoundFed
  <1> QED BY <1>2, <1>6 DEF IInv, TypeOK

(* The actions of a failing call, up to its roll back.                     *)
LEMMA FailureActions ==
    ASSUME IInv,
           \/ Mismatch \/ ReturnFalse \/ ForceEndContainer
           \/ NextArm \/ NoArmLeft \/ StopIterating \/ ItemFailed \/ SessionFails
    PROVE  IInv'
  <1> DEFINE d == DropTo(z, Len(frames))
  <1>1. z \in Context /\ frames \in Seq(Frame) /\ Sound(z, frames) /\ Len(frames) \in Nat
    BY DEF IInv, TypeOK
  <1>2. ASSUME frames # << >>
        PROVE  Popped(frames) \in Seq(Frame) /\ Len(Popped(frames)) = Len(frames) - 1
    BY <1>1, <1>2, PoppedFrames
  <1>3. ASSUME frames # << >>
        PROVE  /\ d \in Context /\ Sound(d, frames) /\ Len(d.backup_list) = Len(frames)
               /\ d.section = z.section /\ d.backup_list # << >>
               /\ FrameSound(Top(d.backup_list), Top(frames), z.base, z.section)
    BY <1>3, DroppedTop
  <1> HIDE DEF d
  (* The backup is consumed and the frame is popped. *)
  <1>4. ASSUME NEW c, frames # << >>, NEW e \in Context, Sound(e, frames),
               Len(e.backup_list) = Len(frames), Pulled(e, c),
               z' = c, frames' = Popped(frames), mode' \in {"run", "failing"}
        PROVE  IInv'
    <2>1. Sound(c, Popped(frames)) /\ Len(c.backup_list) = Len(frames) - 1 /\ c \in Context
      BY <1>1, <1>4, SoundPulled DEF Pulled
    <2> QED BY <1>2, <1>4, <2>1 DEF IInv, TypeOK
  <1>5. CASE Mismatch
    BY <1>1, <1>5 DEF Mismatch, IInv, TypeOK
  <1>6. CASE ReturnFalse
    <2>1. frames # << >> /\ mode' = "failing" /\ z' = z /\ frames' = Popped(frames)
      BY <1>6 DEF ReturnFalse, InFrame
    <2>2. Sound(z, Popped(frames))
      BY <1>1, <2>1, SoundPopped
    <2> QED BY <1>1, <1>2, <2>1, <2>2 DEF IInv, TypeOK
  <1>7. CASE ForceEndContainer
    <2> DEFINE r == ProcessBackup(z, ResumeFlags)
    <2>1. frames # << >> /\ Len(z.backup_list) = Len(frames)
          /\ CloseFrame(r)
      BY <1>7 DEF ForceEndContainer, InFrame, ListMapEndForce, ResumeFlags
    <2>2. z.backup_list # << >>
      BY <2>1, BackupActive
    <2>3. r.ok = TRUE /\ Pulled(z, r.z)
      BY <1>1, <2>2, ResumeEffect
    <2>4. z' = r.z /\ frames' = Popped(frames) /\ mode' \in {"run", "failing"}
      BY <2>1, <2>3 DEF CloseFrame
    <2> HIDE DEF r
    <2> QED BY <1>1, <1>4, <2>1, <2>3, <2>4
  <1>8. CASE NextArm
    <2> DEFINE r == ProcessBackup(d, {"RESTORE"})
    <2>1. frames # << >> /\ z' = r.z /\ frames' = frames
          /\ mode' \in {"run", "failing"}
      BY <1>8 DEF NextArm, InFrame, UnionElem, d
    <2>2. r.ok \in BOOLEAN /\ (r.ok => Same(d, r.z)) /\ (~ r.ok => r.z = d)
      BY <1>3, <2>1, RestoreEffect
    <2> HIDE DEF r
    <2>3. Same(d, r.z)
      BY <1>3, <2>1, <2>2 DEF Same
    <2>4. Sound(r.z, frames) /\ r.z \in Context /\ Len(r.z.backup_list) = Len(frames)
      BY <1>1, <1>3, <2>1, <2>3, SoundSame DEF Same
    <2> QED BY <1>1, <2>1, <2>4 DEF IInv, TypeOK
  <1>9. CASE NoArmLeft
    <2> DEFINE r == ProcessBackup(d, {"CONSUME"})
    <2>1. frames # << >> /\ z' = r.z /\ frames' = Popped(frames)
          /\ mode' \in {"run", "failing"}
      BY <1>9 DEF NoArmLeft, InFrame, UnionEnd, d
    <2>2. Pulled(d, r.z)
      BY <1>3, <2>1, ConsumeEffect
    <2> HIDE DEF r
    <2> QED BY <1>3, <1>4, <2>1, <2>2
  <1>10. CASE StopIterating
    <2> DEFINE r == ProcessBackup(d, {"RESTORE", "CONSUME"})
    <2>1. PICK enough \in BOOLEAN :
            frames # << >> /\ z' = r.z /\ frames' = Popped(frames)
            /\ mode' = IF r.ok /\ enough THEN "run" ELSE "failing"
      BY <1>10 DEF StopIterating, InFrame, d
    <2>2. r.ok \in BOOLEAN /\ (r.ok => Pulled(d, r.z)) /\ (~ r.ok => r.z = d)
      BY <1>3, <2>1, RollBackEffect
    <2> HIDE DEF r
    <2>3. CASE r.ok
      BY <1>3, <1>4, <2>1, <2>2, <2>3
    <2>4. CASE ~ r.ok
      <3>1. Sound(d, Popped(frames))
        BY <1>1, <1>3, <2>1, SoundPopped
      <3> QED BY <1>1, <1>2, <1>3, <2>1, <2>2, <2>4, <3>1 DEF IInv, TypeOK
    <2> QED BY <2>2, <2>3, <2>4
  (* No section was fed inside an item, so its roll back succeeds. *)
  <1>11. CASE ItemFailed
    <2> DEFINE r == ProcessBackup(d, {"RESTORE", "CONSUME"})
    <2>1. frames # << >> /\ Top(frames).kind = "item" /\ z' = r.z
          /\ frames' = Popped(frames) /\ mode' \in {"run", "failing"}
      BY <1>11 DEF ItemFailed, InFrame, d
    <2>2. ~ Top(d.backup_list).payload_moved
      BY <1>3, <2>1 DEF FrameSound
    <2>3. Pulled(d, r.z)
      BY <1>3, <2>1, <2>2, RollBackEffect
    <2> HIDE DEF r
    <2> QED BY <1>3, <1>4, <2>1, <2>3
  <1>12. CASE SessionFails
    BY <1>1, <1>12 DEF SessionFails, IInv, TypeOK
  <1> QED BY <1>5, <1>6, <1>7, <1>8, <1>9, <1>10, <1>11, <1>12

(* Nothing happens.                                                        *)
LEMMA StutterKeeps ==
    ASSUME IInv, UNCHANGED vars
    PROVE  IInv'
  BY DEF IInv, TypeOK, vars

(* Every step keeps the invariant.                                         *)
LEMMA NextKeeps ==
    ASSUME IInv, [Next]_vars
    PROVE  IInv'
  BY CallActions, OpenActions, CloseActions, FeedKeeps, FailureActions, StutterKeeps DEF Next

(* In every reachable state the inductive invariant holds.                 *)
THEOREM SpecInvariant == Spec => []IInv
  <1>1. Init => IInv
    BY InitSound
  <1>2. IInv /\ [Next]_vars => IInv'
    BY NextKeeps
  <1> QED BY <1>1, <1>2, PTL DEF Spec

-----------------------------------------------------------------------------
(* The state keeps its C types; elem_count never underflows and never      *)
(* exceeds ZCBOR_MAX_ELEM_COUNT.                                           *)
THEOREM TypeCorrect == Spec => []TypeOK
  <1>1. IInv => TypeOK
    BY DEF IInv
  <1> QED BY <1>1, SpecInvariant, PTL

(* The backup an open construct took stays at its place in the list,       *)
(* whatever other calls fail: ending or rolling back a construct uses the  *)
(* backup that construct took.                                             *)
THEOREM BackupsMatch == Spec => []BackupsMatchFrames
  <1>1. IInv => BackupsMatchFrames
    BY DEF IInv, Sound, FrameSound, BackupsMatchFrames
  <1> QED BY <1>1, SpecInvariant, PTL

(* payload_moved is set on exactly the backups that a new payload section  *)
(* has made unrestorable, and the others are still what was saved.         *)
THEOREM RestorePoints == Spec => []RestorePointsSound
  <1>1. IInv => RestorePointsSound
    BY DEF IInv, Sound, FrameSound, RestorePointsSound
  <1> QED BY <1>1, SpecInvariant, PTL

(* The fragment offsets of every backup on the stack move with the         *)
(* payload sections, however many are fed.                                 *)
THEOREM OffsetsFollow == Spec => []OffsetsFollowSections
  <1>1. IInv => OffsetsFollowSections
    BY DEF IInv, Sound, FrameSound, OffsetsFollowSections
  <1> QED BY <1>1, SpecInvariant, PTL

(* A roll back that succeeds puts the live state and the section back as   *)
(* they were when the arm, the iteration or the item began.                *)
LEMMA RollbackStepHolds ==
    ASSUME IInv, [Next]_vars
    PROVE  [RollbackStep]_vars
  <1> SUFFICES ASSUME Next, mode = "failing", mode' = "run", InFrame(Rollbacks)
               PROVE  /\ z'.state = Top(frames).taken
                      /\ z'.base = Top(frames).base /\ z'.section = Top(frames).section
    BY DEF RollbackStep
  <1> DEFINE d == DropTo(z, Len(frames))
             b == Top(d.backup_list)
             f == Top(frames)
  <1>1. frames # << >> /\ f.kind \in Rollbacks
    BY DEF InFrame
  <1>2. /\ d \in Context /\ d.base = z.base /\ d.section = z.section
        /\ d.backup_list # << >> /\ FrameSound(b, f, z.base, z.section)
    BY <1>1, DroppedTop
  <1>3. NextArm \/ StopIterating \/ ItemFailed
    BY <1>1 DEF Next, DecodeValue, StartContainer, EndContainer, StartBstr, EndBstr,
        StartCborFragments, EndCborFragments, StartFragments, DecodeFragment, EndFragments,
        FeedSection, StartUnion, StartIteration, StartItem, EndUnion, EndIteration, EndItem,
        Mismatch, ReturnFalse, ForceEndContainer, NoArmLeft, SessionFails,
        BetweenItems, Running, InFrame, Containers, Rollbacks
  <1> HIDE DEF d, f
  <1>4. ASSUME ~ b.payload_moved, NEW c, c.state = b, c.base = d.base, c.section = d.section,
               z' = c
        PROVE  z'.state = f.taken /\ z'.base = f.base /\ z'.section = f.section
    BY <1>2, <1>4 DEF FrameSound
  <1> HIDE DEF b
  <1>5. CASE NextArm
    <2> DEFINE r == ProcessBackup(d, {"RESTORE"})
    <2>1. z' = r.z /\ mode' = IF r.ok THEN "run" ELSE "failing"
      BY <1>5 DEF NextArm, UnionElem, d
    <2>2. /\ r.ok <=> ~ b.payload_moved
          /\ r.ok => Same(d, r.z) /\ r.z.state = b
      BY <1>2, RestoreEffect DEF b
    <2> HIDE DEF r
    <2> QED BY <1>4, <2>1, <2>2 DEF Same, f
  <1>6. CASE StopIterating
    <2> DEFINE r == ProcessBackup(d, {"RESTORE", "CONSUME"})
    <2>1. PICK enough \in BOOLEAN :
            z' = r.z /\ mode' = IF r.ok /\ enough THEN "run" ELSE "failing"
      BY <1>6 DEF StopIterating, d
    <2>2. /\ r.ok <=> ~ b.payload_moved
          /\ r.ok => Pulled(d, r.z) /\ r.z.state = b
      BY <1>2, RollBackEffect DEF b
    <2> HIDE DEF r
    <2> QED BY <1>4, <2>1, <2>2 DEF Pulled, f
  <1>7. CASE ItemFailed
    <2> DEFINE r == ProcessBackup(d, {"RESTORE", "CONSUME"})
    <2>1. z' = r.z /\ f.kind = "item"
      BY <1>7 DEF ItemFailed, InFrame, d, f
    <2>2. ~ b.payload_moved
      BY <1>2, <2>1 DEF FrameSound
    <2>3. Pulled(d, r.z) /\ r.z.state = b
      BY <1>2, <2>2, RollBackEffect DEF b
    <2> HIDE DEF r
    <2> QED BY <1>4, <2>1, <2>2, <2>3 DEF Pulled, f
  <1> QED BY <1>3, <1>5, <1>6, <1>7 DEF f

(* A union arm, an iteration or a *_frag_item call that fails and is       *)
(* rolled back leaves no trace, whatever it had opened and left behind.    *)
THEOREM RollbacksExact == Spec => RollbackExact
  <1>1. IInv /\ [Next]_vars => [RollbackStep]_vars
    BY RollbackStepHolds
  <1> QED BY <1>1, SpecInvariant, PTL DEF Spec, RollbackExact

(* The parent of a construct that ends is found again as it was left.      *)
LEMMA ParentStepHolds ==
    ASSUME IInv, [Next]_vars
    PROVE  [ParentStep]_vars
  <1> SUFFICES ASSUME Next, mode = "run", mode' = "run", InFrame(Containers \cup Strings),
                      frames' = Popped(frames)
               PROVE  /\ z'.state.elem_count = Top(frames).taken.elem_count
                      /\ z'.state.decode_state = Top(frames).taken.decode_state
                      /\ z'.state.payload - z.state.payload \in {0, 1}
                      /\ z'.base = z.base /\ z'.section = z.section
    BY DEF ParentStep
  <1> DEFINE b == Top(z.backup_list)
  <1>1. /\ frames # << >> /\ z \in Context /\ z.backup_list # << >>
        /\ frames \in Seq(Frame) /\ Len(z.backup_list) = Len(frames) /\ Sound(z, frames)
    BY BackupActive DEF InFrame, IInv, TypeOK
  <1>2. b.elem_count = Top(frames).taken.elem_count /\ b.decode_state = Top(frames).taken.decode_state
    BY <1>1, TopSound DEF FrameSound, Kept
  <1> HIDE DEF b
  <1>3. SUFFICES \E c : Resumed(z, c) /\ z' = c
    BY <1>2 DEF Resumed, Pulled, b
  <1>4. frames' # frames /\ \A f : frames' # Append(frames, f)
    <2>1. Len(frames') = Len(frames) - 1 /\ Len(frames) \in Nat
      BY <1>1, PoppedFrames
    <2> QED BY <1>1, <2>1
  <1>5. EndContainer \/ EndBstr \/ EndCborFragments
    BY <1>4, ZenonT(40) DEF Next, DecodeValue, StartContainer, StartBstr,
        StartCborFragments, StartFragments, DecodeFragment, EndFragments,
        FeedSection, StartUnion, StartIteration, StartItem, EndUnion, EndIteration, EndItem,
        Mismatch, ReturnFalse, ForceEndContainer, NextArm, NoArmLeft, StopIterating,
        ItemFailed, SessionFails, Call, OpenFrame,
        BetweenItems, Running, InFrame, Containers, Strings, Rollbacks
  <1>6. CASE EndContainer
    <2>1. PICK isBreak \in BOOLEAN : CloseFrame(ListMapEnd(z, isBreak))
      BY <1>6 DEF EndContainer
    <2> DEFINE r == ListMapEnd(z, isBreak)
    <2>2. (r.ok => Resumed(z, r.z)) /\ z' = r.z /\ mode' = IF r.ok THEN "run" ELSE "failing"
      BY <1>1, <2>1, ListMapEndEffect DEF CloseFrame
    <2> HIDE DEF r
    <2> QED BY <2>2
  <1>7. CASE EndBstr
    BY <1>1, <1>7, BstrEndEffect DEF EndBstr, CloseFrame
  <1>8. CASE EndCborFragments
    <2> DEFINE r == FragmentsEnd(z)
    <2>1. ~ z.state.inside_frag_str /\ z' = r.z /\ mode' = IF r.ok THEN "run" ELSE "failing"
      BY <1>8 DEF EndCborFragments, BetweenItems, CloseFrame
    <2>2. r.ok => Resumed(z, r.z)
      BY <1>1, <2>1, FragmentsEndEffect
    <2> HIDE DEF r
    <2> QED BY <2>1, <2>2
  <1> QED BY <1>5, <1>6, <1>7, <1>8

(* Ending a list, a map or a byte string resumes its parent where the      *)
(* child ended, with the parent's own element count and map bookkeeping.   *)
THEOREM ParentsResumed == Spec => ParentResumed
  <1>1. IInv /\ [Next]_vars => [ParentStep]_vars
    BY ParentStepHolds
  <1> QED BY <1>1, SpecInvariant, PTL DEF Spec, ParentResumed

-----------------------------------------------------------------------------
(* The strings: where one ends, what the string offset and the CBOR flag   *)
(* say, and how far a section reaches.  The live state and each backup are *)
(* in tune with the strings they are in: the live state with all open      *)
(* frames, the i-th backup with the i - 1 frames that were open when it    *)
(* was taken.  That rests on IInv: the i-th backup is the i-th frame's.    *)

IsString(f) == f.kind \in Strings

(* s knows the innermost string among the first k frames: how far into it  *)
(* a fragmented one is, or where in this section a whole one ends.         *)
Innermost(fs, k, i) == IsString(fs[i]) /\ \A j \in 1 .. k : IsString(fs[j]) => j <= i

KnowsString(s, fs, k, base) ==
    \A i \in 1 .. k : Innermost(fs, k, i) =>
        /\ fs[i].kind = "cborfrag" =>
            s.frag_offset_cbor = base - fs[i].first /\ s.str_total_len_cbor = fs[i].len
        /\ fs[i].kind = "bstr" => base + s.payload_end = fs[i].first + fs[i].len

(* When strings do not nest, s also knows whether it is inside one, and    *)
(* from the second section on it stops at its end: it sees of the section  *)
(* what the state around the string sees, the string's backup, up to that  *)
(* end; unless the section already began behind it.                        *)
KnowsFlag(s, fs, k) ==
    s.inside_cbor_bstr <=> \E i \in 1 .. k : IsString(fs[i])

StringPart(f, base, around) ==
    LET end == f.first + f.len IN
    IF base + around <= end \/ base > end THEN around ELSE end - base

StopsAtEnd(s, fs, k, c) ==
    \A i \in 1 .. k :
        fs[i].kind = "cborfrag" /\ fs[i].section < c.section
        => s.payload_end = StringPart(fs[i], c.base, c.backup_list[i].payload_end)

InTune(s, fs, k, c) ==
    /\ KnowsString(s, fs, k, c.base)
    /\ ~ NestedStrings => KnowsFlag(s, fs, k) /\ StopsAtEnd(s, fs, k, c)

OneString(fs) ==
    \A i, j \in DOMAIN fs : IsString(fs[i]) /\ IsString(fs[j]) => i = j

BackupsInTune(c, fs) ==
    \A i \in DOMAIN fs : InTune(c.backup_list[i], fs, i - 1, c)

StringsInv ==
    /\ BackupsInTune(z, frames)
    /\ mode = "run" => InTune(z.state, frames, Len(frames), z)
    /\ ~ NestedStrings => OneString(frames)

-----------------------------------------------------------------------------
(* What the functions do to the string part of a state.                    *)

SameString(s, t) ==
    /\ t.inside_cbor_bstr = s.inside_cbor_bstr
    /\ t.frag_offset_cbor = s.frag_offset_cbor
    /\ t.str_total_len_cbor = s.str_total_len_cbor
    /\ t.payload_end = s.payload_end

(* A state in tune stays so when its string part is copied.                *)
LEMMA TuneCopied ==
    ASSUME NEW s, NEW t, SameString(s, t), NEW fs, NEW k, NEW c,
           InTune(s, fs, k, c)
    PROVE  InTune(t, fs, k, c)
  BY DEF SameString, InTune, KnowsString, KnowsFlag, StopsAtEnd

(* Reading a header moves the payload pointer only.                        *)
LEMMA ValueExtractString ==
    ASSUME NEW c \in Context, NEW h \in Nat
    PROVE  SameString(c.state, ValueExtract(c, h).z.state)
  <1> DEFINE s == Without(c.state, h)
  <1>1. c.state \in State
    BY ContextFields
  <1>2. SameString(c.state, s)
    BY <1>1 DEF SameString, Without, State
  <1> HIDE DEF s
  <1>3. [c EXCEPT !.state = s].state = s
    BY DEF Context
  <1>4. \/ ValueExtract(c, h) = Done([c EXCEPT !.state = s])
        \/ \E err : ValueExtract(c, h) = Fail(c, err)
    BY DEF ValueExtract, s
  <1>5. \/ ValueExtract(c, h).z = [c EXCEPT !.state = s]
        \/ ValueExtract(c, h).z = c
    BY <1>4 DEF Done, Fail
  <1> QED BY <1>2, <1>3, <1>5 DEF SameString

(* So does reading the header of a string,                                 *)
LEMMA StrStartString ==
    ASSUME NEW c \in Context, NEW h \in Nat, NEW len \in Nat
    PROVE  SameString(c.state, StrStart(c, h, len).z.state)
  <1>1. \/ StrStart(c, h, len) = ValueExtract(c, h)
        \/ StrStart(c, h, len) = Fail(c, "NO_PAYLOAD")
    BY DEF StrStart
  <1>2. StrStart(c, h, len).z \in {ValueExtract(c, h).z, c}
    BY <1>1 DEF Fail
  <1> QED BY <1>2, ValueExtractString DEF SameString

(* decoding it,                                                            *)
LEMMA StrDecodeString ==
    ASSUME NEW c \in Context, NEW h \in Nat, NEW len \in Nat
    PROVE  SameString(c.state, StrDecode(c, h, len).z.state)
  <1> DEFINE v == StrStart(c, h, len)
             d == [v.z EXCEPT !.state.payload = @ + len]
  <1>1. SameString(c.state, v.z.state) /\ v.z \in Context
    BY StrStartString, StrStartEffect DEF Same
  <1>2. StrDecode(c, h, len).z \in {v.z, d}
    BY DEF StrDecode, Done
  <1> HIDE DEF v
  <1>3. SameString(v.z.state, d.state)
    BY <1>1 DEF SameString, Context, State
  <1> QED BY <1>1, <1>2, <1>3 DEF SameString

(* and reading a part of a fragmented one.                                 *)
LEMMA FragmentDecodeString ==
    ASSUME NEW c \in Context
    PROVE  SameString(c.state, FragmentDecode(c).z.state)
  <1> DEFINE left == c.state.payload_end - c.state.payload
             rem == StringRemainder(c.state)
             n == IF left < rem THEN left ELSE rem
             d == [c EXCEPT !.state.payload = @ + n]
  <1>1. \/ FragmentDecode(c) = Done(c) \/ FragmentDecode(c) = Done(d)
        \/ \E err : FragmentDecode(c) = Fail(c, err)
    BY DEF FragmentDecode
  <1>2. FragmentDecode(c).z \in {c, d}
    BY <1>1 DEF Done, Fail
  <1> HIDE DEF n
  <1>3. SameString(c.state, d.state)
    BY DEF SameString, Context, State
  <1> QED BY <1>2, <1>3 DEF SameString

(* A backup has the string part of the live state, which keeps it.         *)
LEMMA NewBackupString ==
    ASSUME NEW c \in Context, NEW elems \in 0 .. MaxElemCount, NewBackup(c, elems).ok
    PROVE  /\ SameString(c.state, NewBackup(c, elems).z.state)
           /\ SameString(c.state, Top(NewBackup(c, elems).z.backup_list))
           /\ NewBackup(c, elems).z.state.payload = c.state.payload
           /\ Top(NewBackup(c, elems).z.backup_list).payload = c.state.payload
  <1> DEFINE unmoved == [c.state EXCEPT !.payload_moved = FALSE]
             s == [unmoved EXCEPT !.elem_count = elems]
             list == Append(c.backup_list, unmoved)
             d == [c EXCEPT !.state = s, !.backup_list = list]
  <1>1. c.state \in State /\ c.backup_list \in Seq(State)
    BY ContextFields
  <1>2. SameString(c.state, unmoved) /\ unmoved \in State /\ unmoved.payload = c.state.payload
    BY <1>1 DEF SameString, State
  <1> HIDE DEF unmoved
  <1>3. SameString(unmoved, s) /\ s.payload = unmoved.payload
    BY <1>2 DEF SameString, State
  <1>4. Top(list) = unmoved
    BY <1>1, <1>2 DEF Top
  <1>5. ~ (Len(c.backup_list) >= NumBackups)
    BY DEF NewBackup, Fail
  <1>6. NewBackup(c, elems).z = d
    BY <1>5 DEF NewBackup, Done, unmoved
  <1> HIDE DEF s, list
  <1>7. d.state = s /\ d.backup_list = list
    BY DEF Context
  <1> HIDE DEF d
  <1> QED BY <1>2, <1>3, <1>4, <1>6, <1>7 DEF SameString

(* Opening a list or a map leaves the string part alone, and its backup    *)
(* has the same.                                                           *)
LEMMA ListMapStartString ==
    ASSUME NEW c \in Context, NEW h \in Nat,
           NEW n \in 0 .. MaxElemCount, NEW indefinite \in BOOLEAN,
           ListMapStart(c, h, n, indefinite).ok
    PROVE  LET d == ListMapStart(c, h, n, indefinite).z IN
           SameString(c.state, d.state) /\ SameString(c.state, Top(d.backup_list))
  <1> DEFINE v == ValueExtract(c, h)
             elems == IF indefinite THEN LargeElemCount ELSE n
             b == NewBackup(v.z, elems)
             u == [ExitMap(b.z.state.decode_state) EXCEPT
                    !.map_start_backup_num = Len(b.z.backup_list),
                    !.indefinite_length_array = indefinite]
             d == [b.z EXCEPT !.state.decode_state = u]
  <1>1. SameString(c.state, v.z.state) /\ v.z \in Context
    BY ValueExtractString, ValueExtractEffect DEF Same
  <1>2. elems \in 0 .. MaxElemCount
    BY LargeElemCountInRange
  <1>3. v.ok /\ b.ok
    BY DEF ListMapStart, Fail
  <1>4. ListMapStart(c, h, n, indefinite) = Done(d)
    BY <1>3 DEF ListMapStart
  <1> HIDE DEF v, elems
  <1>5. /\ SameString(v.z.state, b.z.state) /\ SameString(v.z.state, Top(b.z.backup_list))
        /\ b.z \in Context
    BY <1>1, <1>2, <1>3, NewBackupString, NewBackupEffect DEF Pushed
  <1> HIDE DEF b, u
  <1>6. SameString(b.z.state, d.state) /\ d.backup_list = b.z.backup_list
    BY <1>5 DEF SameString, Context, State
  <1> HIDE DEF d
  <1> QED BY <1>1, <1>4, <1>5, <1>6 DEF Done, SameString

(* The same for a map, whose count is doubled.                             *)
LEMMA MapStartString ==
    ASSUME NEW c \in Context, NEW h \in Nat,
           NEW n \in 0 .. MaxElemCount, NEW indefinite \in BOOLEAN,
           MapStart(c, h, n, indefinite).ok
    PROVE  LET d == MapStart(c, h, n, indefinite).z IN
           SameString(c.state, d.state) /\ SameString(c.state, Top(d.backup_list))
  <1> DEFINE v == ListMapStart(c, h, n, indefinite)
             d == [v.z EXCEPT !.state.elem_count = 2 * n]
  <1>1. v.ok
    BY DEF MapStart
  <1>2. /\ SameString(c.state, v.z.state) /\ SameString(c.state, Top(v.z.backup_list))
        /\ v.z \in Context
    BY <1>1, ListMapStartString, ListMapStartEffect DEF Pushed
  <1>3. MapStart(c, h, n, indefinite).z \in {v.z, d}
    BY DEF MapStart, Done, Fail
  <1> HIDE DEF v
  <1>4. SameString(v.z.state, d.state) /\ d.backup_list = v.z.backup_list
    BY <1>2 DEF SameString, Context, State
  <1> HIDE DEF d
  <1> QED BY <1>2, <1>3, <1>4 DEF SameString

(* Inside a whole string the section ends where the string does.           *)
LEMMA BstrStartString ==
    ASSUME NEW c \in Context, NEW h \in Nat, NEW len \in Nat, BstrStart(c, h, len).ok
    PROVE  LET d == BstrStart(c, h, len).z IN
           /\ SameString(c.state, Top(d.backup_list))
           /\ d.state.inside_cbor_bstr
           /\ d.state.payload_end = d.state.payload + len
  <1> DEFINE v == StrStart(c, h, len)
             b == NewBackup(v.z, MaxElemCount)
             t == ExitMap(b.z.state.decode_state)
             end == v.z.state.payload + len
             d == [b.z EXCEPT !.state.decode_state = t,
                              !.state.payload_end = end,
                              !.state.inside_cbor_bstr = TRUE]
  <1>1. SameString(c.state, v.z.state) /\ v.z \in Context
    BY StrStartString, StrStartEffect DEF Same
  <1>2. v.ok /\ b.ok
    BY DEF BstrStart, Fail
  <1>3. BstrStart(c, h, len) = Done(d)
    BY <1>2 DEF BstrStart
  <1>4. end = v.z.state.payload + len
    OBVIOUS
  <1> HIDE DEF v, end
  <1>5. /\ SameString(v.z.state, Top(b.z.backup_list)) /\ b.z \in Context
        /\ b.z.state.payload = v.z.state.payload
    BY <1>1, <1>2, MaxElemCountAssumption, NewBackupString, NewBackupEffect DEF Pushed
  <1> HIDE DEF b, t
  <1>6. /\ d.backup_list = b.z.backup_list /\ d.state.inside_cbor_bstr
        /\ d.state.payload_end = end /\ d.state.payload = b.z.state.payload
    BY <1>5 DEF Context, State
  <1> HIDE DEF d
  <1> QED BY <1>1, <1>3, <1>4, <1>5, <1>6 DEF Done, SameString

(* A fragmented string starts at the payload pointer, and is as long as    *)
(* its header says.                                                        *)
LEMMA FragmentsStartString ==
    ASSUME NEW c \in Context, NEW h \in Nat, NEW len \in Nat, NEW cborBstr \in BOOLEAN,
           FragmentsStart(c, h, len, cborBstr).ok
    PROVE  LET d == FragmentsStart(c, h, len, cborBstr).z IN
           IF cborBstr
           THEN /\ SameString(c.state, Top(d.backup_list))
                /\ d.state.inside_cbor_bstr
                /\ d.state.frag_offset_cbor = 0 - d.state.payload
                /\ d.state.str_total_len_cbor = len
           ELSE SameString(c.state, d.state)
  <1> DEFINE v == ValueExtract(c, h)
             offset == 0 - v.z.state.payload
             b == NewBackup(v.z, MaxElemCount)
             plain == [v.z EXCEPT !.state.frag_offset = offset,
                                  !.state.str_total_len = len,
                                  !.state.inside_frag_str = TRUE]
             cbor == [b.z EXCEPT !.state.frag_offset_cbor = offset,
                                 !.state.str_total_len_cbor = len,
                                 !.state.inside_cbor_bstr = TRUE]
  <1>1. SameString(c.state, v.z.state) /\ v.z \in Context
    BY ValueExtractString, ValueExtractEffect DEF Same
  <1>2. v.ok
    BY DEF FragmentsStart
  <1>3. CASE ~ cborBstr
    <2>1. FragmentsStart(c, h, len, cborBstr) = Done(plain)
      BY <1>2, <1>3 DEF FragmentsStart, Fail
    <2> HIDE DEF v, offset
    <2>2. SameString(v.z.state, plain.state)
      BY <1>1 DEF SameString, Context, State
    <2> HIDE DEF plain
    <2> QED BY <1>1, <1>3, <2>1, <2>2 DEF Done, SameString
  <1>4. CASE cborBstr
    <2>1. b.ok
      BY <1>2, <1>4 DEF FragmentsStart, Fail
    <2>2. FragmentsStart(c, h, len, cborBstr) = Done(cbor)
      BY <1>2, <1>4, <2>1 DEF FragmentsStart, Fail
    <2>3. offset = 0 - v.z.state.payload
      OBVIOUS
    <2> HIDE DEF v, offset
    <2>4. /\ SameString(v.z.state, Top(b.z.backup_list)) /\ b.z \in Context
          /\ b.z.state.payload = v.z.state.payload
      BY <1>1, <2>1, MaxElemCountAssumption, NewBackupString, NewBackupEffect DEF Pushed
    <2> HIDE DEF b
    <2>5. /\ cbor.backup_list = b.z.backup_list /\ cbor.state.inside_cbor_bstr
          /\ cbor.state.frag_offset_cbor = offset /\ cbor.state.str_total_len_cbor = len
          /\ cbor.state.payload = b.z.state.payload
      BY <2>4 DEF Context, State
    <2>6. SameString(c.state, Top(cbor.backup_list))
      BY <1>1, <2>4, <2>5 DEF SameString
    <2>7. cbor.state.frag_offset_cbor = 0 - cbor.state.payload
      BY <2>3, <2>4, <2>5
    <2> HIDE DEF cbor, plain
    <2>8. FragmentsStart(c, h, len, cborBstr).z = cbor
      BY <2>2 DEF Done
    <2> QED BY <1>4, <2>5, <2>6, <2>7, <2>8
  <1> QED BY <1>3, <1>4

(* Ending a container resumes the string part of its backup.               *)
LEMMA ListMapEndString ==
    ASSUME NEW c \in Context, c.backup_list # << >>, NEW isBreak \in BOOLEAN
    PROVE  SameString(Top(c.backup_list), ListMapEnd(c, isBreak).z.state)
  <1> DEFINE v == ProcessBackup(c, ResumeFlags)
             b == Top(c.backup_list)
             d == [v.z EXCEPT !.state.payload = @ + 1]
  <1>1. v.ok = TRUE /\ v.z \in Context /\ v.z.state = [b EXCEPT !.payload = c.state.payload]
    BY ResumeEffect DEF Pulled
  <1>2. b \in State
    BY ContextFields DEF Top
  <1>3. SameString(b, v.z.state)
    BY <1>1, <1>2 DEF SameString, State
  <1>4. ListMapEnd(c, isBreak).z \in {v.z, d}
    BY <1>1 DEF ListMapEnd, ResumeFlags, Done, Fail
  <1> HIDE DEF v, b
  <1>5. SameString(v.z.state, d.state)
    BY <1>1 DEF SameString, Context, State
  <1> HIDE DEF d
  <1> QED BY <1>3, <1>4, <1>5 DEF SameString, b

(* So does ending a string, which needs the payload pointer at its end.    *)
LEMMA BstrEndString ==
    ASSUME NEW c \in Context, c.backup_list # << >>, BstrEnd(c).ok
    PROVE  /\ SameString(Top(c.backup_list), BstrEnd(c).z.state)
           /\ c.state.payload = c.state.payload_end
           /\ BstrEnd(c).z.state.payload = c.state.payload
           /\ BstrEnd(c).z \in Context /\ BstrEnd(c).z.base = c.base
  <1> DEFINE v == ProcessBackup(c, ResumeFlags)
             b == Top(c.backup_list)
  <1>1. /\ v.z \in Context /\ v.z.base = c.base
        /\ v.z.state = [b EXCEPT !.payload = c.state.payload]
    BY ResumeEffect DEF Pulled
  <1>2. b \in State
    BY ContextFields DEF Top
  <1>3. SameString(b, v.z.state) /\ v.z.state.payload = c.state.payload
    BY <1>1, <1>2 DEF SameString, State
  <1>4. c.state.payload = c.state.payload_end /\ BstrEnd(c) = v
    BY DEF BstrEnd, ResumeFlags, Fail
  <1> QED BY <1>1, <1>3, <1>4

(* Ending a fragmented string needs the payload pointer at its end too.    *)
LEMMA FragmentsEndString ==
    ASSUME NEW c \in Context, c.state.inside_frag_str \/ c.backup_list # << >>,
           FragmentsEnd(c).ok
    PROVE  LET d == FragmentsEnd(c).z
               b == Top(c.backup_list) IN
           IF c.state.inside_frag_str
           THEN SameString(c.state, d.state)
           ELSE /\ ~ d.state.inside_cbor_bstr
                /\ d.state.frag_offset_cbor = b.frag_offset_cbor
                /\ d.state.str_total_len_cbor = b.str_total_len_cbor
                /\ d.state.payload_end = b.payload_end
                /\ c.state.payload + c.state.frag_offset_cbor = c.state.str_total_len_cbor
                /\ d.state.payload = c.state.payload /\ d.base = c.base
  <1> DEFINE v == BstrEnd(c)
             plain == [c EXCEPT !.state.inside_frag_str = FALSE]
             cbor == [v.z EXCEPT !.state.inside_cbor_bstr = FALSE]
  <1>1. StringError(c.state) = "SUCCESS" /\ StringRemainder(c.state) = 0
    BY DEF FragmentsEnd, Fail
  <1>2. c.state \in State
    BY ContextFields
  <1>3. CASE c.state.inside_frag_str
    <2>1. FragmentsEnd(c) = Done(plain)
      BY <1>1, <1>3 DEF FragmentsEnd
    <2>2. SameString(c.state, plain.state)
      BY DEF SameString, Context, State
    <2> HIDE DEF plain
    <2> QED BY <1>3, <2>1, <2>2 DEF Done
  <1>4. CASE ~ c.state.inside_frag_str
    <2>1. v.ok
      BY <1>1, <1>4 DEF FragmentsEnd
    <2>2. FragmentsEnd(c) = Done(cbor)
      BY <1>1, <1>4, <2>1 DEF FragmentsEnd
    <2>3. c.state.payload + c.state.frag_offset_cbor = c.state.str_total_len_cbor
      BY <1>1, <1>2, <1>4 DEF StringRemainder, StringOffset, StringTotal, State
    <2>4. /\ SameString(Top(c.backup_list), v.z.state) /\ v.z.state.payload = c.state.payload
          /\ v.z \in Context /\ v.z.base = c.base
      BY <1>4, <2>1, BstrEndString
    <2> HIDE DEF v
    <2>5. /\ ~ cbor.state.inside_cbor_bstr /\ cbor.base = v.z.base
          /\ cbor.state.frag_offset_cbor = v.z.state.frag_offset_cbor
          /\ cbor.state.str_total_len_cbor = v.z.state.str_total_len_cbor
          /\ cbor.state.payload_end = v.z.state.payload_end
          /\ cbor.state.payload = v.z.state.payload
      BY <2>4 DEF Context, State
    <2> HIDE DEF cbor
    <2> QED BY <1>4, <2>2, <2>3, <2>4, <2>5 DEF Done, SameString
  <1> QED BY <1>3, <1>4

-----------------------------------------------------------------------------
(* What keeps the states in tune.                                          *)

(* Only the first k frames count.                                          *)
LEMMA TunePrefix ==
    ASSUME NEW s, NEW fs, NEW gs, NEW k \in Nat, \A i \in 1 .. k : gs[i] = fs[i],
           NEW c, InTune(s, fs, k, c)
    PROVE  InTune(s, gs, k, c)
  <1>1. KnowsString(s, gs, k, c.base)
    BY DEF InTune, KnowsString, Innermost
  <1>2. KnowsFlag(s, fs, k) => KnowsFlag(s, gs, k)
    BY DEF KnowsFlag
  <1>3. StopsAtEnd(s, fs, k, c) => StopsAtEnd(s, gs, k, c)
    BY DEF StopsAtEnd
  <1> QED BY <1>1, <1>2, <1>3 DEF InTune

(* A frame that is no string makes no difference.                          *)
LEMMA TuneOver ==
    ASSUME NEW s, NEW fs, NEW k \in Nat, ~ IsString(fs[k + 1]), NEW c
    PROVE  InTune(s, fs, k, c) <=> InTune(s, fs, k + 1, c)
  <1>1. 1 .. k + 1 = (1 .. k) \cup {k + 1}
    OBVIOUS
  <1>2. fs[k + 1].kind # "cborfrag"
    BY DEF IsString, Strings
  <1>3. KnowsString(s, fs, k, c.base) <=> KnowsString(s, fs, k + 1, c.base)
    BY <1>1, <1>2 DEF KnowsString, Innermost
  <1>4. KnowsFlag(s, fs, k) <=> KnowsFlag(s, fs, k + 1)
    BY <1>1 DEF KnowsFlag
  <1>5. StopsAtEnd(s, fs, k, c) <=> StopsAtEnd(s, fs, k + 1, c)
    BY <1>1, <1>2 DEF StopsAtEnd
  <1> QED BY <1>3, <1>4, <1>5 DEF InTune

(* A call that feeds no section keeps base and section, and what happens   *)
(* to the backups of newer frames makes no difference.                     *)
LEMMA TuneAround ==
    ASSUME NEW s, NEW fs, NEW k, NEW c, InTune(s, fs, k, c),
           NEW d, d.base = c.base, d.section = c.section,
           \A i \in 1 .. k : d.backup_list[i] = c.backup_list[i]
    PROVE  InTune(s, fs, k, d)
  BY DEF InTune, StopsAtEnd

(* Backups and frames that are left as they were stay in tune.             *)
LEMMA BackupsKept ==
    ASSUME NEW c, NEW d, NEW fs \in Seq(Frame), NEW gs \in Seq(Frame),
           \A i \in 1 .. Len(gs) : /\ i \in DOMAIN fs /\ gs[i] = fs[i]
                                   /\ d.backup_list[i] = c.backup_list[i],
           d.base = c.base, d.section = c.section, BackupsInTune(c, fs)
    PROVE  BackupsInTune(d, gs)
  <1> SUFFICES ASSUME NEW i \in DOMAIN gs
               PROVE  InTune(d.backup_list[i], gs, i - 1, d)
    BY DEF BackupsInTune
  <1>1. i \in 1 .. Len(gs) /\ i - 1 \in Nat /\ \A j \in 1 .. i - 1 : gs[j] = fs[j]
    OBVIOUS
  <1>2. InTune(c.backup_list[i], fs, i - 1, c)
    BY <1>1 DEF BackupsInTune
  <1>3. \A j \in 1 .. i - 1 : d.backup_list[j] = c.backup_list[j]
    BY <1>1
  <1>4. InTune(c.backup_list[i], fs, i - 1, d)
    BY <1>2, <1>3, TuneAround
  <1>5. d.backup_list[i] = c.backup_list[i]
    BY <1>1
  <1> QED BY <1>1, <1>4, <1>5, TunePrefix

(* What a state sees of the section it enters.                             *)
LEMMA EnteredEnd ==
    ASSUME NEW s \in State, NEW len \in Nat, NEW prev_len \in Nat
    PROVE  LET e == EnterSection(s, len, prev_len)
               left == s.str_total_len_cbor - (s.frag_offset_cbor + prev_len) IN
           /\ e.payload = 0 /\ e.payload_end \in 0 .. len
           /\ e.payload_end = IF s.inside_cbor_bstr THEN ClampToString(len, left) ELSE len
  <1> DEFINE fo == s.frag_offset_cbor + prev_len
             ffo == s.frag_offset + prev_len
             end == IF s.inside_cbor_bstr
                    THEN ClampToString(len, s.str_total_len_cbor - fo) ELSE len
             e == [s EXCEPT !.payload = 0, !.payload_end = end,
                            !.frag_offset = ffo, !.frag_offset_cbor = fo]
  <1>1. EnterSection(s, len, prev_len) = e
    BY DEF EnterSection
  <1>2. end \in 0 .. len
    BY DEF ClampToString
  <1> HIDE DEF end, ffo, fo
  <1>3. e.payload = 0 /\ e.payload_end = end
    BY DEF State
  <1> HIDE DEF e
  <1> QED BY <1>1, <1>2, <1>3 DEF end, fo

(* The string of a state moves into the next section with it, and its end  *)
(* limits what is read there.                                              *)
LEMMA TuneFed ==
    ASSUME NEW s \in State, NEW t, NEW len \in Nat, NEW prev_len \in Nat,
           SameString(EnterSection(s, len, prev_len), t),
           NEW fs \in Seq(Frame), NEW k \in 0 .. Len(fs),
           \A i \in DOMAIN fs : fs[i].kind # "bstr", ~ NestedStrings => OneString(fs),
           NEW c, c.base \in Nat, InTune(s, fs, k, c),
           NEW d, d.base = c.base + prev_len,
           ~ NestedStrings => \A i \in 1 .. k :
                IsString(fs[i]) => d.backup_list[i].payload_end = len
    PROVE  InTune(t, fs, k, d)
  <1> DEFINE fo == s.frag_offset_cbor + prev_len
             base == c.base
  <1>1. /\ t.frag_offset_cbor = fo
        /\ t.inside_cbor_bstr = s.inside_cbor_bstr
        /\ t.str_total_len_cbor = s.str_total_len_cbor
        /\ t.payload_end = IF s.inside_cbor_bstr
                           THEN ClampToString(len, s.str_total_len_cbor - fo) ELSE len
    <2> DEFINE end == IF s.inside_cbor_bstr
                      THEN ClampToString(len, s.str_total_len_cbor - fo) ELSE len
               ffo == s.frag_offset + prev_len
               e == [s EXCEPT !.payload = 0, !.payload_end = end,
                              !.frag_offset = ffo, !.frag_offset_cbor = fo]
    <2>1. EnterSection(s, len, prev_len) = e
      BY DEF EnterSection
    <2>2. t.payload_end = e.payload_end /\ t.frag_offset_cbor = e.frag_offset_cbor
          /\ t.inside_cbor_bstr = e.inside_cbor_bstr
          /\ t.str_total_len_cbor = e.str_total_len_cbor
      BY <2>1 DEF SameString
    <2>3. end = IF s.inside_cbor_bstr
                THEN ClampToString(len, s.str_total_len_cbor - fo) ELSE len
      OBVIOUS
    <2> HIDE DEF end, fo, ffo
    <2>4. /\ e.payload_end = end /\ e.frag_offset_cbor = fo
          /\ e.inside_cbor_bstr = s.inside_cbor_bstr
          /\ e.str_total_len_cbor = s.str_total_len_cbor
      BY DEF State
    <2> HIDE DEF e
    <2> QED BY <2>2, <2>3, <2>4
  <1>2. \A i \in 1 .. k : i \in DOMAIN fs /\ fs[i] \in Frame
    OBVIOUS
  <1>3. \A i \in 1 .. k : fs[i].first \in Nat /\ fs[i].len \in Nat /\ fs[i].section \in Nat
    BY <1>2 DEF Frame
  <1>4. \A i \in 1 .. k : IsString(fs[i]) <=> fs[i].kind = "cborfrag"
    BY <1>2 DEF IsString, Strings
  <1>5. KnowsString(t, fs, k, d.base)
    <2> DEFINE moved == base + prev_len
    <2>1. ASSUME NEW i \in 1 .. k, Innermost(fs, k, i)
          PROVE  /\ fs[i].kind # "bstr"
                 /\ t.frag_offset_cbor = moved - fs[i].first
                 /\ t.str_total_len_cbor = fs[i].len
      <3>1. fs[i].kind = "cborfrag"
        BY <1>4, <2>1 DEF Innermost
      <3>2. s.frag_offset_cbor = base - fs[i].first /\ s.str_total_len_cbor = fs[i].len
        BY <2>1, <3>1 DEF InTune, KnowsString
      <3>3. s.frag_offset_cbor + prev_len = moved - fs[i].first
        BY <1>3, <3>2
      <3> QED BY <1>1, <3>1, <3>2, <3>3
    <2> HIDE DEF moved
    <2>2. KnowsString(t, fs, k, moved)
      BY <2>1 DEF KnowsString
    <2>3. d.base = moved
      BY DEF moved
    <2> QED BY <2>2, <2>3
  <1>6. ASSUME ~ NestedStrings PROVE KnowsFlag(t, fs, k)
    BY <1>1, <1>6 DEF InTune, KnowsFlag
  <1>7. ASSUME ~ NestedStrings PROVE StopsAtEnd(t, fs, k, d)
    <2> SUFFICES ASSUME NEW i \in 1 .. k, fs[i].kind = "cborfrag"
                 PROVE  t.payload_end =
                            StringPart(fs[i], d.base, d.backup_list[i].payload_end)
      BY DEF StopsAtEnd
    <2>1. IsString(fs[i]) /\ \A j \in 1 .. k : IsString(fs[j]) => j = i
      BY <1>2, <1>4, <1>7 DEF OneString
    <2>2. s.inside_cbor_bstr
      BY <1>7, <2>1 DEF InTune, KnowsFlag
    <2>3. s.frag_offset_cbor = base - fs[i].first /\ s.str_total_len_cbor = fs[i].len
      BY <2>1 DEF InTune, KnowsString, Innermost
    <2> DEFINE left == fs[i].first + fs[i].len - (base + prev_len)
    <2>4. left \in Int /\ s.str_total_len_cbor - fo = left
      BY <1>3, <2>3, SMTT(30)
    <2>5. t.payload_end = ClampToString(len, left)
      BY <1>1, <2>2, <2>4
    <2>6. ClampToString(len, left) = StringPart(fs[i], base + prev_len, len)
      <3> DEFINE end == fs[i].first + fs[i].len
                 moved == base + prev_len
      <3>1. end \in Nat /\ moved \in Nat /\ left = end - moved
        BY <1>3
      <3> HIDE DEF end, moved, left
      <3>2. ClampToString(len, left) =
                IF moved + len <= end \/ moved > end THEN len ELSE end - moved
        BY <3>1 DEF ClampToString
      <3> QED BY <3>2 DEF StringPart, end, moved
    <2>7. d.base = base + prev_len /\ d.backup_list[i].payload_end = len
      BY <1>7, <2>1
    <2> QED BY <2>5, <2>6, <2>7
  <1> QED BY <1>5, <1>6, <1>7 DEF InTune

-----------------------------------------------------------------------------
(* The steps.                                                              *)

(* StringsInv holds at the start.                                          *)
LEMMA InitStrings == Init => StringsInv
  <1> SUFFICES ASSUME Init PROVE StringsInv
    OBVIOUS
  <1>1. frames = << >> /\ Len(frames) = 0 /\ DOMAIN frames = {}
    BY DEF Init
  <1>2. ~ z.state.inside_cbor_bstr
    BY DEF Init, NewState
  <1>3. BackupsInTune(z, frames) /\ OneString(frames)
    BY <1>1 DEF BackupsInTune, OneString
  <1>4. InTune(z.state, frames, 0, z)
    BY <1>2 DEF InTune, KnowsString, KnowsFlag, StopsAtEnd
  <1> QED BY <1>1, <1>3, <1>4 DEF StringsInv

(* What IInv says of the frames and the backups.                           *)
LEMMA FramesHaveBackups ==
    ASSUME IInv
    PROVE  /\ z \in Context /\ z.state \in State /\ frames \in Seq(Frame)
           /\ z.backup_list \in Seq(State) /\ Len(z.backup_list) \in Nat
           /\ Len(frames) \in Nat /\ DOMAIN frames = 1 .. Len(frames)
           /\ Len(frames) <= Len(z.backup_list)
           /\ mode = "run" => Len(frames) = Len(z.backup_list)
           /\ z.base \in Nat /\ z.section \in Nat
           /\ \A i \in DOMAIN frames : frames[i] \in Frame
  BY ContextFields DEF IInv, TypeOK, Sound

(* A call inside the frame.                                                *)
LEMMA CallTuned ==
    ASSUME IInv, StringsInv, mode = "run", NEW r, r.ok \in BOOLEAN, Same(z, r.z),
           r.ok => SameString(z.state, r.z.state), Call(r)
    PROVE  StringsInv'
  <1>1. z' = r.z /\ frames' = frames /\ (mode' = "run" => r.ok)
    BY DEF Call
  <1>2. z'.backup_list = z.backup_list /\ z'.base = z.base /\ z'.section = z.section
    BY <1>1 DEF Same
  <1>3. BackupsInTune(z', frames')
    BY <1>1, <1>2, FramesHaveBackups, BackupsKept DEF StringsInv
  <1>4. ASSUME r.ok PROVE InTune(z'.state, frames, Len(frames), z')
    <2>1. InTune(z'.state, frames, Len(frames), z)
      BY <1>1, <1>4, TuneCopied DEF StringsInv
    <2> QED BY <1>2, <2>1, TuneAround
  <1> QED BY <1>1, <1>2, <1>3, <1>4 DEF StringsInv

(* Frames that are opened keep the ones below.                             *)
LEMMA FrameAdded ==
    ASSUME IInv, NEW f \in Frame
    PROVE  LET gs == Append(frames, f)  n == Len(frames) IN
           /\ gs \in Seq(Frame) /\ Len(gs) = n + 1 /\ gs[n + 1] = f
           /\ DOMAIN gs = 1 .. n + 1
           /\ \A i \in 1 .. n : gs[i] = frames[i] /\ i \in DOMAIN frames
  BY FramesHaveBackups

(* A call that failed and may have left a backup.                          *)
LEMMA FailedTuned ==
    ASSUME IInv, StringsInv, NEW d, d = z \/ Pushed(z, d)
    PROVE  /\ BackupsInTune(d, frames)
           /\ d.base = z.base /\ d.section = z.section
           /\ \A i \in 1 .. Len(frames) : d.backup_list[i] = z.backup_list[i]
  <1>1. d.base = z.base /\ d.section = z.section
    BY DEF Pushed
  <1>2. \A i \in 1 .. Len(frames) : d.backup_list[i] = z.backup_list[i]
    <2>1. CASE d = z
      BY <2>1
    <2>2. CASE Pushed(z, d)
      <3>1. PICK b \in State : d.backup_list = Append(z.backup_list, b)
        BY <2>2 DEF Pushed
      <3>2. \A i \in 1 .. Len(frames) : i \in 1 .. Len(z.backup_list)
        BY FramesHaveBackups
      <3> QED BY <3>1, <3>2, FramesHaveBackups
    <2> QED BY <2>1, <2>2
  <1>3. BackupsInTune(d, frames)
    BY <1>1, <1>2, FramesHaveBackups, BackupsKept DEF StringsInv
  <1> QED BY <1>1, <1>2, <1>3

(* A construct that opens: its backup is in tune with the frames below.    *)
LEMMA OpenedTuned ==
    ASSUME IInv, StringsInv, mode = "run", NEW d, Pushed(z, d),
           SameString(z.state, Top(d.backup_list)),
           NEW f \in Frame
    PROVE  BackupsInTune(d, Append(frames, f))
  <1> DEFINE gs == Append(frames, f)
             n == Len(frames)
  <1>1. /\ gs \in Seq(Frame) /\ Len(gs) = n + 1 /\ gs[n + 1] = f /\ n \in Nat
        /\ DOMAIN gs = 1 .. n + 1
        /\ \A i \in 1 .. n : gs[i] = frames[i] /\ i \in DOMAIN frames
    BY FrameAdded, FramesHaveBackups
  <1>2. /\ d.base = z.base /\ d.section = z.section
        /\ \A i \in 1 .. n : d.backup_list[i] = z.backup_list[i]
    BY FailedTuned
  <1>3. Top(d.backup_list) = d.backup_list[n + 1]
    <2>1. PICK b \in State : d.backup_list = Append(z.backup_list, b)
      BY DEF Pushed
    <2> QED BY <2>1, FramesHaveBackups DEF Top
  <1> HIDE DEF gs, n
  <1>4. InTune(Top(d.backup_list), frames, n, d)
    <2>1. InTune(Top(d.backup_list), frames, n, z)
      BY TuneCopied DEF StringsInv, n
    <2> QED BY <1>2, <2>1, TuneAround
  <1>5. InTune(d.backup_list[n + 1], gs, n, d)
    BY <1>1, <1>3, <1>4, TunePrefix
  <1>6. ASSUME NEW i \in 1 .. n
        PROVE  InTune(d.backup_list[i], gs, i - 1, d)
    <2>1. i - 1 \in Nat /\ \A j \in 1 .. i - 1 : gs[j] = frames[j]
      BY <1>1
    <2>2. InTune(z.backup_list[i], frames, i - 1, z)
      BY <1>1 DEF StringsInv, BackupsInTune
    <2>3. d.backup_list[i] = z.backup_list[i]
          /\ \A j \in 1 .. i - 1 : d.backup_list[j] = z.backup_list[j]
      BY <1>1, <1>2
    <2>4. InTune(d.backup_list[i], frames, i - 1, d)
      BY <1>2, <2>2, <2>3, TuneAround
    <2> QED BY <2>1, <2>4, TunePrefix
  <1>7. \A i \in DOMAIN gs : i \in 1 .. n \/ (i = n + 1 /\ i - 1 = n)
    BY <1>1
  <1>8. BackupsInTune(d, gs)
    BY <1>5, <1>6, <1>7 DEF BackupsInTune
  <1> QED BY <1>8 DEF gs

(* A frame that opens has the types of a frame.                            *)
LEMMA OpenedFrame ==
    ASSUME IInv, mode = "run", NEW d, Pushed(z, d),
           NEW kind \in Containers \cup Strings \cup Rollbacks, NEW len \in Nat
    PROVE  FrameOf(kind, d, len) \in Frame
  <1>1. d \in Context /\ d.state \in State /\ d.base \in Nat /\ d.section \in Nat
    BY ContextFields DEF Pushed
  <1>2. Top(d.backup_list) \in State
    BY FramesHaveBackups DEF Pushed, Top
  <1>3. d.state.payload \in Nat
    BY <1>1 DEF State
  <1>4. d.base + d.state.payload \in Nat
    BY <1>1, <1>3
  <1> QED BY <1>1, <1>2, <1>4 DEF FrameOf, Frame

(* A container or a rollback point opens.                                  *)
LEMMA OpenTuned ==
    ASSUME IInv, StringsInv, mode = "run", NEW r, r.ok \in BOOLEAN,
           r.ok => Pushed(z, r.z), ~ r.ok => r.z = z \/ Pushed(z, r.z),
           r.ok => SameString(z.state, r.z.state) /\ SameString(z.state, Top(r.z.backup_list)),
           NEW kind \in Containers \cup Rollbacks, NEW len \in Nat,
           OpenFrame(kind, r, len)
    PROVE  StringsInv'
  <1>1. CASE ~ r.ok
    <2>1. z' = r.z /\ frames' = frames /\ mode' # "run" /\ BackupsInTune(r.z, frames)
      BY <1>1, FailedTuned DEF OpenFrame
    <2>2. BackupsInTune(z', frames')
      BY <2>1
    <2> QED BY <2>1, <2>2 DEF StringsInv
  <1>2. CASE r.ok
    <2> DEFINE f == FrameOf(kind, r.z, len)
               gs == Append(frames, f)
               n == Len(frames)
    <2>1. f \in Frame /\ ~ IsString(f)
      BY <1>2, OpenedFrame DEF FrameOf, IsString, Strings, Containers, Rollbacks
    <2>2. z' = r.z /\ frames' = gs
      BY <1>2 DEF OpenFrame
    <2> HIDE DEF f
    <2>3. BackupsInTune(r.z, gs)
      BY <1>2, <2>1, OpenedTuned
    <2>4. /\ Len(gs) = n + 1 /\ n \in Nat /\ gs[n + 1] = f /\ DOMAIN gs = 1 .. n + 1
          /\ \A i \in 1 .. n : gs[i] = frames[i] /\ i \in DOMAIN frames
      BY <2>1, FrameAdded, FramesHaveBackups
    <2> HIDE DEF gs, n
    <2>5. /\ r.z.base = z.base /\ r.z.section = z.section
          /\ \A i \in 1 .. n : r.z.backup_list[i] = z.backup_list[i]
      BY <1>2, FailedTuned DEF n
    <2>6. InTune(r.z.state, frames, n, z)
      BY <1>2, TuneCopied DEF StringsInv, n
    <2>7. InTune(r.z.state, gs, n, r.z)
      BY <2>4, <2>5, <2>6, TuneAround, TunePrefix
    <2>8. InTune(r.z.state, gs, Len(gs), r.z)
      BY <2>1, <2>4, <2>7, TuneOver
    <2>9. ~ NestedStrings => OneString(gs)
      <3>1. \A i \in DOMAIN gs : IsString(gs[i]) => i \in 1 .. n
        BY <2>1, <2>4
      <3> QED BY <2>4, <3>1 DEF StringsInv, OneString
    <2>10. /\ BackupsInTune(z', frames')
           /\ InTune(z'.state, frames', Len(frames'), z')
           /\ ~ NestedStrings => OneString(frames')
      BY <2>2, <2>3, <2>8, <2>9
    <2> QED BY <2>10 DEF StringsInv
  <1> QED BY <1>1, <1>2

(* A CBOR byte string opens.                                               *)
LEMMA OpenStringTuned ==
    ASSUME IInv, StringsInv, mode = "run", StringFits, NEW r, r.ok \in BOOLEAN,
           r.ok => Pushed(z, r.z), ~ r.ok => r.z = z,
           NEW kind \in Strings, NEW len \in Nat,
           r.ok => /\ SameString(z.state, Top(r.z.backup_list))
                   /\ r.z.state.inside_cbor_bstr
                   /\ kind = "bstr" => r.z.state.payload_end = r.z.state.payload + len
                   /\ kind = "cborfrag" => /\ r.z.state.frag_offset_cbor = 0 - r.z.state.payload
                                           /\ r.z.state.str_total_len_cbor = len,
           OpenFrame(kind, r, len)
    PROVE  StringsInv'
  <1>1. CASE ~ r.ok
    <2>1. z' = z /\ frames' = frames /\ mode' # "run"
      BY <1>1 DEF OpenFrame
    <2>2. BackupsInTune(z', frames')
      BY <2>1 DEF StringsInv
    <2> QED BY <2>1, <2>2 DEF StringsInv
  <1>2. CASE r.ok
    <2> DEFINE f == FrameOf(kind, r.z, len)
               gs == Append(frames, f)
               n == Len(frames)
    <2>1. /\ f \in Frame /\ IsString(f) /\ f.kind = kind /\ f.len = len
          /\ f.section = r.z.section /\ f.first = r.z.base + r.z.state.payload
      BY <1>2, OpenedFrame DEF FrameOf, IsString
    <2>2. z' = r.z /\ frames' = gs
      BY <1>2 DEF OpenFrame
    <2> HIDE DEF f
    <2>3. BackupsInTune(r.z, gs)
      BY <1>2, <2>1, OpenedTuned
    <2>4. /\ Len(gs) = n + 1 /\ n \in Nat /\ gs[n + 1] = f /\ DOMAIN gs = 1 .. n + 1
          /\ \A i \in 1 .. n : gs[i] = frames[i] /\ i \in DOMAIN frames
      BY <2>1, FrameAdded, FramesHaveBackups
    <2>5. /\ r.z.base \in Nat /\ r.z.section \in Nat /\ r.z.state.payload \in Nat
      BY <1>2, ContextFields DEF Pushed, State
    <2>6. ASSUME ~ NestedStrings PROVE \A i \in 1 .. n : ~ IsString(gs[i])
      BY <2>4, <2>6 DEF StringFits, Open, IsString, Strings
    <2> HIDE DEF gs, n
    <2> DEFINE s == r.z.state
               base == r.z.base
               section == r.z.section
    <2>7. KnowsString(s, gs, n + 1, base)
      <3>1. \A i \in 1 .. n + 1 : Innermost(gs, n + 1, i) => i = n + 1
        BY <2>1, <2>4 DEF Innermost
      <3>2. kind = "cborfrag" => s.frag_offset_cbor = base - f.first /\ s.str_total_len_cbor = f.len
        BY <1>2, <2>1, <2>5
      <3>3. kind = "bstr" => base + s.payload_end = f.first + f.len
        BY <1>2, <2>1, <2>5
      <3> QED BY <2>1, <2>4, <3>1, <3>2, <3>3 DEF KnowsString
    <2>8. KnowsFlag(s, gs, n + 1)
      <3>1. n + 1 \in 1 .. n + 1 /\ IsString(gs[n + 1])
        BY <2>1, <2>4
      <3> QED BY <1>2, <3>1 DEF KnowsFlag
    <2>9. ASSUME ~ NestedStrings PROVE StopsAtEnd(s, gs, n + 1, r.z)
      <3>1. \A i \in 1 .. n + 1 : i = n + 1 \/ gs[i].kind # "cborfrag"
        BY <2>4, <2>6, <2>9 DEF IsString, Strings
      <3>2. ~ (gs[n + 1].section < section)
        BY <2>1, <2>4, <2>5
      <3> QED BY <3>1, <3>2 DEF StopsAtEnd
    <2>10. ~ NestedStrings => OneString(gs)
      <3>1. \A i \in DOMAIN gs : i \in 1 .. n \/ i = n + 1
        BY <2>4
      <3> QED BY <2>6, <3>1 DEF OneString
    <2>11. InTune(s, gs, Len(gs), r.z)
      BY <2>4, <2>7, <2>8, <2>9 DEF InTune
    <2>12. /\ BackupsInTune(z', frames')
           /\ InTune(z'.state, frames', Len(frames'), z')
           /\ ~ NestedStrings => OneString(frames')
      BY <2>2, <2>3, <2>10, <2>11
    <2> QED BY <2>12 DEF StringsInv
  <1> QED BY <1>1, <1>2

(* Closing a frame keeps the ones below.                                   *)
LEMMA FramePopped ==
    ASSUME IInv, frames # << >>
    PROVE  LET gs == Popped(frames)  n == Len(frames) - 1 IN
           /\ gs \in Seq(Frame) /\ Len(gs) = n /\ DOMAIN gs = 1 .. n /\ n \in Nat
           /\ \A i \in 1 .. n : gs[i] = frames[i] /\ i \in DOMAIN frames
  <1>1. frames \in Seq(Frame) /\ DOMAIN frames = 1 .. Len(frames)
    BY FramesHaveBackups
  <1> DEFINE gs == Popped(frames)
  <1>2. /\ gs \in Seq(Frame) /\ Len(gs) = Len(frames) - 1
        /\ DOMAIN gs = 1 .. Len(frames) - 1
        /\ \A i \in 1 .. Len(frames) - 1 : gs[i] = frames[i]
        /\ Len(frames) \in Nat /\ Len(frames) >= 1
    BY <1>1, PoppedFrames
  <1> HIDE DEF gs
  <1>3. Len(frames) - 1 \in Nat /\ \A i \in 1 .. Len(frames) - 1 : i \in DOMAIN frames
    BY <1>1, <1>2
  <1>4. gs = Popped(frames)
    BY DEF gs
  <1> QED BY <1>2, <1>3, <1>4

(* Frames that are closed, by a call that ends one or by a return.         *)
LEMMA PoppedTuned ==
    ASSUME IInv, StringsInv, frames # << >>, NEW d,
           d.base = z.base, d.section = z.section,
           \A i \in 1 .. Len(frames) - 1 : d.backup_list[i] = z.backup_list[i]
    PROVE  /\ BackupsInTune(d, Popped(frames))
           /\ ~ NestedStrings => OneString(Popped(frames))
           /\ Len(Popped(frames)) = Len(frames) - 1
  <1> DEFINE gs == Popped(frames)
             n == Len(frames) - 1
  <1>1. /\ gs \in Seq(Frame) /\ Len(gs) = n /\ DOMAIN gs = 1 .. n /\ n \in Nat
        /\ \A i \in 1 .. n : gs[i] = frames[i] /\ i \in DOMAIN frames
    BY FramePopped
  <1> HIDE DEF gs
  <1>2. BackupsInTune(d, gs)
    BY <1>1, FramesHaveBackups, BackupsKept DEF StringsInv
  <1>3. ~ NestedStrings => OneString(gs)
    BY <1>1 DEF StringsInv, OneString
  <1> QED BY <1>1, <1>2, <1>3 DEF gs

(* What the outer frames knew is what the parent goes on with.             *)
LEMMA ParentTuned ==
    ASSUME IInv, frames # << >>, NEW s,
           InTune(s, frames, Len(frames) - 1, z)
    PROVE  InTune(s, Popped(frames), Len(Popped(frames)), z)
  <1> DEFINE n == Len(frames) - 1
  <1>1. /\ Len(Popped(frames)) = n /\ n \in Nat
        /\ \A i \in 1 .. n : Popped(frames)[i] = frames[i]
    BY FramePopped
  <1> HIDE DEF n
  <1>2. InTune(s, frames, n, z)
    BY DEF n
  <1> QED BY <1>1, <1>2, TunePrefix

(* A call that ends a construct.                                           *)
LEMMA CloseTuned ==
    ASSUME IInv, StringsInv, mode = "run", frames # << >>, NEW r, r.ok \in BOOLEAN,
           r.ok => Pulled(z, r.z), ~ r.ok => r.z = z \/ Pulled(z, r.z),
           r.ok => InTune(r.z.state, frames, Len(frames) - 1, z),
           CloseFrame(r)
    PROVE  StringsInv'
  <1>1. z' = r.z /\ frames' = Popped(frames) /\ (mode' = "run" => r.ok)
    BY DEF CloseFrame
  <1>2. /\ r.z.base = z.base /\ r.z.section = z.section
        /\ \A i \in 1 .. Len(frames) - 1 : r.z.backup_list[i] = z.backup_list[i]
    <2>1. CASE r.z = z
      BY <2>1
    <2>2. CASE Pulled(z, r.z)
      BY <2>2, FramesHaveBackups DEF Pulled, Popped
    <2> QED BY <2>1, <2>2
  <1>3. BackupsInTune(r.z, Popped(frames)) /\ (~ NestedStrings => OneString(Popped(frames)))
    BY <1>2, PoppedTuned
  <1>4. r.ok => InTune(r.z.state, Popped(frames), Len(Popped(frames)), r.z)
    BY <1>2, ParentTuned, FramePopped, TuneAround
  <1>5. /\ BackupsInTune(z', frames') /\ (~ NestedStrings => OneString(frames'))
        /\ mode' = "run" => InTune(z'.state, frames', Len(frames'), z')
    BY <1>1, <1>3, <1>4
  <1> QED BY <1>5 DEF StringsInv

(* The backup of the innermost construct, and what is below it.            *)
LEMMA DropTuned ==
    ASSUME IInv, StringsInv, frames # << >>
    PROVE  LET d == DropTo(z, Len(frames)) IN
           /\ d \in Context /\ d.base = z.base /\ d.section = z.section
           /\ d.backup_list # << >> /\ Len(d.backup_list) = Len(frames)
           /\ \A i \in 1 .. Len(frames) : d.backup_list[i] = z.backup_list[i]
           /\ InTune(Top(d.backup_list), frames, Len(frames) - 1, z)
  <1> DEFINE d == DropTo(z, Len(frames))
             n == Len(frames)
  <1>1. /\ d \in Context /\ d.base = z.base /\ d.section = z.section
        /\ d.backup_list # << >> /\ Len(d.backup_list) = n
    BY DroppedTop
  <1>2. d.backup_list = SubSeq(z.backup_list, 1, n)
    BY DEF DropTo, Context
  <1> HIDE DEF d
  <1>3. \A i \in 1 .. n : d.backup_list[i] = z.backup_list[i]
    BY <1>2, FramesHaveBackups
  <1>4. n \in DOMAIN frames /\ n \in 1 .. n
    BY FramesHaveBackups
  <1>5. Top(d.backup_list) = z.backup_list[n]
    BY <1>1, <1>3, <1>4 DEF Top
  <1>6. InTune(z.backup_list[n], frames, n - 1, z)
    BY <1>4 DEF StringsInv, BackupsInTune
  <1>7. InTune(Top(d.backup_list), frames, n - 1, z)
    BY <1>5, <1>6
  <1> QED BY <1>1, <1>3, <1>7 DEF d

(* While no call fails, it is the innermost of all backups.                *)
LEMMA TopTuned ==
    ASSUME IInv, StringsInv, mode = "run" \/ Len(z.backup_list) = Len(frames), frames # << >>
    PROVE  /\ z \in Context /\ z.backup_list # << >>
           /\ InTune(Top(z.backup_list), frames, Len(frames) - 1, z)
           /\ DropTo(z, Len(frames)) = z
  <1>1. /\ z \in Context /\ z.backup_list \in Seq(State) /\ Len(z.backup_list) = Len(frames)
        /\ Len(frames) \in Nat
    BY FramesHaveBackups
  <1>2. SubSeq(z.backup_list, 1, Len(frames)) = z.backup_list
    BY <1>1
  <1>3. DropTo(z, Len(frames)) = z
    BY <1>1, <1>2 DEF DropTo, Context
  <1> QED BY <1>1, <1>3, DropTuned

(* Each action keeps StringsInv.                                           *)
LEMMA CallActionsTuned ==
    ASSUME IInv, StringsInv, DecodeValue \/ StartFragments \/ DecodeFragment \/ EndFragments
    PROVE  StringsInv'
  <1>1. z \in Context /\ HeaderLens \subseteq Nat /\ Lengths \cup {0} \subseteq Nat
    BY InputsAssumption DEF IInv, TypeOK
  <1>2. CASE DecodeValue
    <2>1. PICK h \in HeaderLens, len \in Lengths \cup {0} : Call(StrDecode(z, h, len))
      BY <1>2 DEF DecodeValue
    <2> DEFINE r == StrDecode(z, h, len)
    <2>2. r.ok \in BOOLEAN /\ Same(z, r.z) /\ SameString(z.state, r.z.state)
      BY <1>1, StrDecodeEffect, StrDecodeString
    <2>3. mode = "run" /\ Call(r)
      BY <1>2, <2>1 DEF DecodeValue, Running
    <2> HIDE DEF r
    <2> QED BY <2>2, <2>3, CallTuned
  <1>3. CASE StartFragments
    <2>1. PICK h \in HeaderLens, len \in Lengths : Call(FragmentsStart(z, h, len, FALSE))
      BY <1>3 DEF StartFragments
    <2> DEFINE r == FragmentsStart(z, h, len, FALSE)
    <2>2. r.ok \in BOOLEAN /\ (r.ok => Same(z, r.z)) /\ (~ r.ok => r.z = z)
      BY <1>1, FragmentsStartEffect
    <2>3. r.ok => SameString(z.state, r.z.state)
      BY <1>1, FragmentsStartString
    <2>4. mode = "run" /\ Call(r)
      BY <1>3, <2>1 DEF StartFragments, BetweenItems, Running
    <2> HIDE DEF r
    <2>5. Same(z, r.z)
      BY <1>1, <2>2 DEF Same
    <2> QED BY <2>2, <2>3, <2>4, <2>5, CallTuned
  <1>4. CASE DecodeFragment
    <2> DEFINE r == FragmentDecode(z)
    <2>1. r.ok \in BOOLEAN /\ Same(z, r.z) /\ SameString(z.state, r.z.state)
      BY <1>1, FragmentDecodeEffect, FragmentDecodeString
    <2>2. mode = "run" /\ Call(r)
      BY <1>4 DEF DecodeFragment, Running
    <2> HIDE DEF r
    <2> QED BY <2>1, <2>2, CallTuned
  <1>5. CASE EndFragments
    <2> DEFINE r == FragmentsEnd(z)
    <2>1. z.state.inside_frag_str /\ Call(r) /\ mode = "run"
      BY <1>5 DEF EndFragments, Running
    <2>2. r.ok \in BOOLEAN /\ (r.ok => Same(z, r.z)) /\ (~ r.ok => r.z = z)
      BY <1>1, <2>1, FragmentsEndEffect
    <2>3. r.ok => SameString(z.state, r.z.state)
      BY <1>1, <2>1, FragmentsEndString
    <2> HIDE DEF r
    <2>4. Same(z, r.z)
      BY <1>1, <2>2 DEF Same
    <2> QED BY <2>1, <2>2, <2>3, <2>4, CallTuned
  <1> QED BY <1>2, <1>3, <1>4, <1>5

LEMMA OpenActionsTuned ==
    ASSUME IInv, StringsInv,
           \/ \E kind \in Containers : StartContainer(kind)
           \/ StartBstr \/ StartCborFragments
           \/ StartUnion \/ StartIteration \/ StartItem
    PROVE  StringsInv'
  <1>1. /\ z \in Context /\ z.state.elem_count \in 0 .. MaxElemCount
        /\ HeaderLens \subseteq Nat /\ Lengths \subseteq Nat /\ Counts \subseteq 0 .. MaxElemCount
    BY InputsAssumption, ContextFields DEF IInv, TypeOK, State
  <1>2. ASSUME NEW kind \in Containers, StartContainer(kind)
        PROVE  StringsInv'
    <2>1. PICK h \in HeaderLens, n \in Counts, indefinite \in BOOLEAN :
            OpenFrame(kind, IF kind = "map" THEN MapStart(z, h, n, indefinite)
                                            ELSE ListMapStart(z, h, n, indefinite), 0)
      BY <1>2 DEF StartContainer
    <2> DEFINE r == IF kind = "map" THEN MapStart(z, h, n, indefinite)
                                    ELSE ListMapStart(z, h, n, indefinite)
    <2>2. /\ r.ok \in BOOLEAN
          /\ r.ok => Pushed(z, r.z)
          /\ ~ r.ok => r.z = z \/ Pushed(z, r.z)
          /\ r.ok => SameString(z.state, r.z.state) /\ SameString(z.state, Top(r.z.backup_list))
      <3>1. CASE kind = "map"
        BY <1>1, <3>1, MapStartEffect, MapStartString
      <3>2. CASE kind # "map"
        BY <1>1, <3>2, ListMapStartEffect, ListMapStartString
      <3> QED BY <3>1, <3>2
    <2>3. OpenFrame(kind, r, 0)
      BY <2>1
    <2>4. mode = "run" /\ kind \in Containers \cup Rollbacks /\ 0 \in Nat
      BY <1>2 DEF StartContainer, BetweenItems, Running
    <2> HIDE DEF r
    <2> QED BY <2>2, <2>3, <2>4, OpenTuned
  <1>3. CASE StartBstr
    <2>1. PICK h \in HeaderLens, len \in Lengths : OpenFrame("bstr", BstrStart(z, h, len), len)
      BY <1>3 DEF StartBstr
    <2> DEFINE r == BstrStart(z, h, len)
    <2>2. r.ok \in BOOLEAN /\ (r.ok => Pushed(z, r.z)) /\ (~ r.ok => r.z = z)
      BY <1>1, BstrStartEffect
    <2>3. r.ok => /\ SameString(z.state, Top(r.z.backup_list))
                  /\ r.z.state.inside_cbor_bstr
                  /\ r.z.state.payload_end = r.z.state.payload + len
      BY <1>1, BstrStartString
    <2>4. mode = "run" /\ "bstr" \in Strings /\ len \in Nat /\ StringFits /\ OpenFrame("bstr", r, len)
      BY <1>1, <1>3, <2>1 DEF StartBstr, BetweenItems, Running, Strings
    <2> HIDE DEF r
    <2> QED BY <2>2, <2>3, <2>4, OpenStringTuned
  <1>4. CASE StartCborFragments
    <2>1. PICK h \in HeaderLens, len \in Lengths :
            OpenFrame("cborfrag", FragmentsStart(z, h, len, TRUE), len)
      BY <1>4 DEF StartCborFragments
    <2> DEFINE r == FragmentsStart(z, h, len, TRUE)
    <2>2. r.ok \in BOOLEAN /\ (r.ok => Pushed(z, r.z)) /\ (~ r.ok => r.z = z)
      BY <1>1, FragmentsStartEffect
    <2>3. r.ok => /\ SameString(z.state, Top(r.z.backup_list))
                  /\ r.z.state.inside_cbor_bstr
                  /\ r.z.state.frag_offset_cbor = 0 - r.z.state.payload
                  /\ r.z.state.str_total_len_cbor = len
      BY <1>1, FragmentsStartString
    <2>4. /\ mode = "run" /\ "cborfrag" \in Strings /\ len \in Nat /\ StringFits
          /\ OpenFrame("cborfrag", r, len)
      BY <1>1, <1>4, <2>1 DEF StartCborFragments, BetweenItems, Running, Strings
    <2> HIDE DEF r
    <2> QED BY <2>2, <2>3, <2>4, OpenStringTuned
  <1>5. ASSUME NEW kind \in Rollbacks, mode = "run",
               OpenFrame(kind, NewBackup(z, z.state.elem_count), 0)
        PROVE  StringsInv'
    <2> DEFINE r == NewBackup(z, z.state.elem_count)
    <2>1. r.ok \in BOOLEAN /\ (r.ok => Pushed(z, r.z)) /\ (~ r.ok => r.z = z)
      BY <1>1, NewBackupEffect
    <2>2. r.ok => SameString(z.state, r.z.state) /\ SameString(z.state, Top(r.z.backup_list))
      BY <1>1, NewBackupString
    <2>3. kind \in Containers \cup Rollbacks /\ 0 \in Nat /\ OpenFrame(kind, r, 0)
      BY <1>5
    <2> HIDE DEF r
    <2> QED BY <1>5, <2>1, <2>2, <2>3, OpenTuned
  <1>6. CASE StartUnion \/ StartIteration \/ StartItem
    BY <1>5, <1>6 DEF StartUnion, StartIteration, StartItem, UnionStart, BetweenItems,
                      Running, Rollbacks
  <1> QED BY <1>2, <1>3, <1>4, <1>6

(* A rollback point that is kept is no string: its parent knows the same.  *)
LEMMA KeptTuned ==
    ASSUME IInv, StringsInv, mode = "run", InFrame(Rollbacks)
    PROVE  InTune(z.state, frames, Len(frames) - 1, z)
  <1> DEFINE n == Len(frames) - 1
  <1>1. n \in Nat /\ n + 1 = Len(frames)
    BY FramesHaveBackups DEF InFrame
  <1>2. ~ IsString(frames[Len(frames)])
    BY DEF InFrame, Top, IsString, Strings, Rollbacks
  <1>3. InTune(z.state, frames, Len(frames), z)
    BY DEF StringsInv
  <1> HIDE DEF n
  <1>4. InTune(z.state, frames, n, z)
    BY <1>1, <1>2, <1>3, TuneOver
  <1> QED BY <1>4 DEF n

LEMMA CloseActionsTuned ==
    ASSUME IInv, StringsInv,
           \/ EndContainer \/ EndBstr \/ EndCborFragments
           \/ EndUnion \/ EndIteration \/ EndItem
    PROVE  StringsInv'
  <1> DEFINE b == Top(z.backup_list)
             n == Len(frames) - 1
  <1>1. mode = "run" /\ frames # << >>
    BY DEF EndContainer, EndBstr, EndCborFragments, EndUnion, EndIteration, EndItem,
           BetweenItems, Running, InFrame
  <1>2. /\ z \in Context /\ z.backup_list # << >>
        /\ InTune(b, frames, n, z)
        /\ DropTo(z, Len(frames)) = z
    BY <1>1, TopTuned
  <1>3. CASE EndContainer
    <2>1. PICK isBreak \in BOOLEAN : CloseFrame(ListMapEnd(z, isBreak))
      BY <1>3 DEF EndContainer
    <2> DEFINE r == ListMapEnd(z, isBreak)
    <2>2. r.ok \in BOOLEAN /\ Pulled(z, r.z) /\ CloseFrame(r)
      BY <1>2, <2>1, ListMapEndEffect
    <2>3. SameString(b, r.z.state)
      BY <1>2, ListMapEndString
    <2> HIDE DEF r, b
    <2>4. InTune(r.z.state, frames, n, z)
      BY <1>2, <2>3, TuneCopied
    <2> QED BY <1>1, <2>2, <2>4, CloseTuned
  <1>4. CASE EndBstr
    <2> DEFINE r == BstrEnd(z)
    <2>1. r.ok \in BOOLEAN /\ (r.ok => Pulled(z, r.z)) /\ (~ r.ok => r.z = z) /\ CloseFrame(r)
      BY <1>2, <1>4, BstrEndEffect DEF Resumed, EndBstr
    <2>2. r.ok => SameString(b, r.z.state)
      BY <1>2, BstrEndString
    <2> HIDE DEF r, b
    <2>3. r.ok => InTune(r.z.state, frames, n, z)
      BY <1>2, <2>2, TuneCopied
    <2> QED BY <1>1, <2>1, <2>3, CloseTuned
  <1>5. CASE EndCborFragments
    <2> DEFINE r == FragmentsEnd(z)
    <2>1. ~ z.state.inside_frag_str /\ CloseFrame(r) /\ InFrame({"cborfrag"})
      BY <1>5 DEF EndCborFragments, BetweenItems
    <2>2. r.ok \in BOOLEAN /\ (r.ok => Pulled(z, r.z)) /\ (~ r.ok => r.z = z)
      BY <1>2, <2>1, FragmentsEndEffect DEF Resumed
    <2>3. r.ok => /\ ~ r.z.state.inside_cbor_bstr
                  /\ r.z.state.frag_offset_cbor = b.frag_offset_cbor
                  /\ r.z.state.str_total_len_cbor = b.str_total_len_cbor
                  /\ r.z.state.payload_end = b.payload_end
      BY <1>2, <2>1, FragmentsEndString
    <2>4. n \in Nat /\ Len(frames) = n + 1 /\ DOMAIN frames = 1 .. n + 1
      BY <1>1, FramesHaveBackups
    <2>5. IsString(frames[Len(frames)])
      BY <2>1 DEF InFrame, IsString, Strings, Top
    <2> HIDE DEF r, b, n
    <2>6. ASSUME ~ NestedStrings PROVE \A i \in 1 .. n : ~ IsString(frames[i])
      BY <2>4, <2>5, <2>6 DEF StringsInv, OneString
    <2>7. ASSUME r.ok PROVE InTune(r.z.state, frames, n, z)
      <3>1. KnowsString(r.z.state, frames, n, z.base)
        BY <1>2, <2>3, <2>7 DEF InTune, KnowsString
      <3>2. ASSUME ~ NestedStrings PROVE KnowsFlag(r.z.state, frames, n)
        BY <2>3, <2>6, <2>7, <3>2 DEF KnowsFlag
      <3>3. ASSUME ~ NestedStrings
            PROVE  StopsAtEnd(r.z.state, frames, n, z)
        BY <2>6, <3>3 DEF StopsAtEnd, IsString, Strings
      <3> QED BY <3>1, <3>2, <3>3 DEF InTune
    <2>8. r.ok => InTune(r.z.state, frames, Len(frames) - 1, z)
      BY <2>7 DEF n
    <2> QED BY <1>1, <2>1, <2>2, <2>8, CloseTuned
  <1>6. CASE EndUnion \/ EndIteration \/ EndItem
    <2> DEFINE r == ProcessBackup(z, {"CONSUME"})
    <2>1. r.ok = TRUE /\ Pulled(z, r.z) /\ r.z.state = z.state
      BY <1>2, ConsumeEffect
    <2>2. CloseFrame(r)
      BY <1>2, <1>6 DEF EndUnion, EndIteration, EndItem, UnionEnd
    <2>3. InFrame(Rollbacks)
      BY <1>6 DEF EndUnion, EndIteration, EndItem, InFrame, Rollbacks
    <2> HIDE DEF r
    <2>4. InTune(r.z.state, frames, n, z)
      BY <1>1, <2>1, <2>3, KeptTuned
    <2>5. r.ok \in BOOLEAN /\ (r.ok => Pulled(z, r.z)) /\ (~ r.ok => r.z = z)
      BY <2>1
    <2> QED BY <1>1, <2>2, <2>4, <2>5, CloseTuned
  <1> QED BY <1>3, <1>4, <1>5, <1>6

(* A section: the live state and every backup enter it together.           *)
LEMMA FeedTuned ==
    ASSUME IInv, StringsInv, FeedSection
    PROVE  StringsInv'
  <1>1. PICK len \in 0 .. MaxMessage - Position : z' = UpdateState(z, len)
    BY DEF FeedSection
  <1> DEFINE prev_len == z.state.payload
             n == Len(frames)
  <1>2. /\ mode = "run" /\ frames' = frames /\ z.state \in State /\ frames \in Seq(Frame)
        /\ n \in Nat /\ z.base \in Nat /\ z.section \in Nat /\ DOMAIN frames = 1 .. n
        /\ Len(z.backup_list) = n /\ z.backup_list \in Seq(State)
    BY FramesHaveBackups DEF FeedSection, Running
  <1>3. prev_len \in Nat /\ Position \in Nat
    BY <1>2 DEF State, Position
  <1>4. len \in Nat
    BY <1>3, InputsAssumption
  <1>5. \A i \in DOMAIN frames : frames[i].kind # "bstr"
    BY DEF FeedSection, Open
  <1>6. ~ NestedStrings => OneString(frames)
    BY DEF StringsInv
  <1>7. /\ z'.state = EnterSection(z.state, len, prev_len)
        /\ z'.base = z.base + prev_len /\ z'.section = z.section + 1
        /\ \A i \in 1 .. n : z'.backup_list[i] =
                [EnterSection(z.backup_list[i], len, prev_len) EXCEPT !.payload_moved = TRUE]
    BY <1>1, <1>2 DEF UpdateState
  <1> HIDE DEF prev_len
  <1>8. ASSUME ~ NestedStrings, NEW i \in 1 .. n, IsString(frames[i])
         PROVE  z'.backup_list[i].payload_end = len
    <2> DEFINE b == z.backup_list[i]
               e == EnterSection(b, len, prev_len)
    <2>1. b \in State /\ i \in DOMAIN frames
      BY <1>2
    <2>2. \A j \in 1 .. i - 1 : ~ IsString(frames[j])
      <3>1. \A j \in 1 .. i - 1 : j \in DOMAIN frames /\ j # i
        BY <1>2
      <3> QED BY <1>6, <1>8, <2>1, <3>1 DEF OneString
    <2>3. ~ b.inside_cbor_bstr
      BY <1>8, <2>1, <2>2 DEF StringsInv, BackupsInTune, InTune, KnowsFlag
    <2>4. z'.backup_list[i] = [e EXCEPT !.payload_moved = TRUE]
      BY <1>7
    <2> HIDE DEF b
    <2>5. e \in State /\ e.payload_end = len
      BY <1>3, <1>4, <2>1, <2>3, EnterSectionEffect, EnteredEnd
    <2> HIDE DEF e
    <2> QED BY <2>4, <2>5 DEF State
  <1>9. InTune(z'.state, frames, n, z')
    <2>1. InTune(z.state, frames, n, z) /\ n \in 0 .. Len(frames)
      BY <1>2 DEF StringsInv
    <2>2. SameString(EnterSection(z.state, len, prev_len), z'.state)
      BY <1>7 DEF SameString
    <2> QED BY <1>2, <1>3, <1>4, <1>5, <1>6, <1>7, <1>8, <2>1, <2>2, TuneFed
  <1>10. ASSUME NEW i \in DOMAIN frames
        PROVE  InTune(z'.backup_list[i], frames, i - 1, z')
    <2> DEFINE b == z.backup_list[i]
               e == EnterSection(b, len, prev_len)
    <2>1. b \in State /\ i - 1 \in 0 .. Len(frames) /\ i \in 1 .. n
      BY <1>2
    <2>2. InTune(b, frames, i - 1, z)
      BY DEF StringsInv, BackupsInTune
    <2>3. z'.backup_list[i] = [e EXCEPT !.payload_moved = TRUE]
      BY <1>7, <2>1
    <2> HIDE DEF b
    <2>4. e \in State
      BY <1>3, <1>4, <2>1, EnterSectionEffect
    <2>5. SameString(e, z'.backup_list[i])
      <3> HIDE DEF e
      <3> QED BY <2>3, <2>4 DEF SameString, State
    <2>6. \A j \in 1 .. i - 1 : j \in 1 .. n
      BY <1>2
    <2>7. ~ NestedStrings => \A j \in 1 .. i - 1 :
            IsString(frames[j]) => z'.backup_list[j].payload_end = len
      BY <1>8, <2>6
    <2> DEFINE k == i - 1
               t == z'.backup_list[i]
    <2>8. k \in 0 .. Len(frames) /\ InTune(b, frames, k, z) /\ SameString(e, t)
      BY <2>1, <2>2, <2>5
    <2> HIDE DEF k, t
    <2>9. InTune(t, frames, k, z')
      BY <1>2, <1>3, <1>4, <1>5, <1>6, <1>7, <2>1, <2>7, <2>8, TuneFed DEF k
    <2> QED BY <2>9 DEF k, t
  <1>11. BackupsInTune(z', frames)
    BY <1>10 DEF BackupsInTune
  <1>12. /\ BackupsInTune(z', frames') /\ (~ NestedStrings => OneString(frames'))
         /\ InTune(z'.state, frames', Len(frames'), z')
    BY <1>2, <1>6, <1>9, <1>11
  <1> QED BY <1>12 DEF StringsInv

(* A failing call takes the innermost backup, or none.                     *)
LEMMA FailureCloses ==
    ASSUME IInv, StringsInv, frames # << >>, NEW c,
           c.base = z.base, c.section = z.section,
           \A i \in 1 .. Len(frames) - 1 : c.backup_list[i] = z.backup_list[i],
           z' = c, frames' = Popped(frames),
           mode' = "run" => InTune(c.state, frames, Len(frames) - 1, z)
    PROVE  StringsInv'
  <1>1. BackupsInTune(c, Popped(frames)) /\ (~ NestedStrings => OneString(Popped(frames)))
    BY PoppedTuned
  <1>2. mode' = "run" => InTune(c.state, Popped(frames), Len(Popped(frames)), c)
    BY ParentTuned, FramePopped, TuneAround
  <1>3. /\ BackupsInTune(z', frames') /\ (~ NestedStrings => OneString(frames'))
        /\ mode' = "run" => InTune(z'.state, frames', Len(frames'), z')
    BY <1>1, <1>2
  <1> QED BY <1>3 DEF StringsInv

LEMMA FailureActionsTuned ==
    ASSUME IInv, StringsInv,
           \/ Mismatch \/ ReturnFalse \/ ForceEndContainer
           \/ NextArm \/ NoArmLeft \/ StopIterating \/ ItemFailed \/ SessionFails
    PROVE  StringsInv'
  <1> DEFINE d == DropTo(z, Len(frames))
             b == Top(d.backup_list)
             n == Len(frames) - 1
  <1>1. ASSUME frames # << >>
        PROVE  /\ d \in Context /\ d.base = z.base /\ d.section = z.section
               /\ d.backup_list # << >> /\ Len(d.backup_list) = Len(frames)
               /\ \A i \in 1 .. Len(frames) : d.backup_list[i] = z.backup_list[i]
               /\ InTune(b, frames, n, z)
               /\ FrameSound(b, Top(frames), z.base, z.section)
    BY <1>1, DropTuned, DroppedTop
  <1>2. Len(frames) \in Nat
    BY FramesHaveBackups
  <1>3. ASSUME frames # << >>, NEW c, Pulled(d, c) \/ c = d
        PROVE  /\ c.base = z.base /\ c.section = z.section
               /\ \A i \in 1 .. Len(frames) - 1 : c.backup_list[i] = z.backup_list[i]
    <2>1. CASE c = d
      BY <1>1, <1>2, <1>3, <2>1
    <2>2. CASE Pulled(d, c)
      <3>1. d.backup_list \in Seq(State)
        BY <1>1, <1>3, ContextFields
      <3> QED BY <1>1, <1>2, <1>3, <2>2, <3>1 DEF Pulled, Popped
    <2> QED BY <1>3, <2>1, <2>2
  <1>4. CASE Mismatch \/ SessionFails
    <2>1. z' = z /\ frames' = frames /\ mode' # "run"
      BY <1>4 DEF Mismatch, SessionFails
    <2>2. BackupsInTune(z', frames') /\ (~ NestedStrings => OneString(frames'))
      BY <2>1 DEF StringsInv
    <2> QED BY <2>1, <2>2 DEF StringsInv
  <1>5. CASE ReturnFalse
    BY <1>5, FailureCloses DEF ReturnFalse, InFrame
  <1>6. CASE ForceEndContainer
    <2> DEFINE r == ProcessBackup(z, ResumeFlags)
    <2>1. frames # << >> /\ Len(z.backup_list) = Len(frames) /\ CloseFrame(r)
      BY <1>6 DEF ForceEndContainer, InFrame, ListMapEndForce, ResumeFlags
    <2>2. d = z
      BY <2>1, TopTuned
    <2>3. Pulled(d, r.z) /\ r.z.state = [b EXCEPT !.payload = z.state.payload]
      BY <1>1, <2>1, <2>2, ResumeEffect
    <2>4. b \in State
      BY <1>1, <2>1, ContextFields DEF Top
    <2> HIDE DEF r, d, b
    <2>5. SameString(b, r.z.state)
      BY <2>3, <2>4 DEF SameString, State
    <2>6. InTune(r.z.state, frames, n, z)
      BY <1>1, <2>1, <2>5, TuneCopied
    <2>7. z' = r.z /\ frames' = Popped(frames)
      BY <2>1 DEF CloseFrame
    <2> QED BY <1>3, <2>1, <2>3, <2>6, <2>7, FailureCloses
  <1>7. CASE NextArm
    <2> DEFINE r == ProcessBackup(d, {"RESTORE"})
    <2>1. frames # << >> /\ z' = r.z /\ frames' = frames /\ (mode' = "run" => r.ok)
          /\ ~ IsString(frames[Len(frames)])
      BY <1>7 DEF NextArm, InFrame, UnionElem, IsString, Strings, Top
    <2>2. r.ok \in BOOLEAN /\ (r.ok => Same(d, r.z) /\ r.z.state = b) /\ (~ r.ok => r.z = d)
      BY <1>1, <2>1, RestoreEffect
    <2>3. InTune(b, frames, n, z) /\ n \in Nat /\ n + 1 = Len(frames)
      BY <1>1, <1>2, <2>1
    <2> HIDE DEF r, b, d, n
    <2>4. InTune(b, frames, Len(frames), z)
      BY <2>1, <2>3, TuneOver
    <2>5. /\ r.z.base = z.base /\ r.z.section = z.section
          /\ \A i \in 1 .. Len(frames) : r.z.backup_list[i] = z.backup_list[i]
      BY <1>1, <2>1, <2>2 DEF Same
    <2>6. BackupsInTune(r.z, frames)
      BY <2>5, FramesHaveBackups, BackupsKept DEF StringsInv
    <2>7. r.ok => InTune(r.z.state, frames, Len(frames), r.z)
      BY <2>2, <2>4, <2>5, TuneAround
    <2>8. /\ BackupsInTune(z', frames') /\ (~ NestedStrings => OneString(frames'))
          /\ mode' = "run" => InTune(z'.state, frames', Len(frames'), z')
      BY <2>1, <2>6, <2>7 DEF StringsInv
    <2> QED BY <2>8 DEF StringsInv
  <1>8. CASE NoArmLeft
    <2> DEFINE r == ProcessBackup(d, {"CONSUME"})
    <2>1. frames # << >> /\ z' = r.z /\ frames' = Popped(frames) /\ mode' # "run"
      BY <1>8 DEF NoArmLeft, InFrame, UnionEnd
    <2>2. Pulled(d, r.z)
      BY <1>1, <2>1, ConsumeEffect
    <2> HIDE DEF r, d
    <2> QED BY <1>3, <2>1, <2>2, FailureCloses
  <1>9. CASE StopIterating \/ ItemFailed
    <2> DEFINE r == ProcessBackup(d, {"RESTORE", "CONSUME"})
    <2>1. frames # << >> /\ z' = r.z /\ frames' = Popped(frames)
      BY <1>9 DEF StopIterating, ItemFailed, InFrame
    <2>2. /\ r.ok \in BOOLEAN /\ (r.ok => Pulled(d, r.z) /\ r.z.state = b)
          /\ (~ r.ok => r.z = d) /\ (r.ok <=> ~ b.payload_moved)
      BY <1>1, <2>1, RollBackEffect
    <2>3. mode' = "run" => r.ok
      <3>1. CASE StopIterating
        BY <3>1 DEF StopIterating
      <3>2. CASE ItemFailed
        <4>1. Top(frames).kind = "item"
          BY <3>2 DEF ItemFailed, InFrame
        <4> QED BY <1>1, <2>1, <2>2, <4>1 DEF FrameSound
      <3> QED BY <1>9, <3>1, <3>2
    <2> HIDE DEF r, d, b
    <2>4. Pulled(d, r.z) \/ r.z = d
      BY <2>2
    <2>5. mode' = "run" => InTune(r.z.state, frames, n, z)
      BY <1>1, <2>1, <2>2, <2>3
    <2> QED BY <1>3, <2>1, <2>4, <2>5, FailureCloses
  <1> QED BY <1>4, <1>5, <1>6, <1>7, <1>8, <1>9

(* A step that changes nothing keeps StringsInv.                           *)
LEMMA StutterTuned ==
    ASSUME StringsInv, UNCHANGED vars
    PROVE  StringsInv'
  <1>1. z' = z /\ frames' = frames /\ mode' = mode
    BY DEF vars
  <1>2. /\ BackupsInTune(z', frames') /\ (~ NestedStrings => OneString(frames'))
        /\ mode' = "run" => InTune(z'.state, frames', Len(frames'), z')
    BY <1>1 DEF StringsInv
  <1> QED BY <1>2 DEF StringsInv

(* StringsInv is inductive relative to IInv.                               *)
LEMMA NextTuned ==
    ASSUME IInv, StringsInv, [Next]_vars
    PROVE  StringsInv'
  BY CallActionsTuned, OpenActionsTuned, CloseActionsTuned, FeedTuned, FailureActionsTuned,
     StutterTuned DEF Next

(* The live state and every backup stay in tune with the strings they are  *)
(* in.                                                                     *)
THEOREM StringsInvariant == Spec => []StringsInv
  <1>1. Init => StringsInv
    BY InitStrings
  <1>2. IInv /\ StringsInv /\ [Next]_vars => StringsInv'
    BY NextTuned
  <1> QED BY <1>1, <1>2, SpecInvariant, PTL DEF Spec

-----------------------------------------------------------------------------
(* What zcbor_current_string_offset reports inside a fragmented CBOR bstr  *)
(* is how far into the string the payload pointer is, whatever sections,   *)
(* containers, roll backs and nested strings lie in between.               *)
THEOREM StringOffsetsLogical == Spec => []StringOffsetIsLogical
  <1>1. IInv /\ StringsInv => StringOffsetIsLogical
    <2> SUFFICES ASSUME IInv, StringsInv, mode = "run",
                        NEW i \in InnermostString, frames[i].kind = "cborfrag"
                 PROVE  /\ z.state.frag_offset_cbor = z.base - frames[i].first
                        /\ z.state.str_total_len_cbor = frames[i].len
      BY DEF StringOffsetIsLogical
    <2>1. i \in 1 .. Len(frames) /\ Innermost(frames, Len(frames), i)
      BY FramesHaveBackups DEF InnermostString, Innermost, IsString
    <2> QED BY <2>1 DEF StringsInv, InTune, KnowsString
  <1> QED BY <1>1, SpecInvariant, StringsInvariant, PTL

(* When CBOR byte strings do not nest, the flag that limits a section to   *)
(* the string is set exactly while one is open.                            *)
THEOREM FlagFollowsStrings ==
    ASSUME ~ NestedStrings
    PROVE  Spec => []InsideCborFlag
  <1>1. IInv /\ StringsInv => InsideCborFlag
    BY FramesHaveBackups DEF StringsInv, InTune, KnowsFlag, IsString, InsideCborFlag
  <1> QED BY <1>1, SpecInvariant, StringsInvariant, PTL

(* When CBOR byte strings do not nest, every section after the one with    *)
(* the header ends with the string, for the live state, whatever inner     *)
(* constructs end or roll back; except that a section which begins behind  *)
(* the end of the string is not limited by it.                             *)
THEOREM SectionsClamped ==
    ASSUME ~ NestedStrings
    PROVE  Spec => []ClampedAfterSwitch
  <1>1. IInv /\ StringsInv => ClampedAfterSwitch
    <2> SUFFICES ASSUME IInv, StringsInv, mode = "run", NEW i \in InnermostString,
                        frames[i].kind = "cborfrag", frames[i].section < z.section
                 PROVE  z.state.payload_end =
                            StringPart(frames[i], z.base, z.backup_list[i].payload_end)
      BY DEF ClampedAfterSwitch, StringPart
    <2>1. i \in 1 .. Len(frames)
      BY FramesHaveBackups DEF InnermostString
    <2> QED BY <2>1 DEF StringsInv, InTune, StopsAtEnd
  <1> QED BY <1>1, SpecInvariant, StringsInvariant, PTL

(* The step that ends a string is EndBstr, which compares the payload      *)
(* pointer with payload_end, or EndCborFragments, which compares the       *)
(* offset with the length of the string.                                   *)
LEMMA StringEndStepHolds ==
    ASSUME IInv, StringsInv, [Next]_vars
    PROVE  [StringEndStep]_vars
  <1> SUFFICES ASSUME Next, mode = "run", mode' = "run", InFrame(Strings),
                      frames' = Popped(frames)
               PROVE  z'.base + z'.state.payload = Top(frames).first + Top(frames).len
    BY DEF StringEndStep
  <1> DEFINE f == Top(frames)
             n == Len(frames)
  <1>1. frames # << >> /\ f.kind \in Strings
    BY DEF InFrame
  <1>2. /\ z \in Context /\ z.backup_list # << >> /\ z.state \in State
        /\ n \in DOMAIN frames /\ f \in Frame /\ z.base \in Nat
    BY <1>1, FramesHaveBackups, BackupActive DEF Top
  <1>3. Innermost(frames, n, n) /\ n \in 1 .. n /\ InTune(z.state, frames, n, z)
    BY <1>1, <1>2, FramesHaveBackups DEF Innermost, IsString, Top, StringsInv
  <1>4. /\ f.kind = "cborfrag" => /\ z.state.frag_offset_cbor = z.base - f.first
                                  /\ z.state.str_total_len_cbor = f.len
        /\ f.kind = "bstr" => z.base + z.state.payload_end = f.first + f.len
    BY <1>3 DEF InTune, KnowsString, Top
  <1>5. z.state.payload \in Nat /\ f.first \in Nat /\ f.len \in Nat
    BY <1>2 DEF State, Frame
  <1>6. frames' # frames /\ Len(frames') # Len(frames) + 1
    BY <1>1, FramePopped
  <1>7. EndBstr \/ EndCborFragments
    <2>1. EndBstr \/ EndCborFragments \/ EndContainer \/ EndUnion \/ EndIteration \/ EndItem
      <3>1. ~ (DecodeValue \/ StartFragments \/ DecodeFragment \/ EndFragments \/ FeedSection
               \/ Mismatch)
        BY <1>6 DEF DecodeValue, StartFragments, DecodeFragment, EndFragments, FeedSection,
                    Mismatch, Call
      <3>2. \A kind, r, len : ~ OpenFrame(kind, r, len)
        BY <1>6, FramesHaveBackups DEF OpenFrame
      <3>3. ~ (\E kind \in Containers : StartContainer(kind))
        BY <3>2 DEF StartContainer
      <3>4. ~ (StartBstr \/ StartCborFragments \/ StartUnion \/ StartIteration \/ StartItem)
        BY <3>2 DEF StartBstr, StartCborFragments, StartUnion, StartIteration, StartItem
      <3>5. ~ (ReturnFalse \/ ForceEndContainer \/ NextArm \/ NoArmLeft \/ StopIterating
               \/ ItemFailed \/ SessionFails)
        BY DEF ReturnFalse, ForceEndContainer, NextArm, NoArmLeft, StopIterating,
               ItemFailed, SessionFails
      <3> QED BY <3>1, <3>3, <3>4, <3>5 DEF Next
    <2>2. ~ (EndContainer \/ EndUnion \/ EndIteration \/ EndItem)
      BY <1>1 DEF EndContainer, EndUnion, EndIteration, EndItem, InFrame, Containers, Strings
    <2> QED BY <2>1, <2>2
  <1>8. CASE EndBstr
    <2>1. f.kind = "bstr" /\ BstrEnd(z).ok /\ z' = BstrEnd(z).z
      BY <1>8 DEF EndBstr, InFrame, CloseFrame
    <2>2. /\ z.state.payload = z.state.payload_end
          /\ BstrEnd(z).z.state.payload = z.state.payload /\ BstrEnd(z).z.base = z.base
      BY <1>2, <2>1, BstrEndString
    <2> QED BY <1>4, <2>1, <2>2
  <1>9. CASE EndCborFragments
    <2>1. /\ f.kind = "cborfrag" /\ FragmentsEnd(z).ok /\ z' = FragmentsEnd(z).z
          /\ ~ z.state.inside_frag_str
      BY <1>9 DEF EndCborFragments, BetweenItems, InFrame, CloseFrame
    <2>2. /\ z.state.payload + z.state.frag_offset_cbor = z.state.str_total_len_cbor
          /\ FragmentsEnd(z).z.state.payload = z.state.payload
          /\ FragmentsEnd(z).z.base = z.base
      BY <1>2, <2>1, FragmentsEndString
    <2> QED BY <1>2, <1>4, <1>5, <2>1, <2>2
  <1> QED BY <1>7, <1>8, <1>9

(* A CBOR byte string, whole or in sections, is only ended on the byte     *)
(* after its last one, also when strings nest.                             *)
THEOREM StringsEndExactly == Spec => StringEndsExactly
  <1>1. IInv /\ StringsInv /\ [Next]_vars => [StringEndStep]_vars
    BY StringEndStepHolds
  <1> QED BY <1>1, SpecInvariant, StringsInvariant, PTL DEF Spec, StringEndsExactly

-----------------------------------------------------------------------------
(* Where a session can get past the end of a string.  The next section     *)
(* begins where the payload pointer is, so it begins inside the string as  *)
(* long as the pointer is no further than payload_end.  That must also     *)
(* hold of the states that ends and roll backs put together from the live  *)
(* payload pointer and the payload_end of a backup: a section reaches no   *)
(* further for an inner construct than for those around it.                *)

InBounds(s) == s.payload <= s.payload_end

Bounded(c) ==
    /\ InBounds(c.state)
    /\ \A i \in DOMAIN c.backup_list :
        /\ InBounds(c.backup_list[i])
        /\ c.state.payload_end <= c.backup_list[i].payload_end
        /\ \A j \in 1 .. i : c.backup_list[i].payload_end <= c.backup_list[j].payload_end

(* What a call in the frame, one that opens a construct, and one that goes *)
(* back to a backup do to the bounds.                                      *)
Stays(c, d) ==
    Same(c, d) /\ InBounds(d.state) /\ d.state.payload_end <= c.state.payload_end

Nests(c, d) ==
    LET b == Top(d.backup_list) IN
    /\ Pushed(c, d)
    /\ InBounds(b) /\ b.payload_end <= c.state.payload_end
    /\ InBounds(d.state) /\ d.state.payload_end <= b.payload_end

Returns(c, d) ==
    /\ Same(c, d) \/ Pulled(c, d)
    /\ InBounds(d.state) /\ d.state.payload_end <= Top(c.backup_list).payload_end

(* The types the comparisons need.                                         *)
LEMMA BoundTypes ==
    ASSUME NEW c \in Context
    PROVE  /\ c.state.payload \in Nat /\ c.state.payload_end \in Nat
           /\ \A i \in DOMAIN c.backup_list :
                c.backup_list[i].payload \in Nat /\ c.backup_list[i].payload_end \in Nat
           /\ Len(c.backup_list) \in Nat /\ DOMAIN c.backup_list = 1 .. Len(c.backup_list)
  <1>1. c.state \in State /\ c.backup_list \in Seq(State)
    BY ContextFields
  <1>2. c.state.payload \in Nat /\ c.state.payload_end \in Nat
    BY <1>1 DEF State
  <1>3. ASSUME NEW i \in DOMAIN c.backup_list
        PROVE  c.backup_list[i].payload \in Nat /\ c.backup_list[i].payload_end \in Nat
    <2>1. c.backup_list[i] \in State
      BY <1>1
    <2> QED BY <2>1 DEF State
  <1>4. Len(c.backup_list) \in Nat /\ DOMAIN c.backup_list = 1 .. Len(c.backup_list)
    BY <1>1
  <1> QED BY <1>2, <1>3, <1>4

(* A call in the frame keeps the bounds.                                   *)
LEMMA BoundedStays ==
    ASSUME NEW c \in Context, Bounded(c), NEW d, Stays(c, d)
    PROVE  Bounded(d) /\ d.base = c.base
  <1>1. d \in Context /\ d.backup_list = c.backup_list /\ d.base = c.base
    BY DEF Stays, Same
  <1>2. ASSUME NEW i \in DOMAIN c.backup_list
        PROVE  d.state.payload_end <= c.backup_list[i].payload_end
    <2>1. d.state.payload_end <= c.state.payload_end
      BY DEF Stays
    <2>2. c.state.payload_end <= c.backup_list[i].payload_end
      BY DEF Bounded
    <2> QED BY <1>1, <2>1, <2>2, BoundTypes
  <1> QED BY <1>1, <1>2 DEF Bounded, Stays

(* So does one that opens a construct,                                     *)
LEMMA BoundedNests ==
    ASSUME NEW c \in Context, Bounded(c), NEW d, Nests(c, d)
    PROVE  Bounded(d) /\ d.base = c.base
  <1> DEFINE n == Len(c.backup_list)
             b == Top(d.backup_list)
  <1>1. PICK x \in State : d.backup_list = Append(c.backup_list, x)
    BY DEF Nests, Pushed
  <1>2. c.backup_list \in Seq(State) /\ n \in Nat
    BY ContextFields
  <1>3. /\ DOMAIN d.backup_list = 1 .. n + 1 /\ d.backup_list[n + 1] = b
        /\ \A i \in 1 .. n : d.backup_list[i] = c.backup_list[i] /\ i \in DOMAIN c.backup_list
    BY <1>1, <1>2 DEF Top
  <1>4. d \in Context /\ d.base = c.base
    BY DEF Nests, Pushed
  <1>5. /\ d.state.payload_end \in Nat /\ c.state.payload_end \in Nat /\ b.payload_end \in Nat
        /\ \A i \in 1 .. n : c.backup_list[i].payload_end \in Nat
    BY <1>2, <1>3, <1>4, BoundTypes
  <1>6. /\ InBounds(b) /\ InBounds(d.state)
        /\ b.payload_end <= c.state.payload_end /\ d.state.payload_end <= b.payload_end
    BY DEF Nests
  <1> HIDE DEF b, n
  <1>7. ASSUME NEW i \in 1 .. n
        PROVE  b.payload_end <= c.backup_list[i].payload_end
    <2>1. c.state.payload_end <= c.backup_list[i].payload_end
      BY <1>3 DEF Bounded
    <2> QED BY <1>5, <1>6, <2>1
  <1>8. ASSUME NEW i \in 1 .. n + 1
        PROVE  /\ InBounds(d.backup_list[i])
               /\ d.state.payload_end <= d.backup_list[i].payload_end
               /\ \A j \in 1 .. i : d.backup_list[i].payload_end <= d.backup_list[j].payload_end
    <2>1. CASE i = n + 1
      <3>1. \A j \in 1 .. i : j = n + 1 \/ j \in 1 .. n
        BY <1>2, <2>1 DEF n
      <3> QED BY <1>3, <1>5, <1>6, <1>7, <2>1, <3>1
    <2>2. CASE i # n + 1
      <3>1. i \in 1 .. n /\ \A j \in 1 .. i : j \in 1 .. n
        BY <1>2, <2>2 DEF n
      <3>2. d.state.payload_end <= c.backup_list[i].payload_end
        BY <1>5, <1>6, <1>7, <3>1
      <3> QED BY <1>3, <3>1, <3>2 DEF Bounded
    <2> QED BY <2>1, <2>2
  <1> QED BY <1>3, <1>4, <1>6, <1>8 DEF Bounded

(* and one that goes back to the innermost backup.                         *)
LEMMA BoundedReturns ==
    ASSUME NEW c \in Context, c.backup_list # << >>, Bounded(c), NEW d, Returns(c, d)
    PROVE  Bounded(d) /\ d.base = c.base
  <1> DEFINE n == Len(c.backup_list)
  <1>1. c.backup_list \in Seq(State) /\ n \in Nat /\ n \in 1 .. n
    BY ContextFields
  <1>2. /\ d \in Context /\ d.base = c.base
        /\ \A i \in DOMAIN d.backup_list :
             i \in 1 .. n /\ d.backup_list[i] = c.backup_list[i]
    <2>1. CASE Same(c, d)
      BY <1>1, <2>1 DEF Same
    <2>2. CASE Pulled(c, d)
      BY <1>1, <2>2 DEF Pulled, Popped
    <2> QED BY <2>1, <2>2 DEF Returns
  <1>3. /\ d.state.payload_end \in Nat /\ DOMAIN c.backup_list = 1 .. n
        /\ \A i \in 1 .. n : c.backup_list[i].payload_end \in Nat
    BY <1>1, <1>2, BoundTypes
  <1>4. InBounds(d.state) /\ d.state.payload_end <= c.backup_list[n].payload_end
    BY DEF Returns, Top
  <1> HIDE DEF n
  <1>5. ASSUME NEW i \in 1 .. n
        PROVE  d.state.payload_end <= c.backup_list[i].payload_end
    <2>1. c.backup_list[n].payload_end <= c.backup_list[i].payload_end
      BY <1>1, <1>3 DEF Bounded
    <2> QED BY <1>1, <1>3, <1>4, <2>1
  <1>6. DOMAIN d.backup_list = 1 .. Len(d.backup_list) /\ Len(d.backup_list) \in Nat
    BY <1>2, BoundTypes
  <1>7. \A i \in DOMAIN d.backup_list : \A j \in 1 .. i : j \in DOMAIN d.backup_list
    BY <1>6
  <1> QED BY <1>2, <1>3, <1>4, <1>5, <1>7 DEF Bounded

(* What failed constructs left on top is dropped.                          *)
LEMMA BoundedDropped ==
    ASSUME IInv, Bounded(z), frames # << >>
    PROVE  LET d == DropTo(z, Len(frames)) IN
           d \in Context /\ d.backup_list # << >> /\ Bounded(d) /\ d.base = z.base
  <1> DEFINE d == DropTo(z, Len(frames))
             n == Len(frames)
  <1>1. d \in Context /\ d.backup_list # << >> /\ d.base = z.base /\ Len(d.backup_list) = n
    BY DroppedTop
  <1>2. d.backup_list = SubSeq(z.backup_list, 1, n) /\ d.state = z.state
    BY DEF DropTo, Context
  <1>3. /\ n \in 0 .. Len(z.backup_list) /\ z.backup_list \in Seq(State)
        /\ DOMAIN z.backup_list = 1 .. Len(z.backup_list)
    BY FramesHaveBackups
  <1>4. /\ DOMAIN d.backup_list = 1 .. n
        /\ \A i \in 1 .. n : /\ d.backup_list[i] = z.backup_list[i]
                             /\ i \in DOMAIN z.backup_list
                             /\ \A j \in 1 .. i : j \in 1 .. n
    BY <1>2, <1>3, Prefix
  <1> HIDE DEF d, n
  <1>5. Bounded(d)
    BY <1>2, <1>4 DEF Bounded
  <1> QED BY <1>1, <1>5 DEF d

(* Opening a construct in a frame that went on.                            *)
LEMMA NestsOn ==
    ASSUME NEW c \in Context, NEW d, Stays(c, d), NEW e, Nests(d, e)
    PROVE  Nests(c, e)
  <1>1. Pushed(c, e) /\ d \in Context
    BY DEF Stays, Nests, Same, Pushed
  <1>2. Top(e.backup_list) \in State
    BY <1>1, ContextFields DEF Pushed, Top
  <1>3. /\ Top(e.backup_list).payload_end \in Nat
        /\ c.state.payload_end \in Nat /\ d.state.payload_end \in Nat
    BY <1>1, <1>2, BoundTypes DEF State
  <1>4. Top(e.backup_list).payload_end <= c.state.payload_end
    BY <1>3 DEF Stays, Nests
  <1> QED BY <1>1, <1>4 DEF Nests

(* Reading a header does not read past the section.                        *)
LEMMA ValueExtractBounds ==
    ASSUME NEW c \in Context, NEW h \in Nat, InBounds(c.state)
    PROVE  Stays(c, ValueExtract(c, h).z)
  <1> DEFINE r == ValueExtract(c, h)
             s == Without(c.state, h)
  <1>1. Same(c, r.z) /\ r.z.state.payload_end = c.state.payload_end
    BY ValueExtractEffect, ValueExtractString DEF SameString
  <1>2. c.state \in State /\ c.state.payload \in Nat /\ c.state.payload_end \in Nat
    BY BoundTypes, ContextFields
  <1>3. s.payload = c.state.payload + h /\ s.payload_end = c.state.payload_end
    BY <1>2 DEF Without, State
  <1>4. \/ r.z = c
        \/ /\ ~ (c.state.payload + h > c.state.payload_end)
           /\ r.z = [c EXCEPT !.state = s]
    BY DEF ValueExtract, Done, Fail
  <1> HIDE DEF s, r
  <1>5. InBounds(r.z.state)
    <2>1. CASE r.z = c
      BY <2>1
    <2>2. CASE ~ (c.state.payload + h > c.state.payload_end) /\ r.z = [c EXCEPT !.state = s]
      <3>1. r.z.state = s
        BY <2>2 DEF Context
      <3> QED BY <1>2, <1>3, <2>2, <3>1 DEF InBounds
    <2> QED BY <1>4, <2>1, <2>2
  <1>6. Stays(c, r.z)
    BY <1>1, <1>2, <1>5 DEF Stays
  <1> QED BY <1>6 DEF r

(* A string of which the header was read ends in the section.              *)
LEMMA StrStartBounds ==
    ASSUME NEW c \in Context, NEW h \in Nat, NEW len \in Nat, InBounds(c.state)
    PROVE  LET r == StrStart(c, h, len) IN
           /\ Stays(c, r.z)
           /\ r.ok => r.z.state.payload + len <= r.z.state.payload_end
  <1> DEFINE r == StrStart(c, h, len)
             v == ValueExtract(c, h)
  <1>1. Stays(c, v.z) /\ v.z \in Context
    BY ValueExtractBounds DEF Stays, Same
  <1>2. Stays(c, c)
    BY BoundTypes DEF Stays, Same
  <1>3. \/ r = v /\ (r.ok => len <= v.z.state.payload_end - v.z.state.payload)
        \/ r = Fail(c, "NO_PAYLOAD")
    BY DEF StrStart
  <1> HIDE DEF v
  <1>4. v.z.state.payload \in Nat /\ v.z.state.payload_end \in Nat
    BY <1>1, BoundTypes
  <1> HIDE DEF r
  <1>5. Stays(c, r.z) /\ (r.ok => r.z.state.payload + len <= r.z.state.payload_end)
    BY <1>1, <1>2, <1>3, <1>4 DEF Fail
  <1> QED BY <1>5 DEF r

LEMMA StrDecodeBounds ==
    ASSUME NEW c \in Context, NEW h \in Nat, NEW len \in Nat, InBounds(c.state)
    PROVE  Stays(c, StrDecode(c, h, len).z)
  <1> DEFINE v == StrStart(c, h, len)
             d == [v.z EXCEPT !.state.payload = @ + len]
             r == StrDecode(c, h, len)
  <1>1. /\ Stays(c, v.z) /\ v.z \in Context
        /\ v.ok => v.z.state.payload + len <= v.z.state.payload_end
    BY StrStartBounds DEF Stays, Same
  <1>2. Same(c, r.z) /\ r.z.state.payload_end = c.state.payload_end
    BY StrDecodeEffect, StrDecodeString DEF SameString
  <1>3. r.z = v.z \/ (v.ok /\ r.z = d)
    BY DEF StrDecode, Done
  <1> HIDE DEF v, r
  <1>4. d.state.payload = v.z.state.payload + len /\ d.state.payload_end = v.z.state.payload_end
    BY <1>1 DEF Context, State
  <1> HIDE DEF d
  <1>5. InBounds(r.z.state)
    BY <1>1, <1>3, <1>4 DEF Stays, InBounds
  <1>6. Stays(c, r.z)
    BY <1>2, <1>5, BoundTypes DEF Stays
  <1> QED BY <1>6 DEF r

(* A fragment is no more than the section holds.                           *)
LEMMA FragmentDecodeBounds ==
    ASSUME NEW c \in Context, InBounds(c.state)
    PROVE  Stays(c, FragmentDecode(c).z)
  <1> DEFINE left == c.state.payload_end - c.state.payload
             rem == StringRemainder(c.state)
             n == IF left < rem THEN left ELSE rem
             d == [c EXCEPT !.state.payload = @ + n]
             r == FragmentDecode(c)
  <1>1. Same(c, r.z) /\ r.z.state.payload_end = c.state.payload_end
    BY FragmentDecodeEffect, FragmentDecodeString DEF SameString
  <1>2. r.z = c \/ r.z = d
    BY DEF FragmentDecode, Done, Fail
  <1>3. /\ c.state \in State /\ c.state.payload \in Nat /\ c.state.payload_end \in Nat
        /\ rem \in Int
    BY BoundTypes, ContextFields DEF StringRemainder, StringTotal, StringOffset, State
  <1>4. n \in Int /\ n <= left
    BY <1>3
  <1>5. c.state.payload + n <= c.state.payload_end
    BY <1>3, <1>4
  <1> HIDE DEF n, r
  <1>6. d.state.payload = c.state.payload + n /\ d.state.payload_end = c.state.payload_end
    BY <1>3 DEF Context, State
  <1> HIDE DEF d
  <1>7. InBounds(r.z.state)
    BY <1>2, <1>5, <1>6 DEF InBounds
  <1>8. Stays(c, r.z)
    BY <1>1, <1>3, <1>7 DEF Stays
  <1> QED BY <1>8 DEF r

(* A new backup has the bounds of the live state.                          *)
LEMMA NewBackupBounds ==
    ASSUME NEW c \in Context, NEW elems \in 0 .. MaxElemCount, InBounds(c.state),
           NewBackup(c, elems).ok
    PROVE  Nests(c, NewBackup(c, elems).z)
  <1> DEFINE d == NewBackup(c, elems).z
             b == Top(d.backup_list)
  <1>1. Pushed(c, d)
    BY NewBackupEffect
  <1>2. /\ d.state.payload = c.state.payload /\ d.state.payload_end = c.state.payload_end
        /\ b.payload = c.state.payload /\ b.payload_end = c.state.payload_end
    BY NewBackupString DEF SameString
  <1> HIDE DEF d
  <1>3. Nests(c, d)
    BY <1>1, <1>2, BoundTypes DEF Nests, InBounds
  <1> QED BY <1>3 DEF d

(* Opening a list,                                                         *)
LEMMA ListMapStartBounds ==
    ASSUME NEW c \in Context, NEW h \in Nat, InBounds(c.state),
           NEW n \in 0 .. MaxElemCount, NEW indefinite \in BOOLEAN,
           ListMapStart(c, h, n, indefinite).ok
    PROVE  Nests(c, ListMapStart(c, h, n, indefinite).z)
  <1> DEFINE v == ValueExtract(c, h)
             elems == IF indefinite THEN LargeElemCount ELSE n
             b == NewBackup(v.z, elems)
             u == [ExitMap(b.z.state.decode_state) EXCEPT
                    !.map_start_backup_num = Len(b.z.backup_list),
                    !.indefinite_length_array = indefinite]
             d == [b.z EXCEPT !.state.decode_state = u]
  <1>1. Stays(c, v.z) /\ v.z \in Context /\ InBounds(v.z.state)
    BY ValueExtractBounds DEF Stays, Same
  <1>2. elems \in 0 .. MaxElemCount
    BY LargeElemCountInRange
  <1>3. v.ok /\ b.ok
    BY DEF ListMapStart, Fail
  <1>4. ListMapStart(c, h, n, indefinite) = Done(d)
    BY <1>3 DEF ListMapStart
  <1>5. Pushed(c, ListMapStart(c, h, n, indefinite).z)
    BY ListMapStartEffect
  <1> HIDE DEF v, elems
  <1>6. Nests(v.z, b.z)
    BY <1>1, <1>2, <1>3, NewBackupBounds
  <1> HIDE DEF b, u
  <1>7. Nests(c, b.z) /\ b.z \in Context
    <2>1. Nests(c, b.z)
      BY <1>1, <1>6, NestsOn
    <2> QED BY <2>1 DEF Nests, Pushed
  <1>8. /\ d.backup_list = b.z.backup_list
        /\ d.state.payload = b.z.state.payload /\ d.state.payload_end = b.z.state.payload_end
    BY <1>7 DEF Context, State
  <1> HIDE DEF d
  <1>9. Pushed(c, d)
    BY <1>4, <1>5 DEF Done
  <1>10. Nests(c, d)
    BY <1>7, <1>8, <1>9 DEF Nests, InBounds
  <1> QED BY <1>4, <1>10 DEF Done

(* a map, also in the failing branch that keeps the backup and takes the   *)
(* payload pointer back,                                                   *)
LEMMA MapStartBounds ==
    ASSUME NEW c \in Context, NEW h \in Nat, InBounds(c.state),
           NEW n \in 0 .. MaxElemCount, NEW indefinite \in BOOLEAN
    PROVE  LET r == MapStart(c, h, n, indefinite) IN r.z = c \/ Nests(c, r.z)
  <1> DEFINE v == ListMapStart(c, h, n, indefinite)
             wrapped == (n + 1) % (MaxElemCount + 1)
             p == c.state.payload
             d == [v.z EXCEPT !.state.payload = p, !.state.elem_count = wrapped]
             e == [v.z EXCEPT !.state.elem_count = 2 * n]
             r == MapStart(c, h, n, indefinite)
  <1>1. CASE ~ v.ok
    <2>1. r = v /\ v.z = c
      BY <1>1, ListMapStartEffect DEF MapStart
    <2> QED BY <2>1
  <1>2. CASE v.ok
    <2>1. /\ Nests(c, v.z) /\ v.z \in Context /\ v.z.state.payload_end = c.state.payload_end
      BY <1>2, ListMapStartBounds, ListMapStartString DEF Nests, Pushed, SameString
    <2>2. r.z = c \/ Pushed(c, r.z)
      BY MapStartEffect
    <2>3. r.z \in {v.z, d, e}
      BY DEF MapStart, Done, Fail
    <2> HIDE DEF v, wrapped, r
    <2>4. /\ d.backup_list = v.z.backup_list /\ e.backup_list = v.z.backup_list
          /\ d.state.payload = p /\ d.state.payload_end = v.z.state.payload_end
          /\ e.state.payload = v.z.state.payload /\ e.state.payload_end = v.z.state.payload_end
      BY <2>1 DEF Context, State
    <2> HIDE DEF d, e
    <2>5. /\ r.z.backup_list = v.z.backup_list /\ InBounds(r.z.state)
          /\ r.z.state.payload_end = v.z.state.payload_end
      BY <2>1, <2>3, <2>4 DEF Nests, InBounds
    <2>6. r.z = c \/ Nests(c, r.z)
      BY <2>1, <2>2, <2>5 DEF Nests
    <2> QED BY <2>6 DEF r
  <1> QED BY <1>1, <1>2

(* a whole string, which narrows the section,                              *)
LEMMA BstrStartBounds ==
    ASSUME NEW c \in Context, NEW h \in Nat, NEW len \in Nat, InBounds(c.state),
           BstrStart(c, h, len).ok
    PROVE  Nests(c, BstrStart(c, h, len).z)
  <1> DEFINE v == StrStart(c, h, len)
             b == NewBackup(v.z, MaxElemCount)
             t == ExitMap(b.z.state.decode_state)
             end == v.z.state.payload + len
             d == [b.z EXCEPT !.state.decode_state = t,
                              !.state.payload_end = end,
                              !.state.inside_cbor_bstr = TRUE]
  <1>1. v.ok /\ b.ok
    BY DEF BstrStart, Fail
  <1>2. BstrStart(c, h, len) = Done(d)
    BY <1>1 DEF BstrStart
  <1>3. /\ Stays(c, v.z) /\ v.z \in Context /\ InBounds(v.z.state)
        /\ v.z.state.payload + len <= v.z.state.payload_end
    BY <1>1, StrStartBounds DEF Stays, Same
  <1>4. Pushed(c, BstrStart(c, h, len).z)
    BY BstrStartEffect
  <1> HIDE DEF v
  <1>5. /\ Nests(v.z, b.z) /\ b.z \in Context /\ b.z.state.payload = v.z.state.payload
        /\ Top(b.z.backup_list).payload_end = v.z.state.payload_end
    BY <1>1, <1>3, MaxElemCountAssumption, NewBackupBounds, NewBackupString
       DEF Nests, Pushed, SameString
  <1>6. Nests(c, b.z)
    BY <1>3, <1>5, NestsOn
  <1>7. v.z.state.payload \in Nat /\ end = v.z.state.payload + len
    BY <1>3, BoundTypes
  <1> HIDE DEF b, t, end
  <1>8. /\ d.backup_list = b.z.backup_list
        /\ d.state.payload = b.z.state.payload /\ d.state.payload_end = end
    BY <1>5 DEF Context, State
  <1> HIDE DEF d
  <1>9. Pushed(c, d)
    BY <1>2, <1>4 DEF Done
  <1>10. Nests(c, d)
    BY <1>3, <1>5, <1>6, <1>7, <1>8, <1>9 DEF Nests, InBounds
  <1> QED BY <1>2, <1>10 DEF Done

(* and a fragmented string.                                                *)
LEMMA FragmentsStartBounds ==
    ASSUME NEW c \in Context, NEW h \in Nat, NEW len \in Nat, NEW cborBstr \in BOOLEAN,
           InBounds(c.state), FragmentsStart(c, h, len, cborBstr).ok
    PROVE  LET d == FragmentsStart(c, h, len, cborBstr).z IN
           IF cborBstr THEN Nests(c, d) ELSE Stays(c, d)
  <1> DEFINE v == ValueExtract(c, h)
             offset == 0 - v.z.state.payload
             b == NewBackup(v.z, MaxElemCount)
             plain == [v.z EXCEPT !.state.frag_offset = offset,
                                  !.state.str_total_len = len,
                                  !.state.inside_frag_str = TRUE]
             cbor == [b.z EXCEPT !.state.frag_offset_cbor = offset,
                                 !.state.str_total_len_cbor = len,
                                 !.state.inside_cbor_bstr = TRUE]
             r == FragmentsStart(c, h, len, cborBstr)
  <1>1. Stays(c, v.z) /\ v.z \in Context /\ InBounds(v.z.state) /\ v.ok
    BY ValueExtractBounds DEF Stays, Same, FragmentsStart
  <1>2. IF cborBstr THEN Pushed(c, r.z) ELSE Same(c, r.z)
    BY FragmentsStartEffect
  <1>3. CASE ~ cborBstr
    <2>1. r = Done(plain)
      BY <1>1, <1>3 DEF FragmentsStart, Fail
    <2> HIDE DEF v, offset, r
    <2>2. /\ plain.state.payload = v.z.state.payload
          /\ plain.state.payload_end = v.z.state.payload_end
      BY <1>1 DEF Context, State
    <2> HIDE DEF plain
    <2>3. r.z = plain
      BY <2>1 DEF Done
    <2>4. Stays(c, r.z)
      BY <1>1, <1>2, <1>3, <2>2, <2>3 DEF Stays, InBounds
    <2> QED BY <1>3, <2>4 DEF r
  <1>4. CASE cborBstr
    <2>1. b.ok
      BY <1>1, <1>4 DEF FragmentsStart, Fail
    <2>2. r = Done(cbor)
      BY <1>1, <1>4, <2>1 DEF FragmentsStart, Fail
    <2> HIDE DEF v, offset, r
    <2>3. Nests(v.z, b.z) /\ b.z \in Context
      BY <1>1, <2>1, MaxElemCountAssumption, NewBackupBounds DEF Nests, Pushed
    <2>4. Nests(c, b.z)
      BY <1>1, <2>3, NestsOn
    <2> HIDE DEF b
    <2>5. /\ cbor.backup_list = b.z.backup_list
          /\ cbor.state.payload = b.z.state.payload
          /\ cbor.state.payload_end = b.z.state.payload_end
      BY <2>3 DEF Context, State
    <2> HIDE DEF cbor
    <2>6. r.z = cbor
      BY <2>2 DEF Done
    <2>7. Nests(c, r.z)
      BY <1>2, <1>4, <2>4, <2>5, <2>6 DEF Nests, InBounds
    <2> QED BY <1>4, <2>7 DEF r
  <1> QED BY <1>3, <1>4

(* Ending one takes the payload pointer and the payload_end of the backup, *)
(* which is no less than the one the pointer was limited by,               *)
LEMMA TopBounds ==
    ASSUME NEW c \in Context, c.backup_list # << >>, Bounded(c)
    PROVE  LET b == Top(c.backup_list) IN
           /\ b \in State /\ b.payload_end \in Nat /\ InBounds(b)
           /\ c.state.payload \in Nat /\ c.state.payload <= b.payload_end
  <1> DEFINE n == Len(c.backup_list)
             b == c.backup_list[n]
  <1>1. n \in DOMAIN c.backup_list /\ b \in State
    BY ContextFields
  <1>2. /\ c.state.payload \in Nat /\ c.state.payload_end \in Nat
        /\ b.payload \in Nat /\ b.payload_end \in Nat
    BY <1>1, BoundTypes
  <1>3. InBounds(c.state) /\ InBounds(b) /\ c.state.payload_end <= b.payload_end
    BY <1>1 DEF Bounded
  <1> HIDE DEF b
  <1>4. c.state.payload <= b.payload_end
    BY <1>2, <1>3 DEF InBounds
  <1> QED BY <1>1, <1>2, <1>3, <1>4 DEF Top, b

LEMMA ResumeBounds ==
    ASSUME NEW c \in Context, c.backup_list # << >>, Bounded(c)
    PROVE  LET d == ProcessBackup(c, ResumeFlags).z IN
           /\ Pulled(c, d) /\ Returns(c, d)
           /\ d.state.payload_end = Top(c.backup_list).payload_end
  <1> DEFINE b == Top(c.backup_list)
             d == ProcessBackup(c, ResumeFlags).z
  <1>1. Pulled(c, d) /\ d.state = [b EXCEPT !.payload = c.state.payload]
    BY ResumeEffect
  <1>2. /\ b \in State /\ b.payload_end \in Nat
        /\ c.state.payload <= b.payload_end
    BY TopBounds
  <1> HIDE DEF b, d
  <1>3. d.state.payload = c.state.payload /\ d.state.payload_end = b.payload_end
    BY <1>1, <1>2 DEF State
  <1>4. InBounds(d.state) /\ d.state.payload_end <= b.payload_end
    BY <1>2, <1>3 DEF InBounds
  <1> QED BY <1>1, <1>3, <1>4 DEF Returns, b, d

(* for a list or map also when it fails,                                   *)
LEMMA ListMapEndBounds ==
    ASSUME NEW c \in Context, c.backup_list # << >>, Bounded(c), NEW isBreak \in BOOLEAN
    PROVE  Returns(c, ListMapEnd(c, isBreak).z)
  <1> DEFINE v == ProcessBackup(c, ResumeFlags)
             d == [v.z EXCEPT !.state.payload = @ + 1]
             r == ListMapEnd(c, isBreak)
  <1>1. v.ok = TRUE /\ Pulled(c, v.z) /\ Returns(c, v.z)
    BY ResumeBounds, ResumeEffect
  <1>2. Pulled(c, r.z)
    BY ListMapEndEffect
  <1>3. \/ r = v \/ (r = Done(d) /\ ~ (v.z.state.payload >= v.z.state.payload_end))
        \/ \E err : r = Fail(v.z, err)
    BY <1>1 DEF ListMapEnd, ResumeFlags
  <1>4. v.z \in Context /\ v.z.state.payload \in Nat /\ v.z.state.payload_end \in Nat
    BY <1>1, BoundTypes DEF Pulled
  <1> HIDE DEF v, r
  <1>5. d.state.payload = v.z.state.payload + 1 /\ d.state.payload_end = v.z.state.payload_end
    BY <1>4 DEF Context, State
  <1> HIDE DEF d
  <1>6. \/ r.z = v.z
        \/ r.z = d /\ ~ (v.z.state.payload >= v.z.state.payload_end)
    BY <1>3 DEF Done, Fail
  <1>7. InBounds(r.z.state) /\ r.z.state.payload_end = v.z.state.payload_end
    <2>1. CASE r.z = v.z
      BY <1>1, <2>1 DEF Returns
    <2>2. CASE r.z = d /\ ~ (v.z.state.payload >= v.z.state.payload_end)
      BY <1>4, <1>5, <2>2 DEF InBounds
    <2> QED BY <1>6, <2>1, <2>2
  <1>8. Returns(c, r.z)
    BY <1>1, <1>2, <1>7 DEF Returns
  <1> QED BY <1>8 DEF r

(* for a string when it succeeds;                                          *)
LEMMA BstrEndBounds ==
    ASSUME NEW c \in Context, c.backup_list # << >>, Bounded(c), BstrEnd(c).ok
    PROVE  Returns(c, BstrEnd(c).z)
  <1>1. BstrEnd(c) = ProcessBackup(c, ResumeFlags)
    BY DEF BstrEnd, ResumeFlags, Fail
  <1> QED BY <1>1, ResumeBounds

(* a plain fragmented string has no backup.                                *)
LEMMA FragmentsEndBounds ==
    ASSUME NEW c \in Context, c.state.inside_frag_str \/ c.backup_list # << >>,
           Bounded(c), FragmentsEnd(c).ok
    PROVE  LET d == FragmentsEnd(c).z IN
           IF c.state.inside_frag_str THEN Stays(c, d) ELSE Returns(c, d)
  <1> DEFINE v == BstrEnd(c)
             plain == [c EXCEPT !.state.inside_frag_str = FALSE]
             cbor == [v.z EXCEPT !.state.inside_cbor_bstr = FALSE]
             r == FragmentsEnd(c)
  <1>1. StringError(c.state) = "SUCCESS" /\ StringRemainder(c.state) = 0
    BY DEF FragmentsEnd, Fail
  <1>2. IF c.state.inside_frag_str THEN Same(c, r.z) ELSE Pulled(c, r.z)
    BY FragmentsEndEffect DEF Resumed
  <1>3. CASE c.state.inside_frag_str
    <2>1. r = Done(plain)
      BY <1>1, <1>3 DEF FragmentsEnd
    <2>2. plain.state.payload = c.state.payload /\ plain.state.payload_end = c.state.payload_end
      BY DEF Context, State
    <2> HIDE DEF plain, r
    <2>3. r.z = plain /\ c.state.payload_end \in Nat
      BY <2>1, BoundTypes DEF Done
    <2>4. Stays(c, r.z)
      BY <1>2, <1>3, <2>2, <2>3 DEF Stays, InBounds, Bounded
    <2> QED BY <1>3, <2>4 DEF r
  <1>4. CASE ~ c.state.inside_frag_str
    <2>1. v.ok /\ r = Done(cbor)
      BY <1>1, <1>4 DEF FragmentsEnd
    <2>2. Returns(c, v.z) /\ v.z \in Context
      BY <1>4, <2>1, BstrEndBounds DEF Returns, Same, Pulled
    <2> HIDE DEF v, r
    <2>3. /\ cbor.state.payload = v.z.state.payload
          /\ cbor.state.payload_end = v.z.state.payload_end
      BY <2>2 DEF Context, State
    <2> HIDE DEF cbor
    <2>4. r.z = cbor
      BY <2>1 DEF Done
    <2>5. Returns(c, r.z)
      BY <1>2, <1>4, <2>2, <2>3, <2>4 DEF Returns, InBounds
    <2> QED BY <1>4, <2>5 DEF r
  <1> QED BY <1>3, <1>4

(* No step but a section moves the base, and each keeps the bounds.        *)
LEMMA CallActionsBounded ==
    ASSUME IInv, Bounded(z), DecodeValue \/ StartFragments \/ DecodeFragment \/ EndFragments
    PROVE  Bounded(z') /\ z'.base = z.base
  <1>1. /\ z \in Context /\ InBounds(z.state)
        /\ HeaderLens \subseteq Nat /\ Lengths \cup {0} \subseteq Nat
    BY InputsAssumption DEF IInv, TypeOK, Bounded
  <1>2. CASE DecodeValue
    <2>1. PICK h \in HeaderLens, len \in Lengths \cup {0} : z' = StrDecode(z, h, len).z
      BY <1>2 DEF DecodeValue, Call
    <2>2. Stays(z, z')
      BY <1>1, <2>1, StrDecodeBounds
    <2> QED BY <1>1, <2>2, BoundedStays
  <1>3. CASE StartFragments
    <2>1. PICK h \in HeaderLens, len \in Lengths : z' = FragmentsStart(z, h, len, FALSE).z
      BY <1>3 DEF StartFragments, Call
    <2>2. CASE FragmentsStart(z, h, len, FALSE).ok
      <3>1. Stays(z, z')
        BY <1>1, <2>1, <2>2, FragmentsStartBounds
      <3> QED BY <1>1, <3>1, BoundedStays
    <2>3. CASE ~ FragmentsStart(z, h, len, FALSE).ok
      BY <1>1, <2>1, <2>3, FragmentsStartEffect
    <2> QED BY <2>2, <2>3
  <1>4. CASE DecodeFragment
    <2>1. Stays(z, z')
      BY <1>1, <1>4, FragmentDecodeBounds DEF DecodeFragment, Call
    <2> QED BY <1>1, <2>1, BoundedStays
  <1>5. CASE EndFragments
    <2>1. z.state.inside_frag_str /\ z' = FragmentsEnd(z).z
      BY <1>5 DEF EndFragments, Call
    <2>2. CASE FragmentsEnd(z).ok
      <3>1. Stays(z, z')
        BY <1>1, <2>1, <2>2, FragmentsEndBounds
      <3> QED BY <1>1, <3>1, BoundedStays
    <2>3. CASE ~ FragmentsEnd(z).ok
      BY <1>1, <2>1, <2>3, FragmentsEndEffect
    <2> QED BY <2>2, <2>3
  <1> QED BY <1>2, <1>3, <1>4, <1>5

LEMMA OpenActionsBounded ==
    ASSUME IInv, Bounded(z),
           \/ \E kind \in Containers : StartContainer(kind)
           \/ StartBstr \/ StartCborFragments
           \/ StartUnion \/ StartIteration \/ StartItem
    PROVE  Bounded(z') /\ z'.base = z.base
  <1>1. /\ z \in Context /\ InBounds(z.state) /\ z.state.elem_count \in 0 .. MaxElemCount
        /\ HeaderLens \subseteq Nat /\ Lengths \subseteq Nat /\ Counts \subseteq 0 .. MaxElemCount
    BY InputsAssumption, ContextFields DEF IInv, TypeOK, State, Bounded
  <1>2. SUFFICES z' = z \/ Nests(z, z')
    BY <1>1, BoundedNests
  <1>3. ASSUME NEW kind \in Containers, StartContainer(kind)
        PROVE  z' = z \/ Nests(z, z')
    <2>1. PICK h \in HeaderLens, n \in Counts, indefinite \in BOOLEAN :
            z' = (IF kind = "map" THEN MapStart(z, h, n, indefinite)
                                  ELSE ListMapStart(z, h, n, indefinite)).z
      BY <1>3 DEF StartContainer, OpenFrame
    <2>2. CASE kind = "map"
      BY <1>1, <2>1, <2>2, MapStartBounds
    <2>3. CASE kind # "map"
      <3>1. z' = ListMapStart(z, h, n, indefinite).z
        BY <2>1, <2>3
      <3>2. ListMapStart(z, h, n, indefinite).ok \in BOOLEAN
        BY <1>1, ListMapStartEffect
      <3>3. CASE ListMapStart(z, h, n, indefinite).ok
        BY <1>1, <3>1, <3>3, ListMapStartBounds
      <3>4. CASE ~ ListMapStart(z, h, n, indefinite).ok
        BY <1>1, <3>1, <3>4, ListMapStartEffect
      <3> QED BY <3>3, <3>4
    <2> QED BY <2>2, <2>3
  <1>4. CASE StartBstr
    <2>1. PICK h \in HeaderLens, len \in Lengths : z' = BstrStart(z, h, len).z
      BY <1>4 DEF StartBstr, OpenFrame
    <2>2. CASE BstrStart(z, h, len).ok
      BY <1>1, <2>1, <2>2, BstrStartBounds
    <2>3. CASE ~ BstrStart(z, h, len).ok
      BY <1>1, <2>1, <2>3, BstrStartEffect
    <2> QED BY <2>2, <2>3
  <1>5. CASE StartCborFragments
    <2>1. PICK h \in HeaderLens, len \in Lengths : z' = FragmentsStart(z, h, len, TRUE).z
      BY <1>5 DEF StartCborFragments, OpenFrame
    <2>2. CASE FragmentsStart(z, h, len, TRUE).ok
      BY <1>1, <2>1, <2>2, FragmentsStartBounds
    <2>3. CASE ~ FragmentsStart(z, h, len, TRUE).ok
      BY <1>1, <2>1, <2>3, FragmentsStartEffect
    <2> QED BY <2>2, <2>3
  <1>6. CASE StartUnion \/ StartIteration \/ StartItem
    <2>1. z' = NewBackup(z, z.state.elem_count).z
      BY <1>6 DEF StartUnion, StartIteration, StartItem, UnionStart, OpenFrame
    <2>2. CASE NewBackup(z, z.state.elem_count).ok
      BY <1>1, <2>1, <2>2, NewBackupBounds
    <2>3. CASE ~ NewBackup(z, z.state.elem_count).ok
      BY <1>1, <2>1, <2>3, NewBackupEffect
    <2> QED BY <2>2, <2>3
  <1> QED BY <1>3, <1>4, <1>5, <1>6

(* Keeping what a rollback point decoded keeps the live state.             *)
LEMMA ConsumeBounds ==
    ASSUME NEW c \in Context, c.backup_list # << >>, Bounded(c)
    PROVE  Returns(c, ProcessBackup(c, {"CONSUME"}).z)
  <1> DEFINE n == Len(c.backup_list)
             d == ProcessBackup(c, {"CONSUME"}).z
  <1>1. Pulled(c, d) /\ d.state = c.state
    BY ConsumeEffect
  <1>2. n \in DOMAIN c.backup_list
    BY ContextFields
  <1>3. InBounds(c.state) /\ c.state.payload_end <= c.backup_list[n].payload_end
    BY <1>2 DEF Bounded
  <1> HIDE DEF d
  <1>4. Returns(c, d)
    BY <1>1, <1>3 DEF Returns, Top
  <1> QED BY <1>4 DEF d

LEMMA CloseActionsBounded ==
    ASSUME IInv, StringsInv, Bounded(z),
           \/ EndContainer \/ EndBstr \/ EndCborFragments
           \/ EndUnion \/ EndIteration \/ EndItem
    PROVE  Bounded(z') /\ z'.base = z.base
  <1>1. mode = "run" /\ frames # << >>
    BY DEF EndContainer, EndBstr, EndCborFragments, EndUnion, EndIteration, EndItem,
           BetweenItems, Running, InFrame
  <1>2. z \in Context /\ z.backup_list # << >> /\ DropTo(z, Len(frames)) = z
    BY <1>1, TopTuned
  <1>3. SUFFICES z' = z \/ Returns(z, z')
    BY <1>2, BoundedReturns
  <1>4. CASE EndContainer
    <2>1. PICK isBreak \in BOOLEAN : z' = ListMapEnd(z, isBreak).z
      BY <1>4 DEF EndContainer, CloseFrame
    <2> QED BY <1>2, <2>1, ListMapEndBounds
  <1>5. CASE EndBstr
    <2>1. z' = BstrEnd(z).z
      BY <1>5 DEF EndBstr, CloseFrame
    <2> QED BY <1>2, <2>1, BstrEndBounds, BstrEndEffect
  <1>6. CASE EndCborFragments
    <2>1. z' = FragmentsEnd(z).z /\ ~ z.state.inside_frag_str
      BY <1>6 DEF EndCborFragments, CloseFrame, BetweenItems
    <2>2. CASE FragmentsEnd(z).ok
      BY <1>2, <2>1, <2>2, FragmentsEndBounds
    <2>3. CASE ~ FragmentsEnd(z).ok
      BY <1>2, <2>1, <2>3, FragmentsEndEffect
    <2> QED BY <2>2, <2>3
  <1>7. CASE EndUnion \/ EndIteration \/ EndItem
    <2>1. z' = ProcessBackup(z, {"CONSUME"}).z
      BY <1>2, <1>7 DEF EndUnion, EndIteration, EndItem, UnionEnd, CloseFrame
    <2> QED BY <1>2, <2>1, ConsumeBounds
  <1> QED BY <1>4, <1>5, <1>6, <1>7

LEMMA FailureActionsBounded ==
    ASSUME IInv, StringsInv, Bounded(z),
           \/ Mismatch \/ ReturnFalse \/ ForceEndContainer
           \/ NextArm \/ NoArmLeft \/ StopIterating \/ ItemFailed \/ SessionFails
    PROVE  Bounded(z') /\ z'.base = z.base
  <1> DEFINE d == DropTo(z, Len(frames))
             b == Top(d.backup_list)
  <1>1. ASSUME frames # << >>
        PROVE  /\ d \in Context /\ d.backup_list # << >> /\ Bounded(d) /\ d.base = z.base
               /\ b \in State /\ b.payload_end \in Nat /\ InBounds(b)
    BY <1>1, BoundedDropped, TopBounds
  <1>2. ASSUME frames # << >>, z' = d \/ Returns(d, z')
        PROVE  Bounded(z') /\ z'.base = z.base
    BY <1>1, <1>2, BoundedReturns
  <1>3. CASE Mismatch \/ ReturnFalse \/ SessionFails
    BY <1>3 DEF Mismatch, ReturnFalse, SessionFails
  <1>4. CASE ForceEndContainer
    <2>1. /\ frames # << >> /\ Len(z.backup_list) = Len(frames)
          /\ z' = ProcessBackup(z, ResumeFlags).z
      BY <1>4 DEF ForceEndContainer, InFrame, ListMapEndForce, ResumeFlags, CloseFrame
    <2>2. d = z
      BY <2>1, TopTuned
    <2>3. Returns(d, z')
      BY <1>1, <2>1, <2>2, ResumeBounds
    <2> QED BY <1>2, <2>1, <2>3
  <1>5. CASE NextArm
    <2> DEFINE r == ProcessBackup(d, {"RESTORE"})
    <2>1. frames # << >> /\ z' = r.z
      BY <1>5 DEF NextArm, InFrame, UnionElem
    <2>2. r.ok \in BOOLEAN /\ (r.ok => Same(d, r.z) /\ r.z.state = b) /\ (~ r.ok => r.z = d)
      BY <1>1, <2>1, RestoreEffect
    <2> HIDE DEF r, d, b
    <2>3. z' = d \/ (Same(d, z') /\ z'.state = b)
      BY <2>1, <2>2
    <2>4. z' = d \/ Returns(d, z')
      BY <1>1, <2>1, <2>3 DEF Returns, b
    <2> QED BY <1>2, <2>1, <2>4
  <1>6. CASE NoArmLeft
    <2>1. frames # << >> /\ z' = ProcessBackup(d, {"CONSUME"}).z
      BY <1>6 DEF NoArmLeft, InFrame, UnionEnd
    <2> QED BY <1>1, <1>2, <2>1, ConsumeBounds
  <1>7. CASE StopIterating \/ ItemFailed
    <2> DEFINE r == ProcessBackup(d, {"RESTORE", "CONSUME"})
    <2>1. frames # << >> /\ z' = r.z
      BY <1>7 DEF StopIterating, ItemFailed, InFrame
    <2>2. r.ok \in BOOLEAN /\ (r.ok => Pulled(d, r.z) /\ r.z.state = b) /\ (~ r.ok => r.z = d)
      BY <1>1, <2>1, RollBackEffect
    <2> HIDE DEF r, d, b
    <2>3. z' = d \/ (Pulled(d, z') /\ z'.state = b)
      BY <2>1, <2>2
    <2>4. z' = d \/ Returns(d, z')
      BY <1>1, <2>1, <2>3 DEF Returns, b
    <2> QED BY <1>2, <2>1, <2>4
  <1> QED BY <1>3, <1>4, <1>5, <1>6, <1>7

(* When strings do not nest, a state reaches no further into a section     *)
(* than one that was saved when fewer frames were open: either only the    *)
(* newer one is limited by a string, or both are by the same.              *)
LEMMA EnteredBelow ==
    ASSUME ~ NestedStrings, NEW s \in State, NEW t \in State,
           NEW len \in Nat, NEW prev_len \in Nat,
           NEW fs \in Seq(Frame), NEW k \in 0 .. Len(fs), NEW m \in 0 .. k,
           \A i \in DOMAIN fs : fs[i].kind # "bstr", OneString(fs),
           NEW c, InTune(s, fs, m, c), InTune(t, fs, k, c)
    PROVE  EnterSection(t, len, prev_len).payload_end
                <= EnterSection(s, len, prev_len).payload_end
  <1> DEFINE e == EnterSection(s, len, prev_len).payload_end
             f == EnterSection(t, len, prev_len).payload_end
             left(x) == x.str_total_len_cbor - (x.frag_offset_cbor + prev_len)
  <1>1. /\ e \in 0 .. len /\ f \in 0 .. len
        /\ e = IF s.inside_cbor_bstr THEN ClampToString(len, left(s)) ELSE len
        /\ f = IF t.inside_cbor_bstr THEN ClampToString(len, left(t)) ELSE len
    BY EnteredEnd
  <1> HIDE DEF e, f
  <1>2. CASE ~ s.inside_cbor_bstr
    BY <1>1, <1>2 DEF e, f
  <1>3. CASE s.inside_cbor_bstr
    <2>1. PICK i \in 1 .. m : IsString(fs[i])
      BY <1>3 DEF InTune, KnowsFlag
    <2>2. /\ i \in 1 .. k /\ \A j \in 1 .. k : j \in DOMAIN fs
          /\ \A j \in 1 .. m : j \in 1 .. k
      OBVIOUS
    <2>3. \A j \in 1 .. k : IsString(fs[j]) => j = i
      BY <2>1, <2>2 DEF OneString
    <2>4. Innermost(fs, m, i) /\ Innermost(fs, k, i) /\ fs[i].kind = "cborfrag"
      BY <2>1, <2>2, <2>3 DEF Innermost, IsString, Strings
    <2>5. t.inside_cbor_bstr
      BY <2>1, <2>2 DEF InTune, KnowsFlag
    <2>6. /\ s.frag_offset_cbor = t.frag_offset_cbor
          /\ s.str_total_len_cbor = t.str_total_len_cbor
      BY <2>1, <2>2, <2>4 DEF InTune, KnowsString
    <2>7. e = f
      BY <1>1, <1>3, <2>5, <2>6
    <2> QED BY <1>1, <2>7 DEF e, f
  <1> QED BY <1>2, <1>3

LEMMA FeedBounded ==
    ASSUME IInv, StringsInv, ~ NestedStrings, FeedSection
    PROVE  Bounded(z')
  <1>1. PICK len \in 0 .. MaxMessage - Position : z' = UpdateState(z, len)
    BY DEF FeedSection
  <1> DEFINE prev_len == z.state.payload
             n == Len(frames)
             live == EnterSection(z.state, len, prev_len)
             entered(i) == EnterSection(z.backup_list[i], len, prev_len)
  <1>2. /\ mode = "run" /\ z.state \in State /\ frames \in Seq(Frame)
        /\ n \in Nat /\ z.base \in Nat /\ DOMAIN frames = 1 .. n
        /\ Len(z.backup_list) = n /\ z.backup_list \in Seq(State)
    BY FramesHaveBackups DEF FeedSection, Running
  <1>3. prev_len \in Nat /\ Position \in Nat
    BY <1>2 DEF State, Position
  <1>4. len \in Nat
    BY <1>3, InputsAssumption
  <1>5. \A i \in DOMAIN frames : frames[i].kind # "bstr"
    BY DEF FeedSection, Open
  <1>6. OneString(frames)
    BY DEF StringsInv
  <1>7. /\ z'.state = live /\ DOMAIN z'.backup_list = 1 .. n
        /\ \A i \in 1 .. n : z'.backup_list[i] = [entered(i) EXCEPT !.payload_moved = TRUE]
    BY <1>1, <1>2 DEF UpdateState
  <1>8. \A i \in 1 .. n : z.backup_list[i] \in State
    BY <1>2
  <1>9. InTune(z.state, frames, n, z)
    BY <1>2 DEF StringsInv
  <1>10. \A i \in 1 .. n : InTune(z.backup_list[i], frames, i - 1, z)
    BY <1>2 DEF StringsInv, BackupsInTune
  <1>11. InBounds(z'.state)
    BY <1>2, <1>3, <1>4, <1>7, EnteredEnd DEF InBounds
  <1> HIDE DEF prev_len
  <1>12. ASSUME NEW i \in 1 .. n
         PROVE  /\ InBounds(z'.backup_list[i])
                /\ z'.backup_list[i].payload_end = entered(i).payload_end
    <2> DEFINE e == entered(i)
    <2>1. e \in State /\ e.payload = 0 /\ e.payload_end \in 0 .. len
      BY <1>3, <1>4, <1>8, EnterSectionEffect, EnteredEnd
    <2>2. z'.backup_list[i] = [e EXCEPT !.payload_moved = TRUE]
      BY <1>7
    <2> HIDE DEF e
    <2>3. z'.backup_list[i].payload = 0 /\ z'.backup_list[i].payload_end = e.payload_end
      BY <2>1, <2>2 DEF State
    <2> QED BY <1>4, <2>1, <2>3 DEF InBounds, e
  <1>13. ASSUME NEW i \in 1 .. n
         PROVE  live.payload_end <= entered(i).payload_end
    <2>1. i - 1 \in 0 .. n /\ n \in 0 .. Len(frames)
      BY <1>2
    <2> HIDE DEF n
    <2> QED BY <1>2, <1>3, <1>4, <1>5, <1>6, <1>8, <1>9, <1>10, <2>1, EnteredBelow
  <1>14. ASSUME NEW i \in 1 .. n, NEW j \in 1 .. i
         PROVE  entered(i).payload_end <= entered(j).payload_end
    <2>1. j \in 1 .. n /\ j - 1 \in 0 .. i - 1 /\ i - 1 \in 0 .. Len(frames)
      BY <1>2
    <2> HIDE DEF n
    <2> QED BY <1>2, <1>3, <1>4, <1>5, <1>6, <1>8, <1>10, <2>1, EnteredBelow
  <1>15. \A i \in 1 .. n : \A j \in 1 .. i : j \in 1 .. n
    BY <1>2
  <1> HIDE DEF live, entered, n
  <1> QED BY <1>7, <1>11, <1>12, <1>13, <1>14, <1>15 DEF Bounded

(* Of the session as a whole.                                              *)
BoundsInv == Bounded(z)

(* When strings do not nest, the payload pointer is within the section,    *)
(* and no state reaches further into it than the ones around it.           *)
THEOREM BoundsInvariant ==
    ASSUME ~ NestedStrings
    PROVE  Spec => []BoundsInv
  <1>1. Init => BoundsInv
    <2> SUFFICES ASSUME Init PROVE Bounded(z)
      BY DEF BoundsInv
    <2>1. PICK len \in 0 .. MaxMessage : z = NewState(len, LargeElemCount)
      BY DEF Init
    <2>2. z.state.payload = 0 /\ z.state.payload_end = len /\ z.backup_list = << >>
      BY <2>1 DEF NewState
    <2>3. 0 <= len
      BY InputsAssumption
    <2> QED BY <2>2, <2>3 DEF Bounded, InBounds
  <1>2. IInv /\ StringsInv /\ BoundsInv /\ [Next]_vars => BoundsInv'
    <2> SUFFICES ASSUME IInv, StringsInv, Bounded(z), [Next]_vars
                 PROVE  Bounded(z')
      BY DEF BoundsInv
    <2>1. UNCHANGED vars => z' = z
      BY DEF vars
    <2> QED BY <2>1, CallActionsBounded, OpenActionsBounded, CloseActionsBounded,
               FeedBounded, FailureActionsBounded DEF Next
  <1> QED BY <1>1, <1>2, SpecInvariant, StringsInvariant, PTL DEF Spec

(* So the payload pointer cannot have passed the end of the string when    *)
(* the section began inside it and was not the one with the header: that   *)
(* section was cut off at the end of the string.                           *)
LEMMA OverrunStepHolds ==
    ASSUME ~ NestedStrings, IInv, StringsInv, Bounded(z), [Next]_vars
    PROVE  OverrunStep
  <1> SUFFICES ASSUME NEW i \in InnermostString, frames[i].kind = "cborfrag",
                      frames[i].section < z.section, z.base <= frames[i].first + frames[i].len
               PROVE  z'.base <= frames[i].first + frames[i].len
    BY DEF OverrunStep
  <1>1. z'.base = z.base \/ FeedSection
    <2>1. UNCHANGED vars => z' = z
      BY DEF vars
    <2> QED BY <2>1, CallActionsBounded, OpenActionsBounded, CloseActionsBounded,
               FailureActionsBounded DEF Next
  <1>2. CASE FeedSection
    <2>1. mode = "run" /\ z'.base = z.base + z.state.payload
      BY <1>2 DEF FeedSection, Running, UpdateState
    <2>2. i \in 1 .. Len(frames) /\ frames[i] \in Frame /\ z.base \in Nat /\ z \in Context
      BY FramesHaveBackups DEF InnermostString
    <2>3. z.base + z.state.payload_end <= frames[i].first + frames[i].len
      <3> DEFINE around == z.backup_list[i].payload_end
      <3>1. z.state.payload_end = StringPart(frames[i], z.base, around)
        BY <2>1, <2>2 DEF StringsInv, InTune, StopsAtEnd
      <3>2. frames[i].first \in Nat /\ frames[i].len \in Nat
        BY <2>2 DEF Frame
      <3> HIDE DEF around
      <3>3. \/ z.base + around <= frames[i].first + frames[i].len /\ z.state.payload_end = around
            \/ z.state.payload_end = frames[i].first + frames[i].len - z.base
        BY <2>2, <3>1, <3>2 DEF StringPart
      <3> QED BY <2>2, <3>2, <3>3
    <2>4. /\ z.state.payload \in Nat /\ z.state.payload_end \in Nat
          /\ frames[i].first \in Nat /\ frames[i].len \in Nat
      BY <2>2, BoundTypes DEF Frame
    <2>5. z.state.payload <= z.state.payload_end
      BY DEF Bounded, InBounds
    <2>6. \A base, p, q, first, len \in Nat :
            base + q <= first + len /\ p <= q => base + p <= first + len
      OBVIOUS
    <2>7. z.base + z.state.payload <= frames[i].first + frames[i].len
      BY <2>2, <2>3, <2>4, <2>5, <2>6
    <2> QED BY <2>1, <2>7
  <1> QED BY <1>1, <1>2

(* When CBOR byte strings do not nest, once a section after the one with   *)
(* the header begins inside a fragmented string, every later one does too. *)
THEOREM OverrunsOnlyInFirstSection ==
    ASSUME ~ NestedStrings
    PROVE  Spec => OverrunOnlyInFirstSection
  <1>1. IInv /\ StringsInv /\ BoundsInv /\ [Next]_vars => [OverrunStep]_vars
    BY OverrunStepHolds DEF BoundsInv
  <1> QED BY <1>1, SpecInvariant, StringsInvariant, BoundsInvariant, PTL
             DEF Spec, OverrunOnlyInFirstSection
=============================================================================

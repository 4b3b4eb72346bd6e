--------------------------- MODULE ZcborState_proofs ---------------------------
(***************************************************************************)
(* What the functions of ZcborState do to a context and its backups, for   *)
(* every number of backups: the lemmas that the proofs about decoding and  *)
(* encoding sessions share.                                                *)
(***************************************************************************)
EXTENDS ZcborState, TLAPS

(* A call that leaves the backups and the section alone.                   *)
Same(c, d) ==
    /\ d \in Context
    /\ d.backup_list = c.backup_list
    /\ d.base = c.base /\ d.section = c.section

(* A call that saved one backup, restorable, on top of the others.         *)
Pushed(c, d) ==
    /\ d \in Context
    /\ d.base = c.base /\ d.section = c.section
    /\ \E b \in State :
        ~ b.payload_moved /\ d.backup_list = Append(c.backup_list, b)

(* A call that removed the innermost backup.                               *)
Pulled(c, d) ==
    /\ d \in Context
    /\ d.base = c.base /\ d.section = c.section
    /\ d.backup_list = Popped(c.backup_list)

(* ZCBOR_LARGE_ELEM_COUNT fits elem_count.                                 *)
LEMMA LargeElemCountInRange == LargeElemCount \in 0 .. MaxElemCount
  BY MaxElemCountAssumption DEF LargeElemCount

(* The types of the parts of a context.                                    *)
LEMMA ContextFields ==
    ASSUME NEW c \in Context
    PROVE  /\ c.state \in State /\ c.state.decode_state \in DecodeState
           /\ c.backup_list \in Seq(State) /\ Len(c.backup_list) \in Nat
           /\ c.base \in Nat /\ c.section \in Nat
  <1>1. c.state \in State /\ c.backup_list \in Seq(State)
        /\ c.base \in Nat /\ c.section \in Nat
    BY DEF Context
  <1>2. c.state.decode_state \in DecodeState
    BY <1>1 DEF State
  <1> QED BY <1>1, <1>2

(* Assigning to the live state's fields leaves the backups alone.          *)
LEMMA SetState ==
    ASSUME NEW c \in Context, NEW s \in State
    PROVE  LET d == [c EXCEPT !.state = s] IN
           /\ Same(c, d)
           /\ d.state = s
  BY DEF Context, Same

(* zcbor_new_backup pushes one restorable backup or changes nothing.       *)
LEMMA NewBackupEffect ==
    ASSUME NEW c \in Context, NEW elems \in 0 .. MaxElemCount
    PROVE  LET r == NewBackup(c, elems) IN
           /\ r.ok \in BOOLEAN
           /\ r.ok => Pushed(c, r.z)
           /\ r.ok => r.z.state \in State
           /\ ~ r.ok => r.z = c
  <1> DEFINE unmoved == [c.state EXCEPT !.payload_moved = FALSE]
  <1>1. c.state \in State /\ c.backup_list \in Seq(State)
    BY DEF Context
  <1>2. unmoved \in State /\ ~ unmoved.payload_moved
    BY <1>1 DEF State
  <1>3. [unmoved EXCEPT !.elem_count = elems] \in State
    BY <1>2 DEF State
  <1>4. CASE Len(c.backup_list) >= NumBackups
    BY <1>4 DEF NewBackup, Fail
  <1>5. CASE ~ (Len(c.backup_list) >= NumBackups)
    <2> DEFINE s == [unmoved EXCEPT !.elem_count = elems]
    <2> DEFINE list == Append(c.backup_list, unmoved)
    <2> DEFINE d == [c EXCEPT !.state = s, !.backup_list = list]
    <2>1. NewBackup(c, elems) = [ok |-> TRUE, z |-> d, err |-> "SUCCESS"]
      BY <1>5 DEF NewBackup, Done
    <2>2. s \in State /\ list \in Seq(State)
      BY <1>1, <1>2, <1>3
    <2> HIDE DEF s, list
    <2>3. d \in Context /\ d.backup_list = list /\ d.state = s
          /\ d.base = c.base /\ d.section = c.section
      BY <2>2 DEF Context
    <2> HIDE DEF d
    <2>4. Pushed(c, d)
      BY <1>2, <2>3 DEF Pushed, list
    <2> QED
      BY <2>1, <2>2, <2>3, <2>4 DEF list
  <1> QED BY <1>4, <1>5

ResumeFlags == {"RESTORE", "CONSUME", "KEEP_PAYLOAD"}

(* With the innermost backup, zcbor_process_backup does not fail as long   *)
(* as the payload pointer is kept.                                         *)
LEMMA ResumeEffect ==
    ASSUME NEW c \in Context, c.backup_list # << >>
    PROVE  LET r == ProcessBackup(c, ResumeFlags)
               b == Top(c.backup_list) IN
           /\ r.ok = TRUE
           /\ Pulled(c, r.z)
           /\ r.z.state = [b EXCEPT !.payload = c.state.payload]
  <1> DEFINE n == Len(c.backup_list)
             b == c.backup_list[n]
             s == Processed(c.state, b, ResumeFlags)
             list == SubSeq(c.backup_list, 1, n - 1)
             d == [c EXCEPT !.state = s, !.backup_list = list]
  <1>1. c.state \in State /\ c.backup_list \in Seq(State) /\ n \in Nat /\ n >= 1
    BY ContextFields
  <1>2. b \in State
    BY <1>1
  <1>3. s = [b EXCEPT !.payload = c.state.payload]
    <2>1. b.decode_state = b.decode_state /\ [b EXCEPT !.decode_state = b.decode_state] = b
      BY <1>2 DEF State
    <2> QED BY <1>2, <2>1 DEF Processed, ResumeFlags, State
  <1>4. s \in State
    BY <1>1, <1>2, <1>3 DEF State
  <1>5. list \in Seq(State)
    BY <1>1
  <1>6. ProcessBackup(c, ResumeFlags) = Done(d)
    BY <1>1 DEF ProcessBackup, ProcessBackupNum, Outdated, ResumeFlags
  <1> HIDE DEF s, list
  <1>7. d \in Context /\ d.base = c.base /\ d.section = c.section
        /\ d.backup_list = list /\ d.state = s
    BY <1>4, <1>5 DEF Context
  <1> HIDE DEF d
  <1> QED BY <1>3, <1>6, <1>7 DEF Done, Pulled, Popped, Top, list

(* Consuming a backup without restoring it removes it and keeps the live   *)
(* state.                                                                  *)
LEMMA ConsumeEffect ==
    ASSUME NEW c \in Context, c.backup_list # << >>
    PROVE  LET r == ProcessBackup(c, {"CONSUME"}) IN
           /\ r.ok = TRUE
           /\ Pulled(c, r.z)
           /\ r.z.state = c.state
  <1> DEFINE n == Len(c.backup_list)
             list == SubSeq(c.backup_list, 1, n - 1)
             d == [c EXCEPT !.state = @, !.backup_list = list]
  <1>1. c.state \in State /\ c.backup_list \in Seq(State) /\ n \in Nat /\ n >= 1
    BY ContextFields
  <1>2. list \in Seq(State)
    BY <1>1
  <1>3. ProcessBackup(c, {"CONSUME"}) = Done(d)
    BY <1>1 DEF ProcessBackup, ProcessBackupNum, Outdated, Processed
  <1> HIDE DEF list
  <1>4. d \in Context /\ d.base = c.base /\ d.section = c.section
        /\ d.backup_list = list /\ d.state = c.state
    BY <1>1, <1>2 DEF Context
  <1> HIDE DEF d
  <1>5. Pulled(c, d)
    BY <1>4 DEF Pulled, Popped, list
  <1> QED BY <1>3, <1>4, <1>5 DEF Done

(* A restore of the payload pointer succeeds exactly when the backup is    *)
(* not flagged payload_moved, and then the live state is the backup.       *)
LEMMA RestoreEffect ==
    ASSUME NEW c \in Context, c.backup_list # << >>
    PROVE  LET r == ProcessBackup(c, {"RESTORE"})
               b == Top(c.backup_list) IN
           /\ r.ok \in BOOLEAN
           /\ r.ok <=> ~ b.payload_moved
           /\ r.ok => Same(c, r.z) /\ r.z.state = b
           /\ ~ r.ok => r.z = c
  <1> DEFINE n == Len(c.backup_list)
             b == c.backup_list[n]
             s == Processed(c.state, b, {"RESTORE"})
             d == [c EXCEPT !.state = s, !.backup_list = @]
  <1>1. c.state \in State /\ c.backup_list \in Seq(State) /\ n \in Nat /\ n >= 1
    BY ContextFields
  <1>2. b \in State
    BY <1>1
  <1>3. s = b
    BY <1>2 DEF Processed, State
  <1>4. d \in Context /\ d.base = c.base /\ d.section = c.section
        /\ d.backup_list = c.backup_list /\ d.state = b
    BY <1>1, <1>2, <1>3 DEF Context
  <1>5. CASE b.payload_moved
    <2>1. ProcessBackup(c, {"RESTORE"}) = Fail(c, "PAYLOAD_OUTDATED")
      BY <1>1, <1>5 DEF ProcessBackup, ProcessBackupNum, Outdated
    <2>2. ProcessBackup(c, {"RESTORE"}).ok = FALSE /\ ProcessBackup(c, {"RESTORE"}).z = c
      BY <2>1 DEF Fail
    <2> QED BY <1>5, <2>2 DEF Top
  <1>6. CASE ~ b.payload_moved
    <2>1. ProcessBackup(c, {"RESTORE"}) = Done(d)
      BY <1>1, <1>6 DEF ProcessBackup, ProcessBackupNum, Outdated
    <2>2. Same(c, d)
      BY <1>4 DEF Same
    <2> HIDE DEF d
    <2>3. ProcessBackup(c, {"RESTORE"}).ok = TRUE /\ ProcessBackup(c, {"RESTORE"}).z = d
      BY <2>1 DEF Done
    <2> QED BY <1>4, <1>6, <2>2, <2>3 DEF Top
  <1> QED BY <1>5, <1>6

(* Rolling back restores and removes a backup that is not outdated, and    *)
(* changes nothing otherwise.                                              *)
LEMMA RollBackEffect ==
    ASSUME NEW c \in Context, c.backup_list # << >>
    PROVE  LET r == ProcessBackup(c, {"RESTORE", "CONSUME"})
               b == Top(c.backup_list) IN
           /\ r.ok \in BOOLEAN
           /\ r.ok <=> ~ b.payload_moved
           /\ r.ok => Pulled(c, r.z) /\ r.z.state = b
           /\ ~ r.ok => r.z = c
  <1> DEFINE n == Len(c.backup_list)
             b == c.backup_list[n]
             list == SubSeq(c.backup_list, 1, n - 1)
             s == Processed(c.state, b, {"RESTORE", "CONSUME"})
             d == [c EXCEPT !.state = s, !.backup_list = list]
  <1>1. c.state \in State /\ c.backup_list \in Seq(State) /\ n \in Nat /\ n >= 1
    BY ContextFields
  <1>2. b \in State /\ list \in Seq(State)
    BY <1>1
  <1>3. s = b
    BY <1>2 DEF Processed, State
  <1>5. CASE b.payload_moved
    <2>1. ProcessBackup(c, {"RESTORE", "CONSUME"}) = Fail(c, "PAYLOAD_OUTDATED")
      BY <1>1, <1>5 DEF ProcessBackup, ProcessBackupNum, Outdated
    <2>2. /\ ProcessBackup(c, {"RESTORE", "CONSUME"}).ok = FALSE
          /\ ProcessBackup(c, {"RESTORE", "CONSUME"}).z = c
      BY <2>1 DEF Fail
    <2> QED BY <1>5, <2>2 DEF Top
  <1>6. CASE ~ b.payload_moved
    <2>1. ProcessBackup(c, {"RESTORE", "CONSUME"}) = Done(d)
      BY <1>1, <1>6 DEF ProcessBackup, ProcessBackupNum, Outdated
    <2> HIDE DEF s, list
    <2>2. d \in Context /\ d.base = c.base /\ d.section = c.section
          /\ d.backup_list = list /\ d.state = b
      BY <1>1, <1>2, <1>3 DEF Context
    <2> HIDE DEF d
    <2>3. Pulled(c, d)
      BY <2>2 DEF Pulled, Popped, list
    <2>4. /\ ProcessBackup(c, {"RESTORE", "CONSUME"}).ok = TRUE
          /\ ProcessBackup(c, {"RESTORE", "CONSUME"}).z = d
      BY <2>1 DEF Done
    <2> QED BY <1>6, <2>2, <2>3, <2>4 DEF Top
  <1> QED BY <1>5, <1>6

(* Dropping what failed constructs left behind keeps the backups below.    *)
LEMMA DropToEffect ==
    ASSUME NEW c \in Context, NEW n \in 0 .. Len(c.backup_list)
    PROVE  LET d == DropTo(c, n) IN
           /\ d \in Context
           /\ d.base = c.base /\ d.section = c.section /\ d.state = c.state
           /\ d.backup_list = SubSeq(c.backup_list, 1, n)
           /\ Len(d.backup_list) = n
  <1> DEFINE list == SubSeq(c.backup_list, 1, n)
  <1>1. list \in Seq(State) /\ Len(list) = n
    BY ContextFields
  <1> HIDE DEF list
  <1>2. DropTo(c, n) = [c EXCEPT !.backup_list = list]
    BY DEF DropTo, list
  <1> QED BY <1>1, <1>2 DEF Context, list

(* Entering a section keeps a state's types and moves both its string      *)
(* offsets by the bytes consumed.                                          *)
LEMMA EnterSectionEffect ==
    ASSUME NEW s \in State, NEW len \in Nat, NEW prev_len \in Nat
    PROVE  LET t == EnterSection(s, len, prev_len) IN
           /\ t \in State
           /\ Kept(t) = Kept(s)
           /\ t.frag_offset = s.frag_offset + prev_len
           /\ t.frag_offset_cbor = s.frag_offset_cbor + prev_len
  <1> DEFINE fo == s.frag_offset + prev_len
             foc == s.frag_offset_cbor + prev_len
             end == IF s.inside_cbor_bstr
                    THEN ClampToString(len, s.str_total_len_cbor - foc) ELSE len
             t == [s EXCEPT !.payload = 0, !.payload_end = end,
                            !.frag_offset = fo, !.frag_offset_cbor = foc]
  <1>1. fo \in Int /\ foc \in Int
    BY DEF State
  <1>2. end \in Nat
    BY DEF ClampToString
  <1>3. EnterSection(s, len, prev_len) = t
    BY DEF EnterSection
  <1> HIDE DEF fo, foc, end
  <1>4. t \in State /\ t.frag_offset = fo /\ t.frag_offset_cbor = foc
    BY <1>1, <1>2 DEF State
  <1>5. Kept(t) = Kept(s)
    BY <1>1, <1>2 DEF Kept, State
  <1> HIDE DEF t
  <1> QED BY <1>3, <1>4, <1>5 DEF fo, foc

(* Every backup enters the section with the live state and is marked.      *)
LEMMA UpdateStateEffect ==
    ASSUME NEW c \in Context, NEW len \in Nat
    PROVE  LET d == UpdateState(c, len) IN
           /\ d \in Context
           /\ d.section = c.section + 1
           /\ Len(d.backup_list) = Len(c.backup_list)
           /\ \A i \in 1 .. Len(c.backup_list) :
                /\ Kept(d.backup_list[i]) = Kept(c.backup_list[i])
                /\ d.backup_list[i].payload_moved
                /\ d.backup_list[i].frag_offset - d.base
                        = c.backup_list[i].frag_offset - c.base
                /\ d.backup_list[i].frag_offset_cbor - d.base
                        = c.backup_list[i].frag_offset_cbor - c.base
  <1> DEFINE prev_len == c.state.payload
             n == Len(c.backup_list)
             entered(i) == EnterSection(c.backup_list[i], len, prev_len)
             list == [i \in 1 .. n |-> [entered(i) EXCEPT !.payload_moved = TRUE]]
             live == EnterSection(c.state, len, prev_len)
             d == [state |-> live, backup_list |-> list,
                   base |-> c.base + prev_len, section |-> c.section + 1]
  <1>1. /\ c.state \in State /\ c.backup_list \in Seq(State)
        /\ c.base \in Nat /\ c.section \in Nat /\ n \in Nat
    BY ContextFields
  <1>2. prev_len \in Nat
    BY <1>1 DEF State
  <1>3. d = UpdateState(c, len)
    BY DEF UpdateState
  <1> HIDE DEF prev_len, n
  <1>4. live \in State
    BY <1>1, <1>2, EnterSectionEffect
  <1>5. ASSUME NEW i \in 1 .. n
        PROVE  /\ list[i] \in State /\ list[i].payload_moved
               /\ Kept(list[i]) = Kept(c.backup_list[i])
               /\ c.backup_list[i].frag_offset \in Int
               /\ c.backup_list[i].frag_offset_cbor \in Int
               /\ list[i].frag_offset = c.backup_list[i].frag_offset + prev_len
               /\ list[i].frag_offset_cbor = c.backup_list[i].frag_offset_cbor + prev_len
    <2> DEFINE b == c.backup_list[i]
               t == entered(i)
               m == [t EXCEPT !.payload_moved = TRUE]
    <2>1. b \in State
      BY <1>1 DEF n
    <2> HIDE DEF b
    <2>2. /\ t \in State /\ Kept(t) = Kept(b)
          /\ t.frag_offset = b.frag_offset + prev_len
          /\ t.frag_offset_cbor = b.frag_offset_cbor + prev_len
      BY <1>2, <2>1, EnterSectionEffect DEF b
    <2>3. list[i] = m
      OBVIOUS
    <2> HIDE DEF t, list
    <2>4. /\ m \in State /\ m.payload_moved
          /\ m.frag_offset = t.frag_offset /\ m.frag_offset_cbor = t.frag_offset_cbor
      BY <2>2 DEF State
    <2>5. Kept(m) = Kept(t)
      BY <2>2 DEF Kept, State
    <2>6. b.frag_offset \in Int /\ b.frag_offset_cbor \in Int
      BY <2>1 DEF State
    <2> HIDE DEF m
    <2> QED BY <2>2, <2>3, <2>4, <2>5, <2>6 DEF b
  <1>6. list \in Seq(State) /\ Len(list) = n
    <2>1. DOMAIN list = 1 .. n /\ \A i \in 1 .. n : list[i] \in State
      BY <1>5
    <2>2. list \in [1 .. n -> State]
      BY <2>1
    <2> HIDE DEF list
    <2> QED BY <1>1, <2>1, <2>2
  <1> HIDE DEF list, live
  <1>7. d \in Context
    BY <1>1, <1>2, <1>4, <1>6 DEF Context
  <1> QED BY <1>1, <1>2, <1>3, <1>5, <1>6, <1>7, SMTT(30) DEF n

(* The first n elements of a sequence.                                     *)
LEMMA Prefix ==
    ASSUME NEW S, NEW seq \in Seq(S), NEW n \in 0 .. Len(seq)
    PROVE  /\ SubSeq(seq, 1, n) \in Seq(S)
           /\ Len(SubSeq(seq, 1, n)) = n
           /\ DOMAIN SubSeq(seq, 1, n) = 1 .. n
           /\ \A i \in 1 .. n : SubSeq(seq, 1, n)[i] = seq[i]
  OBVIOUS
==============================================================================

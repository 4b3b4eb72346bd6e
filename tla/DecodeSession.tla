----------------------------- MODULE DecodeSession -----------------------------
(***************************************************************************)
(* A decoding session: a caller that opens and closes containers, strings  *)
(* and rollback points over one zcbor state, in any legal nesting, while   *)
(* the payload arrives in sections and any call may fail.                  *)
(*                                                                         *)
(* The caller is the generated code (codegen.zig) or code written by hand  *)
(* like it: nested C functions whose calls are chained with &&.  frames is *)
(* that chain of open constructs, innermost last, each of which took one   *)
(* backup.  When a call returns false the C functions return one by one    *)
(* WITHOUT ending what they opened (mode "failing": the backups they took  *)
(* stay behind), up to the first rollback point: a union arm, an           *)
(* iteration of zcbor_multi_decode_w_backup, or a generated *_frag_item    *)
(* call.                                                                   *)
(*                                                                         *)
(* The payload bytes are not in the model: what a header says is chosen    *)
(* from Counts and Lengths each time one is read.                          *)
(***************************************************************************)
EXTENDS ZcborDecode

CONSTANTS
    HeaderLens,     \* bytes a header may take: a subset of 1 .. 9
    Counts,         \* element counts a list or map header may hold
    Lengths,        \* byte lengths a string header may hold
    MaxMessage,     \* bound: no section ends beyond this logical position
    MaxSections,    \* bound: payload sections after the first
    NestedStrings   \* whether a CBOR bstr may be opened inside another

ASSUME InputsAssumption ==
    /\ HeaderLens \subseteq Nat \ {0}
    /\ Counts  \subseteq 0 .. MaxElemCount
    /\ Lengths \subseteq Nat
    /\ MaxMessage \in Nat /\ MaxSections \in Nat
    /\ NestedStrings \in BOOLEAN

VARIABLES
    z,          \* the zcbor context
    frames,     \* the constructs the caller has open, innermost last
    mode        \* "run", "failing" (returning false), "failed"

vars == <<z, frames, mode>>

Containers == {"list", "map"}
Strings    == {"bstr", "cborfrag"}
Rollbacks  == {"union", "iteration", "item"}

(* taken, base, section: the backup as it was taken, and where; first and  *)
(* len: the logical position of the first byte inside, and the length a    *)
(* string header gave (0 for the others).                                  *)
Frame ==
    [ kind : Containers \cup Strings \cup Rollbacks, taken : State,
      base : Nat, section : Nat, first : Nat, len : Nat ]

Open(kind)  == \E i \in DOMAIN frames : frames[i].kind = kind
InFrame(kinds) == frames # << >> /\ Top(frames).kind \in kinds

FrameOf(kind, c, len) ==
    [ kind |-> kind, taken |-> Top(c.backup_list), base |-> c.base,
      section |-> c.section, first |-> c.base + c.state.payload, len |-> len ]

Position == z.base + z.state.payload

-----------------------------------------------------------------------------

Init ==
    /\ \E len \in 0 .. MaxMessage : z = NewState(len, LargeElemCount)
    /\ frames = << >>
    /\ mode = "run"

(* A call that stays in the frame, opens one, or closes the innermost one. *)
Call(r) ==
    /\ z' = r.z
    /\ mode' = IF r.ok THEN "run" ELSE "failing"
    /\ UNCHANGED frames

OpenFrame(kind, r, len) ==
    /\ z' = r.z
    /\ mode' = IF r.ok THEN "run" ELSE "failing"
    /\ frames' = IF r.ok THEN Append(frames, FrameOf(kind, r.z, len)) ELSE frames

CloseFrame(r) ==
    /\ z' = r.z
    /\ mode' = IF r.ok THEN "run" ELSE "failing"
    /\ frames' = Popped(frames)

Running      == mode = "run"
BetweenItems == Running /\ ~ z.state.inside_frag_str
StringFits   == NestedStrings \/ ~ (Open("bstr") \/ Open("cborfrag"))

(* One scalar (len = 0) or one whole string.                               *)
DecodeValue ==
    /\ Running
    /\ \E h \in HeaderLens, len \in Lengths \cup {0} : Call(StrDecode(z, h, len))

StartContainer(kind) ==
    /\ BetweenItems
    /\ \E h \in HeaderLens, n \in Counts, indefinite \in BOOLEAN :
        OpenFrame(kind, IF kind = "map" THEN MapStart(z, h, n, indefinite)
                                        ELSE ListMapStart(z, h, n, indefinite), 0)

EndContainer ==
    /\ BetweenItems /\ InFrame(Containers)
    /\ \E isBreak \in BOOLEAN : CloseFrame(ListMapEnd(z, isBreak))

StartBstr ==
    /\ BetweenItems /\ StringFits
    /\ \E h \in HeaderLens, len \in Lengths : OpenFrame("bstr", BstrStart(z, h, len), len)

EndBstr == BetweenItems /\ InFrame({"bstr"}) /\ CloseFrame(BstrEnd(z))

StartCborFragments ==
    /\ BetweenItems /\ StringFits
    /\ \E h \in HeaderLens, len \in Lengths :
        OpenFrame("cborfrag", FragmentsStart(z, h, len, TRUE), len)

EndCborFragments ==
    BetweenItems /\ InFrame({"cborfrag"}) /\ CloseFrame(FragmentsEnd(z))

(* A plain fragmented string takes no backup, so it opens no frame.        *)
StartFragments ==
    /\ BetweenItems
    /\ \E h \in HeaderLens, len \in Lengths : Call(FragmentsStart(z, h, len, FALSE))

DecodeFragment == Running /\ z.state.inside_frag_str /\ Call(FragmentDecode(z))
EndFragments   == Running /\ z.state.inside_frag_str /\ Call(FragmentsEnd(z))

(* zcbor_update_state.  A generated *_frag_item call is atomic, and a bstr *)
(* opened with zcbor_bstr_start_decode is whole in its section, so the     *)
(* caller has no occasion to feed a section inside either.                 *)
FeedSection ==
    /\ Running
    /\ ~ Open("item") /\ ~ Open("bstr")
    /\ z.section < MaxSections
    /\ \E len \in 0 .. MaxMessage - Position : z' = UpdateState(z, len)
    /\ UNCHANGED <<frames, mode>>

StartUnion     == BetweenItems /\ OpenFrame("union", UnionStart(z), 0)
StartIteration == BetweenItems /\ OpenFrame("iteration", NewBackup(z, z.state.elem_count), 0)
StartItem      == /\ BetweenItems /\ InFrame({"cborfrag"})
                  /\ OpenFrame("item", NewBackup(z, z.state.elem_count), 0)

(* An arm, an iteration or an item that succeeded: keep what it decoded.   *)
EndUnion == /\ BetweenItems /\ InFrame({"union"})
            /\ CloseFrame(UnionEnd(DropTo(z, Len(frames))))
EndIteration == BetweenItems /\ InFrame({"iteration"}) /\ CloseFrame(ProcessBackup(z, {"CONSUME"}))
EndItem == BetweenItems /\ InFrame({"item"}) /\ CloseFrame(ProcessBackup(z, {"CONSUME"}))

-----------------------------------------------------------------------------
(* Failure.                                                                *)

(* The bytes are not what the caller expects.                              *)
Mismatch ==
    /\ Running
    /\ mode' = "failing"
    /\ UNCHANGED <<z, frames>>

(* A function that opened a container or a string returns false at once.   *)
ReturnFalse ==
    /\ mode = "failing" /\ InFrame(Containers \cup Strings)
    /\ frames' = Popped(frames)
    /\ UNCHANGED <<z, mode>>

(* The caller ends the container it is in by force and goes on after it;   *)
(* nothing opened inside may have left a backup behind.                    *)
ForceEndContainer ==
    /\ mode = "failing" /\ InFrame(Containers)
    /\ Len(z.backup_list) = Len(frames)
    /\ CloseFrame(ListMapEndForce(z))

(* The next arm: drop what the failed arm left behind, then restore.  When *)
(* that fails the arm is not tried, and neither are those after it.        *)
NextArm ==
    /\ mode = "failing" /\ InFrame({"union"})
    /\ LET r == UnionElem(DropTo(z, Len(frames)))
       IN  /\ z' = r.z
           /\ mode' = IF r.ok THEN "run" ELSE "failing"
           /\ UNCHANGED frames

(* No arm is left: the union ends, and fails with WRONG_TYPE.              *)
NoArmLeft ==
    /\ mode = "failing" /\ InFrame({"union"})
    /\ z' = UnionEnd(DropTo(z, Len(frames))).z
    /\ frames' = Popped(frames)
    /\ UNCHANGED mode

(* multi_decode_backup: roll the iteration back; that is the end of the    *)
(* loop, an error only when there were fewer iterations than min_decode.   *)
StopIterating ==
    /\ mode = "failing" /\ InFrame({"iteration"})
    /\ LET r == ProcessBackup(DropTo(z, Len(frames)), {"RESTORE", "CONSUME"})
       IN  \E enough \in BOOLEAN :
            /\ z' = r.z
            /\ mode' = IF r.ok /\ enough THEN "run" ELSE "failing"
            /\ frames' = Popped(frames)

(* *_frag_item: roll back and report; the caller may feed a section and    *)
(* retry.  The result of the roll back is ignored by the code.             *)
ItemFailed ==
    /\ mode = "failing" /\ InFrame({"item"})
    /\ z' = ProcessBackup(DropTo(z, Len(frames)), {"RESTORE", "CONSUME"}).z
    /\ mode' = "run"
    /\ frames' = Popped(frames)

(* Nobody handles it: the entry function returns the error.                *)
SessionFails ==
    /\ mode = "failing" /\ frames = << >>
    /\ mode' = "failed"
    /\ UNCHANGED <<z, frames>>

Next ==
    \/ DecodeValue
    \/ \E kind \in Containers : StartContainer(kind)
    \/ EndContainer
    \/ StartBstr \/ EndBstr
    \/ StartCborFragments \/ EndCborFragments
    \/ StartFragments \/ DecodeFragment \/ EndFragments
    \/ FeedSection
    \/ StartUnion \/ StartIteration \/ StartItem
    \/ EndUnion \/ EndIteration \/ EndItem
    \/ Mismatch \/ ReturnFalse \/ ForceEndContainer
    \/ NextArm \/ NoArmLeft \/ StopIterating \/ ItemFailed \/ SessionFails

Spec == Init /\ [][Next]_vars

-----------------------------------------------------------------------------
(* Properties.                                                             *)

(* The state keeps its C types; in particular elem_count, a size_t that    *)
(* value_extract decrements, never underflows.                             *)
TypeOK ==
    /\ z \in Context
    /\ frames \in Seq(Frame)
    /\ mode \in {"run", "failing", "failed"}

(* The i-th backup is the one the i-th open construct took, whatever calls *)
(* in between failed and left behind; and while no call is failing there   *)
(* is no other.  So the untagged "innermost backup" that list_end,         *)
(* bstr_end, union_elem and the iteration loop act on is always their own. *)
BackupsMatchFrames ==
    /\ Len(z.backup_list) >= Len(frames)
    /\ mode = "run" => Len(z.backup_list) = Len(frames)
    /\ \A i \in DOMAIN frames : Kept(z.backup_list[i]) = Kept(frames[i].taken)

(* A backup is flagged payload_moved exactly when a section was fed since  *)
(* it was taken; otherwise it still is the state it was taken from, so a   *)
(* restore that zcbor_process_backup_num allows is exact.                  *)
RestorePointsSound ==
    \A i \in DOMAIN frames :
        LET b == z.backup_list[i] IN
        /\ b.payload_moved <=> frames[i].section # z.section
        /\ ~ b.payload_moved => b = frames[i].taken /\ z.base = frames[i].base

(* A backup's frag_offset and frag_offset_cbor follow every section fed    *)
(* while it is on the stack, so that the string offset of an outer state   *)
(* is right again when an inner construct ends sections later.             *)
OffsetsFollowSections ==
    \A i \in DOMAIN frames :
        LET b == z.backup_list[i]  f == frames[i] IN
        /\ b.frag_offset_cbor - z.base = f.taken.frag_offset_cbor - f.base
        /\ b.frag_offset - z.base = f.taken.frag_offset - f.base

(* Rolling back an arm, an iteration or an item resumes exactly where it   *)
(* began, in the same section, with the same elem_count and flags.         *)
RollbackStep ==
    mode = "failing" /\ mode' = "run" /\ InFrame(Rollbacks) =>
        LET f == Top(frames) IN
        /\ z'.state = f.taken
        /\ z'.base = f.base /\ z'.section = f.section
RollbackExact == [][RollbackStep]_vars

(* Ending a list, map or string resumes its parent where the child ended:  *)
(* same section, the parent's element count and map bookkeeping as they    *)
(* were after the child's header, one backup fewer.                        *)
ParentStep ==
    /\ mode = "run" /\ mode' = "run"
    /\ InFrame(Containers \cup Strings) /\ frames' = Popped(frames)
    => LET f == Top(frames) IN
       /\ z'.state.elem_count = f.taken.elem_count
       /\ z'.state.decode_state = f.taken.decode_state
       /\ z'.state.payload - z.state.payload \in {0, 1}
       /\ z'.base = z.base /\ z'.section = z.section
ParentResumed == [][ParentStep]_vars

(* A CBOR byte string, whole or in sections, can only be ended with the    *)
(* payload pointer on the byte after its last one.                         *)
StringEndStep ==
    /\ mode = "run" /\ mode' = "run"
    /\ InFrame(Strings) /\ frames' = Popped(frames)
    => z'.base + z'.state.payload = Top(frames).first + Top(frames).len
StringEndsExactly == [][StringEndStep]_vars

(* The innermost open CBOR byte string, as a set of at most one frame.     *)
InnermostString ==
    { i \in DOMAIN frames :
        /\ frames[i].kind \in Strings
        /\ \A j \in DOMAIN frames : frames[j].kind \in Strings => j <= i }

(* What zcbor_current_string_offset reports inside a fragmented CBOR bstr  *)
(* is the distance from the first byte of the string, however many         *)
(* sections, containers and rollbacks lie in between.                      *)
StringOffsetIsLogical ==
    mode = "run" =>
        \A i \in InnermostString :
            frames[i].kind = "cborfrag" =>
                /\ z.state.frag_offset_cbor = z.base - frames[i].first
                /\ z.state.str_total_len_cbor = frames[i].len

(* inside_cbor_bstr is TRUE exactly while a CBOR-encoded bstr is open.     *)
InsideCborFlag ==
    mode = "run" =>
        (z.state.inside_cbor_bstr <=> \E i \in DOMAIN frames : frames[i].kind \in Strings)

(* In the sections of a fragmented CBOR bstr after the one that holds its  *)
(* header, the live state sees what the state around the string sees, up   *)
(* to the end of the string and no further; also once inner constructs end *)
(* and restore what they saved in this section or an earlier one.  Unless  *)
(* the section already began behind that end: the code casts a negative    *)
(* difference to size_t, so the string limits nothing any more.            *)
ClampedAfterSwitch ==
    mode = "run" =>
        \A i \in InnermostString :
            LET end == frames[i].first + frames[i].len
                around == z.backup_list[i].payload_end IN
            frames[i].kind = "cborfrag" /\ frames[i].section < z.section =>
                z.state.payload_end = IF z.base + around <= end \/ z.base > end
                                      THEN around ELSE end - z.base

(* Decoding can pass the end of a fragmented CBOR bstr only in the section *)
(* that holds its header: once a later section begins inside the string,   *)
(* every one after it does as well, whatever containers end, calls fail or *)
(* roll backs happen between the two.                                      *)
OverrunStep ==
    \A i \in InnermostString :
        LET end == frames[i].first + frames[i].len IN
        frames[i].kind = "cborfrag" /\ frames[i].section < z.section /\ z.base <= end
            => z'.base <= end
OverrunOnlyInFirstSection == [][OverrunStep]_vars

(* Nothing is decoded past the end of a CBOR byte string that is open.     *)
NoDecodePastString ==
    mode = "run" =>
        \A i \in InnermostString : Position <= frames[i].first + frames[i].len
=============================================================================

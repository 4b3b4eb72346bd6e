----------------------------- MODULE EncodeSession -----------------------------
(***************************************************************************)
(* An encoding session: a caller that writes values and opens and closes   *)
(* containers and strings, in any legal nesting, into payload sections it  *)
(* supplies, while any call may fail for want of room or of backups.       *)
(*                                                                         *)
(* The caller is the generated code (codegen.zig) or code written by hand  *)
(* like it.  frames is its chain of open constructs, innermost last.  When *)
(* a call fails the functions return one by one without ending what they   *)
(* opened (mode "failing"), up to a *_frag_item call, which rolls back and *)
(* may be made again, or to the caller, and the document is lost.          *)
(***************************************************************************)
EXTENDS ZcborEncode

CONSTANTS
    ValueLens,      \* how many bytes a value may take: a subset of 1 .. 9
    StringLens,     \* how long a string may be
    Hints,          \* size hints a container may be started with
    Rooms,          \* lengths of the sections the caller supplies
    MaxRoom,        \* the longest
    Slack,          \* how many bytes beyond the end of a section are looked at
    MaxText,        \* bound: no section ends beyond this logical position
    MaxSections     \* bound: payload sections after the first

ASSUME EncodeInputsAssumption ==
    /\ ValueLens \subseteq Nat \ {0}
    /\ StringLens \subseteq Nat /\ Hints \subseteq Nat
    /\ MaxRoom \in Nat /\ Rooms \subseteq 0 .. MaxRoom
    /\ Slack \in Nat /\ MaxText \in Nat /\ MaxSections \in Nat

VARIABLES
    z,          \* the zcbor context
    mem,        \* the bytes of the present section, and some beyond it
    room,       \* the length of the present section
    sent,       \* the bytes of the sections before it
    frames,     \* the constructs the caller has open, innermost last
    fed,        \* how much of the streamed string was written
    mode        \* "run", or "failing": returning false

vars == <<z, mem, room, sent, frames, fed, mode>>

Containers == {"list", "map"}

(* hint: the number in the header while the construct is open; at: the     *)
(* logical position of that header; section: in which section that is.     *)
Frame ==
    [ kind : Containers \cup {"bstr", "cborfrag", "item"},
      hint : Nat, at : Nat, section : Nat ]

Offsets == 0 .. MaxRoom + Slack
Blank   == [i \in Offsets |-> Unwritten]

Open(kind) == \E i \in DOMAIN frames : frames[i].kind = kind
InFrame(kinds) == frames # << >> /\ Top(frames).kind \in kinds

Position == z.base + z.state.payload

FrameOf(kind, hint) ==
    [kind |-> kind, hint |-> hint, at |-> Position, section |-> z.section]

-----------------------------------------------------------------------------

(* zcbor_new_encode_state, with an elem_count of 0 as in *_frag_begin.     *)
Init ==
    /\ \E len \in Rooms : z = NewState(len, 0) /\ room = len
    /\ mem = Blank
    /\ sent = << >> /\ frames = << >> /\ fed = 0 /\ mode = "run"

(* A call that stays in the frame, opens one, or closes the innermost one. *)
Did(r) ==
    /\ z' = r.z /\ mem' = r.mem
    /\ mode' = IF r.ok THEN "run" ELSE "failing"
    /\ UNCHANGED <<room, sent>>

Call(r) == Did(r) /\ UNCHANGED <<frames, fed>>

OpenFrame(kind, hint, r) ==
    /\ Did(r)
    /\ frames' = IF r.ok THEN Append(frames, FrameOf(kind, hint)) ELSE frames
    /\ UNCHANGED fed

CloseFrame(r) == Did(r) /\ frames' = Popped(frames) /\ UNCHANGED fed

Running      == mode = "run"
BetweenItems == Running /\ ~ z.state.inside_frag_str

(* Inside a string that is streamed a value is refused.                    *)
EncodeValue  == Running /\ \E n \in ValueLens : Call(ValueEncodeLen(z, mem, "value", n, n))

EncodeTag    == BetweenItems /\ \E n \in ValueLens : Call(TagEncode(z, mem, n, n))

EncodeString ==
    BetweenItems /\ \E n \in StringLens : Call(StrEncode(z, mem, "tstr", n, Elsewhere))

StartContainer(kind) ==
    /\ BetweenItems
    /\ \E n \in Hints : OpenFrame(kind, n, ListMapStartEncode(z, mem, kind, n))

(* A caller ends a map after a whole number of pairs, with the hint it     *)
(* started it with.                                                        *)
EndContainer ==
    /\ BetweenItems /\ InFrame(Containers)
    /\ Top(frames).kind = "map" => z.state.elem_count % 2 = 0
    /\ CloseFrame(ListMapEndEncode(z, mem, Top(frames).kind, Top(frames).hint))

AbandonContainer ==
    BetweenItems /\ InFrame(Containers) /\ CloseFrame(ListMapEndForceEncode(z, mem))

StartBstr ==
    /\ BetweenItems
    /\ OpenFrame("bstr", RemainingStrLen(Room(z.state)), BstrStartEncode(z, mem))

EndBstr == BetweenItems /\ InFrame({"bstr"}) /\ CloseFrame(BstrEndEncode(z, mem))

StartCborFragments ==
    /\ BetweenItems
    /\ \E n \in StringLens :
        OpenFrame("cborfrag", n, FragmentsStartEncode(z, mem, "bstr", n, TRUE))

EndCborFragments ==
    BetweenItems /\ InFrame({"cborfrag"}) /\ CloseFrame(FragmentsEndEncode(z, mem))

(* A plain fragmented string takes no backup, so it opens no frame.        *)
StartFragments ==
    /\ BetweenItems
    /\ \E n \in StringLens : Did(FragmentsStartEncode(z, mem, "tstr", n, FALSE))
    /\ fed' = 0
    /\ UNCHANGED frames

(* *_frag_feed: the next len bytes, of which enc_len were written.         *)
FeedFragment ==
    /\ Running /\ z.state.inside_frag_str
    /\ \E len \in 1 .. z.state.str_total_len :
        LET r == FragmentEncode(z, mem, fed, len)
        IN  Did(r) /\ fed' = fed + (r.z.state.payload - z.state.payload)
    /\ UNCHANGED frames

EndFragments ==
    /\ Running /\ z.state.inside_frag_str
    /\ Did(FragmentsEndEncode(z, mem))
    /\ fed' = 0
    /\ UNCHANGED frames

(* zcbor_update_state: what was written is sent.  A generated *_frag_item  *)
(* call is atomic, and a bstr opened with zcbor_bstr_start_encode must be  *)
(* ended in its section, so no section is fed inside either.               *)
FeedSection ==
    /\ Running
    /\ ~ Open("item") /\ ~ Open("bstr")
    /\ z.section < MaxSections
    /\ sent' = sent \o [i \in 1 .. z.state.payload |-> mem[i - 1]]
    /\ mem' = Blank
    /\ \E len \in Rooms :
        /\ Position + len <= MaxText
        /\ z' = UpdateState(z, len) /\ room' = len
    /\ UNCHANGED <<frames, fed, mode>>

(* A *_frag_item call.                                                     *)
StartItem ==
    /\ BetweenItems /\ InFrame({"cborfrag"})
    /\ OpenFrame("item", 0, Keeping(NewBackup(z, z.state.elem_count), mem))

EndItem ==
    /\ BetweenItems /\ InFrame({"item"})
    /\ CloseFrame(Keeping(ProcessBackup(z, {"CONSUME"}), mem))

(* The innermost item call is that of frame n.                             *)
LastItem(n) ==
    /\ frames[n].kind = "item"
    /\ \A i \in DOMAIN frames : frames[i].kind = "item" => i <= n

(* A call failed: one function after the other returns false, up to the    *)
(* innermost item call, which drops the backups left inside the item and   *)
(* rolls back; and without one, up to the caller.                          *)
ItemFailed ==
    /\ mode = "failing"
    /\ \E n \in DOMAIN frames :
        /\ LastItem(n)
        /\ z' = ProcessBackup(DropTo(z, n), {"RESTORE", "CONSUME"}).z
        /\ frames' = SubSeq(frames, 1, n - 1)
    /\ mode' = "run"
    /\ fed' = 0
    /\ UNCHANGED <<mem, room, sent>>

Next ==
    \/ EncodeValue \/ EncodeTag \/ EncodeString
    \/ StartContainer("list") \/ StartContainer("map")
    \/ EndContainer \/ AbandonContainer
    \/ StartBstr \/ EndBstr
    \/ StartCborFragments \/ EndCborFragments
    \/ StartFragments \/ FeedFragment \/ EndFragments
    \/ FeedSection
    \/ StartItem \/ EndItem
    \/ ItemFailed

Spec == Init /\ [][Next]_vars

-----------------------------------------------------------------------------
(* The document, read from the bytes: sections sent, then the present one. *)

(* How many frames still stand: up to the item that a failure drops.       *)
Standing ==
    IF mode = "run" THEN Len(frames)
    ELSE IF Open("item") THEN CHOOSE n \in DOMAIN frames : LastItem(n)
    ELSE 0

ByteAt(p) == IF p < Len(sent) THEN sent[p + 1] ELSE mem[p - Len(sent)]
Text(from, to) == [i \in 1 .. to - from |-> ByteAt(from + i - 1)]

(* The level of frame i (0: the document) begins after its header and ends *)
(* at the header of the next one.                                          *)
Begin(i) ==
    IF i = 0 THEN 0
    ELSE frames[i].at + (IF frames[i].kind = "item" THEN 0 ELSE HeaderLen(frames[i].hint))
End(i) ==
    IF i < Standing THEN frames[i + 1].at
    ELSE IF mode = "run" THEN Position
    ELSE Begin(i)

ElemCount(i) ==
    IF i < Standing THEN z.backup_list[i + 1].elem_count
    ELSE IF mode = "run" THEN z.state.elem_count
    ELSE z.backup_list[i].elem_count

(* Inside a CBOR string its own header was counted.  An item goes on       *)
(* counting where the string was.                                          *)
LevelOf(i) ==
    [ kind  |-> IF i = 0 THEN "document"
                ELSE IF frames[i].kind = "cborfrag" THEN "bstr" ELSE frames[i].kind,
      items |-> IF i = 0 THEN ElemCount(0)
                ELSE IF frames[i].kind = "item" THEN ElemCount(i) - z.backup_list[i].elem_count
                ELSE IF frames[i].kind \in Containers THEN ElemCount(i)
                ELSE ElemCount(i) - 1,
      text  |-> Text(Begin(i), End(i)) ]

Document == INSTANCE Document WITH
    levels <- IF mode # "run" /\ Standing = 0 THEN << >>
              ELSE [i \in 1 .. Standing + 1 |-> LevelOf(i - 1)],
    stream <- IF BetweenItems \/ mode # "run" THEN [done |-> 0, left |-> -1]
              ELSE [done |-> fed, left |-> StringRemainder(z.state)],
    status <- IF mode = "run" THEN "open" ELSE IF Standing = 0 THEN "failed" ELSE "failing"

-----------------------------------------------------------------------------
(* Properties.                                                             *)

TypeOK ==
    /\ z \in Context
    /\ mem \in [Offsets -> Byte]
    /\ room \in 0 .. MaxRoom
    /\ sent \in Seq(Byte)
    /\ frames \in Seq(Frame)
    /\ fed \in Nat
    /\ mode \in {"run", "failing"}

(* The bytes written are those of a document: closed containers say how    *)
(* many items they have and strings how long they are, wherever a header   *)
(* was guessed, moved or already sent; and a failed item leaves no trace.  *)
ImplementsDocument == Document!Spec

(* No call, and no memmove at the end of a container or string, writes     *)
(* past the end of the section it was given.                               *)
NothingPastEnd == \A i \in Offsets : i >= room => mem[i] = Unwritten

(* While no call has failed the backups are those of the open constructs,  *)
(* one each.                                                               *)
BackupsMatchFrames == mode = "run" => Len(z.backup_list) = Len(frames)

HintCounts == Top(frames).hint = ListCount(z, Top(frames).kind)

(* A container whose hint was exact can be closed wherever its header is,  *)
(* also in a section that was sent.                                        *)
ExactHintCloses == [][EndContainer /\ HintCounts => mode' = "run"]_vars

(* Closing a container fails only if the hint was too small for it, or was *)
(* wrong and the header is in a section that was sent.  With a hint that   *)
(* is exact or larger the room is found out about before, by an element.   *)
EndFailsOnlyForHint ==
    [][EndContainer /\ mode' = "failing" =>
        \/ Top(frames).hint < ListCount(z, Top(frames).kind)
        \/ Top(frames).section < z.section]_vars
=============================================================================

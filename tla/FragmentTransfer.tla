---------------------------- MODULE FragmentTransfer ----------------------------
(***************************************************************************)
(* A string too long for any buffer, sent and received: the fragmented     *)
(* encoder of one side and the fragmented decoder of the other, with a     *)
(* byte stream between them, and then the joining of what was received.    *)
(*                                                                         *)
(* The message is a list of a value and the string, as cddl2c generates it *)
(* for a rule whose last member is a string.  The sender ships a section   *)
(* when it is full; the receiver takes from the stream pieces cut anywhere *)
(* and collects the fragments.  On the way to the code that joins them     *)
(* fragments may be lost, duplicated, reordered or never filled in.        *)
(***************************************************************************)
EXTENDS ZcborEncode, StringFragments

CONSTANTS
    Totals,         \* lengths the string may have
    Rooms,          \* lengths of the sections the sender writes into
    MaxRead,        \* the sender reads its file in pieces of at most this length
    MaxChunk,       \* the receiver takes pieces of at most this length
    MaxFaults       \* bound: faults between the receiver and the joining

(* The header of the list, the value, and the header of the string.        *)
HeadLen(total) == 2 + HeaderLen(total)

(* The first section of the sender holds everything before the contents,   *)
(* the headers of the list and of the value in a byte each, and a byte     *)
(* more, since the loop feeds before it ships; the first section of the    *)
(* receiver may end with the headers.  There is a backup for the list, and *)
(* the memory is as large as the largest section.                          *)
ASSUME TransferAssumption ==
    /\ Totals \subseteq 0 .. MaxElemCount
    /\ Rooms \subseteq Nat \ {0} /\ \E r \in Rooms : \A s \in Rooms : s <= r
    /\ \A total \in Totals : HeadLen(total) <= MaxChunk /\ \E r \in Rooms : r > HeadLen(total)
    /\ InHeader >= 2 /\ NumBackups >= 1
    /\ MaxRead \in Nat \ {0} /\ MaxChunk \in Nat /\ MaxFaults \in Nat

VARIABLES
    total,      \* the length of the string
    out,        \* the sender: its context, memory, bytes fed and what it does
    wire,       \* the bytes shipped and not yet received
    in,         \* the receiver: its context, the section it reads, and what it does
    fragments,  \* the fragments collected
    faults

vars == <<total, out, wire, in, fragments, faults>>

Offsets == 0 .. (CHOOSE r \in Rooms : \A s \in Rooms : s <= r) - 1
Blank   == [i \in Offsets |-> Unwritten]

Init ==
    /\ total \in Totals
    /\ \E room \in Rooms :
        /\ room > HeadLen(total)
        /\ out = [z |-> NewState(room, 0), mem |-> Blank, fed |-> 0, does |-> "begin"]
    /\ in = [z |-> NewState(0, LargeElemCount), section |-> << >>, does |-> "begin"]
    /\ wire = << >> /\ fragments = << >> /\ faults = 0

-----------------------------------------------------------------------------
(* The sender.                                                             *)

Sender == UNCHANGED <<total, in, fragments, faults>>

Written == [i \in 1 .. out.z.state.payload |-> out.mem[i - 1]]

Sent(r, fed, does) ==
    out' = [z |-> r.z, mem |-> r.mem, fed |-> fed, does |-> IF r.ok THEN does ELSE "failed"]

(* *_frag_begin.                                                           *)
SendBegin ==
    LET list   == ListMapStartEncode(out.z, out.mem, "list", 2)
        member == ValueEncodeLen(list.z, list.mem, "value", 1, 1)
        string == FragmentsStartEncode(member.z, member.mem, "tstr", total, FALSE)
    IN  /\ out.does = "begin"
        /\ Sent(IF ~ list.ok THEN list ELSE IF ~ member.ok THEN member ELSE string, 0, "feed")
        /\ UNCHANGED wire /\ Sender

(* Mutated form: the fragment is taken to have been written whole.         *)
FeedWhole ==
    /\ out.does = "feed" /\ out.fed < total
    /\ out.z.state.payload < out.z.state.payload_end
    /\ \E len \in 1 .. Least(MaxRead, total - out.fed) :
        Sent(FragmentEncode(out.z, out.mem, out.fed, len), out.fed + len, "feed")
    /\ UNCHANGED wire /\ Sender

(* *_frag_feed: the next piece of the file, or what fits of it.            *)
Feed ==
    /\ out.does = "feed" /\ out.fed < total
    /\ out.z.state.payload < out.z.state.payload_end
    /\ \E len \in 1 .. Least(MaxRead, total - out.fed) :
        LET r == FragmentEncode(out.z, out.mem, out.fed, len)
        IN  Sent(r, out.fed + (r.z.state.payload - out.z.state.payload), "feed")
    /\ UNCHANGED wire /\ Sender

(* The section is full and there is more: it is shipped and the next begun.*)
Ship ==
    /\ out.does = "feed" /\ out.fed < total
    /\ out.z.state.payload = out.z.state.payload_end
    /\ wire' = wire \o Written
    /\ \E room \in Rooms :
        out' = [out EXCEPT !.z = UpdateState(@, room), !.mem = Blank]
    /\ Sender

(* *_frag_end, and the last section.                                       *)
SendEnd ==
    LET string == FragmentsEndEncode(out.z, out.mem)
        list   == ListMapEndEncode(string.z, string.mem, "list", 2)
    IN  /\ out.does = "feed" /\ out.fed = total
        /\ Sent(IF string.ok THEN list ELSE string, total, "ended")
        /\ wire' = wire \o Written
        /\ Sender

-----------------------------------------------------------------------------
(* The receiver.                                                           *)

Receiver == UNCHANGED <<total, out, faults>>

Received(r, section, does) ==
    in' = [z |-> r.z, section |-> section, does |-> IF r.ok THEN does ELSE "failed"]

(* The next piece of the stream, of len bytes.                             *)
Take(len) == wire' = SubSeq(wire, len + 1, Len(wire))
Piece(len) == SubSeq(wire, 1, len)

(* Reading the header at the payload pointer; the type must be the one     *)
(* that is expected.                                                       *)
HeaderAt(z, section) == section[z.state.payload + 1]
Expecting(kind, z, section, r) ==
    IF HeaderAt(z, section).kind = kind THEN r ELSE Fail(z, "WRONG_TYPE")

(* *_frag_begin, on a first piece that holds all before the contents.      *)
ReceiveBegin ==
    /\ in.does = "begin"
    /\ \E len \in HeadLen(total) .. Least(MaxChunk, Len(wire)) :
        LET section == Piece(len)
            new     == NewState(len, LargeElemCount)
            list    == Expecting("list", new, section,
                        ListMapStart(new, 1, HeaderAt(new, section).arg, FALSE))
            member  == Expecting("value", list.z, section, ValueExtract(list.z, 1))
            length  == HeaderAt(member.z, section).arg
            string  == Expecting("tstr", member.z, section,
                        FragmentsStart(member.z, HeaderLen(length), length, FALSE))
        IN  /\ Take(len)
            /\ Received(IF ~ list.ok THEN list ELSE IF ~ member.ok THEN member ELSE string,
                        section, "read")
    /\ UNCHANGED fragments /\ Receiver

Got == LengthOf(fragments)

(* zcbor_update_state, when the section is used up.                        *)
NextPiece ==
    /\ in.does = "read" /\ Got < total
    /\ in.z.state.payload = in.z.state.payload_end
    /\ \E len \in 1 .. Least(MaxChunk, Len(wire)) :
        /\ Take(len)
        /\ in' = [in EXCEPT !.z = UpdateState(@, len), !.section = Piece(len)]
    /\ UNCHANGED fragments /\ Receiver

(* *_frag_next.                                                            *)
NextFragment ==
    LET r == FragmentDecode(in.z)
    IN  /\ in.does = "read" /\ Got < total
        /\ in.z.state.payload # in.z.state.payload_end
        /\ Received(r, in.section, "read")
        /\ fragments' =
            IF r.ok
            THEN Append(fragments, DecodedFragment(in.z.state, r.z.state, in.section))
            ELSE fragments
        /\ UNCHANGED wire /\ Receiver

(* *_frag_end.                                                             *)
ReceiveEnd ==
    LET string == FragmentsEnd(in.z)
    IN  /\ in.does = "read" /\ Got = total
        /\ Received(IF string.ok THEN ListMapEnd(string.z, FALSE) ELSE string,
                    in.section, "ended")
        /\ UNCHANGED <<wire, fragments>> /\ Receiver

-----------------------------------------------------------------------------
(* What may happen to the fragments before they are joined.                *)

Fault(disturbed) ==
    /\ in.does = "ended" /\ faults < MaxFaults
    /\ fragments' = disturbed
    /\ faults' = faults + 1
    /\ UNCHANGED <<total, out, wire, in>>

Lose      == \E i \in DOMAIN fragments : Fault(RemoveAt(fragments, i))
Duplicate == \E i \in DOMAIN fragments : Fault(InsertAt(fragments, i, fragments[i]))
Forget    == \E i \in DOMAIN fragments : Fault([fragments EXCEPT ![i] = NoFragment])
Swap      ==
    \E i, j \in DOMAIN fragments :
        /\ i < j
        /\ Fault([fragments EXCEPT ![i] = fragments[j], ![j] = fragments[i]])

Next ==
    \/ SendBegin \/ Feed \/ Ship \/ SendEnd
    \/ ReceiveBegin \/ NextPiece \/ NextFragment \/ ReceiveEnd
    \/ Lose \/ Duplicate \/ Forget \/ Swap

(* Both sides run their loops; the stream delivers what was shipped.       *)
Fairness ==
    /\ WF_vars(SendBegin \/ Feed \/ Ship \/ SendEnd)
    /\ WF_vars(ReceiveBegin \/ NextPiece \/ NextFragment \/ ReceiveEnd)

Spec == Init /\ [][Next]_vars /\ Fairness

-----------------------------------------------------------------------------
(* Properties.                                                             *)

TypeOK ==
    /\ total \in Totals
    /\ out.z \in Context /\ out.mem \in [Offsets -> Byte] /\ out.fed \in 0 .. total
    /\ in.z \in Context /\ in.section \in Seq(Byte)
    /\ wire \in Seq(Byte)
    /\ fragments \in Seq(FragmentType)
    /\ faults \in 0 .. MaxFaults

(* Wherever either side cuts the message, the decoder accepts what the     *)
(* encoder wrote, and the fragments it hands out are complete and in order *)
(* and join to the string that was sent.                                   *)
DeliveredWhole ==
    /\ out.does # "failed" /\ in.does # "failed"
    /\ in.does = "ended" /\ faults = 0 =>
        /\ ValidStringFragments(fragments)
        /\ SpliceStringFragments(fragments, total).result = Data(0, total)

(* Whatever happened to the fragments, a collection that passes the check  *)
(* joins to the whole string, in a buffer that can hold it and in no       *)
(* smaller one, or it has no fragments at all and joins to nothing: it is  *)
(* never a part of the string, or the string in disorder.                  *)
ValidJoinWholeOrNothing ==
    ValidStringFragments(fragments) =>
        \A result_len \in 0 .. total + 1 :
            LET r == SpliceStringFragments(fragments, result_len)
            IN  /\ r.ok <=> fragments = << >> \/ result_len >= total
                /\ r.ok => r.result = IF fragments = << >> THEN << >> ELSE Data(0, total)

(* Before any fault the flag of the last fragment comes when the fragments *)
(* are complete and not before, so the receiver of a string that is not    *)
(* empty may wait for it instead of counting.  (An empty string has no     *)
(* fragments, and so no flag.)                                             *)
LastFragmentCompletes ==
    fragments # << >> /\ faults = 0 =>
        (IsLastFragment(Last(fragments)) <=> ValidStringFragments(fragments))

(* No byte is lost or repeated between the two sides: what the sender has  *)
(* taken from its file is what the receiver has collected and what is on   *)
(* its way, in the section of either side or on the wire.                  *)
BytesAccounted ==
    in.does = "read" =>
        out.fed = Got + (in.z.state.payload_end - in.z.state.payload) + Len(wire)
                  + (IF out.does = "feed" THEN out.z.state.payload ELSE 0)

(* What a side has left to do when done bytes went through it: for each    *)
(* byte a call and a change of section, and the calls around the string.   *)
Left(does, done, state) ==
    CASE does = "begin"            -> 2 * total + 3
      [] does \in {"feed", "read"} ->
            2 * (total - done) + 1 + (IF state.payload = state.payload_end THEN 1 ELSE 0)
      [] OTHER                     -> 0

Work ==
    Left(out.does, out.fed, out.z.state) + Left(in.does, Got, in.z.state)
    + (MaxFaults - faults)

(* No call in the loops is idle: no fragment of no bytes is handed out or  *)
(* written, no empty section shipped or begun, so the loops cannot spin.   *)
EveryStepProgresses == [][Work' < Work]_vars

(* The transfer ends: neither side waits for ever, and no call in the      *)
(* loops stops making progress.                                            *)
TransferEnds == <>(out.does = "ended" /\ in.does = "ended")
=============================================================================

-------------------------------- MODULE Document --------------------------------
(***************************************************************************)
(* What the encoder promises: the text of a CBOR document, grown by whole  *)
(* calls, in which every container that is closed says how many items it   *)
(* has and every string how long it is.                                    *)
(*                                                                         *)
(* There are no buffers, hints or sections here.  A construct that is open *)
(* is a level with its contents; its header is written when it is closed,  *)
(* when what it must say is known.  A call that fails loses the document,  *)
(* or only the item it is part of if the item can be retried.              *)
(***************************************************************************)
EXTENDS CborBytes

CONSTANTS
    ValueLens,      \* how many bytes a value may take
    StringLens      \* how long a string may be

VARIABLES
    levels,     \* the open constructs, innermost last; the first is the document
    stream,     \* of the string that is streamed: bytes written and missing
    status      \* "open", "failing" (back to the last item), "failed"

vars == <<levels, stream, status>>

NoString == [done |-> 0, left |-> -1]

Containers == {"list", "map"}
Level == [kind : Containers \cup {"document", "bstr", "item"}, items : Nat, text : Seq(Byte)]

Inner    == levels[Len(levels)]
Outer    == SubSeq(levels, 1, Len(levels) - 1)
NewLevel(kind) == [kind |-> kind, items |-> 0, text |-> << >>]

Grown(level, text, items) ==
    [kind |-> level.kind, items |-> level.items + items, text |-> level.text \o text]

(* The open constructs when the outermost ones in ls get text and items.   *)
With(ls, text, items) ==
    [ls EXCEPT ![Len(ls)] = Grown(@, text, items)]

Init == levels = <<NewLevel("document")>> /\ stream = NoString /\ status = "open"

Between == status = "open" /\ stream = NoString

Add(text, items) ==
    /\ Between
    /\ levels' = With(levels, text, items)
    /\ UNCHANGED <<stream, status>>

AddValue  == \E n \in ValueLens : Add(Bytes("value", n, n), 1)
AddTag    == \E n \in ValueLens : Add(Bytes("tag", n, n), 0)
AddString == \E n \in StringLens : Add(Header("tstr", n) \o Data(0, n), 1)

Open ==
    /\ Between
    /\ \E kind \in Containers \cup {"bstr", "item"} : levels' = Append(levels, NewLevel(kind))
    /\ UNCHANGED <<stream, status>>

(* The header of a map counts pairs.                                       *)
Count(level) == IF level.kind = "map" THEN level.items \div 2 ELSE level.items

Close(text, items) ==
    /\ Between
    /\ levels' = With(Outer, text, items)
    /\ UNCHANGED <<stream, status>>

CloseContainer ==
    /\ levels # << >> /\ Inner.kind \in Containers
    /\ Close(Header(Inner.kind, Count(Inner)) \o Inner.text, 1)

CloseBstr ==
    /\ levels # << >> /\ Inner.kind = "bstr"
    /\ Close(Header("bstr", Len(Inner.text)) \o Inner.text, 1)

CloseItem ==
    /\ levels # << >> /\ Inner.kind = "item"
    /\ Close(Inner.text, Inner.items)

(* A container that is given up leaves nothing behind.                     *)
Abandon ==
    /\ Between /\ Inner.kind \in Containers
    /\ levels' = Outer
    /\ UNCHANGED <<stream, status>>

BeginString ==
    /\ Between
    /\ \E n \in StringLens :
        /\ levels' = With(levels, Header("tstr", n), 1)
        /\ stream' = [done |-> 0, left |-> n]
    /\ UNCHANGED status

Stream ==
    /\ status = "open"
    /\ \E n \in 1 .. stream.left :
        /\ levels' = With(levels, Data(stream.done, n), 0)
        /\ stream' = [done |-> stream.done + n, left |-> stream.left - n]
    /\ UNCHANGED status

EndString ==
    /\ status = "open" /\ stream.left = 0
    /\ stream' = NoString
    /\ UNCHANGED <<levels, status>>

Items == {i \in DOMAIN levels : levels[i].kind = "item"}

Fail ==
    /\ status = "open"
    /\ stream' = NoString
    /\ IF Items = {}
       THEN levels' = << >> /\ status' = "failed"
       ELSE LET last == CHOOSE i \in Items : \A j \in Items : j <= i
            IN  /\ levels' = Append(SubSeq(levels, 1, last - 1), NewLevel("item"))
                /\ status' = "failing"

(* The item can be tried again, or another one instead.                    *)
DropItem ==
    /\ status = "failing"
    /\ levels' = Outer
    /\ status' = "open"
    /\ UNCHANGED stream

Next ==
    \/ AddValue \/ AddTag \/ AddString
    \/ Open \/ CloseContainer \/ CloseBstr \/ CloseItem \/ Abandon
    \/ BeginString \/ Stream \/ EndString
    \/ Fail \/ DropItem

Spec == Init /\ [][Next]_vars
=============================================================================

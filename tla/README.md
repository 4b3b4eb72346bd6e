# A verification development for cddl2c

cddl2c compiles CDDL schemas to C types and to C functions that encode and
decode them, on top of a modified copy of the zcbor library. This directory
holds TLA+ models of the parts of both in which something can go wrong over
several calls, the TLC configurations that check them on small instances, and
TLAPS proofs of what matters most for every instance.

Run everything from this directory:

    tlc -config MCDecodeSession.cfg DecodeSession.tla    # one run; see "Runs"
    tlapm DecodeSession_proofs.tla                       # the proofs
    tlapm ZcborState_proofs.tla                          # the lemmas it uses
    tlapm UnorderedMap_proofs.tla
    tlapm UnorderedMapSearch_proofs.tla
    tlapm EncodeSession_proofs.tla
    tlapm EncodeDocument_proofs.tla                      # some minutes
    tlapm StateBudget_proofs.tla
    tlapm FragmentTransfer_proofs.tla                    # some minutes

`PROJECT.json` lists the runs, the source lines each definition stands for, the
mutated forms each property is tested with, the findings and the hazards.


## 1. The system

| component | state it keeps | operations | talks to |
|---|---|---|---|
| **zcbor state** (`zcbor/src/zcbor_common.c`) | `zcbor_state_t`: payload pointer and end, `elem_count`, string flags and offsets, `decode_state`; a constant state with the backup list and the stored error | new state, new/process backup, `zcbor_update_state`, union start/elem/end, string offsets | everything below acts on it |
| **structural decoding** (`zcbor_decode.c`) | none of its own | lists, maps, CBOR byte strings, fragmented strings, `zcbor_multi_decode_w_backup` | backups, sections |
| **unordered maps** (`zcbor_decode.c`) | `decode_state`: pairs counted, pairs processed, the map's backup number | start, search by key, processed, end, skip | backups (restart), `zcbor_any_skip` |
| **scalar decoding** (`zcbor_decode.c`) | none | header and value of one element | `elem_count`, payload |
| **encoding** (`zcbor_encode.c`) | backups of open containers, dummy headers | values, containers, strings, fragments | backups, sections |
| **string fragments** (`zcbor_common.c`) | none: an array of fragments | validate, splice, compare | |
| **generated code** (emitted by `src/codegen.zig`) | the C call stack; for the fragmented API the caller's `zcbor_state_t` array | decode/encode of structs, unions, repeated and optional members; `*_frag_begin/_next/_item/_end`; entry functions | calls zcbor |
| **generator** (`src/codegen.zig`) | types emitted so far, the struct being walked, rules in progress | resolve a rule, emit a struct, add a member, emit a choice, flatten a group, size an array | schema checks |
| **union disjointness** (`src/validate.zig`) | none | signature of a type, pairwise disjointness, walk of all rules | run before the generator |
| **CDDL parser** (`src/Tokenizer.zig`, `src/Parser.zig`) | position in the text | rules, types, groups | |
| **command line** (`src/main.zig`) | none | options, files | |
| printing, tag numbers, tests, benchmark, build | | | |

There are no threads. What makes the system hard is the order of calls:

- Decoding is speculative. A union tries one arm after the other, a repetition
  tries one more element, a `*_frag_item` tries an item whose bytes may not
  have arrived, a map search scans past the pairs it does not want. Each takes
  a snapshot ("backup") of the state and may come back to it, and a call that
  fails half way returns through C functions that do not undo what they began.
- The payload arrives in sections. `zcbor_update_state` moves the live state
  and everything on the backup list while constructs are open.
- The caller gives zcbor a fixed array of states. When the backups run out a
  call fails in the middle of a nest.
- Pairs of a map arrive in any order, and are only counted, not marked
  (`ZCBOR_MAP_SMART_SEARCH` is off in this build).
- The generator computes, from a schema, numbers the C code relies on: how many
  states an array has, how many elements a header promises.

What makes each component correct:

- *State and structural decoding*: every end and every roll back acts on the
  backup of its own construct, whatever failed in between; a roll back is exact
  or refused; a parent resumes where its child ended; string offsets, flags and
  ends stay right across sections.
- *Unordered maps*: a message is accepted exactly if it matches the schema,
  every member gets its own pair once, a failed search leaves the cursor alone,
  and the decoder returns.
- *Generator*: the arrays are large enough and the size hints exact for every
  schema.
- *Encoding*: the bytes that leave are those of a document: the header of a
  closed container or string says what follows it, whether the hint was right,
  the contents were moved or the header is in a section that was sent; no byte
  is written outside the section; a failed item leaves no trace in what follows;
  a container whose hint was large enough can be closed.
- *String fragments*: the decoder cuts a string into fragments that join to it
  however the stream is cut; validation accepts no collection that splices into
  something else, but for the empty one; sender and receiver finish.
- *Union disjointness* (not modelled): arms held disjoint accept no common
  message.
- *Rule resolution, flattening* (not modelled): a cycle is reported and every
  other schema is resolved, each rule once and after those it needs.


## 2. The modules

    ZcborState ──> ZcborState_proofs
       ├──> ZcborDecode ──> DecodeSession ──> DecodeSession_proofs
       │        ├──> UnorderedMap ──> UnorderedMap_proofs ──> UnorderedMapSearch_proofs
       │        │         └──> MCUnorderedMap
       │        └──> StringFragments ──┐
       └──> ZcborEncode ───────────────┴──> FragmentTransfer ──> FragmentTransfer_proofs
                └──> EncodeSession ──> EncodeSession_proofs ──> EncodeDocument_proofs
    CborBytes ──> ZcborEncode, StringFragments, Document
    Document: the abstract specification that EncodeSession implements
    StateBudget ──> StateBudget_proofs

An arrow is EXTENDS; the `..._proofs` of the two sessions, of the map and of the
transfer also extend `ZcborState_proofs`. FragmentTransfer composes the encoder and the decoder.

### ZcborState, ZcborDecode: the functions of zcbor as operators

A context `z` is the state array of one decoder: the live `state`, the
`backup_list`, and two positions that only the model has, `base` (the logical
position of the first byte of the present section) and `section` (its number).
Every C function that changes the state is an operator from a context to a
record `[z, ok, error]`, with all its early returns in order and with what it
leaves changed when it fails. Bytes are not modelled: what a header says is an
argument, and each error path that depends on bytes is a choice of the caller
of the operator. The operators keep the names of the C functions (`NewBackup`,
`ProcessBackupNum`, `UpdateState`, `ListMapStart`, `BstrEnd`, ...).

`elem_count` is a `size_t` that decrements, so it is typed `0 .. MaxElemCount`;
`LargeElemCount` stands for `ZCBOR_LARGE_ELEM_COUNT`, and scales with
`MaxElemCount` as that does with `ZCBOR_MAX_ELEM_COUNT`. The offsets are signed
and may be negative, as in the code.

### DecodeSession: any legal nesting of decoding constructs

The caller is generated code: `frames` is the chain of C functions with an open
container, string, union, iteration or item call, each of which holds one
backup. When any call fails the functions return one after the other
(`mode = "failing"`, action `ReturnFalse`) and leave their backups behind, up to
the first that catches the failure: `NextArm`/`NoArmLeft` of a union,
`StopIterating` of a repetition, `ItemFailed` of a `*_frag_item`. `FeedSection`
is `zcbor_update_state`. A frame remembers the state its backup was taken from
and where (`taken`, `base`, `section`, `first`, `len`): history that the
properties compare with, which no guard reads.

What the caller may not do is in the guards: a section is not fed inside an item
call or inside a byte string opened whole, and items are not decoded while a
plain string is streamed.

### CborBytes, ZcborEncode: the encoding functions as operators

Here the memory matters: the end of a container or string moves bytes that are
already written. A byte (`CborBytes`) is a record that says which value it
belongs to and which byte of it it is, so a header that is cut, moved or written
over is told from a whole one; the bits in it are not modelled. The four values
at which a header becomes longer (23, 0xFF, 0xFFFF, 0xFFFFFFFF) are constants.

A function of `zcbor_encode.c` is an operator from a context and the memory of
the present section to `[ok, z, err, mem]`. The memory is `Slack` bytes larger
than the section, so that a write past the end would be seen. `StrEncode` writes
its header before the contents are moved behind it and `ListMapRewrite` moves
them first, as the code does. `BstrStartEncode`/`BstrEndEncode` compute the dummy
header by `zcbor_remaining_str_len`; in the code the end subtracts the length of
that header as computed again from the restored state, and so does the operator.

### EncodeSession: any legal nesting of encoding constructs

`frames` is the caller's chain of open constructs: containers (`list`, `map`),
byte strings opened whole (`bstr`), CBOR strings in fragments (`cborfrag`) and
`*_frag_item` calls (`item`). A frame notes the number in the header that is in
place while it is open (`hint`), where that header is (`at`) and in which section
(`section`). Size hints are any numbers, not the counts that result, so every
end may rewrite its header. The caller ends a map with an even count, passes the
end the hint it passed the start, and feeds no section while an `item` or a
`bstr` is open; everything else may happen in any order, and every call may run
out of room or backups. A failure makes the callers return (`mode = "failing"`)
to the innermost `item`, which drops what they left behind and rolls back
(`ItemFailed`), or else to the application, and the document is lost.

### Document: what the encoder promises

No buffer, hint, backup or section: a document is a stack of levels, each with
the text written in it and the number of its items. A container or string gets
its header when it is *closed*, when what it must say is known; giving it up or
failing removes the level. `EncodeSession!ImplementsDocument` is the refinement:

| Document | from EncodeSession |
|---|---|
| `levels[i].text` | the bytes from behind the header of frame `i` to the header of frame `i + 1`, read from the sections sent and then from the memory |
| `levels[i].items` | the element count, which for the innermost frame is the live one and for the others the one in the backup of the next frame; less what was counted before the frame began |
| `stream` | bytes fed of, and missing from, the string that is streamed |
| `status` | `open`; `failing` to an item, of which nothing but its empty level is kept; `failed` |

So whatever the concrete calls write, move or roll back, each of them must be a
step of the document: in particular, the text of the outer level may only grow
by the header with the right count and the contents, wherever the code had put
them. This holds also for a container whose header is in a section already
shipped (its hint must then have been right, or the call fails).

### StringFragments, FragmentTransfer: a long string, end to end

`StringFragments` has the fragments that `zcbor_str_fragment_decode` hands out
and the functions that check and join them. `FragmentTransfer` is the composition
the fragmented API exists for: a sender that streams a string through small
sections (`SendBegin`, `Feed`, `Ship`, `SendEnd`), a byte stream, and a receiver
that takes pieces cut anywhere, unrelated to the sender's sections
(`ReceiveBegin`, `NextPiece`, `NextFragment`, `ReceiveEnd`). The sender's loop is
that of `tests/c/generated_types_test.c:239-255`, which asks `zcbor_payload_at_end`
before it ships; the receiver's is that of the README (376-389). Received bytes
are read back from what was written, so the lengths the decoder works with are
those the encoder put in the headers. Between the receiver and the code that
joins the fragments they may be lost, duplicated, swapped or left empty
(`Lose`, `Duplicate`, `Swap`, `Forget`): validation exists for this.

### UnorderedMap, MCUnorderedMap: one generated map decoder

The search functions of `zcbor_decode.c` step by step (`BeginSearch`,
`ScanWraps`, `KeyFound`, `KeySkipped`), driven by the function cddl2c emits for a
map: one search per member in schema order, a loop for a repeated one, then the
end of the map, closed or open. A case is a schema with a message; the message
is definite or indefinite, may be cut short anywhere, and may hold values of the
wrong type. Positions are in elements. `Matches` says what CDDL demands of the
message without mentioning the decoder; `MatchingAccepted` and `AcceptedMatches`
compare the two, so this pair of properties is the abstract specification of the
decoder. `MCUnorderedMap` enumerates the cases.

### StateBudget: what the generator computes

Each step emits one C type from types emitted before (`resolveRule` resolves
what it refers to first, so this is the order of the code): a struct member by
member, a choice of groups or of types, a wrapped `.cbor` string, a typedef.
For each type the model computes what the generator does (`depth`, and the array
sizes and size hint from it) and, beside it, what the generated functions need:
`need`, the most backups its decoder holds at once, by the calls it makes, and
`fewest`/`most`, how many elements an encoding of it has. The properties compare
the two. The constants say which schemas are considered (`RepeatIn`,
`InlineChoices`) and one code generation option (`UnorderedMaps`).


## 3. Runs

Passing runs:

| run | shows | bounds, and why they are enough |
|---|---|---|
| `MCDecodeSession` | backups match open constructs; `payload_moved` is set exactly where it must be; offsets follow sections; roll backs are exact; parents resume; strings end on their last byte | 3 backups (a construct in a construct in a rollback point, and the list running full), one section switch, messages up to 3 bytes, counts 0, 1 and one that overflows when doubled for a map |
| `MCDecodeStrings` | string offset and CBOR flag, with containers and roll backs inside the string; from the second section on `payload_end` is the end of the string or of the section, whichever comes first, unless the section began behind the end of the string; decoding gets there in the first section only | 2 backups, up to three sections, strings of 1 and 2 bytes, so that a string ends before, at and after a section's end; strings not nested |
| `MCUnorderedMap` | messages that match are accepted, others are not; values go to their member once; the cursor stays aligned; a failed search restores it; the decoder returns | two members and an unknown key, up to three pairs: a pair before, between and after those searched for, a duplicate, and a wrap round |
| `MCEncodeSession` | the session implements `Document`; nothing is written past a section; backups match open constructs; exact hints close; a container fails to close only for a bad hint | 3 backups; two sections of 1 or 4 bytes, 4 bytes of document in all; headers get a second byte from 2 and a third from 5, so with hints 0 and 2 the real header is shorter than, as long as and longer than the one in place, and fits or not; `Slack` 2 shows a write beyond the section |
| `MCFragmentTransfer` | what is received joins to what was sent; no byte is lost under way; a damaged collection that passes validation joins to the string or has lost every fragment; the last fragment is known; every call gets on with it, and the transfer ends | strings of 0 to 5 bytes, with headers of 1 and 2 bytes; sections of 1, 2 and 5, reads of up to 3, pieces of up to 5 bytes: cuts before, in and after each other's; two faults, so that one may hide another |
| `MCBudgetMaps` | the arrays of the entry functions and of the fragmented APIs suffice, the size hints are exact; unordered maps, repetition in maps only | five types of two members: three levels of nesting above the scalars |

Runs that show a disagreement between the code and what its documentation says
(each is a finding in `PROJECT.json`, with the quotation):

| run | what the counterexample is |
|---|---|
| `MCDecodeNested` | A CBOR string in fragments inside another: `zcbor_str_fragments_end_decode` restores the outer string's state and then clears its `inside_cbor_bstr`. |
| `MCDecodePastString` | A fragmented CBOR string that ends in the section holding its header: `payload_end` is not set to its end, which the header file says it is. Once decoding passed the end here, no later section is clamped either: the difference is negative and is cast to `size_t` (`zcbor_common.c:327`). `ClampedAfterSwitch` states that case as it is, `OverrunOnlyInFirstSection` that the first section is the only way into it. |
| `MCRepeatedFirst` | A repeated member before another one in an unordered map: the search wraps round, finds the pair again and counts it twice, and the message is rejected. `MCUnorderedMap` includes a repeated member in last place, on messages a sender that follows the schema writes: with an undeclared key in the message, the pair counted twice would make up for it. |
| `MCBudgetFragRepeat` | `FRAG_N_STATES` counts one backup per level, a repetition in an array holds a second one. |
| `MCBudgetGroups` | The entry array counts two backups per level; groups repeated in groups hold more, as they add only one level. |
| `MCFragCount` | A choice of groups as a member counts as one element in the size hint, whatever its arms encode. |

Two more places say more than the code does. They have no run of their own: the
first is one of the cases of a property, the second is left out of the inputs.

- `zcbor_common.h:553` says that `zcbor_validate_string_fragments` returns true if
  "there are no fragments missing". With all of them lost there is none to take
  the total from (`num_fragments &&`, `zcbor_common.c:459`): the check passes, and
  the splice succeeds with an empty string. `ValidJoinWholeOrNothing` states both
  outcomes; the caller has to know that there was a string.
- `src/README.md:255` says that maps "are closed by default (unknown keys
  rejected)". A repeated member in last place counts its own pair twice, and a
  pair with an unknown key then goes unnoticed. That is why `MCUnorderedMap`, and
  the hypothesis `AllSearchable` of the theorems, have no unknown keys in messages
  with a repeated member.

`CHECK_DEADLOCK FALSE` is set where the system does stop: a decoding session
ends when the message and the sections do, an encoding session when it failed
with no item to go back to, a decoder when it has returned, a transfer when both
sides are done and no fault is left, and the generator when `MaxTypes` types are
emitted.

**Fairness.** `UnorderedMap` has a liveness property (`DecoderReturns`), under
weak fairness of its next-state relation: the decoder is sequential code that
runs until it returns, so some step is taken while one is possible. Nothing is
assumed about which. `FragmentTransfer` has one (`TransferEnds`), under weak
fairness of each side's loop: a loop runs on while it can, and the receiver can
when the stream holds a byte, which says that the stream delivers. How much is
read, written or delivered at a time is not constrained, and neither is one side
against the other; the faults are not fair. The sessions and `StateBudget` have
no fairness: the caller of a session may stop at any time.

The sender loop the README prints (412) ships a section only when bytes of the
last read are left over. A read that ends exactly at the end of a section then
makes the next feed fail with `NO_PAYLOAD`. The loop of the tests, which is the
one modelled, does not have this.


## 4. Proofs

What TLC checks on small instances is proved here for all, with constants
restricted only by the named assumptions (`InputsAssumption`,
`EncodeInputsAssumption`, `MapInputsAssumption`, `ThresholdsAssumption`,
`BudgetAssumption`, `TransferAssumption`, and those of `ZcborState` on the number
of backups and on `MaxElemCount`).

`ZcborState_proofs` has the effect lemmas of the state functions, which the
proofs of both sessions, of the map and of the transfer cite: what each returns
when it succeeds and when it fails, and what it leaves of the backup list.

### DecodeSession_proofs

| theorem | property |
|---|---|
| `SpecInvariant` | `IInv` |
| `TypeCorrect` | `TypeOK`: among others, `elem_count` never underflows |
| `BackupsMatch` | `BackupsMatchFrames` |
| `RestorePoints` | `RestorePointsSound` |
| `OffsetsFollow` | `OffsetsFollowSections` |
| `RollbacksExact` | `RollbackExact` |
| `ParentsResumed` | `ParentResumed` |

for any number of backups, sections and frames. The argument: each operator of
ZcborState and ZcborDecode has an *effect lemma* (what it returns when it
succeeds and when it fails: how long the backup list is, that the backups below
are untouched, what state it resumes). The invariant is

    IInv == TypeOK /\ Sound(z, frames) /\ (mode = "run" => Len(z.backup_list) = Len(frames))

where `Sound` relates the i-th backup with the i-th frame: equal in what no
section changes, flagged exactly if a section came since, identical to the state
it was taken from if not, offsets moved along. The three invariants speak of
these facts one at a time, but none is inductive alone: a roll back is exact only
because the backup it finds is that of its own construct (backup lists), still
unmoved (restore points), and an end restores the right offsets only because the
backup below followed the sections. `Sound` has to allow backups *above* the
open frames (those failed calls left), so the last conjunct says when there are
none. An `item` frame also records that no section came since it began, which is
why ignoring the result of its roll back is harmless. Each group of actions
keeps the invariant by one lemma (`CallActions`, `OpenActions`, `CloseActions`,
`FeedKeeps`, `FailureActions`), and the two action properties follow from it.

About the strings of a session, in the same module:

| theorem | for strings that | property |
|---|---|---|
| `StringsInvariant` | nest or not | `StringsInv` |
| `StringOffsetsLogical` | nest or not | `StringOffsetIsLogical` |
| `StringsEndExactly` | nest or not | `StringEndsExactly` |
| `FlagFollowsStrings` | do not nest | `InsideCborFlag` |
| `SectionsClamped` | do not nest | `ClampedAfterSwitch` |
| `BoundsInvariant` | do not nest | `BoundsInv` |
| `OverrunsOnlyInFirstSection` | do not nest | `OverrunOnlyInFirstSection` |

again for any number of backups, sections and frames. A state is *in tune* with
the first `k` frames (`InTune`) when its offset, its total length, its flag and
its end are what the innermost string among them makes of them. `StringsInv`
says that the live state is in tune with all frames, and the `i`-th backup with
the `i - 1` frames that were open when it was taken. The second part is needed
because every end and every roll back makes a backup the live state again, and a
section switch must therefore keep all of them in tune; that the backup found is
the right one is `IInv`, on which the proof rests. While calls fail the live
state is nobody's, and the invariant claims nothing of it. The hypothesis is
`~ NestedStrings`, and is sharp: `MCDecodeNested` violates `InsideCborFlag`
without it. The offset and the place where a string ends do not depend on the
flag, so these two theorems need no hypothesis.

How far a state reaches into a section (`StopsAtEnd`) is measured against the
state around the string, the backup behind its header: what that one sees, cut off
at the end of the string; and if the section began behind that end, all of it, as
the code's `(size_t)` cast makes it. The equality is inductive because an end or a
roll back inside the string brings back a backup that entered the section with
the live state, and is in tune too. `OverrunsOnlyInFirstSection` bounds the
damage. It needs that the payload pointer is at most `payload_end`, as the next
section begins where the pointer is. That is not inductive by itself: an end puts
the live payload pointer and the `payload_end` of a backup together. `BoundsInv`
therefore compares all states: none reaches further into the section than those
saved before it. Decoding keeps this as a call narrows the section at most
(`Stays`, `Nests`, `Returns`), also when it fails. A new section keeps it because
an inner state is clamped by the same string as the outer one, or the outer one
by none (`EnteredBelow`), which again rests on the states being in tune and on
strings that do not nest.

### UnorderedMap_proofs, UnorderedMapSearch_proofs

| theorem | for | property |
|---|---|---|
| `MapTypeCorrect` | every schema and message | `TypeOK` |
| `CursorStaysAligned` | every schema and message | `CursorAligned` |
| `FailedSearchLeavesCursor` | every schema and message | `FailedSearchRestores` |
| `ResultsFaithful` | `AllSearchable` | `ResultFaithful` |
| `OnlyMatchingAccepted` | `AllSearchable` | `AcceptedMatches` |
| `MatchingNotRejected` | `AllSearchable` | `MatchingAccepted` |

for schemas and messages of any size. The first layer, `MapInv`, is about the
cursor and what is counted: the state is at payload `p` with exactly the element
count of `p` (`MapContext`), the one backup is the one behind the header, and
while an indefinite map is being counted the count is that of the pairs begun
before `p` (`CountedTo`). A cut message needs care: the count may then be one
too high, as the pair that could not be read was counted. Alignment is not
inductive without the place the search began, as that is what a search that
fails goes back to and what the test for the end of a turn compares with.

The second layer, `SearchInv`, is about what was found. The code keeps no list of
pairs found, it counts them, and ends a search for a member after one turn. So
the invariant has to say where the pairs that were not found are: ahead of the
scan and behind the place it began (`AheadInv`); that the count equals the number
of different pairs found (`MarkedInv`); and that a repeated member has found
exactly the pairs passed since its first one (`RepeatedInv`). A member is done
with all pairs it may have, or with all there are, unless the message was cut
(`Ended`). Acceptance and rejection follow by counting: as many pairs processed
as the map has means that every pair is some member's.

`AllSearchable` says that each case is `Searchable`: members have different keys,
and a repeated member is the last of a closed map whose message holds no unknown
keys and repeats only that member's key. Every case of `MCUnorderedMap` is
searchable. That the repeated member must come last is sharp (`MCRepeatedFirst`),
and with unknown keys on the wire the double count hides one (section 3).
Messages may still be cut anywhere, lack members and hold values of the wrong
type. `MapInputsAssumption` asks of the cases that a cut is not beyond the end of
the message, and that `LargeElemCount` is even, as `ZCBOR_LARGE_ELEM_COUNT` is,
so that counting down from it tells keys from values.

### EncodeSession_proofs

| theorem | property |
|---|---|
| `RemainingStrLenFits` | the dummy header of a byte string: the length it promises fits, with its header, in the room there is |
| `EncodeInvariant` | `IInv` |
| `EncodeTypeCorrect` | `TypeOK` |
| `NothingWrittenPastEnd` | `NothingPastEnd` |
| `EncodeBackupsBalanced` | `BackupsMatchFrames` |
| `ExactHintAlwaysCloses` | `ExactHintCloses` |
| `EndFailsOnlyThen` | `EndFailsOnlyForHint` |

for any number of backups, nesting, sections, hints and header thresholds that
grow as `ThresholdsAssumption` says (the real ones do). The invariant is

    IInv == TypeOK /\ NothingPastEnd /\ Bounded(z, room) /\ Sound(z, frames)
            /\ (mode = "run" => Live(z, frames))

`Bounded`: no state on the stack points beyond the section. `Sound`: the i-th
backup is that of the i-th construct, restorable exactly if no section was fed
since, not inside a streamed string; and of two constructs, the outer of which
was opened in this section, the inner one began behind the outer one's header
and has the same end (`Within`). `Live`: the live state is within all of them,
and there are no other backups. `NothingPastEnd` is not inductive without
`Within`: the end of a container knows only its backup and the live pointer, and
computes from them what to move and how far; the move stays in the section
because the contents begin behind the header the *hint* stands for and end
before the end the *backup* has. A failed call may leave backups on top, so `Live`
is said of running sessions only, and `Sound` has to be strong enough to find the
state again when an item rolls back, which is why it relates all pairs.

A call has one of three shapes, `Stays`, `Opens` and `Closes` (or left a backup,
`Saved`); an effect lemma per function says which, and one lemma per shape
(`StaysKeeps`, `OpensKeeps`, `ClosesKeeps`) that it keeps the invariant.
`ListMapRewriteEffect` also gives that the rewrite succeeds when the count is at
most the hint, from `HeaderLenGrows`; `EndFailsOnlyThen` follows.

### EncodeDocument_proofs

`EncoderWritesDocuments`: `Countable => (Spec => ImplementsDocument)`, the
refinement of section 2, for any number of backups, nesting, sections, hints and
header thresholds. `Countable == MaxRoom < MaxElemCount /\ MaxText < MaxElemCount`
says that no document has `SIZE_MAX` bytes. An element has at least one byte, so
`elem_count` cannot wrap then; without it a list could be closed with a count of
zero, in the model as in the code. The runs satisfy it (23 against 4).

The invariant is `IInv` of EncodeSession_proofs and

    DocInv == Laid(z, mem, sent, frames) /\ z.base + room < MaxElemCount
              /\ (mode = "run" => OnTop(z, frames))

`Laid`: each construct begins behind the header of the one around it (`Ordered`),
the header of a container or of a CBOR string in fragments is where its frame
says, in the memory or among the bytes sent (`HeadersWritten`), and each backup
points to where its construct began, has counted no more elements than there are
bytes in front of it, and knows where the CBOR string around it began and how
long that was said to be (`BackupsPlaced`). `OnTop`: the same of the live state.
While a call has failed only `Laid` is known, and it is enough: the frame of an
item says to which position rolling back returns, and nothing in front of it was
touched.

The argument goes in four layers:

1. *Bytes* (`WriteGives`, `MoveGives`, `PutBoth`): what a write or a move of
   overlapping ranges leaves where.
2. *Calls* (`Writes`, `Starts`, `Continues`, `Replaces`): each function writes a
   text behind the payload pointer and counts so many items, begins a construct
   with a header, keeps what was written since the backup, or replaces it. The
   hard ones are `ListMapEndWrites` and `BstrEndWrites`: the right header
   followed by *the same contents*, whether these moved up, down or not at all.
3. *Levels* (`WrittenGrows`, `WrittenOpens`, `WrittenEnds`, `WrittenDrops`,
   `WrittenMoves`): a session whose bytes are in place and that makes such a call
   has the levels the document has after its action; entering the next section
   changes none of them.
4. *Steps* (`ValuesDocument` and the lemmas below it, one per group of actions):
   each action of the session is an action of Document. `DocumentStep` puts them
   together.

The proof turned up one assumption that was too weak: with `InFourBytes` only
five above `InTwoBytes`, the room left can be such that the dummy header of
`zcbor_bstr_start_encode` is shorter than the header of a string that fits
(`DummyHeaderLongest`). `ThresholdsAssumption` now asks for one more. CBOR's values
(0xFFFF and 0xFFFFFFFF) are far from it, so this says nothing against the code.

### StateBudget_proofs

| theorem | for schemas | property |
|---|---|---|
| `BudgetTypeCorrect` | all | `TypeOK` |
| `EntryBudget` | without repeated members in groups | `EntryBudgetSuffices` |
| `FragBudget` | with repetition in maps only, in unordered mode | `FragBudgetSuffices` |
| `FragCount` | without choices beside other members | `FragCountExact` |

of any size and nesting. The hypotheses are sharp in that `MCBudgetGroups`,
`MCBudgetFragRepeat` and `MCFragCount` violate the property without them.
`EntryInv` bounds the need of an emitted type by `2 * depth - 1` (the outermost
level takes one backup, each level below two) and, for the struct in progress,
lets a repetition take one more, which the container it is in covers by its own
level. `FragInv` needs no such slack, as searches by key take no backups.
`CountInv` says that a value is one element and that, while all members of a
struct occur once, its hint equals the elements counted.

### FragmentTransfer_proofs

| theorem | property |
|---|---|
| `TransferInvariant` | `IInv` |
| `TransferTypeCorrect` | `TypeOK` |
| `StringDelivered` | `DeliveredWhole` |
| `CheckedFragmentsJoin` | `ValidJoinWholeOrNothing` |
| `FlagCompletes` | `LastFragmentCompletes` |
| `NothingLost` | `BytesAccounted` |
| `LoopsProgress` | `EveryStepProgresses` |

for strings of any length, sections, reads and pieces of any sizes, any number of
backups and of faults, and any interleaving of the two sides.
`TransferAssumption` asks only that the receiver's first section holds the headers
(what `*_frag_begin` needs: it is one call) and the sender's those and a byte more
(as the loop of the tests feeds before it ships; on a section that is full its
first feed would fail), that the list and the value have
headers of one byte (`InHeader >= 2`; in CBOR it is 23), that there is a backup for
the list, and that there is a largest section, as the memory has its size. The
invariant is

    IInv == TypeOK /\ SenderInv /\ WireInv /\ ReceiverInv /\ FragmentsInv

`MessageAt(p)` is the byte the message has at position `p`. Each side inside the
string satisfies `InString(z, done)`: the string began at `HeadLen` in the
message, the payload pointer is `done` bytes into it, wherever sections were cut,
and one backup is taken. The sender's memory holds the message from `base` on
(`Section`), and so do the wire from where the receiver stopped taking
(`WireInv`, whose length is what was shipped less what was taken) and the
receiver's section. This makes the composition provable one side at a time: a
receiver knows what header it will read because of what the wire holds, not
because of what the sender does. `DeliveredWhole` alone is far from inductive:
that neither side fails needs the element counts (2 behind the headers of the
sender, so that the end finds the count the hint gave and does not touch a list
whose header has been shipped; 0 for the receiver) and that the length the
decoder read is the length the encoder wrote.

`FragmentsInv` is two facts of different strength. Before any fault the fragments
are in order: each begins where those before it end (`InOrder`), so the last
one ends the string exactly if they are complete (`LastFromInvariant`). After
faults only this is left: each fragment is empty or holds what the string has at
its own offset (`Genuine`). That suffices, as a collection with a fragment in it
that passes the check puts each fragment at the sum of the lengths before it and
equates that with the total (`ValidAreWhole`); the fragments then join to
`Data(0, LengthOf(fs))` (`Joined`, `Spliced`). Only the fragments know the total, so
a collection that lost all of them passes as well and joins to nothing:
`ValidJoinWholeOrNothing` has both cases.
`DeliveredWhole` and `LastFragmentCompletes` are about transfers without faults and
say nothing of lost fragments; and an empty string has no fragments, so no flag of
a last one to wait for.

`BytesAccounted` is the arithmetic of both sides' `InString` and of `WireInv`.
`EveryStepProgresses` says that `Work`, a natural number (`LeftNumbers`), falls with
every step: two for each byte a side still has to handle, as it may need a change
of section before it, and what the calls around the string take. The lemmas per
action give the strict part: a feed writes a byte at least, a fragment holds one
at least (`FeedStep`, `NextFragmentStep`), and a section begun is not used up
(`StringContinued`). So of `TransferEnds` only that a side which is not done can go
on, and does, is left to TLC.

The check and the splice are folds over the collection, and the lemmas about them
are by induction. The library's induction rules take an operator, which the
provers cannot instantiate; `Induction` states the rule with a *set* instead (a set
of numbers that holds 0 and the successor of each of its members is `Nat`) and is
proved from `WFMin`, the minimal element of a well-founded relation. The lemmas
that use it (`SumsExist`, `SumsAgree`, `Joined`, `Greatest`) then say what the
recursive function behind the fold is on every prefix.

### Only model-checked

- `DecoderReturns` and `TransferEnds`: liveness under fairness is beyond the prover
  and left to TLC.


## 5. What is not modelled, and why

- The bits in a byte: headers, UTF-8, float conversions (float16 among them),
  endianness. The models say what a header holds, and for the encoder where its
  bytes are. Value conversions are pure and have tests that enumerate them.
- Union disjointness (`validate.zig`): a pure function of two syntax trees. What
  it must imply is a statement about all messages of two types, so a model would
  be a second implementation of CDDL matching.
- Rule resolution and group flattening in the generator: walks of a tree in
  memory that end in text. StateBudget takes their result, types in an order in
  which each refers to earlier ones.
- `zcbor_multi_encode` and `zcbor_multi_encode_minmax`: loops that call an
  encoder, and as such callers of the session. `zcbor_compare_strings`: a memcmp.
- Fragments whose total length is `ZCBOR_STRING_FRAGMENT_UNKNOWN_LENGTH`. The
  header file (`zcbor_common.h:545`) says that `zcbor_validate_string_fragments`
  fills in the actual length. It compares the sum with the total first and
  returns false, so the branch that would fill it in (`zcbor_common.c:463`) is
  not reached; no function of the repository makes such a fragment.
- `ZCBOR_MAP_SMART_SEARCH`, `ZCBOR_STOP_ON_ERROR`: not defined in this build.
- Which error code is stored: outcomes carry one, `DecodeSession` drops it.
- Optional members in ordered maps, which save the state in a C variable instead
  of a backup.
- The parser, names and the text of the generated C: text without control.
- Printing, tags, the command line, tests.


## 6. Where to go on

1. *DecodeSession* extended by the stored error code of a failed item, the copy
   of the state an ordered optional member makes, and the fragmented API's
   handling of tags in front of a wrapped string.
2. *RuleResolution*: rules, references, cycles, groups spliced into groups, with
   the depth-first stack; it would refine the order StateBudget assumes.

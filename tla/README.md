# openstar-ads in TLA+

openstar-ads is a client for Beckhoff PLCs: ADS requests, replies and
notifications over one TCP connection to an AMS router, and on top of it a
session object that several tasks share, with reconnection, cached symbol
handles and typed subscriptions. This directory specifies the parts in which
tasks, the reader of the socket and the peer meet, checks them with TLC on small
instances, and proves the most important results for all instances with TLAPS.

Paths without a directory (`client.rs:753`) are under `src/src/`, `client.rs`
and `notification.rs` under `src/src/core/`.

## 1. The system

| part | state | operations | who it meets |
| --- | --- | --- | --- |
| `core::Client` (client.rs) | `invoke_id`, `consecutive_timeouts`, the writer's mutex, `Shared` | `communicate` and the typed requests over it, `add_notification`, `delete_notification`, `close` | callers on any thread; the reader through `Shared` |
| `Shared` | `commands` (who waits for which id), `subscribers` (sender of each handle), `closed` (why it ended) | `register`, `subscribe`, `tear_down`, `PendingRequest::drop` | called by callers, the reader and `close` |
| reader task (`ClientReceiver`) | the position in the byte stream | `reader_work`, `stop` | takes senders out of `commands`, looks at `subscribers`, spawns deletions, takes the writer's mutex at its end |
| `Notification`, `SampleIter` (notification.rs) | position in one packet | parse, iterate | the reader |
| `Ads` (ads.rs) | `connection` behind a mutex, `symbol_handles` behind another | `connect`, `connect_with_retry`, `disconnect`, `read_symbol`, `subscribe*`, RPC methods | the application's tasks, all at once |
| `AdsConnection` (connection.rs) | `Connected(client)` or `Disconnected` | `connect` with the run-mode check, `disconnect`, `client` | `Ads` only, under its mutex |
| symbol information (symbol/type.rs) | the position in a table | fetch and decode the symbol and type tables, or the answer about one type | `get_dynamic_type_tree` |
| type tree, tree, map (symbol/type_tree.rs, tree.rs, map.rs) | none | lay a type out, decode a sample at offsets, flatten it | `subscribe_tree`, `subscribe_map`, their `recv()` |
| data types, parameters (data_types/, params.rs) | none | conversions of fixed size | `read_symbol`, RPC |
| addresses, protocol structs, error codes (core/netid.rs, core/protocol.rs, core/index.rs, error.rs) | none | constants, parsing, formatting | everything |

What is hard here, and what would be wrong:

- **A request against the end of the connection.** Four parties may tear the
  connection down (a failed write, the third timeout, the reader, `close`); a
  request may be registering, writing, waiting, timing out or being cancelled.
  Nobody may be left waiting, nobody may get somebody else's reply, and the
  reason of the first failure counts.
- **Ids and late replies.** A reply may come late, twice, or for a request that
  is gone; ids wrap at 2^32.
- **Partial writes.** A write that fails or is dropped may leave half a frame on
  the wire.
- **Dropped futures.** Any future of the application may be dropped at any of its
  awaits: a request, but also `connect`, `disconnect` and `close()` half-way.
- **Subscriptions against the end.** `recv()` must end when the connection does,
  and a subscription must survive everything else: slow readers, deletions of
  others, duplicate deletions.
- **The byte stream.** Every path through the reader's loop must consume exactly
  one frame; what the packet parser accepts must not panic the iterator.
- **Tables of the PLC.** Entries hold entries, each with a size of its own, and a
  dozen optional parts in the order of flags. A wrong number must not move what
  is behind it, a table that was cut must not pass for a shorter one.
- **Samples and types.** The type was read when the subscription was made, the
  sample comes later and may have another length; three tables of sizes, one for
  the length asked for and one for each way of reading, are kept alike by hand.
- **The session.** Tasks that connect, retry, disconnect and fail at once, with
  the connection's mutex held across network awaits: at most one client, never
  published before the PLC was seen in Run, no deadlock, and a retry that
  succeeds once the PLC is well.

## 2. Modules

| module | models | code |
| --- | --- | --- |
| `AdsClient` | one connection: calls, table, reader, tear-down, close | client.rs 216-239, 442-534, 677-855, 934-953 |
| `AdsPromise` | what a connection promises its callers: the abstract specification `AdsClient` implements | - |
| `AdsClientProofs` | theorems about `AdsClient` | - |
| `AdsNotifications` | subscriptions: add, samples, drop, delete, close, end | client.rs 630-687, 749-788, 936-999; ads.rs 468-491 |
| `AdsNotificationsProofs` | theorems about `AdsNotifications` | - |
| `AmsFraming` | the reader's loop over the byte stream | client.rs 858-965; protocol.rs 166-197 |
| `NotificationFrame` | one notification packet, parsed and iterated | notification.rs 80-176 |
| `Reader` | the two composed: a notification the loop hands on is walked before the next frame | client.rs 824-1002 |
| `ReaderProofs` | theorems about the packets, about the loop, and about the two together | - |
| `ReplyDecode` | what a caller makes of a reply | client.rs 241-434, 536-623 |
| `ReplyDecodeProofs` | theorems about `ReplyDecode` | - |
| `AdsSession` | `Ads` over `AdsConnection` | ads.rs 101-262, 429-464; connection.rs |
| `AdsSessionProofs` | theorems about `AdsSession` | - |
| `SymbolTables` | the walk over the tables of symbols and types | symbol/type.rs |
| `SymbolFormat` | where in its tables a PLC writes what: the hypothesis of the theorems about decoding | (the PLC) |
| `SymbolTablesProofs`, `SymbolFormatProofs` | theorems about `SymbolTables`: for any tables; for tables a PLC wrote | - |
| `SymbolLayout` | operators: the size of a node, what is read of it at an offset of a sample | symbol/type_tree.rs 39-103, tree.rs 74-250, map.rs 266-392 |
| `DynamicSymbols` | from the tables to values: the tree of a type, its flat map, a sample read with both | ads.rs 265-490; symbol/type_tree.rs 105-139, tree.rs 41-73, map.rs 92-262 |
| `DynamicSymbolsProofs` | theorems about `DynamicSymbols` | - |
| `MC...` | symmetry sets and inputs of the runs | - |

Definitions called *mutants* (`RegisterUnchecked`, ...) stand before the
definition they deform; no specification uses them. Each is a bug the code could
have had, and shows that a property would notice it.

### AdsClient

A call of `communicate` is an element of `Calls` and runs once: the requests of
the application (`Requests`) and those `close()` makes (`CloseRequests`). The
grain is one critical section, one atomic operation or one await, since the
tokio runtime is multi-threaded: `pc[r]` goes
`idle -> register -> lock -> write -> wait -> return -> done`, with `tear_down`
and `draining` where the call ends the connection itself.

| variable | in the code |
| --- | --- |
| `commands` | `Shared.commands`; a sender is the call it wakes |
| `chan[r]` | the receiving end of the oneshot channel: `open`, `reply`, `error` (a reason was sent), `dropped` |
| `closed`, `drain`, `taken` | `Shared.closed`; how far the one effective `tear_down` has got; the senders it has taken out of the table |
| `reader`, `hand`, `frame` | the task; the sender it has removed and not yet used; whose reply it delivers |
| `closer`, `to_delete` | `Client::close`, `"dropped"` when its future was, and its snapshot of the subscribers |
| `sent`, `peer_gone`, `shut`, `torn` | the wire: requests at the peer, both ends of the TCP connection, how a frame was cut short: by a write that `failed`, by a caller that was `dropped` |
| `got`, `wrapped`, `garbled` | history, read by properties only |

The outcome of a call is its class (`Answered`, `TimedOut`, `WriteFailed`, ...).
`Answered` includes replies that `communicate` goes on to reject or that carry an
ADS error: by then the connection is no longer involved. `IdModulus` replaces
2^32, `MaxConsecutiveTimeouts` the constant 3.

`reader` may panic where the code does (client.rs:953). `Cancel` drops a caller's
future at any of its awaits, inside `write_all` too (`MayTear`); `CloseDropped`
drops that of `close()`, with the deletion it is waiting for, and what it has done
until then stays done. It may then be called again.

### AdsNotifications

Requests are reduced to sent, answered, failed; the reader's frames keep the
order of TCP. `subscribers[h]` is the subscription whose sender is kept at handle
`h`; `queue[s]` its bounded channel; `plc[h]` the PLC's own table. Deleters are
the tasks inside `delete_notification`: the application's, those the reader
spawns, and `Closer`, which is `close()`. `FreshHandles` says that the PLC does
not give a handle out twice; without it nothing is claimed for a live
subscription, because `delete_notification` removes by handle (client.rs:670).

A deletion may fail at any time: refused because the connection has ended
(`DeleteRefused`), or, with the connection open as well, by its timeout, by a reply
that is rejected, or by being dropped (`DeleteFails`). The request may then still
reach the PLC (`late`), and a reply on its way wakes nobody (`Orphaned`). Nobody
repeats it: `close()` drops the error (client.rs:685), which `given_up` remembers,
as `found` remembers what it set out to delete.

### AmsFraming, NotificationFrame, Reader

`AmsFraming` counts bytes: the wire is the sequence of frames the router meant,
each with the fields the loop compares, and `taken` is what the `read_exact`s of
one iteration have consumed. At the top of the loop the reader is on a boundary
or `adrift`; adrift, it reads any header at all. `NotificationFrame` takes the u32
as its unit (a timestamp is two, sample data are counted in them); a packet is
any short sequence of small numbers.

`Reader` puts them together: `JudgeFrame` hands a notification of the length the
frame declares to the packet walk, and while `step` is not `idle` the loop waits. A
panic in either is the end of the task, so that `OnlyStubsKillTheReader` is a
property of the composition.

### ReplyDecode

Sequential: one request with its buffers, and the reply it was handed, whose
header fails any of the checks and whose payload is any bytes. Each check, each
round of the loop over the buffers (client.rs:610) and the conclusion of the
typed request is an action, so that what the loop fills can be proved by the
invariant of its steps. A u32 has `Field` bytes and the value `LE`, both
constants, so that a run can do with two bits. `Truthful` is the premise that
the PLC's length field tells how many bytes follow: `read()` returns that field
(client.rs:289), not what was copied.

### AdsSession

A `core::Client` is a session number, open or closed; what happens inside it is
`AdsClient`'s business. A handle is the session that issued it. The mutex of the
connection is the set of labels at which a task `Holds` it; the mutex of the
handles is never held across an await and needs no state. Network and PLC are
`healthy` or not: only when they are not may a request, a connect or a session
fail by itself.

`Cancel(t)` drops an operation at any of its awaits. A client that is not yet
published goes with the future that was connecting it (`Unpublished`). A `close()`
that is dropped leaves `Connected` behind: with the client as it was, shut down for
writing (`cut`: every request on it then fails, `WriteFails`), or closed.

### SymbolTables, SymbolLayout, DynamicSymbols

`SymbolTables` is the recursive descent of symbol/type.rs with its call stack as a
variable: `stack` is a sequence of frames, each a slice of the table (`ptr`, `end`),
the item being decoded and the goals (`todo`) still to be read from the slice, in
the order the flags give them. `EnterEntry` is the `split_at` of an entry's
size, `LeaveEntry` the return. A table is a sequence of numbers: one for each
field of fixed width, one for each byte of what has a length. A panic and an error
are different ends.

`SymbolLayout` has no state: `GetSize` tells the size of a node, `ReadLeaf` and
`ReadPrimitive` what the two subscriptions make of the bytes at an offset. A sample
is its length; a value is where it was read (kind, offset and width), or how reading
it failed.

`DynamicSymbols` composes the two as `Ads` does: decode the upload,
`GetDynamicTypeTree`, `Subscribe`, `Recv`. A tree is a function from paths, sequences
of names, to nodes. The three recursions (over a type, over its tree to flatten it,
over its tree to read a sample) are walks: `walk` is the list of the calls that are
still to come, in the order the code makes them, and each call is one step.
`TypeIsSimple` and `TypeIsCompound` are one call of `try_from_type_or_field`, `MapStep`
one of `from_tree`, `ReadStep` one of `from_bytes`. Written so, no operator is recursive,
and what a recursion computes can be proved by the invariant of its steps.
`within` are the types a call is inside of: one that comes again is a recursion
without end, and the task ends there. `at`, the place of a node in a sample, is
history that no step but `Put` reads.

`MCDynamicSymbols` has an encoder, written from what the decoder skips and from
the table tests/test_symbol.rs builds, so that `RoundTrip` compares what is decoded
with what was meant.

`SymbolFormat` says the same without an encoder, of tables of any length: the layout
of an upload names the entries, where each begins and ends, and where its parts are
(`LayoutOf`), and `Written` says which number stands at which of these positions. It
does not use the decoder's steps. Of an entry with a wrong number in it nothing is
known but its size; `KnownBut` says which may be so, and a table may be the beginning of what
was written. `PLCWrites`, that every upload fits its layout, is the one assumption
about the PLC, and TLC evaluates it for every upload of the run `Symbols`: what the
encoder makes, whole, damaged and cut, is what `Written` describes.

## 3. Runs

| run | question | bounds |
| --- | --- | --- |
| `ClientCalls` | safety of requests against every fault, with cancellation of requests and of `close()`, duplicates and both timeouts; the inductive invariant | 2 requests, limit of 2 timeouts |
| `ClientClose` | `close()`, dropped and repeated, with a source port to give back, beside a request and a failing peer; calls and `close()` return, or `close()` hangs in its message to the router | 1 request, 1 subscription to delete |
| `ClientPromise` | the connection without timeouts implements `AdsPromise` | 2 requests |
| `Session` | tasks that read, retry and disconnect, and drop any of it | 2 tasks, 1 symbol |
| `NotificationSafety` | subscriptions against deletions that may fail, close and failure | 2 subscriptions, channel of 1, 1 frame under way and the replies to 2 deleters |
| `NotificationOrder` | order of samples; dropped receivers, with deletions that may fail | channel of 2, 4 numbered samples, 3 frames under way and the replies to 2 deleters |
| `Reader` | every sequence of frames, and inside a notification every packet | 2 frames of 20 kinds, both sides of each comparison; packets of 1, 4, 6, 7 and 9 words of value 0 to 2 |
| `ReplyDecode` | every reply to every request | payloads of 0 to 7 bytes of one bit, fields of 2, buffers of 0 to 4, any subset of the 5 checks failing |
| `Symbols` | what the tables hold is decoded, damage is contained, and samples are read alike as a tree and as a map | tables with every part in them, cut at every place and with every single number wrong (7 wrong values), decoded both ways; structs of two fields of 15 kinds in 4 places; samples of 13 lengths |
| `CancelCutsFrame`, `PanicKeepsConnection`, `StaleHandles` | what the code does otherwise than its tests say (section 5) | |

Why these bounds are enough to be interesting: two requests suffice for every
race between two callers, a reader and a tear-down. No run lets two waiting calls
have the same invoke id: `ClientCalls` has more ids than calls, and what holds
when ids wrap is left to `Invariance`, which assumes nothing of their number;
a second subscription is needed for a
deletion to hit the wrong one; a channel of one is full after one sample; with
two tasks one can hold the lock, be dead, or have reconnected while the other is
between any two awaits. In `AdsSession` there is always a session number nobody
refers to. In `AdsNotifications` the PLC adds and samples while fewer than `MaxStream`
frames are under way; its replies to deletions always find room, so that no deletion
waits for the bound. Two frames suffice to see that the first leaves the reader on the
second; nine words hold two stamps of one sample each, one of two, and every
count that does not fit. A struct of two fields has a field before and a field
behind the one that goes wrong, and the second may be placed after, over, or
outside the first, or elsewhere. The layouts of `Symbols` (`SmallLayouts`) are
computed with its encoder, so that `PLCWrites` is not empty: it holds of entries with
every part, of every harm and both ways of asking. `Buffer` = 4 makes short names overflow the
buffer for strings. `IInv`, `DInv` and the invariants behind the theorems of
section 4 are proved for all bounds.

Deadlock is checked everywhere; `Terminated`, `Finished` and `Ended` are the
states in which everything has come to rest.

**Fairness.** The runtime polls every task that can make progress: weak fairness
of each call's own steps, of the drain, the reader and `close()`. A request's write
either ends or is ended by its timeout (`WriteErr`). The write of `close()` to the
router (client.rs:696) has no timeout: it is fair only when the connection is shut
or the peer gone. Nothing is assumed of the
application, which may never call, cancel, drop or close, nor of the peer: no reply is
fair, only the end of file of a peer that has gone. `FairSpecPeerTakesBytes`, for
the run without timeouts, adds that TCP takes what is written; it is named
because a peer that stops reading can block `write_all` for ever. tokio's mutexes
hand over in the order of asking, hence strong fairness of a call that waits for the
writer (`LockWriter`), which a `close()` dropped and repeated takes again and again,
and in `AdsSession` of a task's steps.

Hence the exception in `EveryCallReturns` and `CloseReturns`: with timeouts set, calls
and `close()` come back, unless `close()` hangs for ever (`CloseHangs`) in its message to
the router of a peer that neither reads nor goes; what it then keeps waiting is the
calls that queue for the writer. Without a source port there is no such message.
`AdsSession` takes the return of requests and of `close()` for granted, so
`OperationsReturn` and `RetrySucceeds` hold under the same condition.
`RetrySucceeds` assumes moreover that network and PLC stay well from some time on.
`DroppedIsDeleted` assumes a PLC that goes on sampling and that carries out one of the
deletions it is asked for again and again, however many of them fail.

## 4. Proofs

`AdsClientProofs` proves, for every set of calls, any number of ids, any limit,
any combination of timeouts and faults, from `ConstantsOK` alone:

- `Invariance`: `Spec => []IInv`, and from it `TypeCorrectness`,
  `CallersCanBeWoken` (`NoStrandedCaller`), `NobodyMissesTheEnd`
  (`NoWaitAfterEnd`), `RepliesAreNotCrossed` (`OwnReply`), `FailuresAreExplained`,
  `LimitsEndTheConnection` (`TimeoutsEndConnection`) and
  `CutFramesEndTheConnection` (`CutFrameEndsConnection`);
- `TheFirstReasonStays`: `Spec => FirstReasonWins`;
- `GarbledConnectionsEnd`, if no future is dropped, and `DeadReaderIsNoticed`, if
  moreover no notification is too short for its handle: without the causes shown by `CancelCutsFrame` and
  `PanicKeepsConnection` (section 5), what the two tests claim holds up to one
  step. The step is there: a failed write releases the writer before its tear-down,
  and `close()` stops the reader before its own;
- `ImplementsPromise`: as long as ids have not wrapped, `AdsClient` implements the
  safety part of `AdsPromise` under the refinement mapping of `Abstract`.

None of the properties is inductive. `NoStrandedCaller` needs to know that a
sender is in one place only and that its channel is open while it exists
(`SendersInOnePlace`): otherwise removing one entry could lose the sender of
another call. `NoWaitAfterEnd` follows from it and from `DrainMeans`: once the
drain has taken the table, `closed` is set and `Register` can no longer add to
it. That a call returns a reason the connection has (`OutcomesFit`) and that ids
given out are below the next one and different (`IdsAreFresh`) carry the rest.
`IInv` is their conjunction; TLC checks it in `ClientCalls`. The
proof has one lemma per action and, in it, one step per part the action disturbs.

`ReaderProofs` proves `FInv` for any set of frame kinds and any stream
(`FramingInvariant`): what the label says of the bytes taken (`TakenSoFar`) and that
on the boundaries the reader is in the frame it believes to be in (`InTheFrame`);
`StaysAligned` and `HandsOnExactly` follow (`ReaderStaysAligned`,
`ReaderHandsOnExactly`).

It proves `PInv` (`PacketInvariant`) for any packets. The
parser and the iterator are two walks over the same words, and the second does
not check what it slices: `PInv` says that the first walk has left a
trail, every position it stood at with what it found inside the packet from there,
and that the second walk stands on a trail that leads to the last word.
`ReaderPackets` carries `PInv` over to the composition, and from it follow `ReaderIterates` (`IteratesWhatWasParsed`), `ReaderSlices`
(`SlicesAreApart`) and `ReaderSurvives` (`OnlyStubsKillTheReader`);
`ReaderImplementsFraming`, `ReaderSpec => Spec`, carries over what is proved of
the framing.

`ReplyDecodeProofs` proves `DInv` for any bytes, any width of a field, any
requests and replies (`DecodingInvariant`), and from it `BuffersHoldTheReply`
(`FilledFromReply`), `ReadsTellTheTruth` (`ReadTellsWhatIsFilled`),
`ErrorsComeFromTheReply` (`ErrorsAreOurs`) and `SlicesStayInTheReply`
(`OnlyShortRepliesPanic`). What the buffers hold at the end says nothing of the
round before; `FilledSoFar` does, with `LoopMeans`: at buffer `k` the loop has taken
what the buffers before it hold, and no buffer from `k` on has been touched. That
the second buffer begins where the first ends needs the check at client.rs:596.

`AdsNotificationsProofs` proves `NInv` for any subscriptions, deleters, handles,
capacity and number of samples: `TypeOK`, `KInv`, and if handles are fresh `HInv` (who
has a handle: the PLC, a reply under way, a subscription), `DInv` (whose deletion is
under way and on whose behalf) and `OInv` (the samples of a subscription, read,
queued and still on the wire, are one increasing sequence). From it:
`NotificationTypes`, `EndIsFinal` (`EndReachesSubscribers`), `LiveIsSubscribed`
(`LiveStaysSubscribed`), `CloseIsThorough` (`CloseDeletesWhatItFound`)
and `SamplesStayInOrder` (`SamplesInOrder`). That a live
subscription keeps its sender needs `DInv`: a deletion under way is always of a
subscription somebody gave up. `CloseIsThorough` holds also when handles are given out
again, and `KInv` says why: a subscription has one handle at most, the one it was found
under (`Acquainted`), and what `close()` found and the PLC still has is on its list,
under way, or given up (`LeftToDo`).

`AdsSessionProofs` proves `SInv` for any tasks and symbols, from `SessionConstants`:
`TypeOK`, that one task at a time has the lock (`Exclusive`), that a task which is to
open a client, or has opened one, has found nothing connected (`ConnectingAlone`), and
that every open client is the published one or that of the task checking it (`Owned`).
`SessionTypes`, `OneClient` (`OneOpenClient`) and `ConnectedRuns`
(`ConnectedMeansRunWasSeen`) follow. Dropped operations are in the proof: `Cancel` only
ever closes clients (`CancelCloses`).

`SymbolTablesProofs` proves `TablesNest`: whatever numbers the tables hold, every
slice lies in the one around it and behind what was stepped over (`SlicesNest`).
The invariant `TInv` adds the types of the frames and that a list still to be read
is not empty.

`SymbolFormatProofs` proves of tables of any length, with any entries nested in any
way, from `PLCWrites`: what was written is what is decoded (`TablesRoundTrip`,
`RoundTrip`), a wrong number costs nothing but the entry it is in
(`DamageStaysInside`, `DamageIsContained`), and a table cut within an entry is refused
(`CutTablesAreRefused`, `CutIsRefused`). None of the three can be seen before the walk is over,
so the invariant describes every frame on the way: a frame stands in an entry of the
layout with the positions, the goals and the part of the item that its place in
the entry implies (`Reads`), and waits for the entry the frame above it stands in
(`Chain`), up to the first entry of which nothing is known. From there on `TInv` alone
has to do: however the walk goes on in such a slice, it returns to the frame below, where
the size of the entry says, or fails. `NextWritten` has one lemma per action; most of
the length is the order of the optional parts, one lemma for what each goal leaves to
read.

These theorems, and `TablesNest`, are about `TableSpec`, the walk by itself. The run
`Symbols` checks the same properties in `SymbolsSpec`, which goes on to trees and
samples; `SymbolsImplementTables`, `SymbolsSpec => TableSpec`, says that they hold there
too.

`DynamicSymbolsProofs` proves of any tables whatever, of any symbol, with structs
nested to any depth, and of samples of any length: `FullSamplesRead`
(`FullSamplesAreRead`), `BothReadingsAgree` (`TreeAndMapAgree`) and
`TreePanicsMapPanics` (`MapPanicsWithTree`). Nothing is assumed of what the PLC writes;
what the properties need of it is in their premises (`NoEmptyName`, and `Sound` for
the first). They compare two readings that are made by different walks at
different times, so the invariant says of each walk what it has done and what is left:

- `GrownTree`: every path of the tree has its beginnings in it (`Rooted`), down to the
  root, each a struct that names the next (`IsKid`, `KidsThere`); a field is at its struct's
  place plus its offset, hence not before any struct around it (`Rises`) and, where every
  field lies within its struct, inside the sample that is asked for (`FitsIn`);
- `MapCovers` and `ReadCovers`: each path is in the map (in the values read), or
  a struct around it was left out for a reason, or the call for it or for a struct
  around it is in `walk`;
- `MapEntries` and `TreeEntries`: what is in the map is the descriptor of that path (`Described`),
  what is in the values is `Seen` of it.

When `walk` is empty the second part says that everything is there (`AllRead`), and the
properties follow path by path. `AInv`, that sizes and offsets the decoder stores are numbers,
and `TInv` are carried along. The premise `NoEmptyName` is needed: the map's keys are
strings joined with periods, and an empty name at the root takes no period.

Only model-checked:

- all liveness (fairness and ENABLED are outside the prover's reach), with it the
  liveness half of `AdsPromise` and `CloseReturns`, `RetrySucceeds`, `DroppedIsDeleted`;
- what the violation runs show.

## 5. Divergences

Checked, with a counterexample in the run named:

- `CancelCutsFrame`: a caller dropped inside `write_all` (client.rs:488) leaves
  half a frame on an open connection; the next request goes out behind it. The run has
  no port to give back, so that `close()` writes nothing.
- `PanicKeepsConnection`: a notification with fewer than four bytes of payload
  panics the reader (client.rs:953) past its `tear_down`; `is_closed` stays false.
- `StaleHandles`: a reconnect may keep a handle of the old session, because the
  table is cleared only if the connection was already closed at ads.rs:128, or
  because a task inserts its old handle after the clearing (ads.rs:252).

Met while modelling, and in the models, without a run of their own:

- Without timeouts `close()` waits for the reply to its `DeleteNotification`
  (client.rs:685); tests/connection_loss.rs:129 says "disconnect should not wait
  on the peer". With both timeouts set it
  comes back (`CloseReturns`), with the exception of the next entry.
- `close()` gives its port back with a `write_all` that has no timeout
  (client.rs:693-696), holding the writer. If the peer stops reading and stays, it
  waits there for ever, and with it every caller that queues for the writer
  (client.rs:487), which has no timeout either. It is the exception in
  `EveryCallReturns` and `CloseReturns`; without it `ClientClose` fails.
- A deletion that fails is ignored by `close()` (client.rs:685), and by the task the
  reader spawns: the subscription may stay at the PLC, of which client.rs:628 says
  "it is deleted with `Client::close`". A timeout, an error in the reply or the end of the
  connection suffices. `CloseDeletesWhatItFound` says that this is all that stays.
- A reply whose caller has given up does not reset `consecutive_timeouts`
  (client.rs:948-950), documented as "Reply timeouts since the last reply".
- `with_client` disconnects whatever is connected when its request has failed,
  not the client that failed (ads.rs:453-457).
- A subscription answered after `close()` took its snapshot is not deleted at the
  PLC, although client.rs:628 says so of every subscription.
- Router frames are skipped (client.rs:908) before the length fields are
  compared (client.rs:918), after `data_length` bytes of them were read.
- `read_exact` is documented as "ensuring that the returned data has exactly the
  size of the passed buffer" (client.rs:295); it compares the length field of the
  reply, so that a reply with less data than its length field says is accepted and
  the end of the buffer left as it was. `ReadTellsWhatIsFilled` has the premise
  `Truthful` for this reason.
- A dropped `disconnect` leaves the connection `Connected` with a client half closed
  (connection.rs:50-52); the next request on it fails and disconnects. A `close()`
  dropped after it has stopped the reader (client.rs:704) and before its own
  `tear_down` leaves an open connection without reader: callers without a read
  timeout wait until `close()` is called again.
- A WSTRING that is cut off panics the task in `recv()`: the slice `[i..i + 2]` comes
  before the read whose failure is commented "If there is somehow not enough bytes
  in the data then the data is malformed." (symbol/tree.rs:129, symbol/map.rs:354).
  `FullSamplesAreRead` has the premise that the sample is long enough for this reason.
- One malformed or unknown field refuses the whole struct (symbol/tree.rs:242-248), also
  when the application does not want it; a test says "deserializing should be as
  optimistic as possible i.e we don't care if there is extra data even if the data is
  malformed" (symbol/mod.rs:307-308).
- `get_type_info_by_name` slices its buffer of 4096 bytes with the length field of the
  PLC (symbol/type.rs:636) and the answer with an entry length that may be below four
  (symbol/type.rs:645): either panics. An answer shorter than its length field is
  decoded with zeros behind it.
- A struct with the names of a time whose parts are not all UINT, or not all placed,
  is not in the map at all (symbol/map.rs:98-112); the tree has its fields. The time
  of a root struct is in the map, and not in the tree under the empty path.
- The reply to the port request is taken with one `read` (client.rs:190): if it comes
  in pieces, the address is completed with zeros and the rest becomes the reader's
  first header. Seen in the code only; `Client::new` is not modelled.
- The `[..4]` of client.rs:582 panics the caller on a reply shorter than that;
  the check said to ensure the field comes at 596.

## 6. Not modelled

- `Client::new`: the TCP connect and the port request, sequential, before anything is
  shared; dropping a `Client` without `close()`; how the bytes of requests are put
  together. In `AdsNotifications` a `close()` runs to its end, its dropping is in
  `AdsClient` and `AdsSession`.
- RPC methods and the writing of symbols, apart from the path they share with
  `read_symbol`.
- Of the symbol tables: comments, the fields nobody looks at, the replacement of bytes
  that are not UTF-8, the bounds of arrays (`lower + total - 1`).
- Of trees and maps: the overflow of a u32 offset, names with a period in them, an array of
  numbers (kept as raw bytes), serde's visitors apart from what they refuse, the
  conversion of bytes to numbers, the depth of the stack, memory.
- Data types and RPC parameters, AMS addresses, protocol constants, error texts and the
  builder: constants and conversions of fixed size, without state and without anything
  to interleave.

## 7. Plan

Done: `AdsClient` with `AdsPromise`, `AdsSession`, `AdsNotifications`, `AmsFraming`,
`NotificationFrame`, `Reader`, `ReplyDecode` and `SymbolTables`, each with its proofs;
`SymbolFormat`, what the decoding of whole, damaged and cut tables is proved against;
`SymbolLayout` and `DynamicSymbols` with their proofs; dropped futures in `AdsClient`
and `AdsSession`.

Left:

1. What a session and a subscription promise, as abstract specifications that
   `AdsSession` and `AdsNotifications` implement.
2. The port request of `Client::new` as the beginning of a session.
3. A run in which two waiting calls have one id (now left to `Invariance`).
4. A `close()` dropped half-way in `AdsNotifications`.

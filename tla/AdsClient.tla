------------------------------- MODULE AdsClient -------------------------------
(***************************************************************************)
(* One connection of the ADS client (core/client.rs): the calls of         *)
(* Client::communicate that share it, struct Shared with its table of      *)
(* pending replies, the reader task, and Client::close.                    *)
(*                                                                         *)
(* The grain is one critical section, one atomic operation or one await:   *)
(* a step ends where another thread of the tokio runtime can observe the   *)
(* state.  Payloads are left out.  A call of communicate is a member of    *)
(* Calls and runs once; a oneshot channel is the state chan[r] of the      *)
(* receiving end; the sending end is in `commands`, in the `taken` batch   *)
(* of a tear-down, or in the reader's `hand`.                              *)
(***************************************************************************)
EXTENDS Integers, FiniteSets

CONSTANTS
  Requests,          \* calls made by the application's tasks
  CloseRequests,     \* the calls close() makes: one DeleteNotification per subscription
  IdModulus,         \* how many invoke ids there are before the u32 wraps
  MaxConsecutiveTimeouts,
  ReadTimeout,       \* whether Timeouts.read is Some
  WriteTimeout,      \* whether Timeouts.write is Some
  SourcePortOpened,  \* whether close() has a port to give back to the router
  Cancellable,       \* the requests whose caller may drop the future, see MayDrop
  PeerFaults,        \* which of "gone", "badFrame", "shortNotification" the peer shows
  None

Calls == Requests \cup CloseRequests
Ids == 0 .. (IdModulus - 1)
Reasons == {"WriteFailed", "TimedOut", "ReaderFailed", "Disconnected"}
Outcomes == Reasons \cup {"none", "Overflow", "Answered", "IoSync", "Cancelled"}

ASSUME ConstantsOK ==
  /\ Requests \cap CloseRequests = {}
  /\ None \notin Calls \cup Outcomes
  /\ IdModulus \in Nat \ {0, 1}
  /\ MaxConsecutiveTimeouts \in Nat \ {0}
  /\ {ReadTimeout, WriteTimeout, SourcePortOpened} \subseteq BOOLEAN
  /\ Cancellable \subseteq Requests

VARIABLES
  pc,                    \* where each call of communicate is
  id,                    \* its dispatched_invoke_id
  chan,                  \* the state of its reply channel
  result,                \* how it ended
  got,                   \* history: the call whose reply it was handed
  invoke_id,             \* Client.invoke_id
  wrapped,               \* history: invoke_id has gone past its maximum
  consecutive_timeouts,  \* Client.consecutive_timeouts
  commands,              \* Shared.commands: who waits for each invoke id
  closed,                \* Shared.closed: why the connection ended, or None
  drain,                 \* how far the one effective tear_down has got
  taken,                 \* the senders that tear_down took out of commands
  reader,                \* where the reader task is
  hand,                  \* the sender the reader has removed and not yet used
  frame,                 \* the call whose reply the reader is delivering
  closer,                \* where close() is
  to_delete,             \* the subscriptions close() found
  sent,                  \* calls whose request frame is at the peer, unanswered
  shut,                  \* the write half is shut down
  peer_gone,             \* the peer has closed the TCP connection
  torn,                  \* how a frame was cut short on the wire: see MayTear
  garbled                \* history: something was written after a cut frame

call_vars == <<pc, id, result>>
reader_vars == <<reader, hand, frame>>
close_vars == <<closer, to_delete>>
wire_vars == <<sent, shut, peer_gone, torn, garbled>>
tear_down_vars == <<closed, drain, taken>>
counter_vars == <<invoke_id, wrapped>>
vars == <<pc, id, chan, result, got, invoke_id, wrapped, consecutive_timeouts,
          commands, closed, drain, taken, reader, hand, frame, closer,
          to_delete, sent, shut, peer_gone, torn, garbled>>

Init ==
  /\ pc = [r \in Calls |-> "idle"]
  /\ id = [r \in Calls |-> 0]
  /\ chan = [r \in Calls |-> "none"]
  /\ result = [r \in Calls |-> "none"]
  /\ got = [r \in Calls |-> None]
  /\ invoke_id = 1
  /\ wrapped = FALSE
  /\ consecutive_timeouts = 0
  /\ commands = [i \in Ids |-> None]
  /\ closed = None
  /\ drain = "idle"
  /\ taken = {}
  /\ reader = "read"
  /\ hand = None
  /\ frame = None
  /\ closer = "idle"
  /\ to_delete = {}
  /\ sent = {}
  /\ shut = FALSE
  /\ peer_gone = FALSE
  /\ torn = "no"
  /\ garbled = FALSE

--------------------------------------------------------------------------------
(* Helpers. *)

Goto(r, label) == pc' = [pc EXCEPT ![r] = label]

(* commands.insert and commands.remove drop the sender they displace; a        *)
(* receiver still open then finds its channel closed.                          *)
DropSenderAt(i) ==
  IF commands[i] # None /\ chan[commands[i]] = "open"
  THEN [chan EXCEPT ![commands[i]] = "dropped"] ELSE chan

(* The tokio mutex around the write half: held from the lock to the end of     *)
(* the block that writes.                                                      *)
WriterFree == closer # "write" /\ \A r \in Calls : pc[r] # "write"

(* A write that ends early, by an error or because its future is dropped, may   *)
(* leave part of its frame on the wire.                                         *)
MayTear(how) == torn' \in {torn} \cup (IF shut THEN {} ELSE {how})

(* Mutant of MarkClosed: the last reason is kept instead of the first. *)
MarkClosedAnew(reason) ==
  closed' = reason /\ drain' = (IF closed = None THEN "take" ELSE drain)

(* The first half of tear_down: the first caller records the reason and goes   *)
(* on to drain, any other caller returns at once.                              *)
MarkClosed(reason) ==
  IF closed = None THEN closed' = reason /\ drain' = "take"
                   ELSE UNCHANGED <<closed, drain>>

(* Mutant of TakeInvokeId: the counter is read and never advanced. *)
TakeSameInvokeId(r) ==
  id' = [id EXCEPT ![r] = invoke_id] /\ UNCHANGED counter_vars

(* fetch_add on the AtomicU32. *)
TakeInvokeId(r) ==
  /\ id' = [id EXCEPT ![r] = invoke_id]
  /\ invoke_id' = IF invoke_id = IdModulus - 1 THEN 0 ELSE invoke_id + 1
  /\ wrapped' = (wrapped \/ invoke_id' = 0)

--------------------------------------------------------------------------------
(* Client::communicate. *)

(* The application calls at any time; close() deletes its subscriptions one    *)
(* after the other.                                                            *)
MayStart(r) ==
  \/ r \in Requests
  \/ /\ closer = "deleting"
     /\ r \in to_delete
     /\ \A q \in CloseRequests : pc[q] \in {"idle", "done"}

Dispatch(r) ==
  /\ pc[r] = "idle"
  /\ MayStart(r)
  /\ TakeInvokeId(r)
  /\ Goto(r, "register")
  /\ UNCHANGED <<chan, result, got, consecutive_timeouts, commands,
                 tear_down_vars, reader_vars, close_vars, wire_vars>>

(* The length of the frame does not fit 32 bits: the id is spent, nothing else. *)
DispatchOverflow(r) ==
  /\ pc[r] = "idle"
  /\ r \in Requests
  /\ TakeInvokeId(r)
  /\ Goto(r, "done")
  /\ result' = [result EXCEPT ![r] = "Overflow"]
  /\ UNCHANGED <<chan, got, consecutive_timeouts, commands, tear_down_vars,
                 reader_vars, close_vars, wire_vars>>

(* Mutant of Register: no look at `closed`. *)
RegisterUnchecked(r) ==
  /\ pc[r] = "register"
  /\ commands' = [commands EXCEPT ![id[r]] = r]
  /\ chan' = [DropSenderAt(id[r]) EXCEPT ![r] = "open"]
  /\ Goto(r, "lock")
  /\ UNCHANGED <<id, result, got, counter_vars, consecutive_timeouts,
                 tear_down_vars, reader_vars, close_vars, wire_vars>>

(* Mutant of Register: the counter is read a second time for the table. *)
RegisterAtCounter(r) ==
  /\ pc[r] = "register"
  /\ closed = None
  /\ commands' = [commands EXCEPT ![invoke_id] = r]
  /\ chan' = [DropSenderAt(invoke_id) EXCEPT ![r] = "open"]
  /\ Goto(r, "lock")
  /\ UNCHANGED <<id, result, got, counter_vars, consecutive_timeouts,
                 tear_down_vars, reader_vars, close_vars, wire_vars>>

(* Shared::register, the check and the insertion under one lock. *)
Register(r) ==
  /\ pc[r] = "register"
  /\ closed = None
  /\ commands' = [commands EXCEPT ![id[r]] = r]
  /\ chan' = [DropSenderAt(id[r]) EXCEPT ![r] = "open"]
  /\ Goto(r, "lock")
  /\ UNCHANGED <<id, result, got, counter_vars, consecutive_timeouts,
                 tear_down_vars, reader_vars, close_vars, wire_vars>>

RegisterRefused(r) ==
  /\ pc[r] = "register"
  /\ closed # None
  /\ result' = [result EXCEPT ![r] = "Disconnected"]
  /\ Goto(r, "done")
  /\ UNCHANGED <<id, chan, got, counter_vars, consecutive_timeouts, commands,
                 tear_down_vars, reader_vars, close_vars, wire_vars>>

LockWriter(r) ==
  /\ pc[r] = "lock"
  /\ WriterFree
  /\ Goto(r, "write")
  /\ UNCHANGED <<id, chan, result, got, counter_vars, consecutive_timeouts,
                 commands, tear_down_vars, reader_vars, close_vars, wire_vars>>

(* write_all returns Ok.  Behind a cut frame the peer cannot recognise it. *)
WriteOk(r) ==
  /\ pc[r] = "write"
  /\ ~shut
  /\ sent' = IF torn # "no" \/ peer_gone THEN sent ELSE sent \cup {r}
  /\ garbled' = (garbled \/ torn # "no")
  /\ Goto(r, "wait")
  /\ UNCHANGED <<id, chan, result, got, counter_vars, consecutive_timeouts,
                 commands, tear_down_vars, reader_vars, close_vars, shut,
                 peer_gone, torn>>

(* Mutant of WriteErr: the caller returns without ending the connection. *)
WriteErrKeepsConnection(r) ==
  /\ pc[r] = "write"
  /\ WriteTimeout \/ shut \/ peer_gone
  /\ MayTear("failed")
  /\ result' = [result EXCEPT ![r] = "WriteFailed"]
  /\ Goto(r, "return")
  /\ UNCHANGED <<id, chan, got, counter_vars, consecutive_timeouts, commands,
                 tear_down_vars, reader_vars, close_vars, sent, shut, peer_gone,
                 garbled>>

(* Mutant of WriteErr: no timeout around write_all. *)
WriteErrUntimed(r) ==
  /\ pc[r] = "write"
  /\ shut \/ peer_gone
  /\ result' = [result EXCEPT ![r] = "WriteFailed"]
  /\ Goto(r, "tear_down")
  /\ UNCHANGED <<id, chan, got, counter_vars, consecutive_timeouts, commands,
                 tear_down_vars, reader_vars, close_vars, wire_vars>>

(* write_all fails, or its timeout ends it after part of the frame; either way *)
(* the lock is released before tear_down runs.                                 *)
WriteErr(r) ==
  /\ pc[r] = "write"
  /\ \/ /\ shut \/ peer_gone
        /\ UNCHANGED torn
     \/ /\ WriteTimeout
        /\ MayTear("failed")
  /\ result' = [result EXCEPT ![r] = "WriteFailed"]
  /\ Goto(r, "tear_down")
  /\ UNCHANGED <<id, chan, got, counter_vars, consecutive_timeouts, commands,
                 tear_down_vars, reader_vars, close_vars, sent, shut, peer_gone,
                 garbled>>

(* Mutant of ReplyTimesOut: one timeout too many. *)
ReplyTimesOutLate(r) ==
  /\ ReadTimeout
  /\ pc[r] = "wait"
  /\ chan[r] = "open"
  /\ consecutive_timeouts' = consecutive_timeouts + 1
  /\ result' = [result EXCEPT ![r] = "TimedOut"]
  /\ Goto(r, IF consecutive_timeouts' > MaxConsecutiveTimeouts
             THEN "tear_down" ELSE "return")
  /\ UNCHANGED <<id, chan, got, counter_vars, commands, tear_down_vars,
                 reader_vars, close_vars, wire_vars>>

(* tokio::time::timeout polls the channel before the clock, so a reply that is *)
(* already there wins.                                                         *)
ReplyTimesOut(r) ==
  /\ ReadTimeout
  /\ pc[r] = "wait"
  /\ chan[r] = "open"
  /\ consecutive_timeouts' = consecutive_timeouts + 1
  /\ result' = [result EXCEPT ![r] = "TimedOut"]
  /\ Goto(r, IF consecutive_timeouts' >= MaxConsecutiveTimeouts
             THEN "tear_down" ELSE "return")
  /\ UNCHANGED <<id, chan, got, counter_vars, commands, tear_down_vars,
                 reader_vars, close_vars, wire_vars>>

ReceiveReply(r) ==
  /\ pc[r] = "wait"
  /\ chan[r] = "reply"
  /\ consecutive_timeouts' = 0
  /\ result' = [result EXCEPT ![r] = "Answered"]
  /\ Goto(r, "return")
  /\ UNCHANGED <<id, chan, got, counter_vars, commands, tear_down_vars,
                 reader_vars, close_vars, wire_vars>>

(* tear_down sent its reason, or every sender is gone. *)
ReceiveError(r) ==
  /\ pc[r] = "wait"
  /\ chan[r] \in {"error", "dropped"}
  /\ result' = [result EXCEPT ![r] = IF chan[r] = "error" THEN closed ELSE "IoSync"]
  /\ Goto(r, "return")
  /\ UNCHANGED <<id, chan, got, counter_vars, consecutive_timeouts, commands,
                 tear_down_vars, reader_vars, close_vars, wire_vars>>

(* Futures are dropped at all: those of requests and that of close().           *)
MayDrop == Cancellable # {}

(* The caller drops the future at one of its awaits, perhaps half way through   *)
(* write_all; with a deletion of its own goes close().                          *)
Cancel(r) ==
  /\ r \in Cancellable \/ (MayDrop /\ r \in CloseRequests)
  /\ pc[r] \in {"lock", "write", "wait"}
  /\ IF pc[r] = "write" THEN MayTear("dropped") ELSE UNCHANGED torn
  /\ result' = [result EXCEPT ![r] = "Cancelled"]
  /\ closer' = IF r \in CloseRequests THEN "dropped" ELSE closer
  /\ Goto(r, "return")
  /\ UNCHANGED <<id, chan, got, counter_vars, consecutive_timeouts, commands,
                 tear_down_vars, reader_vars, to_delete, sent, shut, peer_gone,
                 garbled>>

(* Mutant of Return: no PendingRequest guard, the entry stays in the table. *)
ReturnKeepsEntry(r) ==
  /\ pc[r] = "return"
  /\ Goto(r, "done")
  /\ UNCHANGED <<id, chan, result, got, counter_vars, consecutive_timeouts,
                 commands, tear_down_vars, reader_vars, close_vars, wire_vars>>

(* communicate returns: PendingRequest::drop removes whatever is at its id. *)
Return(r) ==
  /\ pc[r] = "return"
  /\ chan' = DropSenderAt(id[r])
  /\ commands' = [commands EXCEPT ![id[r]] = None]
  /\ Goto(r, "done")
  /\ UNCHANGED <<id, result, got, counter_vars, consecutive_timeouts,
                 tear_down_vars, reader_vars, close_vars, wire_vars>>

--------------------------------------------------------------------------------
(* Shared::tear_down, run by whoever meets the failure. *)

TearDown(r) ==
  /\ pc[r] = "tear_down"
  /\ MarkClosed(result[r])
  /\ Goto(r, IF closed = None THEN "draining" ELSE "return")
  /\ UNCHANGED <<id, chan, result, got, counter_vars, consecutive_timeouts,
                 commands, taken, reader_vars, close_vars, wire_vars>>

TearDownDone(r) ==
  /\ pc[r] = "draining"
  /\ drain = "done"
  /\ Goto(r, "return")
  /\ UNCHANGED <<id, chan, result, got, counter_vars, consecutive_timeouts,
                 commands, tear_down_vars, reader_vars, close_vars, wire_vars>>

(* Mutant of DrainTake: the table is left as it is. *)
DrainTakeNothing ==
  /\ drain = "take"
  /\ drain' = "send"
  /\ UNCHANGED <<pc, id, chan, result, got, counter_vars, consecutive_timeouts,
                 commands, closed, taken, reader_vars, close_vars, wire_vars>>

(* mem::take of the whole table under its lock. *)
DrainTake ==
  /\ drain = "take"
  /\ taken' = {commands[i] : i \in Ids} \ {None}
  /\ commands' = [i \in Ids |-> None]
  /\ drain' = "send"
  /\ UNCHANGED <<pc, id, chan, result, got, counter_vars, consecutive_timeouts,
                 closed, reader_vars, close_vars, wire_vars>>

DrainSend(r) ==
  /\ drain = "send"
  /\ r \in taken
  /\ chan' = [chan EXCEPT ![r] = "error"]
  /\ taken' = taken \ {r}
  /\ UNCHANGED <<pc, id, result, got, counter_vars, consecutive_timeouts,
                 commands, closed, drain, reader_vars, close_vars, wire_vars>>

(* Every waiter is told, and the subscribers are cleared (AdsNotifications).    *)
DrainEnd ==
  /\ drain = "send"
  /\ taken = {}
  /\ drain' = "done"
  /\ UNCHANGED <<pc, id, chan, result, got, counter_vars, consecutive_timeouts,
                 commands, closed, taken, reader_vars, close_vars, wire_vars>>

--------------------------------------------------------------------------------
(* The reader task. *)

(* A whole reply frame is read and the sender at its invoke id removed; the     *)
(* reply to a call nobody waits for is ignored.                                 *)
ReaderReply(o) ==
  /\ reader = "read"
  /\ o \in sent
  /\ sent' = sent \ {o} \/ ("duplicateReply" \in PeerFaults /\ UNCHANGED sent)
  /\ commands' = [commands EXCEPT ![id[o]] = None]
  /\ LET q == commands[id[o]] IN
       /\ hand' = q
       /\ frame' = IF q = None THEN None ELSE o
       /\ reader' = IF q = None THEN "read" ELSE "deliver"
  /\ UNCHANGED <<pc, id, chan, result, got, counter_vars, consecutive_timeouts,
                 tear_down_vars, close_vars, shut, peer_gone, torn, garbled>>

(* The send is a no-op when the receiver is gone. *)
Deliver ==
  /\ reader = "deliver"
  /\ chan' = [chan EXCEPT ![hand] = "reply"]
  /\ got' = [got EXCEPT ![hand] = frame]
  /\ hand' = None
  /\ frame' = None
  /\ reader' = "read"
  /\ UNCHANGED <<pc, id, result, counter_vars, consecutive_timeouts, commands,
                 tear_down_vars, close_vars, wire_vars>>

(* End of file, or a frame reader_work rejects. *)
ReaderFails ==
  /\ reader = "read"
  /\ peer_gone \/ "badFrame" \in PeerFaults
  /\ reader' = "tear_down"
  /\ UNCHANGED <<pc, id, chan, result, got, counter_vars, consecutive_timeouts,
                 commands, tear_down_vars, hand, frame, close_vars, wire_vars>>

(* LE::read_u32 of a notification payload shorter than 4 bytes panics the task. *)
ReaderPanics ==
  /\ reader = "read"
  /\ "shortNotification" \in PeerFaults
  /\ reader' = "panicked"
  /\ UNCHANGED <<pc, id, chan, result, got, counter_vars, consecutive_timeouts,
                 commands, tear_down_vars, hand, frame, close_vars, wire_vars>>

ReaderTearDown ==
  /\ reader = "tear_down"
  /\ MarkClosed("ReaderFailed")
  /\ reader' = IF closed = None THEN "draining" ELSE "lock"
  /\ UNCHANGED <<pc, id, chan, result, got, counter_vars, consecutive_timeouts,
                 commands, taken, hand, frame, close_vars, wire_vars>>

ReaderTearDownDone ==
  /\ reader = "draining"
  /\ drain = "done"
  /\ reader' = "lock"
  /\ UNCHANGED <<pc, id, chan, result, got, counter_vars, consecutive_timeouts,
                 commands, tear_down_vars, hand, frame, close_vars, wire_vars>>

(* The task's last act: shut the write half down under its lock. *)
ReaderShutdown ==
  /\ reader = "lock"
  /\ WriterFree
  /\ shut' = TRUE
  /\ reader' = "stopped"
  /\ UNCHANGED <<pc, id, chan, result, got, counter_vars, consecutive_timeouts,
                 commands, tear_down_vars, hand, frame, close_vars, sent,
                 peer_gone, torn, garbled>>

PeerGone ==
  /\ "gone" \in PeerFaults
  /\ ~peer_gone
  /\ peer_gone' = TRUE
  /\ UNCHANGED <<pc, id, chan, result, got, counter_vars, consecutive_timeouts,
                 commands, tear_down_vars, reader_vars, close_vars, sent, shut,
                 torn, garbled>>

--------------------------------------------------------------------------------
(* Client::close, called once, or again after its future was dropped. *)

(* The snapshot of the subscribers; a torn-down connection has none left. *)
CloseBegin ==
  /\ closer \in {"idle", "dropped"}
  /\ \E handles \in SUBSET {r \in CloseRequests : pc[r] = "idle"} :
       /\ drain = "done" => handles = {}
       /\ to_delete' = handles
  /\ closer' = "deleting"
  /\ UNCHANGED <<pc, id, chan, result, got, counter_vars, consecutive_timeouts,
                 commands, tear_down_vars, reader_vars, wire_vars>>

CloseDeleted ==
  /\ closer = "deleting"
  /\ \A r \in to_delete : pc[r] = "done"
  /\ closer' = "lock"
  /\ UNCHANGED <<pc, id, chan, result, got, counter_vars, consecutive_timeouts,
                 commands, tear_down_vars, reader_vars, to_delete, wire_vars>>

(* Without a port to give back there is nothing to write before the shutdown. *)
CloseLock ==
  /\ closer = "lock"
  /\ WriterFree
  /\ closer' = IF SourcePortOpened THEN "write" ELSE "stop"
  /\ shut' = (shut \/ ~SourcePortOpened)
  /\ UNCHANGED <<pc, id, chan, result, got, counter_vars, consecutive_timeouts,
                 commands, tear_down_vars, reader_vars, to_delete, sent,
                 peer_gone, torn, garbled>>

(* The message to the router goes out without a timeout, its errors ignored. *)
CloseWrite ==
  /\ closer = "write"
  /\ garbled' = (garbled \/ (torn # "no" /\ ~shut))
  /\ shut' = TRUE
  /\ closer' = "stop"
  /\ UNCHANGED <<pc, id, chan, result, got, counter_vars, consecutive_timeouts,
                 commands, tear_down_vars, reader_vars, to_delete, sent,
                 peer_gone, torn>>

(* Mutant of CloseStop: close waits for the reader without abort(). *)
CloseAwaitsReader ==
  /\ closer = "stop"
  /\ reader \in {"stopped", "panicked"}
  /\ closer' = "tear_down"
  /\ UNCHANGED <<pc, id, chan, result, got, counter_vars, consecutive_timeouts,
                 commands, tear_down_vars, reader_vars, to_delete, wire_vars>>

(* abort() ends the reader at its next await, and close waits for that. *)
CloseStop ==
  /\ closer = "stop"
  /\ reader \in {"read", "lock", "stopped", "panicked"}
  /\ reader' = IF reader = "panicked" THEN reader ELSE "stopped"
  /\ closer' = "tear_down"
  /\ UNCHANGED <<pc, id, chan, result, got, counter_vars, consecutive_timeouts,
                 commands, tear_down_vars, hand, frame, to_delete, wire_vars>>

(* The application drops the future: perhaps half way through the message to    *)
(* the router, perhaps after abort(); then the reader stops and nobody tears    *)
(* the connection down.                                                         *)
CloseDropped ==
  /\ MayDrop
  /\ closer \in {"deleting", "lock", "write", "stop"}
  /\ \A r \in CloseRequests : pc[r] \in {"idle", "done"}
  /\ IF closer = "write" THEN MayTear("dropped") ELSE UNCHANGED torn
  /\ \/ UNCHANGED reader
     \/ closer = "stop" /\ reader \in {"read", "lock"} /\ reader' = "stopped"
  /\ closer' = "dropped"
  /\ UNCHANGED <<pc, id, chan, result, got, counter_vars, consecutive_timeouts,
                 commands, tear_down_vars, hand, frame, to_delete, sent, shut,
                 peer_gone, garbled>>

CloseTearDown ==
  /\ closer = "tear_down"
  /\ MarkClosed("Disconnected")
  /\ closer' = IF closed = None THEN "draining" ELSE "closed"
  /\ UNCHANGED <<pc, id, chan, result, got, counter_vars, consecutive_timeouts,
                 commands, taken, reader_vars, to_delete, wire_vars>>

CloseTearDownDone ==
  /\ closer = "draining"
  /\ drain = "done"
  /\ closer' = "closed"
  /\ UNCHANGED <<pc, id, chan, result, got, counter_vars, consecutive_timeouts,
                 commands, tear_down_vars, reader_vars, to_delete, wire_vars>>

--------------------------------------------------------------------------------

(* What a call does by itself once it has begun. *)
CallStep(r) ==
  \/ Register(r) \/ RegisterRefused(r) \/ LockWriter(r)
  \/ ReplyTimesOut(r) \/ ReceiveReply(r) \/ ReceiveError(r)
  \/ TearDown(r) \/ TearDownDone(r) \/ Return(r)

DrainStep == DrainTake \/ (\E r \in Calls : DrainSend(r)) \/ DrainEnd

ReaderStep == Deliver \/ ReaderTearDown \/ ReaderTearDownDone \/ ReaderShutdown

CloseStep ==
  \/ CloseDeleted \/ CloseLock \/ CloseStop
  \/ CloseTearDown \/ CloseTearDownDone

(* What depends on the peer and on its TCP window. *)
PeerStep ==
  \/ \E o \in Calls : ReaderReply(o)
  \/ ReaderFails \/ ReaderPanics \/ PeerGone

(* Everything has come to rest. *)
Terminated ==
  /\ \A r \in Requests : pc[r] = "done"
  /\ closer \in {"closed", "dropped"}
  /\ UNCHANGED vars

Next ==
  \/ \E r \in Calls : \/ Dispatch(r) \/ DispatchOverflow(r) \/ CallStep(r)
                      \/ WriteOk(r) \/ WriteErr(r) \/ Cancel(r)
  \/ DrainStep \/ ReaderStep \/ CloseStep \/ PeerStep
  \/ CloseBegin \/ CloseWrite \/ CloseDropped
  \/ Terminated

Spec == Init /\ [][Next]_vars

(* The runtime keeps polling what can make progress.  Nothing is promised of    *)
(* the application (whether it calls, cancels or closes) nor of the peer: its   *)
(* replies, its end of file, and the room in its receive window that a write    *)
(* without a timeout needs.  A write on a connection that is shut down or gone  *)
(* fails by itself; tokio's mutex is given to those who queue for it in turn.   *)
Fairness ==
  /\ \A r \in Calls : WF_vars(CallStep(r)) /\ WF_vars(WriteErr(r))
  /\ \A r \in CloseRequests : WF_vars(Dispatch(r))
  /\ \A r \in Requests : SF_vars(LockWriter(r))
  /\ WF_vars(DrainStep) /\ WF_vars(ReaderStep) /\ WF_vars(CloseStep)
  /\ WF_vars(peer_gone /\ ReaderFails) /\ WF_vars((shut \/ peer_gone) /\ CloseWrite)

(* The peer's TCP takes what is written to it, whatever the device does then.   *)
PeerTakesBytes == (\A r \in Calls : WF_vars(WriteOk(r))) /\ WF_vars(CloseWrite)

FairSpec == Spec /\ Fairness

FairSpecPeerTakesBytes == FairSpec /\ PeerTakesBytes

--------------------------------------------------------------------------------
(* Properties. *)

Waiting(r) == pc[r] \in {"lock", "write", "wait"}

TypeOK ==
  /\ pc \in [Calls -> {"idle", "register", "lock", "write", "wait", "tear_down",
                       "draining", "return", "done"}]
  /\ id \in [Calls -> Ids]
  /\ chan \in [Calls -> {"none", "open", "reply", "error", "dropped"}]
  /\ result \in [Calls -> Outcomes]
  /\ got \in [Calls -> Calls \cup {None}]
  /\ invoke_id \in Ids
  /\ wrapped \in BOOLEAN
  /\ consecutive_timeouts \in Nat
  /\ commands \in [Ids -> Calls \cup {None}]
  /\ closed \in Reasons \cup {None}
  /\ drain \in {"idle", "take", "send", "done"}
  /\ taken \subseteq Calls
  /\ reader \in {"read", "deliver", "tear_down", "draining", "lock", "stopped",
                 "panicked"}
  /\ hand \in Calls \cup {None}
  /\ frame \in Calls \cup {None}
  /\ closer \in {"idle", "deleting", "lock", "write", "stop", "tear_down",
                 "draining", "closed", "dropped"}
  /\ to_delete \subseteq CloseRequests
  /\ sent \subseteq Calls
  /\ {shut, peer_gone, garbled} \subseteq BOOLEAN
  /\ torn \in {"no", "failed", "dropped"}

(* A call that waits on an open channel can still be woken: its sender is in    *)
(* the table at its id, in the batch of a tear-down or in the reader's hand.    *)
(* No step loses a sender without waking its receiver (client.rs:741, 776-779,  *)
(* 797-804, 937-947).                                                           *)
NoStrandedCaller ==
  \A r \in Calls : Waiting(r) /\ chan[r] = "open" =>
    commands[id[r]] = r \/ r \in taken \/ hand = r

(* Once a tear-down is over, nobody is left waiting for it, however late the    *)
(* call registered: register checks `closed` under the lock that the drain      *)
(* takes after setting it (client.rs:736-742, 762-779).                         *)
NoWaitAfterEnd ==
  drain = "done" => \A r \in Calls : Waiting(r) /\ chan[r] = "open" => hand = r

(* Until the u32 wraps, a call is only ever given the reply to its own request, *)
(* whatever is late, repeated, cancelled or timed out (client.rs:110, 937-950). *)
OwnReply ==
  wrapped \/ \A r \in Calls : got[r] \in {None, r}

(* Until the u32 wraps, "response channel was closed" (client.rs:525-530) is    *)
(* unreachable: a call that fails learns why the connection ended.              *)
FailuresHaveReasons ==
  wrapped \/ \A r \in Calls : result[r] # "IoSync"

(* MAX_CONSECUTIVE_TIMEOUTS unanswered requests end the connection; the count   *)
(* cannot pass the limit and leave it open (client.rs:511-514).                 *)
TimeoutsEndConnection ==
  consecutive_timeouts >= MaxConsecutiveTimeouts =>
    closed # None \/ \E r \in Calls : pc[r] = "tear_down"

(* A write that fails after part of a frame ends the connection, whatever other *)
(* calls and close() have been dropped meanwhile (client.rs:498-501).           *)
CutFrameEndsConnection ==
  torn = "failed" => closed # None \/ \E r \in Calls : pc[r] = "tear_down"

(* The reason of the first failure is the connection's (client.rs:763-769), and *)
(* a call keeps the outcome it had when it went to tear_down.                   *)
FirstReasonWins ==
  [][/\ closed # None => closed' = closed
     /\ \A r \in Calls : pc[r] \in {"tear_down", "draining"} => result'[r] = result[r]]_vars

(* close() is in its write to the router, which has no timeout, and the peer    *)
(* neither reads nor goes (client.rs:690-697).                                  *)
CloseHangs == closer = "write" /\ ~shut /\ ~peer_gone

(* With both timeouts set, every call that begins returns, whatever the peer    *)
(* does, unless it queues for the writer for ever because close() hangs with it *)
(* (client.rs:485-535, 690-697).                                                *)
EveryCallReturns ==
  \A r \in Requests :
    (pc[r] # "idle" ~> pc[r] = "done") \/ <>[](CloseHangs /\ pc[r] = "lock")

(* Without a read timeout a call may wait for ever, but not past the end of the *)
(* connection (client.rs:776-782).                                              *)
EndWakesCallers == \A r \in Requests : closed # None /\ pc[r] # "idle" ~> pc[r] = "done"

(* With both timeouts set, close() comes back, unless it is dropped: nothing    *)
(* but its own message to the router can keep it, neither the calls that hold   *)
(* the writer nor the reader nor another tear-down (client.rs:677-707).         *)
CloseReturns ==
  (closer = "deleting" ~> closer \in {"closed", "dropped"}) \/ <>[]CloseHangs

(* The connection is what AdsPromise says, with everything the callers cannot   *)
(* see hidden (client.rs:440-541, 732-788).                                     *)
StageOf(label) ==
  CASE label = "idle" -> "idle"
    [] label = "register" -> "called"
    [] label = "done" -> "returned"
    [] OTHER -> "accepted"
Stage == [r \in Calls |-> StageOf(pc[r])]
Outcome == [r \in Calls |-> IF pc[r] = "done" THEN result[r] ELSE "none"]

Abstract == INSTANCE AdsPromise WITH stage <- Stage, outcome <- Outcome, ended <- closed

KeepsPromise == Abstract!Promise

(* tests/connection_loss.rs:59, "a_cancelled_request_does_not_lose_the_         *)
(* connection": while the connection is open, what a call has written in full   *)
(* is something the peer can read.  A caller that drops its future inside       *)
(* write_all breaks it (client.rs:486-497).                                     *)
OpenConnectionIsFramed == garbled => closed # None

(* tests/connection_loss.rs:155, "a_reader_killed_by_a_bad_frame_closes_the_    *)
(* connection": a dead reader means a connection that is over                   *)
(* (client.rs:824-830; 953 panics the task before tear_down).                   *)
DeadReaderEndsConnection == reader \in {"stopped", "panicked"} ~> closed # None

--------------------------------------------------------------------------------
(* The inductive invariant behind the safety properties. *)

(* A sender is in one place, and its channel is open as long as it exists.      *)
SendersInOnePlace ==
  /\ \A i \in Ids : commands[i] # None =>
       /\ id[commands[i]] = i
       /\ chan[commands[i]] = "open"
       /\ pc[commands[i]] \in {"lock", "write", "wait", "tear_down", "draining", "return"}
       /\ commands[i] \notin taken
       /\ commands[i] # hand
  /\ \A r \in taken : chan[r] = "open"
  /\ hand # None => hand \notin taken /\ chan[hand] = "open"
  /\ reader = "deliver" <=> hand # None
  /\ hand = None <=> frame = None
  /\ \A r \in Calls : pc[r] \in {"idle", "register"} => chan[r] = "none"

(* How far a tear-down has got says what is left in the table.                  *)
DrainMeans ==
  /\ closed = None <=> drain = "idle"
  /\ drain \in {"send", "done"} => \A i \in Ids : commands[i] = None
  /\ drain # "send" => taken = {}
  /\ \A r \in Calls : chan[r] = "error" => closed # None

(* A call that is about to return, or to tear the connection down first, has an *)
(* outcome it can account for.                                                  *)
OutcomesFit ==
  /\ \A r \in Calls : pc[r] \in {"tear_down", "draining"} =>
        result[r] \in {"WriteFailed", "TimedOut"}
  /\ \A r \in Calls : pc[r] \in {"draining", "return"} /\ result[r] = "WriteFailed" =>
        closed # None
  /\ \A r \in Calls : pc[r] = "return" =>
        result[r] \in {"Answered", "TimedOut", "Cancelled", "IoSync", "WriteFailed", closed}

(* Before the wrap the ids given out are below the next one and all different,  *)
(* so nobody displaces or takes the sender of another call.                     *)
IdsAreFresh ==
  /\ \A r \in sent : pc[r] \notin {"idle", "register"}
  /\ wrapped \/
       /\ \A r \in Calls : pc[r] # "idle" => id[r] < invoke_id
       /\ \A r, q \in Calls : pc[r] # "idle" /\ pc[q] # "idle" /\ id[r] = id[q] => r = q
       /\ \A r \in Calls : chan[r] = "dropped" => pc[r] = "done"
       /\ frame = hand

IInv ==
  /\ TypeOK /\ SendersInOnePlace /\ DrainMeans /\ OutcomesFit /\ IdsAreFresh
  /\ NoStrandedCaller /\ OwnReply /\ FailuresHaveReasons
  /\ TimeoutsEndConnection /\ CutFrameEndsConnection

================================================================================

---------------------------- MODULE AdsNotifications ----------------------------
(***************************************************************************)
(* Notifications over one connection (core/client.rs): add_notification,   *)
(* the reader's distribution of samples to bounded channels, the deletion  *)
(* of subscriptions by the application, by the reader and by close(), and  *)
(* the clearing of Shared.subscribers when the connection ends.            *)
(*                                                                         *)
(* Requests and replies are those of AdsClient, reduced to: sent, answered *)
(* or failed.  Frames from the PLC keep their order, as they do on TCP; a  *)
(* notification frame carries one sample.                                  *)
(***************************************************************************)
EXTENDS Naturals, Sequences, FiniteSets

CONSTANTS
  Subscriptions,   \* calls of add_notification
  Deleters,        \* the tasks that call delete_notification, with bound
  Closer,          \* the one deleter that is close() itself
  Handles,         \* notification handles of the PLC, numbers
  FreshHandles,    \* whether the PLC never gives a handle out twice
  QueueCapacity,   \* mpsc::channel(32)
  MaxSamples,      \* bound: samples of one subscription are numbered up to it
  MaxStream,       \* bound: the PLC adds and samples while fewer frames are under way
  None

ASSUME NotificationConstants ==
  /\ Closer \in Deleters
  /\ Handles \subseteq Nat
  /\ FreshHandles \in BOOLEAN
  /\ {QueueCapacity, MaxSamples, MaxStream} \subseteq Nat \ {0}
  /\ None \notin Subscriptions \cup Handles \cup Deleters

VARIABLES
  pc,            \* where each add_notification is; "live" once it returned Ok
  handle,        \* the handle in its reply
  dropped,       \* subscriptions whose Receiver the application has dropped
  disowned,      \* history: subscriptions somebody has asked to delete
  subscribers,   \* Shared.subscribers: whose sender is kept for each handle
  queue,         \* the samples in the channel of each subscription
  last,          \* the number of the last sample the application received
  stage,         \* where each delete_notification is
  target,        \* the handle it deletes
  late,          \* handles in requests the PLC has yet to see and nobody awaits
  closer,        \* where close() is
  to_delete,     \* the handles close() has still to delete
  found,         \* history: the subscriptions close() found
  given_up,      \* history: handles whose deletion by close() failed
  drain,         \* "idle", then "marked" (closed is set), then "done"
  reading,       \* the reader task runs
  plc,           \* the subscription behind each handle of the PLC
  issued,        \* the handles the PLC has given out
  sampled,       \* how many samples the PLC has taken for each subscription
  stream         \* frames on their way to the client

sub_vars == <<pc, handle, dropped, disowned>>
channel_vars == <<subscribers, queue, last>>
delete_vars == <<stage, target>>
close_vars == <<to_delete, found, given_up>>
end_vars == <<closer, close_vars, drain, reading>>
plc_vars == <<plc, issued, sampled, late>>
vars == <<sub_vars, channel_vars, delete_vars, end_vars, plc_vars, stream>>

Init ==
  /\ pc = [s \in Subscriptions |-> "idle"]
  /\ handle = [s \in Subscriptions |-> None]
  /\ dropped = {} /\ disowned = {}
  /\ subscribers = [h \in Handles |-> None]
  /\ queue = [s \in Subscriptions |-> <<>>]
  /\ last = [s \in Subscriptions |-> 0]
  /\ stage = [d \in Deleters |-> "free"]
  /\ target = [d \in Deleters |-> None]
  /\ closer = "idle"
  /\ to_delete = {} /\ found = {} /\ given_up = {}
  /\ drain = "idle"
  /\ reading = TRUE
  /\ plc = [h \in Handles |-> None]
  /\ issued = {}
  /\ sampled = [s \in Subscriptions |-> 0]
  /\ late = {}
  /\ stream = <<>>

Closed == drain # "idle"

--------------------------------------------------------------------------------
(* Client::add_notification. *)

Add(s) ==
  /\ pc[s] = "idle"
  /\ pc' = [pc EXCEPT ![s] = IF Closed THEN "failed" ELSE "requested"]
  /\ UNCHANGED <<handle, dropped, disowned, channel_vars, delete_vars, end_vars,
                 plc_vars, stream>>

(* The request fails with the connection, or its caller gives up.               *)
AddFails(s) ==
  /\ pc[s] \in {"requested", "processed"}
  /\ pc' = [pc EXCEPT ![s] = "failed"]
  /\ UNCHANGED <<handle, dropped, disowned, channel_vars, delete_vars, end_vars,
                 plc_vars, stream>>

(* Mutant of Subscribe: no look at `closed`. *)
SubscribeUnchecked(s) ==
  /\ pc[s] = "replied"
  /\ pc' = [pc EXCEPT ![s] = "live"]
  /\ subscribers' = [subscribers EXCEPT ![handle[s]] = s]
  /\ UNCHANGED <<handle, dropped, disowned, queue, last, delete_vars, end_vars,
                 plc_vars, stream>>

(* Shared::subscribe, the check and the insertion under the lock of             *)
(* subscribers; a sender already at this handle is dropped.                     *)
Subscribe(s) ==
  /\ pc[s] = "replied"
  /\ IF Closed
     THEN /\ pc' = [pc EXCEPT ![s] = "failed"]
          /\ UNCHANGED subscribers
     ELSE /\ pc' = [pc EXCEPT ![s] = "live"]
          /\ subscribers' = [subscribers EXCEPT ![handle[s]] = s]
  /\ UNCHANGED <<handle, dropped, disowned, queue, last, delete_vars, end_vars,
                 plc_vars, stream>>

(* The application takes a sample, or drops its Receiver. *)
Receive(s) ==
  /\ pc[s] = "live" /\ s \notin dropped
  /\ queue[s] # <<>>
  /\ last' = [last EXCEPT ![s] = Head(queue[s])]
  /\ queue' = [queue EXCEPT ![s] = Tail(queue[s])]
  /\ UNCHANGED <<sub_vars, subscribers, delete_vars, end_vars, plc_vars, stream>>

DropReceiver(s) ==
  /\ pc[s] = "live" /\ s \notin dropped
  /\ dropped' = dropped \cup {s}
  /\ queue' = [queue EXCEPT ![s] = <<>>]
  /\ UNCHANGED <<pc, handle, disowned, subscribers, last, delete_vars, end_vars,
                 plc_vars, stream>>

--------------------------------------------------------------------------------
(* Client::delete_notification. *)

Ask(d, h) ==
  /\ stage[d] = "free"
  /\ stage' = [stage EXCEPT ![d] = "send"]
  /\ target' = [target EXCEPT ![d] = h]

(* The application deletes its own subscription. *)
Unsubscribe(s) ==
  /\ pc[s] = "live" /\ s \notin disowned
  /\ \E d \in Deleters \ {Closer} : Ask(d, handle[s])
  /\ disowned' = disowned \cup {s}
  /\ UNCHANGED <<pc, handle, dropped, channel_vars, end_vars, plc_vars, stream>>

(* close() drops the error and goes on; this remembers it. *)
CloseGivesUp(d) ==
  given_up' = IF d = Closer THEN given_up \cup {target[d]} ELSE given_up

(* A reply whose request is over finds nobody in Shared.commands. *)
Orphaned(d) ==
  [i \in 1 .. Len(stream) |->
     IF stream[i].kind = "deleted" /\ stream[i].by = d
     THEN [kind |-> "deleted", by |-> None, ok |-> stream[i].ok] ELSE stream[i]]

DeleteSend(d) ==
  /\ stage[d] = "send"
  /\ ~Closed
  /\ stage' = [stage EXCEPT ![d] = "sent"]
  /\ UNCHANGED <<sub_vars, channel_vars, target, end_vars, plc_vars, stream>>

DeleteRefused(d) ==
  /\ stage[d] = "send"
  /\ Closed
  /\ stage' = [stage EXCEPT ![d] = "free"]
  /\ CloseGivesUp(d)
  /\ UNCHANGED <<sub_vars, channel_vars, target, closer, to_delete, found, drain,
                 reading, plc_vars, stream>>

(* The request fails: with the connection, by its timeout, or because its reply *)
(* is rejected.  The PLC may never see it, may still see it, or has deleted.    *)
DeleteFails(d) ==
  /\ stage[d] \in {"sent", "answering"}
  /\ late' = IF stage[d] = "sent" THEN late \cup {target[d]} ELSE late
  /\ stage' = [stage EXCEPT ![d] = "free"]
  /\ stream' = Orphaned(d)
  /\ CloseGivesUp(d)
  /\ UNCHANGED <<sub_vars, channel_vars, target, closer, to_delete, found, drain,
                 reading, plc, issued, sampled>>

(* The reply was good: the sender goes too. *)
DeleteRemove(d) ==
  /\ stage[d] = "remove"
  /\ subscribers' = [subscribers EXCEPT ![target[d]] = None]
  /\ stage' = [stage EXCEPT ![d] = "free"]
  /\ UNCHANGED <<sub_vars, queue, last, target, end_vars, plc_vars, stream>>

--------------------------------------------------------------------------------
(* The PLC. *)

PlcAdds(s) ==
  /\ pc[s] = "requested"
  /\ Len(stream) < MaxStream
  /\ \E h \in Handles :
       /\ plc[h] = None
       /\ FreshHandles => h \notin issued
       /\ plc' = [plc EXCEPT ![h] = s]
       /\ issued' = issued \cup {h}
       /\ stream' = Append(stream, [kind |-> "added", sub |-> s, handle |-> h])
  /\ pc' = [pc EXCEPT ![s] = "processed"]
  /\ UNCHANGED <<handle, dropped, disowned, channel_vars, delete_vars, end_vars,
                 sampled, late>>

(* Beyond the bound the samples go on under the last number. *)
PlcSamples(h) ==
  /\ plc[h] # None
  /\ Len(stream) < MaxStream
  /\ LET s == plc[h]
         n == IF sampled[s] = MaxSamples THEN MaxSamples ELSE sampled[s] + 1 IN
       /\ sampled' = [sampled EXCEPT ![s] = n]
       /\ stream' = Append(stream, [kind |-> "sample", handle |-> h, number |-> n])
  /\ UNCHANGED <<sub_vars, channel_vars, delete_vars, end_vars, plc, issued, late>>

(* A handle the PLC does not know is an error. *)
PlcDeletes(d) ==
  /\ stage[d] = "sent"
  /\ plc' = [plc EXCEPT ![target[d]] = None]
  /\ stage' = [stage EXCEPT ![d] = "answering"]
  /\ stream' = Append(stream, [kind |-> "deleted", by |-> d, ok |-> plc[target[d]] # None])
  /\ UNCHANGED <<sub_vars, channel_vars, target, end_vars, issued, sampled, late>>

(* Its reply, which nobody awaits, is left out. *)
PlcDeletesLate(h) ==
  /\ h \in late
  /\ plc' = [plc EXCEPT ![h] = None]
  /\ late' = late \ {h}
  /\ UNCHANGED <<sub_vars, channel_vars, delete_vars, end_vars, issued, sampled,
                 stream>>

--------------------------------------------------------------------------------
(* The reader. *)

Frame(kind) == reading /\ stream # <<>> /\ Head(stream).kind = kind

ReadAdded ==
  /\ Frame("added")
  /\ LET f == Head(stream) IN
       IF pc[f.sub] = "processed"
       THEN /\ pc' = [pc EXCEPT ![f.sub] = "replied"]
            /\ handle' = [handle EXCEPT ![f.sub] = f.handle]
       ELSE UNCHANGED <<pc, handle>>
  /\ stream' = Tail(stream)
  /\ UNCHANGED <<dropped, disowned, channel_vars, delete_vars, end_vars, plc_vars>>

ReadDeleted ==
  /\ Frame("deleted")
  /\ LET f == Head(stream) IN
       stage' = IF f.by # None /\ stage[f.by] = "answering"
                THEN [stage EXCEPT ![f.by] = IF f.ok THEN "remove" ELSE "free"]
                ELSE stage
  /\ stream' = Tail(stream)
  /\ UNCHANGED <<sub_vars, channel_vars, target, end_vars, plc_vars>>

(* Mutant of SpawnDelete: it is not asked again once somebody has asked. *)
SpawnDeleteOnce(h) ==
  IF subscribers[h] \in disowned \/ \A d \in Deleters \ {Closer} : stage[d] # "free"
  THEN UNCHANGED <<disowned, delete_vars>>
  ELSE /\ \E d \in Deleters \ {Closer} : Ask(d, h)
       /\ disowned' = disowned \cup {subscribers[h]}

(* Reading a dropped Receiver's sample spawns a deletion, each time; with all   *)
(* deleters at work (the bound) it is left to a later sample.                   *)
SpawnDelete(h) ==
  IF \A d \in Deleters \ {Closer} : stage[d] # "free"
  THEN UNCHANGED <<disowned, delete_vars>>
  ELSE /\ \E d \in Deleters \ {Closer} : Ask(d, h)
       /\ disowned' = disowned \cup {subscribers[h]}

(* Mutant of ReadSample: the channel has no bound. *)
ReadSampleUnbounded ==
  /\ Frame("sample")
  /\ stream' = Tail(stream)
  /\ LET f == Head(stream)
         s == subscribers[f.handle] IN
       queue' = IF s = None \/ s \in dropped THEN queue
                ELSE [queue EXCEPT ![s] = Append(queue[s], f.number)]
  /\ UNCHANGED <<sub_vars, subscribers, last, delete_vars, end_vars, plc_vars>>

(* Mutant of ReadSample: a full channel is taken for a closed one. *)
ReadSampleFullIsClosed ==
  /\ Frame("sample")
  /\ stream' = Tail(stream)
  /\ LET f == Head(stream)
         s == subscribers[f.handle] IN
       IF s # None /\ (s \in dropped \/ Len(queue[s]) = QueueCapacity)
       THEN (\E d \in Deleters \ {Closer} : Ask(d, f.handle)) /\ UNCHANGED queue
       ELSE /\ queue' = IF s = None THEN queue
                        ELSE [queue EXCEPT ![s] = Append(queue[s], f.number)]
            /\ UNCHANGED delete_vars
  /\ UNCHANGED <<sub_vars, subscribers, last, end_vars, plc_vars>>

(* Mutant of ReadSample: what finds the channel full is tried again later. *)
ReadSampleRetries ==
  /\ Frame("sample")
  /\ LET f == Head(stream)
         s == subscribers[f.handle]
         full == s # None /\ Len(queue[s]) = QueueCapacity IN
       /\ stream' = IF full THEN Append(Tail(stream), f) ELSE Tail(stream)
       /\ queue' = IF full \/ s = None \/ s \in dropped THEN queue
                   ELSE [queue EXCEPT ![s] = Append(queue[s], f.number)]
  /\ UNCHANGED <<sub_vars, subscribers, last, delete_vars, end_vars, plc_vars>>

ReadSample ==
  /\ Frame("sample")
  /\ stream' = Tail(stream)
  /\ UNCHANGED <<pc, handle, dropped, subscribers, last, end_vars, plc_vars>>
  /\ LET f == Head(stream)
         s == subscribers[f.handle] IN
       CASE s = None -> UNCHANGED <<queue, disowned, delete_vars>>
         [] s \in dropped -> SpawnDelete(f.handle) /\ UNCHANGED queue
         [] OTHER ->     \* try_send; the sample is lost when the channel is full
              /\ queue' = IF Len(queue[s]) < QueueCapacity
                          THEN [queue EXCEPT ![s] = Append(queue[s], f.number)] ELSE queue
              /\ UNCHANGED <<disowned, delete_vars>>

--------------------------------------------------------------------------------
(* The end: Client::close, or a failure that tears the connection down. *)

CloseBegin ==
  /\ closer = "idle"
  /\ to_delete' = {h \in Handles : subscribers[h] # None}
  /\ closer' = "deleting"
  /\ found' = {subscribers[h] : h \in to_delete'}
  /\ disowned' = disowned \cup found'
  /\ UNCHANGED <<pc, handle, dropped, channel_vars, delete_vars, given_up, drain,
                 reading, plc_vars, stream>>

(* Mutant of CloseDeletes: the first deletion that fails is the last. *)
CloseDeletesUntilError ==
  /\ closer = "deleting"
  /\ IF given_up = {}
     THEN \E h \in to_delete : /\ \A k \in to_delete : h <= k
                              /\ Ask(Closer, h)
                              /\ to_delete' = to_delete \ {h}
     ELSE to_delete' = {} /\ UNCHANGED delete_vars
  /\ UNCHANGED <<sub_vars, channel_vars, closer, found, given_up, drain, reading,
                 plc_vars, stream>>

(* One after the other, in the order of the map, whatever becomes of it. *)
CloseDeletes ==
  /\ closer = "deleting"
  /\ \E h \in to_delete :
       /\ \A k \in to_delete : h <= k
       /\ Ask(Closer, h)
       /\ to_delete' = to_delete \ {h}
  /\ UNCHANGED <<sub_vars, channel_vars, closer, found, given_up, drain, reading,
                 plc_vars, stream>>

CloseStops ==
  /\ closer = "deleting"
  /\ to_delete = {} /\ stage[Closer] = "free"
  /\ reading' = FALSE
  /\ closer' = "stopped"
  /\ UNCHANGED <<sub_vars, channel_vars, delete_vars, close_vars, drain, plc_vars,
                 stream>>

(* tear_down by close is the last thing it does. *)
CloseTearsDown ==
  /\ closer = "stopped"
  /\ drain' = IF Closed THEN drain ELSE "marked"
  /\ closer' = "closed"
  /\ UNCHANGED <<sub_vars, channel_vars, delete_vars, close_vars, reading,
                 plc_vars, stream>>

(* Anybody else's tear_down: the flag first. *)
ConnectionFails ==
  /\ ~Closed
  /\ drain' = "marked"
  /\ UNCHANGED <<sub_vars, channel_vars, delete_vars, closer, close_vars, reading,
                 plc_vars, stream>>

(* subscribers.clear() under the lock: every sender is dropped. *)
ClearSubscribers ==
  /\ drain = "marked"
  /\ subscribers' = [h \in Handles |-> None]
  /\ drain' = "done"
  /\ UNCHANGED <<sub_vars, queue, last, delete_vars, closer, close_vars, reading,
                 plc_vars, stream>>

ReaderEnds ==
  /\ Closed /\ reading
  /\ reading' = FALSE
  /\ UNCHANGED <<sub_vars, channel_vars, delete_vars, closer, close_vars, drain,
                 plc_vars, stream>>

Finished ==
  /\ closer = "closed" /\ drain = "done"
  /\ \A s \in Subscriptions : pc[s] \in {"live", "failed"}
  /\ UNCHANGED vars

PlcStep ==
  \/ \E s \in Subscriptions : PlcAdds(s)
  \/ \E h \in Handles : PlcSamples(h)
  \/ \E d \in Deleters : PlcDeletes(d)
  \/ \E h \in Handles : PlcDeletesLate(h)

ReaderStep == ReadAdded \/ ReadDeleted \/ ReadSample

DeleterStep(d) ==
  DeleteSend(d) \/ DeleteRefused(d) \/ DeleteFails(d) \/ DeleteRemove(d)

CloseStep == CloseDeletes \/ CloseStops \/ CloseTearsDown

Next ==
  \/ \E s \in Subscriptions : \/ Add(s) \/ AddFails(s) \/ Subscribe(s)
                              \/ Receive(s) \/ DropReceiver(s) \/ Unsubscribe(s)
  \/ (\E d \in Deleters : DeleterStep(d))
  \/ PlcStep \/ ReaderStep
  \/ CloseBegin \/ CloseStep
  \/ ConnectionFails \/ ClearSubscribers \/ ReaderEnds
  \/ Finished

Spec == Init /\ [][Next]_vars

(* The client's tasks run, and the PLC goes on sampling.  Of deletions that are *)
(* asked again and again, as often as they may fail, it carries one out; no     *)
(* failure is fair.                                                             *)
FairSpec ==
  /\ Spec
  /\ \A d \in Deleters : /\ WF_vars(DeleteSend(d) \/ DeleteRefused(d) \/ DeleteRemove(d))
                        /\ SF_vars(PlcDeletes(d))
  /\ \A h \in Handles : WF_vars(PlcSamples(h))
  /\ WF_vars(ReaderStep) /\ WF_vars(CloseStep) /\ WF_vars(ClearSubscribers)

--------------------------------------------------------------------------------
(* Properties. *)

Frames ==
  [kind : {"added"}, sub : Subscriptions, handle : Handles]
    \cup [kind : {"sample"}, handle : Handles, number : 1 .. MaxSamples]
    \cup [kind : {"deleted"}, by : Deleters \cup {None}, ok : BOOLEAN]

TypeOK ==
  /\ pc \in [Subscriptions -> {"idle", "requested", "processed", "replied",
                               "live", "failed"}]
  /\ handle \in [Subscriptions -> Handles \cup {None}]
  /\ dropped \subseteq Subscriptions
  /\ disowned \subseteq Subscriptions
  /\ subscribers \in [Handles -> Subscriptions \cup {None}]
  /\ queue \in [Subscriptions -> Seq(1 .. MaxSamples)]
  /\ \A s \in Subscriptions : Len(queue[s]) <= QueueCapacity
  /\ last \in [Subscriptions -> 0 .. MaxSamples]
  /\ stage \in [Deleters -> {"free", "send", "sent", "answering", "remove"}]
  /\ target \in [Deleters -> Handles \cup {None}]
  /\ closer \in {"idle", "deleting", "stopped", "closed"}
  /\ to_delete \subseteq Handles
  /\ found \subseteq Subscriptions
  /\ given_up \subseteq Handles \cup {None}
  /\ drain \in {"idle", "marked", "done"}
  /\ reading \in BOOLEAN
  /\ plc \in [Handles -> Subscriptions \cup {None}]
  /\ issued \subseteq Handles
  /\ sampled \in [Subscriptions -> 0 .. MaxSamples]
  /\ late \subseteq Handles \cup {None}
  /\ stream \in Seq(Frames)

(* The end of the connection ends every subscription: no sender outlives the    *)
(* clearing, however late its add_notification subscribes                       *)
(* (client.rs:749-759, 762-787; tests/connection_loss.rs:86-91).                *)
EndReachesSubscribers ==
  drain = "done" => \A h \in Handles : subscribers[h] = None

(* A subscription that nobody deletes keeps its sender as long as the           *)
(* connection is open, whatever deletions of other handles are under way        *)
(* (client.rs:668-671, 990-997).                                                *)
LiveStaysSubscribed ==
  FreshHandles /\ ~Closed =>
    \A s \in Subscriptions :
      pc[s] = "live" /\ s \notin disowned => subscribers[handle[s]] = s

(* A subscriber sees its own samples in the order the PLC took them: a full     *)
(* channel loses samples and never reorders or repeats them (client.rs:971-983).*)
SamplesInOrder ==
  FreshHandles =>
    \A s \in Subscriptions :
      LET seen == <<last[s]>> \o queue[s] IN
        \A i \in 1 .. Len(seen) - 1 : seen[i] < seen[i + 1] \/ seen[i + 1] = MaxSamples

(* A dropped Receiver is noticed, again and again: as long as the PLC samples,  *)
(* the subscription is deleted there however often a deletion fails, or the     *)
(* connection ends (client.rs:984-997).                                         *)
DroppedIsDeleted ==
  \A s \in Subscriptions :
    pc[s] = "live" /\ s \in dropped ~> Closed \/ \A h \in Handles : plc[h] # s

(* close() goes through every subscription it found, whoever deletes or         *)
(* subscribes meanwhile and whatever fails: when it goes on to stop the reader, *)
(* what it found and has left at the PLC is what its own deletion failed for    *)
(* (client.rs:677-687).  One added later is not among what it found.            *)
CloseDeletesWhatItFound ==
  closer \in {"stopped", "closed"} =>
    \A h \in Handles : plc[h] \in found => h \in given_up

================================================================================

------------------------ MODULE AdsNotificationsProofs ------------------------
(***************************************************************************)
(* AdsNotifications for any subscriptions, deleters, handles and bounds.   *)
(***************************************************************************)
EXTENDS AdsNotifications, SequenceTheorems, TLAPS

--------------------------------------------------------------------------------
(* Types. *)

LEMMA InitTypes == Init => TypeOK
BY NotificationConstants DEF Init, TypeOK

(* A frame more on the stream, or one less. *)
LEMMA Streams ==
  ASSUME TypeOK
  PROVE  /\ Len(stream) \in Nat
         /\ \A f \in Frames :
              /\ Append(stream, f) \in Seq(Frames)
              /\ Len(Append(stream, f)) = Len(stream) + 1
              /\ Append(stream, f)[Len(stream) + 1] = f
              /\ \A i \in 1 .. Len(stream) : Append(stream, f)[i] = stream[i]
         /\ stream # <<>> =>
              /\ Head(stream) \in Frames /\ Head(stream) = stream[1]
              /\ Tail(stream) \in Seq(Frames)
              /\ Len(Tail(stream)) = Len(stream) - 1 /\ Len(stream) > 0
              /\ \A i \in 1 .. Len(stream) - 1 : Tail(stream)[i] = stream[i + 1]
<1>1. stream \in Seq(Frames)
  BY DEF TypeOK
<1> HIDE DEF Frames
<1>2. Len(stream) \in Nat
  BY <1>1
<1>3. ASSUME NEW f \in Frames
      PROVE  /\ Append(stream, f) \in Seq(Frames)
             /\ Len(Append(stream, f)) = Len(stream) + 1
             /\ Append(stream, f)[Len(stream) + 1] = f
             /\ \A i \in 1 .. Len(stream) : Append(stream, f)[i] = stream[i]
  BY <1>1, <1>3
<1>4. ASSUME stream # <<>>
      PROVE  /\ Head(stream) \in Frames /\ Head(stream) = stream[1]
             /\ Tail(stream) \in Seq(Frames)
             /\ Len(Tail(stream)) = Len(stream) - 1 /\ Len(stream) > 0
             /\ \A i \in 1 .. Len(stream) - 1 : Tail(stream)[i] = stream[i + 1]
  BY <1>1, <1>4, HeadTailProperties
<1> QED BY <1>1, <1>2, <1>3, <1>4

(* A reply nobody awaits is still a reply; no other frame changes.             *)
LEMMA Orphans ==
  ASSUME TypeOK, NEW d \in Deleters
  PROVE  /\ Orphaned(d) \in Seq(Frames) /\ Len(Orphaned(d)) = Len(stream)
         /\ \A i \in 1 .. Len(stream) :
              /\ Orphaned(d)[i].kind = stream[i].kind
              /\ stream[i].kind # "deleted" => Orphaned(d)[i] = stream[i]
<1>1. Len(stream) \in Nat /\ \A i \in 1 .. Len(stream) : stream[i] \in Frames
  BY DEF TypeOK
<1>2. \A i \in 1 .. Len(stream) :
        /\ Orphaned(d)[i] \in Frames /\ Orphaned(d)[i].kind = stream[i].kind
        /\ stream[i].kind # "deleted" => Orphaned(d)[i] = stream[i]
  BY <1>1 DEF Orphaned, Frames
<1>3. DOMAIN Orphaned(d) = 1 .. Len(stream) /\ Orphaned(d) = [i \in 1 .. Len(stream) |-> Orphaned(d)[i]]
  BY DEF Orphaned
<1> HIDE DEF Orphaned, Frames
<1>4. Orphaned(d) \in [1 .. Len(stream) -> Frames]
  BY <1>2, <1>3
<1>5. Orphaned(d) \in Seq(Frames) /\ Len(Orphaned(d)) = Len(stream)
  BY <1>1, <1>4
<1> QED BY <1>2, <1>5

(* The calls of the application. *)
LEMMA CallTypes ==
  ASSUME TypeOK, NEW s \in Subscriptions,
         Add(s) \/ AddFails(s) \/ Subscribe(s) \/ Receive(s) \/ DropReceiver(s) \/ Unsubscribe(s)
  PROVE  TypeOK'
<1>1. CASE Add(s)
  BY <1>1 DEF Add, TypeOK, channel_vars, delete_vars, end_vars, close_vars, plc_vars
<1>2. CASE AddFails(s)
  BY <1>2 DEF AddFails, TypeOK, channel_vars, delete_vars, end_vars, close_vars, plc_vars
<1>3. CASE Subscribe(s)
  BY <1>3 DEF Subscribe, TypeOK, delete_vars, end_vars, close_vars, plc_vars
<1>4. CASE Receive(s)
  <2>1. queue[s] \in Seq(1 .. MaxSamples) /\ queue[s] # <<>> /\ Len(queue[s]) <= QueueCapacity
    BY <1>4 DEF Receive, TypeOK
  <2>2. /\ Head(queue[s]) \in 1 .. MaxSamples /\ Tail(queue[s]) \in Seq(1 .. MaxSamples)
        /\ Len(Tail(queue[s])) = Len(queue[s]) - 1
    BY <2>1, HeadTailProperties
  <2>3. Len(Tail(queue[s])) <= QueueCapacity
    BY <2>1, <2>2, NotificationConstants
  <2>4. /\ queue' \in [Subscriptions -> Seq(1 .. MaxSamples)]
        /\ \A u \in Subscriptions : Len(queue'[u]) <= QueueCapacity
        /\ last' \in [Subscriptions -> 0 .. MaxSamples]
    BY <1>4, <2>2, <2>3, NotificationConstants DEF Receive, TypeOK
  <2> QED BY <1>4, <2>4 DEF Receive, TypeOK, sub_vars, delete_vars, end_vars, close_vars, plc_vars
<1>5. CASE DropReceiver(s)
  <2>1. /\ queue' \in [Subscriptions -> Seq(1 .. MaxSamples)]
        /\ \A u \in Subscriptions : Len(queue'[u]) <= QueueCapacity
    BY <1>5, NotificationConstants DEF DropReceiver, TypeOK
  <2> QED BY <1>5, <2>1 DEF DropReceiver, TypeOK, delete_vars, end_vars, close_vars, plc_vars
<1>6. CASE Unsubscribe(s)
  BY <1>6 DEF Unsubscribe, Ask, TypeOK, channel_vars, end_vars, close_vars, plc_vars
<1> QED BY <1>1, <1>2, <1>3, <1>4, <1>5, <1>6

LEMMA DeleterTypes == ASSUME TypeOK, NEW d \in Deleters, DeleterStep(d) PROVE TypeOK'
<1>1. CASE DeleteSend(d)
  BY <1>1 DEF DeleteSend, TypeOK, sub_vars, channel_vars, end_vars, close_vars, plc_vars
<1>2. CASE DeleteRefused(d)
  BY <1>2 DEF DeleteRefused, CloseGivesUp, TypeOK, sub_vars, channel_vars, plc_vars
<1>3. CASE DeleteFails(d)
  <2>1. stream' \in Seq(Frames)
    BY <1>3, Orphans DEF DeleteFails
  <2> QED BY <1>3, <2>1 DEF DeleteFails, CloseGivesUp, TypeOK, sub_vars, channel_vars
<1>4. CASE DeleteRemove(d)
  BY <1>4 DEF DeleteRemove, TypeOK, sub_vars, end_vars, close_vars, plc_vars
<1> QED BY <1>1, <1>2, <1>3, <1>4 DEF DeleterStep

LEMMA PlcTypes == ASSUME TypeOK, PlcStep PROVE TypeOK'
<1>1. ASSUME NEW s \in Subscriptions, PlcAdds(s) PROVE TypeOK'
  <2>1. PICK h \in Handles :
          /\ plc' = [plc EXCEPT ![h] = s] /\ issued' = issued \cup {h}
          /\ stream' = Append(stream, [kind |-> "added", sub |-> s, handle |-> h])
    BY <1>1 DEF PlcAdds
  <2>2. [kind |-> "added", sub |-> s, handle |-> h] \in Frames
    BY DEF Frames
  <2>3. stream' \in Seq(Frames)
    BY <1>1, <2>1, <2>2, Streams DEF PlcAdds
  <2> QED BY <1>1, <2>1, <2>3 DEF PlcAdds, TypeOK, channel_vars, delete_vars, end_vars, close_vars
<1>2. ASSUME NEW h \in Handles, PlcSamples(h) PROVE TypeOK'
  <2>1. PICK s, n :
          /\ s = plc[h] /\ n = IF sampled[s] = MaxSamples THEN MaxSamples ELSE sampled[s] + 1
          /\ sampled' = [sampled EXCEPT ![s] = n]
          /\ stream' = Append(stream, [kind |-> "sample", handle |-> h, number |-> n])
    BY <1>2 DEF PlcSamples
  <2>2. n \in 1 .. MaxSamples
    <3>1. s \in Subscriptions /\ sampled[s] \in 0 .. MaxSamples
      BY <1>2, <2>1 DEF PlcSamples, TypeOK
    <3> QED BY <2>1, <3>1, NotificationConstants
  <2>3. [kind |-> "sample", handle |-> h, number |-> n] \in Frames
    BY <2>2 DEF Frames
  <2>4. stream' \in Seq(Frames)
    BY <1>2, <2>1, <2>3, Streams DEF PlcSamples
  <2> QED BY <1>2, <2>1, <2>2, <2>4
          DEF PlcSamples, TypeOK, sub_vars, channel_vars, delete_vars, end_vars, close_vars
<1>3. ASSUME NEW d \in Deleters, PlcDeletes(d) PROVE TypeOK'
  <2> DEFINE f == [kind |-> "deleted", by |-> d, ok |-> plc[target[d]] # None]
  <2>1. f \in Frames
    BY DEF Frames
  <2>2. stream' \in Seq(Frames)
    BY <1>3, <2>1, Streams DEF PlcDeletes
  <2> QED BY <1>3, <2>2 DEF PlcDeletes, TypeOK, sub_vars, channel_vars, end_vars, close_vars
<1>4. ASSUME NEW h \in Handles, PlcDeletesLate(h) PROVE TypeOK'
  BY <1>4 DEF PlcDeletesLate, TypeOK, sub_vars, channel_vars, delete_vars, end_vars, close_vars
<1> QED BY <1>1, <1>2, <1>3, <1>4 DEF PlcStep

LEMMA ReaderTypes == ASSUME TypeOK, ReaderStep PROVE TypeOK'
<1>1. /\ stream # <<>> /\ Head(stream) \in Frames /\ stream' = Tail(stream)
      /\ stream' \in Seq(Frames)
  BY Streams DEF ReaderStep, ReadAdded, ReadDeleted, ReadSample, Frame
<1>2. CASE ReadAdded
  <2>1. Head(stream).sub \in Subscriptions /\ Head(stream).handle \in Handles
    BY <1>1, <1>2 DEF ReadAdded, Frame, Frames
  <2> QED BY <1>1, <1>2, <2>1 DEF ReadAdded, TypeOK, channel_vars, delete_vars, end_vars, close_vars, plc_vars
<1>3. CASE ReadDeleted
  BY <1>1, <1>3 DEF ReadDeleted, TypeOK, sub_vars, channel_vars, end_vars, close_vars, plc_vars
<1>4. CASE ReadSample
  <2> DEFINE h == Head(stream).handle
             n == Head(stream).number
             s == subscribers[h]
  <2>1. h \in Handles /\ n \in 1 .. MaxSamples
    BY <1>1, <1>4 DEF ReadSample, Frame, Frames
  <2>2. s = None \/ s \in Subscriptions
    BY <2>1 DEF TypeOK
  <2>3. /\ queue' \in [Subscriptions -> Seq(1 .. MaxSamples)]
        /\ \A u \in Subscriptions : Len(queue'[u]) <= QueueCapacity
    <3>1. CASE UNCHANGED queue
      BY <3>1 DEF TypeOK
    <3>2. CASE /\ s \in Subscriptions /\ Len(queue[s]) < QueueCapacity
               /\ queue' = [queue EXCEPT ![s] = Append(queue[s], n)]
      <4> HIDE DEF s, n
      <4>1. queue[s] \in Seq(1 .. MaxSamples)
        BY <3>2 DEF TypeOK
      <4>2. /\ Append(queue[s], n) \in Seq(1 .. MaxSamples)
            /\ Len(Append(queue[s], n)) <= QueueCapacity
        BY <2>1, <3>2, <4>1, NotificationConstants
      <4> QED BY <3>2, <4>2 DEF TypeOK
    <3> QED BY <1>4, <2>2, <3>1, <3>2 DEF ReadSample, SpawnDelete
  <2>4. disowned' \subseteq Subscriptions
    BY <1>4, <2>2 DEF ReadSample, SpawnDelete, TypeOK
  <2>5. \/ UNCHANGED delete_vars
        \/ \E d \in Deleters : Ask(d, h)
    BY <1>4 DEF ReadSample, SpawnDelete
  <2>6. /\ stage' \in [Deleters -> {"free", "send", "sent", "answering", "remove"}]
        /\ target' \in [Deleters -> Handles \cup {None}]
    BY <2>1, <2>5 DEF Ask, TypeOK, delete_vars
  <2> QED BY <1>1, <1>4, <2>3, <2>4, <2>6 DEF ReadSample, TypeOK, end_vars, close_vars, plc_vars
<1> QED BY <1>2, <1>3, <1>4 DEF ReaderStep

LEMMA EndTypes ==
  ASSUME TypeOK, CloseBegin \/ CloseStep \/ ConnectionFails \/ ClearSubscribers \/ ReaderEnds
  PROVE  TypeOK'
<1>1. CASE CloseBegin
  BY <1>1, NotificationConstants DEF CloseBegin, TypeOK, channel_vars, delete_vars, plc_vars
<1>2. CASE CloseDeletes
  BY <1>2, NotificationConstants DEF CloseDeletes, Ask, TypeOK, sub_vars, channel_vars, plc_vars
<1>3. CASE CloseStops
  BY <1>3 DEF CloseStops, TypeOK, close_vars, sub_vars, channel_vars, delete_vars, plc_vars
<1>4. CASE CloseTearsDown
  BY <1>4 DEF CloseTearsDown, TypeOK, close_vars, sub_vars, channel_vars, delete_vars, plc_vars
<1>5. CASE ConnectionFails
  BY <1>5 DEF ConnectionFails, TypeOK, close_vars, sub_vars, channel_vars, delete_vars, plc_vars
<1>6. CASE ClearSubscribers
  BY <1>6 DEF ClearSubscribers, TypeOK, close_vars, sub_vars, delete_vars, plc_vars
<1>7. CASE ReaderEnds
  BY <1>7 DEF ReaderEnds, TypeOK, close_vars, sub_vars, channel_vars, delete_vars, plc_vars
<1> QED BY <1>1, <1>2, <1>3, <1>4, <1>5, <1>6, <1>7 DEF CloseStep

LEMMA NextTypes == TypeOK /\ [Next]_vars => TypeOK'
<1> SUFFICES ASSUME TypeOK, [Next]_vars PROVE TypeOK'
  OBVIOUS
<1>1. CASE Finished \/ UNCHANGED vars
  BY <1>1 DEF Finished, vars, TypeOK, sub_vars, channel_vars, delete_vars, end_vars, close_vars, plc_vars
<1> QED BY <1>1, CallTypes, DeleterTypes, PlcTypes, ReaderTypes, EndTypes DEF Next

--------------------------------------------------------------------------------
(* Whose a handle is, when the PLC never gives one out twice.                   *)

AddedAt(i) == i \in 1 .. Len(stream) /\ stream[i].kind = "added"

(* A subscription learns of its handle once; no other has it.                   *)
OwnHandles ==
  /\ \A s \in Subscriptions :
       /\ handle[s] # None => handle[s] \in issued /\ pc[s] \in {"replied", "live", "failed"}
       /\ pc[s] \in {"replied", "live"} => handle[s] # None
  /\ \A s, u \in Subscriptions : handle[s] # None /\ handle[s] = handle[u] => s = u

(* A handle on its way to a subscription is nobody else's.                      *)
HandlesOnTheWay ==
  \A i \in 1 .. Len(stream) : AddedAt(i) =>
    /\ stream[i].handle \in issued
    /\ plc[stream[i].handle] \in {stream[i].sub, None}
    /\ pc[stream[i].sub] \notin {"idle", "requested"}
    /\ \A s \in Subscriptions : handle[s] # stream[i].handle
    /\ \A j \in 1 .. Len(stream) : AddedAt(j) /\ j # i => stream[j].handle # stream[i].handle

(* The handle the PLC samples for is the one the subscription will know.        *)
HandlesOfPlc ==
  \A h \in Handles : plc[h] # None =>
    /\ h \in issued
    /\ pc[plc[h]] \notin {"idle", "requested"}
    /\ handle[plc[h]] \in {h, None}
    /\ \A s \in Subscriptions : handle[s] = h => s = plc[h]
    /\ \A i \in 1 .. Len(stream) : AddedAt(i) /\ stream[i].sub = plc[h] => stream[i].handle = h

HInv == OwnHandles /\ HandlesOnTheWay /\ HandlesOfPlc

(* What all of this reads of the state. *)
handle_vars == <<pc, handle, stream, issued, plc>>

LEMMA HandlesStay == ASSUME HInv, UNCHANGED handle_vars PROVE HInv'
BY DEF HInv, OwnHandles, HandlesOnTheWay, HandlesOfPlc, AddedAt, handle_vars

(* add_notification goes on. *)
LEMMA CallHandles ==
  ASSUME TypeOK, HInv, NEW s \in Subscriptions, Add(s) \/ AddFails(s) \/ Subscribe(s)
  PROVE  HInv'
<1>1. PICK label : /\ pc' = [pc EXCEPT ![s] = label]
                   /\ \/ pc[s] = "idle" /\ label \in {"failed", "requested"}
                      \/ pc[s] \in {"requested", "processed"} /\ label = "failed"
                      \/ pc[s] = "replied" /\ label \in {"live", "failed"}
  BY DEF Add, AddFails, Subscribe
<1>2. UNCHANGED <<handle, stream, issued, plc>>
  BY DEF Add, AddFails, Subscribe, plc_vars
<1>3. OwnHandles'
  BY <1>1, <1>2 DEF HInv, OwnHandles, TypeOK
<1>4. HandlesOnTheWay'
  BY <1>1, <1>2 DEF HInv, HandlesOnTheWay, AddedAt, TypeOK
<1>5. HandlesOfPlc'
  BY <1>1, <1>2 DEF HInv, HandlesOfPlc, AddedAt, TypeOK
<1> QED BY <1>3, <1>4, <1>5 DEF HInv

(* The PLC gives out a handle. *)
LEMMA PlcAddsHandles ==
  ASSUME TypeOK, HInv, FreshHandles, NEW s \in Subscriptions, PlcAdds(s)
  PROVE  HInv'
<1>1. PICK h \in Handles :
        /\ h \notin issued /\ plc' = [plc EXCEPT ![h] = s] /\ issued' = issued \cup {h}
        /\ stream' = Append(stream, [kind |-> "added", sub |-> s, handle |-> h])
  BY DEF PlcAdds
<1> DEFINE f == [kind |-> "added", sub |-> s, handle |-> h]
<1>2. f \in Frames
  BY DEF Frames
<1>3. /\ Len(stream) \in Nat /\ Len(stream') = Len(stream) + 1
      /\ stream'[Len(stream) + 1] = f /\ \A i \in 1 .. Len(stream) : stream'[i] = stream[i]
  BY <1>1, <1>2, Streams DEF PlcAdds
<1>4. /\ f.kind = "added" /\ f.sub = s /\ f.handle = h
  OBVIOUS
<1> HIDE DEF f
<1>5. /\ pc[s] = "requested" /\ pc' = [pc EXCEPT ![s] = "processed"] /\ UNCHANGED handle
  BY DEF PlcAdds
<1>6. handle[s] = None /\ \A u \in Subscriptions : handle[u] # h
  BY <1>1, <1>5, NotificationConstants DEF HInv, OwnHandles
<1>7. \A i \in 1 .. Len(stream) : AddedAt(i) => stream[i].sub # s /\ stream[i].handle # h
  BY <1>1, <1>5 DEF HInv, HandlesOnTheWay
<1>8. OwnHandles'
  BY <1>1, <1>5, <1>6 DEF HInv, OwnHandles, TypeOK
<1>9. \A i \in 1 .. Len(stream') :
        \/ i = Len(stream) + 1 /\ stream'[i] = f
        \/ i \in 1 .. Len(stream) /\ stream'[i] = stream[i]
  BY <1>3
<1>10. HandlesOnTheWay'
  <2> SUFFICES ASSUME NEW i \in 1 .. Len(stream'), AddedAt(i)'
               PROVE  /\ stream'[i].handle \in issued'
                      /\ plc'[stream'[i].handle] \in {stream'[i].sub, None}
                      /\ pc'[stream'[i].sub] \notin {"idle", "requested"}
                      /\ \A u \in Subscriptions : handle'[u] # stream'[i].handle
                      /\ \A j \in 1 .. Len(stream') :
                           AddedAt(j)' /\ j # i => stream'[j].handle # stream'[i].handle
    BY DEF HandlesOnTheWay
  <2>1. CASE i = Len(stream) + 1
    BY <1>1, <1>3, <1>4, <1>5, <1>6, <1>7, <1>9, <2>1 DEF AddedAt, TypeOK
  <2>2. CASE i \in 1 .. Len(stream)
    <3>1. AddedAt(i) /\ stream'[i] = stream[i]
      BY <1>3, <2>2 DEF AddedAt
    <3>2. /\ stream[i].handle \in issued /\ pc[stream[i].sub] \notin {"idle", "requested"}
          /\ plc[stream[i].handle] \in {stream[i].sub, None}
          /\ \A u \in Subscriptions : handle[u] # stream[i].handle
          /\ \A j \in 1 .. Len(stream) : AddedAt(j) /\ j # i => stream[j].handle # stream[i].handle
          /\ stream[i].sub # s /\ stream[i].handle # h
      BY <1>7, <2>2, <3>1 DEF HInv, HandlesOnTheWay
    <3>3. ASSUME NEW j \in 1 .. Len(stream'), AddedAt(j)', j # i
          PROVE  stream'[j].handle # stream'[i].handle
      BY <1>4, <1>9, <3>1, <3>2, <3>3 DEF AddedAt
    <3> QED BY <1>1, <1>5, <3>1, <3>2, <3>3 DEF TypeOK
  <2> QED BY <1>3, <2>1, <2>2
<1>11. HandlesOfPlc'
  <2> SUFFICES ASSUME NEW k \in Handles, plc'[k] # None
               PROVE  /\ k \in issued'
                      /\ pc'[plc'[k]] \notin {"idle", "requested"}
                      /\ handle'[plc'[k]] \in {k, None}
                      /\ \A u \in Subscriptions : handle'[u] = k => u = plc'[k]
                      /\ \A i \in 1 .. Len(stream') :
                           AddedAt(i)' /\ stream'[i].sub = plc'[k] => stream'[i].handle = k
    BY DEF HandlesOfPlc
  <2>1. CASE k = h
    BY <1>1, <1>4, <1>5, <1>6, <1>7, <1>9, <2>1 DEF AddedAt, TypeOK
  <2>2. CASE k # h
    <3>1. /\ plc'[k] = plc[k] /\ k \in issued /\ pc[plc[k]] \notin {"idle", "requested"}
          /\ handle[plc[k]] \in {k, None}
          /\ \A u \in Subscriptions : handle[u] = k => u = plc[k]
          /\ \A i \in 1 .. Len(stream) : AddedAt(i) /\ stream[i].sub = plc[k] => stream[i].handle = k
      BY <1>1, <2>2 DEF HInv, HandlesOfPlc, TypeOK
    <3>2. plc[k] # s
      BY <1>5, <3>1
    <3> QED BY <1>1, <1>4, <1>5, <1>9, <3>1, <3>2 DEF AddedAt, TypeOK
  <2> QED BY <2>1, <2>2
<1> QED BY <1>8, <1>10, <1>11 DEF HInv

(* A frame more that gives out no handle. *)
LEMMA OtherFrameHandles ==
  ASSUME TypeOK, HInv, NEW f \in Frames, f.kind # "added",
         stream' = Append(stream, f), UNCHANGED <<pc, handle, issued>>,
         \A h \in Handles : plc'[h] \in {plc[h], None}
  PROVE  HInv'
<1>1. /\ Len(stream) \in Nat /\ Len(stream') = Len(stream) + 1
      /\ stream'[Len(stream) + 1] = f /\ \A i \in 1 .. Len(stream) : stream'[i] = stream[i]
  BY Streams
<1>2. \A i \in 1 .. Len(stream') :
        AddedAt(i)' => i \in 1 .. Len(stream) /\ AddedAt(i) /\ stream'[i] = stream[i]
  BY <1>1 DEF AddedAt
<1>3. OwnHandles'
  BY DEF HInv, OwnHandles
<1>4. HandlesOnTheWay'
  BY <1>2 DEF HInv, HandlesOnTheWay, TypeOK
<1>5. HandlesOfPlc'
  BY <1>2 DEF HInv, HandlesOfPlc
<1> QED BY <1>3, <1>4, <1>5 DEF HInv

(* A reply nobody awaits any longer. *)
LEMMA OrphanHandles ==
  ASSUME TypeOK, HInv, NEW d \in Deleters, stream' = Orphaned(d),
         UNCHANGED <<pc, handle, plc, issued>>
  PROVE  HInv'
<1>1. /\ Len(stream') = Len(stream)
      /\ \A i \in 1 .. Len(stream) : AddedAt(i)' => AddedAt(i) /\ stream'[i] = stream[i]
  BY Orphans DEF AddedAt
<1>2. OwnHandles'
  BY DEF HInv, OwnHandles
<1>3. HandlesOnTheWay'
  BY <1>1 DEF HInv, HandlesOnTheWay
<1>4. HandlesOfPlc'
  BY <1>1 DEF HInv, HandlesOfPlc
<1> QED BY <1>2, <1>3, <1>4 DEF HInv

(* The reader takes a frame. *)
LEMMA ReaderHandles == ASSUME TypeOK, HInv, ReaderStep PROVE HInv'
<1>1. /\ stream # <<>> /\ Head(stream) \in Frames /\ Head(stream) = stream[1]
      /\ Len(stream) \in Nat /\ Len(stream) > 0 /\ Len(stream') = Len(stream) - 1
      /\ \A i \in 1 .. Len(stream) - 1 : stream'[i] = stream[i + 1]
  BY Streams DEF ReaderStep, ReadAdded, ReadDeleted, ReadSample, Frame
<1>2. \A i \in 1 .. Len(stream') :
        /\ i + 1 \in 1 .. Len(stream) /\ stream'[i] = stream[i + 1]
        /\ AddedAt(i)' => AddedAt(i + 1)
  BY <1>1 DEF AddedAt
<1>3. UNCHANGED <<issued, plc>>
  BY DEF ReaderStep, ReadAdded, ReadDeleted, ReadSample, plc_vars
<1>4. CASE UNCHANGED <<pc, handle>>
  <2>1. OwnHandles'
    BY <1>3, <1>4 DEF HInv, OwnHandles
  <2>2. HandlesOnTheWay'
    <3> SUFFICES ASSUME NEW i \in 1 .. Len(stream'), AddedAt(i)'
                 PROVE  /\ stream'[i].handle \in issued
                        /\ plc[stream'[i].handle] \in {stream'[i].sub, None}
                        /\ pc[stream'[i].sub] \notin {"idle", "requested"}
                        /\ \A u \in Subscriptions : handle[u] # stream'[i].handle
                        /\ \A j \in 1 .. Len(stream') :
                             AddedAt(j)' /\ j # i => stream'[j].handle # stream'[i].handle
      BY <1>3, <1>4 DEF HandlesOnTheWay
    <3>1. ASSUME NEW j \in 1 .. Len(stream'), AddedAt(j)', j # i
          PROVE  stream'[j].handle # stream'[i].handle
      <4>1. j + 1 # i + 1
        BY <3>1, <1>1
      <4> QED BY <1>2, <3>1, <4>1 DEF HInv, HandlesOnTheWay
    <3> QED BY <1>2, <3>1 DEF HInv, HandlesOnTheWay
  <2>3. HandlesOfPlc'
    BY <1>2, <1>3, <1>4 DEF HInv, HandlesOfPlc
  <2> QED BY <2>1, <2>2, <2>3 DEF HInv
<1>5. CASE /\ ReadAdded /\ pc[Head(stream).sub] = "processed"
  <2> DEFINE s == stream[1].sub
             h == stream[1].handle
  <2>1. AddedAt(1) /\ s \in Subscriptions /\ h \in Handles /\ 1 \in 1 .. Len(stream)
    BY <1>1, <1>5 DEF ReadAdded, Frame, Frames, AddedAt
  <2>2. /\ pc[s] = "processed" /\ pc' = [pc EXCEPT ![s] = "replied"]
        /\ handle' = [handle EXCEPT ![s] = h]
    BY <1>1, <1>5 DEF ReadAdded
  <2> HIDE DEF s, h
  <2>3. /\ h \in issued /\ \A u \in Subscriptions : handle[u] # h
        /\ \A j \in 1 .. Len(stream) : AddedAt(j) /\ j # 1 => stream[j].handle # h
    BY <2>1 DEF HInv, HandlesOnTheWay, s, h
  <2>4. plc[h] \in {s, None} /\ \A k \in Handles : plc[k] = s => k = h
    BY <2>1, NotificationConstants DEF HInv, HandlesOnTheWay, HandlesOfPlc, s, h
  <2>5. OwnHandles'
    BY <1>3, <2>1, <2>2, <2>3, NotificationConstants DEF HInv, OwnHandles, TypeOK
  <2>6. \A i \in 1 .. Len(stream') : AddedAt(i)' => stream'[i].handle # h
    <3> TAKE i \in 1 .. Len(stream')
    <3>1. i + 1 # 1
      BY <1>1
    <3> QED BY <1>2, <2>3, <3>1
  <2>7. HandlesOnTheWay'
    <3> SUFFICES ASSUME NEW i \in 1 .. Len(stream'), AddedAt(i)'
                 PROVE  /\ stream'[i].handle \in issued
                        /\ plc[stream'[i].handle] \in {stream'[i].sub, None}
                        /\ pc'[stream'[i].sub] \notin {"idle", "requested"}
                        /\ \A u \in Subscriptions : handle'[u] # stream'[i].handle
                        /\ \A j \in 1 .. Len(stream') :
                             AddedAt(j)' /\ j # i => stream'[j].handle # stream'[i].handle
      BY <1>3 DEF HandlesOnTheWay
    <3>1. ASSUME NEW j \in 1 .. Len(stream'), AddedAt(j)', j # i
          PROVE  stream'[j].handle # stream'[i].handle
      <4>1. j + 1 # i + 1
        BY <3>1, <1>1
      <4> QED BY <1>2, <3>1, <4>1 DEF HInv, HandlesOnTheWay
    <3>2. /\ stream'[i].handle \in issued /\ plc[stream'[i].handle] \in {stream'[i].sub, None}
          /\ pc[stream'[i].sub] \notin {"idle", "requested"}
          /\ \A u \in Subscriptions : handle[u] # stream'[i].handle
      BY <1>2 DEF HInv, HandlesOnTheWay
    <3> QED BY <2>2, <2>6, <3>1, <3>2 DEF TypeOK
  <2>8. HandlesOfPlc'
    <3> SUFFICES ASSUME NEW k \in Handles, plc[k] # None
                 PROVE  /\ k \in issued
                        /\ pc'[plc[k]] \notin {"idle", "requested"}
                        /\ handle'[plc[k]] \in {k, None}
                        /\ \A u \in Subscriptions : handle'[u] = k => u = plc[k]
                        /\ \A i \in 1 .. Len(stream') :
                             AddedAt(i)' /\ stream'[i].sub = plc[k] => stream'[i].handle = k
      BY <1>3 DEF HandlesOfPlc
    <3>1. /\ k \in issued /\ pc[plc[k]] \notin {"idle", "requested"}
          /\ handle[plc[k]] \in {k, None}
          /\ \A u \in Subscriptions : handle[u] = k => u = plc[k]
          /\ \A i \in 1 .. Len(stream) : AddedAt(i) /\ stream[i].sub = plc[k] => stream[i].handle = k
      BY DEF HInv, HandlesOfPlc
    <3>2. \A i \in 1 .. Len(stream') : AddedAt(i)' /\ stream'[i].sub = plc[k] => stream'[i].handle = k
      BY <1>2, <3>1
    <3>3. /\ pc'[plc[k]] \notin {"idle", "requested"} /\ handle'[plc[k]] \in {k, None}
          /\ \A u \in Subscriptions : handle'[u] = k => u = plc[k]
      BY <2>1, <2>2, <2>4, <3>1 DEF TypeOK
    <3> QED BY <3>1, <3>2, <3>3
  <2> QED BY <2>5, <2>7, <2>8 DEF HInv
<1> QED BY <1>4, <1>5 DEF ReaderStep, ReadAdded, ReadDeleted, ReadSample, sub_vars

LEMMA NextHandles == TypeOK /\ HInv /\ FreshHandles /\ [Next]_vars => HInv'
<1> SUFFICES ASSUME TypeOK, HInv, FreshHandles, [Next]_vars PROVE HInv'
  OBVIOUS
<1>1. ASSUME NEW s \in Subscriptions, Receive(s) \/ DropReceiver(s) \/ Unsubscribe(s)
      PROVE  HInv'
  BY <1>1, HandlesStay DEF Receive, DropReceiver, Unsubscribe, handle_vars, sub_vars, plc_vars
<1>2. ASSUME NEW h \in Handles, PlcSamples(h) PROVE HInv'
  <2>1. PICK n : stream' = Append(stream, [kind |-> "sample", handle |-> h, number |-> n])
                 /\ n = IF sampled[plc[h]] = MaxSamples THEN MaxSamples ELSE sampled[plc[h]] + 1
    BY <1>2 DEF PlcSamples
  <2>2. n \in 1 .. MaxSamples
    <3>1. sampled[plc[h]] \in 0 .. MaxSamples
      BY <1>2 DEF PlcSamples, TypeOK
    <3> QED BY <2>1, <3>1, NotificationConstants
  <2>3. [kind |-> "sample", handle |-> h, number |-> n] \in Frames
    BY <2>2 DEF Frames
  <2> QED BY <1>2, <2>1, <2>3, OtherFrameHandles DEF PlcSamples, sub_vars
<1>3. ASSUME NEW d \in Deleters, PlcDeletes(d) PROVE HInv'
  <2> DEFINE f == [kind |-> "deleted", by |-> d, ok |-> plc[target[d]] # None]
  <2>1. f \in Frames /\ f.kind # "added"
    BY DEF Frames
  <2>2. \A h \in Handles : plc'[h] \in {plc[h], None}
    BY <1>3 DEF PlcDeletes, TypeOK
  <2>3. stream' = Append(stream, f) /\ UNCHANGED <<pc, handle, issued>>
    BY <1>3 DEF PlcDeletes, sub_vars
  <2> HIDE DEF f
  <2> QED BY <2>1, <2>2, <2>3, OtherFrameHandles
<1>4. ASSUME NEW d \in Deleters, DeleterStep(d) PROVE HInv'
  <2>1. CASE DeleteFails(d)
    <3>1. stream' = Orphaned(d) /\ UNCHANGED <<pc, handle, plc, issued>>
      BY <2>1 DEF DeleteFails, sub_vars
    <3> QED BY <3>1, OrphanHandles
  <2>2. CASE DeleteSend(d) \/ DeleteRefused(d) \/ DeleteRemove(d)
    BY <2>2, HandlesStay
       DEF DeleteSend, DeleteRefused, DeleteRemove, handle_vars, sub_vars, plc_vars
  <2> QED BY <1>4, <2>1, <2>2 DEF DeleterStep
<1>7. ASSUME NEW h \in Handles, PlcDeletesLate(h) PROVE HInv'
  <2>1. UNCHANGED <<pc, handle, stream, issued>> /\ plc' = [plc EXCEPT ![h] = None]
    BY <1>7 DEF PlcDeletesLate, sub_vars
  <2> QED BY <2>1 DEF HInv, OwnHandles, HandlesOnTheWay, HandlesOfPlc, AddedAt, TypeOK
<1>5. CASE CloseBegin \/ CloseStep \/ ConnectionFails \/ ClearSubscribers \/ ReaderEnds
  BY <1>5, HandlesStay
     DEF CloseBegin, CloseStep, CloseDeletes, CloseStops, CloseTearsDown, ConnectionFails,
         ClearSubscribers, ReaderEnds, handle_vars, sub_vars, plc_vars
<1>6. CASE Finished \/ UNCHANGED vars
  BY <1>6, HandlesStay DEF Finished, vars, handle_vars, sub_vars, plc_vars
<1> QED BY <1>1, <1>2, <1>3, <1>4, <1>5, <1>6, <1>7, CallHandles, PlcAddsHandles, ReaderHandles
        DEF Next, PlcStep

--------------------------------------------------------------------------------
(* Deletions. *)

Owner(s, h) == s \in disowned /\ handle[s] = h

(* Only what is live is asked to be deleted, and a deletion under way is that of*)
(* a subscription somebody asked to delete; a sender is at its own handle.      *)
Deletions ==
  /\ \A s \in disowned : pc[s] = "live"
  /\ \A h \in Handles : subscribers[h] # None =>
       pc[subscribers[h]] = "live" /\ handle[subscribers[h]] = h
  /\ \A h \in to_delete : \E s \in Subscriptions : Owner(s, h)
  /\ closer # "deleting" => to_delete = {}
  /\ \A d \in Deleters :
       /\ stage[d] # "free" => \E s \in Subscriptions : Owner(s, target[d])
       /\ stage[d] \in {"answering", "remove"} => plc[target[d]] = None

(* While the connection is open, what nobody deletes has its sender.            *)
Undisturbed ==
  ~Closed =>
    \A s \in Subscriptions :
      pc[s] = "live" /\ s \notin disowned => subscribers[handle[s]] = s

DInv == Deletions /\ Undisturbed

deletion_vars == <<pc, handle, disowned, subscribers, delete_vars, closer, to_delete, drain, plc>>

LEMMA DeletionsStay == ASSUME DInv, UNCHANGED deletion_vars PROVE DInv'
BY DEF DInv, Deletions, Undisturbed, Owner, Closed, deletion_vars, delete_vars

(* A deleter takes over, for a subscription that is live.                       *)
LEMMA AskDeletions ==
  ASSUME TypeOK, HInv, DInv, NEW d \in Deleters, NEW s \in Subscriptions, pc[s] = "live",
         Ask(d, handle[s]), disowned' = disowned \cup {s},
         UNCHANGED <<pc, handle, subscribers, closer, to_delete, drain, plc>>
  PROVE  DInv'
<1>1. /\ stage[d] = "free" /\ stage' = [stage EXCEPT ![d] = "send"]
      /\ target' = [target EXCEPT ![d] = handle[s]]
  BY DEF Ask
<1>3. Deletions'
  BY <1>1 DEF DInv, Deletions, Owner, TypeOK
<1>4. Undisturbed'
  BY DEF DInv, Undisturbed, Closed
<1> QED BY <1>3, <1>4 DEF DInv

LEMMA CallDeletions ==
  ASSUME TypeOK, HInv, DInv, NEW s \in Subscriptions,
         Add(s) \/ AddFails(s) \/ Subscribe(s) \/ Receive(s) \/ DropReceiver(s) \/ Unsubscribe(s)
  PROVE  DInv'
<1>1. CASE Add(s)
  BY <1>1 DEF Add, DInv, Deletions, Undisturbed, Owner, Closed, TypeOK, channel_vars, delete_vars,
              end_vars, close_vars, plc_vars
<1>2. CASE AddFails(s)
  BY <1>2 DEF AddFails, DInv, Deletions, Undisturbed, Owner, Closed, TypeOK, channel_vars,
              delete_vars, end_vars, close_vars, plc_vars
<1>3. CASE Subscribe(s)
  <2>1. pc[s] = "replied" /\ handle[s] \in Handles /\ s \notin disowned
    BY <1>3 DEF Subscribe, HInv, OwnHandles, DInv, Deletions, TypeOK
  <2>2. CASE Closed
    BY <1>3, <2>1, <2>2 DEF Subscribe, DInv, Deletions, Undisturbed, Owner, Closed, TypeOK,
                            delete_vars, end_vars, close_vars, plc_vars
  <2>3. CASE ~Closed
    <3>1. /\ pc' = [pc EXCEPT ![s] = "live"] /\ subscribers' = [subscribers EXCEPT ![handle[s]] = s]
          /\ UNCHANGED <<handle, disowned, delete_vars, closer, to_delete, drain, plc>>
      BY <1>3, <2>3 DEF Subscribe, end_vars, close_vars, plc_vars
    <3>2. \A u \in Subscriptions : handle[u] = handle[s] => u = s
      BY <2>1, NotificationConstants DEF HInv, OwnHandles
    <3>3. Deletions'
      BY <2>1, <3>1 DEF DInv, Deletions, Owner, TypeOK, delete_vars
    <3>4. Undisturbed'
      BY <2>1, <3>1, <3>2 DEF DInv, Undisturbed, Closed, TypeOK, delete_vars, HInv, OwnHandles
    <3> QED BY <3>3, <3>4 DEF DInv
  <2> QED BY <2>2, <2>3
<1>4. CASE Receive(s) \/ DropReceiver(s)
  BY <1>4, DeletionsStay
     DEF Receive, DropReceiver, deletion_vars, sub_vars, delete_vars, end_vars, close_vars, plc_vars
<1>5. CASE Unsubscribe(s)
  <2>1. PICK d \in Deleters : Ask(d, handle[s])
    BY <1>5 DEF Unsubscribe
  <2> QED BY <1>5, <2>1, AskDeletions DEF Unsubscribe, channel_vars, end_vars, close_vars, plc_vars
<1> QED BY <1>1, <1>2, <1>3, <1>4, <1>5

LEMMA DeleterDeletions ==
  ASSUME TypeOK, HInv, DInv, NEW d \in Deleters, DeleterStep(d)
  PROVE  DInv'
<1>1. CASE DeleteSend(d)
  BY <1>1 DEF DeleteSend, DInv, Deletions, Undisturbed, Owner, Closed, TypeOK, sub_vars, channel_vars,
              end_vars, close_vars, plc_vars
<1>2. CASE DeleteRefused(d) \/ DeleteFails(d)
  <2>1. /\ stage' = [stage EXCEPT ![d] = "free"]
        /\ UNCHANGED <<pc, handle, disowned, subscribers, target, closer, to_delete, drain, plc>>
    BY <1>2 DEF DeleteRefused, DeleteFails, sub_vars, channel_vars, plc_vars
  <2>2. Deletions'
    BY <2>1 DEF DInv, Deletions, Owner, TypeOK
  <2>3. Undisturbed'
    BY <2>1 DEF DInv, Undisturbed, Closed
  <2> QED BY <2>2, <2>3 DEF DInv
<1>3. CASE DeleteRemove(d)
  <2>1. /\ stage[d] = "remove" /\ subscribers' = [subscribers EXCEPT ![target[d]] = None]
        /\ stage' = [stage EXCEPT ![d] = "free"]
        /\ UNCHANGED <<pc, handle, disowned, target, closer, to_delete, drain, plc>>
    BY <1>3 DEF DeleteRemove, sub_vars, end_vars, close_vars, plc_vars
  <2>2. PICK s \in Subscriptions : Owner(s, target[d])
    BY <2>1 DEF DInv, Deletions
  <2>3. pc[s] = "live" /\ handle[s] # None /\ handle[s] = target[d] /\ plc[target[d]] = None
    BY <2>1, <2>2 DEF DInv, Deletions, Owner, HInv, OwnHandles
  <2>4. Deletions'
    BY <2>1 DEF DInv, Deletions, Owner, TypeOK
  <2>5. Undisturbed'
    <3>1. \A u \in Subscriptions : u \notin disowned => handle[u] # target[d]
      BY <2>2, <2>3 DEF HInv, OwnHandles, Owner
    <3>2. None \notin disowned
      BY NotificationConstants DEF TypeOK
    <3> QED BY <2>1, <2>3, <3>1, <3>2 DEF DInv, Undisturbed, Closed, TypeOK
  <2> QED BY <2>4, <2>5 DEF DInv
<1> QED BY <1>1, <1>2, <1>3 DEF DeleterStep

LEMMA PlcDeletions == ASSUME TypeOK, HInv, DInv, FreshHandles, PlcStep PROVE DInv'
<1>1. ASSUME NEW s \in Subscriptions, PlcAdds(s) PROVE DInv'
  <2>1. PICK h \in Handles : h \notin issued /\ plc' = [plc EXCEPT ![h] = s]
    BY <1>1 DEF PlcAdds
  <2>2. /\ pc[s] = "requested" /\ pc' = [pc EXCEPT ![s] = "processed"]
        /\ UNCHANGED <<handle, disowned, subscribers, stage, target, closer, to_delete, drain>>
    BY <1>1 DEF PlcAdds, channel_vars, delete_vars, end_vars, close_vars
  <2>3. s \notin disowned
    BY <2>2 DEF DInv, Deletions
  <2>4. \A d \in Deleters : stage[d] # "free" => target[d] # h
    BY <2>1, NotificationConstants DEF DInv, Deletions, Owner, HInv, OwnHandles
  <2>5. Deletions'
    BY <2>1, <2>2, <2>3, <2>4 DEF DInv, Deletions, Owner, TypeOK
  <2>6. Undisturbed'
    BY <2>1, <2>2, <2>3 DEF DInv, Undisturbed, Closed, TypeOK
  <2> QED BY <2>5, <2>6 DEF DInv
<1>2. ASSUME NEW h \in Handles, PlcSamples(h) PROVE DInv'
  BY <1>2, DeletionsStay
     DEF PlcSamples, deletion_vars, sub_vars, channel_vars, delete_vars, end_vars, close_vars
<1>3. ASSUME NEW d \in Deleters, PlcDeletes(d) PROVE DInv'
  <2>1. /\ stage[d] = "sent" /\ plc' = [plc EXCEPT ![target[d]] = None]
        /\ stage' = [stage EXCEPT ![d] = "answering"]
        /\ UNCHANGED <<pc, handle, disowned, subscribers, target, closer, to_delete, drain>>
    BY <1>3 DEF PlcDeletes, sub_vars, channel_vars, end_vars, close_vars
  <2>2. target[d] \in Handles
    BY <2>1 DEF DInv, Deletions, Owner, HInv, OwnHandles, TypeOK
  <2>3. Deletions'
    BY <2>1, <2>2 DEF DInv, Deletions, Owner, TypeOK
  <2>4. Undisturbed'
    <3>1. None \notin disowned
      BY NotificationConstants DEF TypeOK
    <3> QED BY <2>1, <2>2, <3>1 DEF DInv, Undisturbed, Closed, TypeOK
  <2> QED BY <2>3, <2>4 DEF DInv
<1>4. ASSUME NEW h \in Handles, PlcDeletesLate(h) PROVE DInv'
  <2>1. /\ plc' = [plc EXCEPT ![h] = None]
        /\ UNCHANGED <<pc, handle, disowned, subscribers, stage, target, closer, to_delete, drain>>
    BY <1>4 DEF PlcDeletesLate, sub_vars, channel_vars, delete_vars, end_vars, close_vars
  <2>2. Deletions'
    BY <2>1 DEF DInv, Deletions, Owner, TypeOK
  <2>3. Undisturbed'
    BY <2>1 DEF DInv, Undisturbed, Closed
  <2> QED BY <2>2, <2>3 DEF DInv
<1> QED BY <1>1, <1>2, <1>3, <1>4 DEF PlcStep

LEMMA ReaderDeletions == ASSUME TypeOK, HInv, DInv, ReaderStep PROVE DInv'
<1>1. stream # <<>> /\ Head(stream) \in Frames
  BY Streams DEF ReaderStep, ReadAdded, ReadDeleted, ReadSample, Frame
<1>2. CASE ReadAdded
  <2>1. CASE UNCHANGED <<pc, handle>>
    BY <1>2, <2>1, DeletionsStay
       DEF ReadAdded, deletion_vars, channel_vars, delete_vars, end_vars, close_vars, plc_vars
  <2>2. CASE pc[Head(stream).sub] = "processed"
    <3> DEFINE s == Head(stream).sub
    <3>1. s \in Subscriptions
      BY <1>1, <1>2 DEF ReadAdded, Frame, Frames
    <3>2. /\ pc[s] = "processed" /\ pc' = [pc EXCEPT ![s] = "replied"]
          /\ handle' = [handle EXCEPT ![s] = Head(stream).handle]
          /\ UNCHANGED <<disowned, subscribers, stage, target, closer, to_delete, drain, plc>>
      BY <1>2, <2>2 DEF ReadAdded, channel_vars, delete_vars, end_vars, close_vars, plc_vars
    <3> HIDE DEF s
    <3>3. s \notin disowned /\ \A h \in Handles : subscribers[h] # s
      BY <3>1, <3>2, NotificationConstants DEF DInv, Deletions, TypeOK
    <3>4. Deletions'
      BY <3>1, <3>2, <3>3 DEF DInv, Deletions, Owner, TypeOK
    <3>5. Undisturbed'
      BY <3>1, <3>2, <3>3 DEF DInv, Undisturbed, Closed, TypeOK
    <3> QED BY <3>4, <3>5 DEF DInv
  <2> QED BY <1>2, <2>1, <2>2 DEF ReadAdded
<1>3. CASE ReadDeleted
  <2>1. /\ UNCHANGED <<pc, handle, disowned, subscribers, target, closer, to_delete, drain, plc>>
        /\ \/ UNCHANGED stage
           \/ \E d \in Deleters : /\ stage[d] = "answering"
                                  /\ \E l \in {"remove", "free"} : stage' = [stage EXCEPT ![d] = l]
    BY <1>1, <1>3 DEF ReadDeleted, Frame, Frames, sub_vars, channel_vars, end_vars, close_vars, plc_vars
  <2>2. CASE UNCHANGED stage
    BY <2>1, <2>2, DeletionsStay DEF deletion_vars, delete_vars
  <2>3. ASSUME NEW d \in Deleters, stage[d] = "answering", NEW l \in {"remove", "free"},
               stage' = [stage EXCEPT ![d] = l]
        PROVE  DInv'
    <3>1. plc[target[d]] = None /\ None \notin disowned
      BY <2>3, NotificationConstants DEF DInv, Deletions, TypeOK
    <3>2. Deletions'
      BY <2>1, <2>3 DEF DInv, Deletions, Owner, TypeOK
    <3>3. Undisturbed'
      BY <2>1, <2>3, <3>1 DEF DInv, Undisturbed, Closed, TypeOK
    <3> QED BY <3>2, <3>3 DEF DInv
  <2> QED BY <2>1, <2>2, <2>3
<1>4. CASE ReadSample
  <2> DEFINE h == Head(stream).handle
             s == subscribers[h]
  <2>1. h \in Handles /\ UNCHANGED <<pc, handle, subscribers, closer, to_delete, drain, plc>>
    BY <1>1, <1>4 DEF ReadSample, Frame, Frames, end_vars, close_vars, plc_vars
  <2>2. CASE UNCHANGED <<disowned, delete_vars>>
    BY <2>1, <2>2, DeletionsStay DEF deletion_vars
  <2>3. ASSUME s # None, NEW d \in Deleters, Ask(d, h), disowned' = disowned \cup {s}
        PROVE  DInv'
    <3>1. s \in Subscriptions /\ pc[s] = "live" /\ handle[s] = h
      BY <2>1, <2>3 DEF DInv, Deletions, TypeOK
    <3> HIDE DEF s, h
    <3> QED BY <2>1, <2>3, <3>1, AskDeletions
  <2>4. None \notin dropped
    BY NotificationConstants DEF TypeOK
  <2>5. CASE s \in dropped
    <3>1. SpawnDelete(h)
      BY <1>4, <2>4, <2>5 DEF ReadSample
    <3> QED BY <2>2, <2>3, <2>4, <2>5, <3>1 DEF SpawnDelete
  <2>6. CASE s \notin dropped
    <3>1. UNCHANGED <<disowned, delete_vars>>
      BY <1>4, <2>6 DEF ReadSample
    <3> QED BY <2>2, <3>1
  <2> QED BY <2>5, <2>6
<1> QED BY <1>2, <1>3, <1>4 DEF ReaderStep

LEMMA EndDeletions ==
  ASSUME TypeOK, HInv, DInv,
         CloseBegin \/ CloseStep \/ ConnectionFails \/ ClearSubscribers \/ ReaderEnds
  PROVE  DInv'
<1>1. CASE CloseBegin
  <2>1. /\ to_delete' = {h \in Handles : subscribers[h] # None} /\ closer' = "deleting"
        /\ disowned' = disowned \cup {subscribers[h] : h \in to_delete'} /\ closer = "idle"
        /\ UNCHANGED <<pc, handle, subscribers, stage, target, drain, plc>>
    BY <1>1 DEF CloseBegin, channel_vars, delete_vars, plc_vars
  <2>2. \A h \in to_delete' : /\ h \in Handles /\ subscribers[h] \in Subscriptions
                              /\ pc[subscribers[h]] = "live" /\ handle[subscribers[h]] = h
                              /\ subscribers[h] \in disowned'
    BY <2>1 DEF DInv, Deletions, TypeOK
  <2>3. \A s \in disowned' : s \in disowned \/ \E h \in to_delete' : subscribers[h] = s
    BY <2>1
  <2>4. Deletions'
    BY <2>1, <2>2, <2>3 DEF DInv, Deletions, Owner, TypeOK
  <2>5. Undisturbed'
    BY <2>1 DEF DInv, Undisturbed, Closed
  <2> QED BY <2>4, <2>5 DEF DInv
<1>2. CASE CloseDeletes
  <2>1. PICK h \in to_delete :
          /\ stage[Closer] = "free" /\ stage' = [stage EXCEPT ![Closer] = "send"]
          /\ target' = [target EXCEPT ![Closer] = h] /\ to_delete' = to_delete \ {h}
    BY <1>2 DEF CloseDeletes, Ask
  <2>2. /\ closer = "deleting"
        /\ UNCHANGED <<pc, handle, disowned, subscribers, closer, drain, plc>>
    BY <1>2 DEF CloseDeletes, sub_vars, channel_vars, plc_vars
  <2>3. Closer \in Deleters
    BY NotificationConstants
  <2>4. Deletions'
    BY <2>1, <2>2, <2>3 DEF DInv, Deletions, Owner, TypeOK
  <2>5. Undisturbed'
    BY <2>2 DEF DInv, Undisturbed, Closed
  <2> QED BY <2>4, <2>5 DEF DInv
<1>3. CASE CloseStops
  BY <1>3 DEF CloseStops, close_vars, DInv, Deletions, Undisturbed, Owner, Closed, sub_vars, channel_vars,
              delete_vars, plc_vars
<1>4. CASE CloseTearsDown
  BY <1>4 DEF CloseTearsDown, close_vars, DInv, Deletions, Undisturbed, Owner, Closed, sub_vars, channel_vars,
              delete_vars, plc_vars
<1>5. CASE ConnectionFails
  BY <1>5 DEF ConnectionFails, close_vars, DInv, Deletions, Undisturbed, Owner, Closed, sub_vars, channel_vars,
              delete_vars, plc_vars
<1>6. CASE ClearSubscribers
  BY <1>6 DEF ClearSubscribers, close_vars, DInv, Deletions, Undisturbed, Owner, Closed, sub_vars, delete_vars,
              plc_vars, TypeOK
<1>7. CASE ReaderEnds
  BY <1>7, DeletionsStay DEF ReaderEnds, close_vars, deletion_vars, sub_vars, channel_vars, delete_vars, plc_vars
<1> QED BY <1>1, <1>2, <1>3, <1>4, <1>5, <1>6, <1>7 DEF CloseStep

LEMMA NextDeletions == TypeOK /\ HInv /\ DInv /\ FreshHandles /\ [Next]_vars => DInv'
<1> SUFFICES ASSUME TypeOK, HInv, DInv, FreshHandles, [Next]_vars PROVE DInv'
  OBVIOUS
<1>1. CASE Finished \/ UNCHANGED vars
  BY <1>1, DeletionsStay DEF Finished, vars, deletion_vars, sub_vars, channel_vars, delete_vars,
                             end_vars, close_vars, plc_vars
<1> QED BY <1>1, CallDeletions, DeleterDeletions, PlcDeletions, ReaderDeletions, EndDeletions DEF Next

--------------------------------------------------------------------------------
(* The order of samples. *)

SampleAt(i) == i \in 1 .. Len(stream) /\ stream[i].kind = "sample"

(* What the application of a subscription has seen and will see.                *)
Seen(s) == <<last[s]>> \o queue[s]

(* Beyond the bound all numbers are the last one. *)
Before(a, b) == a < b \/ b = MaxSamples

Ordered(seen) == \A i \in 1 .. Len(seen) - 1 : Before(seen[i], seen[i + 1])

(* The samples of a handle are on their way in order, and none is newer than    *)
(* what the PLC has taken.                                                      *)
SamplesOnTheWay ==
  \A i \in 1 .. Len(stream) : SampleAt(i) =>
    /\ stream[i].handle \in issued
    /\ \A j \in 1 .. Len(stream) :
         SampleAt(j) /\ i < j /\ stream[i].handle = stream[j].handle =>
           Before(stream[i].number, stream[j].number)
    /\ \A s \in Subscriptions : plc[stream[i].handle] = s => stream[i].number <= sampled[s]
    /\ \A s \in Subscriptions : handle[s] = stream[i].handle =>
         \A q \in 1 .. Len(Seen(s)) : Before(Seen(s)[q], stream[i].number)

SamplesSeen ==
  \A s \in Subscriptions :
    /\ handle[s] = None \/ pc[s] = "replied" => last[s] = 0 /\ queue[s] = <<>>
    /\ Ordered(Seen(s))
    /\ \A h \in Handles : plc[h] = s => \A q \in 1 .. Len(Seen(s)) : Seen(s)[q] <= sampled[s]

OInv == SamplesOnTheWay /\ SamplesSeen

sample_vars == <<pc, handle, last, queue, stream, plc, issued, sampled>>

LEMMA SamplesStay == ASSUME OInv, UNCHANGED sample_vars PROVE OInv'
BY DEF OInv, SamplesOnTheWay, SamplesSeen, SampleAt, Seen, sample_vars

(* Numbers. *)
LEMMA SeenNumbers ==
  ASSUME TypeOK, NEW s \in Subscriptions
  PROVE  /\ Seen(s) \in Seq(0 .. MaxSamples) /\ Len(Seen(s)) = Len(queue[s]) + 1
         /\ Seen(s)[1] = last[s] /\ Len(queue[s]) \in Nat /\ MaxSamples \in Nat \ {0}
         /\ \A q \in 1 .. Len(queue[s]) : Seen(s)[q + 1] = queue[s][q]
<1>1. /\ queue[s] \in Seq(1 .. MaxSamples) /\ last[s] \in 0 .. MaxSamples
      /\ MaxSamples \in Nat \ {0}
  BY NotificationConstants DEF TypeOK
<1>2. queue[s] \in Seq(0 .. MaxSamples) /\ <<last[s]>> \in Seq(0 .. MaxSamples)
  BY <1>1
<1>3. Len(<<last[s]>>) = 1 /\ <<last[s]>>[1] = last[s] /\ Len(queue[s]) \in Nat
  BY <1>1
<1> HIDE DEF Seen
<1>4. /\ Seen(s) \in Seq(0 .. MaxSamples) /\ Len(Seen(s)) = Len(queue[s]) + 1
      /\ Seen(s)[1] = last[s]
      /\ \A q \in 1 .. Len(queue[s]) : Seen(s)[q + 1] = queue[s][q]
  BY <1>2, <1>3, ConcatProperties DEF Seen
<1> QED BY <1>1, <1>3, <1>4

(* The application takes the first, or gives up what is left.                   *)
LEMMA SeenLess ==
  ASSUME TypeOK, OInv, NEW s \in Subscriptions, pc[s] = "live", handle[s] # None,
         \A u \in Subscriptions : u # s => last'[u] = last[u] /\ queue'[u] = queue[u],
         Ordered(Seen(s)'), Len(Seen(s)') \in Nat,
         \A q \in 1 .. Len(Seen(s)') : \E r \in 1 .. Len(Seen(s)) : Seen(s)'[q] = Seen(s)[r],
         UNCHANGED <<pc, handle, stream, plc, issued, sampled>>
  PROVE  OInv'
<1>1. ASSUME NEW u \in Subscriptions
      PROVE  \A q \in 1 .. Len(Seen(u)') : \E r \in 1 .. Len(Seen(u)) : Seen(u)'[q] = Seen(u)[r]
  <2>1. CASE u = s
    BY <2>1
  <2>2. CASE u # s
    <3>1. Seen(u)' = Seen(u)
      BY <2>2 DEF Seen
    <3> QED BY <3>1
  <2> QED BY <2>1, <2>2
<1>2. SamplesOnTheWay'
  <2> SUFFICES ASSUME NEW i \in 1 .. Len(stream), SampleAt(i), NEW u \in Subscriptions,
                      handle[u] = stream[i].handle, NEW q \in 1 .. Len(Seen(u)')
               PROVE  Before(Seen(u)'[q], stream[i].number)
    BY DEF OInv, SamplesOnTheWay, SampleAt
  <2>1. PICK r \in 1 .. Len(Seen(u)) : Seen(u)'[q] = Seen(u)[r]
    BY <1>1
  <2>2. Before(Seen(u)[r], stream[i].number)
    BY DEF OInv, SamplesOnTheWay
  <2> QED BY <2>1, <2>2
<1>3. SamplesSeen'
  <2> SUFFICES ASSUME NEW u \in Subscriptions
               PROVE  /\ handle[u] = None \/ pc[u] = "replied" => last'[u] = 0 /\ queue'[u] = <<>>
                      /\ Ordered(Seen(u)')
                      /\ \A h \in Handles : plc[h] = u =>
                           \A q \in 1 .. Len(Seen(u)') : Seen(u)'[q] <= sampled[u]
    BY DEF SamplesSeen, Ordered, Before
  <2>1. handle[u] = None \/ pc[u] = "replied" => last'[u] = 0 /\ queue'[u] = <<>>
    BY DEF OInv, SamplesSeen
  <2>2. Ordered(Seen(u)')
    <3>1. CASE u # s
      <4>1. Seen(u)' = Seen(u)
        BY <3>1 DEF Seen
      <4> QED BY <4>1 DEF OInv, SamplesSeen
    <3> QED BY <3>1
  <2>3. ASSUME NEW h \in Handles, plc[h] = u, NEW q \in 1 .. Len(Seen(u)')
        PROVE  Seen(u)'[q] <= sampled[u]
    <3>1. PICK r \in 1 .. Len(Seen(u)) : Seen(u)'[q] = Seen(u)[r]
      BY <1>1
    <3> QED BY <2>3, <3>1 DEF OInv, SamplesSeen
  <2> QED BY <2>1, <2>2, <2>3
<1> QED BY <1>2, <1>3 DEF OInv

LEMMA ReceiveSamples ==
  ASSUME TypeOK, TypeOK', HInv, OInv, NEW s \in Subscriptions, Receive(s) \/ DropReceiver(s)
  PROVE  OInv'
<1>1. pc[s] = "live" /\ handle[s] # None /\ UNCHANGED <<pc, handle, stream, plc, issued, sampled>>
  BY DEF Receive, DropReceiver, HInv, OwnHandles, sub_vars, plc_vars
<1>2. /\ Seen(s) \in Seq(0 .. MaxSamples) /\ Len(Seen(s)) = Len(queue[s]) + 1
      /\ Seen(s)[1] = last[s] /\ Len(queue[s]) \in Nat
      /\ \A q \in 1 .. Len(queue[s]) : Seen(s)[q + 1] = queue[s][q]
  BY SeenNumbers
<1>3. /\ Len(Seen(s)') = Len(queue'[s]) + 1 /\ Seen(s)'[1] = last'[s] /\ Len(queue'[s]) \in Nat
      /\ \A q \in 1 .. Len(queue'[s]) : Seen(s)'[q + 1] = queue'[s][q]
  <2>1. ASSUME NEW a \in Seq(0 .. MaxSamples), NEW b \in 0 .. MaxSamples
        PROVE  /\ Len(<<b>> \o a) = Len(a) + 1 /\ (<<b>> \o a)[1] = b /\ Len(a) \in Nat
               /\ \A q \in 1 .. Len(a) : (<<b>> \o a)[q + 1] = a[q]
    <3>1. <<b>> \in Seq(0 .. MaxSamples) /\ Len(<<b>>) = 1 /\ <<b>>[1] = b
      OBVIOUS
    <3> QED BY <2>1, <3>1, ConcatProperties
  <2>2. queue'[s] \in Seq(1 .. MaxSamples) /\ last'[s] \in 0 .. MaxSamples
    BY DEF TypeOK
  <2>3. queue'[s] \in Seq(0 .. MaxSamples)
    BY <2>2, NotificationConstants
  <2> QED BY <2>1, <2>2, <2>3 DEF Seen
<1> HIDE DEF Seen
<1>4. Ordered(Seen(s))
  BY DEF OInv, SamplesSeen
<1>5. CASE Receive(s)
  <2>1. /\ queue[s] # <<>> /\ last' = [last EXCEPT ![s] = Head(queue[s])]
        /\ queue' = [queue EXCEPT ![s] = Tail(queue[s])] /\ queue[s] \in Seq(1 .. MaxSamples)
    BY <1>5 DEF Receive, TypeOK
  <2>2. /\ Len(queue'[s]) = Len(queue[s]) - 1 /\ last'[s] = queue[s][1] /\ Len(queue[s]) > 0
        /\ \A q \in 1 .. Len(queue[s]) - 1 : queue'[s][q] = queue[s][q + 1]
    <3>1. /\ Head(queue[s]) = queue[s][1] /\ Len(Tail(queue[s])) = Len(queue[s]) - 1
          /\ \A q \in 1 .. Len(queue[s]) - 1 : Tail(queue[s])[q] = queue[s][q + 1]
      BY <2>1, HeadTailProperties
    <3>2. Len(queue[s]) > 0
      BY <2>1
    <3>3. last'[s] = Head(queue[s]) /\ queue'[s] = Tail(queue[s])
      BY <2>1 DEF TypeOK
    <3> QED BY <3>1, <3>2, <3>3
  <2>3. /\ Len(Seen(s)') = Len(Seen(s)) - 1
        /\ \A q \in 1 .. Len(Seen(s)') : q + 1 \in 1 .. Len(Seen(s)) /\ Seen(s)'[q] = Seen(s)[q + 1]
    <3>1. Len(Seen(s)') = Len(Seen(s)) - 1
      BY <1>2, <1>3, <2>2
    <3>2. ASSUME NEW q \in 1 .. Len(Seen(s)')
          PROVE  q + 1 \in 1 .. Len(Seen(s)) /\ Seen(s)'[q] = Seen(s)[q + 1]
      <4>1. q + 1 \in 1 .. Len(Seen(s)) /\ q \in 1 .. Len(queue[s])
        BY <1>2, <1>3, <3>1
      <4>2. CASE q = 1
        BY <1>2, <1>3, <2>2, <4>1, <4>2
      <4>3. CASE q # 1
        <5>1. q - 1 \in 1 .. Len(queue'[s]) /\ q - 1 + 1 = q
          BY <1>2, <1>3, <2>2, <4>1, <4>3
        <5>2. Seen(s)'[q] = queue'[s][q - 1]
          BY <1>3, <5>1
        <5>3. queue'[s][q - 1] = queue[s][q]
          BY <2>2, <5>1
        <5> QED BY <1>2, <4>1, <5>2, <5>3
      <4> QED BY <4>1, <4>2, <4>3
    <3> QED BY <3>1, <3>2
  <2>4. Ordered(Seen(s)')
    <3> SUFFICES ASSUME NEW q \in 1 .. Len(Seen(s)') - 1
                 PROVE  Before(Seen(s)'[q], Seen(s)'[q + 1])
      BY DEF Ordered
    <3>1. q \in 1 .. Len(Seen(s)') /\ q + 1 \in 1 .. Len(Seen(s)')
      BY <1>3
    <3>2. q + 1 \in 1 .. Len(Seen(s)) - 1
      BY <1>2, <1>3, <2>3, <3>1
    <3> QED BY <1>4, <2>3, <3>1, <3>2 DEF Ordered
  <2>5. \A u \in Subscriptions : u # s => last'[u] = last[u] /\ queue'[u] = queue[u]
    BY <2>1 DEF TypeOK
  <2> QED BY <1>1, <1>3, <2>3, <2>4, <2>5, SeenLess
<1>6. CASE DropReceiver(s)
  <2>1. queue'[s] = <<>> /\ last'[s] = last[s]
    BY <1>6 DEF DropReceiver, TypeOK
  <2>2. Len(Seen(s)') = 1 /\ Seen(s)'[1] = Seen(s)[1]
    BY <1>2, <1>3, <2>1
  <2>3. Ordered(Seen(s)')
    BY <2>2 DEF Ordered
  <2>4. \A u \in Subscriptions : u # s => last'[u] = last[u] /\ queue'[u] = queue[u]
    BY <1>6 DEF DropReceiver, TypeOK
  <2>5. 1 \in 1 .. Len(Seen(s))
    BY <1>2
  <2> QED BY <1>1, <2>2, <2>3, <2>4, <2>5, SeenLess
<1> QED BY <1>5, <1>6

(* A reply nobody awaits any longer. *)
LEMMA OrphanSamples ==
  ASSUME TypeOK, OInv, NEW d \in Deleters, stream' = Orphaned(d),
         UNCHANGED <<pc, handle, last, queue, plc, issued, sampled>>
  PROVE  OInv'
<1>1. /\ Len(stream') = Len(stream)
      /\ \A i \in 1 .. Len(stream) : SampleAt(i)' => SampleAt(i) /\ stream'[i] = stream[i]
  BY Orphans DEF SampleAt
<1>2. \A s \in Subscriptions : Seen(s)' = Seen(s)
  BY DEF Seen
<1> HIDE DEF Seen
<1>3. SamplesOnTheWay'
  BY <1>1, <1>2 DEF OInv, SamplesOnTheWay, Before
<1>4. SamplesSeen'
  BY <1>2 DEF OInv, SamplesSeen, Ordered, Before
<1> QED BY <1>3, <1>4 DEF OInv

(* The PLC forgets a handle. *)
LEMMA FewerHandlesSamples ==
  ASSUME TypeOK, OInv, UNCHANGED <<pc, handle, last, queue, stream, issued, sampled>>,
         \A k \in Handles : \A u \in Subscriptions : plc'[k] = u => plc[k] = u
  PROVE  OInv'
<1>1. \A s \in Subscriptions : Seen(s)' = Seen(s)
  BY DEF Seen
<1>2. \A i \in 1 .. Len(stream) : SampleAt(i) => stream[i].handle \in Handles
  BY DEF TypeOK, SampleAt, Frames
<1> HIDE DEF Seen
<1>3. SamplesOnTheWay'
  BY <1>1, <1>2 DEF OInv, SamplesOnTheWay, SampleAt, Before
<1>4. SamplesSeen'
  BY <1>1 DEF OInv, SamplesSeen, Ordered, Before
<1> QED BY <1>3, <1>4 DEF OInv

(* A frame more on the stream that is no sample. *)
LEMMA OtherFrameSamples ==
  ASSUME TypeOK, HInv, OInv, NEW f \in Frames, f.kind # "sample",
         stream' = Append(stream, f), UNCHANGED <<handle, last, queue, sampled>>,
         \A s \in Subscriptions : pc'[s] = "replied" => pc[s] = "replied",
         \A h \in Handles : \A s \in Subscriptions :
           plc'[h] = s => plc[h] = s \/ (handle[s] = None /\ h \notin issued),
         issued \subseteq issued'
  PROVE  OInv'
<1>1. /\ Len(stream) \in Nat /\ Len(stream') = Len(stream) + 1
      /\ stream'[Len(stream) + 1] = f /\ \A i \in 1 .. Len(stream) : stream'[i] = stream[i]
  BY Streams
<1>2. \A i \in 1 .. Len(stream') :
        SampleAt(i)' => i \in 1 .. Len(stream) /\ SampleAt(i) /\ stream'[i] = stream[i]
  BY <1>1 DEF SampleAt
<1>3. \A s \in Subscriptions : Seen(s)' = Seen(s)
  BY DEF Seen
<1> HIDE DEF Seen
<1>4. SamplesOnTheWay'
  <2> SUFFICES ASSUME NEW i \in 1 .. Len(stream'), SampleAt(i)'
               PROVE  /\ stream'[i].handle \in issued'
                      /\ \A j \in 1 .. Len(stream') :
                           SampleAt(j)' /\ i < j /\ stream'[i].handle = stream'[j].handle =>
                             Before(stream'[i].number, stream'[j].number)
                      /\ \A s \in Subscriptions :
                           plc'[stream'[i].handle] = s => stream'[i].number <= sampled[s]
                      /\ \A s \in Subscriptions : handle[s] = stream'[i].handle =>
                           \A q \in 1 .. Len(Seen(s)) : Before(Seen(s)[q], stream'[i].number)
    BY <1>3 DEF SamplesOnTheWay, Before
  <2>1. i \in 1 .. Len(stream) /\ SampleAt(i) /\ stream'[i] = stream[i]
    BY <1>2
  <2>2. stream[i].handle \in issued /\ stream[i].handle \in Handles
    BY <2>1 DEF OInv, SamplesOnTheWay, TypeOK
  <2>3. /\ \A s \in Subscriptions : plc[stream[i].handle] = s => stream[i].number <= sampled[s]
        /\ \A s \in Subscriptions : handle[s] = stream[i].handle =>
             \A q \in 1 .. Len(Seen(s)) : Before(Seen(s)[q], stream[i].number)
    BY <2>1 DEF OInv, SamplesOnTheWay
  <2>4. \A j \in 1 .. Len(stream') :
          SampleAt(j)' /\ i < j /\ stream'[i].handle = stream'[j].handle =>
            Before(stream'[i].number, stream'[j].number)
    BY <1>2, <2>1 DEF OInv, SamplesOnTheWay
  <2> QED BY <2>1, <2>2, <2>3, <2>4
<1>5. SamplesSeen'
  <2> SUFFICES ASSUME NEW s \in Subscriptions
               PROVE  /\ handle[s] = None \/ pc'[s] = "replied" => last[s] = 0 /\ queue[s] = <<>>
                      /\ Ordered(Seen(s))
                      /\ \A h \in Handles : plc'[h] = s =>
                           \A q \in 1 .. Len(Seen(s)) : Seen(s)[q] <= sampled[s]
    BY <1>3 DEF SamplesSeen, Ordered, Before
  <2>1. handle[s] = None => Len(Seen(s)) = 1 /\ Seen(s)[1] = 0 /\ sampled[s] \in Nat
    <3>1. ASSUME handle[s] = None PROVE Len(Seen(s)) = 1 /\ Seen(s)[1] = 0 /\ sampled[s] \in Nat
      <4>1. last[s] = 0 /\ queue[s] = <<>> /\ sampled[s] \in 0 .. MaxSamples
        BY <3>1 DEF OInv, SamplesSeen, TypeOK
      <4>2. Len(queue[s]) = 0 /\ sampled[s] \in Nat
        BY <4>1, NotificationConstants
      <4>3. Len(Seen(s)) = Len(queue[s]) + 1 /\ Seen(s)[1] = last[s]
        BY SeenNumbers
      <4> QED BY <4>1, <4>2, <4>3
    <3> QED BY <3>1
  <2> QED BY <2>1 DEF OInv, SamplesSeen
<1> QED BY <1>4, <1>5 DEF OInv

LEMMA PlcSamplesSamples ==
  ASSUME TypeOK, HInv, OInv, NEW h \in Handles, PlcSamples(h)
  PROVE  OInv'
<1> DEFINE s == plc[h]
           n == IF sampled[s] = MaxSamples THEN MaxSamples ELSE sampled[s] + 1
           f == [kind |-> "sample", handle |-> h, number |-> n]
<1>1. /\ s \in Subscriptions /\ s # None /\ Len(stream) < MaxStream
      /\ sampled' = [sampled EXCEPT ![s] = n] /\ stream' = Append(stream, f)
      /\ UNCHANGED <<pc, handle, last, queue, plc, issued>>
  BY DEF PlcSamples, TypeOK, sub_vars, channel_vars
<1>2. /\ sampled[s] \in Nat /\ n \in 1 .. MaxSamples /\ MaxSamples \in Nat /\ sampled[s] <= n
      /\ \A a \in Nat : a <= sampled[s] => Before(a, n)
  <2>1. sampled[s] \in 0 .. MaxSamples
    BY <1>1 DEF TypeOK
  <2> QED BY <2>1, NotificationConstants DEF Before
<1>3. f \in Frames /\ f.kind = "sample" /\ f.handle = h /\ f.number = n
  BY <1>2 DEF Frames
<1> HIDE DEF f, n
<1>4. /\ Len(stream) \in Nat /\ Len(stream') = Len(stream) + 1
      /\ stream'[Len(stream) + 1] = f /\ \A i \in 1 .. Len(stream) : stream'[i] = stream[i]
  BY <1>1, <1>3, Streams
<1>5. \A i \in 1 .. Len(stream') :
        \/ i = Len(stream) + 1 /\ stream'[i] = f
        \/ i \in 1 .. Len(stream) /\ stream'[i] = stream[i]
  BY <1>4
<1>6. /\ h \in issued /\ \A u \in Subscriptions : handle[u] = h => u = s
  BY <1>1 DEF HInv, HandlesOfPlc
<1>7. \A u \in Subscriptions : sampled'[u] \in Nat /\ sampled[u] \in Nat /\ sampled[u] <= sampled'[u]
  <2>1. \A u \in Subscriptions : sampled[u] \in Nat
    BY NotificationConstants DEF TypeOK
  <2> QED BY <1>1, <1>2, <2>1 DEF TypeOK
<1>8. \A u \in Subscriptions :
        /\ Seen(u)' = Seen(u) /\ \A q \in 1 .. Len(Seen(u)) : Seen(u)[q] \in Nat
  <2> TAKE u \in Subscriptions
  <2>1. Seen(u)' = Seen(u)
    BY <1>1 DEF Seen
  <2>2. Seen(u) \in Seq(0 .. MaxSamples)
    BY SeenNumbers
  <2> QED BY <1>2, <2>1, <2>2
<1> HIDE DEF Seen, s
<1>9. \A i \in 1 .. Len(stream) : SampleAt(i) => stream[i].number \in Nat /\ stream[i].handle \in Handles
  BY <1>2 DEF TypeOK, SampleAt, Frames
<1>10. SamplesOnTheWay'
  <2> SUFFICES ASSUME NEW i \in 1 .. Len(stream'), SampleAt(i)'
               PROVE  /\ stream'[i].handle \in issued
                      /\ \A j \in 1 .. Len(stream') :
                           SampleAt(j)' /\ i < j /\ stream'[i].handle = stream'[j].handle =>
                             Before(stream'[i].number, stream'[j].number)
                      /\ \A u \in Subscriptions :
                           plc[stream'[i].handle] = u => stream'[i].number <= sampled'[u]
                      /\ \A u \in Subscriptions : handle[u] = stream'[i].handle =>
                           \A q \in 1 .. Len(Seen(u)) : Before(Seen(u)[q], stream'[i].number)
    BY <1>1, <1>8 DEF SamplesOnTheWay, Before
  <2>1. CASE i = Len(stream) + 1
    <3>1. stream'[i].handle = h /\ stream'[i].number = n
      BY <1>3, <1>4, <2>1
    <3>2. \A j \in 1 .. Len(stream') : ~(i < j)
      BY <1>4, <2>1
    <3>3. sampled'[s] = n /\ plc[h] = s
      BY <1>1 DEF TypeOK, s
    <3>4. \A q \in 1 .. Len(Seen(s)) : Before(Seen(s)[q], n)
      <4>1. \A q \in 1 .. Len(Seen(s)) : Seen(s)[q] <= sampled[s] /\ Seen(s)[q] \in Nat
        BY <1>1, <1>8, <3>3 DEF OInv, SamplesSeen
      <4> QED BY <1>2, <4>1
    <3> QED BY <1>1, <1>2, <1>6, <3>1, <3>2, <3>3, <3>4
  <2>2. CASE i \in 1 .. Len(stream)
    <3>1. SampleAt(i) /\ stream'[i] = stream[i]
      BY <1>4, <2>2 DEF SampleAt
    <3>2. /\ stream[i].handle \in issued
          /\ \A u \in Subscriptions : plc[stream[i].handle] = u => stream[i].number <= sampled[u]
          /\ \A u \in Subscriptions : handle[u] = stream[i].handle =>
               \A q \in 1 .. Len(Seen(u)) : Before(Seen(u)[q], stream[i].number)
      BY <2>2, <3>1 DEF OInv, SamplesOnTheWay
    <3>3. \A u \in Subscriptions : plc[stream[i].handle] = u => stream[i].number <= sampled'[u]
      BY <1>7, <1>9, <2>2, <3>1, <3>2
    <3>4. ASSUME NEW j \in 1 .. Len(stream'), SampleAt(j)', i < j,
                 stream'[i].handle = stream'[j].handle
          PROVE  Before(stream'[i].number, stream'[j].number)
      <4>1. CASE j = Len(stream) + 1
        <5>1. stream[i].handle = h /\ stream'[j].number = n
          BY <1>3, <1>4, <3>1, <3>4, <4>1
        <5>2. stream[i].number <= sampled[s] /\ stream[i].number \in Nat
          BY <1>1, <1>9, <2>2, <3>1, <3>2, <5>1 DEF s
        <5> QED BY <1>2, <3>1, <5>1, <5>2
      <4>2. CASE j \in 1 .. Len(stream)
        <5>1. SampleAt(j) /\ stream'[j] = stream[j]
          BY <1>4, <3>4, <4>2 DEF SampleAt
        <5> QED BY <2>2, <3>1, <3>4, <4>2, <5>1 DEF OInv, SamplesOnTheWay
      <4> QED BY <1>4, <4>1, <4>2
    <3> QED BY <3>1, <3>2, <3>3, <3>4
  <2> QED BY <1>4, <2>1, <2>2
<1>11. SamplesSeen'
  <2> SUFFICES ASSUME NEW u \in Subscriptions
               PROVE  /\ handle[u] = None \/ pc[u] = "replied" => last[u] = 0 /\ queue[u] = <<>>
                      /\ Ordered(Seen(u))
                      /\ \A k \in Handles : plc[k] = u =>
                           \A q \in 1 .. Len(Seen(u)) : Seen(u)[q] <= sampled'[u]
    BY <1>1, <1>8 DEF SamplesSeen, Ordered, Before
  <2>1. /\ handle[u] = None \/ pc[u] = "replied" => last[u] = 0 /\ queue[u] = <<>>
        /\ Ordered(Seen(u))
        /\ \A k \in Handles : plc[k] = u => \A q \in 1 .. Len(Seen(u)) : Seen(u)[q] <= sampled[u]
    BY DEF OInv, SamplesSeen
  <2> QED BY <1>7, <1>8, <2>1
<1> QED BY <1>10, <1>11 DEF OInv

(* The reader takes a frame; if it is a sample the last subscriber sees one more.*)
LEMMA ReaderSamples ==
  ASSUME TypeOK, HInv, DInv, OInv, ReaderStep
  PROVE  OInv'
<1>1. /\ stream # <<>> /\ Head(stream) \in Frames /\ Head(stream) = stream[1]
      /\ Len(stream) \in Nat /\ Len(stream) > 0 /\ Len(stream') = Len(stream) - 1
      /\ \A i \in 1 .. Len(stream) - 1 : stream'[i] = stream[i + 1]
  BY Streams DEF ReaderStep, ReadAdded, ReadDeleted, ReadSample, Frame
<1>2. \A i \in 1 .. Len(stream') :
        /\ i + 1 \in 1 .. Len(stream) /\ i + 1 > 1 /\ stream'[i] = stream[i + 1]
        /\ SampleAt(i)' => SampleAt(i + 1)
  BY <1>1 DEF SampleAt
<1>3. UNCHANGED <<issued, plc, sampled>>
  BY DEF ReaderStep, ReadAdded, ReadDeleted, ReadSample, plc_vars
<1>4. \A i \in 1 .. Len(stream) : SampleAt(i) => stream[i].number \in 1 .. MaxSamples
  BY DEF TypeOK, SampleAt, Frames
<1>5. ASSUME NEW i \in 1 .. Len(stream'), SampleAt(i)'
      PROVE  /\ stream'[i].handle \in issued
             /\ \A j \in 1 .. Len(stream') :
                  SampleAt(j)' /\ i < j /\ stream'[i].handle = stream'[j].handle =>
                    Before(stream'[i].number, stream'[j].number)
             /\ \A u \in Subscriptions : plc[stream'[i].handle] = u => stream'[i].number <= sampled[u]
             /\ \A u \in Subscriptions : handle[u] = stream'[i].handle =>
                  \A q \in 1 .. Len(Seen(u)) : Before(Seen(u)[q], stream'[i].number)
  <2>1. ASSUME NEW j \in 1 .. Len(stream'), SampleAt(j)', i < j,
               stream'[i].handle = stream'[j].handle
        PROVE  Before(stream'[i].number, stream'[j].number)
    <3>1. i + 1 < j + 1
      BY <1>1, <2>1
    <3> QED BY <1>2, <1>5, <2>1, <3>1 DEF OInv, SamplesOnTheWay
  <2> QED BY <1>2, <1>5, <2>1 DEF OInv, SamplesOnTheWay
<1>6. CASE UNCHANGED <<pc, handle, last, queue>>
  <2>1. \A u \in Subscriptions : Seen(u)' = Seen(u)
    BY <1>6 DEF Seen
  <2> HIDE DEF Seen
  <2>2. SamplesOnTheWay'
    BY <1>3, <1>5, <1>6, <2>1 DEF SamplesOnTheWay, Before
  <2>3. SamplesSeen'
    BY <1>3, <1>6, <2>1 DEF OInv, SamplesSeen, Ordered, Before
  <2> QED BY <2>2, <2>3 DEF OInv
<1>7. CASE ReadAdded /\ pc[Head(stream).sub] = "processed"
  <2> DEFINE s == Head(stream).sub
             h == Head(stream).handle
  <2>1. /\ s \in Subscriptions /\ pc[s] = "processed" /\ pc' = [pc EXCEPT ![s] = "replied"]
        /\ handle' = [handle EXCEPT ![s] = h] /\ UNCHANGED <<last, queue>>
    BY <1>1, <1>7 DEF ReadAdded, Frame, Frames, channel_vars
  <2> HIDE DEF s, h
  <2>2. handle[s] = None /\ last[s] = 0 /\ queue[s] = <<>>
    BY <2>1 DEF HInv, OwnHandles, OInv, SamplesSeen
  <2>3. Len(Seen(s)) = 1 /\ Seen(s)[1] = 0
    <3>1. Len(queue[s]) = 0
      BY <2>2
    <3>2. Len(Seen(s)) = Len(queue[s]) + 1 /\ Seen(s)[1] = last[s]
      BY <2>1, SeenNumbers
    <3> QED BY <2>2, <3>1, <3>2
  <2>4. \A u \in Subscriptions : Seen(u)' = Seen(u)
    BY <2>1 DEF Seen
  <2> HIDE DEF Seen
  <2>5. SamplesOnTheWay'
    <3> SUFFICES ASSUME NEW i \in 1 .. Len(stream'), SampleAt(i)', NEW u \in Subscriptions,
                        handle'[u] = stream'[i].handle, NEW q \in 1 .. Len(Seen(u))
                 PROVE  Before(Seen(u)[q], stream'[i].number)
      BY <1>3, <1>5, <2>4 DEF SamplesOnTheWay, Before
    <3>1. CASE u = s
      <4>1. stream'[i].number \in 1 .. MaxSamples
        BY <1>2, <1>4
      <4>2. Seen(u) = Seen(s)
        BY <3>1
      <4>3. q \in 1 .. 1
        BY <2>3, <4>2
      <4>4. q = 1
        BY <4>3
      <4>5. Seen(u)[q] = 0
        BY <2>3, <4>2, <4>4
      <4> QED BY <4>1, <4>5, NotificationConstants DEF Before
    <3>2. CASE u # s
      BY <1>5, <2>1, <3>2 DEF TypeOK
    <3> QED BY <3>1, <3>2
  <2>6. SamplesSeen'
    <3> SUFFICES ASSUME NEW u \in Subscriptions
                 PROVE  /\ handle'[u] = None \/ pc'[u] = "replied" => last[u] = 0 /\ queue[u] = <<>>
                        /\ Ordered(Seen(u))
                        /\ \A k \in Handles : plc[k] = u =>
                             \A q \in 1 .. Len(Seen(u)) : Seen(u)[q] <= sampled[u]
      BY <1>3, <2>1, <2>4 DEF SamplesSeen, Ordered, Before
    <3>1. u # s => handle'[u] = handle[u] /\ pc'[u] = pc[u]
      BY <2>1 DEF TypeOK
    <3> QED BY <2>2, <3>1 DEF OInv, SamplesSeen
  <2> QED BY <2>5, <2>6 DEF OInv
<1>8. CASE ReadSample /\ ~UNCHANGED queue
  <2>0. PICK h, n, s : h = Head(stream).handle /\ n = Head(stream).number /\ s = subscribers[h]
    OBVIOUS
  <2>1. SampleAt(1) /\ h \in Handles /\ n \in 1 .. MaxSamples /\ 1 \in 1 .. Len(stream)
    BY <1>1, <1>8, <2>0 DEF ReadSample, Frame, Frames, SampleAt
  <2>2. stream[1].handle = h /\ stream[1].number = n
    BY <1>1, <2>0
  <2>3. s # None /\ queue' = [queue EXCEPT ![s] = Append(queue[s], n)]
    BY <1>8, <2>0 DEF ReadSample
  <2>4. s \in Subscriptions /\ pc[s] = "live" /\ handle[s] = h
    BY <2>0, <2>1, <2>3 DEF DInv, Deletions, TypeOK
  <2>5. UNCHANGED <<pc, handle, last>>
    BY <1>8 DEF ReadSample
  <2>6. \A u \in Subscriptions : u # s => Seen(u)' = Seen(u)
    BY <2>3, <2>5 DEF Seen, TypeOK
  <2>7. /\ Seen(s) \in Seq(0 .. MaxSamples) /\ Len(Seen(s)) \in Nat /\ Len(Seen(s)) > 0
        /\ Len(Seen(s)') = Len(Seen(s)) + 1 /\ Seen(s)'[Len(Seen(s)) + 1] = n
        /\ \A q \in 1 .. Len(Seen(s)) : Seen(s)'[q] = Seen(s)[q]
    <3>1. /\ Seen(s) \in Seq(0 .. MaxSamples) /\ Len(Seen(s)) = Len(queue[s]) + 1
          /\ Len(queue[s]) \in Nat
      BY <2>4, SeenNumbers
    <3>2. Seen(s)' = <<last[s]>> \o Append(queue[s], n)
      <4>1. queue'[s] = Append(queue[s], n)
        BY <2>3, <2>4 DEF TypeOK
      <4>2. last' = last
        BY <2>5
      <4>3. Seen(s)' = <<last'[s]>> \o queue'[s]
        BY DEF Seen
      <4> QED BY <4>1, <4>2, <4>3
    <3>3. queue[s] \in Seq(0 .. MaxSamples) /\ last[s] \in 0 .. MaxSamples /\ n \in 0 .. MaxSamples
      BY <2>1, <2>4, NotificationConstants DEF TypeOK
    <3>4. <<last[s]>> \o Append(queue[s], n) = Append(<<last[s]>> \o queue[s], n)
      BY <3>3
    <3>5. Seen(s)' = Append(Seen(s), n)
      BY <3>2, <3>4 DEF Seen
    <3> HIDE DEF Seen
    <3> QED BY <3>1, <3>3, <3>5
  <2> HIDE DEF Seen
  <2>8. \A q \in 1 .. Len(Seen(s)') :
          \/ q = Len(Seen(s)) + 1 /\ Seen(s)'[q] = n
          \/ q \in 1 .. Len(Seen(s)) /\ Seen(s)'[q] = Seen(s)[q]
    BY <2>7
  <2>9. /\ \A q \in 1 .. Len(Seen(s)) : Before(Seen(s)[q], n)
        /\ plc[h] = s => n <= sampled[s]
        /\ \A i \in 1 .. Len(stream') :
             SampleAt(i)' /\ stream'[i].handle = h => Before(n, stream'[i].number)
    <3>1. /\ \A q \in 1 .. Len(Seen(s)) : Before(Seen(s)[q], n)
          /\ plc[h] = s => n <= sampled[s]
      BY <2>1, <2>2, <2>4 DEF OInv, SamplesOnTheWay
    <3>2. ASSUME NEW i \in 1 .. Len(stream'), SampleAt(i)', stream'[i].handle = h
          PROVE  Before(n, stream'[i].number)
      <4>1. SampleAt(i + 1) /\ 1 < i + 1 /\ i + 1 \in 1 .. Len(stream) /\ stream'[i] = stream[i + 1]
        BY <1>2, <3>2
      <4> QED BY <2>1, <2>2, <3>2, <4>1 DEF OInv, SamplesOnTheWay
    <3> QED BY <3>1, <3>2
  <2>10. SamplesOnTheWay'
    <3> SUFFICES ASSUME NEW i \in 1 .. Len(stream'), SampleAt(i)', NEW u \in Subscriptions,
                        handle[u] = stream'[i].handle, NEW q \in 1 .. Len(Seen(u)')
                 PROVE  Before(Seen(u)'[q], stream'[i].number)
      BY <1>3, <1>5, <2>5 DEF SamplesOnTheWay, Before
    <3>1. CASE u = s
      <4>1. stream'[i].handle = h /\ q \in 1 .. Len(Seen(s)') /\ Seen(u)' = Seen(s)'
        BY <2>4, <3>1
      <4>2. CASE q = Len(Seen(s)) + 1 /\ Seen(s)'[q] = n
        BY <2>9, <4>1, <4>2
      <4>3. CASE q \in 1 .. Len(Seen(s)) /\ Seen(s)'[q] = Seen(s)[q]
        <5>1. Before(Seen(s)[q], stream'[i].number)
          BY <1>5, <2>4, <4>1, <4>3
        <5> QED BY <4>1, <4>3, <5>1
      <4> QED BY <2>8, <4>1, <4>2, <4>3
    <3>2. CASE u # s
      BY <1>5, <2>6, <3>2
    <3> QED BY <3>1, <3>2
  <2>11. SamplesSeen'
    <3> SUFFICES ASSUME NEW u \in Subscriptions
                 PROVE  /\ handle[u] = None \/ pc[u] = "replied" => last[u] = 0 /\ queue'[u] = <<>>
                        /\ Ordered(Seen(u)')
                        /\ \A k \in Handles : plc[k] = u =>
                             \A q \in 1 .. Len(Seen(u)') : Seen(u)'[q] <= sampled[u]
      BY <1>3, <2>5 DEF SamplesSeen, Ordered, Before
    <3>0. /\ handle[u] = None \/ pc[u] = "replied" => last[u] = 0 /\ queue[u] = <<>>
          /\ Ordered(Seen(u))
          /\ \A k \in Handles : plc[k] = u => \A q \in 1 .. Len(Seen(u)) : Seen(u)[q] <= sampled[u]
      BY DEF OInv, SamplesSeen
    <3>1. CASE u # s
      <4>1. queue'[u] = queue[u] /\ Seen(u)' = Seen(u)
        BY <2>3, <2>6, <3>1 DEF TypeOK
      <4> QED BY <3>0, <4>1
    <3>2. CASE u = s
      <4>1. handle[u] # None /\ pc[u] # "replied"
        BY <2>1, <2>4, <3>2, NotificationConstants
      <4>2. Ordered(Seen(s)')
        <5> SUFFICES ASSUME NEW q \in 1 .. Len(Seen(s)') - 1
                     PROVE  Before(Seen(s)'[q], Seen(s)'[q + 1])
          BY DEF Ordered
        <5>1. CASE q = Len(Seen(s))
          BY <2>7, <2>9, <5>1
        <5>2. CASE q # Len(Seen(s))
          <6>1. q \in 1 .. Len(Seen(s)) - 1 /\ q \in 1 .. Len(Seen(s)) /\ q + 1 \in 1 .. Len(Seen(s))
            BY <2>7, <5>2
          <6> QED BY <2>7, <3>0, <3>2, <6>1 DEF Ordered
        <5> QED BY <5>1, <5>2
      <4>3. ASSUME NEW k \in Handles, plc[k] = u, NEW q \in 1 .. Len(Seen(u)')
            PROVE  Seen(u)'[q] <= sampled[u]
        <5>1. k = h
          <6>1. handle[plc[k]] \in {k, None} /\ h # None
            BY <2>1, <3>2, <2>4, <4>3, NotificationConstants DEF HInv, HandlesOfPlc
          <6> QED BY <2>4, <3>2, <4>3, <6>1
        <5>2. /\ plc[h] = s /\ plc[k] = s /\ q \in 1 .. Len(Seen(s)') /\ Seen(u)' = Seen(s)'
              /\ sampled[u] = sampled[s] /\ Seen(u) = Seen(s)
          BY <3>2, <4>3, <5>1
        <5>3. CASE q = Len(Seen(s)) + 1 /\ Seen(s)'[q] = n
          BY <2>9, <5>2, <5>3
        <5>4. CASE q \in 1 .. Len(Seen(s)) /\ Seen(s)'[q] = Seen(s)[q]
          <6>1. Seen(u)[q] <= sampled[u]
            BY <3>0, <4>3, <5>2, <5>4
          <6> QED BY <5>2, <5>4, <6>1
        <5> QED BY <2>8, <5>2, <5>3, <5>4
      <4>4. Ordered(Seen(u)')
        BY <3>2, <4>2
      <4> QED BY <4>1, <4>3, <4>4
    <3> QED BY <3>1, <3>2
  <2> QED BY <2>10, <2>11 DEF OInv
<1>9. \/ UNCHANGED <<pc, handle, last, queue>>
      \/ ReadAdded /\ pc[Head(stream).sub] = "processed"
      \/ ReadSample /\ ~UNCHANGED queue
  BY DEF ReaderStep, ReadAdded, ReadDeleted, ReadSample, sub_vars, channel_vars
<1> QED BY <1>6, <1>7, <1>8, <1>9

LEMMA NextSamples ==
  TypeOK /\ TypeOK' /\ HInv /\ DInv /\ OInv /\ FreshHandles /\ [Next]_vars => OInv'
<1> SUFFICES ASSUME TypeOK, TypeOK', HInv, DInv, OInv, FreshHandles, [Next]_vars PROVE OInv'
  OBVIOUS
<1>1. ASSUME NEW s \in Subscriptions, Add(s) \/ AddFails(s) \/ Subscribe(s) PROVE OInv'
  <2>1. UNCHANGED <<handle, last, queue, stream, plc, issued, sampled>>
    BY <1>1 DEF Add, AddFails, Subscribe, channel_vars, plc_vars
  <2>2. \A u \in Subscriptions : pc'[u] = "replied" => pc[u] = "replied"
    BY <1>1 DEF Add, AddFails, Subscribe, TypeOK
  <2> QED BY <2>1, <2>2 DEF OInv, SamplesOnTheWay, SamplesSeen, SampleAt, Seen
<1>2. ASSUME NEW s \in Subscriptions, Receive(s) \/ DropReceiver(s) PROVE OInv'
  BY <1>2, ReceiveSamples
<1>3. ASSUME NEW s \in Subscriptions, Unsubscribe(s) PROVE OInv'
  BY <1>3, SamplesStay DEF Unsubscribe, sample_vars, channel_vars, plc_vars
<1>4. ASSUME NEW s \in Subscriptions, PlcAdds(s) PROVE OInv'
  <2>1. PICK h \in Handles :
          /\ h \notin issued /\ plc' = [plc EXCEPT ![h] = s] /\ issued' = issued \cup {h}
          /\ stream' = Append(stream, [kind |-> "added", sub |-> s, handle |-> h])
    BY <1>4 DEF PlcAdds
  <2> DEFINE f == [kind |-> "added", sub |-> s, handle |-> h]
  <2>2. f \in Frames /\ f.kind # "sample"
    BY DEF Frames
  <2>3. stream' = Append(stream, f)
    BY <2>1
  <2> HIDE DEF f
  <2>4. /\ pc[s] = "requested" /\ pc' = [pc EXCEPT ![s] = "processed"] /\ Len(stream) < MaxStream
        /\ UNCHANGED <<handle, last, queue, sampled>>
    BY <1>4 DEF PlcAdds, channel_vars
  <2>5. handle[s] = None
    BY <2>4 DEF HInv, OwnHandles
  <2>6. \A u \in Subscriptions : pc'[u] = "replied" => pc[u] = "replied"
    BY <2>4 DEF TypeOK
  <2>7. \A k \in Handles : \A u \in Subscriptions :
          plc'[k] = u => plc[k] = u \/ (handle[u] = None /\ k \notin issued)
    BY <2>1, <2>5 DEF TypeOK
  <2>8. issued \subseteq issued'
    BY <2>1
  <2> QED BY <2>2, <2>3, <2>4, <2>6, <2>7, <2>8, OtherFrameSamples
<1>5. ASSUME NEW h \in Handles, PlcSamples(h) PROVE OInv'
  BY <1>5, PlcSamplesSamples
<1>6. ASSUME NEW d \in Deleters, PlcDeletes(d) PROVE OInv'
  <2> DEFINE f == [kind |-> "deleted", by |-> d, ok |-> plc[target[d]] # None]
  <2>1. f \in Frames /\ f.kind # "sample"
    BY DEF Frames
  <2>2. /\ stream' = Append(stream, f)
        /\ plc' = [plc EXCEPT ![target[d]] = None]
        /\ UNCHANGED <<pc, handle, last, queue, sampled, issued>>
    BY <1>6 DEF PlcDeletes, sub_vars, channel_vars
  <2> HIDE DEF f
  <2>3. \A k \in Handles : \A u \in Subscriptions : plc'[k] = u => plc[k] = u
    BY <2>2, NotificationConstants DEF TypeOK
  <2> QED BY <2>1, <2>2, <2>3, OtherFrameSamples
<1>7. ASSUME NEW d \in Deleters, DeleterStep(d) PROVE OInv'
  <2>1. CASE DeleteFails(d)
    <3>1. stream' = Orphaned(d) /\ UNCHANGED <<pc, handle, last, queue, plc, issued, sampled>>
      BY <2>1 DEF DeleteFails, sub_vars, channel_vars
    <3> QED BY <3>1, OrphanSamples
  <2>2. CASE DeleteSend(d) \/ DeleteRefused(d) \/ DeleteRemove(d)
    BY <2>2, SamplesStay
       DEF DeleteSend, DeleteRefused, DeleteRemove, sample_vars, sub_vars, channel_vars, plc_vars
  <2> QED BY <1>7, <2>1, <2>2 DEF DeleterStep
<1>10. ASSUME NEW h \in Handles, PlcDeletesLate(h) PROVE OInv'
  <2>1. /\ plc' = [plc EXCEPT ![h] = None]
        /\ UNCHANGED <<pc, handle, last, queue, stream, issued, sampled>>
    BY <1>10 DEF PlcDeletesLate, sub_vars, channel_vars
  <2>2. \A k \in Handles : \A u \in Subscriptions : plc'[k] = u => plc[k] = u
    BY <2>1, NotificationConstants DEF TypeOK
  <2> QED BY <2>1, <2>2, FewerHandlesSamples
<1>8. CASE CloseBegin \/ CloseStep \/ ConnectionFails \/ ClearSubscribers \/ ReaderEnds
  BY <1>8, SamplesStay
     DEF CloseBegin, CloseStep, CloseDeletes, CloseStops, CloseTearsDown, ConnectionFails,
         ClearSubscribers, ReaderEnds, sample_vars, sub_vars, channel_vars, plc_vars
<1>9. CASE Finished \/ UNCHANGED vars
  BY <1>9, SamplesStay DEF Finished, vars, sample_vars, sub_vars, channel_vars, plc_vars
<1> QED BY <1>1, <1>2, <1>3, <1>4, <1>5, <1>6, <1>7, <1>8, <1>9, <1>10, ReaderSamples
        DEF Next, PlcStep

--------------------------------------------------------------------------------
(* What close() has found, even when the PLC gives handles out again.           *)

(* A subscription has one handle at most: the one in its reply.                 *)
Acquainted ==
  /\ \A s \in Subscriptions :
       /\ handle[s] # None => pc[s] \in {"replied", "live", "failed"}
       /\ pc[s] \in {"replied", "live"} => handle[s] # None
  /\ \A i \in 1 .. Len(stream) : AddedAt(i) => pc[stream[i].sub] \notin {"idle", "requested"}
  /\ \A h \in Handles : plc[h] # None =>
       /\ pc[plc[h]] \notin {"idle", "requested"}
       /\ handle[plc[h]] \in {h, None}
       /\ \A i \in 1 .. Len(stream) : AddedAt(i) /\ stream[i].sub = plc[h] => stream[i].handle = h

(* What close() found is on its list, is being deleted by it, is deleted, or    *)
(* could not be.                                                                *)
LeftToDo ==
  /\ \A s \in found : pc[s] = "live"
  /\ \A h \in Handles : subscribers[h] # None =>
       pc[subscribers[h]] = "live" /\ handle[subscribers[h]] = h
  /\ closer # "deleting" => to_delete = {}
  /\ closer \in {"stopped", "closed"} => stage[Closer] = "free"
  /\ \A h \in Handles : plc[h] \in found =>
       \/ h \in to_delete \cup given_up
       \/ stage[Closer] \in {"send", "sent"} /\ target[Closer] = h

KInv == Acquainted /\ LeftToDo

(* No handle is given out, and no subscription goes on. *)
LEMMA AcquaintedStays ==
  ASSUME Acquainted, UNCHANGED <<pc, handle>>,
         \A h \in Handles : plc'[h] \in {plc[h], None},
         \A i \in 1 .. Len(stream') : AddedAt(i)' =>
           \E j \in 1 .. Len(stream) : AddedAt(j) /\ stream'[i] = stream[j]
  PROVE  Acquainted'
BY DEF Acquainted

(* The frames that give out handles: the reader takes them, and only PlcAdds    *)
(* sends one.                                                                   *)
LEMMA AddedFrames ==
  ASSUME TypeOK,
         \/ UNCHANGED stream
         \/ stream # <<>> /\ stream' = Tail(stream)
         \/ \E f \in Frames : f.kind # "added" /\ stream' = Append(stream, f)
         \/ \E d \in Deleters : stream' = Orphaned(d)
  PROVE  \A i \in 1 .. Len(stream') : AddedAt(i)' =>
           \E j \in 1 .. Len(stream) : AddedAt(j) /\ stream'[i] = stream[j]
<1>1. CASE UNCHANGED stream
  BY <1>1 DEF AddedAt
<1>2. CASE stream # <<>> /\ stream' = Tail(stream)
  <2>1. /\ Len(stream) \in Nat /\ Len(stream') = Len(stream) - 1
        /\ \A i \in 1 .. Len(stream) - 1 : stream'[i] = stream[i + 1]
    BY <1>2, Streams
  <2>2. \A i \in 1 .. Len(stream') :
          /\ i + 1 \in 1 .. Len(stream) /\ stream'[i] = stream[i + 1]
          /\ AddedAt(i)' => AddedAt(i + 1)
    BY <2>1 DEF AddedAt
  <2> QED BY <2>2
<1>3. ASSUME NEW f \in Frames, f.kind # "added", stream' = Append(stream, f)
      PROVE  \A i \in 1 .. Len(stream') : AddedAt(i)' =>
               \E j \in 1 .. Len(stream) : AddedAt(j) /\ stream'[i] = stream[j]
  <2>1. /\ Len(stream) \in Nat /\ Len(stream') = Len(stream) + 1
        /\ stream'[Len(stream) + 1] = f /\ \A i \in 1 .. Len(stream) : stream'[i] = stream[i]
    BY <1>3, Streams
  <2> QED BY <1>3, <2>1 DEF AddedAt
<1>4. ASSUME NEW d \in Deleters, stream' = Orphaned(d)
      PROVE  \A i \in 1 .. Len(stream') : AddedAt(i)' =>
               \E j \in 1 .. Len(stream) : AddedAt(j) /\ stream'[i] = stream[j]
  <2>1. /\ Len(stream') = Len(stream)
        /\ \A i \in 1 .. Len(stream) : AddedAt(i)' => AddedAt(i) /\ stream'[i] = stream[i]
    BY <1>4, Orphans DEF AddedAt
  <2> QED BY <2>1
<1> QED BY <1>1, <1>2, <1>3, <1>4

LEMMA AddedSubscriptions ==
  ASSUME TypeOK PROVE \A i \in 1 .. Len(stream) : AddedAt(i) => stream[i].sub \in Subscriptions
<1>1. \A i \in 1 .. Len(stream) : stream[i] \in Frames
  BY DEF TypeOK
<1> QED BY <1>1 DEF AddedAt, Frames

LEMMA NextAcquainted == TypeOK /\ Acquainted /\ [Next]_vars => Acquainted'
<1> SUFFICES ASSUME TypeOK, Acquainted, [Next]_vars PROVE Acquainted'
  OBVIOUS
<1>1. ASSUME NEW s \in Subscriptions, Add(s) \/ AddFails(s) \/ Subscribe(s) PROVE Acquainted'
  <2>1. PICK label : /\ pc' = [pc EXCEPT ![s] = label]
                     /\ \/ pc[s] = "idle" /\ label \in {"failed", "requested"}
                        \/ pc[s] \in {"requested", "processed"} /\ label = "failed"
                        \/ pc[s] = "replied" /\ label \in {"live", "failed"}
    BY <1>1 DEF Add, AddFails, Subscribe
  <2>2. UNCHANGED <<handle, stream, plc>>
    BY <1>1 DEF Add, AddFails, Subscribe, plc_vars
  <2> QED BY <2>1, <2>2 DEF Acquainted, AddedAt, TypeOK
<1>2. ASSUME NEW s \in Subscriptions, PlcAdds(s) PROVE Acquainted'
  <2>1. PICK h \in Handles :
          /\ plc' = [plc EXCEPT ![h] = s]
          /\ stream' = Append(stream, [kind |-> "added", sub |-> s, handle |-> h])
    BY <1>2 DEF PlcAdds
  <2> DEFINE f == [kind |-> "added", sub |-> s, handle |-> h]
  <2>2. f \in Frames /\ f.sub = s /\ f.handle = h
    BY DEF Frames
  <2>3. stream' = Append(stream, f)
    BY <2>1
  <2> HIDE DEF f
  <2>4. /\ Len(stream) \in Nat /\ Len(stream') = Len(stream) + 1
        /\ stream'[Len(stream) + 1] = f /\ \A i \in 1 .. Len(stream) : stream'[i] = stream[i]
    BY <2>2, <2>3, Streams
  <2>5. \A i \in 1 .. Len(stream') :
          \/ stream'[i] = f
          \/ i \in 1 .. Len(stream) /\ stream'[i] = stream[i] /\ (AddedAt(i)' => AddedAt(i))
    BY <2>4 DEF AddedAt
  <2>6. /\ pc[s] = "requested" /\ pc' = [pc EXCEPT ![s] = "processed"] /\ UNCHANGED handle
    BY <1>2 DEF PlcAdds
  <2>7. handle[s] = None /\ \A k \in Handles : plc[k] # s
    BY <2>6, NotificationConstants DEF Acquainted
  <2>8. \A i \in 1 .. Len(stream) : AddedAt(i) => stream[i].sub # s
    BY <2>6 DEF Acquainted
  <2>9. \A u \in Subscriptions : /\ handle'[u] # None => pc'[u] \in {"replied", "live", "failed"}
                                 /\ pc'[u] \in {"replied", "live"} => handle'[u] # None
    BY <2>6, <2>7 DEF Acquainted, TypeOK
  <2>10. \A i \in 1 .. Len(stream') : AddedAt(i)' => pc'[stream'[i].sub] \notin {"idle", "requested"}
    BY <2>2, <2>5, <2>6, <2>8, AddedSubscriptions DEF Acquainted, TypeOK
  <2>11. ASSUME NEW k \in Handles, plc'[k] # None
         PROVE  /\ pc'[plc'[k]] \notin {"idle", "requested"}
                /\ handle'[plc'[k]] \in {k, None}
                /\ \A i \in 1 .. Len(stream') :
                     AddedAt(i)' /\ stream'[i].sub = plc'[k] => stream'[i].handle = k
    <3>1. CASE k = h
      BY <2>1, <2>2, <2>5, <2>6, <2>7, <2>8, <3>1 DEF TypeOK
    <3>2. CASE k # h
      BY <2>1, <2>2, <2>5, <2>6, <2>7, <2>11, <3>2 DEF Acquainted, TypeOK
    <3> QED BY <3>1, <3>2
  <2> QED BY <2>9, <2>10, <2>11 DEF Acquainted
<1>3. CASE ReadAdded
  <2>1. /\ stream # <<>> /\ Head(stream) \in Frames /\ Head(stream) = stream[1]
        /\ Len(stream) \in Nat /\ Len(stream) > 0 /\ stream' = Tail(stream) /\ UNCHANGED plc
    BY <1>3, Streams DEF ReadAdded, Frame, plc_vars
  <2>2. \A i \in 1 .. Len(stream') : AddedAt(i)' =>
          \E j \in 1 .. Len(stream) : AddedAt(j) /\ stream'[i] = stream[j]
    BY <2>1, AddedFrames
  <2>3. CASE UNCHANGED <<pc, handle>>
    BY <2>1, <2>2, <2>3, AcquaintedStays
  <2>4. CASE pc[Head(stream).sub] = "processed"
    <3> DEFINE s == stream[1].sub
               h == stream[1].handle
    <3>1. AddedAt(1) /\ s \in Subscriptions /\ h \in Handles /\ 1 \in 1 .. Len(stream)
      BY <1>3, <2>1 DEF ReadAdded, Frame, Frames, AddedAt
    <3>2. /\ pc[s] = "processed" /\ pc' = [pc EXCEPT ![s] = "replied"]
          /\ handle' = [handle EXCEPT ![s] = h]
      BY <1>3, <2>1, <2>4 DEF ReadAdded
    <3>3. \A k \in Handles : plc[k] = s => k = h
      BY <3>1, NotificationConstants DEF Acquainted
    <3> HIDE DEF s, h
    <3>4. h # None
      BY <3>1, NotificationConstants
    <3>5. \A u \in Subscriptions : /\ handle'[u] # None => pc'[u] \in {"replied", "live", "failed"}
                                   /\ pc'[u] \in {"replied", "live"} => handle'[u] # None
      BY <3>1, <3>2, <3>4 DEF Acquainted, TypeOK
    <3>6. \A i \in 1 .. Len(stream') : AddedAt(i)' => pc'[stream'[i].sub] \notin {"idle", "requested"}
      BY <2>2, <3>1, <3>2, AddedSubscriptions DEF Acquainted, TypeOK
    <3>7. \A k \in Handles : plc'[k] # None =>
            /\ pc'[plc'[k]] \notin {"idle", "requested"}
            /\ handle'[plc'[k]] \in {k, None}
      BY <2>1, <3>1, <3>2, <3>3 DEF Acquainted, TypeOK
    <3>8. \A k \in Handles : plc'[k] # None =>
            \A i \in 1 .. Len(stream') :
              AddedAt(i)' /\ stream'[i].sub = plc'[k] => stream'[i].handle = k
      BY <2>1, <2>2 DEF Acquainted
    <3> QED BY <3>5, <3>6, <3>7, <3>8 DEF Acquainted
  <2> QED BY <1>3, <2>3, <2>4 DEF ReadAdded
<1>4. ASSUME UNCHANGED <<pc, handle>>, \A h \in Handles : plc'[h] \in {plc[h], None},
             \/ UNCHANGED stream
             \/ stream # <<>> /\ stream' = Tail(stream)
             \/ \E f \in Frames : f.kind # "added" /\ stream' = Append(stream, f)
             \/ \E d \in Deleters : stream' = Orphaned(d)
      PROVE  Acquainted'
  BY <1>4, AddedFrames, AcquaintedStays
<1>5. ASSUME NEW s \in Subscriptions, Receive(s) \/ DropReceiver(s) \/ Unsubscribe(s)
      PROVE  Acquainted'
  BY <1>4, <1>5 DEF Receive, DropReceiver, Unsubscribe, sub_vars, plc_vars
<1>6. ASSUME NEW d \in Deleters, DeleterStep(d) PROVE Acquainted'
  BY <1>4, <1>6 DEF DeleterStep, DeleteSend, DeleteRefused, DeleteFails, DeleteRemove, sub_vars, plc_vars
<1>7. ASSUME NEW h \in Handles, PlcSamples(h) PROVE Acquainted'
  <2>1. PICK n : stream' = Append(stream, [kind |-> "sample", handle |-> h, number |-> n])
                 /\ n = IF sampled[plc[h]] = MaxSamples THEN MaxSamples ELSE sampled[plc[h]] + 1
    BY <1>7 DEF PlcSamples
  <2>2. n \in 1 .. MaxSamples
    <3>1. sampled[plc[h]] \in 0 .. MaxSamples
      BY <1>7 DEF PlcSamples, TypeOK
    <3> QED BY <2>1, <3>1, NotificationConstants
  <2> DEFINE f == [kind |-> "sample", handle |-> h, number |-> n]
  <2>3. f \in Frames /\ f.kind # "added"
    BY <2>2 DEF Frames
  <2>4. stream' = Append(stream, f) /\ UNCHANGED <<pc, handle, plc>>
    BY <1>7, <2>1 DEF PlcSamples, sub_vars
  <2> HIDE DEF f
  <2> QED BY <1>4, <2>3, <2>4
<1>8. ASSUME NEW d \in Deleters, PlcDeletes(d) PROVE Acquainted'
  <2> DEFINE f == [kind |-> "deleted", by |-> d, ok |-> plc[target[d]] # None]
  <2>1. f \in Frames /\ f.kind # "added"
    BY DEF Frames
  <2>2. /\ stream' = Append(stream, f) /\ UNCHANGED <<pc, handle>>
        /\ \A h \in Handles : plc'[h] \in {plc[h], None}
    BY <1>8 DEF PlcDeletes, sub_vars, TypeOK
  <2> HIDE DEF f
  <2> QED BY <1>4, <2>1, <2>2
<1>9. ASSUME NEW h \in Handles, PlcDeletesLate(h) PROVE Acquainted'
  <2>1. UNCHANGED <<pc, handle, stream>> /\ \A k \in Handles : plc'[k] \in {plc[k], None}
    BY <1>9 DEF PlcDeletesLate, sub_vars, TypeOK
  <2> QED BY <1>4, <2>1
<1>10. CASE ReadDeleted \/ ReadSample
  <2>1. UNCHANGED <<pc, handle, plc>> /\ stream # <<>> /\ stream' = Tail(stream)
    BY <1>10 DEF ReadDeleted, ReadSample, Frame, sub_vars, plc_vars
  <2> QED BY <1>4, <2>1
<1>11. CASE CloseBegin \/ CloseStep \/ ConnectionFails \/ ClearSubscribers \/ ReaderEnds
  BY <1>4, <1>11
     DEF CloseBegin, CloseStep, CloseDeletes, CloseStops, CloseTearsDown, ConnectionFails,
         ClearSubscribers, ReaderEnds, sub_vars, plc_vars
<1>12. CASE Finished \/ UNCHANGED vars
  BY <1>4, <1>12 DEF Finished, vars, sub_vars, plc_vars
<1> QED BY <1>1, <1>2, <1>3, <1>5, <1>6, <1>7, <1>8, <1>9, <1>10, <1>11, <1>12
        DEF Next, PlcStep, ReaderStep

(* close() itself neither asks nor is answered, and nothing is added. *)
LEMMA LeftStays ==
  ASSUME TypeOK, LeftToDo, UNCHANGED <<closer, to_delete, found>>, given_up \subseteq given_up',
         stage'[Closer] = stage[Closer], target'[Closer] = target[Closer],
         \A s \in Subscriptions : pc[s] = "live" => pc'[s] = "live" /\ handle'[s] = handle[s],
         \A h \in Handles : subscribers'[h] \in {subscribers[h], None},
         \A h \in Handles : plc'[h] \in found => plc'[h] = plc[h]
  PROVE  LeftToDo'
<1>1. \A h \in Handles : subscribers[h] \in Subscriptions \cup {None}
  BY DEF TypeOK
<1>2. found \subseteq Subscriptions
  BY DEF TypeOK
<1> QED BY <1>1, <1>2 DEF LeftToDo

(* Another deleter asks, or goes on. *)
LEMMA OthersLeft ==
  ASSUME TypeOK, LeftToDo, NEW d \in Deleters \ {Closer}, NEW l, NEW t,
         stage' = [stage EXCEPT ![d] = l], target' = [target EXCEPT ![d] = t],
         UNCHANGED <<pc, handle, closer, to_delete, found, given_up>>,
         \A h \in Handles : subscribers'[h] \in {subscribers[h], None},
         \A h \in Handles : plc'[h] \in {plc[h], None}
  PROVE  LeftToDo'
<1>1. stage'[Closer] = stage[Closer] /\ target'[Closer] = target[Closer]
  BY NotificationConstants DEF TypeOK
<1>2. None \notin found
  BY NotificationConstants DEF TypeOK
<1> QED BY <1>1, <1>2, LeftStays

LEMMA CallLeft ==
  ASSUME TypeOK, Acquainted, LeftToDo, NEW s \in Subscriptions,
         Add(s) \/ AddFails(s) \/ Subscribe(s) \/ Receive(s) \/ DropReceiver(s) \/ Unsubscribe(s)
  PROVE  LeftToDo'
<1>1. CASE Add(s) \/ AddFails(s) \/ Receive(s) \/ DropReceiver(s)
  <2>1. /\ UNCHANGED <<handle, subscribers, stage, target, closer, to_delete, found, given_up, plc>>
        /\ \A u \in Subscriptions : pc[u] = "live" => pc'[u] = "live"
    BY <1>1 DEF Add, AddFails, Receive, DropReceiver, TypeOK, sub_vars, channel_vars, delete_vars,
                end_vars, close_vars, plc_vars
  <2> QED BY <2>1, LeftStays
<1>2. CASE Subscribe(s)
  <2>1. /\ pc[s] = "replied" /\ handle[s] \in Handles
        /\ UNCHANGED <<handle, stage, target, closer, to_delete, found, given_up, plc>>
        /\ \E l \in {"live", "failed"} : pc' = [pc EXCEPT ![s] = l]
        /\ \/ UNCHANGED subscribers
           \/ pc' = [pc EXCEPT ![s] = "live"] /\ subscribers' = [subscribers EXCEPT ![handle[s]] = s]
    BY <1>2 DEF Subscribe, Acquainted, TypeOK, delete_vars, end_vars, close_vars, plc_vars
  <2>2. \A u \in found : pc'[u] = "live"
    BY <2>1 DEF LeftToDo, TypeOK
  <2>3. \A h \in Handles : subscribers'[h] # None =>
          pc'[subscribers'[h]] = "live" /\ handle'[subscribers'[h]] = h
    BY <2>1 DEF LeftToDo, TypeOK
  <2> QED BY <2>1, <2>2, <2>3 DEF LeftToDo
<1>3. CASE Unsubscribe(s)
  <2>1. PICK d \in Deleters \ {Closer} : Ask(d, handle[s])
    BY <1>3 DEF Unsubscribe
  <2>2. /\ stage' = [stage EXCEPT ![d] = "send"] /\ target' = [target EXCEPT ![d] = handle[s]]
        /\ UNCHANGED <<pc, handle, subscribers, closer, to_delete, found, given_up, plc>>
    BY <1>3, <2>1 DEF Unsubscribe, Ask, channel_vars, end_vars, close_vars, plc_vars
  <2> QED BY <2>2, OthersLeft
<1> QED BY <1>1, <1>2, <1>3

(* Whatever becomes of a deletion of close(), it is done, given up or under way.*)
LEMMA DeleterLeft ==
  ASSUME TypeOK, LeftToDo, NEW d \in Deleters, DeleterStep(d) \/ PlcDeletes(d)
  PROVE  LeftToDo'
<1>1. PICK l :
        /\ stage' = [stage EXCEPT ![d] = l]
        /\ UNCHANGED <<pc, handle, target, closer, to_delete, found>>
        /\ \/ stage[d] = "send" /\ l = "sent" /\ UNCHANGED <<plc, given_up>>
           \/ l = "free" /\ CloseGivesUp(d) /\ UNCHANGED plc
           \/ stage[d] = "remove" /\ l = "free" /\ UNCHANGED <<plc, given_up>>
           \/ /\ stage[d] = "sent" /\ l = "answering" /\ plc' = [plc EXCEPT ![target[d]] = None]
              /\ UNCHANGED given_up
        /\ stage[d] # "free"
  BY DEF DeleterStep, DeleteSend, DeleteRefused, DeleteFails, DeleteRemove, PlcDeletes, sub_vars,
         channel_vars, end_vars, close_vars, plc_vars
<1>2. /\ \A h \in Handles : subscribers'[h] \in {subscribers[h], None}
      /\ \A h \in Handles : plc'[h] \in {plc[h], None}
  BY <1>1 DEF DeleterStep, DeleteSend, DeleteRefused, DeleteFails, DeleteRemove, PlcDeletes,
              channel_vars, TypeOK
<1>3. CASE d # Closer
  <2>1. UNCHANGED given_up
    BY <1>1, <1>3 DEF CloseGivesUp
  <2>2. target' = [target EXCEPT ![d] = target[d]]
    BY <1>1 DEF TypeOK
  <2> QED BY <1>1, <1>2, <1>3, <2>1, <2>2, OthersLeft
<1>4. CASE d = Closer
  <2>1. closer \notin {"stopped", "closed"}
    BY <1>1, <1>4 DEF LeftToDo
  <2>2. \A s \in found : pc'[s] = "live"
    BY <1>1 DEF LeftToDo
  <2>3. \A h \in Handles : subscribers'[h] # None =>
          pc'[subscribers'[h]] = "live" /\ handle'[subscribers'[h]] = h
    BY <1>1, <1>2 DEF LeftToDo
  <2>4. None \notin found
    BY NotificationConstants DEF TypeOK
  <2>5. ASSUME NEW h \in Handles, plc'[h] \in found'
        PROVE  \/ h \in to_delete' \cup given_up'
               \/ stage'[Closer] \in {"send", "sent"} /\ target'[Closer] = h
    <3>0. found' = found /\ plc'[h] \in {plc[h], None}
      BY <1>1, <1>2
    <3>1. plc[h] \in found /\ plc'[h] # None
      BY <2>4, <2>5, <3>0, Zenon
    <3>2. \/ h \in to_delete \cup given_up
          \/ stage[Closer] \in {"send", "sent"} /\ target[Closer] = h
      BY <3>1 DEF LeftToDo
    <3>3. stage'[Closer] = l /\ given_up \subseteq given_up'
      BY <1>1, <1>4 DEF TypeOK, CloseGivesUp
    <3>4. CASE h \in to_delete \cup given_up
      BY <1>1, <3>3, <3>4
    <3>5. CASE stage[Closer] \in {"send", "sent"} /\ target[Closer] = h
      BY <1>1, <1>4, <3>1, <3>3, <3>5 DEF CloseGivesUp, TypeOK
    <3> QED BY <3>2, <3>4, <3>5
  <2> QED BY <1>1, <2>1, <2>2, <2>3, <2>5 DEF LeftToDo
<1> QED BY <1>3, <1>4

LEMMA NextLeft == TypeOK /\ Acquainted /\ LeftToDo /\ [Next]_vars => LeftToDo'
<1> SUFFICES ASSUME TypeOK, Acquainted, LeftToDo, [Next]_vars PROVE LeftToDo'
  OBVIOUS
<1>1. ASSUME NEW s \in Subscriptions, PlcAdds(s) PROVE LeftToDo'
  <2>1. PICK h \in Handles : plc' = [plc EXCEPT ![h] = s]
    BY <1>1 DEF PlcAdds
  <2>2. /\ pc[s] = "requested" /\ pc' = [pc EXCEPT ![s] = "processed"]
        /\ UNCHANGED <<handle, subscribers, stage, target, closer, to_delete, found, given_up>>
    BY <1>1 DEF PlcAdds, channel_vars, delete_vars, end_vars, close_vars
  <2>3. s \notin found
    BY <2>2 DEF LeftToDo
  <2>4. /\ \A u \in Subscriptions : pc[u] = "live" => pc'[u] = "live"
        /\ \A k \in Handles : plc'[k] \in found => plc'[k] = plc[k]
    BY <2>1, <2>2, <2>3 DEF TypeOK
  <2> QED BY <2>2, <2>4, LeftStays
<1>2. ASSUME NEW h \in Handles, PlcSamples(h) \/ PlcDeletesLate(h) PROVE LeftToDo'
  <2>1. UNCHANGED <<pc, handle, subscribers, stage, target, closer, to_delete, found, given_up>>
    BY <1>2 DEF PlcSamples, PlcDeletesLate, sub_vars, channel_vars, delete_vars, end_vars, close_vars
  <2>2. \A k \in Handles : plc'[k] \in {plc[k], None}
    BY <1>2 DEF PlcSamples, PlcDeletesLate, TypeOK
  <2>3. None \notin found
    BY NotificationConstants DEF TypeOK
  <2> QED BY <2>1, <2>2, <2>3, LeftStays
<1>3. CASE ReadAdded
  <2>1. /\ UNCHANGED <<subscribers, stage, target, closer, to_delete, found, given_up, plc>>
        /\ \A u \in Subscriptions : pc[u] = "live" => pc'[u] = "live" /\ handle'[u] = handle[u]
    BY <1>3 DEF ReadAdded, TypeOK, channel_vars, delete_vars, end_vars, close_vars, plc_vars
  <2> QED BY <2>1, LeftStays
<1>4. CASE ReadDeleted
  <2>1. /\ UNCHANGED <<pc, handle, subscribers, target, closer, to_delete, found, given_up, plc>>
        /\ \/ UNCHANGED stage
           \/ \E d, l : stage[d] = "answering" /\ l \in {"remove", "free"}
                        /\ stage' = [stage EXCEPT ![d] = l]
    BY <1>4 DEF ReadDeleted, sub_vars, channel_vars, end_vars, close_vars, plc_vars
  <2>2. \/ stage'[Closer] = stage[Closer]
        \/ stage[Closer] = "answering" /\ stage'[Closer] \in {"remove", "free"}
    BY <2>1, NotificationConstants DEF TypeOK
  <2> QED BY <2>1, <2>2 DEF LeftToDo
<1>5. CASE ReadSample
  <2>1. UNCHANGED <<pc, handle, subscribers, closer, to_delete, found, given_up, plc>>
    BY <1>5 DEF ReadSample, end_vars, close_vars, plc_vars
  <2>2. UNCHANGED delete_vars \/ \E d \in Deleters \ {Closer} : Ask(d, Head(stream).handle)
    BY <1>5 DEF ReadSample, SpawnDelete
  <2>3. CASE UNCHANGED delete_vars
    BY <2>1, <2>3, LeftStays DEF delete_vars
  <2>4. ASSUME NEW d \in Deleters \ {Closer}, Ask(d, Head(stream).handle) PROVE LeftToDo'
    BY <2>1, <2>4, OthersLeft DEF Ask
  <2> QED BY <2>2, <2>3, <2>4
<1>6. CASE CloseBegin
  <2>1. /\ to_delete' = {h \in Handles : subscribers[h] # None} /\ closer' = "deleting"
        /\ found' = {subscribers[h] : h \in to_delete'}
        /\ UNCHANGED <<pc, handle, subscribers, plc>>
    BY <1>6 DEF CloseBegin, channel_vars, delete_vars, plc_vars
  <2>2. \A s \in found' : \E h \in to_delete' : /\ s \in Subscriptions /\ pc[s] = "live"
                                                /\ handle[s] = h /\ h # None
    BY <2>1, NotificationConstants DEF LeftToDo, TypeOK
  <2>3. \A h \in Handles : plc[h] \in found' => h \in to_delete'
    BY <2>2, NotificationConstants DEF Acquainted
  <2> QED BY <2>1, <2>2, <2>3 DEF LeftToDo
<1>7. CASE CloseDeletes
  <2>1. PICK h \in to_delete :
          /\ stage[Closer] = "free" /\ stage' = [stage EXCEPT ![Closer] = "send"]
          /\ target' = [target EXCEPT ![Closer] = h] /\ to_delete' = to_delete \ {h}
    BY <1>7 DEF CloseDeletes, Ask
  <2>2. closer = "deleting" /\ UNCHANGED <<pc, handle, subscribers, closer, found, given_up, plc>>
    BY <1>7 DEF CloseDeletes, sub_vars, channel_vars, plc_vars
  <2>3. stage'[Closer] = "send" /\ target'[Closer] = h
    BY <2>1, NotificationConstants DEF TypeOK
  <2> QED BY <2>1, <2>2, <2>3 DEF LeftToDo
<1>8. CASE CloseStops \/ CloseTearsDown
  BY <1>8 DEF CloseStops, CloseTearsDown, LeftToDo, sub_vars, channel_vars, delete_vars, close_vars,
              plc_vars
<1>9. CASE ConnectionFails \/ ReaderEnds
  BY <1>9 DEF ConnectionFails, ReaderEnds, LeftToDo, sub_vars, channel_vars, delete_vars, close_vars,
              plc_vars
<1>10. CASE ClearSubscribers
  <2>1. /\ UNCHANGED <<pc, handle, stage, target, closer, to_delete, found, given_up, plc>>
        /\ \A h \in Handles : subscribers'[h] = None
    BY <1>10 DEF ClearSubscribers, sub_vars, delete_vars, close_vars, plc_vars
  <2> QED BY <2>1, LeftStays
<1>11. CASE Finished \/ UNCHANGED vars
  BY <1>11 DEF Finished, vars, LeftToDo, sub_vars, channel_vars, delete_vars, end_vars, close_vars,
               plc_vars
<1> QED BY <1>1, <1>2, <1>3, <1>4, <1>5, <1>6, <1>7, <1>8, <1>9, <1>10, <1>11, CallLeft, DeleterLeft
        DEF Next, PlcStep, ReaderStep, CloseStep

--------------------------------------------------------------------------------
(* The invariant and the theorems. *)

NInv == TypeOK /\ KInv /\ (FreshHandles => HInv /\ DInv /\ OInv)

LEMMA InitNotifications == Init => NInv
<1> SUFFICES ASSUME Init PROVE NInv
  OBVIOUS
<1>1. TypeOK
  BY InitTypes
<1>2. HInv
  BY NotificationConstants DEF Init, HInv, OwnHandles, HandlesOnTheWay, HandlesOfPlc
<1>3. DInv
  BY NotificationConstants DEF Init, DInv, Deletions, Undisturbed
<1>4. OInv
  <2>1. Len(stream) = 0
    BY DEF Init
  <2>2. SamplesOnTheWay
    BY <2>1 DEF SamplesOnTheWay
  <2>3. SamplesSeen
    <3> SUFFICES ASSUME NEW s \in Subscriptions
                 PROVE  /\ last[s] = 0 /\ queue[s] = <<>> /\ Ordered(Seen(s))
                        /\ \A h \in Handles : plc[h] # s
      BY DEF SamplesSeen
    <3>1. last[s] = 0 /\ queue[s] = <<>> /\ Len(queue[s]) = 0 /\ \A h \in Handles : plc[h] # s
      BY NotificationConstants DEF Init
    <3>2. Len(Seen(s)) = Len(queue[s]) + 1
      BY <1>1, SeenNumbers
    <3>3. 1 .. Len(Seen(s)) - 1 = {}
      BY <3>1, <3>2
    <3> QED BY <3>1, <3>3 DEF Ordered
  <2> QED BY <2>2, <2>3 DEF OInv
<1>5. KInv
  BY NotificationConstants DEF Init, KInv, Acquainted, LeftToDo
<1> QED BY <1>1, <1>2, <1>3, <1>4, <1>5 DEF NInv

LEMMA Invariant == Spec => []NInv
<1>1. NInv /\ [Next]_vars => NInv'
  BY NextTypes, NextHandles, NextDeletions, NextSamples, NextAcquainted, NextLeft DEF NInv, KInv
<1> QED BY <1>1, InitNotifications, PTL DEF Spec

(* Types; and no channel holds more samples than it has room for, whatever the  *)
(* PLC sends (client.rs:971-983).                                               *)
THEOREM NotificationTypes == Spec => []TypeOK
<1>1. NInv => TypeOK
  BY DEF NInv
<1> QED BY <1>1, Invariant, PTL

(* Once the connection has ended and its senders are dropped, none comes back,  *)
(* however late an add_notification subscribes (Shared::subscribe, tear_down).  *)
THEOREM EndIsFinal == Spec => []EndReachesSubscribers
<1>1. Init => EndReachesSubscribers
  BY DEF Init, EndReachesSubscribers
<1>2. ASSUME NInv, EndReachesSubscribers, [Next]_vars PROVE EndReachesSubscribers'
  <2> USE DEF EndReachesSubscribers
  <2>1. CASE UNCHANGED <<subscribers, drain>>
    BY <1>2, <2>1
  <2>2. ASSUME NEW s \in Subscriptions, Subscribe(s) PROVE EndReachesSubscribers'
    BY <1>2, <2>2 DEF Subscribe, Closed, end_vars, close_vars
  <2>3. ASSUME NEW d \in Deleters, DeleteRemove(d) PROVE EndReachesSubscribers'
    BY <1>2, <2>3 DEF DeleteRemove, end_vars, close_vars, NInv, TypeOK
  <2>4. CASE ClearSubscribers
    BY <2>4 DEF ClearSubscribers
  <2>5. CASE CloseTearsDown \/ ConnectionFails
    BY <1>2, <2>5 DEF CloseTearsDown, ConnectionFails, Closed, channel_vars
  <2>6. ASSUME NEW s \in Subscriptions,
               Add(s) \/ AddFails(s) \/ Receive(s) \/ DropReceiver(s) \/ Unsubscribe(s)
        PROVE  UNCHANGED <<subscribers, drain>>
    BY <2>6 DEF Add, AddFails, Receive, DropReceiver, Unsubscribe, channel_vars, end_vars, close_vars
  <2>7. ASSUME NEW d \in Deleters, DeleteSend(d) \/ DeleteRefused(d) \/ DeleteFails(d)
        PROVE  UNCHANGED <<subscribers, drain>>
    BY <2>7 DEF DeleteSend, DeleteRefused, DeleteFails, channel_vars, end_vars, close_vars
  <2>8. ASSUME PlcStep \/ ReaderStep PROVE UNCHANGED <<subscribers, drain>>
    BY <2>8 DEF PlcStep, PlcAdds, PlcSamples, PlcDeletes, PlcDeletesLate, ReaderStep, ReadAdded, ReadDeleted,
                ReadSample, channel_vars, end_vars, close_vars
  <2>9. ASSUME CloseBegin \/ CloseDeletes \/ CloseStops \/ ReaderEnds
        PROVE  UNCHANGED <<subscribers, drain>>
    BY <2>9 DEF CloseBegin, CloseDeletes, CloseStops, ReaderEnds, channel_vars
  <2>10. ASSUME Finished \/ UNCHANGED vars PROVE UNCHANGED <<subscribers, drain>>
    BY <2>10 DEF Finished, vars, channel_vars, end_vars, close_vars
  <2> QED BY <1>2, <2>1, <2>2, <2>3, <2>4, <2>5, <2>6, <2>7, <2>8, <2>9, <2>10
          DEF Next, DeleterStep, CloseStep
<1> QED BY <1>1, <1>2, Invariant, PTL DEF Spec

(* A subscription nobody deletes keeps its sender while the connection is open, *)
(* whatever else is deleted, dropped or added (client.rs:668-671, 990-997).     *)
THEOREM LiveIsSubscribed == Spec => []LiveStaysSubscribed
<1>1. NInv => LiveStaysSubscribed
  BY DEF NInv, DInv, Undisturbed, LiveStaysSubscribed
<1> QED BY <1>1, Invariant, PTL

(* Whoever deletes or subscribes while close() works through its list, whatever*)
(* fails, and even when the PLC gives handles out again: of what it found only  *)
(* that is left at the PLC whose deletion by close() failed (client.rs:677-687).*)
THEOREM CloseIsThorough == Spec => []CloseDeletesWhatItFound
<1>1. NInv => CloseDeletesWhatItFound
  BY DEF NInv, KInv, LeftToDo, CloseDeletesWhatItFound
<1> QED BY <1>1, Invariant, PTL

(* However long the channels and whatever is lost: a subscriber sees the samples*)
(* of its own subscription, in the order the PLC took them (client.rs:971-983). *)
THEOREM SamplesStayInOrder == Spec => []SamplesInOrder
<1>1. ASSUME NInv, FreshHandles PROVE SamplesInOrder
  BY <1>1 DEF NInv, OInv, SamplesSeen, Ordered, Before, Seen, SamplesInOrder
<1>2. NInv => SamplesInOrder
  BY <1>1 DEF SamplesInOrder
<1> QED BY <1>2, Invariant, PTL
================================================================================

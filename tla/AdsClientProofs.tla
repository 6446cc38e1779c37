--------------------------- MODULE AdsClientProofs ---------------------------
(***************************************************************************)
(* Safety of AdsClient for any number of calls, any width of the invoke    *)
(* id, any timeouts and any faults of the peer.  IInv (AdsClient) is       *)
(* inductive: one lemma per conjunct says that every step keeps it, with   *)
(* one case per action that disturbs it and one per process for the rest.  *)
(***************************************************************************)
EXTENDS AdsClient, TLAPS

(* Types; the reason recorded at a tear-down is one of the four.                *)
LEMMA StepTypeOK ==
  ASSUME IInv, [Next]_vars PROVE TypeOK'
<1> USE ConstantsOK DEF IInv, TypeOK, DrainMeans, OutcomesFit, Waiting, Calls,
      Ids, Reasons, Outcomes, counter_vars, tear_down_vars, reader_vars,
      close_vars, wire_vars
<1>1. ASSUME NEW r \in Calls, Dispatch(r) PROVE TypeOK'
  BY <1>1 DEF Dispatch, Goto, MayStart, TakeInvokeId
<1>2. ASSUME NEW r \in Calls, DispatchOverflow(r) PROVE TypeOK'
  BY <1>2 DEF DispatchOverflow, Goto, TakeInvokeId
<1>3. ASSUME NEW r \in Calls, Register(r) PROVE TypeOK'
  BY <1>3 DEF Register, Goto, DropSenderAt
<1>4. ASSUME NEW r \in Calls, RegisterRefused(r) PROVE TypeOK'
  BY <1>4 DEF RegisterRefused, Goto
<1>5. ASSUME NEW r \in Calls, LockWriter(r) PROVE TypeOK'
  BY <1>5 DEF LockWriter, Goto
<1>6. ASSUME NEW r \in Calls, WriteOk(r) PROVE TypeOK'
  BY <1>6 DEF WriteOk, Goto
<1>7. ASSUME NEW r \in Calls, WriteErr(r) PROVE TypeOK'
  BY <1>7 DEF WriteErr, MayTear, Goto
<1>8. ASSUME NEW r \in Calls, ReplyTimesOut(r) PROVE TypeOK'
  BY <1>8 DEF ReplyTimesOut, Goto
<1>9. ASSUME NEW r \in Calls, ReceiveReply(r) PROVE TypeOK'
  BY <1>9 DEF ReceiveReply, Goto
<1>10. ASSUME NEW r \in Calls, ReceiveError(r) PROVE TypeOK'
  BY <1>10 DEF ReceiveError, Goto
<1>11. ASSUME NEW r \in Calls, Cancel(r) PROVE TypeOK'
  BY <1>11 DEF Cancel, MayTear, Goto
<1>12. ASSUME NEW r \in Calls, Return(r) PROVE TypeOK'
  BY <1>12 DEF Return, Goto, DropSenderAt
<1>13. ASSUME NEW r \in Calls, TearDown(r) PROVE TypeOK'
  BY <1>13 DEF TearDown, Goto, MarkClosed
<1>14. ASSUME NEW r \in Calls, TearDownDone(r) PROVE TypeOK'
  BY <1>14 DEF TearDownDone, Goto
<1>15. ASSUME DrainTake PROVE TypeOK'
  BY <1>15 DEF DrainTake
<1>16. ASSUME NEW r \in Calls, DrainSend(r) PROVE TypeOK'
  BY <1>16 DEF DrainSend
<1>17. ASSUME DrainEnd PROVE TypeOK'
  BY <1>17 DEF DrainEnd
<1>18. ASSUME NEW r \in Calls, ReaderReply(r) PROVE TypeOK'
  BY <1>18 DEF ReaderReply
<1>19. ASSUME Deliver PROVE TypeOK'
  BY <1>19 DEF Deliver
<1>20. ASSUME ReaderFails PROVE TypeOK'
  BY <1>20 DEF ReaderFails
<1>21. ASSUME ReaderPanics PROVE TypeOK'
  BY <1>21 DEF ReaderPanics
<1>22. ASSUME ReaderTearDown PROVE TypeOK'
  BY <1>22 DEF ReaderTearDown, MarkClosed
<1>23. ASSUME ReaderTearDownDone PROVE TypeOK'
  BY <1>23 DEF ReaderTearDownDone
<1>24. ASSUME ReaderShutdown PROVE TypeOK'
  BY <1>24 DEF ReaderShutdown
<1>25. ASSUME PeerGone PROVE TypeOK'
  BY <1>25 DEF PeerGone
<1>26. ASSUME CloseBegin PROVE TypeOK'
  BY <1>26 DEF CloseBegin
<1>27. ASSUME CloseDeleted PROVE TypeOK'
  BY <1>27 DEF CloseDeleted
<1>28. ASSUME CloseLock PROVE TypeOK'
  BY <1>28 DEF CloseLock
<1>29. ASSUME CloseWrite PROVE TypeOK'
  BY <1>29 DEF CloseWrite
<1>30. ASSUME CloseStop PROVE TypeOK'
  BY <1>30 DEF CloseStop
<1>31. ASSUME CloseTearDown PROVE TypeOK'
  BY <1>31 DEF CloseTearDown, MarkClosed
<1>32. ASSUME CloseTearDownDone PROVE TypeOK'
  BY <1>32 DEF CloseTearDownDone
<1>33. ASSUME CloseDropped PROVE TypeOK'
  BY <1>33 DEF CloseDropped, MayTear
<1>34. CASE UNCHANGED vars
  BY <1>34 DEF vars
<1> QED BY <1>1, <1>2, <1>3, <1>4, <1>5, <1>6, <1>7, <1>8, <1>9, <1>10, <1>11,
      <1>12, <1>13, <1>14, <1>15, <1>16, <1>17, <1>18, <1>19, <1>20, <1>21,
      <1>22, <1>23, <1>24, <1>25, <1>26, <1>27, <1>28, <1>29, <1>30, <1>31,
      <1>32, <1>33, <1>34 DEF Next, CallStep, DrainStep, ReaderStep, CloseStep,
      PeerStep, Terminated

(* A sender moves from the table to a batch or to the hand, never to both.      *)
LEMMA StepSendersInOnePlace ==
  ASSUME IInv, [Next]_vars PROVE SendersInOnePlace'
<1> USE ConstantsOK DEF IInv, SendersInOnePlace, TypeOK, DrainMeans, Waiting,
      Calls, Ids, Reasons, Outcomes, counter_vars, tear_down_vars, reader_vars,
      close_vars, wire_vars
<1>1. ASSUME NEW r \in Calls, Dispatch(r) PROVE SendersInOnePlace'
  BY <1>1 DEF Dispatch, Goto, MayStart, TakeInvokeId
<1>2. ASSUME NEW r \in Calls, DispatchOverflow(r) PROVE SendersInOnePlace'
  BY <1>2 DEF DispatchOverflow, Goto, TakeInvokeId
<1>3. ASSUME NEW r \in Calls, Register(r) PROVE SendersInOnePlace'
  BY <1>3 DEF Register, Goto, DropSenderAt
<1>4. ASSUME NEW r \in Calls, RegisterRefused(r) PROVE SendersInOnePlace'
  BY <1>4 DEF RegisterRefused, Goto
<1>5. ASSUME NEW r \in Calls, LockWriter(r) PROVE SendersInOnePlace'
  BY <1>5 DEF LockWriter, Goto
<1>6. ASSUME NEW r \in Calls, WriteOk(r) PROVE SendersInOnePlace'
  BY <1>6 DEF WriteOk, Goto
<1>7. ASSUME NEW r \in Calls, WriteErr(r) PROVE SendersInOnePlace'
  BY <1>7 DEF WriteErr, Goto
<1>8. ASSUME NEW r \in Calls, ReplyTimesOut(r) PROVE SendersInOnePlace'
  BY <1>8 DEF ReplyTimesOut, Goto
<1>9. ASSUME NEW r \in Calls, ReceiveReply(r) PROVE SendersInOnePlace'
  BY <1>9 DEF ReceiveReply, Goto
<1>10. ASSUME NEW r \in Calls, ReceiveError(r) PROVE SendersInOnePlace'
  BY <1>10 DEF ReceiveError, Goto
<1>11. ASSUME NEW r \in Calls, Cancel(r) PROVE SendersInOnePlace'
  BY <1>11 DEF Cancel, Goto
<1>12. ASSUME NEW r \in Calls, Return(r) PROVE SendersInOnePlace'
  BY <1>12 DEF Return, Goto, DropSenderAt
<1>13. ASSUME NEW r \in Calls, TearDown(r) PROVE SendersInOnePlace'
  BY <1>13 DEF TearDown, Goto, MarkClosed
<1>14. ASSUME NEW r \in Calls, TearDownDone(r) PROVE SendersInOnePlace'
  BY <1>14 DEF TearDownDone, Goto
<1>15. ASSUME DrainTake PROVE SendersInOnePlace'
  BY <1>15 DEF DrainTake
<1>16. ASSUME NEW r \in Calls, DrainSend(r) PROVE SendersInOnePlace'
  BY <1>16 DEF DrainSend
<1>17. ASSUME DrainEnd PROVE SendersInOnePlace'
  BY <1>17 DEF DrainEnd
<1>18. ASSUME NEW r \in Calls, ReaderReply(r) PROVE SendersInOnePlace'
  BY <1>18 DEF ReaderReply
<1>19. ASSUME Deliver PROVE SendersInOnePlace'
  BY <1>19 DEF Deliver
<1>20. ASSUME ReaderFails \/ ReaderPanics \/ ReaderTearDown \/
     ReaderTearDownDone PROVE SendersInOnePlace'
  BY <1>20 DEF ReaderFails, ReaderPanics, ReaderTearDown, MarkClosed,
     ReaderTearDownDone
<1>21. ASSUME ReaderShutdown \/ PeerGone PROVE SendersInOnePlace'
  BY <1>21 DEF ReaderShutdown, PeerGone
<1>22. ASSUME CloseBegin \/ CloseDropped \/ CloseDeleted \/ CloseLock \/ CloseWrite
      PROVE  SendersInOnePlace'
  BY <1>22 DEF CloseBegin, CloseDropped, CloseDeleted, CloseLock, CloseWrite
<1>23. ASSUME CloseStop \/ CloseTearDown \/ CloseTearDownDone PROVE
     SendersInOnePlace'
  BY <1>23 DEF CloseStop, CloseTearDown, MarkClosed, CloseTearDownDone
<1>24. CASE UNCHANGED vars
  BY <1>24 DEF vars
<1> QED BY <1>1, <1>2, <1>3, <1>4, <1>5, <1>6, <1>7, <1>8, <1>9, <1>10, <1>11,
      <1>12, <1>13, <1>14, <1>15, <1>16, <1>17, <1>18, <1>19, <1>20, <1>21,
      <1>22, <1>23, <1>24 DEF Next, CallStep, DrainStep, ReaderStep, CloseStep,
      PeerStep, Terminated

(* The table stays empty once drained: register sees that closed is set.        *)
LEMMA StepDrainMeans ==
  ASSUME IInv, [Next]_vars PROVE DrainMeans'
<1> USE ConstantsOK DEF IInv, DrainMeans, TypeOK, SendersInOnePlace, Waiting,
      Calls, Ids, Reasons, Outcomes, counter_vars, tear_down_vars, reader_vars,
      close_vars, wire_vars
<1>1. ASSUME NEW r \in Calls, Dispatch(r) PROVE DrainMeans'
  BY <1>1 DEF Dispatch, Goto, MayStart, TakeInvokeId
<1>2. ASSUME NEW r \in Calls, DispatchOverflow(r) PROVE DrainMeans'
  BY <1>2 DEF DispatchOverflow, Goto, TakeInvokeId
<1>3. ASSUME NEW r \in Calls, Register(r) PROVE DrainMeans'
  BY <1>3 DEF Register, Goto, DropSenderAt
<1>4. ASSUME NEW r \in Calls, RegisterRefused(r) PROVE DrainMeans'
  BY <1>4 DEF RegisterRefused, Goto
<1>5. ASSUME NEW r \in Calls, LockWriter(r) PROVE DrainMeans'
  BY <1>5 DEF LockWriter, Goto
<1>6. ASSUME NEW r \in Calls, WriteOk(r) PROVE DrainMeans'
  BY <1>6 DEF WriteOk, Goto
<1>7. ASSUME NEW r \in Calls, WriteErr(r) PROVE DrainMeans'
  BY <1>7 DEF WriteErr, Goto
<1>8. ASSUME NEW r \in Calls, ReplyTimesOut(r) PROVE DrainMeans'
  BY <1>8 DEF ReplyTimesOut, Goto
<1>9. ASSUME NEW r \in Calls, ReceiveReply(r) PROVE DrainMeans'
  BY <1>9 DEF ReceiveReply, Goto
<1>10. ASSUME NEW r \in Calls, ReceiveError(r) PROVE DrainMeans'
  BY <1>10 DEF ReceiveError, Goto
<1>11. ASSUME NEW r \in Calls, Cancel(r) PROVE DrainMeans'
  BY <1>11 DEF Cancel, Goto
<1>12. ASSUME NEW r \in Calls, Return(r) PROVE DrainMeans'
  BY <1>12 DEF Return, Goto, DropSenderAt
<1>13. ASSUME NEW r \in Calls, TearDown(r) PROVE DrainMeans'
  BY <1>13 DEF TearDown, Goto, MarkClosed
<1>14. ASSUME NEW r \in Calls, TearDownDone(r) PROVE DrainMeans'
  BY <1>14 DEF TearDownDone, Goto
<1>15. ASSUME DrainTake PROVE DrainMeans'
  BY <1>15 DEF DrainTake
<1>16. ASSUME NEW r \in Calls, DrainSend(r) PROVE DrainMeans'
  BY <1>16 DEF DrainSend
<1>17. ASSUME DrainEnd PROVE DrainMeans'
  BY <1>17 DEF DrainEnd
<1>18. ASSUME Deliver \/ ReaderFails \/ ReaderPanics \/ (\E r \in Calls :
     ReaderReply(r)) PROVE DrainMeans'
  BY <1>18 DEF ReaderReply, Deliver, ReaderFails, ReaderPanics
<1>19. ASSUME ReaderTearDown PROVE DrainMeans'
  BY <1>19 DEF ReaderTearDown, MarkClosed
<1>20. ASSUME ReaderTearDownDone \/ ReaderShutdown \/ PeerGone PROVE
     DrainMeans'
  BY <1>20 DEF ReaderTearDownDone, ReaderShutdown, PeerGone
<1>21. ASSUME CloseBegin \/ CloseDropped \/ CloseDeleted \/ CloseLock \/ CloseWrite
      PROVE  DrainMeans'
  BY <1>21 DEF CloseBegin, CloseDropped, CloseDeleted, CloseLock, CloseWrite
<1>22. ASSUME CloseStop \/ CloseTearDownDone PROVE DrainMeans'
  BY <1>22 DEF CloseStop, CloseTearDownDone
<1>23. ASSUME CloseTearDown PROVE DrainMeans'
  BY <1>23 DEF CloseTearDown, MarkClosed
<1>24. CASE UNCHANGED vars
  BY <1>24 DEF vars
<1> QED BY <1>1, <1>2, <1>3, <1>4, <1>5, <1>6, <1>7, <1>8, <1>9, <1>10, <1>11,
      <1>12, <1>13, <1>14, <1>15, <1>16, <1>17, <1>18, <1>19, <1>20, <1>21,
      <1>22, <1>23, <1>24 DEF Next, CallStep, DrainStep, ReaderStep, CloseStep,
      PeerStep, Terminated

(* A call reaches tear_down and return with an outcome that fits.               *)
LEMMA StepOutcomesFit ==
  ASSUME IInv, [Next]_vars PROVE OutcomesFit'
<1> USE ConstantsOK DEF IInv, OutcomesFit, TypeOK, DrainMeans, Waiting, Calls,
      Ids, Reasons, Outcomes, counter_vars, tear_down_vars, reader_vars,
      close_vars, wire_vars
<1>1. ASSUME NEW r \in Calls, Dispatch(r) PROVE OutcomesFit'
  BY <1>1 DEF Dispatch, Goto, MayStart, TakeInvokeId
<1>2. ASSUME NEW r \in Calls, DispatchOverflow(r) PROVE OutcomesFit'
  BY <1>2 DEF DispatchOverflow, Goto, TakeInvokeId
<1>3. ASSUME NEW r \in Calls, Register(r) PROVE OutcomesFit'
  BY <1>3 DEF Register, Goto, DropSenderAt
<1>4. ASSUME NEW r \in Calls, RegisterRefused(r) PROVE OutcomesFit'
  BY <1>4 DEF RegisterRefused, Goto
<1>5. ASSUME NEW r \in Calls, LockWriter(r) PROVE OutcomesFit'
  BY <1>5 DEF LockWriter, Goto
<1>6. ASSUME NEW r \in Calls, WriteOk(r) PROVE OutcomesFit'
  BY <1>6 DEF WriteOk, Goto
<1>7. ASSUME NEW r \in Calls, WriteErr(r) PROVE OutcomesFit'
  BY <1>7 DEF WriteErr, Goto
<1>8. ASSUME NEW r \in Calls, ReplyTimesOut(r) PROVE OutcomesFit'
  BY <1>8 DEF ReplyTimesOut, Goto
<1>9. ASSUME NEW r \in Calls, ReceiveReply(r) PROVE OutcomesFit'
  BY <1>9 DEF ReceiveReply, Goto
<1>10. ASSUME NEW r \in Calls, ReceiveError(r) PROVE OutcomesFit'
  BY <1>10 DEF ReceiveError, Goto
<1>11. ASSUME NEW r \in Calls, Cancel(r) PROVE OutcomesFit'
  BY <1>11 DEF Cancel, Goto
<1>12. ASSUME NEW r \in Calls, Return(r) PROVE OutcomesFit'
  BY <1>12 DEF Return, Goto, DropSenderAt
<1>13. ASSUME NEW r \in Calls, TearDown(r) PROVE OutcomesFit'
  BY <1>13 DEF TearDown, Goto, MarkClosed
<1>14. ASSUME NEW r \in Calls, TearDownDone(r) PROVE OutcomesFit'
  BY <1>14 DEF TearDownDone, Goto
<1>15. ASSUME DrainTake \/ DrainEnd \/ (\E r \in Calls : DrainSend(r)) PROVE
     OutcomesFit'
  BY <1>15 DEF DrainTake, DrainSend, DrainEnd
<1>16. ASSUME Deliver \/ ReaderFails \/ ReaderPanics \/ (\E r \in Calls :
     ReaderReply(r)) PROVE OutcomesFit'
  BY <1>16 DEF ReaderReply, Deliver, ReaderFails, ReaderPanics
<1>17. ASSUME ReaderTearDown \/ ReaderTearDownDone \/ ReaderShutdown \/
     PeerGone PROVE OutcomesFit'
  BY <1>17 DEF ReaderTearDown, MarkClosed, ReaderTearDownDone, ReaderShutdown,
     PeerGone
<1>18. ASSUME CloseBegin \/ CloseDropped \/ CloseDeleted \/ CloseLock \/ CloseWrite
      PROVE  OutcomesFit'
  BY <1>18 DEF CloseBegin, CloseDropped, CloseDeleted, CloseLock, CloseWrite
<1>19. ASSUME CloseStop \/ CloseTearDown \/ CloseTearDownDone PROVE
     OutcomesFit'
  BY <1>19 DEF CloseStop, CloseTearDown, MarkClosed, CloseTearDownDone
<1>20. CASE UNCHANGED vars
  BY <1>20 DEF vars
<1> QED BY <1>1, <1>2, <1>3, <1>4, <1>5, <1>6, <1>7, <1>8, <1>9, <1>10, <1>11,
      <1>12, <1>13, <1>14, <1>15, <1>16, <1>17, <1>18, <1>19, <1>20 DEF Next,
      CallStep, DrainStep, ReaderStep, CloseStep, PeerStep, Terminated

(* fetch_add hands out a fresh id, so a removal by id hits its own entry.       *)
LEMMA StepIdsAreFresh ==
  ASSUME IInv, [Next]_vars PROVE IdsAreFresh'
<1> USE ConstantsOK DEF IInv, IdsAreFresh, TypeOK, SendersInOnePlace, Waiting,
      Calls, Ids, Reasons, Outcomes, counter_vars, tear_down_vars, reader_vars,
      close_vars, wire_vars
<1>1. ASSUME NEW r \in Calls, Dispatch(r) PROVE IdsAreFresh'
  <2>1. /\ UNCHANGED <<sent, chan, frame, hand>>
        /\ pc' \in {[pc EXCEPT ![r] = "register"], [pc EXCEPT ![r] = "done"]}
        /\ id' = [id EXCEPT ![r] = invoke_id] /\ pc[r] = "idle"
    BY <1>1 DEF Dispatch, MayStart, Goto, TakeInvokeId
  <2>2. \A q \in sent : pc'[q] \notin {"idle", "register"}
    BY <2>1
  <2>3. SUFFICES ASSUME ~wrapped', ~wrapped PROVE IdsAreFresh'
    BY <1>1, <2>1, <2>2 DEF Dispatch, MayStart, TakeInvokeId
  <2>4. invoke_id' = invoke_id + 1
    BY <1>1, <2>3 DEF Dispatch, MayStart, TakeInvokeId
  <2>5. \A q \in Calls : pc'[q] # "idle" => id'[q] < invoke_id'
    BY <2>1, <2>3, <2>4
  <2>6. \A q \in Calls : q # r /\ pc[q] # "idle" => id[q] < invoke_id
    BY <2>3
  <2>7. \A p, q \in Calls :
          pc'[p] # "idle" /\ pc'[q] # "idle" /\ id'[p] = id'[q] => p = q
    BY <2>1, <2>3, <2>6
  <2>8. \A q \in Calls : chan'[q] = "dropped" => pc'[q] = "done"
    BY <2>1, <2>3
  <2> QED BY <2>1, <2>2, <2>3, <2>5, <2>7, <2>8
<1>2. ASSUME NEW r \in Calls, DispatchOverflow(r) PROVE IdsAreFresh'
  <2>1. /\ UNCHANGED <<sent, chan, frame, hand>>
        /\ pc' \in {[pc EXCEPT ![r] = "register"], [pc EXCEPT ![r] = "done"]}
        /\ id' = [id EXCEPT ![r] = invoke_id] /\ pc[r] = "idle"
    BY <1>2 DEF DispatchOverflow, Goto, TakeInvokeId
  <2>2. \A q \in sent : pc'[q] \notin {"idle", "register"}
    BY <2>1
  <2>3. SUFFICES ASSUME ~wrapped', ~wrapped PROVE IdsAreFresh'
    BY <1>2, <2>1, <2>2 DEF DispatchOverflow, TakeInvokeId
  <2>4. invoke_id' = invoke_id + 1
    BY <1>2, <2>3 DEF DispatchOverflow, TakeInvokeId
  <2>5. \A q \in Calls : pc'[q] # "idle" => id'[q] < invoke_id'
    BY <2>1, <2>3, <2>4
  <2>6. \A q \in Calls : q # r /\ pc[q] # "idle" => id[q] < invoke_id
    BY <2>3
  <2>7. \A p, q \in Calls :
          pc'[p] # "idle" /\ pc'[q] # "idle" /\ id'[p] = id'[q] => p = q
    BY <2>1, <2>3, <2>6
  <2>8. \A q \in Calls : chan'[q] = "dropped" => pc'[q] = "done"
    BY <2>1, <2>3
  <2> QED BY <2>1, <2>2, <2>3, <2>5, <2>7, <2>8
<1>3. ASSUME NEW r \in Calls, Register(r) PROVE IdsAreFresh'
  <2>1. /\ pc[r] = "register" /\ pc' = [pc EXCEPT ![r] = "lock"]
        /\ UNCHANGED <<id, invoke_id, wrapped, sent, hand, frame>>
    BY <1>3 DEF Register, Goto
  <2>2. chan' = [DropSenderAt(id[r]) EXCEPT ![r] = "open"] /\ id[r] \in Ids
    BY <1>3 DEF Register
  <2>3. ASSUME ~wrapped PROVE commands[id[r]] = None
    <3>1. ASSUME commands[id[r]] # None PROVE FALSE
      <4>1. commands[id[r]] \in Calls /\ id[commands[id[r]]] = id[r]
        BY <2>2, <3>1
      <4>2. commands[id[r]] = r
        BY <2>1, <2>3, <2>2, <3>1, <4>1
      <4> QED BY <2>1, <2>2, <3>1, <4>2
    <3> QED BY <3>1
  <2>4. ASSUME ~wrapped PROVE \A q \in Calls : chan'[q] = "dropped" => pc'[q] = "done"
    BY <2>1, <2>2, <2>3, <2>4 DEF DropSenderAt
  <2> QED BY <2>1, <2>4
<1>4. ASSUME NEW r \in Calls, RegisterRefused(r) PROVE IdsAreFresh'
  BY <1>4 DEF RegisterRefused, Goto
<1>5. ASSUME NEW r \in Calls, LockWriter(r) PROVE IdsAreFresh'
  BY <1>5 DEF LockWriter, Goto
<1>6. ASSUME NEW r \in Calls, WriteOk(r) PROVE IdsAreFresh'
  BY <1>6 DEF WriteOk, Goto
<1>7. ASSUME NEW r \in Calls, WriteErr(r) PROVE IdsAreFresh'
  BY <1>7 DEF WriteErr, Goto
<1>8. ASSUME NEW r \in Calls, ReplyTimesOut(r) PROVE IdsAreFresh'
  BY <1>8 DEF ReplyTimesOut, Goto
<1>9. ASSUME NEW r \in Calls, ReceiveReply(r) PROVE IdsAreFresh'
  BY <1>9 DEF ReceiveReply, Goto
<1>10. ASSUME NEW r \in Calls, ReceiveError(r) PROVE IdsAreFresh'
  BY <1>10 DEF ReceiveError, Goto
<1>11. ASSUME NEW r \in Calls, Cancel(r) PROVE IdsAreFresh'
  BY <1>11 DEF Cancel, Goto
<1>12. ASSUME NEW r \in Calls, Return(r) PROVE IdsAreFresh'
  BY <1>12 DEF Return, Goto, DropSenderAt
<1>13. ASSUME NEW r \in Calls, TearDown(r) PROVE IdsAreFresh'
  BY <1>13 DEF TearDown, Goto, MarkClosed
<1>14. ASSUME NEW r \in Calls, TearDownDone(r) PROVE IdsAreFresh'
  BY <1>14 DEF TearDownDone, Goto
<1>15. ASSUME DrainTake \/ DrainEnd \/ (\E r \in Calls : DrainSend(r)) PROVE
     IdsAreFresh'
  BY <1>15 DEF DrainTake, DrainSend, DrainEnd
<1>16. ASSUME NEW r \in Calls, ReaderReply(r) PROVE IdsAreFresh'
  <2>1. /\ UNCHANGED <<pc, id, chan, invoke_id, wrapped>>
        /\ r \in sent /\ sent' \subseteq sent
        /\ hand' = commands[id[r]]
        /\ frame' = IF hand' = None THEN None ELSE r
    BY <1>16 DEF ReaderReply
  <2>2. ASSUME ~wrapped PROVE frame' = hand'
    <3>1. CASE commands[id[r]] = None
      BY <2>1, <3>1
    <3>2. CASE commands[id[r]] # None
      <4> DEFINE q == commands[id[r]]
      <4>1. q \in Calls /\ id[q] = id[r] /\ pc[q] # "idle" /\ pc[r] # "idle"
        BY <2>1, <3>2
      <4> QED BY <2>1, <2>2, <3>2, <4>1
    <3> QED BY <3>1, <3>2
  <2> QED BY <2>1, <2>2
<1>17. ASSUME Deliver PROVE IdsAreFresh'
  BY <1>17 DEF Deliver
<1>18. ASSUME ReaderFails \/ ReaderPanics \/ ReaderTearDown \/
     ReaderTearDownDone PROVE IdsAreFresh'
  BY <1>18 DEF ReaderFails, ReaderPanics, ReaderTearDown, MarkClosed,
     ReaderTearDownDone
<1>19. ASSUME ReaderShutdown \/ PeerGone PROVE IdsAreFresh'
  BY <1>19 DEF ReaderShutdown, PeerGone
<1>20. ASSUME CloseBegin \/ CloseDropped \/ CloseDeleted \/ CloseLock \/ CloseWrite
      PROVE  IdsAreFresh'
  BY <1>20 DEF CloseBegin, CloseDropped, CloseDeleted, CloseLock, CloseWrite
<1>21. ASSUME CloseStop \/ CloseTearDown \/ CloseTearDownDone PROVE
     IdsAreFresh'
  BY <1>21 DEF CloseStop, CloseTearDown, MarkClosed, CloseTearDownDone
<1>22. CASE UNCHANGED vars
  BY <1>22 DEF vars
<1> QED BY <1>1, <1>2, <1>3, <1>4, <1>5, <1>6, <1>7, <1>8, <1>9, <1>10, <1>11,
      <1>12, <1>13, <1>14, <1>15, <1>16, <1>17, <1>18, <1>19, <1>20, <1>21,
      <1>22 DEF Next, CallStep, DrainStep, ReaderStep, CloseStep, PeerStep,
      Terminated

(* Whoever takes a sender keeps it, uses it or drops it.                        *)
LEMMA StepNoStrandedCaller ==
  ASSUME IInv, [Next]_vars PROVE NoStrandedCaller'
<1> USE ConstantsOK DEF IInv, NoStrandedCaller, TypeOK, SendersInOnePlace,
      DrainMeans, Waiting, Calls, Ids, Reasons, Outcomes, counter_vars,
      tear_down_vars, reader_vars, close_vars, wire_vars
<1>1. ASSUME NEW r \in Calls, Dispatch(r) \/ DispatchOverflow(r) PROVE
     NoStrandedCaller'
  BY <1>1 DEF Dispatch, Goto, MayStart, TakeInvokeId, DispatchOverflow
<1>2. ASSUME NEW r \in Calls, Register(r) PROVE NoStrandedCaller'
  BY <1>2 DEF Register, Goto, DropSenderAt
<1>3. ASSUME NEW r \in Calls, RegisterRefused(r) \/ LockWriter(r) PROVE
     NoStrandedCaller'
  BY <1>3 DEF RegisterRefused, Goto, LockWriter
<1>4. ASSUME NEW r \in Calls, WriteOk(r) \/ WriteErr(r) PROVE NoStrandedCaller'
  BY <1>4 DEF WriteOk, Goto, WriteErr
<1>5. ASSUME NEW r \in Calls, ReplyTimesOut(r) \/ ReceiveReply(r) PROVE
     NoStrandedCaller'
  BY <1>5 DEF ReplyTimesOut, Goto, ReceiveReply
<1>6. ASSUME NEW r \in Calls, ReceiveError(r) \/ Cancel(r) PROVE
     NoStrandedCaller'
  BY <1>6 DEF ReceiveError, Goto, Cancel
<1>7. ASSUME NEW r \in Calls, Return(r) PROVE NoStrandedCaller'
  BY <1>7 DEF Return, Goto, DropSenderAt
<1>8. ASSUME NEW r \in Calls, TearDown(r) \/ TearDownDone(r) PROVE
     NoStrandedCaller'
  BY <1>8 DEF TearDown, Goto, MarkClosed, TearDownDone
<1>9. ASSUME DrainTake PROVE NoStrandedCaller'
  <2> SUFFICES ASSUME NEW r \in Calls, Waiting(r), chan[r] = "open"
               PROVE r \in taken' \/ hand' = r
    BY <1>9 DEF DrainTake
  <2>1. CASE commands[id[r]] = r
    <3>1. r \in {commands[i] : i \in Ids} /\ r # None
      BY <2>1
    <3> QED BY <1>9, <3>1 DEF DrainTake
  <2>2. CASE commands[id[r]] # r
    BY <1>9, <2>2 DEF DrainTake
  <2> QED BY <2>1, <2>2
<1>10. ASSUME NEW r \in Calls, DrainSend(r) PROVE NoStrandedCaller'
  BY <1>10 DEF DrainSend
<1>11. ASSUME DrainEnd PROVE NoStrandedCaller'
  BY <1>11 DEF DrainEnd
<1>12. ASSUME NEW r \in Calls, ReaderReply(r) PROVE NoStrandedCaller'
  BY <1>12 DEF ReaderReply
<1>13. ASSUME Deliver PROVE NoStrandedCaller'
  BY <1>13 DEF Deliver
<1>14. ASSUME ReaderFails \/ ReaderPanics \/ ReaderTearDown \/
     ReaderTearDownDone PROVE NoStrandedCaller'
  BY <1>14 DEF ReaderFails, ReaderPanics, ReaderTearDown, MarkClosed,
     ReaderTearDownDone
<1>15. ASSUME ReaderShutdown \/ PeerGone PROVE NoStrandedCaller'
  BY <1>15 DEF ReaderShutdown, PeerGone
<1>16. ASSUME CloseBegin \/ CloseDropped \/ CloseDeleted \/ CloseLock \/ CloseWrite
      PROVE  NoStrandedCaller'
  BY <1>16 DEF CloseBegin, CloseDropped, CloseDeleted, CloseLock, CloseWrite
<1>17. ASSUME CloseStop \/ CloseTearDown \/ CloseTearDownDone PROVE
     NoStrandedCaller'
  BY <1>17 DEF CloseStop, CloseTearDown, MarkClosed, CloseTearDownDone
<1>18. CASE UNCHANGED vars
  BY <1>18 DEF vars
<1> QED BY <1>1, <1>2, <1>3, <1>4, <1>5, <1>6, <1>7, <1>8, <1>9, <1>10, <1>11,
      <1>12, <1>13, <1>14, <1>15, <1>16, <1>17, <1>18 DEF Next, CallStep,
      DrainStep, ReaderStep, CloseStep, PeerStep, Terminated

(* The reader hands a frame to the call whose id it carries.                    *)
LEMMA StepOwnReply ==
  ASSUME IInv, [Next]_vars PROVE OwnReply'
<1> USE ConstantsOK DEF IInv, OwnReply, TypeOK, SendersInOnePlace, IdsAreFresh,
      Waiting, Calls, Ids, Reasons, Outcomes, counter_vars, tear_down_vars,
      reader_vars, close_vars, wire_vars
<1>1. ASSUME NEW r \in Calls, Dispatch(r) \/ DispatchOverflow(r) \/ Register(r)
     PROVE OwnReply'
  BY <1>1 DEF Dispatch, Goto, MayStart, TakeInvokeId, DispatchOverflow,
     Register, DropSenderAt
<1>2. ASSUME NEW r \in Calls, RegisterRefused(r) \/ LockWriter(r) \/ WriteOk(r)
     PROVE OwnReply'
  BY <1>2 DEF RegisterRefused, Goto, LockWriter, WriteOk
<1>3. ASSUME NEW r \in Calls, WriteErr(r) \/ ReplyTimesOut(r) \/
     ReceiveReply(r) PROVE OwnReply'
  BY <1>3 DEF WriteErr, Goto, ReplyTimesOut, ReceiveReply
<1>4. ASSUME NEW r \in Calls, ReceiveError(r) \/ Cancel(r) \/ Return(r) PROVE
     OwnReply'
  BY <1>4 DEF ReceiveError, Goto, Cancel, Return, DropSenderAt
<1>5. ASSUME NEW r \in Calls, TearDown(r) \/ TearDownDone(r) PROVE OwnReply'
  BY <1>5 DEF TearDown, Goto, MarkClosed, TearDownDone
<1>6. ASSUME DrainTake \/ DrainEnd \/ (\E r \in Calls : DrainSend(r)) PROVE
     OwnReply'
  BY <1>6 DEF DrainTake, DrainSend, DrainEnd
<1>7. ASSUME ReaderFails \/ ReaderPanics \/ ReaderTearDown \/ (\E r \in Calls :
     ReaderReply(r)) PROVE OwnReply'
  BY <1>7 DEF ReaderReply, ReaderFails, ReaderPanics, ReaderTearDown,
     MarkClosed
<1>8. ASSUME Deliver PROVE OwnReply'
  BY <1>8 DEF Deliver
<1>9. ASSUME ReaderTearDownDone \/ ReaderShutdown \/ PeerGone PROVE OwnReply'
  BY <1>9 DEF ReaderTearDownDone, ReaderShutdown, PeerGone
<1>10. ASSUME CloseBegin \/ CloseDropped \/ CloseDeleted \/ CloseLock \/ CloseWrite
      PROVE  OwnReply'
  BY <1>10 DEF CloseBegin, CloseDropped, CloseDeleted, CloseLock, CloseWrite
<1>11. ASSUME CloseStop \/ CloseTearDown \/ CloseTearDownDone PROVE OwnReply'
  BY <1>11 DEF CloseStop, CloseTearDown, MarkClosed, CloseTearDownDone
<1>12. CASE UNCHANGED vars
  BY <1>12 DEF vars
<1> QED BY <1>1, <1>2, <1>3, <1>4, <1>5, <1>6, <1>7, <1>8, <1>9, <1>10, <1>11,
      <1>12 DEF Next, CallStep, DrainStep, ReaderStep, CloseStep, PeerStep,
      Terminated

(* A sender is only dropped by the call that waits for it.                      *)
LEMMA StepFailuresHaveReasons ==
  ASSUME IInv, [Next]_vars PROVE FailuresHaveReasons'
<1> USE ConstantsOK DEF IInv, FailuresHaveReasons, TypeOK, DrainMeans,
      IdsAreFresh, Waiting, Calls, Ids, Reasons, Outcomes, counter_vars,
      tear_down_vars, reader_vars, close_vars, wire_vars
<1>1. ASSUME NEW r \in Calls, Dispatch(r) \/ DispatchOverflow(r) \/ Register(r)
     PROVE FailuresHaveReasons'
  BY <1>1 DEF Dispatch, Goto, MayStart, TakeInvokeId, DispatchOverflow,
     Register, DropSenderAt
<1>2. ASSUME NEW r \in Calls, RegisterRefused(r) \/ LockWriter(r) \/ WriteOk(r)
     PROVE FailuresHaveReasons'
  BY <1>2 DEF RegisterRefused, Goto, LockWriter, WriteOk
<1>3. ASSUME NEW r \in Calls, WriteErr(r) \/ ReplyTimesOut(r) \/
     ReceiveReply(r) PROVE FailuresHaveReasons'
  BY <1>3 DEF WriteErr, Goto, ReplyTimesOut, ReceiveReply
<1>4. ASSUME NEW r \in Calls, ReceiveError(r) PROVE FailuresHaveReasons'
  BY <1>4 DEF ReceiveError, Goto
<1>5. ASSUME NEW r \in Calls, Cancel(r) \/ Return(r) \/ TearDown(r) PROVE
     FailuresHaveReasons'
  BY <1>5 DEF Cancel, Goto, Return, DropSenderAt, TearDown, MarkClosed
<1>6. ASSUME NEW r \in Calls, TearDownDone(r) PROVE FailuresHaveReasons'
  BY <1>6 DEF TearDownDone, Goto
<1>7. ASSUME DrainTake \/ DrainEnd \/ (\E r \in Calls : DrainSend(r)) PROVE
     FailuresHaveReasons'
  BY <1>7 DEF DrainTake, DrainSend, DrainEnd
<1>8. ASSUME Deliver \/ ReaderFails \/ ReaderPanics \/ (\E r \in Calls :
     ReaderReply(r)) PROVE FailuresHaveReasons'
  BY <1>8 DEF ReaderReply, Deliver, ReaderFails, ReaderPanics
<1>9. ASSUME ReaderTearDown \/ ReaderTearDownDone \/ ReaderShutdown \/ PeerGone
     PROVE FailuresHaveReasons'
  BY <1>9 DEF ReaderTearDown, MarkClosed, ReaderTearDownDone, ReaderShutdown,
     PeerGone
<1>10. ASSUME CloseBegin \/ CloseDropped \/ CloseDeleted \/ CloseLock \/ CloseWrite
      PROVE  FailuresHaveReasons'
  BY <1>10 DEF CloseBegin, CloseDropped, CloseDeleted, CloseLock, CloseWrite
<1>11. ASSUME CloseStop \/ CloseTearDown \/ CloseTearDownDone PROVE
     FailuresHaveReasons'
  BY <1>11 DEF CloseStop, CloseTearDown, MarkClosed, CloseTearDownDone
<1>12. CASE UNCHANGED vars
  BY <1>12 DEF vars
<1> QED BY <1>1, <1>2, <1>3, <1>4, <1>5, <1>6, <1>7, <1>8, <1>9, <1>10, <1>11,
      <1>12 DEF Next, CallStep, DrainStep, ReaderStep, CloseStep, PeerStep,
      Terminated

(* The timeout that reaches the limit goes to tear_down.                        *)
LEMMA StepTimeoutsEndConnection ==
  ASSUME IInv, [Next]_vars PROVE TimeoutsEndConnection'
<1> USE ConstantsOK DEF IInv, TimeoutsEndConnection, TypeOK, DrainMeans,
      Waiting, Calls, Ids, Reasons, Outcomes, counter_vars, tear_down_vars,
      reader_vars, close_vars, wire_vars
<1>1. ASSUME NEW r \in Calls, Dispatch(r) \/ DispatchOverflow(r) \/ Register(r)
     PROVE TimeoutsEndConnection'
  BY <1>1 DEF Dispatch, Goto, MayStart, TakeInvokeId, DispatchOverflow,
     Register, DropSenderAt
<1>2. ASSUME NEW r \in Calls, RegisterRefused(r) \/ LockWriter(r) \/ WriteOk(r)
     PROVE TimeoutsEndConnection'
  BY <1>2 DEF RegisterRefused, Goto, LockWriter, WriteOk
<1>3. ASSUME NEW r \in Calls, WriteErr(r) \/ ReceiveReply(r) \/ ReceiveError(r)
     PROVE TimeoutsEndConnection'
  BY <1>3 DEF WriteErr, Goto, ReceiveReply, ReceiveError
<1>4. ASSUME NEW r \in Calls, ReplyTimesOut(r) PROVE TimeoutsEndConnection'
  BY <1>4 DEF ReplyTimesOut, Goto
<1>5. ASSUME NEW r \in Calls, Cancel(r) \/ Return(r) \/ TearDownDone(r) PROVE
     TimeoutsEndConnection'
  BY <1>5 DEF Cancel, Goto, Return, DropSenderAt, TearDownDone
<1>6. ASSUME NEW r \in Calls, TearDown(r) PROVE TimeoutsEndConnection'
  BY <1>6 DEF TearDown, Goto, MarkClosed
<1>7. ASSUME DrainTake \/ DrainEnd \/ (\E r \in Calls : DrainSend(r)) PROVE
     TimeoutsEndConnection'
  BY <1>7 DEF DrainTake, DrainSend, DrainEnd
<1>8. ASSUME Deliver \/ ReaderFails \/ ReaderPanics \/ (\E r \in Calls :
     ReaderReply(r)) PROVE TimeoutsEndConnection'
  BY <1>8 DEF ReaderReply, Deliver, ReaderFails, ReaderPanics
<1>9. ASSUME ReaderTearDown \/ ReaderTearDownDone \/ ReaderShutdown \/ PeerGone
     PROVE TimeoutsEndConnection'
  BY <1>9 DEF ReaderTearDown, MarkClosed, ReaderTearDownDone, ReaderShutdown,
     PeerGone
<1>10. ASSUME CloseBegin \/ CloseDropped \/ CloseDeleted \/ CloseLock \/ CloseWrite
      PROVE  TimeoutsEndConnection'
  BY <1>10 DEF CloseBegin, CloseDropped, CloseDeleted, CloseLock, CloseWrite
<1>11. ASSUME CloseStop \/ CloseTearDown \/ CloseTearDownDone PROVE
     TimeoutsEndConnection'
  BY <1>11 DEF CloseStop, CloseTearDown, MarkClosed, CloseTearDownDone
<1>12. CASE UNCHANGED vars
  BY <1>12 DEF vars
<1> QED BY <1>1, <1>2, <1>3, <1>4, <1>5, <1>6, <1>7, <1>8, <1>9, <1>10, <1>11,
      <1>12 DEF Next, CallStep, DrainStep, ReaderStep, CloseStep, PeerStep,
      Terminated

(* The failed write that cut a frame goes to tear_down.                         *)
LEMMA StepCutFrameEndsConnection ==
  ASSUME IInv, [Next]_vars PROVE CutFrameEndsConnection'
<1> USE ConstantsOK DEF IInv, CutFrameEndsConnection, TypeOK, DrainMeans,
      Waiting, Calls, Ids, Reasons, Outcomes, counter_vars, tear_down_vars,
      reader_vars, close_vars, wire_vars
<1>1. ASSUME NEW r \in Calls, Dispatch(r) PROVE CutFrameEndsConnection'
  BY <1>1 DEF Dispatch, Goto, MayStart, TakeInvokeId
<1>2. ASSUME NEW r \in Calls, DispatchOverflow(r) PROVE CutFrameEndsConnection'
  BY <1>2 DEF DispatchOverflow, Goto, TakeInvokeId
<1>3. ASSUME NEW r \in Calls, Register(r) PROVE CutFrameEndsConnection'
  BY <1>3 DEF Register, Goto, DropSenderAt
<1>4. ASSUME NEW r \in Calls, RegisterRefused(r) PROVE CutFrameEndsConnection'
  BY <1>4 DEF RegisterRefused, Goto
<1>5. ASSUME NEW r \in Calls, LockWriter(r) PROVE CutFrameEndsConnection'
  BY <1>5 DEF LockWriter, Goto
<1>6. ASSUME NEW r \in Calls, WriteOk(r) PROVE CutFrameEndsConnection'
  BY <1>6 DEF WriteOk, Goto
<1>7. ASSUME NEW r \in Calls, WriteErr(r) PROVE CutFrameEndsConnection'
  BY <1>7 DEF WriteErr, MayTear, Goto
<1>8. ASSUME NEW r \in Calls, ReplyTimesOut(r) PROVE CutFrameEndsConnection'
  BY <1>8 DEF ReplyTimesOut, Goto
<1>9. ASSUME NEW r \in Calls, ReceiveReply(r) PROVE CutFrameEndsConnection'
  BY <1>9 DEF ReceiveReply, Goto
<1>10. ASSUME NEW r \in Calls, ReceiveError(r) PROVE CutFrameEndsConnection'
  BY <1>10 DEF ReceiveError, Goto
<1>11. ASSUME NEW r \in Calls, Cancel(r) PROVE CutFrameEndsConnection'
  BY <1>11 DEF Cancel, MayTear, Goto
<1>12. ASSUME NEW r \in Calls, Return(r) PROVE CutFrameEndsConnection'
  BY <1>12 DEF Return, Goto, DropSenderAt
<1>13. ASSUME NEW r \in Calls, TearDown(r) PROVE CutFrameEndsConnection'
  BY <1>13 DEF TearDown, Goto, MarkClosed
<1>14. ASSUME NEW r \in Calls, TearDownDone(r) PROVE CutFrameEndsConnection'
  BY <1>14 DEF TearDownDone, Goto
<1>15. ASSUME DrainTake \/ DrainEnd \/ (\E r \in Calls : DrainSend(r)) PROVE
     CutFrameEndsConnection'
  BY <1>15 DEF DrainTake, DrainSend, DrainEnd
<1>16. ASSUME Deliver \/ ReaderFails \/ ReaderPanics \/ (\E r \in Calls :
     ReaderReply(r)) PROVE CutFrameEndsConnection'
  BY <1>16 DEF ReaderReply, Deliver, ReaderFails, ReaderPanics
<1>17. ASSUME ReaderTearDown \/ ReaderTearDownDone \/ ReaderShutdown \/
     PeerGone PROVE CutFrameEndsConnection'
  BY <1>17 DEF ReaderTearDown, MarkClosed, ReaderTearDownDone, ReaderShutdown,
     PeerGone
<1>18. ASSUME CloseBegin \/ CloseDropped \/ CloseDeleted \/ CloseLock \/ CloseWrite
      PROVE  CutFrameEndsConnection'
  BY <1>18 DEF CloseBegin, CloseDropped, MayTear, CloseDeleted, CloseLock, CloseWrite
<1>19. ASSUME CloseStop \/ CloseTearDown \/ CloseTearDownDone PROVE
     CutFrameEndsConnection'
  BY <1>19 DEF CloseStop, CloseTearDown, MarkClosed, CloseTearDownDone
<1>20. CASE UNCHANGED vars
  BY <1>20 DEF vars
<1> QED BY <1>1, <1>2, <1>3, <1>4, <1>5, <1>6, <1>7, <1>8, <1>9, <1>10, <1>11,
      <1>12, <1>13, <1>14, <1>15, <1>16, <1>17, <1>18, <1>19, <1>20 DEF Next,
      CallStep, DrainStep, ReaderStep, CloseStep, PeerStep, Terminated

--------------------------------------------------------------------------------

(* The initial state satisfies every conjunct.                                 *)
LEMMA InitInvariant == Init => IInv
<1> SUFFICES ASSUME Init PROVE IInv
  OBVIOUS
<1> USE ConstantsOK DEF Init, Calls, Ids, Reasons, Outcomes
<1>1. TypeOK
  <2>1. {0, 1} \subseteq Ids /\ 0 \in Nat
    OBVIOUS
  <2>2. /\ invoke_id \in Ids /\ id \in [Calls -> Ids]
        /\ commands \in [Ids -> Calls \cup {None}]
        /\ got \in [Calls -> Calls \cup {None}]
    BY <2>1
  <2> QED BY <2>1, <2>2 DEF TypeOK
<1>2. SendersInOnePlace /\ DrainMeans /\ OutcomesFit
  BY DEF SendersInOnePlace, DrainMeans, OutcomesFit
<1>3. IdsAreFresh
  BY DEF IdsAreFresh
<1>4. NoStrandedCaller /\ OwnReply /\ FailuresHaveReasons
  BY DEF NoStrandedCaller, Waiting, OwnReply, FailuresHaveReasons
<1>5. TimeoutsEndConnection /\ CutFrameEndsConnection
  BY DEF TimeoutsEndConnection, CutFrameEndsConnection
<1> QED BY <1>1, <1>2, <1>3, <1>4, <1>5 DEF IInv

(* Every step keeps the whole invariant.                                        *)
LEMMA StepInvariant == IInv /\ [Next]_vars => IInv'
BY StepTypeOK, StepSendersInOnePlace, StepDrainMeans, StepOutcomesFit,
   StepIdsAreFresh, StepNoStrandedCaller, StepOwnReply, StepFailuresHaveReasons,
   StepTimeoutsEndConnection, StepCutFrameEndsConnection DEF IInv

(* The inductive invariant holds of every behaviour (client.rs:440-541,         *)
(* 677-788, 822-947).                                                           *)
THEOREM Invariance == Spec => []IInv
BY InitInvariant, StepInvariant, PTL DEF Spec

(* Every variable keeps its type; in particular a connection only ever ends for *)
(* one of the four reasons, and a call returns one of the outcomes.             *)
THEOREM TypeCorrectness == Spec => []TypeOK
<1>1. IInv => TypeOK
  BY DEF IInv
<1> QED BY <1>1, Invariance, PTL

(* No step loses the sender of a call that waits: it can always still be woken  *)
(* by its reply, by a tear-down or by the sender's drop.                        *)
THEOREM CallersCanBeWoken == Spec => []NoStrandedCaller
<1>1. IInv => NoStrandedCaller
  BY DEF IInv
<1> QED BY <1>1, Invariance, PTL

(* When a tear-down is over nobody is left to wait for it, whichever side won   *)
(* the race between register and the drain.                                     *)
THEOREM NobodyMissesTheEnd == Spec => []NoWaitAfterEnd
<1>1. IInv => NoWaitAfterEnd
  <2> SUFFICES ASSUME IInv, drain = "done",
                      NEW r \in Calls, Waiting(r), chan[r] = "open"
               PROVE hand = r
    BY DEF NoWaitAfterEnd
  <2>1. id[r] \in Ids /\ commands[id[r]] = None /\ taken = {}
    BY DEF IInv, TypeOK, DrainMeans
  <2>2. r # None
    BY ConstantsOK
  <2> QED BY <2>1, <2>2 DEF IInv, NoStrandedCaller
<1> QED BY <1>1, Invariance, PTL

(* Until the invoke id wraps no call is handed the reply to another, however    *)
(* late or often the peer answers.                                              *)
THEOREM RepliesAreNotCrossed == Spec => []OwnReply
<1>1. IInv => OwnReply
  BY DEF IInv
<1> QED BY <1>1, Invariance, PTL

(* Until the invoke id wraps no call fails with "response channel was closed".  *)
THEOREM FailuresAreExplained == Spec => []FailuresHaveReasons
<1>1. IInv => FailuresHaveReasons
  BY DEF IInv
<1> QED BY <1>1, Invariance, PTL

(* The timeout count cannot reach its limit and leave the connection open       *)
(* (client.rs:511-514).                                                         *)
THEOREM LimitsEndTheConnection == Spec => []TimeoutsEndConnection
<1>1. IInv => TimeoutsEndConnection
  BY DEF IInv
<1> QED BY <1>1, Invariance, PTL

(* A failed write that cut a frame ends the connection (client.rs:498-501).      *)
THEOREM CutFramesEndTheConnection == Spec => []CutFrameEndsConnection
<1>1. IInv => CutFrameEndsConnection
  BY DEF IInv
<1> QED BY <1>1, Invariance, PTL

--------------------------------------------------------------------------------
(* What dropped futures and short notifications cost: without them the two      *)
(* claims of tests/connection_loss.rs that the code does not keep in general    *)
(* hold.                                                                        *)

(* When no future is dropped, a frame is cut by failed writes only, and a reader *)
(* past its loop leaves a connection that has ended or that close() is ending.  *)
Undropped ==
  /\ torn # "dropped"
  /\ closer # "dropped"
  /\ garbled => torn # "no"
  /\ reader \in {"draining", "lock", "stopped"} => closed # None \/ closer = "tear_down"
  /\ reader = "panicked" => "shortNotification" \in PeerFaults

(* Only the application drops futures.                                          *)
LEMMA StepUndropped ==
  ASSUME Cancellable = {}, TypeOK, Undropped, [Next]_vars PROVE Undropped'
<1>1. Undropped /\ ~MayDrop /\ \A r \in Calls : ~Cancel(r)
  BY DEF MayDrop, Cancel
<1> USE <1>1, ConstantsOK DEF Undropped, TypeOK, Reasons, Outcomes, MarkClosed, MayTear,
      counter_vars, tear_down_vars, reader_vars, close_vars, wire_vars
<1>2. ASSUME NEW r \in Calls, Dispatch(r) \/ DispatchOverflow(r) \/ Register(r) \/
             RegisterRefused(r) \/ LockWriter(r)
      PROVE Undropped'
  BY <1>2 DEF Dispatch, DispatchOverflow, Register, RegisterRefused, LockWriter
<1>3. ASSUME NEW r \in Calls, WriteOk(r) \/ ReplyTimesOut(r) \/ ReceiveReply(r) \/
             ReceiveError(r) \/ Return(r)
      PROVE Undropped'
  BY <1>3 DEF WriteOk, ReplyTimesOut, ReceiveReply, ReceiveError, Return
<1>4. ASSUME NEW r \in Calls, WriteErr(r) PROVE Undropped'
  BY <1>4 DEF WriteErr
<1>5. ASSUME NEW r \in Calls, TearDown(r) \/ TearDownDone(r) PROVE Undropped'
  BY <1>5 DEF TearDown, TearDownDone
<1>6. CASE DrainStep
  BY <1>6 DEF DrainStep, DrainTake, DrainSend, DrainEnd
<1>7. CASE ReaderStep
  BY <1>7 DEF ReaderStep, Deliver, ReaderTearDown, ReaderTearDownDone,
     ReaderShutdown
<1>8. CASE PeerStep
  BY <1>8 DEF PeerStep, ReaderReply, ReaderFails, ReaderPanics, PeerGone
<1>9. CASE CloseBegin \/ CloseDropped \/ CloseDeleted \/ CloseLock \/ CloseWrite
  BY <1>9 DEF CloseBegin, CloseDropped, CloseDeleted, CloseLock, CloseWrite
<1>10. CASE CloseStop \/ CloseTearDown \/ CloseTearDownDone
  BY <1>10 DEF CloseStop, CloseTearDown, CloseTearDownDone
<1>11. CASE UNCHANGED vars
  BY <1>11 DEF vars
<1> QED
  BY <1>2, <1>3, <1>4, <1>5, <1>6, <1>7, <1>8, <1>9, <1>10, <1>11
     DEF Next, CallStep, CloseStep, Terminated

LEMMA UndroppedInvariant ==
  ASSUME Cancellable = {} PROVE Spec => []Undropped
<1>1. Init => Undropped
  BY DEF Init, Undropped
<1>2. TypeOK /\ Undropped /\ [Next]_vars => Undropped'
  BY StepUndropped
<1> QED BY <1>1, <1>2, TypeCorrectness, PTL DEF Spec

(* As long as no future is dropped, a request that went out behind half a frame *)
(* is behind a write that failed, and the connection has ended or the call that *)
(* failed is about to end it (client.rs:486-501).  The window between the write *)
(* and its tear_down is real: the lock is released in between.                  *)
THEOREM GarbledConnectionsEnd ==
  ASSUME Cancellable = {}
  PROVE  Spec => [](garbled => closed # None \/ \E r \in Calls : pc[r] = "tear_down")
<1>1. IInv /\ Undropped =>
        (garbled => closed # None \/ \E r \in Calls : pc[r] = "tear_down")
  BY DEF IInv, TypeOK, Undropped, CutFrameEndsConnection
<1> QED BY <1>1, Invariance, UndroppedInvariant, PTL

(* As long as no future is dropped and no notification is too short for its     *)
(* handle (client.rs:953), a reader that is gone means a connection that has    *)
(* ended, or that close() ends in its next step (client.rs:702-706, 824-838).   *)
THEOREM DeadReaderIsNoticed ==
  ASSUME Cancellable = {}, "shortNotification" \notin PeerFaults
  PROVE  Spec => [](reader \in {"stopped", "panicked"} =>
                      closed # None \/ closer = "tear_down")
<1>1. Undropped => (reader \in {"stopped", "panicked"} =>
                      closed # None \/ closer = "tear_down")
  BY DEF Undropped
<1> QED BY <1>1, UndroppedInvariant, PTL

--------------------------------------------------------------------------------
(* The reason of the connection, and of a call that tears it down. *)

KeepsFirstReason ==
  /\ closed # None => closed' = closed
  /\ \A r \in Calls : pc[r] \in {"tear_down", "draining"} => result'[r] = result[r]

(* Only the first tear_down writes `closed`, and none touches a result.         *)
LEMMA StepFirstReason ==
  ASSUME TypeOK, [Next]_vars PROVE KeepsFirstReason
<1> USE DEF TypeOK, KeepsFirstReason, Goto, MarkClosed, counter_vars,
            tear_down_vars, reader_vars, close_vars, wire_vars
<1>1. ASSUME NEW r \in Calls, UNCHANGED closed,
             result' = result \/ \E o : result' = [result EXCEPT ![r] = o],
             pc[r] \notin {"tear_down", "draining"}
      PROVE KeepsFirstReason
  BY <1>1
<1>2. ASSUME NEW r \in Calls, Dispatch(r) \/ DispatchOverflow(r) \/ Register(r) \/
             RegisterRefused(r) \/ LockWriter(r) \/ WriteOk(r)
      PROVE KeepsFirstReason
  BY <1>1, <1>2 DEF Dispatch, DispatchOverflow, Register, RegisterRefused,
     LockWriter, WriteOk
<1>3. ASSUME NEW r \in Calls, WriteErr(r) \/ ReplyTimesOut(r) \/ ReceiveReply(r) \/
             ReceiveError(r) \/ Cancel(r) \/ Return(r)
      PROVE KeepsFirstReason
  BY <1>1, <1>3 DEF WriteErr, ReplyTimesOut, ReceiveReply, ReceiveError, Cancel,
     Return
<1>4. ASSUME NEW r \in Calls, TearDown(r) \/ TearDownDone(r)
      PROVE KeepsFirstReason
  BY <1>4 DEF TearDown, TearDownDone
<1>5. CASE DrainStep
  BY <1>5 DEF DrainStep, DrainTake, DrainSend, DrainEnd
<1>6. CASE ReaderStep
  BY <1>6 DEF ReaderStep, Deliver, ReaderTearDown, ReaderTearDownDone,
     ReaderShutdown
<1>7. CASE PeerStep
  BY <1>7 DEF PeerStep, ReaderReply, ReaderFails, ReaderPanics, PeerGone
<1>8. CASE CloseStep \/ CloseBegin \/ CloseWrite \/ CloseDropped
  BY <1>8 DEF CloseStep, CloseBegin, CloseDropped, CloseDeleted, CloseLock, CloseWrite,
     CloseStop, CloseTearDown, CloseTearDownDone
<1>9. CASE UNCHANGED vars
  BY <1>9 DEF vars
<1> QED
  BY <1>2, <1>3, <1>4, <1>5, <1>6, <1>7, <1>8, <1>9 DEF Next, CallStep, Terminated

(* Whatever fails afterwards, the connection keeps the reason of its first      *)
(* failure, and the call that met it reports that failure.                      *)
THEOREM TheFirstReasonStays == Spec => FirstReasonWins
<1>1. TypeOK /\ [Next]_vars =>
        [/\ closed # None => closed' = closed
         /\ \A r \in Calls : pc[r] \in {"tear_down", "draining"} =>
              result'[r] = result[r]]_vars
  BY StepFirstReason DEF KeepsFirstReason
<1> QED BY <1>1, TypeCorrectness, PTL DEF Spec, FirstReasonWins

--------------------------------------------------------------------------------
(* Until the invoke id wraps, the connection implements AdsPromise. *)

(* No call has begun and the connection is open.                                *)
LEMMA InitPromise == Init => Abstract!Init
BY ConstantsOK DEF Init, Abstract!Init, Stage, StageOf, Outcome

(* A step the callers cannot see.                                               *)
LEMMA HiddenStep ==
  ASSUME \A q \in Calls : /\ StageOf(pc'[q]) = StageOf(pc[q])
                          /\ pc[q] = "done" => result'[q] = result[q],
         closed' = closed \/ (closed = None /\ closed' \in Reasons)
  PROVE  [Abstract!Next]_(Abstract!pvars)
<1>1. \A q \in Calls : pc'[q] = "done" <=> pc[q] = "done"
  BY DEF StageOf
<1>2. Stage' = Stage /\ Outcome' = Outcome
  BY <1>1 DEF Stage, Outcome
<1>3. CASE closed' = closed
  BY <1>2, <1>3 DEF Abstract!pvars
<1>4. CASE closed' # closed
  BY <1>2, <1>4 DEF Abstract!Next, Abstract!End
<1> QED BY <1>3, <1>4

(* A step by which a call returns.                                              *)
LEMMA LastStep ==
  ASSUME TypeOK, NEW r \in Calls, pc' = [pc EXCEPT ![r] = "done"], pc[r] # "done",
         \A q \in Calls : q # r => result'[q] = result[q]
  PROVE  /\ Stage' = [Stage EXCEPT ![r] = "returned"]
         /\ Outcome' = [Outcome EXCEPT ![r] = result'[r]]
BY DEF TypeOK, Stage, StageOf, Outcome

(* Every step is one of AdsPromise's, or hidden.                                *)
LEMMA StepPromise ==
  ASSUME IInv, ~wrapped, [Next]_vars PROVE [Abstract!Next]_(Abstract!pvars)
<1> USE ConstantsOK DEF IInv, TypeOK, counter_vars, tear_down_vars, reader_vars,
                        close_vars, wire_vars
<1>1. ASSUME NEW r \in Calls, Dispatch(r) PROVE Abstract!Ask(r)
  <2>1. pc' = [pc EXCEPT ![r] = "register"] /\ result' = result
    BY <1>1 DEF Dispatch, Goto
  <2>2. Stage[r] = "idle" /\ UNCHANGED closed /\ pc[r] = "idle" /\ result[r] \in Outcomes
    BY <1>1 DEF Dispatch, Stage, StageOf
  <2>3. Stage' = [Stage EXCEPT ![r] = "called"] /\ Outcome' = Outcome
    BY <2>1, <2>2 DEF Stage, Outcome, StageOf
  <2> QED BY <2>2, <2>3 DEF Abstract!Ask, Abstract!Move
<1>2. ASSUME NEW r \in Calls, DispatchOverflow(r) PROVE Abstract!Reject(r)
  <2>1. pc' = [pc EXCEPT ![r] = "done"] /\ result' = [result EXCEPT ![r] = "Overflow"]
    BY <1>2 DEF DispatchOverflow, Goto
  <2>2. Stage[r] = "idle" /\ UNCHANGED closed /\ pc[r] = "idle" /\ "Overflow" \in Outcomes
    BY <1>2 DEF DispatchOverflow, Stage, StageOf, Outcomes
  <2> QED BY <2>1, <2>2, LastStep DEF Abstract!Reject, Abstract!Move, StageOf
<1>3. ASSUME NEW r \in Calls, Register(r) PROVE Abstract!Accept(r)
  <2>1. pc' = [pc EXCEPT ![r] = "lock"] /\ result' = result
    BY <1>3 DEF Register, Goto
  <2>2. /\ Stage[r] = "called" /\ UNCHANGED closed /\ pc[r] = "register"
        /\ closed = None /\ result[r] \in Outcomes
    BY <1>3 DEF Register, Stage, StageOf
  <2>3. Stage' = [Stage EXCEPT ![r] = "accepted"] /\ Outcome' = Outcome
    BY <2>1, <2>2 DEF Stage, Outcome, StageOf
  <2> QED BY <2>2, <2>3 DEF Abstract!Accept, Abstract!Move
<1>4. ASSUME NEW r \in Calls, RegisterRefused(r) PROVE Abstract!Refuse(r)
  <2>1. /\ pc' = [pc EXCEPT ![r] = "done"]
        /\ result' = [result EXCEPT ![r] = "Disconnected"]
    BY <1>4 DEF RegisterRefused, Goto
  <2>2. /\ Stage[r] = "called" /\ UNCHANGED closed /\ pc[r] = "register"
        /\ closed # None /\ "Disconnected" \in Outcomes
    BY <1>4 DEF RegisterRefused, Stage, StageOf, Outcomes, Reasons
  <2> QED BY <2>1, <2>2, LastStep DEF Abstract!Refuse, Abstract!Move, StageOf
<1>5. ASSUME NEW r \in Calls, Return(r) PROVE Abstract!Finish(r)
  <2>1. /\ pc' = [pc EXCEPT ![r] = "done"]
        /\ result' = result /\ result[r] = result'[r]
        /\ pc[r] = "return" /\ UNCHANGED closed
    BY <1>5 DEF Return, Goto
  <2>2. Stage[r] = "accepted" /\ result[r] \in Outcomes
    BY <2>1 DEF Stage, StageOf
  <2>3. result[r] \in Abstract!Outcomes
    BY <2>1, <2>2 DEF OutcomesFit, FailuresHaveReasons, Outcomes, Abstract!Outcomes
  <2> QED BY <2>1, <2>2, <2>3, LastStep DEF Abstract!Finish, Abstract!Move, StageOf
<1>6. ASSUME NEW r \in Calls, LockWriter(r) \/ WriteOk(r) \/ WriteErr(r) \/
             ReplyTimesOut(r) \/ TearDownDone(r)
      PROVE [Abstract!Next]_(Abstract!pvars)
  BY <1>6, HiddenStep DEF LockWriter, WriteOk, WriteErr, ReplyTimesOut,
     TearDownDone, Goto, StageOf
<1>7. ASSUME NEW r \in Calls, ReceiveReply(r) \/ ReceiveError(r) \/ Cancel(r)
      PROVE [Abstract!Next]_(Abstract!pvars)
  BY <1>7, HiddenStep DEF ReceiveReply, ReceiveError, Cancel, Goto, StageOf
<1>8. ASSUME NEW r \in Calls, TearDown(r) PROVE [Abstract!Next]_(Abstract!pvars)
  <2>1. result[r] \in Reasons
    BY <1>8 DEF TearDown, OutcomesFit, Reasons
  <2> QED BY <1>8, <2>1, HiddenStep DEF TearDown, MarkClosed, Goto, StageOf
<1>9. CASE DrainStep
  BY <1>9, HiddenStep DEF DrainStep, DrainTake, DrainSend, DrainEnd
<1>10. CASE ReaderStep
  BY <1>10, HiddenStep DEF ReaderStep, Deliver, ReaderTearDown,
     ReaderTearDownDone, ReaderShutdown, MarkClosed, Reasons
<1>11. CASE PeerStep
  BY <1>11, HiddenStep DEF PeerStep, ReaderReply, ReaderFails, ReaderPanics, PeerGone
<1>12. CASE CloseStep \/ CloseBegin \/ CloseWrite \/ CloseDropped
  BY <1>12, HiddenStep DEF CloseStep, CloseBegin, CloseDropped, CloseDeleted, CloseLock,
     CloseWrite, CloseStop, CloseTearDown, CloseTearDownDone, MarkClosed, Reasons
<1>13. CASE UNCHANGED vars
  BY <1>13, HiddenStep DEF vars
<1> QED
  BY <1>1, <1>2, <1>3, <1>4, <1>5, <1>6, <1>7, <1>8, <1>9, <1>10, <1>11, <1>12,
     <1>13 DEF Next, CallStep, Terminated, Abstract!Next

(* To the tasks that share it the connection is AdsPromise: calls are refused   *)
(* exactly from its end on, an end is never undone, and a failure of the        *)
(* connection is never reported before it has happened.                         *)
THEOREM ImplementsPromise == Spec /\ []~wrapped => Abstract!Safe
BY InitPromise, StepPromise, Invariance, PTL DEF Spec, Abstract!Safe
================================================================================

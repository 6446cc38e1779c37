--------------------------- MODULE AdsSessionProofs ---------------------------
(***************************************************************************)
(* AdsSession for any tasks and symbols: there is one open client at most, *)
(* and a connected one was seen in Run mode.  The lock around the          *)
(* connection is what both rest on.                                        *)
(***************************************************************************)
EXTENDS AdsSession, FiniteSetTheorems, TLAPS

(* Between the opening of a client and the end of connect(). *)
Checks(t) == pc[t] \in {"is_run", "set_read", "write_control", "confirm", "publish", "abandon"}

(* One task at a time has the lock of the connection. *)
Exclusive == \A t, u \in Tasks : Holds(t) /\ Holds(u) => t = u

(* A task that is to open a client, or has opened one, has found nothing        *)
(* connected; what it will publish has reported Run.                            *)
ConnectingAlone ==
  \A t \in Tasks :
    /\ pc[t] = "open" \/ Checks(t) => connection = None
    /\ pc[t] = "publish" => client[t] \in seen_run

(* Every open client has one owner: Connected, or the task that checks it.      *)
Owned == \A s \in open : s = connection \/ \E t \in Tasks : Checks(t) /\ client[t] = s

USE DEF conn_vars

SInv == TypeOK /\ Exclusive /\ ConnectingAlone /\ Owned /\ ConnectedMeansRunWasSeen

--------------------------------------------------------------------------------
(* Types. *)

LEMMA InitTypes == Init => TypeOK
BY DEF Init, TypeOK

(* The ends of an operation. *)
LEMMA ReturnTypes ==
  ASSUME TypeOK, NEW t \in Tasks, Return(t) \/ ConnectFails(t),
         UNCHANGED <<symbol_handles, plc_vars>>, open' \subseteq Sessions,
         connection' \in Sessions \cup {None}, cut' \in BOOLEAN, seen_run' \subseteq Sessions
  PROVE  TypeOK'
BY DEF TypeOK, Return, ConnectFails, Goto, plc_vars

LEMMA ConnectTypes ==
  ASSUME TypeOK, NEW t \in Tasks,
         \/ Check(t) \/ Sleep(t) \/ ConnectLock(t) \/ ConnectClear(t) \/ ConnectRecheck(t)
         \/ ConnectCloseOld(t) \/ ConnectOpen(t) \/ ConnectRefused(t)
  PROVE  TypeOK'
<1>1. CASE Check(t)
  BY <1>1, ReturnTypes DEF Check, TypeOK, Goto, Stay, plc_vars
<1>2. CASE Sleep(t)
  BY <1>2 DEF Sleep, TypeOK, Goto, Stay, plc_vars
<1>3. CASE ConnectLock(t)
  BY <1>3 DEF ConnectLock, TypeOK, Goto, Stay, plc_vars
<1>4. CASE ConnectClear(t)
  BY <1>4 DEF ConnectClear, TypeOK, Goto, Stay, plc_vars
<1>5. CASE ConnectRecheck(t)
  BY <1>5, ReturnTypes DEF ConnectRecheck, TypeOK, Goto, Stay, plc_vars
<1>6. CASE ConnectCloseOld(t)
  BY <1>6 DEF ConnectCloseOld, TypeOK, Goto, Stay, plc_vars
<1>7. CASE ConnectOpen(t)
  BY <1>7 DEF ConnectOpen, TypeOK, Goto, plc_vars
<1>8. CASE ConnectRefused(t)
  BY <1>8, ReturnTypes DEF ConnectRefused, TypeOK
<1> QED BY <1>1, <1>2, <1>3, <1>4, <1>5, <1>6, <1>7, <1>8

LEMMA EnsureRunTypes ==
  ASSUME TypeOK, NEW t \in Tasks,
         \/ IsRunMode(t) \/ SetReadsState(t) \/ WriteControl(t) \/ ConfirmRun(t)
         \/ Publish(t) \/ EnsureRunFails(t) \/ Abandon(t)
  PROVE  TypeOK'
<1>1. ASSUME NEW otherwise \in {"set_read", "write_control", "abandon"}, ReadState(t, otherwise)
      PROVE  TypeOK'
  BY <1>1 DEF ReadState, TypeOK, Goto, Stay, plc_vars
<1>2. CASE IsRunMode(t) \/ SetReadsState(t) \/ ConfirmRun(t)
  BY <1>1, <1>2 DEF IsRunMode, SetReadsState, ConfirmRun
<1>3. CASE WriteControl(t)
  BY <1>3 DEF WriteControl, TypeOK, Goto, Stay
<1>4. CASE Publish(t)
  BY <1>4, ReturnTypes DEF Publish, TypeOK
<1>5. CASE EnsureRunFails(t)
  BY <1>5 DEF EnsureRunFails, TypeOK, Goto, Stay, plc_vars
<1>6. CASE Abandon(t)
  BY <1>6, ReturnTypes DEF Abandon, TypeOK
<1> QED BY <1>2, <1>3, <1>4, <1>5, <1>6

LEMMA DisconnectTypes ==
  ASSUME TypeOK, NEW t \in Tasks, DisconnectClear(t) \/ DisconnectLock(t) \/ DisconnectClosed(t)
  PROVE  TypeOK'
<1>1. CASE DisconnectClear(t)
  BY <1>1 DEF DisconnectClear, TypeOK, Goto, Stay, plc_vars
<1>2. CASE DisconnectLock(t)
  BY <1>2, ReturnTypes DEF DisconnectLock, TypeOK, Goto, Stay, plc_vars
<1>3. CASE DisconnectClosed(t)
  BY <1>3, ReturnTypes DEF DisconnectClosed, TypeOK
<1> QED BY <1>1, <1>2, <1>3

LEMMA ReadTypes ==
  ASSUME TypeOK, NEW t \in Tasks,
         \/ Lookup(t) \/ GrabClient(t) \/ GetHandle(t) \/ InsertHandle(t)
         \/ ReadAnswered(t) \/ RequestFails(t) \/ WriteFails(t) \/ CheckError(t)
  PROVE  TypeOK'
<1>0. None \notin Sessions
  BY SessionConstants
<1>1. CASE Lookup(t)
  BY <1>1 DEF Lookup, TypeOK, Goto, plc_vars
<1>2. CASE GrabClient(t)
  BY <1>0, <1>2, ReturnTypes DEF GrabClient, TypeOK, Goto, IsConnected, plc_vars
<1>3. CASE GetHandle(t)
  BY <1>3 DEF GetHandle, TypeOK, Goto, plc_vars
<1>4. CASE InsertHandle(t)
  BY <1>4 DEF InsertHandle, TypeOK, Goto, plc_vars
<1>5. CASE ReadAnswered(t)
  BY <1>5, ReturnTypes DEF ReadAnswered, TypeOK
<1>6. CASE RequestFails(t) \/ WriteFails(t)
  BY <1>6 DEF RequestFails, WriteFails, TypeOK, Goto, plc_vars
<1>7. CASE CheckError(t)
  BY <1>7, ReturnTypes DEF CheckError, TypeOK, Goto, Stay, plc_vars
<1> QED BY <1>1, <1>2, <1>3, <1>4, <1>5, <1>6, <1>7

(* What is closed was open. *)
LEMMA CancelCloses == ASSUME NEW t \in Tasks, Cancel(t) PROVE open' \subseteq open
BY DEF Cancel

LEMMA NextTypes == TypeOK /\ [Next]_vars => TypeOK'
<1> SUFFICES ASSUME TypeOK, [Next]_vars PROVE TypeOK'
  OBVIOUS
<1>1. ASSUME NEW t \in Tasks, Start(t) PROVE TypeOK'
  BY <1>1, SessionConstants DEF Start, TypeOK, Goto, plc_vars
<1>2. ASSUME NEW t \in Tasks, TaskStep(t) PROVE TypeOK'
  BY <1>2, ConnectTypes, EnsureRunTypes, DisconnectTypes, ReadTypes DEF TaskStep
<1>3. CASE SessionDies
  BY <1>3 DEF SessionDies, TypeOK, task_vars, plc_vars
<1>4. CASE PlcChangesMode
  BY <1>4 DEF PlcChangesMode, TypeOK, task_vars
<1>5. CASE HealthChanges
  BY <1>5 DEF HealthChanges, TypeOK, task_vars
<1>6. CASE UNCHANGED vars
  BY <1>6 DEF vars, TypeOK, task_vars, plc_vars
<1>7. ASSUME NEW t \in Tasks, Cancel(t) PROVE TypeOK'
  <2>1. Return(t) /\ UNCHANGED <<connection, symbol_handles, plc_vars, seen_run>> /\ cut' \in BOOLEAN
    BY <1>7 DEF Cancel, TypeOK
  <2> QED BY <1>7, <2>1, CancelCloses, ReturnTypes DEF TypeOK
<1> QED BY <1>1, <1>2, <1>3, <1>4, <1>5, <1>6, <1>7 DEF Next

--------------------------------------------------------------------------------
(* The lock. *)

(* What a step of one task may do to the lock.                                  *)
LEMMA LockSteps ==
  ASSUME TypeOK, Exclusive, NEW t \in Tasks, NEW label, pc' = [pc EXCEPT ![t] = label],
         \/ Holds(t) \/ LockFree
         \/ label \notin {"clear", "recheck", "close_old", "open", "is_run", "set_read",
                          "write_control", "confirm", "publish", "abandon", "closing"}
  PROVE  Exclusive'
BY DEF TypeOK, Exclusive, Holds, LockFree

(* A step of a task moves that task, to a label outside of the lock unless it   *)
(* has the lock or takes it while it is free.                                   *)
LEMMA TaskMoves ==
  ASSUME TypeOK, NEW t \in Tasks, Start(t) \/ TaskStep(t) \/ Cancel(t)
  PROVE  \E label :
           /\ pc' = [pc EXCEPT ![t] = label]
           /\ \/ Holds(t) \/ LockFree
              \/ label \notin {"clear", "recheck", "close_old", "open", "is_run", "set_read",
                               "write_control", "confirm", "publish", "abandon", "closing"}
<1>1. CASE Start(t)
  <2>1. \E label \in {"lookup", "connect", "check", "disconnect"} : Goto(t, label)
    <3>1. PICK op \in Operations : Goto(t, CASE op = "read" -> "lookup"
                                              [] op = "connect" -> "connect"
                                              [] op = "retry" -> "check"
                                              [] op = "disconnect" -> "disconnect")
      BY <1>1 DEF Start
    <3>2. op \in {"read", "connect", "retry", "disconnect"}
      BY SessionConstants
    <3> QED BY <3>1, <3>2
  <2> QED BY <2>1 DEF Goto
<1>2. CASE Holds(t) /\ TaskStep(t)
  BY <1>2 DEF TaskStep, Holds, Goto, Return, ConnectFails, Check, Sleep, ConnectLock,
     ConnectClear, ConnectRecheck, ConnectCloseOld, ConnectOpen, ConnectRefused, IsRunMode,
     SetReadsState, WriteControl, ConfirmRun, ReadState, Publish, EnsureRunFails, Abandon,
     DisconnectClear, DisconnectLock, DisconnectClosed, Lookup, GrabClient, GetHandle,
     InsertHandle, ReadAnswered, RequestFails, WriteFails, CheckError
<1>3. CASE Check(t) \/ ConnectLock(t) \/ DisconnectLock(t) \/ GrabClient(t)
  BY <1>3 DEF Goto, Return, Check, ConnectLock, DisconnectLock, GrabClient
<1>4. CASE Sleep(t) \/ DisconnectClear(t) \/ Lookup(t) \/ GetHandle(t)
  BY <1>4 DEF Goto, Sleep, DisconnectClear, Lookup, GetHandle
<1>5. CASE InsertHandle(t) \/ ReadAnswered(t) \/ RequestFails(t) \/ WriteFails(t) \/ CheckError(t)
  BY <1>5 DEF Goto, Return, InsertHandle, ReadAnswered, RequestFails, WriteFails, CheckError
<1>6. \/ Holds(t) \/ Check(t) \/ ConnectLock(t) \/ DisconnectLock(t) \/ GrabClient(t)
      \/ Sleep(t) \/ DisconnectClear(t) \/ Lookup(t) \/ GetHandle(t)
      \/ InsertHandle(t) \/ ReadAnswered(t) \/ RequestFails(t) \/ WriteFails(t) \/ CheckError(t)
      \/ Start(t) \/ Cancel(t)
  BY DEF TaskStep, Holds, ConnectClear, ConnectRecheck, ConnectCloseOld, ConnectOpen,
     ConnectRefused, IsRunMode, SetReadsState, WriteControl, ConfirmRun, Publish,
     EnsureRunFails, Abandon, DisconnectClosed
<1>7. CASE Cancel(t)
  <2>1. pc' = [pc EXCEPT ![t] = "idle"]
    BY <1>7 DEF Cancel, Return, Goto
  <2> WITNESS "idle"
  <2> QED BY <2>1
<1> QED BY <1>1, <1>2, <1>3, <1>4, <1>5, <1>6, <1>7

--------------------------------------------------------------------------------
(* The open client. *)

Alone == ConnectingAlone /\ Owned /\ ConnectedMeansRunWasSeen

LEMMA ConnectAlone ==
  ASSUME SInv, NEW t \in Tasks,
         \/ Check(t) \/ Sleep(t) \/ ConnectLock(t) \/ ConnectClear(t) \/ ConnectRecheck(t)
         \/ ConnectCloseOld(t) \/ ConnectOpen(t) \/ ConnectRefused(t)
  PROVE  Alone'
<1> USE DEF SInv, Alone, TypeOK, Checks, ConnectingAlone, Owned, ConnectedMeansRunWasSeen
<1>1. CASE Check(t)
  BY <1>1 DEF Check, Return, Goto, Stay
<1>2. CASE Sleep(t)
  BY <1>2 DEF Sleep, Goto, Stay
<1>3. CASE ConnectLock(t)
  BY <1>3 DEF ConnectLock, Goto, Stay
<1>4. CASE ConnectClear(t)
  BY <1>4 DEF ConnectClear, Goto, Stay
<1>5. CASE ConnectRecheck(t)
  BY <1>5 DEF ConnectRecheck, Return, Goto, Stay
<1>6. CASE ConnectCloseOld(t)
  BY <1>6 DEF ConnectCloseOld, Goto, Stay, Exclusive, Holds
<1>7. CASE ConnectOpen(t)
  BY <1>7 DEF ConnectOpen, Goto, Exclusive, Holds
<1>8. CASE ConnectRefused(t)
  BY <1>8 DEF ConnectRefused, ConnectFails, Return, Goto
<1> QED BY <1>1, <1>2, <1>3, <1>4, <1>5, <1>6, <1>7, <1>8

(* While a client is checked, there is no other.                                *)
LEMMA OnlyMine == ASSUME SInv, NEW t \in Tasks, Checks(t) PROVE open \subseteq {client[t]}
<1>1. \A u \in Tasks : Checks(u) => u = t
  BY DEF SInv, Exclusive, Holds, Checks
<1>2. connection = None /\ None \notin open
  BY SessionConstants DEF SInv, ConnectingAlone, TypeOK
<1> QED BY <1>1, <1>2 DEF SInv, Owned

LEMMA EnsureRunAlone ==
  ASSUME SInv, NEW t \in Tasks,
         \/ IsRunMode(t) \/ SetReadsState(t) \/ WriteControl(t) \/ ConfirmRun(t)
         \/ Publish(t) \/ EnsureRunFails(t) \/ Abandon(t)
  PROVE  Alone'
<1> USE DEF SInv, Alone, TypeOK, Checks, ConnectingAlone, Owned, ConnectedMeansRunWasSeen
<1>1. ASSUME NEW otherwise \in {"set_read", "write_control", "abandon"}, Checks(t),
             ReadState(t, otherwise)
      PROVE  Alone'
  BY <1>1 DEF ReadState, Goto, Stay
<1>2. CASE IsRunMode(t) \/ SetReadsState(t) \/ ConfirmRun(t)
  <2>1. \E otherwise \in {"set_read", "write_control", "abandon"} : ReadState(t, otherwise)
    BY <1>2 DEF IsRunMode, SetReadsState, ConfirmRun
  <2>2. Checks(t)
    BY <1>2 DEF IsRunMode, SetReadsState, ConfirmRun
  <2> QED BY <1>1, <2>1, <2>2
<1>3. CASE WriteControl(t)
  BY <1>3 DEF WriteControl, Goto, Stay
<1>4. CASE Publish(t)
  <2>1. open \subseteq {client[t]} /\ \A u \in Tasks : Checks(u) \/ pc[u] = "open" => u = t
    BY <1>4, OnlyMine DEF Publish, Exclusive, Holds
  <2>2. /\ connection' = client[t] /\ client[t] \in seen_run
        /\ \A u \in Tasks : u # t => pc'[u] = pc[u] /\ client'[u] = client[u]
        /\ pc'[t] = "idle" /\ UNCHANGED <<open, seen_run>>
    BY <1>4 DEF Publish, Return, Goto
  <2> QED BY <2>1, <2>2
<1>5. CASE EnsureRunFails(t)
  BY <1>5 DEF EnsureRunFails, Goto, Stay
<1>6. CASE Abandon(t)
  <2>2. open' = {}
    BY <1>6, OnlyMine DEF Abandon
  <2>3. /\ connection = None /\ connection' = None
        /\ \A u \in Tasks : u # t => pc'[u] = pc[u] /\ client'[u] = client[u]
        /\ pc'[t] \in {"idle", "sleep"} /\ UNCHANGED seen_run
    BY <1>6 DEF Abandon, ConnectFails, Return, Goto
  <2> QED BY <2>2, <2>3
<1> QED BY <1>2, <1>3, <1>4, <1>5, <1>6

LEMMA DisconnectAlone ==
  ASSUME SInv, NEW t \in Tasks, DisconnectClear(t) \/ DisconnectLock(t) \/ DisconnectClosed(t)
  PROVE  Alone'
<1> USE DEF SInv, Alone, TypeOK, Checks, ConnectingAlone, Owned, ConnectedMeansRunWasSeen
<1>1. CASE DisconnectClear(t)
  BY <1>1 DEF DisconnectClear, Goto, Stay
<1>2. CASE DisconnectLock(t)
  BY <1>2 DEF DisconnectLock, Return, Goto, Stay
<1>3. CASE DisconnectClosed(t)
  BY <1>3 DEF DisconnectClosed, Return, Goto, Exclusive, Holds
<1> QED BY <1>1, <1>2, <1>3

LEMMA ReadAlone ==
  ASSUME SInv, NEW t \in Tasks,
         \/ Lookup(t) \/ GrabClient(t) \/ GetHandle(t) \/ InsertHandle(t)
         \/ ReadAnswered(t) \/ RequestFails(t) \/ WriteFails(t) \/ CheckError(t)
  PROVE  Alone'
<1> USE DEF SInv, Alone, TypeOK, Checks, ConnectingAlone, Owned, ConnectedMeansRunWasSeen
<1>1. CASE Lookup(t)
  BY <1>1 DEF Lookup, Goto
<1>2. CASE GrabClient(t)
  BY <1>2 DEF GrabClient, Return, Goto
<1>3. CASE GetHandle(t)
  BY <1>3 DEF GetHandle, Goto
<1>4. CASE InsertHandle(t)
  BY <1>4 DEF InsertHandle, Goto
<1>5. CASE ReadAnswered(t)
  BY <1>5 DEF ReadAnswered, Return, Goto
<1>6. CASE RequestFails(t) \/ WriteFails(t)
  BY <1>6 DEF RequestFails, WriteFails, Goto, WriterIsShut
<1>7. CASE CheckError(t)
  BY <1>7 DEF CheckError, Return, Goto, Stay
<1> QED BY <1>1, <1>2, <1>3, <1>4, <1>5, <1>6, <1>7

(* The task that is cancelled takes with it the client that only it had.        *)
LEMMA CancelAlone == ASSUME SInv, NEW t \in Tasks, Cancel(t) PROVE Alone'
<1>1. /\ \A u \in Tasks : u # t => pc'[u] = pc[u] /\ client'[u] = client[u]
      /\ pc'[t] = "idle" /\ UNCHANGED <<connection, seen_run>> /\ open' \subseteq open
  BY CancelCloses DEF Cancel, Return, Goto, SInv, TypeOK
<1>2. CASE Checks(t)
  <2>1. Unpublished(t)
    BY <1>2 DEF Cancel, Awaits, Checks, Unpublished
  <2>2. open' = {}
    BY <1>2, <2>1, OnlyMine DEF Cancel, Unpublished
  <2> QED BY <1>1, <2>2 DEF SInv, Alone, Checks, ConnectingAlone, Owned, ConnectedMeansRunWasSeen
<1>3. CASE ~Checks(t)
  BY <1>1, <1>3 DEF SInv, Alone, Checks, ConnectingAlone, Owned, ConnectedMeansRunWasSeen
<1> QED BY <1>2, <1>3

--------------------------------------------------------------------------------
(* The invariant and the theorems. *)

LEMMA InitSafe == Init => SInv
BY InitTypes DEF Init, SInv, Exclusive, Holds, ConnectingAlone, Checks, Owned,
   ConnectedMeansRunWasSeen

LEMMA NextSafe == SInv /\ [Next]_vars => SInv'
<1> SUFFICES ASSUME SInv, [Next]_vars PROVE SInv'
  OBVIOUS
<1>1. TypeOK'
  BY NextTypes DEF SInv
<1>2. ASSUME NEW t \in Tasks, Start(t) \/ TaskStep(t) \/ Cancel(t) PROVE Exclusive'
  BY <1>2, TaskMoves, LockSteps DEF SInv
<1>3. ASSUME NEW t \in Tasks, Start(t) PROVE Alone'
  <2>1. /\ pc[t] = "idle" /\ \A u \in Tasks : u # t => pc'[u] = pc[u]
        /\ pc'[t] \notin {"open", "publish"} /\ ~Checks(t)'
    <3>1. PICK op \in Operations : Goto(t, CASE op = "read" -> "lookup"
                                              [] op = "connect" -> "connect"
                                              [] op = "retry" -> "check"
                                              [] op = "disconnect" -> "disconnect")
      BY <1>3 DEF Start
    <3>2. op \in {"read", "connect", "retry", "disconnect"}
      BY SessionConstants
    <3>3. pc[t] = "idle"
      BY <1>3 DEF Start
    <3> QED BY <3>1, <3>2, <3>3 DEF Goto, Checks, SInv, TypeOK
  <2>2. UNCHANGED <<client, open, connection, seen_run>>
    BY <1>3 DEF Start
  <2> QED BY <2>1, <2>2 DEF SInv, Alone, Checks, ConnectingAlone, Owned,
                            ConnectedMeansRunWasSeen
<1>4. ASSUME NEW t \in Tasks, TaskStep(t) PROVE Alone'
  BY <1>4, ConnectAlone, EnsureRunAlone, DisconnectAlone, ReadAlone DEF TaskStep
<1>5. CASE SessionDies \/ PlcChangesMode \/ HealthChanges \/ UNCHANGED vars
  <2>1. /\ UNCHANGED <<pc, client, connection, seen_run>> /\ open' \subseteq open
    BY <1>5 DEF SessionDies, PlcChangesMode, HealthChanges, vars, task_vars, plc_vars
  <2>2. Exclusive'
    BY <2>1 DEF SInv, Exclusive, Holds
  <2>3. Alone'
    BY <2>1 DEF SInv, Alone, Checks, ConnectingAlone, Owned, ConnectedMeansRunWasSeen
  <2> QED BY <1>1, <2>2, <2>3 DEF SInv, Alone
<1>6. ASSUME NEW t \in Tasks, Cancel(t) PROVE Alone'
  BY <1>6, CancelAlone
<1> QED BY <1>1, <1>2, <1>3, <1>4, <1>5, <1>6 DEF Next, SInv, Alone

LEMMA Invariant == Spec => []SInv
<1>1. SInv /\ [Next]_vars => SInv'
  BY NextSafe
<1> QED BY <1>1, InitSafe, PTL DEF Spec

(* Every variable of a session keeps its type, and a task that uses a client or *)
(* a handle has one (ads.rs, connection.rs).                                    *)
THEOREM SessionTypes == Spec => []TypeOK
<1>1. SInv => TypeOK
  BY DEF SInv
<1> QED BY <1>1, Invariant, PTL

(* However many tasks connect, disconnect and read, and whenever connections    *)
(* end: two clients are never open at the same time, and an open one is owned   *)
(* by Connected or by the connect() that checks it (connection.rs:17-69).       *)
THEOREM OneClient == Spec => []OneOpenClient
<1>1. ASSUME SInv PROVE OneOpenClient
  <2>1. \A s \in open : s = connection \/ \E t \in Tasks : Holds(t) /\ client[t] = s
    BY <1>1 DEF SInv, Owned, Checks, Holds
  <2>2. \E x : open \subseteq {x}
    <3>1. CASE \E t \in Tasks : Checks(t)
      <4>1. PICK t \in Tasks : Checks(t)
        BY <3>1
      <4>2. open \subseteq {client[t]}
        BY <1>1, <4>1, OnlyMine
      <4> QED BY <4>2
    <3>2. CASE ~\E t \in Tasks : Checks(t)
      <4>1. open \subseteq {connection}
        BY <1>1, <3>2 DEF SInv, Owned
      <4> QED BY <4>1
    <3> QED BY <3>1, <3>2
  <2>3. PICK x : open \subseteq {x}
    BY <2>2
  <2>4. IsFiniteSet({x}) /\ Cardinality({x}) = 1
    BY FS_Singleton
  <2>5. Cardinality(open) <= 1
    BY <2>3, <2>4, FS_Subset
  <2> QED BY <2>1, <2>5 DEF OneOpenClient
<1> QED BY <1>1, Invariant, PTL

(* Nothing is Connected that has not reported Run on that very session          *)
(* (connection.rs:33-38, 71-111).                                               *)
THEOREM ConnectedRuns == Spec => []ConnectedMeansRunWasSeen
<1>1. SInv => ConnectedMeansRunWasSeen
  BY DEF SInv
<1> QED BY <1>1, Invariant, PTL
================================================================================

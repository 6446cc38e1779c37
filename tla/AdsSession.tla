------------------------------ MODULE AdsSession ------------------------------
(***************************************************************************)
(* struct Ads (ads.rs) over AdsConnection (connection.rs): tasks that      *)
(* share one Ads connect, retry, disconnect and read symbols, while the    *)
(* connection underneath dies when it likes.                               *)
(*                                                                         *)
(* A core::Client is a session, a number.  What happens inside it is the   *)
(* subject of AdsClient; here it is open or closed, and a request on it    *)
(* ends well or in error.  Numbers are used again once nothing refers to   *)
(* them, so behaviours are unbounded.  A symbol handle is the session that *)
(* issued it.  The mutex around symbol_handles is never held across an     *)
(* await, so a step that uses the table holds it; the mutex around the     *)
(* connection is held across the awaits of connect and disconnect.         *)
(***************************************************************************)
EXTENDS Naturals, FiniteSets

CONSTANTS
  Tasks,
  Symbols,
  Operations,      \* what the tasks call, see Start
  SetToRunMode,    \* AdsBuilder.set_to_run_mode
  None

(* Each task holds at most a client and a handle; the table and the connection  *)
(* hold the others.  One more is always free.                                   *)
Sessions == 1 .. (2 * Cardinality(Tasks) + Cardinality(Symbols) + 2)

ASSUME SessionConstants ==
  /\ IsFiniteSet(Tasks) /\ IsFiniteSet(Symbols)
  /\ Operations \subseteq {"read", "connect", "retry", "disconnect"}
  /\ SetToRunMode \in BOOLEAN
  /\ None \notin Sessions

VARIABLES
  pc,              \* where each task is
  operation,       \* what it is doing
  symbol,          \* the symbol it reads
  client,          \* the client it has cloned or is connecting, or None
  handle,          \* the handle it has looked up or been given, or None
  error,           \* how its request failed: "none", "other" or "port_gone"
  open,            \* the sessions whose client is not closed
  connection,      \* AdsConnection: the session of Connected, or None
  cut,             \* it is open but shut down: its close() was dropped half-way
  symbol_handles,  \* the cached handle of each symbol, or None
  plc_run,         \* the PLC is in Run mode
  healthy,         \* network and PLC are well: nothing fails by itself
  seen_run         \* history: sessions on which the PLC reported Run

task_vars == <<pc, operation, symbol, client, handle, error>>
conn_vars == <<connection, cut>>
plc_vars == <<plc_run, healthy>>
vars == <<task_vars, open, conn_vars, symbol_handles, plc_vars, seen_run>>

Init ==
  /\ pc = [t \in Tasks |-> "idle"]
  /\ operation = [t \in Tasks |-> "none"]
  /\ symbol \in [Tasks -> Symbols]
  /\ client = [t \in Tasks |-> None]
  /\ handle = [t \in Tasks |-> None]
  /\ error = [t \in Tasks |-> "none"]
  /\ open = {}
  /\ connection = None
  /\ cut = FALSE
  /\ symbol_handles = [s \in Symbols |-> None]
  /\ plc_run \in BOOLEAN
  /\ healthy \in BOOLEAN
  /\ seen_run = {}

--------------------------------------------------------------------------------
(* Helpers. *)

Goto(t, label) == pc' = [pc EXCEPT ![t] = label]

(* Mutant of Holds: with_client keeps the guard until its request is over. *)
HoldsThroughRequest(t) ==
  pc[t] \in {"clear", "recheck", "close_old", "open", "is_run", "set_read",
             "write_control", "confirm", "publish", "abandon", "closing",
             "get_handle", "read", "failed", "disconnect_lock"}

(* The labels between the lock and the drop of the guard in Ads::connect and    *)
(* Ads::disconnect.                                                             *)
Holds(t) ==
  pc[t] \in {"clear", "recheck", "close_old", "open", "is_run", "set_read",
             "write_control", "confirm", "publish", "abandon", "closing"}

LockFree == \A t \in Tasks : ~Holds(t)

(* AdsConnection::is_connected. *)
IsConnected == connection \in open

InUse ==
  {connection} \cup {client[t] : t \in Tasks} \cup {handle[t] : t \in Tasks}
    \cup {symbol_handles[s] : s \in Symbols}

(* The next number nothing refers to. *)
NewSession(n) ==
  LET free == Sessions \ (InUse \cup open) IN n \in free /\ \A m \in free : n <= m

(* The operation returns, its locals dropped. *)
Return(t) ==
  /\ Goto(t, "idle")
  /\ operation' = [operation EXCEPT ![t] = "none"]
  /\ client' = [client EXCEPT ![t] = None]
  /\ handle' = [handle EXCEPT ![t] = None]
  /\ error' = [error EXCEPT ![t] = "none"]
  /\ UNCHANGED symbol

(* connect has failed: connect_with_retry sleeps and tries again. *)
ConnectFails(t) ==
  IF operation[t] = "retry"
  THEN /\ Goto(t, "sleep")
       /\ client' = [client EXCEPT ![t] = None]
       /\ UNCHANGED <<operation, symbol, handle, error>>
  ELSE Return(t)

Stay == UNCHANGED <<operation, symbol, client, handle, error>>

--------------------------------------------------------------------------------
(* The application calls. *)

Start(t) ==
  /\ pc[t] = "idle"
  /\ \E op \in Operations :
       /\ operation' = [operation EXCEPT ![t] = op]
       /\ Goto(t, CASE op = "read" -> "lookup"
                    [] op = "connect" -> "connect"
                    [] op = "retry" -> "check"
                    [] op = "disconnect" -> "disconnect")
  /\ \E s \in Symbols : symbol' = [symbol EXCEPT ![t] = s]
  /\ UNCHANGED <<client, handle, error, open, conn_vars, symbol_handles,
                 plc_vars, seen_run>>

--------------------------------------------------------------------------------
(* Ads::connect and connect_with_retry. *)

Check(t) ==
  /\ pc[t] = "check"
  /\ LockFree
  /\ IF IsConnected THEN Return(t) ELSE Goto(t, "connect") /\ Stay
  /\ UNCHANGED <<open, conn_vars, symbol_handles, plc_vars, seen_run>>

Sleep(t) ==
  /\ pc[t] = "sleep"
  /\ Goto(t, "check")
  /\ Stay
  /\ UNCHANGED <<open, conn_vars, symbol_handles, plc_vars, seen_run>>

ConnectLock(t) ==
  /\ pc[t] = "connect"
  /\ LockFree
  /\ Goto(t, IF IsConnected THEN "recheck" ELSE "clear")
  /\ Stay
  /\ UNCHANGED <<open, conn_vars, symbol_handles, plc_vars, seen_run>>

ConnectClear(t) ==
  /\ pc[t] = "clear"
  /\ symbol_handles' = [s \in Symbols |-> None]
  /\ Goto(t, "recheck")
  /\ Stay
  /\ UNCHANGED <<open, conn_vars, plc_vars, seen_run>>

(* AdsConnection::connect asks again whether it is connected. *)
ConnectRecheck(t) ==
  /\ pc[t] = "recheck"
  /\ IF IsConnected THEN Return(t)
     ELSE Goto(t, IF connection = None THEN "open" ELSE "close_old") /\ Stay
  /\ UNCHANGED <<open, conn_vars, symbol_handles, plc_vars, seen_run>>

ConnectCloseOld(t) ==
  /\ pc[t] = "close_old"
  /\ open' = open \ {connection}
  /\ connection' = None
  /\ cut' = FALSE
  /\ Goto(t, "open")
  /\ Stay
  /\ UNCHANGED <<symbol_handles, plc_vars, seen_run>>

ConnectOpen(t) ==
  /\ pc[t] = "open"
  /\ \E n \in Sessions :
       /\ NewSession(n)
       /\ client' = [client EXCEPT ![t] = n]
       /\ open' = open \cup {n}
       /\ seen_run' = seen_run \ {n}
  /\ Goto(t, "is_run")
  /\ UNCHANGED <<operation, symbol, handle, error, conn_vars, symbol_handles,
                 plc_vars>>

ConnectRefused(t) ==
  /\ pc[t] = "open"
  /\ ~healthy
  /\ ConnectFails(t)
  /\ UNCHANGED <<open, conn_vars, symbol_handles, plc_vars, seen_run>>

(* ReadState is answered on the new session: Run, or on to `otherwise`. *)
ReadState(t, otherwise) ==
  /\ client[t] \in open
  /\ Goto(t, IF plc_run THEN "publish" ELSE otherwise)
  /\ seen_run' = IF plc_run THEN seen_run \cup {client[t]} ELSE seen_run
  /\ Stay
  /\ UNCHANGED <<open, conn_vars, symbol_handles, plc_vars>>

(* Mutant of IsRunMode: the PLC is never asked to go to Run. *)
IsRunModeOnly(t) == pc[t] = "is_run" /\ ReadState(t, "abandon")

IsRunMode(t) ==
  pc[t] = "is_run" /\ ReadState(t, IF SetToRunMode THEN "set_read" ELSE "abandon")

SetReadsState(t) == pc[t] = "set_read" /\ ReadState(t, "write_control")

(* Mutant of WriteControl: its reply is taken for the new state. *)
WriteControlTrusted(t) ==
  /\ pc[t] = "write_control"
  /\ client[t] \in open
  /\ plc_run' \in IF healthy THEN {TRUE} ELSE {TRUE, plc_run}
  /\ Goto(t, "publish")
  /\ Stay
  /\ UNCHANGED <<open, conn_vars, symbol_handles, healthy, seen_run>>

(* The PLC acknowledges WriteControl; unwell, it may not do it.                 *)
WriteControl(t) ==
  /\ pc[t] = "write_control"
  /\ client[t] \in open
  /\ plc_run' \in IF healthy THEN {TRUE} ELSE {TRUE, plc_run}
  /\ Goto(t, "confirm")
  /\ Stay
  /\ UNCHANGED <<open, conn_vars, symbol_handles, healthy, seen_run>>

ConfirmRun(t) == pc[t] = "confirm" /\ ReadState(t, "abandon")

(* *self = Connected(client), and connect returns. *)
Publish(t) ==
  /\ pc[t] = "publish"
  /\ connection' = client[t]
  /\ Return(t)
  /\ UNCHANGED <<cut, open, symbol_handles, plc_vars, seen_run>>

(* One of these requests fails. *)
EnsureRunFails(t) ==
  /\ pc[t] \in {"is_run", "set_read", "write_control", "confirm"}
  /\ client[t] \notin open \/ ~healthy
  /\ Goto(t, "abandon")
  /\ Stay
  /\ UNCHANGED <<open, conn_vars, symbol_handles, plc_vars, seen_run>>

(* Mutant of Abandon: the client is dropped without close(). *)
AbandonOpen(t) ==
  /\ pc[t] = "abandon"
  /\ ConnectFails(t)
  /\ UNCHANGED <<open, conn_vars, symbol_handles, plc_vars, seen_run>>

Abandon(t) ==
  /\ pc[t] = "abandon"
  /\ open' = open \ {client[t]}
  /\ ConnectFails(t)
  /\ UNCHANGED <<conn_vars, symbol_handles, plc_vars, seen_run>>

--------------------------------------------------------------------------------
(* Ads::disconnect, called by the application or by with_client. *)

DisconnectClear(t) ==
  /\ pc[t] = "disconnect"
  /\ symbol_handles' = [s \in Symbols |-> None]
  /\ Goto(t, "disconnect_lock")
  /\ Stay
  /\ UNCHANGED <<open, conn_vars, plc_vars, seen_run>>

DisconnectLock(t) ==
  /\ pc[t] = "disconnect_lock"
  /\ LockFree
  /\ IF connection = None THEN Return(t) ELSE Goto(t, "closing") /\ Stay
  /\ UNCHANGED <<open, conn_vars, symbol_handles, plc_vars, seen_run>>

DisconnectClosed(t) ==
  /\ pc[t] = "closing"
  /\ open' = open \ {connection}
  /\ connection' = None
  /\ cut' = FALSE
  /\ Return(t)
  /\ UNCHANGED <<symbol_handles, plc_vars, seen_run>>

--------------------------------------------------------------------------------
(* Ads::read_symbol: symbol_handle, and with_client twice. *)

Lookup(t) ==
  /\ pc[t] = "lookup"
  /\ handle' = [handle EXCEPT ![t] = symbol_handles[symbol[t]]]
  /\ Goto(t, IF symbol_handles[symbol[t]] = None THEN "handle_client" ELSE "read_client")
  /\ UNCHANGED <<operation, symbol, client, error, open, conn_vars,
                 symbol_handles, plc_vars, seen_run>>

(* Mutant of GrabClient: whatever the connection holds is cloned. *)
GrabClientUnchecked(t) ==
  /\ pc[t] \in {"handle_client", "read_client"}
  /\ LockFree
  /\ client' = [client EXCEPT ![t] = connection]
  /\ Goto(t, IF pc[t] = "handle_client" THEN "get_handle" ELSE "read")
  /\ UNCHANGED <<operation, symbol, handle, error, open, conn_vars,
                 symbol_handles, plc_vars, seen_run>>

(* with_client clones the client under the lock, or fails with Disconnected. *)
GrabClient(t) ==
  /\ pc[t] \in {"handle_client", "read_client"}
  /\ LockFree
  /\ IF IsConnected
     THEN /\ client' = [client EXCEPT ![t] = connection]
          /\ Goto(t, IF pc[t] = "handle_client" THEN "get_handle" ELSE "read")
          /\ UNCHANGED <<operation, symbol, handle, error>>
     ELSE Return(t)
  /\ UNCHANGED <<open, conn_vars, symbol_handles, plc_vars, seen_run>>

(* Nothing more can be written to this client.                                  *)
WriterIsShut(t) == cut /\ client[t] = connection

GetHandle(t) ==
  /\ pc[t] = "get_handle"
  /\ client[t] \in open /\ ~WriterIsShut(t)
  /\ handle' = [handle EXCEPT ![t] = client[t]]
  /\ Goto(t, "insert")
  /\ UNCHANGED <<operation, symbol, client, error, open, conn_vars,
                 symbol_handles, plc_vars, seen_run>>

InsertHandle(t) ==
  /\ pc[t] = "insert"
  /\ symbol_handles' = [symbol_handles EXCEPT ![symbol[t]] = handle[t]]
  /\ client' = [client EXCEPT ![t] = None]
  /\ Goto(t, "read_client")
  /\ UNCHANGED <<operation, symbol, handle, error, open, conn_vars, plc_vars,
                 seen_run>>

(* The PLC knows its own handles only. *)
ReadAnswered(t) ==
  /\ pc[t] = "read"
  /\ client[t] \in open /\ ~WriterIsShut(t)
  /\ handle[t] = client[t]
  /\ Return(t)
  /\ UNCHANGED <<open, conn_vars, symbol_handles, plc_vars, seen_run>>

(* A handle of another session, a timeout, an ADS error of the PLC; 0x006 when  *)
(* its port is gone; anything once the client is closed.                        *)
RequestFails(t) ==
  /\ pc[t] \in {"get_handle", "read"}
  /\ \/ ~healthy
     \/ client[t] \notin open
     \/ pc[t] = "read" /\ handle[t] # client[t]
  /\ \E e \in IF healthy THEN {"other"} ELSE {"other", "port_gone"} :
       error' = [error EXCEPT ![t] = e]
  /\ Goto(t, "failed")
  /\ UNCHANGED <<operation, symbol, client, handle, open, conn_vars,
                 symbol_handles, plc_vars, seen_run>>

(* A write that fails ends the connection. *)
WriteFails(t) ==
  /\ pc[t] \in {"get_handle", "read"}
  /\ WriterIsShut(t)
  /\ open' = open \ {client[t]} /\ cut' = FALSE
  /\ error' = [error EXCEPT ![t] = "other"]
  /\ Goto(t, "failed")
  /\ UNCHANGED <<operation, symbol, client, handle, connection, symbol_handles, plc_vars,
                 seen_run>>

(* client.is_closed() || should_disconnect(&error) *)
CheckError(t) ==
  /\ pc[t] = "failed"
  /\ IF client[t] \notin open \/ error[t] = "port_gone"
     THEN Goto(t, "disconnect") /\ Stay ELSE Return(t)
  /\ UNCHANGED <<open, conn_vars, symbol_handles, plc_vars, seen_run>>

--------------------------------------------------------------------------------
(* The application drops the future of an operation, at any of its awaits (not  *)
(* in a row of steps without one).                                              *)

Awaits(t) == pc[t] \notin {"idle", "recheck", "publish", "failed"}

(* A client that connect has opened and not yet published. *)
Unpublished(t) == pc[t] \in {"is_run", "set_read", "write_control", "confirm", "abandon"}

(* An unpublished client goes with the future, its only owner: its reader is    *)
(* aborted and the socket closed.  A close() that is cut short leaves it        *)
(* Connected: as it was, shut down for writing, or closed.                      *)
Cancel(t) ==
  /\ Awaits(t)
  /\ \/ Unpublished(t) /\ open' = open \ {client[t]} /\ UNCHANGED cut
     \/ pc[t] = "closing" /\ open' = open \ {connection} /\ cut' = FALSE
     \/ pc[t] = "closing" /\ IsConnected /\ cut' = TRUE /\ UNCHANGED open
     \/ ~Unpublished(t) /\ UNCHANGED <<open, cut>>
  /\ Return(t)
  /\ UNCHANGED <<connection, symbol_handles, plc_vars, seen_run>>

--------------------------------------------------------------------------------
(* The world. *)

(* A connection ends: socket closed, bad frame, three timeouts; or the peer has *)
(* seen that nothing more is coming.                                            *)
SessionDies ==
  /\ \E s \in open : /\ ~healthy \/ (cut /\ s = connection)
                    /\ open' = open \ {s}
                    /\ cut' = (cut /\ s # connection)
  /\ UNCHANGED <<task_vars, connection, symbol_handles, plc_vars, seen_run>>

PlcChangesMode ==
  /\ ~healthy
  /\ plc_run' = ~plc_run
  /\ UNCHANGED <<task_vars, open, conn_vars, symbol_handles, healthy, seen_run>>

HealthChanges ==
  /\ healthy' = ~healthy
  /\ UNCHANGED <<task_vars, open, conn_vars, symbol_handles, plc_run, seen_run>>

TaskStep(t) ==
  \/ Check(t) \/ Sleep(t) \/ ConnectLock(t) \/ ConnectClear(t)
  \/ ConnectRecheck(t) \/ ConnectCloseOld(t) \/ ConnectOpen(t)
  \/ ConnectRefused(t) \/ IsRunMode(t) \/ SetReadsState(t) \/ WriteControl(t)
  \/ ConfirmRun(t) \/ Publish(t) \/ EnsureRunFails(t) \/ Abandon(t)
  \/ DisconnectClear(t) \/ DisconnectLock(t) \/ DisconnectClosed(t)
  \/ Lookup(t) \/ GrabClient(t) \/ GetHandle(t) \/ InsertHandle(t)
  \/ ReadAnswered(t) \/ RequestFails(t) \/ WriteFails(t) \/ CheckError(t)

Next ==
  \/ \E t \in Tasks : Start(t) \/ TaskStep(t) \/ Cancel(t)
  \/ SessionDies \/ PlcChangesMode \/ HealthChanges

Spec == Init /\ [][Next]_vars

(* Tasks are polled; tokio's mutex is fair, so a task that waits for the        *)
(* connection gets it (strong fairness).  Requests, close() and the attempt to  *)
(* connect come back, as they do when the timeouts are set (AdsClient).         *)
FairSpec == Spec /\ \A t \in Tasks : SF_vars(TaskStep(t))

--------------------------------------------------------------------------------
(* Properties. *)

TypeOK ==
  /\ pc \in [Tasks -> {"idle", "check", "sleep", "connect", "clear", "recheck",
                       "close_old", "open", "is_run", "set_read", "write_control",
                       "confirm", "publish", "abandon", "disconnect", "disconnect_lock",
                       "closing", "lookup", "handle_client", "get_handle",
                       "insert", "read_client", "read", "failed"}]
  /\ operation \in [Tasks -> {"none", "read", "connect", "retry", "disconnect"}]
  /\ symbol \in [Tasks -> Symbols]
  /\ client \in [Tasks -> Sessions \cup {None}]
  /\ handle \in [Tasks -> Sessions \cup {None}]
  /\ error \in [Tasks -> {"none", "other", "port_gone"}]
  /\ open \subseteq Sessions
  /\ connection \in Sessions \cup {None}
  /\ cut \in BOOLEAN
  /\ symbol_handles \in [Symbols -> Sessions \cup {None}]
  /\ {plc_run, healthy} \subseteq BOOLEAN
  /\ seen_run \subseteq Sessions
  /\ \A t \in Tasks :
       /\ pc[t] \in {"get_handle", "insert", "read", "failed"} => client[t] # None
       /\ pc[t] \in {"insert", "read_client", "read"} => handle[t] # None

(* Only one TCP connection may exist between two hosts (client.rs:137-139), and *)
(* a failed connect leaves none behind (tests/connect.rs:45-50): there is at    *)
(* most one open client, it is the one of Connected or the one a connect in     *)
(* progress is still checking, and the two never exist together.                *)
OneOpenClient ==
  /\ Cardinality(open) <= 1
  /\ \A s \in open : s = connection \/ \E t \in Tasks : Holds(t) /\ client[t] = s

(* is_connected is never true before the PLC has reported Run on this very      *)
(* session, whichever of the three state requests saw it                        *)
(* (connection.rs:33-38, 71-111; tests/connect.rs:34).                          *)
ConnectedMeansRunWasSeen == connection # None => connection \in seen_run

(* Whatever fails, an operation that begins returns: neither a lock nor a       *)
(* failing request can hold it for ever (connect_with_retry aside).             *)
OperationsReturn ==
  \A t \in Tasks :
    pc[t] # "idle" /\ operation[t] # "retry" ~> pc[t] = "idle" \/ operation[t] = "retry"

(* Once the PLC and the network stay well, connect_with_retry comes back        *)
(* (ads.rs:144-161), however the other tasks connect and disconnect meanwhile.  *)
RetrySucceeds ==
  <>[]healthy => \A t \in Tasks : operation[t] = "retry" ~> operation[t] # "retry"

(* tests/common/mod.rs:126, "a stale handle from an earlier connection is       *)
(* rejected", and tests/connection_loss.rs:110-112, a read succeeds after the   *)
(* reconnect: the table of a live connection holds only handles of its own      *)
(* session, since ads.rs:128-131 clears it.                                     *)
CachedHandlesAreCurrent ==
  IsConnected /\ LockFree => \A s \in Symbols : symbol_handles[s] \in {None, connection}

================================================================================

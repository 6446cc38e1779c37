------------------------------ MODULE AdsPromise ------------------------------
(***************************************************************************)
(* What one connection promises the tasks that share it, without the       *)
(* table, the reader, the locks or the wire: each call is accepted or      *)
(* refused, a call accepted returns one outcome, the connection ends at    *)
(* most once and for one reason, and its end sets every caller free.       *)
(***************************************************************************)
CONSTANTS
  Calls,
  Reasons,        \* why a connection may end
  None

VARIABLES
  stage,          \* "idle", "called", "accepted" or "returned"
  outcome,        \* what the call returned, "none" before
  ended           \* why the connection ended, or None

pvars == <<stage, outcome, ended>>

Init ==
  /\ stage = [c \in Calls |-> "idle"]
  /\ outcome = [c \in Calls |-> "none"]
  /\ ended = None

Move(c, from, to) == stage[c] = from /\ stage' = [stage EXCEPT ![c] = to]

Ask(c) == Move(c, "idle", "called") /\ UNCHANGED <<outcome, ended>>

(* A request too long for its header never reaches the connection. *)
Reject(c) ==
  /\ Move(c, "idle", "returned")
  /\ outcome' = [outcome EXCEPT ![c] = "Overflow"]
  /\ UNCHANGED ended

(* A connection that has ended takes no more calls, and says so at once. *)
Accept(c) == ended = None /\ Move(c, "called", "accepted") /\ UNCHANGED <<outcome, ended>>

Refuse(c) ==
  /\ ended # None
  /\ Move(c, "called", "returned")
  /\ outcome' = [outcome EXCEPT ![c] = "Disconnected"]
  /\ UNCHANGED ended

(* A call may always give up by itself; it reports a failure of the connection  *)
(* only when the connection is over, its own failure or the connection's reason.*)
Outcomes == {"Answered", "TimedOut", "Cancelled"}
              \cup (IF ended = None THEN {} ELSE {"WriteFailed", ended})

Finish(c) ==
  /\ Move(c, "accepted", "returned")
  /\ \E o \in Outcomes : outcome' = [outcome EXCEPT ![c] = o]
  /\ UNCHANGED ended

End ==
  /\ ended = None
  /\ \E reason \in Reasons : ended' = reason
  /\ UNCHANGED <<stage, outcome>>

Next == End \/ \E c \in Calls : Ask(c) \/ Reject(c) \/ Accept(c) \/ Refuse(c) \/ Finish(c)

Safe == Init /\ [][Next]_pvars

(* A call asked is accepted or refused; after the end an accepted one returns.  *)
Promise ==
  /\ Safe
  /\ \A c \in Calls : /\ WF_pvars(Accept(c) \/ Refuse(c))
                      /\ WF_pvars(ended # None /\ Finish(c))
================================================================================

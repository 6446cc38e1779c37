-------------------------------- MODULE Reader --------------------------------
(***************************************************************************)
(* The reader task with what it reads (core/client.rs, notification.rs):   *)
(* AmsFraming cuts the stream into frames, and a notification it hands on  *)
(* is walked twice (NotificationFrame) before the next frame is read.  A   *)
(* panic in either of them is the end of the task.                         *)
(***************************************************************************)
EXTENDS AmsFraming, NotificationFrame

reader_vars == <<vars, packet_vars>>

NoPacket ==
  /\ data = <<>> /\ step = "idle"
  /\ ptr = 0 /\ stamps = 0 /\ samples = 0 /\ timestamp = 0
  /\ parsed = <<>> /\ yielded = <<>>

ReaderInit == Init /\ NoPacket

(* Between two packets the reader goes on with the stream. *)
NextPart ==
  /\ step = "idle"
  /\ ReadTcpHeader \/ Discard \/ Discarded \/ ReadAmsHeader \/ ReadPayload \/ EndOfStream
  /\ UNCHANGED packet_vars

(* Of a notification that passes its checks, Notification::new gets all that    *)
(* follows the inner length.                                                    *)
JudgeFrame ==
  /\ step = "idle"
  /\ Judge
  /\ IF handed' # handed /\ frame.command = "notification"
     THEN /\ data' \in {p \in Packets : 4 + 4 * Len(p) = frame.data_length}
          /\ step' = "new"
          /\ UNCHANGED <<ptr, stamps, samples, timestamp, parsed, yielded>>
     ELSE UNCHANGED packet_vars

(* A packet that is rejected is ignored; one that is exhausted is dropped.      *)
DropPacket ==
  /\ step \in {"rejected", "exhausted"}
  /\ data' = <<>> /\ step' = "idle"
  /\ ptr' = 0 /\ stamps' = 0 /\ samples' = 0 /\ timestamp' = 0
  /\ parsed' = <<>> /\ yielded' = <<>>
  /\ UNCHANGED vars

Stopped == Ended \/ (step = "panicked" /\ UNCHANGED vars)

ReaderNext ==
  \/ Send /\ UNCHANGED packet_vars
  \/ NextPart \/ JudgeFrame
  \/ PacketNext /\ UNCHANGED vars
  \/ DropPacket
  \/ Stopped /\ UNCHANGED packet_vars

ReaderSpec == ReaderInit /\ [][ReaderNext]_reader_vars

--------------------------------------------------------------------------------
(* Properties. *)

(* Whatever comes, with whatever counts and lengths inside, a notification kills*)
(* the reader task only when it is too short to hold a length: what the frame's *)
(* checks and the parser let through, the iterator can read (client.rs:953-968; *)
(* notification.rs:86-113, 151-170).                                            *)
OnlyStubsKillTheReader == "panicked" \in {pc, step} => frame.data_length < 4
================================================================================

------------------------------ MODULE AmsFraming ------------------------------
(***************************************************************************)
(* How the reader (ClientReceiver::reader_work, core/client.rs) cuts the   *)
(* byte stream into AMS/TCP frames: which bytes each read_exact consumes,  *)
(* which frames it hands on, ignores, or ends the connection for.          *)
(*                                                                         *)
(* The stream is the sequence of frames the router meant.  The bytes of a  *)
(* frame are counted, not modelled; a reader that is not at the start of a *)
(* frame takes whatever bytes are there for a header.                      *)
(***************************************************************************)
EXTENDS Naturals, Sequences

CONSTANTS
  Kinds,        \* the frames a router sends
  MaxFrames     \* bound: frames sent before the router closes the connection

TcpHeader == 6
AmsHeader == 32

(* A frame: the reserved word and length of its AMS/TCP header; data_length and *)
(* addressee of its AMS header; whether it is a reply or a notification, and    *)
(* whether a notification passes the checks on flags, error and inner length.   *)
FrameType ==
  [reserved : Nat, packet_len : Nat, data_length : Nat, ours : BOOLEAN,
   command : {"reply", "notification"}, well_formed : BOOLEAN]

ASSUME FramingConstants == Kinds \subseteq FrameType /\ MaxFrames \in Nat

VARIABLES
  wire,     \* the frames sent so far
  next,     \* the frame at which the reader is, or in which
  frame,    \* the header fields it has read
  pc,       \* what it reads next
  taken,    \* how many bytes it has taken since the last loop
  adrift,   \* it has lost the boundaries of the frames
  handed    \* the frames handed on, as replies or as notifications

vars == <<wire, next, frame, pc, taken, adrift, handed>>

Init ==
  /\ wire = <<>>
  /\ next = 1
  /\ frame \in Kinds
  /\ pc = "tcp_header"
  /\ taken = 0
  /\ adrift = FALSE
  /\ handed = {}

--------------------------------------------------------------------------------

Send ==
  /\ Len(wire) < MaxFrames
  /\ \E f \in Kinds : wire' = Append(wire, f)
  /\ UNCHANGED <<next, frame, pc, taken, adrift, handed>>

(* Back to the top of the loop: where has the iteration left the reader? *)
Continue ==
  /\ pc' = "tcp_header"
  /\ taken' = 0
  /\ adrift' = (adrift \/ taken # TcpHeader + frame.packet_len)
  /\ next' = next + 1

Stop(how) == pc' = how /\ UNCHANGED <<next, taken, adrift>>

(* Mutant of ReadTcpHeader: `< 31`. *)
ReadTcpHeaderOffByOne ==
  /\ pc = "tcp_header"
  /\ next <= Len(wire)
  /\ IF adrift THEN frame' \in Kinds ELSE frame' = wire[next]
  /\ taken' = TcpHeader
  /\ pc' = IF frame'.packet_len < 31 THEN "discard" ELSE "ams_header"
  /\ UNCHANGED <<wire, next, adrift, handed>>

ReadTcpHeader ==
  /\ pc = "tcp_header"
  /\ next <= Len(wire)
  /\ IF adrift THEN frame' \in Kinds ELSE frame' = wire[next]
  /\ taken' = TcpHeader
  /\ pc' = IF frame'.packet_len <= 31 THEN "discard" ELSE "ams_header"
  /\ UNCHANGED <<wire, next, adrift, handed>>

(* Mutant of Discard: the short packet is not read. *)
DiscardNothing ==
  pc = "discard" /\ pc' = "discarded" /\ UNCHANGED <<wire, next, frame, taken, adrift, handed>>

(* Too short for an AMS header. *)
Discard ==
  /\ pc = "discard"
  /\ taken' = taken + frame.packet_len
  /\ pc' = "discarded"
  /\ UNCHANGED <<wire, next, frame, adrift, handed>>

Discarded == pc = "discarded" /\ Continue /\ UNCHANGED <<wire, frame, handed>>

ReadAmsHeader ==
  /\ pc = "ams_header"
  /\ taken' = taken + AmsHeader
  /\ pc' = "payload"
  /\ UNCHANGED <<wire, next, frame, adrift, handed>>

(* As many bytes as data_length says, before anything is compared. *)
ReadPayload ==
  /\ pc = "payload"
  /\ taken' = taken + frame.data_length
  /\ pc' = "judge"
  /\ UNCHANGED <<wire, next, frame, adrift, handed>>

(* Frames between routers. *)
RouterFrame(f) == f.reserved = 1 \/ f.reserved \in 4096 .. 4098

Known(f) == f.reserved = 0 \/ RouterFrame(f)

SelfConsistent(f) == f.data_length = f.packet_len - AmsHeader

(* LE::read_u32 of the payload needs four bytes. *)
Panics(f) == f.command = "notification" /\ f.data_length < 4

(* Mutant of Judge: frames for another endpoint are handed on too. *)
JudgeAnyAddressee ==
  /\ pc = "judge"
  /\ CASE ~Known(frame) -> Stop("aborted") /\ UNCHANGED handed
       [] RouterFrame(frame) -> Continue /\ UNCHANGED handed
       [] frame.reserved = 0 /\ ~SelfConsistent(frame) -> Stop("aborted") /\ UNCHANGED handed
       [] frame.reserved = 0 /\ SelfConsistent(frame) /\ Panics(frame) ->
            Stop("panicked") /\ UNCHANGED handed
       [] OTHER -> Continue /\ handed' = handed \cup {next}
  /\ UNCHANGED <<wire, frame>>

Judge ==
  /\ pc = "judge"
  /\ CASE ~Known(frame) -> Stop("aborted") /\ UNCHANGED handed
       [] RouterFrame(frame) -> Continue /\ UNCHANGED handed
       [] frame.reserved = 0 /\ ~SelfConsistent(frame) -> Stop("aborted") /\ UNCHANGED handed
       [] frame.reserved = 0 /\ SelfConsistent(frame) /\ ~frame.ours ->
            Continue /\ UNCHANGED handed
       [] frame.reserved = 0 /\ SelfConsistent(frame) /\ frame.ours /\ Panics(frame) ->
            Stop("panicked") /\ UNCHANGED handed
       [] OTHER ->
            /\ Continue
            /\ handed' = IF frame.command = "reply" \/ frame.well_formed
                         THEN handed \cup {next} ELSE handed
  /\ UNCHANGED <<wire, frame>>

(* read_exact meets the end of the stream, at a boundary or inside a frame. *)
EndOfStream ==
  /\ pc \in {"tcp_header", "discard", "ams_header", "payload"}
  /\ pc' = "aborted"
  /\ UNCHANGED <<wire, next, frame, taken, adrift, handed>>

Ended == pc \in {"aborted", "panicked"} /\ Len(wire) = MaxFrames /\ UNCHANGED vars

Next ==
  \/ Send \/ ReadTcpHeader \/ Discard \/ Discarded \/ ReadAmsHeader
  \/ ReadPayload \/ Judge \/ EndOfStream \/ Ended

Spec == Init /\ [][Next]_vars

--------------------------------------------------------------------------------
(* Properties. *)

TypeOK ==
  /\ wire \in Seq(FrameType)
  /\ next \in Nat \ {0}
  /\ frame \in FrameType
  /\ pc \in {"tcp_header", "discard", "discarded", "ams_header", "payload", "judge",
             "aborted", "panicked"}
  /\ taken \in Nat
  /\ adrift \in BOOLEAN
  /\ handed \subseteq Nat

(* The router keeps the lengths of its own frames consistent too.               *)
Tame(f) == RouterFrame(f) /\ f.packet_len > 31 => SelfConsistent(f)

RouterIsTame == \A i \in 1 .. Len(wire) : Tame(wire[i])

(* What the reader should hand on: frames for us that make sense.               *)
Deliverable(f) ==
  /\ f.reserved = 0 /\ f.packet_len > 31 /\ SelfConsistent(f) /\ f.ours
  /\ f.command = "reply" \/ (f.well_formed /\ f.data_length >= 4)

(* However many frames are discarded, ignored or meant for somebody else, the   *)
(* reader stays on the boundaries (client.rs:864-935).                          *)
StaysAligned == RouterIsTame => ~adrift

(* Every frame that should be handed on is, once, until the connection ends,    *)
(* and nothing else is: no reply is lost to a neighbouring frame                *)
(* (client.rs:900-999).                                                         *)
HandsOnExactly ==
  RouterIsTame => handed = {i \in 1 .. (next - 1) : Deliverable(wire[i])}

--------------------------------------------------------------------------------
(* The inductive invariant: what the label says of the bytes taken. *)

(* Since the top of the loop the reader has taken exactly the parts it has read.*)
TakenSoFar ==
  /\ pc = "tcp_header" => taken = 0
  /\ pc \in {"discard", "ams_header"} => taken = TcpHeader
  /\ pc = "discarded" => taken = TcpHeader + frame.packet_len
  /\ pc = "payload" => taken = TcpHeader + AmsHeader
  /\ pc = "judge" => taken = TcpHeader + AmsHeader + frame.data_length
  /\ pc \in {"discard", "discarded"} => frame.packet_len <= 31
  /\ pc \in {"ams_header", "payload", "judge"} => frame.packet_len > 31

(* On the boundaries it is inside the frame it believes to be in.               *)
InTheFrame ==
  /\ next <= Len(wire) + 1
  /\ pc \in {"discard", "discarded", "ams_header", "payload", "judge"} =>
       next <= Len(wire) /\ (~adrift => frame = wire[next])

FInv == TypeOK /\ TakenSoFar /\ InTheFrame /\ StaysAligned /\ HandsOnExactly

================================================================================

--------------------------- MODULE NotificationFrame ---------------------------
(***************************************************************************)
(* core/notification.rs: Notification::new walks a notification packet to  *)
(* its last byte before it accepts it; SampleIter walks it again, without  *)
(* checks, when the reader distributes the samples.  The unit of length is *)
(* the u32: a packet is a sequence of small numbers, a timestamp takes two *)
(* of them, and the data of a sample is counted in them.                   *)
(***************************************************************************)
EXTENDS Naturals, Sequences

CONSTANT Packets      \* what a router may send, from the number of stamps on

ASSUME PacketConstants == Packets \subseteq Seq(Nat)

VARIABLES
  data,      \* the packet
  step,      \* who walks, and what comes next
  ptr,       \* how many words are behind it
  stamps,    \* stamps left
  samples,   \* samples left in the current stamp
  timestamp, \* of the current stamp
  parsed,    \* history: the samples Notification::new stepped over
  yielded    \* the samples the iterator has returned

packet_vars == <<data, step, ptr, stamps, samples, timestamp, parsed, yielded>>

PacketInit ==
  /\ data \in Packets
  /\ step = "new"
  /\ ptr = 0 /\ stamps = 0 /\ samples = 0 /\ timestamp = 0
  /\ parsed = <<>> /\ yielded = <<>>

Left == Len(data) - ptr

(* A sample begins with its handle and its length. *)
SampleAt(p) ==
  [handle |-> data[p + 1], time |-> timestamp, first |-> p + 2, length |-> data[p + 2]]

--------------------------------------------------------------------------------
(* Notification::new; too little data anywhere is an error. *)

New ==
  /\ step = "new"
  /\ IF Left < 1
     THEN step' = "rejected" /\ UNCHANGED <<ptr, stamps>>
     ELSE step' = "parse" /\ ptr' = 1 /\ stamps' = data[1]
  /\ UNCHANGED <<data, samples, timestamp, parsed, yielded>>

ParseStamp ==
  /\ step = "parse" /\ samples = 0 /\ stamps > 0
  /\ IF Left < 3
     THEN step' = "rejected" /\ UNCHANGED <<ptr, stamps, samples, timestamp>>
     ELSE /\ timestamp' = data[ptr + 1]
          /\ samples' = data[ptr + 3]
          /\ ptr' = ptr + 3
          /\ stamps' = stamps - 1
          /\ UNCHANGED step
  /\ UNCHANGED <<data, parsed, yielded>>

(* Mutant of ParseSample: the data of a sample is not stepped over. *)
ParseSampleHeader ==
  /\ step = "parse" /\ samples > 0
  /\ IF Left < 2
     THEN step' = "rejected" /\ UNCHANGED <<ptr, samples, parsed>>
     ELSE /\ parsed' = Append(parsed, SampleAt(ptr))
          /\ ptr' = ptr + 2
          /\ samples' = samples - 1
          /\ UNCHANGED step
  /\ UNCHANGED <<data, stamps, timestamp, yielded>>

ParseSample ==
  /\ step = "parse" /\ samples > 0
  /\ IF Left < 2 \/ Left < 2 + data[ptr + 2]
     THEN step' = "rejected" /\ UNCHANGED <<ptr, samples, parsed>>
     ELSE /\ parsed' = Append(parsed, SampleAt(ptr))
          /\ ptr' = ptr + 2 + data[ptr + 2]
          /\ samples' = samples - 1
          /\ UNCHANGED step
  /\ UNCHANGED <<data, stamps, timestamp, yielded>>

(* Mutant of ParseEnd: what is left over is ignored. *)
ParseEndLoose ==
  /\ step = "parse" /\ samples = 0 /\ stamps = 0
  /\ step' = "iterate" /\ ptr' = 1 /\ stamps' = data[1] /\ timestamp' = 0
  /\ UNCHANGED <<data, samples, parsed, yielded>>

(* Accepted when nothing is left over; samples() starts behind the count. *)
ParseEnd ==
  /\ step = "parse" /\ samples = 0 /\ stamps = 0
  /\ IF Left = 0
     THEN step' = "iterate" /\ ptr' = 1 /\ stamps' = data[1] /\ timestamp' = 0
     ELSE step' = "rejected" /\ UNCHANGED <<ptr, stamps, timestamp>>
  /\ UNCHANGED <<data, samples, parsed, yielded>>

--------------------------------------------------------------------------------
(* SampleIter::next; an expect("size") or split_at that fails is a panic. *)

(* Mutant of NextSample: the next header is looked for inside the data. *)
NextSampleOverlaps ==
  /\ step = "iterate" /\ samples > 0
  /\ IF Left < 2 \/ Left < 2 + data[ptr + 2]
     THEN step' = "panicked" /\ UNCHANGED <<ptr, samples, yielded>>
     ELSE /\ yielded' = Append(yielded, SampleAt(ptr))
          /\ ptr' = ptr + 2
          /\ samples' = samples - 1
          /\ UNCHANGED step
  /\ UNCHANGED <<data, stamps, timestamp, parsed>>

NextSample ==
  /\ step = "iterate" /\ samples > 0
  /\ IF Left < 2 \/ Left < 2 + data[ptr + 2]
     THEN step' = "panicked" /\ UNCHANGED <<ptr, samples, yielded>>
     ELSE /\ yielded' = Append(yielded, SampleAt(ptr))
          /\ ptr' = ptr + 2 + data[ptr + 2]
          /\ samples' = samples - 1
          /\ UNCHANGED step
  /\ UNCHANGED <<data, stamps, timestamp, parsed>>

NextStamp ==
  /\ step = "iterate" /\ samples = 0 /\ stamps > 0
  /\ IF Left < 3
     THEN step' = "panicked" /\ UNCHANGED <<ptr, stamps, samples, timestamp>>
     ELSE /\ timestamp' = data[ptr + 1]
          /\ samples' = data[ptr + 3]
          /\ ptr' = ptr + 3
          /\ stamps' = stamps - 1
          /\ UNCHANGED step
  /\ UNCHANGED <<data, parsed, yielded>>

NoMore ==
  /\ step = "iterate" /\ samples = 0 /\ stamps = 0
  /\ step' = "exhausted"
  /\ UNCHANGED <<data, ptr, stamps, samples, timestamp, parsed, yielded>>

PacketNext ==
  New \/ ParseStamp \/ ParseSample \/ ParseEnd \/ NextSample \/ NextStamp \/ NoMore

PacketSpec == PacketInit /\ [][PacketNext]_packet_vars

--------------------------------------------------------------------------------
(* Properties. *)

(* A packet that Notification::new accepts never panics the reader: the checks  *)
(* of the first walk cover every read of the second (notification.rs:86-113,    *)
(* 151-170).                                                                    *)
AcceptedNeverPanics == step # "panicked"

(* The iterator returns the samples the parser saw, with their timestamps, in   *)
(* their order, and ends with the last byte of the packet.                      *)
IteratesWhatWasParsed ==
  /\ step \in {"iterate", "exhausted"} =>
       /\ Len(yielded) <= Len(parsed)
       /\ \A i \in 1 .. Len(yielded) : yielded[i] = parsed[i]
  /\ step = "exhausted" => Len(yielded) = Len(parsed) /\ Left = 0

(* The slices handed to subscribers lie inside the packet, behind their headers *)
(* and apart from each other.                                                   *)
SlicesAreApart ==
  /\ \A i \in 1 .. Len(yielded) : yielded[i].first + yielded[i].length <= Len(data)
  /\ \A i \in 1 .. Len(yielded) - 1 :
       yielded[i].first + yielded[i].length + 2 <= yielded[i + 1].first

================================================================================

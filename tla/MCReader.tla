----------------------------- MODULE MCReader -------------------------------
(* Small instances of Reader for TLC. *)
EXTENDS Reader

Frame(reserved, packet_len, data_length, ours, command, well_formed) ==
  [reserved |-> reserved, packet_len |-> packet_len, data_length |-> data_length,
   ours |-> ours, command |-> command, well_formed |-> well_formed]

(* Both sides of every comparison: 31 | 32, three bytes and four, consistent,   *)
(* longer and shorter than declared, known and unknown reserved words; a router *)
(* frame that disagrees with itself; notifications of one to nine words.        *)
RouterKinds ==
  { Frame(0, 0, 0, FALSE, "reply", FALSE), Frame(1, 2, 0, FALSE, "reply", FALSE),
    Frame(0, 31, 0, TRUE, "reply", FALSE),
    Frame(0, 32, 0, TRUE, "reply", FALSE), Frame(0, 40, 8, TRUE, "reply", FALSE),
    Frame(0, 40, 8, FALSE, "reply", FALSE),
    Frame(0, 40, 9, TRUE, "reply", FALSE), Frame(0, 40, 7, TRUE, "reply", FALSE),
    Frame(0, 35, 3, TRUE, "notification", TRUE),
    Frame(0, 36, 4, TRUE, "notification", FALSE),
    Frame(1, 40, 8, TRUE, "reply", FALSE), Frame(4096, 40, 8, FALSE, "reply", FALSE),
    Frame(4098, 32, 0, FALSE, "reply", FALSE), Frame(4099, 40, 8, TRUE, "reply", FALSE),
    Frame(1, 40, 0, FALSE, "reply", FALSE) }
    \cup { Frame(0, 36 + 4 * n, 4 + 4 * n, TRUE, "notification", TRUE) : n \in {1, 4, 6, 7, 9} }

(* One stamp with two samples, two stamps, counts that do not fit. *)
SmallPackets == UNION {[1 .. n -> 0 .. 2] : n \in {1, 4, 6, 7, 9}}
================================================================================

----------------------------- MODULE MCReplyDecode -----------------------------
(* A small instance of ReplyDecode for TLC: a field of two bits. *)
EXTENDS ReplyDecode

Bits == {0, 1}

TwoBits == [b \in [1 .. 2 -> Bits] |-> b[1] + 2 * b[2]]

(* Payloads from none to three bytes of data behind result and length. *)
ShortPayloads == UNION {[1 .. n -> Bits] : n \in 0 .. 7}

KnownStates == {<<0, 0>>, <<1, 0>>}

(* Nothing, structures below and above a field, reads of every length up to three. *)
SmallRequests ==
  { [kind |-> "write", size |-> 0], [kind |-> "state", size |-> 2],
    [kind |-> "struct", size |-> 1], [kind |-> "struct", size |-> 4] }
    \cup [kind : {"read", "exact"}, size : 0 .. 3]
================================================================================

------------------------------ MODULE ReplyDecode ------------------------------
(***************************************************************************)
(* What a caller makes of the reply it was handed (Client::communicate and *)
(* the requests over it, core/client.rs): the checks of the header and the *)
(* result, the distribution of the data into the result buffers, and what  *)
(* read, read_exact and read_state conclude from it.                       *)
(*                                                                         *)
(* The reply is any header that passes or fails each check, and any bytes. *)
(* A buffer that nothing was copied to holds Unset.                        *)
(***************************************************************************)
EXTENDS Integers, Sequences

CONSTANTS
  Byte,       \* the values of a byte
  Unset,      \* what a byte of a buffer holds before anything is copied to it
  Field,      \* bytes of a u32: of the result, of the length a read returns
  LE,         \* the number that Field bytes stand for
  States,     \* the replies to a state request whose ADS state is known
  Requests,   \* what is asked: what for, into a buffer of how many bytes
  Payloads    \* the payloads of replies

Kind == {"write", "struct", "state", "read", "exact"}

ASSUME ReplyConstants ==
  /\ Unset \notin Byte
  /\ Field \in Nat \ {0}
  /\ LE \in [[1 .. Field -> Byte] -> Nat]
  /\ Requests \subseteq [kind : Kind, size : Nat]
  /\ Payloads \subseteq Seq(Byte)

(* The checks of the header, in the order of the code. *)
Checks == <<"source", "command", "flags", "invoke_id", "error_code">>
CheckNames == {Checks[i] : i \in DOMAIN Checks}

VARIABLES
  request,   \* the request, a member of Requests
  wrong,     \* the checks the header of its reply does not pass
  payload,   \* what follows the header
  bufs,      \* the result buffers
  pc,
  k,         \* the buffer to be filled next
  taken,     \* data bytes distributed so far
  rest,      \* and still to be distributed
  outcome,   \* "ok", or what the request fails with
  length     \* the length that read() returns

vars == <<request, wrong, payload, bufs, pc, k, taken, rest, outcome, length>>

(* The buffers a request passes: none, one structure, or a length and the data. *)
Sizes(r) ==
  CASE r.kind = "write" -> <<>>
    [] r.kind \in {"struct", "state"} -> <<r.size>>
    [] OTHER -> <<Field, r.size>>

Blank(n) == [i \in 1 .. n |-> Unset]

(* Field bytes of the payload, or of a buffer, read as a number. *)
U32(bytes) == LE[[i \in 1 .. Field |-> bytes[i]]]

DataLen == Len(payload) - Field

Init ==
  /\ request \in Requests
  /\ wrong \in SUBSET CheckNames
  /\ payload \in Payloads
  /\ bufs = [j \in DOMAIN Sizes(request) |-> Blank(Sizes(request)[j])]
  /\ pc = "header"
  /\ k = 1 /\ taken = 0 /\ rest = 0
  /\ outcome = "none"
  /\ length = 0

--------------------------------------------------------------------------------

(* The request is over, with an answer or with an error. *)
Return(how) ==
  /\ pc' = "done"
  /\ outcome' = how
  /\ UNCHANGED <<request, wrong, payload, bufs, k, taken, rest, length>>

(* Mutant: the error code is looked at first. *)
HeaderRefusedErrorFirst ==
  /\ pc = "header"
  /\ IF "error_code" \in wrong
     THEN Return("error_code")
     ELSE \E i \in DOMAIN Checks : Checks[i] \in wrong /\ Return(Checks[i])

HeaderRefused ==
  /\ pc = "header"
  /\ \E i \in DOMAIN Checks :
       /\ Checks[i] \in wrong
       /\ \A j \in 1 .. i - 1 : Checks[j] \notin wrong
       /\ Return(Checks[i])

(* Mutant: the state flags are not compared. *)
HeaderPassesAnyFlags ==
  /\ pc = "header" /\ wrong \subseteq {"flags"}
  /\ pc' = "result"
  /\ UNCHANGED <<request, wrong, payload, bufs, k, taken, rest, outcome, length>>

HeaderPasses ==
  /\ pc = "header" /\ wrong = {}
  /\ pc' = "result"
  /\ UNCHANGED <<request, wrong, payload, bufs, k, taken, rest, outcome, length>>

(* resp_buf[..4] of a payload that has no four bytes. *)
NoResult ==
  /\ pc = "result" /\ Len(payload) < Field
  /\ pc' = "panic"
  /\ UNCHANGED <<request, wrong, payload, bufs, k, taken, rest, outcome, length>>

ResultIs(ok) ==
  pc = "result" /\ Len(payload) >= Field /\ ((U32(payload) = 0) <=> ok)

ResultIsError == ResultIs(FALSE) /\ Return("result")

NothingWanted == ResultIs(TRUE) /\ bufs = <<>> /\ Return("ok")

(* The first buffer must be filled; those behind it need not. *)
FirstBufferFits == Len(payload) >= Len(bufs[1]) + Field

TooShort ==
  /\ ResultIs(TRUE) /\ bufs # <<>> /\ ~FirstBufferFits
  /\ Return("too_short")

Distribute ==
  /\ ResultIs(TRUE) /\ bufs # <<>> /\ FirstBufferFits
  /\ pc' = "fill"
  /\ rest' = DataLen
  /\ UNCHANGED <<request, wrong, payload, bufs, k, taken, outcome, length>>

(* Mutants of the loop: the position in the reply is not advanced, or what is *)
(* left of it is not reduced.                                                 *)
FillWith(advance, reduce) ==
  /\ pc = "fill"
  /\ LET n == IF Len(bufs[k]) < rest THEN Len(bufs[k]) ELSE rest
     IN  IF taken + n > DataLen
         THEN /\ pc' = "panic"
              /\ UNCHANGED <<bufs, k, taken, rest>>
         ELSE /\ bufs' = [bufs EXCEPT ![k] =
                            [i \in DOMAIN bufs[k] |->
                               IF i <= n THEN payload[Field + taken + i] ELSE bufs[k][i]]]
              /\ taken' = taken + (IF advance THEN n ELSE 0)
              /\ rest' = rest - (IF reduce THEN n ELSE 0)
              /\ k' = k + 1
              /\ pc' = IF rest' = 0 \/ k' > Len(bufs) THEN "filled" ELSE "fill"
  /\ UNCHANGED <<request, wrong, payload, outcome, length>>

FillFromStart == FillWith(FALSE, TRUE)
FillBeyondEnd == FillWith(TRUE, FALSE)

(* One round of the loop over the buffers; the slice of the reply panics if it *)
(* reaches over its end.                                                       *)
Fill ==
  /\ pc = "fill"
  /\ LET n == IF Len(bufs[k]) < rest THEN Len(bufs[k]) ELSE rest
     IN  IF taken + n > DataLen
         THEN /\ pc' = "panic"
              /\ UNCHANGED <<bufs, k, taken, rest>>
         ELSE /\ bufs' = [bufs EXCEPT ![k] =
                            [i \in DOMAIN bufs[k] |->
                               IF i <= n THEN payload[Field + taken + i] ELSE bufs[k][i]]]
              /\ taken' = taken + n
              /\ rest' = rest - n
              /\ k' = k + 1
              /\ pc' = IF rest' = 0 \/ k' > Len(bufs) THEN "filled" ELSE "fill"
  /\ UNCHANGED <<request, wrong, payload, outcome, length>>

(* What the typed requests make of an accepted reply. *)
StructIsRead ==
  /\ pc = "filled" /\ request.kind = "struct"
  /\ Return("ok")

StateIsRead ==
  /\ pc = "filled" /\ request.kind = "state"
  /\ Return(IF bufs[1] \in States THEN "ok" ELSE "unknown_state")

(* Mutant: read_exact does not compare. *)
LengthIsNotCompared ==
  /\ pc = "filled" /\ request.kind \in {"read", "exact"}
  /\ length' = U32(bufs[1])
  /\ pc' = "done"
  /\ outcome' = "ok"
  /\ UNCHANGED <<request, wrong, payload, bufs, k, taken, rest>>

(* The length is the one the PLC has written into the reply. *)
LengthIsRead ==
  /\ pc = "filled" /\ request.kind \in {"read", "exact"}
  /\ length' = U32(bufs[1])
  /\ pc' = "done"
  /\ outcome' = IF request.kind = "exact" /\ length' # request.size
                THEN "less_data" ELSE "ok"
  /\ UNCHANGED <<request, wrong, payload, bufs, k, taken, rest>>

Finished == pc \in {"done", "panic"} /\ UNCHANGED vars

Next ==
  \/ HeaderRefused \/ HeaderPasses
  \/ NoResult \/ ResultIsError \/ NothingWanted \/ TooShort
  \/ Distribute \/ Fill
  \/ StructIsRead \/ StateIsRead \/ LengthIsRead
  \/ Finished

Spec == Init /\ [][Next]_vars

--------------------------------------------------------------------------------

(* Where the data for buffer j begin in the reply. *)
Start(j) == IF j = 1 THEN 0 ELSE Sizes(request)[1]

(* The types of the variables. *)
TypeOK ==
  /\ request \in Requests
  /\ wrong \subseteq CheckNames
  /\ payload \in Seq(Byte)
  /\ bufs \in Seq(Seq(Byte \cup {Unset})) /\ Len(bufs) = Len(Sizes(request))
  /\ \A j \in DOMAIN bufs : Len(bufs[j]) = Sizes(request)[j]
  /\ pc \in {"header", "result", "fill", "filled", "done", "panic"}
  /\ k \in 1 .. 3 /\ taken \in Nat /\ rest \in Nat /\ length \in Nat

(* The reply to be trusted: ours, without error, long enough. *)
Verified ==
  /\ wrong = {}
  /\ Len(payload) >= Field /\ U32(payload) = 0
  /\ bufs # <<>> => Len(payload) >= Field + Sizes(request)[1]

(* A buffer before the k-th holds its part of the reply, as far as there is one; *)
(* nothing has touched the others.                                               *)
FilledSoFar ==
  \A j \in DOMAIN bufs : \A i \in 1 .. Sizes(request)[j] :
    bufs[j][i] = IF j < k /\ Start(j) + i <= DataLen
                 THEN payload[Field + Start(j) + i] ELSE Unset

(* Where the loop is. *)
LoopMeans ==
  /\ pc \in {"header", "result"} => k = 1 /\ taken = 0 /\ rest = 0
  /\ pc = "fill" =>
       k \in DOMAIN bufs /\ taken = Start(k) /\ taken <= DataLen /\ rest = DataLen - taken
  /\ pc = "filled" => bufs # <<>> /\ k > 1 /\ (k \in DOMAIN bufs => Start(k) >= DataLen)
  /\ pc \in {"fill", "filled"} \/ k > 1 => Verified
  /\ pc = "result" => wrong = {}
  /\ outcome # "none" => pc = "done"

(* The PLC's length field tells how many bytes follow it. *)
Truthful == Len(payload) >= 2 * Field
              /\ LE[[i \in 1 .. Field |-> payload[Field + i]]] = Len(payload) - 2 * Field

(* An ADS error is told to a caller only from a reply to its own request: a     *)
(* header that is not ours is refused for that (client.rs:536-579).             *)
ErrorsAreOurs ==
  /\ outcome = "error_code" => wrong = {"error_code"}
  /\ outcome \in {"result", "too_short"} => wrong = {}

(* A request that succeeds has passed every check, and its buffers, one after   *)
(* the other, hold the data of the reply as far as they go; nothing else is in  *)
(* them (client.rs:604-623).                                                    *)
FilledFromReply ==
  outcome = "ok" =>
    /\ Verified
    /\ \A j \in DOMAIN bufs : \A i \in 1 .. Sizes(request)[j] :
         bufs[j][i] = IF Start(j) + i <= DataLen THEN payload[Field + Start(j) + i] ELSE Unset

(* If the PLC tells the length of what it sends, the length that read() returns *)
(* is the part of the buffer that holds data, and after read_exact() that is    *)
(* all of it (client.rs:270-313, 355-403).  Without the premise neither does.   *)
ReadTellsWhatIsFilled ==
  outcome = "ok" /\ request.kind \in {"read", "exact"} /\ Truthful =>
    /\ \A i \in 1 .. request.size :
         bufs[2][i] = IF i <= length THEN payload[2 * Field + i] ELSE Unset
    /\ request.kind = "exact" => length = request.size

(* The slices of the loop stay inside the reply: the only panic is that of a    *)
(* reply without a result (client.rs:582).                                      *)
OnlyShortRepliesPanic == pc = "panic" => Len(payload) < Field

(* The inductive invariant: the types, where the loop is, and what the buffers  *)
(* hold at that point; the properties above follow from it or are parts of it.  *)
DInv ==
  /\ TypeOK /\ LoopMeans /\ FilledSoFar
  /\ ErrorsAreOurs /\ FilledFromReply /\ ReadTellsWhatIsFilled /\ OnlyShortRepliesPanic
================================================================================

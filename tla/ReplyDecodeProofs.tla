--------------------------- MODULE ReplyDecodeProofs ---------------------------
(***************************************************************************)
(* The decoding of ReplyDecode for every reply and every request: bytes,   *)
(* fields and buffers of any number.  DInv (ReplyDecode) is inductive.     *)
(***************************************************************************)
EXTENDS ReplyDecode, TLAPS

(* At most two buffers; those of a read are its length and its data.            *)
LEMMA SizesOfRequest ==
  ASSUME NEW r \in Requests
  PROVE  /\ Sizes(r) \in Seq(Nat) /\ Len(Sizes(r)) \in 0 .. 2
         /\ r.kind = "write" => Len(Sizes(r)) = 0
         /\ r.kind \in {"struct", "state"} => Len(Sizes(r)) = 1
         /\ r.kind \in {"read", "exact"} =>
              Len(Sizes(r)) = 2 /\ Sizes(r)[1] = Field /\ Sizes(r)[2] = r.size
<1>1. r.kind \in Kind /\ r.size \in Nat /\ Field \in Nat
  BY ReplyConstants
<1>2. CASE r.kind = "write"
  <2>1. Sizes(r) = <<>>
    BY <1>2 DEF Sizes
  <2> QED BY <1>2, <2>1
<1>3. CASE r.kind \in {"struct", "state"}
  <2>1. Sizes(r) = <<r.size>>
    BY <1>3 DEF Sizes
  <2> QED BY <1>1, <1>3, <2>1
<1>4. CASE r.kind \in {"read", "exact"}
  <2>1. Sizes(r) = <<Field, r.size>>
    BY <1>4 DEF Sizes
  <2> QED BY <1>1, <1>4, <2>1
<1> QED BY <1>1, <1>2, <1>3, <1>4 DEF Kind

(* A number is read from any Field bytes.                                       *)
LEMMA NumberOfBytes ==
  ASSUME NEW s, \A i \in 1 .. Field : s[i] \in Byte
  PROVE  U32(s) \in Nat
<1>1. [i \in 1 .. Field |-> s[i]] \in [1 .. Field -> Byte]
  OBVIOUS
<1> QED BY <1>1, ReplyConstants DEF U32

(* The request has been sent, its buffers are as the caller passed them.         *)
LEMMA InitDecoding == Init => DInv
<1> SUFFICES ASSUME Init PROVE DInv
  OBVIOUS
<1>1. request \in Requests /\ payload \in Seq(Byte)
  BY ReplyConstants DEF Init
<1> DEFINE S == Sizes(request)
<1>2. S \in Seq(Nat) /\ Len(S) \in 0 .. 2
  BY <1>1, SizesOfRequest
<1> HIDE DEF S
<1>3. bufs = [j \in 1 .. Len(S) |-> Blank(S[j])]
  BY <1>2 DEF Init, S
<1>4. \A j \in 1 .. Len(S) :
        Blank(S[j]) \in Seq(Byte \cup {Unset}) /\ Len(Blank(S[j])) = S[j]
        /\ \A i \in 1 .. S[j] : Blank(S[j])[i] = Unset
  <2> TAKE j \in 1 .. Len(S)
  <2>1. S[j] \in Nat
    BY <1>2
  <2> QED BY <2>1 DEF Blank
<1>5. bufs \in Seq(Seq(Byte \cup {Unset})) /\ Len(bufs) = Len(S)
      /\ (\A j \in 1 .. Len(S) : Len(bufs[j]) = S[j])
      /\ (\A j \in 1 .. Len(S) : \A i \in 1 .. S[j] : bufs[j][i] = Unset)
  BY <1>2, <1>3, <1>4
<1>6. TypeOK
  <2>1. \A j \in DOMAIN bufs : Len(bufs[j]) = Sizes(request)[j]
    BY <1>5 DEF S
  <2>2. bufs \in Seq(Seq(Byte \cup {Unset})) /\ Len(bufs) = Len(Sizes(request))
    BY <1>5 DEF S
  <2> QED BY <1>1, <2>1, <2>2 DEF Init, TypeOK
<1>7. FilledSoFar
  <2>1. \A j \in DOMAIN bufs : ~ (j < k)
    BY <1>5 DEF Init
  <2> QED BY <1>5, <2>1 DEF FilledSoFar, S
<1> QED
  BY <1>6, <1>7
     DEF Init, DInv, LoopMeans, ErrorsAreOurs, FilledFromReply, ReadTellsWhatIsFilled,
         OnlyShortRepliesPanic

(* What a step that copies nothing leaves as it was.                            *)
LEMMA NothingCopied ==
  ASSUME UNCHANGED <<request, wrong, payload, bufs, k>>
  PROVE  /\ Verified' <=> Verified
         /\ FilledSoFar' <=> FilledSoFar
         /\ Truthful' <=> Truthful
         /\ DataLen' = DataLen
         /\ \A j : Start(j)' = Start(j)
<1>1. DataLen' = DataLen /\ (\A j : Start(j)' = Start(j)) /\ (Truthful' <=> Truthful)
  BY DEF DataLen, Start, Truthful
<1>2. Verified' <=> Verified
  BY DEF Verified, U32
<1>3. FilledSoFar' <=> FilledSoFar
  BY <1>1 DEF FilledSoFar
<1> QED BY <1>1, <1>2, <1>3

(* The buffers are one or two sequences; Len(payload) is a number.              *)
LEMMA Shapes ==
  ASSUME TypeOK
  PROVE  /\ DOMAIN bufs = 1 .. Len(bufs) /\ Len(bufs) \in 0 .. 2
         /\ Sizes(request) \in Seq(Nat)
         /\ \A j \in 1 .. Len(bufs) :
              /\ Sizes(request)[j] \in Nat /\ Len(bufs[j]) = Sizes(request)[j]
              /\ bufs[j] \in Seq(Byte \cup {Unset})
         /\ bufs = <<>> <=> Len(bufs) = 0
         /\ Len(payload) \in Nat /\ Field \in Nat \ {0} /\ DataLen \in Int
<1>1. request \in Requests /\ bufs \in Seq(Seq(Byte \cup {Unset}))
  BY DEF TypeOK
<1>2. Len(bufs) = Len(Sizes(request)) /\ payload \in Seq(Byte)
  BY DEF TypeOK
<1>3. DOMAIN bufs = 1 .. Len(bufs)
  BY <1>1
<1>4. Sizes(request) \in Seq(Nat) /\ Len(Sizes(request)) \in 0 .. 2
  BY <1>1, SizesOfRequest
<1>5. \A j \in 1 .. Len(bufs) : Sizes(request)[j] \in Nat
  BY <1>2, <1>4
<1>6. \A j \in 1 .. Len(bufs) :
        Len(bufs[j]) = Sizes(request)[j] /\ bufs[j] \in Seq(Byte \cup {Unset})
  BY <1>1, <1>3 DEF TypeOK
<1>7. Len(payload) \in Nat /\ Field \in Nat \ {0} /\ DataLen \in Int
  BY <1>2, ReplyConstants DEF DataLen
<1>8. bufs = <<>> <=> Len(bufs) = 0
  BY <1>1
<1> QED BY <1>2, <1>3, <1>4, <1>5, <1>6, <1>7, <1>8

(* The header refused: for the first check it does not pass.                    *)
LEMMA StepHeaderRefused == ASSUME DInv, HeaderRefused PROVE DInv'
<1> USE DEF DInv
<1>1. PICK i \in 1 .. 5 :
        /\ Checks[i] \in wrong /\ \A j \in 1 .. i - 1 : Checks[j] \notin wrong
        /\ Return(Checks[i])
  BY DEF HeaderRefused, Checks
<1>2. pc = "header" /\ pc' = "done" /\ outcome' = Checks[i]
      /\ UNCHANGED <<request, wrong, payload, bufs, k, taken, rest, length>>
  BY <1>1 DEF HeaderRefused, Return
<1>3. Checks[i] \in {"source", "command", "flags", "invoke_id", "error_code"}
      /\ (Checks[i] = "error_code" => i = 5)
  BY DEF Checks
<1>4. ErrorsAreOurs'
  <2>1. ASSUME Checks[i] = "error_code" PROVE wrong = {"error_code"}
    <3>1. i = 5 /\ \A j \in 1 .. 4 : Checks[j] \notin wrong
      BY <1>1, <1>3, <2>1
    <3>2. wrong \subseteq {"source", "command", "flags", "invoke_id", "error_code"}
      BY DEF TypeOK, CheckNames, Checks
    <3>3. /\ Checks[1] = "source" /\ Checks[2] = "command"
          /\ Checks[3] = "flags" /\ Checks[4] = "invoke_id"
      BY DEF Checks
    <3>4. "source" \notin wrong /\ "command" \notin wrong
          /\ "flags" \notin wrong /\ "invoke_id" \notin wrong
      BY <3>1, <3>3
    <3> QED BY <1>1, <2>1, <3>2, <3>4
  <2> QED BY <1>2, <1>3, <2>1 DEF ErrorsAreOurs
<1>5. FilledSoFar' /\ (Verified' <=> Verified)
  BY <1>2, NothingCopied
<1>6. TypeOK' /\ LoopMeans'
  BY <1>2, <1>5 DEF TypeOK, LoopMeans
<1> QED
  BY <1>2, <1>3, <1>4, <1>5, <1>6
     DEF FilledFromReply, ReadTellsWhatIsFilled, OnlyShortRepliesPanic

(* The result looked at: refused, or on to the distribution.                     *)
LEMMA StepResult ==
  ASSUME DInv, HeaderPasses \/ NoResult \/ ResultIsError \/ TooShort \/ Distribute
  PROVE  DInv'
<1> USE DEF DInv
<1>1. UNCHANGED <<request, wrong, payload, bufs, k, taken, length>>
  BY DEF HeaderPasses, NoResult, ResultIsError, TooShort, Distribute, Return
<1>2. FilledSoFar' /\ (Verified' <=> Verified) /\ DataLen' = DataLen
      /\ \A j : Start(j)' = Start(j)
  BY <1>1, NothingCopied
<1>3. k = 1 /\ taken = 0 /\ rest = 0 /\ outcome = "none"
  BY DEF HeaderPasses, NoResult, ResultIsError, TooShort, Distribute, ResultIs, LoopMeans
<1>4. CASE HeaderPasses
  BY <1>1, <1>2, <1>3, <1>4
     DEF HeaderPasses, TypeOK, LoopMeans, ErrorsAreOurs, FilledFromReply,
         ReadTellsWhatIsFilled, OnlyShortRepliesPanic
<1>5. CASE NoResult
  BY <1>1, <1>2, <1>3, <1>5
     DEF NoResult, TypeOK, LoopMeans, ErrorsAreOurs, FilledFromReply,
         ReadTellsWhatIsFilled, OnlyShortRepliesPanic
<1>6. CASE ResultIsError \/ TooShort
  <2>1. wrong = {} /\ pc' = "done" /\ outcome' \in {"result", "too_short"} /\ rest' = rest
    BY <1>6 DEF ResultIsError, TooShort, ResultIs, Return, LoopMeans
  <2> QED
    BY <1>1, <1>2, <1>3, <2>1
       DEF TypeOK, LoopMeans, ErrorsAreOurs, FilledFromReply,
           ReadTellsWhatIsFilled, OnlyShortRepliesPanic
<1>7. CASE Distribute
  <2>1. /\ wrong = {} /\ Len(payload) >= Field /\ U32(payload) = 0 /\ bufs # <<>>
        /\ FirstBufferFits /\ pc' = "fill" /\ rest' = DataLen /\ outcome' = outcome
    BY <1>7 DEF Distribute, ResultIs, LoopMeans
  <2>2. /\ 1 \in DOMAIN bufs /\ Len(bufs[1]) = Sizes(request)[1]
        /\ DataLen \in Nat
    BY <2>1, Shapes DEF DataLen
  <2>3. Verified
    <3>1. Sizes(request)[1] \in Nat /\ Field \in Nat /\ Len(payload) \in Nat
      BY <2>2, Shapes
    <3>2. Len(payload) >= Field + Sizes(request)[1]
      BY <2>1, <2>2, <3>1 DEF FirstBufferFits
    <3> QED BY <2>1, <3>2 DEF Verified
  <2>4. LoopMeans'
    BY <1>1, <1>2, <1>3, <2>1, <2>2, <2>3 DEF LoopMeans, Start
  <2> QED
    BY <1>1, <1>2, <1>3, <2>1, <2>2, <2>4
       DEF TypeOK, ErrorsAreOurs, FilledFromReply,
           ReadTellsWhatIsFilled, OnlyShortRepliesPanic
<1> QED BY <1>4, <1>5, <1>6, <1>7

(* A request that wants nothing back.                                           *)
LEMMA StepNothingWanted == ASSUME DInv, NothingWanted PROVE DInv'
<1> USE DEF DInv
<1>1. /\ wrong = {} /\ Len(payload) >= Field /\ U32(payload) = 0 /\ bufs = <<>>
      /\ pc' = "done" /\ outcome' = "ok"
      /\ UNCHANGED <<request, wrong, payload, bufs, k, taken, rest, length>>
  BY DEF NothingWanted, ResultIs, Return, LoopMeans
<1>2. FilledSoFar' /\ (Verified' <=> Verified)
  BY <1>1, NothingCopied
<1>3. Verified
  BY <1>1 DEF Verified
<1>4. Len(Sizes(request)) = 0 /\ request \in Requests /\ DOMAIN bufs = {}
  BY <1>1, Shapes DEF TypeOK
<1>5. request.kind \notin {"read", "exact"}
  BY <1>4, SizesOfRequest
<1>6. FilledFromReply'
  BY <1>1, <1>2, <1>3, <1>4 DEF FilledFromReply
<1> QED
  BY <1>1, <1>2, <1>3, <1>5, <1>6
     DEF TypeOK, LoopMeans, ErrorsAreOurs, ReadTellsWhatIsFilled, OnlyShortRepliesPanic

(* One round of the loop: the k-th buffer gets its part of the reply.            *)
LEMMA StepFill == ASSUME DInv, Fill PROVE DInv'
<1> USE DEF DInv
<1> DEFINE n == IF Len(bufs[k]) < rest THEN Len(bufs[k]) ELSE rest
           new == [i \in DOMAIN bufs[k] |->
                     IF i <= n THEN payload[Field + taken + i] ELSE bufs[k][i]]
<1>1. /\ k \in DOMAIN bufs /\ taken = Start(k) /\ taken <= DataLen
      /\ rest = DataLen - taken /\ Verified /\ outcome = "none"
      /\ pc = "fill"
  BY DEF Fill, LoopMeans
<1>2. UNCHANGED <<request, wrong, payload, outcome, length>>
  BY DEF Fill
<1>3. /\ DOMAIN bufs = 1 .. Len(bufs) /\ Len(bufs) \in 0 .. 2
      /\ bufs[k] \in Seq(Byte \cup {Unset}) /\ Len(bufs[k]) = Sizes(request)[k]
      /\ Sizes(request)[k] \in Nat /\ taken \in Nat /\ rest \in Nat
      /\ Len(payload) \in Nat /\ Field \in Nat \ {0} /\ DataLen \in Int
  BY <1>1, Shapes DEF TypeOK
<1>4. n \in Nat /\ n <= Len(bufs[k]) /\ n <= rest /\ taken + n <= DataLen
  <2>1. Len(bufs[k]) \in Nat /\ rest \in Nat /\ taken \in Nat /\ DataLen \in Int
    BY <1>3
  <2>2. n \in Nat /\ n <= Len(bufs[k]) /\ n <= rest
    BY <2>1
  <2> HIDE DEF n
  <2> QED BY <1>1, <2>1, <2>2
<1>5. /\ bufs' = [bufs EXCEPT ![k] = new] /\ taken' = taken + n /\ rest' = rest - n
      /\ k' = k + 1
      /\ pc' = IF rest' = 0 \/ k' > Len(bufs) THEN "filled" ELSE "fill"
  <2> HIDE DEF new
  <2>1. ~ (taken + n > DataLen)
    BY <1>3, <1>4
  <2> QED BY <2>1 DEF Fill, new
<1>6. new \in Seq(Byte \cup {Unset}) /\ Len(new) = Len(bufs[k])
  <2>1. DOMAIN bufs[k] = 1 .. Len(bufs[k])
    BY <1>3
  <2>2. ASSUME NEW i \in 1 .. Len(bufs[k]) PROVE new[i] \in Byte \cup {Unset}
    <3>1. CASE i <= n
      <4>1. Field + taken + i \in 1 .. Len(payload)
        BY <1>3, <1>4, <3>1 DEF DataLen
      <4>2. payload[Field + taken + i] \in Byte
        BY <4>1 DEF TypeOK
      <4> QED BY <2>1, <3>1, <4>2
    <3>2. CASE ~ (i <= n)
      BY <1>3, <2>1, <3>2
    <3> QED BY <3>1, <3>2
  <2> HIDE DEF n
  <2>3. new = [i \in 1 .. Len(bufs[k]) |-> new[i]] /\ Len(bufs[k]) \in Nat
    BY <1>3, <2>1
  <2> HIDE DEF new
  <2>4. new \in [1 .. Len(bufs[k]) -> Byte \cup {Unset}]
    BY <2>2, <2>3
  <2> QED BY <2>3, <2>4
<1> HIDE DEF new, n
<1>7. /\ bufs' \in Seq(Seq(Byte \cup {Unset})) /\ Len(bufs') = Len(bufs)
      /\ bufs'[k] = new
      /\ \A j \in 1 .. Len(bufs) : j # k => bufs'[j] = bufs[j]
  <2>1. bufs \in Seq(Seq(Byte \cup {Unset}))
    BY DEF TypeOK
  <2> QED BY <1>1, <1>3, <1>5, <1>6, <2>1
<1>8. DOMAIN bufs' = DOMAIN bufs
  BY <1>3, <1>7
<1>9. TypeOK'
  <2>1. \A j \in DOMAIN bufs' : Len(bufs'[j]) = Sizes(request')[j]
    BY <1>2, <1>3, <1>6, <1>7, <1>8 DEF TypeOK
  <2>2. k' \in 1 .. 3 /\ taken' \in Nat /\ rest' \in Nat
    <3>1. k \in 1 .. 2 /\ taken \in Nat /\ rest \in Nat /\ n \in Nat /\ n <= rest
      BY <1>1, <1>3, <1>4
    <3>2. k' = k + 1 /\ taken' = taken + n /\ rest' = rest - n
      BY <1>5
    <3> QED BY <3>1, <3>2
  <2>3. bufs' \in Seq(Seq(Byte \cup {Unset})) /\ Len(bufs') = Len(Sizes(request'))
    BY <1>2, <1>7 DEF TypeOK
  <2> QED BY <1>2, <1>5, <2>1, <2>2, <2>3 DEF TypeOK
<1>10. DataLen' = DataLen /\ \A j : Start(j)' = Start(j)
  BY <1>2 DEF DataLen, Start
<1>11. Verified'
  <2>1. (bufs # <<>>)' => bufs # <<>>
    BY <1>1, <1>3
  <2> QED BY <1>1, <1>2, <2>1 DEF Verified, U32
<1>12. FilledSoFar'
  <2> SUFFICES ASSUME NEW j \in 1 .. Len(bufs), NEW i \in 1 .. Sizes(request)[j]
               PROVE  bufs'[j][i] = IF j < k' /\ Start(j) + i <= DataLen
                                    THEN payload[Field + Start(j) + i] ELSE Unset
    BY <1>2, <1>3, <1>8, <1>10 DEF FilledSoFar
  <2>1. bufs[j][i] = IF j < k /\ Start(j) + i <= DataLen
                     THEN payload[Field + Start(j) + i] ELSE Unset
    BY <1>3 DEF FilledSoFar
  <2>2. CASE j # k
    <3>1. j < k' <=> j < k
      BY <1>1, <1>3, <1>5, <2>2
    <3> QED BY <1>7, <2>1, <2>2, <3>1
  <2>3. CASE j = k
    <3>1. bufs[k][i] = Unset /\ k < k'
      BY <1>1, <1>3, <1>5, <2>1, <2>3
    <3>2. new[i] = IF i <= n THEN payload[Field + taken + i] ELSE Unset
      <4>1. i \in DOMAIN bufs[k]
        BY <1>3, <2>3
      <4> QED BY <3>1, <4>1 DEF new
    <3>3. i <= n <=> taken + i <= DataLen
      BY <1>1, <1>3, <2>3 DEF n
    <3> QED BY <1>1, <1>7, <2>3, <3>1, <3>2, <3>3
  <2> QED BY <2>2, <2>3
<1>13. LoopMeans'
  <2>1. ASSUME k' \in DOMAIN bufs
        PROVE  /\ k = 1 /\ k' = 2 /\ Start(1) = 0 /\ Start(2) = Len(bufs[1])
               /\ taken = 0 /\ DataLen >= Len(bufs[1])
    <3>1. k = 1 /\ k' = 2
      BY <1>1, <1>3, <1>5, <2>1
    <3>2. Start(1) = 0 /\ Start(2) = Len(bufs[1])
      BY <1>3, <3>1 DEF Start
    <3>3. Len(payload) >= Field + Len(bufs[1])
      BY <1>1, <1>3, <3>1 DEF Verified
    <3> QED BY <1>1, <1>3, <3>1, <3>2, <3>3 DEF DataLen
  <2>2. ASSUME k' \in DOMAIN bufs
        PROVE  /\ taken' = Start(k') /\ taken' <= DataLen /\ rest' = DataLen - taken'
    <3>1. n = Len(bufs[1])
      BY <1>1, <1>3, <2>1, <2>2 DEF n
    <3> QED BY <1>1, <1>3, <1>5, <2>1, <2>2, <3>1
  <2>3. ASSUME k' \in DOMAIN bufs, rest' = 0 PROVE Start(k') >= DataLen
    BY <1>3, <1>9, <2>2, <2>3 DEF TypeOK
  <2>4. k' > 1 /\ bufs' # <<>> /\ k' \in Nat
    BY <1>1, <1>3, <1>5, <1>7
  <2>5. k' \in DOMAIN bufs <=> ~ (k' > Len(bufs))
    BY <1>3, <2>4
  <2>6. outcome' = "none"
    BY <1>1, <1>2
  <2> QED
    BY <1>5, <1>8, <1>10, <1>11, <2>2, <2>3, <2>4, <2>5, <2>6 DEF LoopMeans
<1>14. outcome' = "none" /\ pc' # "panic"
  BY <1>1, <1>2, <1>5
<1> QED
  BY <1>9, <1>12, <1>13, <1>14
     DEF ErrorsAreOurs, FilledFromReply, ReadTellsWhatIsFilled, OnlyShortRepliesPanic

(* When the loop has ended, the buffers hold the reply as far as it goes.        *)
LEMMA LoopFillsAll ==
  ASSUME DInv, pc = "filled"
  PROVE  /\ Verified /\ 1 \in DOMAIN bufs /\ Sizes(request)[1] \in Nat
         /\ DataLen \in Nat /\ Sizes(request)[1] <= DataLen
         /\ \A j \in DOMAIN bufs : \A i \in 1 .. Sizes(request)[j] :
              bufs[j][i] = IF Start(j) + i <= DataLen
                           THEN payload[Field + Start(j) + i] ELSE Unset
<1> USE DEF DInv
<1>1. Verified /\ bufs # <<>> /\ k > 1 /\ (k \in DOMAIN bufs => Start(k) >= DataLen)
  BY DEF LoopMeans
<1>2. /\ DOMAIN bufs = 1 .. Len(bufs) /\ Len(bufs) \in 1 .. 2
      /\ \A j \in 1 .. Len(bufs) : Sizes(request)[j] \in Nat
      /\ Len(payload) \in Nat /\ Field \in Nat /\ k \in 1 .. 3
  BY <1>1, Shapes DEF TypeOK
<1>3. 1 \in DOMAIN bufs /\ Sizes(request)[1] \in Nat
  BY <1>2
<1>4. DataLen \in Nat /\ Sizes(request)[1] <= DataLen
  BY <1>1, <1>2, <1>3 DEF Verified, DataLen
<1>5. ASSUME NEW j \in DOMAIN bufs, NEW i \in 1 .. Sizes(request)[j]
      PROVE  bufs[j][i] = IF Start(j) + i <= DataLen
                          THEN payload[Field + Start(j) + i] ELSE Unset
  <2>1. bufs[j][i] = IF j < k /\ Start(j) + i <= DataLen
                     THEN payload[Field + Start(j) + i] ELSE Unset
    BY DEF FilledSoFar
  <2>2. CASE j < k
    BY <2>1, <2>2
  <2>3. CASE ~ (j < k)
    <3>1. j = 2 /\ k = 2
      BY <1>1, <1>2, <2>3
    <3>2. Start(2) \in Nat /\ Start(2) >= DataLen /\ i \in Nat \ {0}
      BY <1>1, <1>2, <1>3, <3>1 DEF Start
    <3>3. ~ (Start(j) + i <= DataLen)
      BY <1>4, <3>1, <3>2
    <3> QED BY <2>1, <2>3, <3>3
  <2> QED BY <2>2, <2>3
<1> QED BY <1>1, <1>3, <1>4, <1>5

(* A structure or a state is returned.                                          *)
LEMMA StepStruct == ASSUME DInv, StructIsRead \/ StateIsRead PROVE DInv'
<1> USE DEF DInv
<1>1. /\ pc = "filled" /\ pc' = "done" /\ outcome' \in {"ok", "unknown_state"}
      /\ request.kind \in {"struct", "state"}
      /\ UNCHANGED <<request, wrong, payload, bufs, k, taken, rest, length>>
  BY DEF StructIsRead, StateIsRead, Return
<1>2. FilledSoFar' /\ (Verified' <=> Verified) /\ DataLen' = DataLen
      /\ \A j : Start(j)' = Start(j)
  BY <1>1, NothingCopied
<1>3. FilledFromReply'
  BY <1>1, <1>2, LoopFillsAll DEF FilledFromReply
<1>4. LoopMeans'
  BY <1>1, <1>2, LoopFillsAll DEF LoopMeans
<1> QED
  BY <1>1, <1>2, <1>3, <1>4
     DEF TypeOK, ErrorsAreOurs, ReadTellsWhatIsFilled, OnlyShortRepliesPanic

(* A read returns the length that the PLC has sent.                             *)
LEMMA StepLength == ASSUME DInv, LengthIsRead PROVE DInv'
<1> USE DEF DInv
<1>1. /\ pc = "filled" /\ pc' = "done" /\ outcome' \in {"ok", "less_data"}
      /\ request.kind \in {"read", "exact"} /\ length' = U32(bufs[1])
      /\ (request.kind = "exact" /\ outcome' = "ok" => length' = request.size)
      /\ UNCHANGED <<request, wrong, payload, bufs, k, taken, rest>>
  BY DEF LengthIsRead
<1>2. FilledSoFar' /\ (Verified' <=> Verified) /\ DataLen' = DataLen
      /\ (\A j : Start(j)' = Start(j)) /\ (Truthful' <=> Truthful)
  BY <1>1, NothingCopied
<1>3. /\ Len(Sizes(request)) = 2 /\ Sizes(request)[1] = Field
      /\ Sizes(request)[2] = request.size /\ DOMAIN bufs = 1 .. 2
      /\ Len(payload) \in Nat /\ Field \in Nat \ {0} /\ payload \in Seq(Byte)
  <2>1. request \in Requests /\ Len(bufs) = Len(Sizes(request)) /\ payload \in Seq(Byte)
    BY DEF TypeOK
  <2> QED BY <1>1, <2>1, SizesOfRequest, Shapes
<1>4. DataLen \in Nat /\ Field <= DataLen
  BY <1>1, <1>3, LoopFillsAll
<1>5. \A i \in 1 .. Field : bufs[1][i] = payload[Field + i] /\ payload[Field + i] \in Byte
  <2> TAKE i \in 1 .. Field
  <2>1. Start(1) + i <= DataLen /\ Field + Start(1) + i = Field + i
    BY <1>3, <1>4 DEF Start
  <2>2. bufs[1][i] = payload[Field + i]
    BY <1>1, <1>3, <2>1, LoopFillsAll
  <2>3. Field + i \in 1 .. Len(payload)
    BY <1>3, <1>4 DEF DataLen
  <2> QED BY <1>3, <2>2, <2>3
<1>6. length' \in Nat
  BY <1>1, <1>5, NumberOfBytes
<1>7. FilledFromReply'
  BY <1>1, <1>2, LoopFillsAll DEF FilledFromReply
<1>8. ReadTellsWhatIsFilled'
  <2> SUFFICES ASSUME Truthful, NEW i \in 1 .. request.size
               PROVE  bufs[2][i] = IF i <= length'
                                   THEN payload[2 * Field + i] ELSE Unset
    BY <1>1, <1>2 DEF ReadTellsWhatIsFilled
  <2>1. length' = Len(payload) - 2 * Field
    <3>1. [j \in 1 .. Field |-> bufs[1][j]] = [j \in 1 .. Field |-> payload[Field + j]]
      BY <1>5
    <3> QED BY <1>1, <3>1 DEF U32, Truthful
  <2>2. Start(2) = Field
    BY <1>3 DEF Start
  <2>3. bufs[2][i] = IF Field + i <= DataLen
                     THEN payload[Field + Field + i] ELSE Unset
    BY <1>1, <1>3, <2>2, LoopFillsAll
  <2>4. i \in Nat /\ request.size \in Nat
    BY ReplyConstants DEF TypeOK
  <2>5. (Field + i <= DataLen <=> i <= length') /\ Field + Field + i = 2 * Field + i
    BY <1>3, <2>1, <2>4 DEF DataLen
  <2> QED BY <2>3, <2>5
<1>9. LoopMeans'
  BY <1>1, <1>2, LoopFillsAll DEF LoopMeans
<1> QED
  BY <1>1, <1>2, <1>6, <1>7, <1>8, <1>9
     DEF TypeOK, ErrorsAreOurs, OnlyShortRepliesPanic

(* DInv holds of every reachable state: for any bytes, any number of them in a   *)
(* field, any requests and replies (client.rs:536-623).                         *)
THEOREM DecodingInvariant == Spec => []DInv
<1>1. Init => DInv
  BY InitDecoding
<1>2. DInv /\ [Next]_vars => DInv'
  <2> SUFFICES ASSUME DInv, [Next]_vars PROVE DInv'
    OBVIOUS
  <2>1. CASE HeaderRefused
    BY <2>1, StepHeaderRefused
  <2>2. CASE HeaderPasses \/ NoResult \/ ResultIsError \/ TooShort \/ Distribute
    BY <2>2, StepResult
  <2>3. CASE NothingWanted
    BY <2>3, StepNothingWanted
  <2>4. CASE Fill
    BY <2>4, StepFill
  <2>5. CASE StructIsRead \/ StateIsRead
    BY <2>5, StepStruct
  <2>6. CASE LengthIsRead
    BY <2>6, StepLength
  <2>7. CASE UNCHANGED vars
    <3>1. UNCHANGED <<request, wrong, payload, bufs, k>>
      BY <2>7 DEF vars
    <3>2. /\ FilledSoFar' /\ (Verified' <=> Verified) /\ DataLen' = DataLen
          /\ (\A j : Start(j)' = Start(j)) /\ (Truthful' <=> Truthful)
      BY <3>1, NothingCopied DEF DInv
    <3> QED
      BY <2>7, <3>2
         DEF vars, DInv, TypeOK, LoopMeans, ErrorsAreOurs, FilledFromReply,
             ReadTellsWhatIsFilled, OnlyShortRepliesPanic
  <2> QED
    BY <2>1, <2>2, <2>3, <2>4, <2>5, <2>6, <2>7 DEF Next, Finished
<1> QED
  BY <1>1, <1>2, PTL DEF Spec

(* A request that succeeds returns checked data from its own reply, each byte at *)
(* its place (client.rs:536-623).                                               *)
THEOREM BuffersHoldTheReply == Spec => []FilledFromReply
<1>1. DInv => FilledFromReply
  BY DEF DInv
<1> QED BY <1>1, DecodingInvariant, PTL

(* If the PLC tells lengths truly, read() and read_exact() tell which bytes of   *)
(* the buffer are data (client.rs:270-313).                                     *)
THEOREM ReadsTellTheTruth == Spec => []ReadTellsWhatIsFilled
<1>1. DInv => ReadTellsWhatIsFilled
  BY DEF DInv
<1> QED BY <1>1, DecodingInvariant, PTL

(* An ADS error comes from the caller's own reply (client.rs:536-619).           *)
THEOREM ErrorsComeFromTheReply == Spec => []ErrorsAreOurs
<1>1. DInv => ErrorsAreOurs
  BY DEF DInv
<1> QED BY <1>1, DecodingInvariant, PTL

(* No slice but the one of the result field reaches over the end of the reply    *)
(* (client.rs:571-619).                                                         *)
THEOREM SlicesStayInTheReply == Spec => []OnlyShortRepliesPanic
<1>1. DInv => OnlyShortRepliesPanic
  BY DEF DInv
<1> QED BY <1>1, DecodingInvariant, PTL
================================================================================

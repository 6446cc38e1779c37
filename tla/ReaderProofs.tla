------------------------------ MODULE ReaderProofs ------------------------------
(***************************************************************************)
(* The reader: the two walks of NotificationFrame over any packet; its     *)
(* framing (AmsFraming) for every stream of frames, of any lengths and any *)
(* number; and the two together: the reader implements the framing, and    *)
(* the invariants of both parts hold of their composition.                 *)
(***************************************************************************)
EXTENDS Reader, TLAPS

--------------------------------------------------------------------------------
(* The packets.  What the second walk relies on is the trail of the first: every*)
(* position it stood at, each with what it then found to be inside the packet.  *)

Position == [ptr : Nat, stamps : Nat, samples : Nat, time : Nat, found : Nat]
Sample == [handle : Nat, time : Nat, first : Nat, length : Nat]

(* The walk stands here and has stepped over n samples.                         *)
Here(n) ==
  [ptr |-> ptr, stamps |-> stamps, samples |-> samples, time |-> timestamp, found |-> n]

Start(d) == [ptr |-> 1, stamps |-> d[1], samples |-> 0, time |-> 0, found |-> 0]

(* From p the parser found the next header, and the data it announces, inside   *)
(* the packet d, and went on to q; s is what it has stepped over.               *)
OverSample(d, s, p, q) ==
  /\ p.samples > 0
  /\ p.ptr + 2 + d[p.ptr + 2] <= Len(d)
  /\ p.found < Len(s)
  /\ s[p.found + 1] = [handle |-> d[p.ptr + 1], time |-> p.time,
                       first |-> p.ptr + 2, length |-> d[p.ptr + 2]]
  /\ q = [ptr |-> p.ptr + 2 + d[p.ptr + 2], stamps |-> p.stamps,
          samples |-> p.samples - 1, time |-> p.time, found |-> p.found + 1]
OverStamp(d, p, q) ==
  /\ p.samples = 0 /\ p.stamps > 0
  /\ p.ptr + 3 <= Len(d)
  /\ q = [ptr |-> p.ptr + 3, stamps |-> p.stamps - 1, samples |-> d[p.ptr + 3],
          time |-> d[p.ptr + 1], found |-> p.found]
Follows(d, s, p, q) == OverSample(d, s, p, q) \/ OverStamp(d, p, q)

Trail(d, s, t) ==
  /\ t \in Seq(Position) /\ Len(t) > 0 /\ t[1] = Start(d)
  /\ \A i \in 1 .. Len(t) - 1 : Follows(d, s, t[i], t[i + 1])

(* The trail ends at q.                                                         *)
LeadsTo(d, s, q) == \E t : Trail(d, s, t) /\ t[Len(t)] = q

(* A trail to the last byte passes p.                                           *)
Passes(d, s, p) ==
  \E t : \E i \in 1 .. Len(t) :
    /\ Trail(d, s, t) /\ t[i] = p
    /\ t[Len(t)].ptr = Len(d) /\ t[Len(t)].stamps = 0 /\ t[Len(t)].samples = 0
    /\ t[Len(t)].found = Len(s)

PTypeOK ==
  /\ data \in Seq(Nat)
  /\ step \in {"idle", "new", "parse", "iterate", "exhausted", "rejected"}
  /\ ptr \in 0 .. Len(data) /\ stamps \in Nat /\ samples \in Nat /\ timestamp \in Nat
  /\ parsed \in Seq(Sample) /\ yielded \in Seq(Sample)

Fresh ==
  step \in {"idle", "new"} =>
    ptr = 0 /\ samples = 0 /\ timestamp = 0 /\ parsed = <<>> /\ yielded = <<>>

Walking ==
  /\ step \in {"parse", "rejected"} => yielded = <<>>
  /\ step \in {"parse", "iterate"} => Len(data) >= 1
  /\ step = "parse" => LeadsTo(data, parsed, Here(Len(parsed)))
  /\ step = "iterate" => Passes(data, parsed, Here(Len(yielded)))
  /\ step = "exhausted" => Len(yielded) = Len(parsed) /\ Left = 0

(* What has been returned is behind the iterator, and is what was parsed.       *)
Behind ==
  /\ Len(yielded) <= Len(parsed)
  /\ \A j \in 1 .. Len(yielded) :
       yielded[j] = parsed[j] /\ yielded[j].first + yielded[j].length <= ptr
  /\ SlicesAreApart

PInv == PTypeOK /\ Fresh /\ Walking /\ Behind

(* The start is a trail.                                                        *)
LEMMA StartIsTrail ==
  ASSUME NEW d \in Seq(Nat), Len(d) >= 1, NEW s
  PROVE  LeadsTo(d, s, Start(d))
<1>1. Start(d) \in Position
  BY DEF Start, Position
<1>2. <<Start(d)>> \in Seq(Position) /\ Len(<<Start(d)>>) = 1 /\ <<Start(d)>>[1] = Start(d)
  BY <1>1
<1>3. Trail(d, s, <<Start(d)>>)
  BY <1>2 DEF Trail
<1> QED BY <1>2, <1>3 DEF LeadsTo

(* A trail grows by what follows its last position.                             *)
LEMMA TrailGrows ==
  ASSUME NEW d, NEW s, NEW p, NEW q \in Position, LeadsTo(d, s, p), Follows(d, s, p, q)
  PROVE  LeadsTo(d, s, q)
<1>1. PICK t : Trail(d, s, t) /\ t[Len(t)] = p
  BY DEF LeadsTo
<1> DEFINE u == Append(t, q)
<1>2. t \in Seq(Position) /\ Len(t) \in Nat /\ Len(t) > 0
  BY <1>1 DEF Trail
<1>3. /\ u \in Seq(Position) /\ Len(u) = Len(t) + 1 /\ u[Len(u)] = q
      /\ \A i \in 1 .. Len(t) : u[i] = t[i]
  BY <1>2
<1> HIDE DEF u
<1>4. ASSUME NEW i \in 1 .. Len(u) - 1 PROVE Follows(d, s, u[i], u[i + 1])
  <2>1. CASE i = Len(t)
    BY <1>1, <1>2, <1>3, <2>1
  <2>2. CASE i \in 1 .. Len(t) - 1
    <3>1. u[i] = t[i] /\ u[i + 1] = t[i + 1]
      BY <1>2, <1>3, <2>2
    <3> QED BY <1>1, <2>2, <3>1 DEF Trail
  <2> QED BY <1>2, <1>3, <2>1, <2>2
<1>5. u[1] = Start(d)
  BY <1>1, <1>2, <1>3 DEF Trail
<1>6. Trail(d, s, u)
  BY <1>2, <1>3, <1>4, <1>5 DEF Trail
<1> QED BY <1>3, <1>6 DEF LeadsTo

(* One more sample parsed takes nothing from a trail.                           *)
LEMMA TrailStays ==
  ASSUME NEW d, NEW s \in Seq(Sample), NEW x \in Sample, NEW p, LeadsTo(d, s, p)
  PROVE  LeadsTo(d, Append(s, x), p)
<1>1. PICK t : Trail(d, s, t) /\ t[Len(t)] = p
  BY DEF LeadsTo
<1> DEFINE r == Append(s, x)
<1>2. Len(r) = Len(s) + 1 /\ Len(s) \in Nat /\ \A k \in 1 .. Len(s) : r[k] = s[k]
  OBVIOUS
<1> HIDE DEF r
<1>3. ASSUME NEW i \in 1 .. Len(t) - 1 PROVE Follows(d, r, t[i], t[i + 1])
  <2>1. t \in Seq(Position) /\ Follows(d, s, t[i], t[i + 1])
    BY <1>1 DEF Trail
  <2>2. t[i].found \in Nat
    <3>1. t[i] \in Position
      BY <2>1
    <3> QED BY <3>1 DEF Position
  <2>3. CASE OverSample(d, s, t[i], t[i + 1])
    <3>1. t[i].found < Len(r) /\ r[t[i].found + 1] = s[t[i].found + 1]
      BY <1>2, <2>2, <2>3 DEF OverSample
    <3> QED BY <2>3, <3>1 DEF OverSample, Follows
  <2> QED BY <2>1, <2>3 DEF Follows
<1>4. Trail(d, r, t)
  BY <1>1, <1>3 DEF Trail
<1> QED BY <1>1, <1>4 DEF LeadsTo, r

(* From a position on the way to the last byte a next one is found, or it is the*)
(* last; the same one the parser found.                                         *)
LEMMA TrailGoesOn ==
  ASSUME NEW d \in Seq(Nat), NEW s, NEW p, Passes(d, s, p)
  PROVE  /\ p \in Position
         /\ \/ p.ptr = Len(d) /\ p.stamps = 0 /\ p.samples = 0 /\ p.found = Len(s)
            \/ \E q \in Position : Follows(d, s, p, q) /\ Passes(d, s, q)
<1>1. PICK t : \E i \in 1 .. Len(t) :
        /\ Trail(d, s, t) /\ t[i] = p
        /\ t[Len(t)].ptr = Len(d) /\ t[Len(t)].stamps = 0 /\ t[Len(t)].samples = 0
        /\ t[Len(t)].found = Len(s)
  BY DEF Passes
<1>2. PICK i \in 1 .. Len(t) :
        /\ Trail(d, s, t) /\ t[i] = p
        /\ t[Len(t)].ptr = Len(d) /\ t[Len(t)].stamps = 0 /\ t[Len(t)].samples = 0
        /\ t[Len(t)].found = Len(s)
  BY <1>1
<1>3. t \in Seq(Position) /\ Len(t) \in Nat
  BY <1>2 DEF Trail
<1>4. p \in Position
  BY <1>2, <1>3
<1>5. CASE i = Len(t)
  BY <1>2, <1>4, <1>5
<1>6. CASE i < Len(t)
  <2>1. i \in 1 .. Len(t) - 1 /\ i + 1 \in 1 .. Len(t)
    BY <1>3, <1>6
  <2>2. Follows(d, s, p, t[i + 1]) /\ t[i + 1] \in Position
    BY <1>2, <1>3, <2>1 DEF Trail
  <2>3. Passes(d, s, t[i + 1])
    BY <1>2, <2>1 DEF Passes
  <2> QED BY <1>4, <2>2, <2>3
<1> QED BY <1>3, <1>5, <1>6
(* Numbers inside the packet.                                                   *)
LEMMA Inside ==
  ASSUME PTypeOK
  PROVE  /\ Len(data) \in Nat /\ ptr \in Nat /\ Left = Len(data) - ptr /\ Left \in Nat
         /\ Left >= 1 => data[ptr + 1] \in Nat
         /\ Left >= 2 => data[ptr + 2] \in Nat
         /\ Left >= 3 => data[ptr + 3] \in Nat
<1>1. data \in Seq(Nat) /\ ptr \in 0 .. Len(data)
  BY DEF PTypeOK
<1> QED BY <1>1 DEF Left

(* Where the walk stands is a position, and the header there makes a sample.    *)
LEMMA HereIsPosition ==
  ASSUME PTypeOK, NEW n \in Nat
  PROVE  Here(n) \in Position
<1>1. ptr \in Nat
  BY Inside
<1> QED BY <1>1 DEF Here, Position, PTypeOK

LEMMA HeaderMakesSample ==
  ASSUME PTypeOK, Left >= 2
  PROVE  SampleAt(ptr) \in Sample
<1>1. ptr \in Nat /\ data[ptr + 1] \in Nat /\ data[ptr + 2] \in Nat
  BY Inside
<1> QED BY <1>1 DEF SampleAt, Sample, PTypeOK

(* Nothing has been walked.                                                     *)
LEMMA InitPacket == PacketInit => PInv
<1> SUFFICES ASSUME PacketInit PROVE PInv
  OBVIOUS
<1>1. data \in Seq(Nat)
  BY PacketConstants DEF PacketInit
<1> QED
  BY <1>1 DEF PacketInit, PInv, PTypeOK, Fresh, Walking, Behind, SlicesAreApart

(* The number of stamps, which is where trails start.                           *)
LEMMA StepNew == ASSUME PInv, New PROVE PInv'
<1> USE DEF PInv
<1>1. /\ parsed = <<>> /\ yielded = <<>> /\ samples = 0 /\ timestamp = 0 /\ ptr = 0
      /\ UNCHANGED <<data, samples, timestamp, parsed, yielded>>
  BY DEF New, Fresh
<1>2. Len(data) \in Nat /\ data \in Seq(Nat) /\ (Left >= 1 => data[1] \in Nat)
  BY <1>1, Inside DEF PTypeOK
<1>3. Behind'
  BY <1>1 DEF Behind, SlicesAreApart
<1>4. CASE Left < 1
  BY <1>1, <1>2, <1>3, <1>4 DEF New, PTypeOK, Fresh, Walking
<1>5. CASE ~(Left < 1)
  <2>1. step' = "parse" /\ ptr' = 1 /\ stamps' = data[1] /\ Len(data) >= 1
    BY <1>1, <1>2, <1>5 DEF New, Left
  <2>2. PTypeOK' /\ Fresh'
    BY <1>1, <1>2, <2>1 DEF PTypeOK, Fresh
  <2>3. Here(Len(parsed))' = Start(data)
    BY <1>1, <2>1 DEF Here, Start
  <2>4. LeadsTo(data, parsed, Here(Len(parsed)))'
    BY <1>1, <1>2, <2>1, <2>3, StartIsTrail
  <2>5. Walking'
    BY <1>1, <2>1, <2>4 DEF Walking
  <2> QED BY <1>3, <2>2, <2>5
<1> QED BY <1>4, <1>5

(* The parser steps over the header of a stamp.                                 *)
LEMMA StepParseStamp == ASSUME PInv, ParseStamp PROVE PInv'
<1> USE DEF PInv
<1>1. /\ step = "parse" /\ samples = 0 /\ stamps > 0 /\ yielded = <<>>
      /\ UNCHANGED <<data, parsed, yielded>>
  BY DEF ParseStamp, Walking
<1>2. Behind'
  BY <1>1 DEF Behind, SlicesAreApart
<1>3. CASE Left < 3
  BY <1>1, <1>2, <1>3 DEF ParseStamp, PTypeOK, Fresh, Walking
<1>4. CASE ~(Left < 3)
  <2>1. /\ Len(data) \in Nat /\ ptr \in Nat /\ ptr + 3 <= Len(data)
        /\ data[ptr + 1] \in Nat /\ data[ptr + 3] \in Nat
    BY <1>4, Inside
  <2>2. /\ timestamp' = data[ptr + 1] /\ samples' = data[ptr + 3] /\ ptr' = ptr + 3
        /\ stamps' = stamps - 1 /\ step' = step
    BY <1>4 DEF ParseStamp
  <2>3. PTypeOK' /\ Fresh'
    BY <1>1, <2>1, <2>2 DEF PTypeOK, Fresh
  <2>4. Len(parsed) \in Nat
    BY DEF PTypeOK
  <2>5. Here(Len(parsed))' \in Position
    BY <1>1, <2>1, <2>2, <2>3, <2>4 DEF PTypeOK, Here, Position
  <2>6. OverStamp(data, Here(Len(parsed)), Here(Len(parsed))')
    BY <1>1, <2>1, <2>2 DEF OverStamp, Here
  <2>7. LeadsTo(data, parsed, Here(Len(parsed))')
    BY <1>1, <2>5, <2>6, TrailGrows DEF Follows, Walking
  <2>8. Walking'
    BY <1>1, <2>2, <2>7 DEF Walking
  <2> QED BY <1>2, <2>3, <2>8
<1> QED BY <1>3, <1>4

(* The parser steps over a sample and remembers it.                             *)
LEMMA StepParseSample == ASSUME PInv, ParseSample PROVE PInv'
<1> USE DEF PInv
<1>1. /\ step = "parse" /\ samples > 0 /\ yielded = <<>>
      /\ UNCHANGED <<data, stamps, timestamp, yielded>>
  BY DEF ParseSample, Walking
<1> DEFINE bad == Left < 2 \/ Left < 2 + data[ptr + 2]
<1>2. CASE bad
  <2>1. step' = "rejected" /\ UNCHANGED <<ptr, samples, parsed>>
    BY <1>2 DEF ParseSample
  <2> QED BY <1>1, <2>1 DEF PTypeOK, Fresh, Walking, Behind, SlicesAreApart
<1>3. CASE ~bad
  <2> DEFINE x == SampleAt(ptr)
  <2>1. /\ Len(data) \in Nat /\ ptr \in Nat /\ ptr + 2 + data[ptr + 2] <= Len(data)
        /\ data[ptr + 1] \in Nat /\ data[ptr + 2] \in Nat
    BY <1>3, Inside
  <2>2. /\ parsed' = Append(parsed, x) /\ ptr' = ptr + 2 + data[ptr + 2]
        /\ samples' = samples - 1 /\ step' = step
    BY <1>3 DEF ParseSample
  <2>3. x \in Sample /\ parsed \in Seq(Sample)
    BY <1>3, Inside, HeaderMakesSample DEF PTypeOK
  <2>x. x = [handle |-> data[ptr + 1], time |-> timestamp, first |-> ptr + 2,
             length |-> data[ptr + 2]]
    BY DEF SampleAt
  <2> HIDE DEF x
  <2>4. /\ parsed' \in Seq(Sample) /\ Len(parsed') = Len(parsed) + 1
        /\ parsed'[Len(parsed) + 1] = x /\ Len(parsed) \in Nat
    BY <2>2, <2>3
  <2>5. PTypeOK' /\ Fresh'
    BY <1>1, <2>1, <2>2, <2>4 DEF PTypeOK, Fresh
  <2>6. Behind'
    BY <1>1, <2>4 DEF Behind, SlicesAreApart
  <2>7. Here(Len(parsed))' \in Position
    BY <2>4, <2>5 DEF PTypeOK, Here, Position
  <2>8. OverSample(data, parsed', Here(Len(parsed)), Here(Len(parsed))')
    BY <1>1, <2>x, <2>1, <2>2, <2>4 DEF OverSample, Here
  <2>9. LeadsTo(data, parsed', Here(Len(parsed)))
    BY <1>1, <2>2, <2>3, TrailStays DEF Walking
  <2>10. LeadsTo(data, parsed', Here(Len(parsed))')
    BY <2>7, <2>8, <2>9, TrailGrows DEF Follows
  <2>11. Walking'
    BY <1>1, <2>2, <2>10 DEF Walking
  <2> QED BY <2>5, <2>6, <2>11
<1> QED BY <1>2, <1>3

(* Accepted: the trail to the last byte starts where the iterator does.         *)
LEMMA StepParseEnd == ASSUME PInv, ParseEnd PROVE PInv'
<1> USE DEF PInv
<1>1. /\ step = "parse" /\ samples = 0 /\ stamps = 0 /\ yielded = <<>> /\ Len(data) >= 1
      /\ UNCHANGED <<data, samples, parsed, yielded>>
  BY DEF ParseEnd, Walking
<1>2. Len(data) \in Nat /\ data \in Seq(Nat) /\ data[1] \in Nat
  BY <1>1 DEF PTypeOK
<1>3. CASE Left # 0
  BY <1>1, <1>3 DEF ParseEnd, PTypeOK, Fresh, Walking, Behind, SlicesAreApart
<1>4. CASE Left = 0
  <2>1. step' = "iterate" /\ ptr' = 1 /\ stamps' = data[1] /\ timestamp' = 0
    BY <1>4 DEF ParseEnd
  <2>2. PTypeOK' /\ Fresh' /\ Behind'
    BY <1>1, <1>2, <2>1 DEF PTypeOK, Fresh, Behind, SlicesAreApart
  <2>3. PICK t : Trail(data, parsed, t) /\ t[Len(t)] = Here(Len(parsed))
    BY <1>1 DEF Walking, LeadsTo
  <2>4. /\ t[Len(t)].ptr = Len(data) /\ t[Len(t)].stamps = 0 /\ t[Len(t)].samples = 0
        /\ t[Len(t)].found = Len(parsed)
    BY <1>1, <1>4, <2>3, Inside DEF Here
  <2>5. t[1] = Start(data) /\ 1 \in 1 .. Len(t)
    BY <2>3 DEF Trail
  <2>6. Passes(data, parsed, Start(data))
    BY <2>3, <2>4, <2>5 DEF Passes
  <2>7. Here(Len(yielded))' = Start(data)
    BY <1>1, <2>1 DEF Here, Start
  <2>8. Walking'
    BY <1>1, <2>1, <2>6, <2>7 DEF Walking
  <2> QED BY <2>2, <2>8
<1> QED BY <1>3, <1>4

(* The iterator finds what the parser found.                                    *)
LEMMA IteratorFollows ==
  ASSUME PInv, step = "iterate"
  PROVE  /\ \/ ptr = Len(data) /\ stamps = 0 /\ samples = 0 /\ Len(yielded) = Len(parsed)
            \/ \E q \in Position : /\ Follows(data, parsed, Here(Len(yielded)), q)
                                   /\ Passes(data, parsed, q)
<1>1. Passes(data, parsed, Here(Len(yielded))) /\ data \in Seq(Nat)
  BY DEF PInv, Walking, PTypeOK
<1>2. LET p == Here(Len(yielded)) IN
        \/ p.ptr = Len(data) /\ p.stamps = 0 /\ p.samples = 0 /\ p.found = Len(parsed)
        \/ \E q \in Position : Follows(data, parsed, p, q) /\ Passes(data, parsed, q)
  BY <1>1, TrailGoesOn
<1> QED BY <1>2 DEF Here

LEMMA StepNextSample == ASSUME PInv, NextSample PROVE PInv'
<1> USE DEF PInv
<1>1. /\ step = "iterate" /\ samples > 0 /\ samples \in Nat
      /\ UNCHANGED <<data, stamps, timestamp, parsed>>
  BY DEF NextSample, PTypeOK
<1> DEFINE n == Len(yielded)
           x == SampleAt(ptr)
<1>2. PICK q \in Position : Follows(data, parsed, Here(n), q) /\ Passes(data, parsed, q)
  BY <1>1, IteratorFollows
<1>3. OverSample(data, parsed, Here(n), q)
  BY <1>1, <1>2 DEF Follows, OverStamp, Here
<1>4. /\ n \in Nat /\ Len(parsed) \in Nat /\ Len(data) \in Nat /\ ptr \in Nat
      /\ data \in Seq(Nat)
  BY Inside DEF PTypeOK
<1>5. /\ ptr + 2 + data[ptr + 2] <= Len(data)
      /\ n < Len(parsed)
      /\ parsed[n + 1] = [handle |-> data[ptr + 1], time |-> timestamp,
                          first |-> ptr + 2, length |-> data[ptr + 2]]
      /\ q = [ptr |-> ptr + 2 + data[ptr + 2], stamps |-> stamps,
              samples |-> samples - 1, time |-> timestamp, found |-> n + 1]
  BY <1>3 DEF OverSample, Here
<1>6. q.ptr \in Nat /\ parsed[n + 1] \in Sample /\ parsed \in Seq(Sample)
  BY <1>4, <1>5 DEF Position, PTypeOK
<1>7. data[ptr + 2] \in Nat
  <2>1. parsed[n + 1].length \in Nat
    BY <1>6 DEF Sample
  <2> QED BY <1>5, <2>1
<1>8. ~(Left < 2 \/ Left < 2 + data[ptr + 2])
  BY <1>4, <1>5, <1>7 DEF Left
<1>9. /\ yielded' = Append(yielded, x) /\ ptr' = ptr + 2 + data[ptr + 2]
      /\ samples' = samples - 1 /\ step' = step
  BY <1>8 DEF NextSample
<1>10. x = parsed[n + 1] /\ x.first = ptr + 2 /\ x.length = data[ptr + 2]
  BY <1>5 DEF SampleAt
<1>11. x \in Sample /\ yielded \in Seq(Sample)
  BY <1>6, <1>10 DEF PTypeOK
<1> HIDE DEF x
<1>12. /\ yielded' \in Seq(Sample) /\ Len(yielded') = n + 1 /\ yielded'[n + 1] = x
       /\ \A j \in 1 .. n : yielded'[j] = yielded[j]
  BY <1>9, <1>11
<1>13. PTypeOK' /\ Fresh'
  <2>1. ptr' \in 0 .. Len(data') /\ samples' \in Nat
    BY <1>1, <1>4, <1>5, <1>7, <1>9
  <2> QED BY <1>1, <1>9, <1>12, <2>1 DEF PTypeOK, Fresh
<1>14. Walking'
  <2>1. Here(Len(yielded))' = q
    BY <1>1, <1>5, <1>9, <1>12 DEF Here
  <2> QED BY <1>1, <1>2, <1>9, <2>1 DEF Walking
<1>15. \A j \in 1 .. n : yielded[j] \in Sample
  BY <1>11
<1>16. \A j \in 1 .. n : yielded[j].first \in Nat /\ yielded[j].length \in Nat
  BY <1>15 DEF Sample
<1>17. Len(yielded') <= Len(parsed)
       /\ \A j \in 1 .. Len(yielded') :
            yielded'[j] = parsed[j] /\ yielded'[j].first + yielded'[j].length <= ptr'
  <2> SUFFICES ASSUME NEW j \in 1 .. n + 1
               PROVE  /\ yielded'[j] = parsed[j]
                      /\ yielded'[j].first + yielded'[j].length <= ptr'
    BY <1>4, <1>5, <1>12
  <2>1. CASE j = n + 1
    BY <1>4, <1>7, <1>9, <1>10, <1>12, <2>1
  <2>2. CASE j \in 1 .. n
    <3>1. yielded[j] = parsed[j] /\ yielded[j].first + yielded[j].length <= ptr
      BY <2>2 DEF Behind
    <3>2. yielded[j].first \in Nat /\ yielded[j].length \in Nat
      BY <1>16, <2>2
    <3>3. ptr \in Nat /\ ptr' \in Nat /\ ptr <= ptr'
      BY <1>4, <1>7, <1>9
    <3>4. yielded[j].first + yielded[j].length <= ptr'
      BY <3>1, <3>2, <3>3
    <3> QED BY <1>12, <2>2, <3>1, <3>4
  <2> QED BY <1>4, <2>1, <2>2
<1>18. SlicesAreApart'
  <2>1. \A j \in 1 .. n + 1 : yielded'[j].first + yielded'[j].length <= Len(data)
    <3> TAKE j \in 1 .. n + 1
    <3>1. CASE j = n + 1
      BY <1>4, <1>5, <1>7, <1>10, <1>12, <3>1
    <3>2. CASE j \in 1 .. n
      <4>1. yielded[j].first + yielded[j].length <= Len(data)
        BY <3>2 DEF Behind, SlicesAreApart
      <4> QED BY <1>12, <3>2, <4>1
    <3> QED BY <1>4, <3>1, <3>2
  <2>2. \A j \in 1 .. n :
          yielded'[j].first + yielded'[j].length + 2 <= yielded'[j + 1].first
    <3> TAKE j \in 1 .. n
    <3>1. CASE j = n
      <4>1. yielded[n].first + yielded[n].length <= ptr
        BY <3>1 DEF Behind
      <4> QED BY <1>4, <1>10, <1>12, <1>16, <3>1, <4>1
    <3>2. CASE j \in 1 .. n - 1
      <4>1. yielded[j].first + yielded[j].length + 2 <= yielded[j + 1].first
        BY <3>2 DEF Behind, SlicesAreApart
      <4>2. yielded'[j] = yielded[j] /\ yielded'[j + 1] = yielded[j + 1]
        BY <1>4, <1>12, <3>2
      <4> QED BY <4>1, <4>2
    <3> QED BY <1>4, <3>1, <3>2
  <2> QED BY <1>1, <1>4, <1>12, <2>1, <2>2 DEF SlicesAreApart
<1>19. Behind'
  BY <1>1, <1>17, <1>18 DEF Behind
<1> QED BY <1>13, <1>14, <1>19

LEMMA StepNextStamp == ASSUME PInv, NextStamp PROVE PInv'
<1> USE DEF PInv
<1>1. /\ step = "iterate" /\ samples = 0 /\ stamps > 0
      /\ UNCHANGED <<data, parsed, yielded>>
  BY DEF NextStamp
<1> DEFINE n == Len(yielded)
<1>2. PICK q \in Position : Follows(data, parsed, Here(n), q) /\ Passes(data, parsed, q)
  BY <1>1, IteratorFollows DEF PTypeOK
<1>3. OverStamp(data, Here(n), q)
  BY <1>1, <1>2 DEF Follows, OverSample, Here
<1>4. /\ ptr + 3 <= Len(data)
      /\ q = [ptr |-> ptr + 3, stamps |-> stamps - 1, samples |-> data[ptr + 3],
              time |-> data[ptr + 1], found |-> n]
  BY <1>3 DEF OverStamp, Here
<1>5. /\ Len(data) \in Nat /\ ptr \in Nat /\ ~(Left < 3)
      /\ data[ptr + 1] \in Nat /\ data[ptr + 3] \in Nat
  BY <1>4, Inside
<1>6. /\ timestamp' = data[ptr + 1] /\ samples' = data[ptr + 3] /\ ptr' = ptr + 3
      /\ stamps' = stamps - 1 /\ step' = step
  BY <1>5 DEF NextStamp
<1>7. PTypeOK' /\ Fresh'
  BY <1>1, <1>4, <1>5, <1>6 DEF PTypeOK, Fresh
<1>8. Here(Len(yielded))' = q
  BY <1>1, <1>4, <1>6 DEF Here
<1>9. Walking'
  BY <1>1, <1>2, <1>6, <1>8 DEF Walking
<1>10. yielded \in Seq(Sample)
  BY DEF PTypeOK
<1>11. \A j \in 1 .. n : yielded[j].first \in Nat /\ yielded[j].length \in Nat
  <2>1. \A j \in 1 .. n : yielded[j] \in Sample
    BY <1>10
  <2> QED BY <2>1 DEF Sample
<1>12. \A j \in 1 .. n : yielded[j].first + yielded[j].length <= ptr'
  BY <1>5, <1>6, <1>11 DEF Behind
<1>13. Behind'
  BY <1>1, <1>12 DEF Behind, SlicesAreApart
<1> QED BY <1>7, <1>9, <1>13

LEMMA StepNoMore == ASSUME PInv, NoMore PROVE PInv'
<1> USE DEF PInv
<1>1. /\ step = "iterate" /\ samples = 0 /\ stamps = 0 /\ step' = "exhausted"
      /\ UNCHANGED <<data, ptr, stamps, samples, timestamp, parsed, yielded>>
  BY DEF NoMore
<1>2. ptr = Len(data) /\ Len(yielded) = Len(parsed)
  <2>1. ~ \E q : Follows(data, parsed, Here(Len(yielded)), q)
    BY <1>1 DEF Follows, OverSample, OverStamp, Here
  <2> QED BY <1>1, <2>1, IteratorFollows
<1>3. Left = 0
  BY <1>2, Inside
<1> QED
  BY <1>1, <1>2, <1>3 DEF PTypeOK, Fresh, Walking, Behind, SlicesAreApart, Left

(* Every step of either walk.                                                   *)
LEMMA PacketStep == ASSUME PInv, PacketNext PROVE PInv'
<1> QED
  BY StepNew, StepParseStamp, StepParseSample, StepParseEnd, StepNextSample, StepNextStamp,
     StepNoMore DEF PacketNext

(* What the invariant says in the terms of the properties.                      *)
LEMMA PacketFacts ==
  ASSUME PInv
  PROVE  AcceptedNeverPanics /\ IteratesWhatWasParsed /\ SlicesAreApart
  BY DEF PInv, PTypeOK, Walking, Behind, AcceptedNeverPanics, IteratesWhatWasParsed

(* PInv holds of every walk over any packet.                                    *)
THEOREM PacketInvariant == PacketSpec => []PInv
<1>1. PInv /\ [PacketNext]_packet_vars => PInv'
  <2> SUFFICES ASSUME PInv, [PacketNext]_packet_vars PROVE PInv'
    OBVIOUS
  <2>1. CASE UNCHANGED packet_vars
    BY <2>1 DEF packet_vars, PInv, PTypeOK, Fresh, Walking, Behind, SlicesAreApart, Here,
                Left
  <2> QED BY <2>1, PacketStep
<1> QED BY InitPacket, <1>1, PTL DEF PacketSpec

--------------------------------------------------------------------------------
(* The framing: FInv (AmsFraming) is inductive. *)

(* The fields of a frame.                                                      *)
LEMMA FrameFields ==
  ASSUME NEW f \in FrameType
  PROVE  /\ f.packet_len \in Nat /\ f.data_length \in Nat
         /\ f.command \in {"reply", "notification"}
<1>1. f.packet_len \in Nat
  BY DEF FrameType
<1>2. f.data_length \in Nat
  BY DEF FrameType
<1>3. f.command \in {"reply", "notification"}
  BY DEF FrameType
<1> QED BY <1>1, <1>2, <1>3

(* The stream is empty and the reader at its start.                             *)
LEMMA InitFraming == Init => FInv
<1> SUFFICES ASSUME Init PROVE FInv
  OBVIOUS
<1>1. wire \in Seq(FrameType) /\ frame \in FrameType
  BY FramingConstants DEF Init
<1>2. TypeOK
  <2>1. next \in Nat \ {0} /\ taken \in Nat /\ handed \subseteq Nat
    BY DEF Init
  <2> QED BY <1>1, <2>1 DEF Init, TypeOK
<1> QED
  BY <1>2 DEF FInv, Init, TakenSoFar, InTheFrame, StaysAligned, HandsOnExactly

(* A frame sent later disturbs none that is there.                              *)
LEMMA StepSend == ASSUME FInv, Send PROVE FInv'
<1> USE DEF FInv
<1>1. PICK f \in Kinds : wire' = Append(wire, f)
  BY DEF Send
<1>2. f \in FrameType /\ wire \in Seq(FrameType)
  BY FramingConstants DEF TypeOK
<1>3. /\ wire' \in Seq(FrameType) /\ Len(wire') = Len(wire) + 1
      /\ \A i \in 1 .. Len(wire) : wire'[i] = wire[i]
  BY <1>1, <1>2
<1>4. UNCHANGED <<next, frame, pc, taken, adrift, handed>>
  BY DEF Send
<1>5. TypeOK' /\ TakenSoFar' /\ InTheFrame'
  BY <1>3, <1>4 DEF TypeOK, TakenSoFar, InTheFrame
<1>6. RouterIsTame' => RouterIsTame
  BY <1>2, <1>3 DEF RouterIsTame
<1>7. \A i \in 1 .. (next - 1) : wire'[i] = wire[i]
  BY <1>2, <1>3 DEF InTheFrame, TypeOK
<1> QED
  BY <1>4, <1>5, <1>6, <1>7 DEF StaysAligned, HandsOnExactly

(* The reads before the end of an iteration: only the count changes.            *)
LEMMA StepRead ==
  ASSUME FInv, ReadTcpHeader \/ Discard \/ ReadAmsHeader \/ ReadPayload \/ EndOfStream
  PROVE  FInv'
<1> USE DEF FInv
<1>1. UNCHANGED <<wire, next, adrift, handed>>
  BY DEF ReadTcpHeader, Discard, ReadAmsHeader, ReadPayload, EndOfStream
<1>2. StaysAligned' /\ HandsOnExactly'
  BY <1>1 DEF StaysAligned, HandsOnExactly, RouterIsTame
<1>3. CASE ReadTcpHeader
  <2>1. next \in 1 .. Len(wire) /\ frame' \in FrameType
    BY <1>3, FramingConstants DEF ReadTcpHeader, TypeOK
  <2>2. frame'.packet_len \in Nat
    BY <2>1, FrameFields
  <2>3. TypeOK'
    BY <1>1, <1>3, <2>1 DEF TypeOK, ReadTcpHeader, TcpHeader
  <2> QED
    BY <1>1, <1>2, <1>3, <2>1, <2>2, <2>3
       DEF ReadTcpHeader, TakenSoFar, InTheFrame, TypeOK
<1>4. CASE Discard \/ ReadAmsHeader \/ ReadPayload \/ EndOfStream
  <2>1. frame.packet_len \in Nat /\ frame.data_length \in Nat /\ taken \in Nat
    BY FrameFields DEF TypeOK
  <2>2. TypeOK'
    BY <1>1, <1>4, <2>1
       DEF TypeOK, Discard, ReadAmsHeader, ReadPayload, EndOfStream, AmsHeader
  <2>3. TakenSoFar'
    BY <1>1, <1>4, <2>1
       DEF TakenSoFar, Discard, ReadAmsHeader, ReadPayload, EndOfStream, TcpHeader,
           AmsHeader
  <2>4. InTheFrame'
    BY <1>1, <1>4
       DEF InTheFrame, Discard, ReadAmsHeader, ReadPayload, EndOfStream
  <2> QED BY <1>2, <2>2, <2>3, <2>4
<1> QED BY <1>3, <1>4

(* An iteration that has taken the whole frame leaves the reader at the next.   *)
LEMMA StepContinue ==
  ASSUME FInv, Continue, UNCHANGED <<wire, frame>>,
         pc \in {"discarded", "judge"},
         RouterIsTame => taken = TcpHeader + frame.packet_len,
         handed' = IF Deliverable(frame) THEN handed \cup {next} ELSE handed
  PROVE  FInv'
<1> USE DEF FInv
<1>1. next \in Nat \ {0} /\ next <= Len(wire) /\ Len(wire) \in Nat
  BY DEF TypeOK, InTheFrame
<1>2. TypeOK' /\ TakenSoFar' /\ InTheFrame'
  BY <1>1 DEF Continue, TypeOK, TakenSoFar, InTheFrame
<1>3. RouterIsTame' <=> RouterIsTame
  BY DEF RouterIsTame
<1>4. StaysAligned'
  BY <1>3 DEF StaysAligned, Continue
<1>5. ASSUME RouterIsTame
      PROVE  handed' = {i \in 1 .. (next' - 1) : Deliverable(wire[i])}
  <2>1. frame = wire[next]
    BY <1>5 DEF StaysAligned, InTheFrame
  <2>2. 1 .. (next' - 1) = 1 .. (next - 1) \cup {next} /\ next' = next + 1
    BY <1>1 DEF Continue
  <2> QED BY <1>5, <2>1, <2>2 DEF HandsOnExactly
<1> QED BY <1>2, <1>3, <1>4, <1>5 DEF HandsOnExactly

(* A frame too short for a header is no frame to hand on.                       *)
LEMMA StepDiscarded == ASSUME FInv, Discarded PROVE FInv'
<1>1. ~Deliverable(frame)
  BY FrameFields DEF FInv, Discarded, TakenSoFar, TypeOK, Deliverable
<1>2. taken = TcpHeader + frame.packet_len
  BY DEF FInv, Discarded, TakenSoFar
<1> QED BY <1>1, <1>2, StepContinue DEF Discarded

(* The verdict: what is handed on is what is deliverable.                       *)
LEMMA StepJudge == ASSUME FInv, Judge PROVE FInv'
<1> USE DEF FInv
<1>1. /\ pc = "judge" /\ frame \in FrameType /\ frame.packet_len > 31
      /\ taken = TcpHeader + AmsHeader + frame.data_length
      /\ UNCHANGED <<wire, frame>>
  BY DEF Judge, TakenSoFar, TypeOK
<1>2. frame.packet_len \in Nat /\ frame.data_length \in Nat
  BY <1>1, FrameFields
<1>3. CASE (Stop("aborted") \/ Stop("panicked")) /\ UNCHANGED handed
  BY <1>1, <1>3
     DEF Stop, TypeOK, TakenSoFar, InTheFrame, StaysAligned, HandsOnExactly, RouterIsTame
<1>4. ASSUME SelfConsistent(frame) PROVE taken = TcpHeader + frame.packet_len
  BY <1>1, <1>2, <1>4 DEF SelfConsistent, TcpHeader, AmsHeader
<1>5. CASE RouterFrame(frame) /\ Continue /\ UNCHANGED handed
  <2>1. RouterIsTame => frame = wire[next] /\ next \in 1 .. Len(wire)
    BY <1>1 DEF StaysAligned, InTheFrame, TypeOK
  <2>2. RouterIsTame => SelfConsistent(frame)
    BY <1>1, <1>5, <2>1 DEF RouterIsTame, Tame
  <2>3. ~Deliverable(frame)
    BY <1>5 DEF RouterFrame, Deliverable
  <2> QED BY <1>1, <1>4, <1>5, <2>2, <2>3, StepContinue
<1>6. CASE /\ frame.reserved = 0 /\ SelfConsistent(frame) /\ ~frame.ours
           /\ Continue /\ UNCHANGED handed
  <2>1. ~Deliverable(frame)
    BY <1>6 DEF Deliverable
  <2> QED BY <1>1, <1>4, <1>6, <2>1, StepContinue
<1>7. CASE /\ frame.reserved = 0 /\ SelfConsistent(frame) /\ frame.ours
           /\ ~Panics(frame) /\ Continue
           /\ handed' = IF frame.command = "reply" \/ frame.well_formed
                        THEN handed \cup {next} ELSE handed
  <2>1. Deliverable(frame) <=> frame.command = "reply" \/ frame.well_formed
    BY <1>1, <1>2, <1>7, FrameFields DEF Deliverable, Panics
  <2> QED BY <1>1, <1>4, <1>7, <2>1, StepContinue
<1> QED
  BY <1>3, <1>5, <1>6, <1>7 DEF Judge, Known

(* FInv holds of every behaviour.                                               *)
THEOREM FramingInvariant == Spec => []FInv
<1>1. FInv /\ [Next]_vars => FInv'
  <2> SUFFICES ASSUME FInv, [Next]_vars PROVE FInv'
    OBVIOUS
  <2>1. CASE UNCHANGED vars
    BY <2>1 DEF vars, FInv, TypeOK, TakenSoFar, InTheFrame, StaysAligned,
                HandsOnExactly, RouterIsTame
  <2> QED
    BY <2>1, StepSend, StepRead, StepDiscarded, StepJudge DEF Next, Ended
<1> QED BY InitFraming, <1>1, PTL DEF Spec

(* Behind a router whose own frames are consistent, no length of any frame can  *)
(* push the reader off the boundaries.                                          *)
THEOREM ReaderStaysAligned == Spec => []StaysAligned
<1>1. FInv => StaysAligned
  BY DEF FInv
<1> QED BY <1>1, FramingInvariant, PTL

(* And it hands on exactly the frames that are for it and make sense.           *)
THEOREM ReaderHandsOnExactly == Spec => []HandsOnExactly
<1>1. FInv => HandsOnExactly
  BY DEF FInv
<1> QED BY <1>1, FramingInvariant, PTL

--------------------------------------------------------------------------------
(* The framing and the packets. *)

(* Only the walk over a packet can change it; it starts fresh.                  *)
LEMMA StepPacket == ASSUME PInv, ReaderNext PROVE PInv'
<1>1. CASE UNCHANGED packet_vars
  BY <1>1 DEF packet_vars, PInv, PTypeOK, Fresh, Walking, Behind, SlicesAreApart, Here, Left
<1>2. CASE JudgeFrame
  <2>1. CASE UNCHANGED packet_vars
    BY <1>1, <2>1
  <2>2. CASE /\ data' \in {p \in Packets : 4 + 4 * Len(p) = frame.data_length}
             /\ step' = "new"
             /\ UNCHANGED <<ptr, stamps, samples, timestamp, parsed, yielded>>
    <3>1. data' \in Seq(Nat) /\ step = "idle"
      BY <1>2, <2>2, PacketConstants DEF JudgeFrame
    <3>2. ptr = 0 /\ samples = 0 /\ timestamp = 0 /\ parsed = <<>> /\ yielded = <<>>
      BY <3>1 DEF PInv, Fresh
    <3>3. ptr' \in 0 .. Len(data')
      BY <2>2, <3>1, <3>2
    <3> QED
      BY <2>2, <3>1, <3>2, <3>3 DEF PInv, PTypeOK, Fresh, Walking, Behind, SlicesAreApart
  <2> QED BY <1>2, <2>1, <2>2 DEF JudgeFrame
<1>3. CASE DropPacket
  <2>1. data' \in Seq(Nat) /\ ptr' \in 0 .. Len(data')
    BY <1>3 DEF DropPacket
  <2> QED
    BY <1>3, <2>1 DEF DropPacket, PInv, PTypeOK, Fresh, Walking, Behind, SlicesAreApart
<1>4. CASE PacketNext
  BY <1>4, PacketStep
<1> QED BY <1>1, <1>2, <1>3, <1>4 DEF ReaderNext, NextPart

(* The walks never leave what the parser found, in every packet of the stream.  *)
THEOREM ReaderPackets == ReaderSpec => []PInv
<1>1. ReaderInit => PInv
  BY DEF ReaderInit, NoPacket, PInv, PTypeOK, Fresh, Walking, Behind, SlicesAreApart
<1>2. PInv /\ [ReaderNext]_reader_vars => PInv'
  <2> SUFFICES ASSUME PInv, [ReaderNext]_reader_vars PROVE PInv'
    OBVIOUS
  <2>1. CASE UNCHANGED reader_vars
    BY <2>1 DEF reader_vars, packet_vars, PInv, PTypeOK, Fresh, Walking, Behind,
                SlicesAreApart, Here, Left
  <2> QED BY <2>1, StepPacket
<1> QED BY <1>1, <1>2, PTL DEF ReaderSpec

(* Every step of the reader is a step of the framing, or none.                  *)
THEOREM ReaderImplementsFraming == ReaderSpec => Spec
<1>1. ReaderInit => Init
  BY DEF ReaderInit
<1>2. [ReaderNext]_reader_vars => [Next]_vars
  BY DEF ReaderNext, reader_vars, NextPart, JudgeFrame, DropPacket, Stopped, Next, Ended
<1> QED BY <1>1, <1>2, PTL DEF ReaderSpec, Spec

(* What the reader distributes is what the parser saw.                          *)
THEOREM ReaderIterates == ReaderSpec => []IteratesWhatWasParsed
<1>1. PInv => IteratesWhatWasParsed
  BY PacketFacts
<1> QED BY <1>1, ReaderPackets, PTL

(* The slices it distributes are inside their packet and apart.                 *)
THEOREM ReaderSlices == ReaderSpec => []SlicesAreApart
<1>1. PInv => SlicesAreApart
  BY PacketFacts
<1> QED BY <1>1, ReaderPackets, PTL

(* The frame that panicked it is still the one it is in.                        *)
PanickedOnStub == pc = "panicked" => frame.data_length < 4

(* No content of a notification kills the reader task.                          *)
THEOREM ReaderSurvives == ReaderSpec => []OnlyStubsKillTheReader
<1>1. ReaderInit => PanickedOnStub
  BY DEF ReaderInit, Init, PanickedOnStub
<1>2. PanickedOnStub /\ [ReaderNext]_reader_vars => PanickedOnStub'
  <2> SUFFICES ASSUME PanickedOnStub, [ReaderNext]_reader_vars PROVE PanickedOnStub'
    OBVIOUS
  <2>1. CASE UNCHANGED <<pc, frame>>
    BY <2>1 DEF PanickedOnStub
  <2>2. CASE JudgeFrame
    BY <2>2 DEF JudgeFrame, Judge, Stop, Continue, Panics, PanickedOnStub
  <2>3. CASE NextPart
    BY <2>3 DEF NextPart, ReadTcpHeader, Discard, Discarded, Continue, ReadAmsHeader,
                ReadPayload, EndOfStream, PanickedOnStub
  <2> QED
    BY <2>1, <2>2, <2>3
       DEF ReaderNext, reader_vars, vars, Send, DropPacket, Stopped, Ended
<1>3. PInv /\ PanickedOnStub => OnlyStubsKillTheReader
  BY DEF PInv, PTypeOK, PanickedOnStub, OnlyStubsKillTheReader
<1> QED BY <1>1, <1>2, <1>3, ReaderPackets, PTL DEF ReaderSpec
================================================================================

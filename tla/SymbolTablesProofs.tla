-------------------------- MODULE SymbolTablesProofs --------------------------
(***************************************************************************)
(* The walk of SymbolTables over any tables: whatever sizes, counts and    *)
(* lengths a PLC writes, slices stay inside slices.                        *)
(***************************************************************************)
EXTENDS SymbolTables, SequenceTheorems, TLAPS

(* A length may be zero, a list of entries is gone by then.                     *)
LengthGoals == {"name", "typ", "sub_items"}
Whats == LengthGoals \cup Entries \cup
  {"header", "dimension", "guid", "mask", "methods", "attributes", "attribute", "enums", "enum"}
Goals == {g \in [what : Whats, n : Nat] : g.what \in LengthGoals \/ g.n > 0}

IsItem(item) == "size" \in DOMAIN item /\ item.size \in Nat

IsFrame(f) ==
  /\ f = [item |-> f.item, ptr |-> f.ptr, end |-> f.end, todo |-> f.todo]
  /\ f.ptr \in Nat /\ f.end \in Nat /\ IsItem(f.item) /\ f.todo \in Seq(Goals)

(* The frames of a stack, whatever their items hold.                            *)
IsStack(s) == (\E F : s \in Seq(F)) /\ \A i \in 1 .. Len(s) : IsFrame(s[i])

(* SlicesNest for any stack and any table.                                      *)
Nested(s, d) ==
  \A i \in 1 .. Len(s) :
    /\ s[i].ptr <= s[i].end /\ s[i].end <= Len(d)
    /\ i < Len(s) => s[i + 1].end <= s[i].ptr

TInv ==
  /\ upload \in Uploads
  /\ data \in Seq(Nat)
  /\ IsStack(stack) /\ Nested(stack, data)
  /\ Reading => Len(stack) > 0

--------------------------------------------------------------------------------
(* Stacks. *)

(* The stack without its last frame, and with another in its place.             *)
LEMMA Replaced ==
  ASSUME NEW s, IsStack(s), NEW d \in Seq(Nat), Nested(s, d), Len(s) > 0,
         NEW f, IsFrame(f), f.ptr <= f.end, f.end <= s[Len(s)].end
  PROVE  /\ IsStack(Append(SubSeq(s, 1, Len(s) - 1), f))
         /\ Nested(Append(SubSeq(s, 1, Len(s) - 1), f), d)
         /\ Len(Append(SubSeq(s, 1, Len(s) - 1), f)) = Len(s)
         /\ Append(SubSeq(s, 1, Len(s) - 1), f)[Len(s)] = f
<1>1. PICK F : s \in Seq(F)
  BY DEF IsStack
<1> DEFINE o == SubSeq(s, 1, Len(s) - 1)
           u == Append(o, f)
<1>2. Len(s) \in Nat /\ Len(d) \in Nat /\ s[Len(s)].end \in Nat
  <2>1. Len(s) \in Nat /\ Len(s) \in 1 .. Len(s) /\ Len(d) \in Nat
    BY <1>1
  <2> QED BY <2>1 DEF IsStack, IsFrame
<1>3. o \in Seq(F) /\ Len(o) = Len(s) - 1 /\ \A i \in 1 .. Len(o) : o[i] = s[i]
  <2>1. Len(s) \in Nat /\ \A i \in 1 .. Len(s) - 1 : s[i] \in F
    BY <1>1
  <2> DEFINE k == Len(s) - 1
  <2>2. k \in Nat
    BY <2>1
  <2>3. \A i \in 1 .. k : s[i] \in F
    BY <2>1
  <2> HIDE DEF k
  <2>4. /\ SubSeq(s, 1, k) \in Seq(F)
        /\ Len(SubSeq(s, 1, k)) = IF 1 <= k THEN k - 1 + 1 ELSE 0
        /\ \A i \in 1 .. k - 1 + 1 : SubSeq(s, 1, k)[i] = s[1 + i - 1]
    BY <2>2, <2>3, SubSeqProperties
  <2>5. o = SubSeq(s, 1, k) /\ k = Len(s) - 1
    BY DEF k
  <2> HIDE DEF o
  <2>6. o \in Seq(F) /\ Len(o) = k
    BY <2>2, <2>4, <2>5
  <2>7. \A i \in 1 .. k : o[i] = s[i]
    BY <2>2, <2>4, <2>5
  <2> QED BY <2>5, <2>6, <2>7
<1>4. o \in Seq(F \cup {f})
  BY <1>3
<1> HIDE DEF o
<1>5. /\ u \in Seq(F \cup {f}) /\ Len(u) = Len(s) /\ u[Len(s)] = f
      /\ \A i \in 1 .. Len(s) - 1 : u[i] = s[i]
  BY <1>2, <1>3, <1>4
<1> HIDE DEF u
<1>6. ASSUME NEW i \in 1 .. Len(s) PROVE IsFrame(u[i])
  <2>1. CASE i = Len(s)
    BY <1>5, <2>1
  <2>2. CASE i # Len(s)
    <3>1. i \in 1 .. Len(s) - 1
      BY <1>2, <2>2
    <3>2. u[i] = s[i]
      BY <1>5, <3>1
    <3> QED BY <3>2 DEF IsStack
  <2> QED BY <2>1, <2>2
<1>7. ASSUME NEW i \in 1 .. Len(s)
      PROVE  /\ u[i].ptr <= u[i].end /\ u[i].end <= Len(d)
             /\ i < Len(s) => u[i + 1].end <= u[i].ptr
  <2>1. /\ s[i].ptr <= s[i].end /\ s[i].end <= Len(d)
        /\ i < Len(s) => s[i + 1].end <= s[i].ptr
    BY <1>7 DEF Nested
  <2>2. IsFrame(s[i]) /\ (i < Len(s) => IsFrame(s[i + 1]))
    BY <1>2, <1>7 DEF IsStack
  <2>3. CASE i = Len(s)
    BY <1>2, <1>5, <2>1, <2>3 DEF IsFrame
  <2>4. CASE i = Len(s) - 1
    <3>1. i \in 1 .. Len(s) - 1 /\ i + 1 = Len(s)
      BY <1>2, <2>4
    <3>2. u[i] = s[i] /\ u[i + 1] = f
      BY <1>5, <3>1
    <3> QED BY <1>2, <2>1, <2>2, <2>4, <3>1, <3>2 DEF IsFrame
  <2>5. CASE i < Len(s) - 1
    <3>1. i \in 1 .. Len(s) - 1 /\ i + 1 \in 1 .. Len(s) - 1
      BY <1>2, <2>5
    <3>2. u[i] = s[i] /\ u[i + 1] = s[i + 1]
      BY <1>5, <3>1
    <3> QED BY <1>2, <2>1, <2>5, <3>2
  <2> QED BY <1>2, <2>3, <2>4, <2>5
<1> QED BY <1>5, <1>6, <1>7 DEF IsStack, Nested, u, o

(* A frame on top, inside what the one below has stepped over.                  *)
LEMMA Pushed ==
  ASSUME NEW s, IsStack(s), NEW d \in Seq(Nat), Nested(s, d), Len(s) > 0,
         NEW f, IsFrame(f), f.ptr <= f.end, f.end <= s[Len(s)].ptr
  PROVE  /\ IsStack(Append(s, f)) /\ Nested(Append(s, f), d) /\ Len(Append(s, f)) > 0
<1>1. PICK F : s \in Seq(F)
  BY DEF IsStack
<1> DEFINE u == Append(s, f)
<1>2. /\ Len(s) \in Nat /\ Len(d) \in Nat
      /\ s[Len(s)].end \in Nat /\ s[Len(s)].ptr \in Nat
  <2>1. Len(s) \in Nat /\ Len(s) \in 1 .. Len(s) /\ Len(d) \in Nat
    BY <1>1
  <2> QED BY <2>1 DEF IsStack, IsFrame
<1>3. s \in Seq(F \cup {f})
  BY <1>1
<1>4. /\ u \in Seq(F \cup {f}) /\ Len(u) = Len(s) + 1 /\ u[Len(s) + 1] = f
      /\ \A i \in 1 .. Len(s) : u[i] = s[i]
  BY <1>2, <1>3
<1> HIDE DEF u
<1>5. ASSUME NEW i \in 1 .. Len(u) PROVE IsFrame(u[i])
  <2>1. CASE i = Len(s) + 1
    BY <1>4, <2>1
  <2>2. CASE i # Len(s) + 1
    <3>1. Len(u) = Len(s) + 1
      BY <1>4
    <3>2. i \in 1 .. Len(s)
      BY <1>2, <2>2, <3>1
    <3>3. u[i] = s[i]
      BY <1>4, <3>2
    <3> QED BY <3>2, <3>3 DEF IsStack
  <2> QED BY <2>1, <2>2
<1>6. s[Len(s)].ptr <= s[Len(s)].end /\ s[Len(s)].end <= Len(d)
  BY <1>2 DEF Nested
<1>7. ASSUME NEW i \in 1 .. Len(u)
      PROVE  /\ u[i].ptr <= u[i].end /\ u[i].end <= Len(d)
             /\ i < Len(u) => u[i + 1].end <= u[i].ptr
  <2>1. CASE i = Len(s) + 1
    BY <1>2, <1>4, <1>6, <2>1 DEF IsFrame
  <2>2. CASE i = Len(s)
    BY <1>2, <1>4, <1>6, <2>2 DEF IsFrame
  <2>3. CASE i < Len(s)
    <3>1. i \in 1 .. Len(s) /\ i + 1 \in 1 .. Len(s)
      BY <1>2, <2>3
    <3>2. u[i] = s[i] /\ u[i + 1] = s[i + 1]
      BY <1>4, <3>1
    <3> QED BY <2>3, <3>1, <3>2 DEF Nested
  <2> QED BY <1>2, <1>4, <2>1, <2>2, <2>3
<1> QED BY <1>2, <1>4, <1>5, <1>7 DEF IsStack, Nested, u

(* The stack without its last two frames, and with the outer one of them again. *)
LEMMA Popped ==
  ASSUME NEW s, IsStack(s), NEW d \in Seq(Nat), Nested(s, d), Len(s) > 1,
         NEW f, IsFrame(f), f.ptr = s[Len(s) - 1].ptr, f.end = s[Len(s) - 1].end
  PROVE  /\ IsStack(Append(SubSeq(s, 1, Len(s) - 2), f))
         /\ Nested(Append(SubSeq(s, 1, Len(s) - 2), f), d)
         /\ Len(Append(SubSeq(s, 1, Len(s) - 2), f)) > 0
<1>1. PICK F : s \in Seq(F)
  BY DEF IsStack
<1> DEFINE r == SubSeq(s, 1, Len(s) - 1)
<1>2. Len(s) \in Nat
  BY <1>1
<1>3. /\ r \in Seq(F) /\ Len(r) = Len(s) - 1 /\ \A i \in 1 .. Len(r) : r[i] = s[i]
      /\ SubSeq(r, 1, Len(r) - 1) = SubSeq(s, 1, Len(s) - 2)
  BY <1>1, <1>2
<1> HIDE DEF r
<1>4. IsStack(r)
  BY <1>2, <1>3 DEF IsStack
<1>5. Nested(r, d)
  <2> SUFFICES ASSUME NEW i \in 1 .. Len(r)
               PROVE  /\ r[i].ptr <= r[i].end /\ r[i].end <= Len(d)
                      /\ i < Len(r) => r[i + 1].end <= r[i].ptr
    BY DEF Nested
  <2>1. i \in 1 .. Len(s) /\ i < Len(s) /\ r[i] = s[i]
    BY <1>2, <1>3
  <2>2. CASE i < Len(r)
    <3>1. i + 1 \in 1 .. Len(r)
      BY <1>2, <1>3, <2>1, <2>2
    <3>2. r[i + 1] = s[i + 1]
      BY <1>3, <3>1
    <3> QED BY <2>1, <3>2 DEF Nested
  <2>3. CASE ~(i < Len(r))
    BY <2>1, <2>3 DEF Nested
  <2> QED BY <2>2, <2>3
<1>6. f.ptr <= f.end /\ f.end <= r[Len(r)].end
  <2>1. Len(s) - 1 \in 1 .. Len(s) /\ r[Len(r)] = s[Len(s) - 1]
    BY <1>2, <1>3
  <2>2. s[Len(s) - 1].ptr <= s[Len(s) - 1].end
    BY <2>1 DEF Nested
  <2> QED BY <2>1, <2>2 DEF IsFrame
<1>7. Len(r) > 0
  BY <1>2, <1>3
<1> QED BY <1>3, <1>4, <1>5, <1>6, <1>7, Replaced

--------------------------------------------------------------------------------
(* What is still to be read. *)

(* Lists of goals.                                                              *)
LEMMA GoalLists ==
  /\ <<>> \in Seq(Goals)
  /\ \A w \in Whats : Goal(w, 1) \in Seq(Goals)
  /\ \A w \in Whats : \A n \in Nat : Some(w, n) \in Seq(Goals)
  /\ \A w \in LengthGoals : \A n \in Nat : Goal(w, n) \in Seq(Goals)
<1>1. ASSUME NEW w \in Whats, NEW k \in Nat, w \in LengthGoals \/ k > 0
      PROVE  Goal(w, k) \in Seq(Goals)
  <2>1. [what |-> w, n |-> k] \in Goals
    BY <1>1 DEF Goals
  <2> QED BY <2>1 DEF Goal
<1>2. \A w \in Whats : Goal(w, 1) \in Seq(Goals)
  BY <1>1
<1>3. \A w \in Whats : \A n \in Nat : Some(w, n) \in Seq(Goals)
  BY <1>1 DEF Some
<1>4. \A w \in LengthGoals : \A n \in Nat : Goal(w, n) \in Seq(Goals)
  BY <1>1 DEF Whats
<1> QED BY <1>2, <1>3, <1>4

LEMMA Joined == \A a, b \in Seq(Goals) : a \o b \in Seq(Goals)
BY ConcatProperties

(* The parts the flags announce.                                               *)
LEMMA FlaggedGoals ==
  ASSUME NEW kind, NEW flags
  PROVE  FlaggedParts(kind, flags) \in Seq(Goals)
<1>1. /\ If(Flag(flags, 1), "guid") \in Seq(Goals) /\ If(Flag(flags, 2), "mask") \in Seq(Goals)
      /\ If(Flag(flags, 4), "methods") \in Seq(Goals)
      /\ If(Flag(flags, 8), "attributes") \in Seq(Goals)
      /\ If(kind = "type" /\ Flag(flags, 16), "enums") \in Seq(Goals)
  BY GoalLists DEF If, Whats
<1> QED BY <1>1, Joined DEF FlaggedParts

(* What is read next, and what remains once it has been.                        *)
LEMMA Remains ==
  ASSUME IsFrame(Top), Top.todo # <<>>
  PROVE  /\ Ahead.n \in Nat /\ Ahead.what \in Whats
         /\ Tail(Top.todo) \in Seq(Goals)
         /\ Ahead.what \in LengthGoals \/ OneLess \in Seq(Goals)
<1>1. Top.todo \in Seq(Goals)
  BY DEF IsFrame
<1>2. Head(Top.todo) \in Goals /\ Tail(Top.todo) \in Seq(Goals)
  BY <1>1, HeadTailProperties
<1>3. /\ Ahead.n \in Nat /\ Ahead.what \in Whats
      /\ Ahead.what \in LengthGoals \/ Ahead.n > 0
  BY <1>2 DEF Ahead, Goals
<1>4. ASSUME Ahead.n > 0 PROVE Some(Ahead.what, Ahead.n - 1) \in Seq(Goals)
  <2>1. Ahead.n - 1 \in Nat
    BY <1>3, <1>4
  <2> QED BY <1>3, <2>1, GoalLists
<1> QED BY <1>1, <1>2, <1>3, <1>4, Joined DEF OneLess

--------------------------------------------------------------------------------
(* Steps. *)

(* The frame being read is a frame, inside the table.                           *)
LEMMA AtTop ==
  ASSUME TInv, Len(stack) > 0
  PROVE  /\ IsFrame(Top) /\ Top.ptr \in Nat /\ Top.end \in Nat
         /\ Top.ptr <= Top.end /\ Top.end <= Len(data) /\ Len(data) \in Nat
         /\ Left = Top.end - Top.ptr
         /\ \A i \in 1 .. Left : Item(i) \in Nat
<1>1. Len(stack) \in 1 .. Len(stack)
  <2>1. PICK F : stack \in Seq(F)
    BY DEF TInv, IsStack
  <2> QED BY <2>1
<1>2. IsFrame(Top)
  BY <1>1 DEF TInv, IsStack, Top
<1>3. Top.ptr <= Top.end /\ Top.end <= Len(data)
  BY <1>1 DEF TInv, Nested, Top
<1>4. Top.ptr \in Nat /\ Top.end \in Nat
  BY <1>2 DEF IsFrame
<1>5. data \in Seq(Nat) /\ Len(data) \in Nat
  BY DEF TInv
<1>6. \A i \in 1 .. Left : Item(i) \in Nat
  <2> TAKE i \in 1 .. Left
  <2>1. Top.ptr + i \in 1 .. Len(data)
    BY <1>3, <1>4, <1>5 DEF Left
  <2> QED BY <1>5, <2>1 DEF Item
<1> QED BY <1>2, <1>3, <1>4, <1>5, <1>6 DEF Left

(* Numbers taken inside the slice leave it inside.                              *)
LEMMA StepTake ==
  ASSUME TInv, Len(stack) > 0, NEW n \in Nat, n <= Left, NEW todo \in Seq(Goals),
         NEW item, IsItem(item), Take(n, todo, item)
  PROVE  TInv'
<1>1. /\ IsFrame(Top) /\ Top.ptr \in Nat /\ Top.end \in Nat
      /\ Left = Top.end - Top.ptr
  BY AtTop
<1> DEFINE f == Past(n, todo, item)
<1>2. f = [item |-> item, ptr |-> Top.ptr + n, end |-> Top.end, todo |-> todo]
  BY DEF Past
<1>3. stack' = Append(Outer, f) /\ UNCHANGED <<upload, data, pc>>
  BY DEF Take
<1> HIDE DEF f
<1>4. f.ptr = Top.ptr + n /\ f.end = Top.end /\ f.item = item /\ f.todo = todo
  BY <1>2
<1>5. IsFrame(f) /\ f.ptr <= f.end /\ f.end <= stack[Len(stack)].end
  <2>1. f = [item |-> f.item, ptr |-> f.ptr, end |-> f.end, todo |-> f.todo]
    BY <1>2, <1>4
  <2>2. f.ptr \in Nat /\ f.end \in Nat /\ f.ptr <= f.end
    BY <1>1, <1>4
  <2>3. f.end <= stack[Len(stack)].end
    BY <1>1, <1>4 DEF Top
  <2> QED BY <1>4, <2>1, <2>2, <2>3 DEF IsFrame
<1>6. data \in Seq(Nat) /\ IsStack(stack) /\ Nested(stack, data)
  BY DEF TInv
<1>7. IsStack(stack') /\ Nested(stack', data) /\ Len(stack') = Len(stack)
  BY <1>3, <1>5, <1>6, Replaced DEF Outer
<1> QED BY <1>3, <1>7 DEF TInv, Reading

(* Nothing is read after an error or a panic.                                   *)
LEMMA StepFail == ASSUME TInv, Fail("error") \/ Fail("panic") PROVE TInv'
BY DEF Fail, TInv, Reading

(* At a goal there is a frame.                                                  *)
LEMMA AtGoal ==
  ASSUME TInv, NEW w, At(w)
  PROVE  /\ Len(stack) > 0 /\ IsFrame(Top) /\ IsItem(Top.item)
         /\ Top.todo # <<>> /\ Ahead.what = w /\ Ahead.n \in Nat
         /\ Tail(Top.todo) \in Seq(Goals)
         /\ w \in LengthGoals \/ OneLess \in Seq(Goals)
BY AtTop, Remains DEF At, TInv, IsFrame

(* The slice of an entry is cut out of what the outer frame steps over.         *)
LEMMA StepEnterEntry == ASSUME TInv, NEW kind \in Entries, EnterEntry(kind) PROVE TInv'
<1>1. /\ Len(stack) > 0 /\ IsFrame(Top) /\ IsItem(Top.item) /\ OneLess \in Seq(Goals)
  BY AtGoal DEF EnterEntry, Entries, LengthGoals
<1>2. /\ Top.ptr \in Nat /\ Top.end \in Nat /\ Left = Top.end - Top.ptr
      /\ \A i \in 1 .. Left : Item(i) \in Nat
  BY <1>1, AtTop
<1>3. CASE /\ Left >= 1 /\ ~(Item(1) < 1) /\ ~(Item(1) > Left)
           /\ stack' = Append(Append(Outer, Past(Item(1), OneLess, Top.item)),
                              Frame(kind, Top.ptr + 1, Top.ptr + Item(1), Goal("header", 1)))
           /\ UNCHANGED <<upload, data, pc, types, symbols>>
  <2> DEFINE a == Past(Item(1), OneLess, Top.item)
             b == Frame(kind, Top.ptr + 1, Top.ptr + Item(1), Goal("header", 1))
             s == Append(Outer, a)
  <2>1. Item(1) \in Nat /\ 1 <= Item(1) /\ Item(1) <= Left
    BY <1>2, <1>3
  <2>2. IsFrame(a) /\ a.ptr = Top.ptr + Item(1) /\ a.end = Top.end
    BY <1>1, <1>2, <2>1 DEF Past, IsFrame
  <2>3. IsItem(NewItem(kind)) /\ Goal("header", 1) \in Seq(Goals)
    <3>1. IsItem(NewItem(kind))
      BY DEF IsItem, NewItem
    <3>2. Goal("header", 1) \in Seq(Goals)
      BY GoalLists DEF Whats
    <3> QED BY <3>1, <3>2
  <2>4. IsFrame(b) /\ b.ptr = Top.ptr + 1 /\ b.end = Top.ptr + Item(1)
    BY <1>2, <2>1, <2>3 DEF Frame, IsFrame
  <2> HIDE DEF a, b
  <2>5. a.ptr <= a.end /\ a.end <= stack[Len(stack)].end
    BY <1>2, <2>1, <2>2 DEF Top
  <2>6. data \in Seq(Nat) /\ IsStack(stack) /\ Nested(stack, data)
    BY DEF TInv
  <2>7. IsStack(s) /\ Nested(s, data) /\ Len(s) = Len(stack) /\ s[Len(stack)] = a
    BY <1>1, <2>2, <2>5, <2>6, Replaced DEF Outer
  <2> HIDE DEF s
  <2>8. b.ptr <= b.end /\ b.end <= s[Len(s)].ptr
    BY <1>2, <2>1, <2>2, <2>4, <2>7
  <2>9. IsStack(Append(s, b)) /\ Nested(Append(s, b), data) /\ Len(Append(s, b)) > 0
    BY <1>1, <2>4, <2>6, <2>7, <2>8, Pushed
  <2>10. stack' = Append(s, b)
    BY <1>3 DEF s, a, b
  <2> QED BY <1>3, <2>9, <2>10 DEF TInv, Reading
<1>4. Left \in Int /\ (Left >= 1 => Item(1) \in Nat)
  BY <1>2
<1>5. CASE \/ Left < 1
           \/ Left >= 1 /\ (Item(1) < 1 \/ Item(1) > Left)
  <2>1. ASSUME NEW how \in {"error", "panic"}, Fail(how) PROVE TInv'
    BY <2>1, StepFail
  <2>2. (IF SizeIsChecked(kind) THEN "error" ELSE "panic") \in {"error", "panic"}
    OBVIOUS
  <2>3. CASE Left < 1
    BY <2>1, <2>3, <1>4 DEF EnterEntry
  <2>4. CASE Left >= 1 /\ Item(1) < 1
    BY <2>1, <2>2, <2>4, <1>4 DEF EnterEntry
  <2>5. CASE Left >= 1 /\ ~(Item(1) < 1) /\ Item(1) > Left
    BY <2>1, <2>5, <1>4 DEF EnterEntry
  <2> QED BY <1>4, <1>5, <2>3, <2>4, <2>5
<1>6. CASE Left >= 1 /\ ~(Item(1) < 1) /\ ~(Item(1) > Left)
  BY <1>3, <1>4, <1>6 DEF EnterEntry
<1> QED BY <1>4, <1>5, <1>6

(* The outer frame goes on where it has stepped to.                             *)
LEMMA StepLeaveEntry == ASSUME TInv, LeaveEntry PROVE TInv'
<1>1. PICK kept :
        /\ Reading /\ Len(stack) > 1
        /\ stack' = Append(SubSeq(stack, 1, Len(stack) - 2),
                           [stack[Len(stack) - 1] EXCEPT !.item.kids = kept])
        /\ UNCHANGED <<upload, data, pc, types, symbols>>
  BY DEF LeaveEntry
<1>2. Len(stack) - 1 \in 1 .. Len(stack)
  <2>1. PICK F : stack \in Seq(F)
    BY DEF TInv, IsStack
  <2> QED BY <1>1, <2>1
<1> DEFINE o == stack[Len(stack) - 1]
           f == [o EXCEPT !.item.kids = kept]
<1>3. IsFrame(o)
  BY <1>2 DEF TInv, IsStack
<1> HIDE DEF o
<1>4. IsFrame(f) /\ f.ptr = o.ptr /\ f.end = o.end
  <2>1. PICK i, p, e, t : o = [item |-> i, ptr |-> p, end |-> e, todo |-> t]
    BY <1>3 DEF IsFrame
  <2>2. f = [item |-> [i EXCEPT !.kids = kept], ptr |-> p, end |-> e, todo |-> t]
    BY <2>1
  <2>3. IsItem([i EXCEPT !.kids = kept])
    BY <1>3, <2>1 DEF IsFrame, IsItem
  <2> QED BY <1>3, <2>1, <2>2, <2>3 DEF IsFrame
<1>5. stack' = Append(SubSeq(stack, 1, Len(stack) - 2), f)
  BY <1>1 DEF o
<1> HIDE DEF f
<1>6. data \in Seq(Nat) /\ IsStack(stack) /\ Nested(stack, data)
  BY DEF TInv
<1>7. IsStack(stack') /\ Nested(stack', data) /\ Len(stack') > 0
  BY <1>1, <1>4, <1>5, <1>6, Popped DEF o
<1> QED BY <1>1, <1>7 DEF TInv, Reading

(* Headers: their numbers are in the slice, and announce goals.                 *)
LEMMA StepTypeHeader == ASSUME TInv, TypeHeader PROVE TInv'
<1>1. Len(stack) > 0 /\ IsItem(Top.item) /\ Tail(Top.todo) \in Seq(Goals)
  BY AtGoal DEF TypeHeader
<1>2. \A i \in 1 .. Left : Item(i) \in Nat
  BY <1>1, AtTop
<1> DEFINE todo == Goal("name", Item(6)) \o Goal("typ", Item(7)) \o Some("dimension", Item(8))
                     \o Goal("sub_items", Item(9)) \o FlaggedParts(Top.item.kind, Item(5))
           item == [Top.item EXCEPT
                      !.size = Item(2), !.base_type = Item(4),
                      !.offset = IF Top.item.kind = "field" /\ Item(3) = Elsewhere
                                 THEN None ELSE Item(3)]
<1>3. CASE Fail("error")
  BY <1>3, StepFail
<1>4. CASE ~(Left < 9) /\ Take(9, todo, item)
  <2> HIDE DEF todo, item
  <2>1. 9 <= Left /\ Left \in Int
    BY <1>1, <1>4, AtTop
  <2>2. /\ Item(2) \in Nat /\ Item(6) \in Nat /\ Item(7) \in Nat
        /\ Item(8) \in Nat /\ Item(9) \in Nat
    BY <1>2, <2>1
  <2>3. todo \in Seq(Goals)
    <3>1. /\ Goal("name", Item(6)) \in Seq(Goals) /\ Goal("typ", Item(7)) \in Seq(Goals)
          /\ Some("dimension", Item(8)) \in Seq(Goals)
          /\ Goal("sub_items", Item(9)) \in Seq(Goals)
      BY <2>2, GoalLists DEF Whats, LengthGoals
    <3>2. FlaggedParts(Top.item.kind, Item(5)) \in Seq(Goals)
      BY FlaggedGoals
    <3> QED BY <3>1, <3>2, Joined DEF todo
  <2>4. IsItem(item)
    BY <1>1, <2>2 DEF IsItem, item
  <2> QED BY <1>1, <1>4, <2>1, <2>3, <2>4, StepTake
<1> QED BY <1>3, <1>4 DEF TypeHeader

LEMMA StepSymbolHeader == ASSUME TInv, SymbolHeader PROVE TInv'
<1>1. Len(stack) > 0 /\ IsItem(Top.item)
  BY AtGoal DEF SymbolHeader
<1>2. \A i \in 1 .. Left : Item(i) \in Nat
  BY <1>1, AtTop
<1> DEFINE todo == Goal("name", Item(4)) \o Goal("typ", Item(5))
           item == [Top.item EXCEPT !.offset = Item(1), !.size = Item(2),
                                    !.base_type = Item(3)]
<1>3. CASE Fail("error")
  BY <1>3, StepFail
<1>4. CASE ~(Left < 5) /\ Take(5, todo, item)
  <2> HIDE DEF todo, item
  <2>0. 5 <= Left /\ Left \in Int
    BY <1>1, <1>4, AtTop
  <2>1. 5 <= Left /\ Item(2) \in Nat /\ Item(4) \in Nat /\ Item(5) \in Nat
    BY <1>2, <2>0
  <2>2. todo \in Seq(Goals)
    <3>1. Goal("name", Item(4)) \in Seq(Goals) /\ Goal("typ", Item(5)) \in Seq(Goals)
      BY <2>1, GoalLists DEF Whats, LengthGoals
    <3> QED BY <3>1, Joined DEF todo
  <2>3. IsItem(item)
    BY <1>1, <2>1 DEF IsItem, item
  <2> QED BY <1>1, <1>4, <2>1, <2>2, <2>3, StepTake
<1> QED BY <1>3, <1>4 DEF SymbolHeader

LEMMA StepMethodHeader == ASSUME TInv, MethodHeader PROVE TInv'
<1>1. Len(stack) > 0 /\ IsItem(Top.item)
  BY AtGoal DEF MethodHeader
<1>2. \A i \in 1 .. Left : Item(i) \in Nat
  BY <1>1, AtTop
<1> DEFINE n == IF Top.item.kind = "method" THEN 5 ELSE 4
           parameters == IF n = 5 THEN Some("parameter", Item(5)) ELSE <<>>
           todo == Goal("name", Item(3)) \o Goal("typ", Item(4)) \o parameters
                     \o If(Flag(Item(2), 8), "attributes")
           item == [Top.item EXCEPT !.size = Item(1)]
<1>3. CASE Fail("error")
  BY <1>3, StepFail
<1>4. CASE ~(Left < n) /\ Take(n, todo, item)
  <2>0. n \in {4, 5}
    OBVIOUS
  <2> HIDE DEF n, parameters, todo, item
  <2>1. n <= Left /\ Left \in Int
    BY <1>1, <1>4, <2>0, AtTop
  <2>2. Item(1) \in Nat /\ Item(3) \in Nat /\ Item(4) \in Nat /\ (n = 5 => Item(5) \in Nat)
    BY <1>2, <2>0, <2>1
  <2>3. parameters \in Seq(Goals)
    BY <2>2, GoalLists DEF parameters, Whats, Entries
  <2>4. todo \in Seq(Goals)
    <3>1. Goal("name", Item(3)) \in Seq(Goals) /\ Goal("typ", Item(4)) \in Seq(Goals)
      BY <2>2, GoalLists DEF Whats, LengthGoals
    <3>2. If(Flag(Item(2), 8), "attributes") \in Seq(Goals)
      BY GoalLists DEF If, Whats
    <3> QED BY <2>3, <3>1, <3>2, Joined DEF todo
  <2>5. IsItem(item)
    BY <1>1, <2>2 DEF IsItem, item
  <2> QED BY <1>1, <1>4, <2>0, <2>1, <2>4, <2>5, StepTake
<1> QED BY <1>3, <1>4 DEF MethodHeader

(* Strings, dimensions and the check of the number of fields.                   *)
LEMMA StepReadString ==
  ASSUME TInv, NEW which \in {"name", "typ"}, ReadString(which)
  PROVE  TInv'
<1>1. /\ Len(stack) > 0 /\ IsItem(Top.item) /\ Tail(Top.todo) \in Seq(Goals)
      /\ Ahead.n \in Nat
  BY AtGoal DEF ReadString
<1>2. CASE Fail("error") \/ Fail("panic")
  BY <1>2, StepFail
<1>3. CASE \E string :
             /\ ~(Left < Ahead.n + 1)
             /\ Take(Ahead.n + 1, Tail(Top.todo),
                     IF which = "name" THEN [Top.item EXCEPT !.name = string]
                     ELSE [Top.item EXCEPT !.typ = string])
  <2>1. PICK string :
             /\ ~(Left < Ahead.n + 1)
             /\ Take(Ahead.n + 1, Tail(Top.todo),
                     IF which = "name" THEN [Top.item EXCEPT !.name = string]
                     ELSE [Top.item EXCEPT !.typ = string])
    BY <1>3
  <2> DEFINE item == IF which = "name" THEN [Top.item EXCEPT !.name = string]
                     ELSE [Top.item EXCEPT !.typ = string]
  <2>2. IsItem(item)
    BY <1>1 DEF IsItem
  <2> HIDE DEF item
  <2>3. Ahead.n + 1 \in Nat /\ Ahead.n + 1 <= Left
    BY <1>1, <2>1, AtTop
  <2>4. Take(Ahead.n + 1, Tail(Top.todo), item)
    BY <2>1 DEF item
  <2> QED BY <1>1, <2>2, <2>3, <2>4, StepTake
<1>4. Left \in Int /\ Ahead.n + 1 \in Nat /\ Buffer \in Nat
  BY <1>1, AtTop, TableConstants
<1> DEFINE string == SubSeq(data, Top.ptr + 1, Top.ptr + Ahead.n)
           item == IF which = "name" THEN [Top.item EXCEPT !.name = string]
                   ELSE [Top.item EXCEPT !.typ = string]
<1>5. \/ Fail("panic") \/ Fail("error")
      \/ ~(Left < Ahead.n + 1) /\ Take(Ahead.n + 1, Tail(Top.todo), item)
  <2> HIDE DEF item
  <2>1. CASE Ahead.n + 1 > Buffer
    BY <2>1 DEF ReadString
  <2>2. CASE ~(Ahead.n + 1 > Buffer) /\ Left < Ahead.n + 1
    BY <1>4, <2>2 DEF ReadString
  <2>3. CASE ~(Ahead.n + 1 > Buffer) /\ ~(Left < Ahead.n + 1)
    BY <1>4, <2>3 DEF ReadString, item
  <2> QED BY <2>1, <2>2, <2>3
<1> QED BY <1>2, <1>3, <1>5

LEMMA StepReadDimension == ASSUME TInv, ReadDimension PROVE TInv'
<1>1. /\ Len(stack) > 0 /\ IsItem(Top.item) /\ OneLess \in Seq(Goals)
  BY AtGoal DEF ReadDimension, LengthGoals
<1>2. CASE Fail("error")
  BY <1>2, StepFail
<1>3. CASE ~(Left < 1) /\ Take(1, OneLess, [Top.item EXCEPT !.array = Append(@, Item(1))])
  <2> DEFINE item == [Top.item EXCEPT !.array = Append(@, Item(1))]
  <2>1. IsItem(item) /\ 1 <= Left
    BY <1>1, <1>3, AtTop DEF IsItem
  <2> HIDE DEF item
  <2>2. Take(1, OneLess, item)
    BY <1>3 DEF item
  <2> QED BY <1>1, <2>1, <2>2, StepTake
<1> QED BY <1>2, <1>3 DEF ReadDimension

LEMMA StepCheckSubItems == ASSUME TInv, CheckSubItems PROVE TInv'
<1>1. /\ Len(stack) > 0 /\ IsItem(Top.item) /\ Tail(Top.todo) \in Seq(Goals)
      /\ Ahead.n \in Nat
  BY AtGoal DEF CheckSubItems
<1> DEFINE fields == IF Top.item.kind = "type" THEN Some("field", Ahead.n) ELSE <<>>
           todo == fields \o Tail(Top.todo)
<1>2. todo \in Seq(Goals)
  <2>1. Some("field", Ahead.n) \in Seq(Goals) /\ <<>> \in Seq(Goals)
    BY <1>1, GoalLists DEF Whats, Entries
  <2>2. fields \in Seq(Goals)
    BY <2>1
  <2> HIDE DEF fields
  <2> QED BY <1>1, <2>2, Joined
<1> HIDE DEF todo
<1>3. CASE Take(0, todo, Top.item)
  BY <1>1, <1>2, <1>3, AtTop, StepTake
<1>4. CASE Fail("panic")
  BY <1>4, StepFail
<1> QED BY <1>3, <1>4 DEF CheckSubItems, todo

(* What the flags announce.                                                     *)
LEMMA StepParseGuid == ASSUME TInv, ParseGuid PROVE TInv'
<1>1. Len(stack) > 0 /\ IsItem(Top.item) /\ Tail(Top.todo) \in Seq(Goals)
  BY AtGoal DEF ParseGuid
<1>2. CASE Fail("error")
  BY <1>2, StepFail
<1> DEFINE item == IF Top.item.kind = "field" THEN Top.item
                   ELSE WithKid([kind |-> "guid", value |-> Item(1)])
<1>3. CASE ~(Left < 1) /\ Take(1, Tail(Top.todo), item)
  <2>1. IsItem(item) /\ 1 <= Left
    BY <1>1, <1>3, AtTop DEF IsItem, WithKid
  <2> HIDE DEF item
  <2> QED BY <1>1, <1>3, <2>1, StepTake
<1> QED BY <1>2, <1>3 DEF ParseGuid

LEMMA StepSkipCopyMask == ASSUME TInv, SkipCopyMask PROVE TInv'
<1>1. Len(stack) > 0 /\ IsItem(Top.item) /\ Tail(Top.todo) \in Seq(Goals)
  BY AtGoal DEF SkipCopyMask
<1>2. CASE Fail("error")
  BY <1>2, StepFail
<1>3. CASE ~(Left < Top.item.size) /\ Take(Top.item.size, Tail(Top.todo), Top.item)
  <2>1. Top.item.size \in Nat /\ Top.item.size <= Left
    BY <1>1, <1>3, AtTop DEF IsItem
  <2> QED BY <1>1, <1>3, <2>1, StepTake
<1> QED BY <1>2, <1>3 DEF SkipCopyMask

LEMMA StepReadCount ==
  ASSUME TInv, NEW list \in Whats \ LengthGoals, NEW entry \in Whats, ReadCount(list, entry)
  PROVE  TInv'
<1>1. Len(stack) > 0 /\ IsItem(Top.item) /\ Tail(Top.todo) \in Seq(Goals)
  BY AtGoal DEF ReadCount
<1>2. CASE Fail("error")
  BY <1>2, StepFail
<1>3. CASE ~(Left < 1) /\ Take(1, Some(entry, Item(1)) \o Tail(Top.todo), Top.item)
  <2>1. 1 <= Left /\ Item(1) \in Nat
    BY <1>1, <1>3, AtTop
  <2>2. Some(entry, Item(1)) \o Tail(Top.todo) \in Seq(Goals)
    BY <1>1, <2>1, GoalLists, Joined
  <2> QED BY <1>1, <1>3, <2>1, <2>2, StepTake
<1> QED BY <1>2, <1>3 DEF ReadCount

LEMMA StepParseAttribute == ASSUME TInv, ParseAttribute PROVE TInv'
<1>1. Len(stack) > 0 /\ IsItem(Top.item) /\ OneLess \in Seq(Goals)
  BY AtGoal DEF ParseAttribute, LengthGoals
<1>2. CASE Fail("error")
  BY <1>2, StepFail
<1>3. CASE \E kid : /\ ~(Left < 2 \/ Left < 4 + Item(1) + Item(2))
                    /\ Take(4 + Item(1) + Item(2), OneLess, WithKid(kid))
  <2>1. PICK kid : /\ ~(Left < 2 \/ Left < 4 + Item(1) + Item(2))
                   /\ Take(4 + Item(1) + Item(2), OneLess, WithKid(kid))
    BY <1>3
  <2>2. Item(1) \in Nat /\ Item(2) \in Nat /\ 4 + Item(1) + Item(2) <= Left
    BY <1>1, <2>1, AtTop
  <2>3. IsItem(WithKid(kid))
    BY <1>1 DEF IsItem, WithKid
  <2> QED BY <1>1, <2>1, <2>2, <2>3, StepTake
<1> QED BY <1>2, <1>3 DEF ParseAttribute

LEMMA StepParseEnumInfo == ASSUME TInv, ParseEnumInfo PROVE TInv'
<1>1. Len(stack) > 0 /\ IsItem(Top.item) /\ OneLess \in Seq(Goals)
  BY AtGoal DEF ParseEnumInfo, LengthGoals
<1>2. CASE Fail("error") \/ Fail("panic")
  BY <1>2, StepFail
<1> DEFINE n == 2 + Item(1) + Top.item.size
<1>3. CASE \E kid : /\ Left >= 1 /\ ~(Left < n)
                    /\ Take(n, OneLess, WithKid(kid))
  <2>1. PICK kid : Left >= 1 /\ ~(Left < n) /\ Take(n, OneLess, WithKid(kid))
    BY <1>3
  <2>2. Item(1) \in Nat /\ Top.item.size \in Nat
    BY <1>1, <2>1, AtTop DEF IsItem
  <2>3. n \in Nat /\ n <= Left
    BY <1>1, <2>1, <2>2, AtTop
  <2>4. IsItem(WithKid(kid))
    BY <1>1 DEF IsItem, WithKid
  <2> QED BY <1>1, <2>1, <2>3, <2>4, StepTake
<1>4. Left \in Int
  BY <1>1, AtTop
<1> QED BY <1>2, <1>3, <1>4 DEF ParseEnumInfo

--------------------------------------------------------------------------------
(* New stacks: the whole of a table, or of the answer about one type.           *)

LEMMA Fresh ==
  ASSUME NEW d \in Seq(Nat), NEW f, IsFrame(f), f.ptr <= f.end, f.end <= Len(d)
  PROVE  IsStack(<<f>>) /\ Nested(<<f>>, d) /\ Len(<<f>>) = 1
<1> DEFINE s == <<f>>
<1>1. s \in Seq({f}) /\ Len(s) = 1 /\ s[1] = f
  OBVIOUS
<1> HIDE DEF s
<1>2. \A i \in 1 .. Len(s) : i = 1
  BY <1>1
<1>3. IsStack(s)
  BY <1>1, <1>2 DEF IsStack
<1>4. Nested(s, d)
  BY <1>1, <1>2 DEF Nested
<1> QED BY <1>1, <1>3, <1>4 DEF s

LEMMA FreshTable ==
  ASSUME NEW d \in Seq(Nat), NEW entry \in Whats
  PROVE  /\ IsStack(<<TableFrame(d, entry)>>) /\ Nested(<<TableFrame(d, entry)>>, d)
         /\ Len(<<TableFrame(d, entry)>>) = 1
<1> DEFINE f == TableFrame(d, entry)
<1>1. Len(d) \in Nat /\ Goal(entry, 1) \in Seq(Goals)
  BY GoalLists
<1>2. IsItem(NewItem("table"))
  BY DEF IsItem, NewItem
<1>3. IsFrame(f) /\ f.ptr = 0 /\ f.end = Len(d)
  BY <1>1, <1>2 DEF TableFrame, Frame, IsFrame
<1> HIDE DEF f
<1>4. f.ptr <= f.end /\ f.end <= Len(d)
  BY <1>1, <1>3
<1>5. IsStack(<<f>>) /\ Nested(<<f>>, d) /\ Len(<<f>>) = 1
  BY <1>3, <1>4, Fresh
<1> QED BY <1>5 DEF f

LEMMA StepGetTypeInfoByName == ASSUME TInv, GetTypeInfoByName PROVE TInv'
<1> DEFINE n == upload.declared
           answer == [i \in 1 .. n |->
                        IF i <= Len(upload.types) THEN upload.types[i] ELSE 0]
           end == IF answer[1] < n THEN answer[1] ELSE n
           f == Frame("type", 1, end, Goal("header", 1))
<1>1. n \in Nat /\ upload.types \in Seq(Nat) /\ upload \in Uploads
  BY TableConstants DEF TInv
<1>2. answer \in Seq(Nat) /\ Len(answer) = n
  <2>1. \A i \in 1 .. n : i <= Len(upload.types) => upload.types[i] \in Nat
    BY <1>1
  <2>2. answer \in [1 .. n -> Nat]
    BY <1>1, <2>1
  <2> QED BY <1>1, <2>2
<1>3. CASE Fail("error") \/ Fail("panic")
  BY <1>3, StepFail
<1>4. CASE /\ 1 <= n /\ ~(answer[1] < 1)
           /\ data' = answer /\ stack' = <<f>> /\ pc' = "types" /\ UNCHANGED upload
  <2>0. answer[1] \in Nat
    BY <1>1, <1>2, <1>4
  <2> HIDE DEF n, answer
  <2>1. end \in Nat /\ 1 <= end /\ end <= Len(answer)
    BY <1>1, <1>2, <1>4, <2>0
  <2> HIDE DEF end
  <2>2. IsItem(NewItem("type"))
    BY DEF IsItem, NewItem
  <2>3. Goal("header", 1) \in Seq(Goals)
    BY GoalLists DEF Whats
  <2>4. IsFrame(f) /\ f.ptr = 1 /\ f.end = end
    BY <2>1, <2>2, <2>3 DEF Frame, IsFrame
  <2> HIDE DEF f
  <2>5. f.ptr <= f.end /\ f.end <= Len(answer)
    BY <2>1, <2>4
  <2>6. IsStack(<<f>>) /\ Nested(<<f>>, answer) /\ Len(<<f>>) = 1
    BY <1>2, <2>4, <2>5, Fresh
  <2> QED BY <1>1, <1>2, <1>4, <2>6 DEF TInv, Reading
<1>5. ReadBuffer \in Nat /\ (1 <= n => answer[1] \in Nat)
  BY <1>1, <1>2, TableConstants
<1> QED
  <2> HIDE DEF f, end
  <2>1. CASE n > ReadBuffer
    BY <1>3, <2>1 DEF GetTypeInfoByName
  <2>2. CASE ~(n > ReadBuffer) /\ n < 1
    BY <1>1, <1>3, <1>5, <2>2 DEF GetTypeInfoByName
  <2>3. CASE ~(n > ReadBuffer) /\ 1 <= n /\ answer[1] < 1
    BY <1>1, <1>3, <1>5, <2>3 DEF GetTypeInfoByName
  <2>4. CASE ~(n > ReadBuffer) /\ 1 <= n /\ ~(answer[1] < 1)
    BY <1>1, <1>4, <1>5, <2>4 DEF GetTypeInfoByName, f, end
  <2> QED BY <1>1, <1>5, <2>1, <2>2, <2>3, <2>4

LEMMA StepTypesDecoded == ASSUME TInv, TypesDecoded PROVE TInv'
<1>1. upload.symbols \in Seq(Nat) /\ "symbol" \in Whats
  BY TableConstants DEF TInv, Whats, Entries
<1>2. CASE upload.way = "bulk"
  <2>1. /\ pc' = "symbols" /\ data' = upload.symbols /\ UNCHANGED upload
        /\ stack' = <<TableFrame(data', "symbol")>>
    BY <1>2 DEF TypesDecoded
  <2>2. stack' = <<TableFrame(upload.symbols, "symbol")>>
    BY <2>1
  <2> QED BY <1>1, <2>1, <2>2, FreshTable DEF TInv
<1>3. CASE upload.way # "bulk"
  BY <1>3 DEF TypesDecoded, TInv, Reading
<1> QED BY <1>2, <1>3

--------------------------------------------------------------------------------
(* The invariant. *)

LEMMA InitTables == Init => TInv
<1> SUFFICES ASSUME Init PROVE TInv
  OBVIOUS
<1>1. upload \in Uploads /\ upload.types \in Seq(Nat) /\ "type" \in Whats
  BY TableConstants DEF Init, Whats, Entries
<1>2. CASE upload.way = "bulk"
  <2>1. pc = "types" /\ data = upload.types /\ stack = <<TableFrame(data, "type")>>
    BY <1>2 DEF Init
  <2> QED BY <1>1, <2>1, FreshTable DEF TInv
<1>3. CASE upload.way # "bulk"
  <2>1. pc = "ask" /\ data = <<>> /\ stack = <<>>
    BY <1>3 DEF Init
  <2>2. IsStack(<<>>) /\ Nested(<<>>, data)
    <3>1. <<>> \in Seq({}) /\ \A i \in 1 .. Len(<<>>) : FALSE
      OBVIOUS
    <3> QED BY <3>1 DEF IsStack, Nested
  <2> QED BY <1>1, <2>1, <2>2 DEF TInv, Reading
<1> QED BY <1>2, <1>3

LEMMA NextTables == TInv /\ [DecodeStep]_vars => TInv'
<1> SUFFICES ASSUME TInv, [DecodeStep]_vars PROVE TInv'
  OBVIOUS
<1>1. CASE GetTypeInfoByName
  BY <1>1, StepGetTypeInfoByName
<1>2. CASE \E kind \in Entries : EnterEntry(kind)
  BY <1>2, StepEnterEntry
<1>3. CASE LeaveEntry
  BY <1>3, StepLeaveEntry
<1>4. CASE TypeHeader \/ SymbolHeader \/ MethodHeader
  BY <1>4, StepTypeHeader, StepSymbolHeader, StepMethodHeader
<1>5. CASE ReadString("name") \/ ReadString("typ")
  BY <1>5, StepReadString
<1>6. CASE ReadDimension \/ CheckSubItems
  BY <1>6, StepReadDimension, StepCheckSubItems
<1>7. CASE ParseGuid \/ SkipCopyMask
  BY <1>7, StepParseGuid, StepSkipCopyMask
<1>8. CASE \/ ReadCount("methods", "method") \/ ReadCount("attributes", "attribute")
           \/ ReadCount("enums", "enum")
  <2>1. /\ {"methods", "attributes", "enums"} \subseteq Whats \ LengthGoals
        /\ {"method", "attribute", "enum"} \subseteq Whats
    BY DEF Whats, LengthGoals, Entries
  <2> QED BY <1>8, <2>1, StepReadCount
<1>9. CASE ParseAttribute \/ ParseEnumInfo
  BY <1>9, StepParseAttribute, StepParseEnumInfo
<1>10. CASE TypesDecoded
  BY <1>10, StepTypesDecoded
<1>11. CASE SymbolsDecoded
  BY <1>11 DEF SymbolsDecoded, TInv, Reading
<1>12. CASE UNCHANGED vars
  BY <1>12 DEF vars, TInv, Reading
<1> QED BY <1>1, <1>2, <1>3, <1>4, <1>5, <1>6, <1>7, <1>8, <1>9, <1>10, <1>11, <1>12 DEF DecodeStep

LEMMA NestedTables == TInv => SlicesNest
<1> SUFFICES ASSUME TInv PROVE SlicesNest
  OBVIOUS
<1>1. PICK F : stack \in Seq(F)
  BY DEF TInv, IsStack
<1>2. DOMAIN stack = 1 .. Len(stack)
  BY <1>1
<1>3. \A i \in 1 .. Len(stack) : stack[i].ptr \in Nat
  BY DEF TInv, IsStack, IsFrame
<1> QED BY <1>2, <1>3 DEF TInv, Nested, SlicesNest

(* Whatever the PLC answers, of any length and with any sizes, counts and       *)
(* string lengths in it: what is being read lies inside the entry it belongs to,*)
(* that entry inside what its own entry has stepped over, and all of it inside  *)
(* the table (decode_symbol_info, decode_type_info_by_name and what they call). *)
THEOREM TablesNest == TableSpec => []SlicesNest
<1>1. TInv /\ [DecodeStep]_vars => TInv'
  BY NextTables
<1> QED BY <1>1, InitTables, NestedTables, PTL DEF TableSpec
===============================================================================

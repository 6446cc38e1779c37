------------------------ MODULE DynamicSymbolsProofs ------------------------
(***************************************************************************)
(* The two readings of a sample, as a tree and as a map, of any symbol of  *)
(* any tables (DynamicSymbols).                                            *)
(***************************************************************************)
EXTENDS DynamicSymbols, SymbolTablesProofs

--------------------------------------------------------------------------------
(* What is decoded has sizes and offsets that are numbers.                      *)

IsList(s) == \E F : s \in Seq(F)

Measured(item) == item.size \in Nat /\ item.offset \in Nat \cup {None}

(* A record like that of NewItem; and of a field, a type or a symbol.           *)
Made(item) ==
  item = [kind |-> item.kind, name |-> item.name, typ |-> item.typ, size |-> item.size,
          offset |-> item.offset, base_type |-> item.base_type, array |-> item.array,
          kids |-> item.kids]

IsEntry(item) ==
  /\ Measured(item) /\ IsList(item.kids)
  /\ \A k \in 1 .. Len(item.kids) : item.kids[k].kind = "field" => Measured(item.kids[k])

AllEntries(list) == IsList(list) /\ \A k \in 1 .. Len(list) : IsEntry(list[k])

Tables == {Goal("type", 1), Goal("symbol", 1)}

GoodFrame(f) ==
  /\ Made(f.item) /\ IsEntry(f.item)
  /\ f.item.kind = "table" => f.todo \in Tables /\ AllEntries(f.item.kids)

(* At the bottom of the stack is a table, but for the answer about one type.    *)
Bottom ==
  /\ Reading /\ (upload.way = "bulk" \/ pc = "symbols") => stack[1].item.kind = "table"
  /\ pc = "ask" => upload.way # "bulk"

AInv ==
  /\ \A i \in 1 .. Len(stack) : GoodFrame(stack[i])
  /\ Bottom
  /\ AllEntries(types) /\ AllEntries(symbols)

(* The last frame of a stack replaced, and one put on top.                      *)
LEMMA OnTop ==
  ASSUME NEW s, IsList(s), NEW f, GoodFrame(f), \A i \in 1 .. Len(s) : GoodFrame(s[i])
  PROVE  /\ IsList(Append(s, f)) /\ \A i \in 1 .. Len(Append(s, f)) : GoodFrame(Append(s, f)[i])
<1>1. PICK F : s \in Seq(F)
  BY DEF IsList
<1>2. s \in Seq(F \cup {f}) /\ Len(s) \in Nat
  BY <1>1
<1> DEFINE u == Append(s, f)
<1>3. /\ u \in Seq(F \cup {f}) /\ Len(u) = Len(s) + 1 /\ u[Len(s) + 1] = f
      /\ \A i \in 1 .. Len(s) : u[i] = s[i]
  BY <1>2
<1> HIDE DEF u
<1>4. \A i \in 1 .. Len(u) : GoodFrame(u[i])
  <2> TAKE i \in 1 .. Len(u)
  <2>1. CASE i = Len(s) + 1
    BY <1>3, <2>1
  <2>2. CASE i # Len(s) + 1
    <3>1. i \in 1 .. Len(s)
      BY <1>2, <1>3, <2>2
    <3> QED BY <1>3, <3>1
  <2> QED BY <2>1, <2>2
<1> QED BY <1>3, <1>4 DEF IsList, u

LEMMA Below ==
  ASSUME NEW s, IsList(s), NEW n \in Nat, n <= Len(s), \A i \in 1 .. Len(s) : GoodFrame(s[i])
  PROVE  /\ IsList(SubSeq(s, 1, n))
         /\ \A i \in 1 .. Len(SubSeq(s, 1, n)) : GoodFrame(SubSeq(s, 1, n)[i])
<1>1. PICK F : s \in Seq(F)
  BY DEF IsList
<1> DEFINE o == SubSeq(s, 1, n)
<1>2. o \in Seq(F) /\ Len(o) = n /\ \A i \in 1 .. n : o[i] = s[i]
  BY <1>1
<1>3. \A i \in 1 .. n : i \in 1 .. Len(s)
  BY <1>1
<1> HIDE DEF o
<1> QED BY <1>2, <1>3 DEF IsList, o

LEMMA Underneath ==
  ASSUME NEW s, IsList(s), NEW f, NEW n \in Nat, 0 < n, n <= Len(s)
  PROVE  Append(SubSeq(s, 1, n), f)[1] = s[1]
<1>1. PICK F : s \in Seq(F)
  BY DEF IsList
<1> DEFINE o == SubSeq(s, 1, n)
<1>2. o \in Seq(F) /\ Len(o) = n /\ o[1] = s[1]
  BY <1>1
<1> HIDE DEF o
<1>3. o \in Seq(F \cup {f}) /\ 1 \in 1 .. Len(o)
  BY <1>2
<1>4. Append(o, f)[1] = o[1]
  BY <1>3
<1> QED BY <1>2, <1>4 DEF o

LEMMA Nothing == ASSUME NEW s, IsList(s) PROVE SubSeq(s, 1, 0) = <<>>
<1>1. PICK F : s \in Seq(F)
  BY DEF IsList
<1>2. SubSeq(s, 1, 0) \in Seq(F) /\ Len(SubSeq(s, 1, 0)) = 0
  BY <1>1
<1> QED BY <1>2, EmptySeq

LEMMA StackIsList == TInv => IsList(stack) /\ Len(stack) \in Nat
<1> SUFFICES ASSUME TInv PROVE IsList(stack) /\ Len(stack) \in Nat
  OBVIOUS
<1>1. PICK F : stack \in Seq(F)
  BY DEF TInv, IsStack
<1> QED BY <1>1 DEF IsList

(* Frames of the table invariant, once more.                                    *)
LEMMA Tops ==
  ASSUME TInv, AInv, Len(stack) > 0
  PROVE  /\ IsList(stack) /\ Len(stack) \in Nat /\ GoodFrame(Top)
         /\ IsList(Outer) /\ \A i \in 1 .. Len(Outer) : GoodFrame(Outer[i])
<1>1. IsList(stack)
  BY DEF TInv, IsStack, IsList
<1>2. Len(stack) \in Nat
  BY <1>1 DEF IsList
<1>3. Len(stack) \in 1 .. Len(stack) /\ Len(stack) - 1 \in Nat /\ Len(stack) - 1 <= Len(stack)
  BY <1>2
<1>4. GoodFrame(Top)
  BY <1>3 DEF AInv, Top
<1>5. /\ IsList(Outer) /\ \A i \in 1 .. Len(Outer) : GoodFrame(Outer[i])
  BY <1>1, <1>3, Below DEF AInv, Outer
<1> QED BY <1>1, <1>2, <1>4, <1>5

LEMMA GoodTake ==
  ASSUME TInv, AInv, Len(stack) > 0, Top.item.kind # "table",
         NEW n, NEW todo, NEW item, Made(item), IsEntry(item), item.kind # "table",
         Take(n, todo, item)
  PROVE  AInv'
<1>1. /\ IsList(Outer) /\ \A i \in 1 .. Len(Outer) : GoodFrame(Outer[i])
  BY Tops
<1>2. GoodFrame(Past(n, todo, item))
  BY DEF GoodFrame, Past
<1>3. \A i \in 1 .. Len(stack') : GoodFrame(stack'[i])
  BY <1>1, <1>2, OnTop DEF Take
<1>4. ASSUME Reading, stack[1].item.kind = "table" PROVE stack'[1].item.kind = "table"
  <2>1. Len(stack) # 1 /\ Len(stack) \in Nat
    BY <1>4, StackIsList DEF Top
  <2>2. Len(stack) - 1 \in Nat /\ 0 < Len(stack) - 1 /\ Len(stack) - 1 <= Len(stack)
    <3>1. \A k \in Nat : k > 0 /\ k # 1 => k - 1 \in Nat /\ 0 < k - 1 /\ k - 1 <= k
      OBVIOUS
    <3> QED BY <2>1, <3>1
  <2>3. stack'[1] = stack[1]
    BY <2>2, StackIsList, Underneath DEF Take, Outer
  <2> QED BY <1>4, <2>3
<1>5. Bottom'
  BY <1>4 DEF AInv, Bottom, Take, Reading
<1> QED BY <1>3, <1>5 DEF AInv, Take

LEMMA GoodFail == ASSUME AInv, NEW how \in {"error", "panic"}, Fail(how) PROVE AInv'
BY DEF AInv, Fail, Bottom, Reading

(* A table holds entries only.                                                  *)
LEMMA NotInTable ==
  ASSUME TInv, AInv, NEW w, At(w), w \notin {"type", "symbol"}
  PROVE  Len(stack) > 0 /\ Made(Top.item) /\ IsEntry(Top.item) /\ Top.item.kind # "table"
<1>1. Len(stack) > 0 /\ Ahead.what = w
  BY AtGoal
<1>2. GoodFrame(Top)
  BY <1>1, Tops
<1>3. ASSUME Top.item.kind = "table" PROVE FALSE
  <2>1. Top.todo \in Tables
    BY <1>2, <1>3 DEF GoodFrame
  <2>2. Ahead.what \in {"type", "symbol"}
    BY <2>1 DEF Tables, Goal, Ahead
  <2> QED BY <1>1, <2>2
<1> QED BY <1>1, <1>2, <1>3 DEF GoodFrame

(* The item of a frame with one of its parts read.                              *)
LEMMA Edited ==
  ASSUME NEW item, Made(item), IsEntry(item), NEW x
  PROVE  /\ LET i == [item EXCEPT !.name = x] IN Made(i) /\ IsEntry(i) /\ i.kind = item.kind
         /\ LET i == [item EXCEPT !.typ = x] IN Made(i) /\ IsEntry(i) /\ i.kind = item.kind
         /\ LET i == [item EXCEPT !.array = x] IN Made(i) /\ IsEntry(i) /\ i.kind = item.kind
         /\ LET i == [item EXCEPT !.base_type = x] IN
              Made(i) /\ IsEntry(i) /\ i.kind = item.kind
         /\ x \in Nat =>
              LET i == [item EXCEPT !.size = x] IN Made(i) /\ IsEntry(i) /\ i.kind = item.kind
         /\ x \in Nat \cup {None} =>
              LET i == [item EXCEPT !.offset = x] IN Made(i) /\ IsEntry(i) /\ i.kind = item.kind
<1>1. PICK kind, name, typ, size, offset, base_type, array, kids :
        item = [kind |-> kind, name |-> name, typ |-> typ, size |-> size, offset |-> offset,
                base_type |-> base_type, array |-> array, kids |-> kids]
  BY DEF Made
<1>2. /\ size \in Nat /\ offset \in Nat \cup {None} /\ IsList(kids)
      /\ \A k \in 1 .. Len(kids) : kids[k].kind = "field" => Measured(kids[k])
  BY <1>1 DEF IsEntry, Measured
<1> HIDE DEF IsList
<1>3. LET i == [item EXCEPT !.name = x] IN Made(i) /\ IsEntry(i) /\ i.kind = item.kind
  BY <1>1, <1>2 DEF Made, IsEntry, Measured
<1>4. LET i == [item EXCEPT !.typ = x] IN Made(i) /\ IsEntry(i) /\ i.kind = item.kind
  BY <1>1, <1>2 DEF Made, IsEntry, Measured
<1>5. LET i == [item EXCEPT !.array = x] IN Made(i) /\ IsEntry(i) /\ i.kind = item.kind
  BY <1>1, <1>2 DEF Made, IsEntry, Measured
<1>6. LET i == [item EXCEPT !.base_type = x] IN Made(i) /\ IsEntry(i) /\ i.kind = item.kind
  BY <1>1, <1>2 DEF Made, IsEntry, Measured
<1>7. x \in Nat =>
        LET i == [item EXCEPT !.size = x] IN Made(i) /\ IsEntry(i) /\ i.kind = item.kind
  BY <1>1, <1>2 DEF Made, IsEntry, Measured
<1>8. x \in Nat \cup {None} =>
        LET i == [item EXCEPT !.offset = x] IN Made(i) /\ IsEntry(i) /\ i.kind = item.kind
  BY <1>1, <1>2 DEF Made, IsEntry, Measured
<1> QED BY <1>3, <1>4, <1>5, <1>6, <1>7, <1>8

(* One more in a list.                                                          *)
LEMMA OneMore ==
  ASSUME NEW list, IsList(list), NEW x
  PROVE  /\ IsList(Append(list, x)) /\ Len(Append(list, x)) = Len(list) + 1 /\ Len(list) \in Nat
         /\ \A k \in 1 .. Len(Append(list, x)) :
              Append(list, x)[k] = x \/ (k \in 1 .. Len(list) /\ Append(list, x)[k] = list[k])
<1>1. PICK F : list \in Seq(F)
  BY DEF IsList
<1>2. list \in Seq(F \cup {x}) /\ Len(list) \in Nat
  BY <1>1
<1> DEFINE u == Append(list, x)
<1>3. /\ u \in Seq(F \cup {x}) /\ Len(u) = Len(list) + 1 /\ u[Len(list) + 1] = x
      /\ \A k \in 1 .. Len(list) : u[k] = list[k]
  BY <1>2
<1> HIDE DEF u
<1>4. \A k \in 1 .. Len(u) : u[k] = x \/ (k \in 1 .. Len(list) /\ u[k] = list[k])
  <2> TAKE k \in 1 .. Len(u)
  <2>1. k = Len(list) + 1 \/ k \in 1 .. Len(list)
    BY <1>2, <1>3
  <2> QED BY <1>3, <2>1
<1> QED BY <1>2, <1>3, <1>4 DEF IsList, u

(* An item that holds one more.                                                 *)
LEMMA Held ==
  ASSUME NEW item, Made(item), IsEntry(item), NEW kid, kid.kind = "field" => Measured(kid)
  PROVE  LET i == [item EXCEPT !.kids = Append(@, kid)] IN
         /\ Made(i) /\ IsEntry(i) /\ i.kind = item.kind
         /\ AllEntries(item.kids) /\ IsEntry(kid) => AllEntries(i.kids)
<1>1. PICK kind, name, typ, size, offset, base_type, array, kids :
        item = [kind |-> kind, name |-> name, typ |-> typ, size |-> size, offset |-> offset,
                base_type |-> base_type, array |-> array, kids |-> kids]
  BY DEF Made
<1>2. /\ size \in Nat /\ offset \in Nat \cup {None} /\ IsList(kids)
      /\ \A k \in 1 .. Len(kids) : kids[k].kind = "field" => Measured(kids[k])
  BY <1>1 DEF IsEntry, Measured
<1> DEFINE u == Append(kids, kid)
           i == [item EXCEPT !.kids = Append(@, kid)]
<1>3. /\ IsList(u)
      /\ \A k \in 1 .. Len(u) : u[k] = kid \/ (k \in 1 .. Len(kids) /\ u[k] = kids[k])
  BY <1>2, OneMore
<1>4. i = [kind |-> kind, name |-> name, typ |-> typ, size |-> size, offset |-> offset,
           base_type |-> base_type, array |-> array, kids |-> u]
  BY <1>1
<1> HIDE DEF u, i
<1>5. Made(i) /\ IsEntry(i) /\ i.kind = item.kind
  <2>1. \A k \in 1 .. Len(u) : u[k].kind = "field" => Measured(u[k])
    BY <1>2, <1>3
  <2>2. i.kids = u /\ i.size = size /\ i.offset = offset /\ i.kind = kind /\ item.kind = kind
    BY <1>1, <1>4
  <2>3. Made(i)
    BY <1>4 DEF Made
  <2> QED BY <1>2, <1>3, <2>1, <2>2, <2>3 DEF IsEntry, Measured
<1>6. ASSUME AllEntries(item.kids), IsEntry(kid) PROVE AllEntries(i.kids)
  <2>1. i.kids = u /\ item.kids = kids
    BY <1>1, <1>4
  <2> QED BY <1>3, <1>6, <2>1 DEF AllEntries
<1> QED BY <1>5, <1>6 DEF i

LEMMA Fresh1 ==
  ASSUME NEW f, GoodFrame(f)
  PROVE  \A i \in 1 .. Len(<<f>>) : GoodFrame(<<f>>[i])
OBVIOUS

LEMMA NewItems ==
  ASSUME NEW kind
  PROVE  /\ Made(NewItem(kind)) /\ IsEntry(NewItem(kind)) /\ NewItem(kind).kind = kind
         /\ AllEntries(NewItem(kind).kids)
<1>1. IsList(<<>>) /\ Len(<<>>) = 0
  BY DEF IsList
<1> QED BY <1>1 DEF NewItem, Made, IsEntry, Measured, AllEntries

LEMMA GoodEnterEntry == ASSUME TInv, AInv, NEW kind \in Entries, EnterEntry(kind) PROVE AInv'
<1>1. Len(stack) > 0 /\ Top.todo # <<>> /\ Ahead.what = kind
  BY AtGoal DEF EnterEntry
<1>2. GoodFrame(Top) /\ IsList(Outer) /\ \A i \in 1 .. Len(Outer) : GoodFrame(Outer[i])
  BY <1>1, Tops
<1> DEFINE a == Past(Item(1), OneLess, Top.item)
           b == Frame(kind, Top.ptr + 1, Top.ptr + Item(1), Goal("header", 1))
<1>3. CASE stack' = Append(Append(Outer, a), b) /\ UNCHANGED <<upload, pc, types, symbols>>
  <2>1. GoodFrame(a)
    BY <1>2 DEF GoodFrame, Past, OneLess
  <2>2. GoodFrame(b)
    <3>1. kind # "table"
      BY DEF Entries
    <3> QED BY <3>1, NewItems DEF GoodFrame, Frame
  <2> HIDE DEF a, b
  <2>3. /\ IsList(Append(Outer, a))
        /\ \A i \in 1 .. Len(Append(Outer, a)) : GoodFrame(Append(Outer, a)[i])
    BY <1>2, <2>1, OnTop
  <2>4. \A i \in 1 .. Len(stack') : GoodFrame(stack'[i])
    BY <1>3, <2>2, <2>3, OnTop
  <2>5. ASSUME Reading, stack[1].item.kind = "table" PROVE stack'[1].item.kind = "table"
    <3>1. stack'[1] = Append(Outer, a)[1]
      <4>1. PICK F : Append(Outer, a) \in Seq(F)
        BY <2>3 DEF IsList
      <4>2. Append(Outer, a) \in Seq(F \cup {b}) /\ Len(Append(Outer, a)) \in Nat
        BY <4>1
      <4>3. Len(Append(Outer, a)) = Len(Outer) + 1 /\ Len(Outer) \in Nat
        BY <1>2, OneMore
      <4>4. 1 \in 1 .. Len(Append(Outer, a))
        BY <4>3
      <4> DEFINE u == Append(Outer, a)
      <4> HIDE DEF u
      <4> QED BY <1>3, <4>2, <4>4 DEF u
    <3>2. CASE Len(stack) = 1
      <4>1. a.item = stack[1].item
        BY <3>2 DEF a, Past, Top
      <4>2. Append(Outer, a)[1] = a
        <5>1. Outer = <<>>
          <6>1. Len(stack) - 1 = 0
            BY <3>2
          <6>2. SubSeq(stack, 1, 0) = <<>>
            BY StackIsList, Nothing
          <6> QED BY <6>1, <6>2 DEF Outer
        <5> QED BY <5>1
      <4> QED BY <2>5, <3>1, <4>1, <4>2
    <3>3. CASE Len(stack) > 1
      <4>0. Len(stack) - 1 \in Nat /\ 0 < Len(stack) - 1 /\ Len(stack) - 1 <= Len(stack)
        BY <3>3, StackIsList
      <4>1. Append(Outer, a)[1] = stack[1]
        BY <4>0, StackIsList, Underneath DEF Outer
      <4> QED BY <2>5, <3>1, <4>1
    <3>4. Len(stack) \in Nat
      BY StackIsList
    <3>5. Len(stack) = 1 \/ Len(stack) > 1
      <4>1. \A k \in Nat : k > 0 => k = 1 \/ k > 1
        OBVIOUS
      <4> QED BY <1>1, <3>4, <4>1
    <3> QED BY <3>2, <3>3, <3>5
  <2>6. Bottom'
    BY <1>3, <2>5 DEF AInv, Bottom, Reading
  <2> QED BY <1>3, <2>4, <2>6 DEF AInv
<1>4. CASE \E how \in {"error", "panic"} : Fail(how)
  BY <1>4, GoodFail
<1>5. \/ \E how \in {"error", "panic"} : Fail(how)
      \/ stack' = Append(Append(Outer, a), b) /\ UNCHANGED <<upload, pc, types, symbols>>
  <2>1. CASE Left < 1
    BY <2>1 DEF EnterEntry
  <2>2. CASE Left >= 1 /\ Item(1) < 1
    BY <2>2, AtTop, <1>1 DEF EnterEntry
  <2>3. CASE Left >= 1 /\ ~(Item(1) < 1) /\ Item(1) > Left
    BY <2>3, AtTop, <1>1 DEF EnterEntry
  <2>4. CASE Left >= 1 /\ ~(Item(1) < 1) /\ ~(Item(1) > Left)
    BY <2>4, AtTop, <1>1 DEF EnterEntry
  <2>5. Left \in Int
    BY <1>1, AtTop
  <2> QED BY <2>1, <2>2, <2>3, <2>4, <2>5
<1> QED BY <1>3, <1>4, <1>5

LEMMA GoodLeaveEntry == ASSUME TInv, AInv, LeaveEntry PROVE AInv'
<1>1. Len(stack) > 1 /\ Len(stack) > 0
  <2>1. Len(stack) \in Nat
    <3>1. PICK F : stack \in Seq(F)
      BY DEF TInv, IsStack
    <3> QED BY <3>1
  <2> QED BY <2>1 DEF LeaveEntry
<1>2. IsList(stack) /\ Len(stack) \in Nat /\ GoodFrame(Top)
  BY <1>1, Tops
<1> DEFINE o == stack[Len(stack) - 1]
           rest == SubSeq(stack, 1, Len(stack) - 2)
<1>3. /\ Len(stack) - 1 \in 1 .. Len(stack) /\ Len(stack) - 2 \in Nat
      /\ Len(stack) - 2 <= Len(stack)
  BY <1>1, <1>2
<1>4. IsFrame(o) /\ GoodFrame(o)
  BY <1>3 DEF TInv, IsStack, AInv
<1>5. IsList(rest) /\ \A i \in 1 .. Len(rest) : GoodFrame(rest[i])
  BY <1>2, <1>3, Below DEF AInv
<1>6. PICK kept :
        /\ kept = o.item.kids \/ kept = Append(o.item.kids, Top.item)
        /\ stack' = Append(rest, [o EXCEPT !.item.kids = kept])
        /\ UNCHANGED <<upload, pc, types, symbols>>
  BY DEF LeaveEntry
<1> HIDE DEF o, rest
<1> DEFINE f == [o EXCEPT !.item.kids = kept]
<1>7. GoodFrame(f) /\ f.item.kind = o.item.kind
  <2>1. PICK i, p, e, t : o = [item |-> i, ptr |-> p, end |-> e, todo |-> t]
    BY <1>4 DEF IsFrame
  <2>2. f = [item |-> [i EXCEPT !.kids = kept], ptr |-> p, end |-> e, todo |-> t]
    BY <2>1
  <2>3. Made(i) /\ IsEntry(i) /\ (i.kind = "table" => t \in Tables /\ AllEntries(i.kids))
    BY <1>4, <2>1 DEF GoodFrame
  <2>4. CASE kept = i.kids
    <3>1. [i EXCEPT !.kids = kept] = i
      BY <2>3, <2>4 DEF Made
    <3> QED BY <2>1, <2>2, <2>3, <3>1 DEF GoodFrame
  <2>5. CASE kept = Append(i.kids, Top.item)
    <3>1. IsEntry(Top.item) /\ Measured(Top.item)
      BY <1>2 DEF GoodFrame, IsEntry
    <3> DEFINE j == [i EXCEPT !.kids = Append(@, Top.item)]
    <3>2. /\ Made(j) /\ IsEntry(j) /\ j.kind = i.kind /\ (AllEntries(i.kids) => AllEntries(j.kids))
      BY <2>3, <3>1, Held
    <3>3. [i EXCEPT !.kids = kept] = j
      BY <2>5
    <3> HIDE DEF j
    <3> QED BY <2>1, <2>2, <2>3, <3>2, <3>3 DEF GoodFrame
  <2> QED BY <1>6, <2>1, <2>4, <2>5
<1> HIDE DEF f
<1>8. \A i \in 1 .. Len(stack') : GoodFrame(stack'[i])
  BY <1>5, <1>6, <1>7, OnTop DEF f
<1>9. ASSUME stack[1].item.kind = "table" PROVE stack'[1].item.kind = "table"
  <2>1. stack' = Append(rest, f)
    BY <1>6 DEF f
  <2>2. CASE Len(stack) = 2
    <3>1. rest = <<>>
      <4>1. Len(stack) - 2 = 0
        BY <2>2
      <4>2. SubSeq(stack, 1, 0) = <<>>
        BY <1>2, Nothing
      <4> QED BY <4>1, <4>2 DEF rest
    <3>2. stack'[1] = f
      BY <2>1, <3>1
    <3> QED BY <1>7, <1>9, <2>2, <3>2 DEF o
  <2>3. CASE Len(stack) # 2
    <3>1. 0 < Len(stack) - 2
      <4>1. \A k \in Nat : k > 1 /\ k # 2 => 0 < k - 2
        OBVIOUS
      <4> QED BY <1>1, <1>2, <2>3, <4>1
    <3>2. stack'[1] = stack[1]
      BY <1>2, <1>3, <2>1, <3>1, Underneath DEF rest
    <3> QED BY <1>9, <3>2
  <2> QED BY <2>2, <2>3
<1>10. Bottom'
  BY <1>6, <1>9 DEF AInv, Bottom, Reading
<1> QED BY <1>6, <1>8, <1>10 DEF AInv

LEMMA GoodTypeHeader == ASSUME TInv, AInv, TypeHeader PROVE AInv'
<1>1. Len(stack) > 0 /\ Made(Top.item) /\ IsEntry(Top.item) /\ Top.item.kind # "table"
  BY NotInTable DEF TypeHeader
<1>2. \A i \in 1 .. Left : Item(i) \in Nat
  BY <1>1, AtTop
<1> DEFINE todo == Goal("name", Item(6)) \o Goal("typ", Item(7)) \o Some("dimension", Item(8))
                     \o Goal("sub_items", Item(9)) \o FlaggedParts(Top.item.kind, Item(5))
           offset == IF Top.item.kind = "field" /\ Item(3) = Elsewhere THEN None ELSE Item(3)
           item == [Top.item EXCEPT !.size = Item(2), !.base_type = Item(4), !.offset = offset]
<1>3. CASE Fail("error")
  BY <1>3, GoodFail
<1>4. CASE ~(Left < 9) /\ Take(9, todo, item)
  <2> HIDE DEF todo
  <2>1. 9 <= Left /\ Left \in Int
    BY <1>1, <1>4, AtTop
  <2>2. Item(2) \in Nat /\ offset \in Nat \cup {None}
    BY <1>2, <2>1
  <2> HIDE DEF offset
  <2> DEFINE i1 == [Top.item EXCEPT !.size = Item(2)]
             i2 == [i1 EXCEPT !.base_type = Item(4)]
             i3 == [i2 EXCEPT !.offset = offset]
  <2>3. Made(i1) /\ IsEntry(i1) /\ i1.kind = Top.item.kind
    BY <1>1, <2>2, Edited
  <2>4. item = i3
    BY <1>1 DEF Made
  <2> HIDE DEF i1
  <2>5. Made(i2) /\ IsEntry(i2) /\ i2.kind = Top.item.kind
    BY <2>3, Edited
  <2> HIDE DEF i2
  <2>6. Made(i3) /\ IsEntry(i3) /\ i3.kind = Top.item.kind
    BY <2>2, <2>5, Edited
  <2> HIDE DEF i3, item
  <2> QED BY <1>1, <1>4, <2>4, <2>6, GoodTake
<1> QED BY <1>3, <1>4 DEF TypeHeader

LEMMA GoodSymbolHeader == ASSUME TInv, AInv, SymbolHeader PROVE AInv'
<1>1. Len(stack) > 0 /\ Made(Top.item) /\ IsEntry(Top.item) /\ Top.item.kind # "table"
  BY NotInTable DEF SymbolHeader
<1>2. \A i \in 1 .. Left : Item(i) \in Nat
  BY <1>1, AtTop
<1> DEFINE todo == Goal("name", Item(4)) \o Goal("typ", Item(5))
           item == [Top.item EXCEPT !.offset = Item(1), !.size = Item(2), !.base_type = Item(3)]
<1>3. CASE Fail("error")
  BY <1>3, GoodFail
<1>4. CASE ~(Left < 5) /\ Take(5, todo, item)
  <2> HIDE DEF todo
  <2>1. 5 <= Left /\ Left \in Int
    BY <1>1, <1>4, AtTop
  <2>2. Item(1) \in Nat /\ Item(2) \in Nat
    BY <1>2, <2>1
  <2> DEFINE i1 == [Top.item EXCEPT !.offset = Item(1)]
             i2 == [i1 EXCEPT !.size = Item(2)]
             i3 == [i2 EXCEPT !.base_type = Item(3)]
  <2>3. Made(i1) /\ IsEntry(i1) /\ i1.kind = Top.item.kind
    BY <1>1, <2>2, Edited
  <2>4. item = i3
    BY <1>1 DEF Made
  <2> HIDE DEF i1
  <2>5. Made(i2) /\ IsEntry(i2) /\ i2.kind = Top.item.kind
    BY <2>2, <2>3, Edited
  <2> HIDE DEF i2
  <2>6. Made(i3) /\ IsEntry(i3) /\ i3.kind = Top.item.kind
    BY <2>5, Edited
  <2> HIDE DEF i3, item
  <2> QED BY <1>1, <1>4, <2>4, <2>6, GoodTake
<1> QED BY <1>3, <1>4 DEF SymbolHeader

LEMMA GoodMethodHeader == ASSUME TInv, AInv, MethodHeader PROVE AInv'
<1>1. Len(stack) > 0 /\ Made(Top.item) /\ IsEntry(Top.item) /\ Top.item.kind # "table"
  BY NotInTable DEF MethodHeader
<1> DEFINE item == [Top.item EXCEPT !.size = Item(1)]
<1>2. PICK n, todo : /\ n \in {4, 5}
                     /\ Fail("error") \/ (~(Left < n) /\ Take(n, todo, item))
  BY DEF MethodHeader
<1>3. CASE Fail("error")
  BY <1>3, GoodFail
<1>4. CASE ~(Left < n) /\ Take(n, todo, item)
  <2>1. 1 <= Left
    BY <1>1, <1>2, <1>4, AtTop
  <2>2. Item(1) \in Nat
    BY <1>1, <2>1, AtTop
  <2>3. Made(item) /\ IsEntry(item) /\ item.kind = Top.item.kind
    BY <1>1, <2>2, Edited
  <2> HIDE DEF item
  <2> QED BY <1>1, <1>4, <2>3, GoodTake
<1> QED BY <1>2, <1>3, <1>4

LEMMA GoodReadString ==
  ASSUME TInv, AInv, NEW which \in {"name", "typ"}, ReadString(which) PROVE AInv'
<1>1. Len(stack) > 0 /\ Made(Top.item) /\ IsEntry(Top.item) /\ Top.item.kind # "table"
  BY NotInTable DEF ReadString
<1>2. CASE \E how \in {"error", "panic"} : Fail(how)
  BY <1>2, GoodFail
<1>3. CASE \E n, todo, x : \/ Take(n, todo, [Top.item EXCEPT !.name = x])
                           \/ Take(n, todo, [Top.item EXCEPT !.typ = x])
  <2>1. PICK n, todo, x : \/ Take(n, todo, [Top.item EXCEPT !.name = x])
                          \/ Take(n, todo, [Top.item EXCEPT !.typ = x])
    BY <1>3
  <2> DEFINE i == [Top.item EXCEPT !.name = x]
             j == [Top.item EXCEPT !.typ = x]
  <2>2. Made(i) /\ IsEntry(i) /\ i.kind = Top.item.kind
    BY <1>1, Edited
  <2>3. Made(j) /\ IsEntry(j) /\ j.kind = Top.item.kind
    BY <1>1, Edited
  <2>4. Take(n, todo, i) \/ Take(n, todo, j)
    BY <2>1
  <2> HIDE DEF i, j
  <2> QED BY <1>1, <2>2, <2>3, <2>4, GoodTake
<1>4. (\E how \in {"error", "panic"} : Fail(how)) \/ \E n, todo, x : \/ Take(n, todo, [Top.item EXCEPT !.name = x])
                                              \/ Take(n, todo, [Top.item EXCEPT !.typ = x])
  <2> DEFINE k == Ahead.n
             x == SubSeq(data, Top.ptr + 1, Top.ptr + Ahead.n)
             item == IF which = "name" THEN [Top.item EXCEPT !.name = x]
                     ELSE [Top.item EXCEPT !.typ = x]
  <2>1. CASE k + 1 > Buffer
    BY <2>1 DEF ReadString
  <2>2. CASE k + 1 <= Buffer /\ Left < k + 1
    BY <2>2, AtGoal, AtTop, TableConstants DEF ReadString
  <2>3. CASE ~(k + 1 > Buffer) /\ ~(k + 1 <= Buffer /\ Left < k + 1)
    <3>1. Take(k + 1, Tail(Top.todo), item)
      BY <2>3 DEF ReadString
    <3> QED BY <3>1
  <2> QED BY <2>1, <2>2, <2>3
<1> QED BY <1>2, <1>3, <1>4

LEMMA GoodReadDimension == ASSUME TInv, AInv, ReadDimension PROVE AInv'
<1>1. Len(stack) > 0 /\ Made(Top.item) /\ IsEntry(Top.item) /\ Top.item.kind # "table"
  BY NotInTable DEF ReadDimension
<1>2. CASE Fail("error")
  BY <1>2, GoodFail
<1>3. CASE \E x : Take(1, OneLess, [Top.item EXCEPT !.array = x])
  <2>1. PICK x : Take(1, OneLess, [Top.item EXCEPT !.array = x])
    BY <1>3
  <2> DEFINE i == [Top.item EXCEPT !.array = x]
  <2>2. Made(i) /\ IsEntry(i) /\ i.kind = Top.item.kind
    BY <1>1, Edited
  <2>3. Take(1, OneLess, i)
    BY <2>1
  <2> HIDE DEF i
  <2> QED BY <1>1, <2>2, <2>3, GoodTake
<1> QED BY <1>2, <1>3 DEF ReadDimension

(* Steps that leave the item as it is.                                          *)
LEMMA GoodSkip ==
  ASSUME TInv, AInv, CheckSubItems \/ SkipCopyMask \/ ReadCount("methods", "method")
                     \/ ReadCount("attributes", "attribute") \/ ReadCount("enums", "enum")
  PROVE  AInv'
<1>1. Len(stack) > 0 /\ Made(Top.item) /\ IsEntry(Top.item) /\ Top.item.kind # "table"
  BY NotInTable DEF CheckSubItems, SkipCopyMask, ReadCount
<1>2. (\E how \in {"error", "panic"} : Fail(how)) \/ \E n, todo : Take(n, todo, Top.item)
  BY DEF CheckSubItems, SkipCopyMask, ReadCount
<1> QED BY <1>1, <1>2, GoodFail, GoodTake

(* Steps that add what is neither a type nor a field nor a symbol.              *)
LEMMA GoodKid ==
  ASSUME TInv, AInv, ParseGuid \/ ParseAttribute \/ ParseEnumInfo
  PROVE  AInv'
<1>1. Len(stack) > 0 /\ Made(Top.item) /\ IsEntry(Top.item) /\ Top.item.kind # "table"
  BY NotInTable DEF ParseGuid, ParseAttribute, ParseEnumInfo
<1>2. \/ \E how \in {"error", "panic"} : Fail(how)
      \/ \E n, todo : Take(n, todo, Top.item)
      \/ \E n, todo, kid : kid.kind # "field" /\ Take(n, todo, WithKid(kid))
  <2>1. CASE ParseGuid
    <3>1. CASE Left < 1
      BY <2>1, <3>1 DEF ParseGuid
    <3>2. CASE ~(Left < 1) /\ Top.item.kind = "field"
      BY <2>1, <3>2 DEF ParseGuid
    <3>3. CASE ~(Left < 1) /\ Top.item.kind # "field"
      <4> DEFINE kid == [kind |-> "guid", value |-> Item(1)]
      <4>1. kid.kind # "field" /\ Take(1, Tail(Top.todo), WithKid(kid))
        BY <2>1, <3>3 DEF ParseGuid
      <4> QED BY <4>1
    <3> QED BY <3>1, <3>2, <3>3
  <2>2. CASE ParseAttribute
    <3>1. CASE Left < 2 \/ Left < 4 + Item(1) + Item(2)
      BY <2>2, <3>1 DEF ParseAttribute
    <3>2. CASE ~(Left < 2 \/ Left < 4 + Item(1) + Item(2))
      <4> DEFINE at == Top.ptr + 3 + Item(1)
                 kid == [kind |-> "attribute",
                         name |-> SubSeq(data, Top.ptr + 3, Top.ptr + 2 + Item(1)),
                         value |-> SubSeq(data, at + 1, at + Item(2))]
      <4>1. kid.kind # "field" /\ Take(4 + Item(1) + Item(2), OneLess, WithKid(kid))
        BY <2>2, <3>2 DEF ParseAttribute
      <4> QED BY <4>1
    <3> QED BY <3>1, <3>2
  <2>3. CASE ParseEnumInfo
    <3> DEFINE size == Top.item.size
               width == EnumWidth(Top.item.base_type)
               raw == Top.ptr + 2 + Item(1)
               kid == [kind |-> "enum",
                       name |-> SubSeq(data, Top.ptr + 2, Top.ptr + 1 + Item(1)),
                       value |-> SubSeq(data, raw + 1, raw + (IF width = 0 THEN size ELSE width))]
    <3>1. kid.kind # "field"
      OBVIOUS
    <3>2. \/ Fail("error") \/ Fail("panic")
          \/ Take(2 + Item(1) + size, OneLess, WithKid(kid))
      BY <2>3 DEF ParseEnumInfo
    <3> HIDE DEF kid, size
    <3> QED BY <3>1, <3>2
  <2> QED BY <2>1, <2>2, <2>3
<1>3. ASSUME NEW n, NEW todo, NEW kid, kid.kind # "field", Take(n, todo, WithKid(kid))
      PROVE  AInv'
  <2> DEFINE i == [Top.item EXCEPT !.kids = Append(@, kid)]
  <2>1. Made(i) /\ IsEntry(i) /\ i.kind = Top.item.kind
    BY <1>1, <1>3, Held
  <2>2. Take(n, todo, i)
    BY <1>3 DEF WithKid
  <2> HIDE DEF i
  <2> QED BY <1>1, <2>1, <2>2, GoodTake
<1> QED BY <1>1, <1>2, <1>3, GoodFail, GoodTake

LEMMA GoodTable ==
  ASSUME NEW d, NEW entry \in {"type", "symbol"}
  PROVE  \A i \in 1 .. Len(<<TableFrame(d, entry)>>) : GoodFrame(<<TableFrame(d, entry)>>[i])
<1>1. GoodFrame(TableFrame(d, entry))
  BY NewItems DEF GoodFrame, TableFrame, Frame, Tables
<1> QED BY <1>1, Fresh1

LEMMA GoodByName == ASSUME TInv, AInv, GetTypeInfoByName PROVE AInv'
<1>0. upload.way # "bulk"
  BY DEF AInv, Bottom, GetTypeInfoByName
<1>1. CASE \E how \in {"error", "panic"} : Fail(how)
  BY <1>1, GoodFail
<1>2. ASSUME NEW end, stack' = <<Frame("type", 1, end, Goal("header", 1))>>,
             pc' = "types", UNCHANGED <<upload, types, symbols>>
      PROVE  AInv'
  <2> DEFINE f == Frame("type", 1, end, Goal("header", 1))
  <2>1. GoodFrame(f)
    BY NewItems DEF GoodFrame, Frame
  <2>2. stack' = <<f>>
    BY <1>2
  <2> HIDE DEF f
  <2>3. \A i \in 1 .. Len(stack') : GoodFrame(stack'[i])
    BY <2>1, <2>2, Fresh1
  <2>4. Bottom'
    BY <1>0, <1>2 DEF Bottom
  <2> QED BY <1>2, <2>3, <2>4 DEF AInv
<1>3. \/ \E how \in {"error", "panic"} : Fail(how)
      \/ \E end : /\ stack' = <<Frame("type", 1, end, Goal("header", 1))>>
                  /\ pc' = "types" /\ UNCHANGED <<upload, types, symbols>>
  <2> DEFINE n == upload.declared
             answer == [i \in 1 .. n |-> IF i <= Len(upload.types) THEN upload.types[i] ELSE 0]
             end == IF answer[1] < n THEN answer[1] ELSE n
  <2>1. \/ \E how \in {"error", "panic"} : Fail(how)
        \/ /\ stack' = <<Frame("type", 1, end, Goal("header", 1))>>
           /\ pc' = "types" /\ UNCHANGED <<upload, types, symbols>>
    BY DEF GetTypeInfoByName
  <2> HIDE DEF end
  <2> QED BY <2>1
<1> QED BY <1>1, <1>2, <1>3

LEMMA GoodTypesDecoded == ASSUME TInv, AInv, TypesDecoded PROVE AInv'
<1>1. Reading /\ Len(stack) = 1 /\ Len(stack) > 0
  BY DEF TypesDecoded, Reading
<1>2. GoodFrame(Top) /\ Top = stack[1]
  BY <1>1, Tops DEF Top
<1>3. CASE upload.way = "bulk"
  <2>1. AllEntries(Top.item.kids)
    BY <1>1, <1>2, <1>3 DEF AInv, Bottom, GoodFrame
  <2>2. /\ types' = Top.item.kids /\ symbols' = symbols /\ pc' = "symbols" /\ upload' = upload
        /\ stack' = <<TableFrame(data', "symbol")>>
    BY <1>3 DEF TypesDecoded
  <2>3. \A i \in 1 .. Len(stack') : GoodFrame(stack'[i])
    BY <2>2, GoodTable
  <2>4. stack'[1].item.kind = "table"
    BY <2>2 DEF TableFrame, Frame, NewItem
  <2> QED BY <2>1, <2>2, <2>3, <2>4 DEF AInv, Bottom
<1>4. CASE upload.way # "bulk"
  <2>1. types' = <<Top.item>> /\ pc' = "done" /\ UNCHANGED <<upload, stack, symbols>>
    BY <1>4 DEF TypesDecoded
  <2>2. IsEntry(Top.item)
    BY <1>2 DEF GoodFrame
  <2>3. AllEntries(<<Top.item>>)
    <3> DEFINE x == Top.item
    <3> HIDE DEF x
    <3>1. <<x>> \in Seq({x}) /\ Len(<<x>>) = 1 /\ <<x>>[1] = x
      OBVIOUS
    <3>2. \A k \in 1 .. Len(<<x>>) : <<x>>[k] = x
      BY <3>1
    <3>3. IsEntry(x)
      BY <2>2 DEF x
    <3>4. AllEntries(<<x>>)
      BY <3>1, <3>2, <3>3 DEF AllEntries, IsList
    <3> QED BY <3>4 DEF x
  <2> QED BY <2>1, <2>3 DEF AInv, Bottom, Reading
<1> QED BY <1>3, <1>4

LEMMA GoodSymbolsDecoded == ASSUME TInv, AInv, SymbolsDecoded PROVE AInv'
<1>1. Reading /\ pc = "symbols" /\ Len(stack) = 1 /\ Len(stack) > 0
  BY DEF SymbolsDecoded, Reading
<1>2. GoodFrame(Top) /\ Top = stack[1]
  BY <1>1, Tops DEF Top
<1>3. AllEntries(Top.item.kids)
  BY <1>1, <1>2 DEF AInv, Bottom, GoodFrame
<1> QED BY <1>3 DEF SymbolsDecoded, AInv, Bottom, Reading

LEMMA GoodInit == Init => AInv
<1> SUFFICES ASSUME Init PROVE AInv
  OBVIOUS
<1>1. AllEntries(<<>>)
  BY DEF AllEntries, IsList
<1>2. types = <<>> /\ symbols = <<>>
  BY DEF Init
<1>3. CASE upload.way = "bulk"
  <2>1. pc = "types" /\ stack = <<TableFrame(data, "type")>>
    BY <1>3 DEF Init
  <2>2. \A i \in 1 .. Len(stack) : GoodFrame(stack[i])
    BY <2>1, GoodTable
  <2>3. stack[1].item.kind = "table"
    BY <2>1 DEF TableFrame, Frame, NewItem
  <2> QED BY <1>1, <1>2, <2>1, <2>2, <2>3 DEF AInv, Bottom
<1>4. CASE upload.way # "bulk"
  <2>1. pc = "ask" /\ stack = <<>>
    BY <1>4 DEF Init
  <2>2. Len(<<>>) = 0
    OBVIOUS
  <2>3. \A i \in 1 .. Len(stack) : GoodFrame(stack[i])
    BY <2>1, <2>2
  <2> QED BY <1>1, <1>2, <1>4, <2>1, <2>3 DEF AInv, Bottom, Reading
<1> QED BY <1>3, <1>4

LEMMA GoodNext == TInv /\ AInv /\ DecodeStep => AInv'
<1> SUFFICES ASSUME TInv, AInv, DecodeStep PROVE AInv'
  OBVIOUS
<1>1. CASE GetTypeInfoByName
  BY <1>1, GoodByName
<1>2. CASE (\E kind \in Entries : EnterEntry(kind)) \/ LeaveEntry
  BY <1>2, GoodEnterEntry, GoodLeaveEntry
<1>3. CASE TypeHeader \/ SymbolHeader \/ MethodHeader
  BY <1>3, GoodTypeHeader, GoodSymbolHeader, GoodMethodHeader
<1>4. CASE ReadString("name") \/ ReadString("typ") \/ ReadDimension
  BY <1>4, GoodReadString, GoodReadDimension
<1>5. CASE \/ CheckSubItems \/ SkipCopyMask \/ ReadCount("methods", "method")
           \/ ReadCount("attributes", "attribute") \/ ReadCount("enums", "enum")
  BY <1>5, GoodSkip
<1>6. CASE ParseGuid \/ ParseAttribute \/ ParseEnumInfo
  BY <1>6, GoodKid
<1>7. CASE TypesDecoded \/ SymbolsDecoded
  BY <1>7, GoodTypesDecoded, GoodSymbolsDecoded
<1> QED BY <1>1, <1>2, <1>3, <1>4, <1>5, <1>6, <1>7 DEF DecodeStep
--------------------------------------------------------------------------------
(* Paths.                                                                       *)

Up(p, n) == SubSeq(p, 1, n)
Parent(p) == Up(p, Len(p) - 1)

LEMMA LenOf == ASSUME NEW p, IsList(p) PROVE Len(p) \in Nat
<1>1. PICK F : p \in Seq(F)
  BY DEF IsList
<1> QED BY <1>1

LEMMA SamePath ==
  ASSUME NEW p, IsList(p), NEW q, IsList(q), Len(p) = Len(q), \A i \in 1 .. Len(p) : p[i] = q[i]
  PROVE  p = q
<1>1. PICK F, G : p \in Seq(F) /\ q \in Seq(G)
  BY DEF IsList
<1>2. p \in Seq(F \cup G)
  BY <1>1
<1>3. q \in Seq(F \cup G)
  BY <1>1
<1> QED BY <1>2, <1>3, SeqEqual

LEMMA UpIsList ==
  ASSUME NEW p, IsList(p), NEW n \in 0 .. Len(p)
  PROVE  IsList(Up(p, n)) /\ Len(Up(p, n)) = n /\ \A i \in 1 .. n : Up(p, n)[i] = p[i]
<1>1. PICK F : p \in Seq(F)
  BY DEF IsList
<1>2. Len(p) \in Nat /\ n \in Nat /\ n <= Len(p)
  BY <1>1
<1>3. SubSeq(p, 1, n) \in Seq(F) /\ Len(SubSeq(p, 1, n)) = n /\ \A i \in 1 .. n : SubSeq(p, 1, n)[i] = p[i]
  BY <1>1, <1>2
<1> QED BY <1>3 DEF IsList, Up

LEMMA PutName ==
  ASSUME NEW p, IsList(p), NEW x
  PROVE  /\ IsList(Append(p, x)) /\ Len(Append(p, x)) = Len(p) + 1
         /\ Append(p, x)[Len(p) + 1] = x
         /\ \A i \in 1 .. Len(p) : Append(p, x)[i] = p[i]
<1>1. PICK F : p \in Seq(F)
  BY DEF IsList
<1>2. p \in Seq(F \cup {x})
  BY <1>1
<1>3. /\ Append(p, x) \in Seq(F \cup {x}) /\ Len(Append(p, x)) = Len(p) + 1
      /\ Append(p, x)[Len(p) + 1] = x /\ \A i \in 1 .. Len(p) : Append(p, x)[i] = p[i]
  BY <1>2
<1> QED BY <1>3 DEF IsList

LEMMA UpAll == ASSUME NEW p, IsList(p) PROVE Up(p, Len(p)) = p /\ Up(p, 0) = <<>>
<1>1. Len(p) \in Nat
  BY LenOf
<1>2. 0 \in 0 .. Len(p) /\ Len(p) \in 0 .. Len(p)
  BY <1>1
<1>3. Up(p, Len(p)) = p
  BY <1>2, UpIsList, SamePath
<1>4. IsList(Up(p, 0)) /\ Len(Up(p, 0)) = 0
  BY <1>2, UpIsList
<1>5. PICK F : Up(p, 0) \in Seq(F)
  BY <1>4 DEF IsList
<1>6. Up(p, 0) = <<>>
  BY <1>4, <1>5, EmptySeq
<1> QED BY <1>3, <1>6

LEMMA UpUp ==
  ASSUME NEW p, IsList(p), NEW n \in 0 .. Len(p), NEW m \in 0 .. n
  PROVE  m \in 0 .. Len(p) /\ m \in 0 .. Len(Up(p, n)) /\ Up(Up(p, n), m) = Up(p, m)
<1>1. Len(p) \in Nat /\ m \in 0 .. Len(p) /\ n \in Nat /\ m \in Nat /\ m <= n
  BY LenOf
<1>2. IsList(Up(p, n)) /\ Len(Up(p, n)) = n /\ \A i \in 1 .. n : Up(p, n)[i] = p[i]
  BY UpIsList
<1>3. IsList(Up(p, m)) /\ Len(Up(p, m)) = m /\ \A i \in 1 .. m : Up(p, m)[i] = p[i]
  BY <1>1, UpIsList
<1>4. m \in 0 .. Len(Up(p, n))
  BY <1>2
<1>5. /\ IsList(Up(Up(p, n), m)) /\ Len(Up(Up(p, n), m)) = m
      /\ \A i \in 1 .. m : Up(Up(p, n), m)[i] = Up(p, n)[i]
  BY <1>2, <1>4, UpIsList
<1>6. \A i \in 1 .. m : i \in 1 .. n
  BY <1>1
<1>7. \A i \in 1 .. m : Up(Up(p, n), m)[i] = Up(p, m)[i]
  BY <1>2, <1>3, <1>5, <1>6
<1>8. Up(Up(p, n), m) = Up(p, m)
  BY <1>3, <1>5, <1>7, SamePath
<1> QED BY <1>1, <1>4, <1>8

LEMMA UpPut ==
  ASSUME NEW p, IsList(p), NEW x
  PROVE  /\ \A n \in 0 .. Len(p) : n \in 0 .. Len(Append(p, x)) /\ Up(Append(p, x), n) = Up(p, n)
         /\ Parent(Append(p, x)) = p /\ Append(p, x) # <<>>
<1>1. /\ IsList(Append(p, x)) /\ Len(Append(p, x)) = Len(p) + 1
      /\ \A i \in 1 .. Len(p) : Append(p, x)[i] = p[i]
  BY PutName
<1>2. Len(p) \in Nat
  BY LenOf
<1>3. ASSUME NEW n \in 0 .. Len(p)
      PROVE  n \in 0 .. Len(Append(p, x)) /\ Up(Append(p, x), n) = Up(p, n)
  <2>1. n \in 0 .. Len(Append(p, x)) /\ n <= Len(p)
    BY <1>1, <1>2
  <2>2. /\ IsList(Up(Append(p, x), n)) /\ Len(Up(Append(p, x), n)) = n
        /\ \A i \in 1 .. n : Up(Append(p, x), n)[i] = Append(p, x)[i]
    BY <1>1, <2>1, UpIsList
  <2>3. IsList(Up(p, n)) /\ Len(Up(p, n)) = n /\ \A i \in 1 .. n : Up(p, n)[i] = p[i]
    BY UpIsList
  <2>4. \A i \in 1 .. n : i \in 1 .. Len(p)
    BY <1>2, <2>1
  <2>5. \A i \in 1 .. n : Up(Append(p, x), n)[i] = Up(p, n)[i]
    BY <1>1, <2>2, <2>3, <2>4
  <2>6. Up(Append(p, x), n) = Up(p, n)
    BY <2>2, <2>3, <2>5, SamePath
  <2> QED BY <2>1, <2>6
<1>4. Len(Append(p, x)) - 1 = Len(p) /\ Len(p) \in 0 .. Len(p)
  BY <1>1, <1>2
<1>5. Parent(Append(p, x)) = p
  BY <1>3, <1>4, UpAll DEF Parent
<1>6. Len(Append(p, x)) # Len(<<>>)
  <2>1. Len(<<>>) = 0 /\ Len(p) + 1 # 0
    BY <1>2
  <2> QED BY <1>1, <2>1
<1> QED BY <1>3, <1>5, <1>6

LEMMA UpOne ==
  ASSUME NEW p, IsList(p), NEW n \in Nat, n < Len(p)
  PROVE  /\ n \in 0 .. Len(p) /\ n + 1 \in 0 .. Len(p)
         /\ Up(p, n + 1) = Append(Up(p, n), p[n + 1])
<1>1. Len(p) \in Nat
  BY LenOf
<1>2. n \in 0 .. Len(p) /\ n + 1 \in 0 .. Len(p)
  BY <1>1
<1>3. IsList(Up(p, n)) /\ Len(Up(p, n)) = n /\ \A i \in 1 .. n : Up(p, n)[i] = p[i]
  BY <1>2, UpIsList
<1>4. /\ IsList(Up(p, n + 1)) /\ Len(Up(p, n + 1)) = n + 1
      /\ \A i \in 1 .. n + 1 : Up(p, n + 1)[i] = p[i]
  BY <1>2, UpIsList
<1> DEFINE q == Append(Up(p, n), p[n + 1])
<1>5. /\ IsList(q) /\ Len(q) = n + 1 /\ q[n + 1] = p[n + 1] /\ \A i \in 1 .. n : q[i] = Up(p, n)[i]
  BY <1>3, PutName
<1> HIDE DEF q
<1>6. \A i \in 1 .. n + 1 : q[i] = p[i]
  <2> TAKE i \in 1 .. n + 1
  <2>1. CASE i = n + 1
    BY <1>5, <2>1
  <2>2. CASE i # n + 1
    <3>1. i \in 1 .. n
      BY <2>2
    <3> QED BY <1>3, <1>5, <3>1
  <2> QED BY <2>1, <2>2
<1>7. Up(p, n + 1) = q
  BY <1>4, <1>5, <1>6, SamePath
<1> QED BY <1>2, <1>7 DEF q

(* The last name of a path, and the path before it.                             *)
LEMMA LastName ==
  ASSUME NEW p, IsList(p), p # <<>>
  PROVE  /\ Len(p) - 1 \in Nat /\ Len(p) - 1 < Len(p) /\ Len(p) \in 1 .. Len(p)
         /\ Len(p) - 1 \in 0 .. Len(p)
         /\ p = Append(Parent(p), p[Len(p)]) /\ IsList(Parent(p))
<1>1. PICK F : p \in Seq(F)
  BY DEF IsList
<1>2. Len(p) \in Nat /\ Len(p) # 0
  BY <1>1, EmptySeq
<1>3. /\ Len(p) - 1 \in Nat /\ Len(p) - 1 < Len(p) /\ (Len(p) - 1) + 1 = Len(p)
      /\ Len(p) \in 1 .. Len(p) /\ Len(p) - 1 \in 0 .. Len(p)
  BY <1>2
<1>4. Up(p, Len(p)) = Append(Parent(p), p[Len(p)])
  BY <1>3, UpOne DEF Parent
<1>5. IsList(Parent(p))
  BY <1>3, UpIsList DEF Parent
<1> QED BY <1>3, <1>4, <1>5, UpAll

--------------------------------------------------------------------------------
(* A tree that is being built.                                                  *)

Shapes ==
  {"number", "void", "string", "wstring", "unknown", "array", "struct", "missing"}

IsNode(n) ==
  /\ n = [shape |-> n.shape, base |-> n.base, size |-> n.size, kids |-> n.kids,
          offset |-> n.offset, at |-> n.at]
  /\ n.shape \in Shapes /\ n.size \in Nat
  /\ n.offset \in Nat \cup {NoOffset} /\ n.at \in Nat \cup {NoOffset}
  /\ IsList(n.kids) /\ (n.shape # "struct" => n.kids = <<>>)
  /\ n.shape = "number" => n.base \in Numbers

(* A field lies within its struct.                                              *)
Lies(t, p) == t[p].offset + GetSize(t[p]) <= t[Parent(p)].size

(* A node with a place has it after those of the structs around; and if each    *)
(* lies within the next, within the symbol.                                     *)
Rises(t, p) ==
  t[p].at # NoOffset =>
    \A n \in 0 .. Len(p) : t[Up(p, n)].at \in Nat /\ t[Up(p, n)].at <= t[p].at
FitsIn(t, p) ==
  t[p].at # NoOffset /\ (\A n \in 1 .. Len(p) : Lies(t, Up(p, n))) =>
    t[p].at + GetSize(t[p]) <= GetSize(t[<<>>])

Rooted(t, p) == \A n \in 0 .. Len(p) : Up(p, n) \in DOMAIN t
KidsThere(t, p) == \A k \in 1 .. Len(t[p].kids) : Append(p, t[p].kids[k]) \in DOMAIN t
IsKid(t, p) ==
  p # <<>> =>
    /\ \E k \in 1 .. Len(t[Parent(p)].kids) : t[Parent(p)].kids[k] = p[Len(p)]
    /\ t[Parent(p)].shape = "struct"
    /\ t[p].at = Sum(t[Parent(p)].at, t[p].offset)

GrownTree(t) ==
  /\ <<>> \in DOMAIN t /\ t[<<>>].at = 0
  /\ \A p \in DOMAIN t :
       /\ IsList(p) /\ IsNode(t[p]) /\ Rooted(t, p)
       /\ KidsThere(t, p) /\ IsKid(t, p) /\ Rises(t, p) /\ FitsIn(t, p)

LEMMA SizeOf ==
  ASSUME NEW n, IsNode(n)
  PROVE  /\ GetSize(n) \in Nat
         /\ n.shape # "number" => GetSize(n) = n.size
         /\ n.shape = "number" => GetSize(n) = Bytes(n.base) /\ n.base \in Numbers
<1>1. CASE n.shape # "number"
  BY <1>1 DEF IsNode, GetSize
<1>2. CASE n.shape = "number"
  <2>1. n.base \in {2, 3, 4, 5, 16, 17, 18, 19, 20, 21, 32, 33}
    BY <1>2 DEF IsNode, Numbers, Uint
  <2> QED BY <1>2, <2>1 DEF GetSize, Bytes, Uint, Numbers
<1> QED BY <1>1, <1>2

LEMMA UnderToo ==
  ASSUME NEW p, IsList(p), NEW q, IsList(q), NEW n \in 0 .. Len(p), IsUnder(q, Up(p, n))
  PROVE  IsUnder(q, p)
<1>1. Len(p) \in Nat /\ Len(q) \in Nat /\ n \in Nat /\ n <= Len(p) /\ Len(Up(p, n)) = n
  BY LenOf, UpIsList
<1>2. Len(q) < n
  BY <1>1 DEF IsUnder
<1>3. Len(q) \in 0 .. n /\ Len(p) > Len(q)
  BY <1>1, <1>2
<1>4. Up(Up(p, n), Len(q)) = Up(p, Len(q))
  BY <1>3, UpUp
<1> QED BY <1>3, <1>4 DEF IsUnder, Up

LEMMA UnderKid ==
  ASSUME NEW p, IsList(p), NEW q, IsList(q), NEW x, IsUnder(q, Append(p, x))
  PROVE  IsUnder(q, p) \/ p = q
<1>1. Len(p) \in Nat /\ Len(q) \in Nat /\ Len(Append(p, x)) = Len(p) + 1
  BY LenOf, PutName
<1>2. Len(q) \in 0 .. Len(p) /\ Len(q) <= Len(p)
  BY <1>1 DEF IsUnder
<1>3. Up(Append(p, x), Len(q)) = Up(p, Len(q))
  BY <1>2, UpPut
<1>4. Up(p, Len(q)) = q
  BY <1>3 DEF IsUnder, Up
<1>5. CASE Len(q) = Len(p)
  BY <1>4, <1>5, UpAll
<1>6. CASE Len(q) # Len(p)
  <2>1. Len(p) > Len(q)
    BY <1>1, <1>2, <1>6
  <2> QED BY <1>4, <2>1 DEF IsUnder, Up
<1> QED BY <1>5, <1>6

(* What InsertField leaves as it was.                                           *)
Same(n, m) ==
  n.shape = m.shape /\ n.base = m.base /\ n.size = m.size /\ n.offset = m.offset /\ n.at = m.at

LEMMA SameSize == ASSUME NEW n, NEW m, Same(n, m) PROVE GetSize(n) = GetSize(m)
  BY DEF Same, GetSize

LEMMA Planted ==
  ASSUME NEW t, GrownTree(t), NEW c \in DOMAIN t, t[c].shape = "struct", NEW x, NEW node, IsNode(node)
  PROVE  LET q == Append(c, x) u == InsertField(t, c, x, node) IN
         /\ q \in DOMAIN u /\ u[q] = node /\ IsList(q) /\ Len(q) = Len(c) + 1
         /\ \A p \in DOMAIN u : p # q =>
              /\ p \in DOMAIN t /\ ~IsUnder(q, p) /\ Same(u[p], t[p]) /\ IsNode(u[p])
              /\ u[p].kids = t[p].kids
                   \/ (p = c /\ q \notin DOMAIN t /\ u[p].kids = Append(t[p].kids, x))
         /\ \A p \in DOMAIN t : Len(p) <= Len(c) => p \in DOMAIN u /\ p # q
         /\ \A p \in DOMAIN t : ~IsUnder(q, p) => p \in DOMAIN u
         /\ q \notin DOMAIN t => u[c].kids = Append(t[c].kids, x)
<1> DEFINE q == Append(c, x)
           u == InsertField(t, c, x, node)
<1>1. IsList(c) /\ Len(c) \in Nat /\ IsNode(t[c])
  BY LenOf DEF GrownTree
<1>2. IsList(q) /\ Len(q) = Len(c) + 1
  BY <1>1, PutName
<1>3. Len(q) > Len(c) /\ q # c
  BY <1>1, <1>2
<1>4. DOMAIN u = {p \in DOMAIN t : ~IsUnder(q, p)} \cup {q}
  BY DEF InsertField
<1>5. u[q] = node
  BY <1>3, <1>4 DEF InsertField
<1>6. \A p \in DOMAIN t : Len(p) <= Len(c) => p \in DOMAIN u /\ p # q
  <2> SUFFICES ASSUME NEW p \in DOMAIN t, Len(p) <= Len(c) PROVE p \in DOMAIN u /\ p # q
    OBVIOUS
  <2>1. Len(p) \in Nat
    BY LenOf DEF GrownTree
  <2>2. ~(Len(p) > Len(q)) /\ Len(p) # Len(q)
    BY <1>1, <1>2, <2>1
  <2> QED BY <1>4, <2>2 DEF IsUnder
<1>7. c \in DOMAIN u
  BY <1>1, <1>6
<1>8. u[c] = [t[c] EXCEPT !.kids = IF q \in DOMAIN t THEN @ ELSE Append(@, x)]
  BY <1>3, <1>4, <1>7 DEF InsertField
<1>9. \A p \in DOMAIN u : p # q /\ p # c => u[p] = t[p] /\ p \in DOMAIN t
  BY <1>4 DEF InsertField
<1> HIDE DEF u, q
<1>10. /\ Same(u[c], t[c]) /\ IsNode(u[c])
       /\ \/ u[c].kids = t[c].kids /\ q \in DOMAIN t
          \/ q \notin DOMAIN t /\ u[c].kids = Append(t[c].kids, x)
  <2>1. PICK sh, ba, si, ki, of, at : t[c] = [shape |-> sh, base |-> ba, size |-> si, kids |-> ki,
                                          offset |-> of, at |-> at]
    BY <1>1 DEF IsNode
  <2> DEFINE kk == IF q \in DOMAIN t THEN ki ELSE Append(ki, x)
  <2>2. u[c] = [shape |-> sh, base |-> ba, size |-> si, kids |-> kk, offset |-> of, at |-> at]
    BY <1>8, <2>1
  <2>3. IsList(kk)
    BY <1>1, <2>1, PutName DEF IsNode
  <2> HIDE DEF kk
  <2>4. IsNode(u[c])
    BY <1>1, <2>1, <2>2, <2>3 DEF IsNode
  <2>5. Same(u[c], t[c])
    BY <2>1, <2>2 DEF Same
  <2>6. u[c].kids = kk /\ t[c].kids = ki
    BY <2>1, <2>2
  <2> QED BY <2>4, <2>5, <2>6 DEF kk
<1>11. \A p \in DOMAIN u : p # q =>
              /\ p \in DOMAIN t /\ ~IsUnder(q, p) /\ Same(u[p], t[p]) /\ IsNode(u[p])
              /\ u[p].kids = t[p].kids
                   \/ (p = c /\ q \notin DOMAIN t /\ u[p].kids = Append(t[p].kids, x))
  <2> SUFFICES ASSUME NEW p \in DOMAIN u, p # q
               PROVE  /\ p \in DOMAIN t /\ ~IsUnder(q, p) /\ Same(u[p], t[p]) /\ IsNode(u[p])
                      /\ u[p].kids = t[p].kids
                           \/ (p = c /\ q \notin DOMAIN t /\ u[p].kids = Append(t[p].kids, x))
    OBVIOUS
  <2>1. p \in DOMAIN t /\ ~IsUnder(q, p)
    BY <1>4
  <2>2. CASE p = c
    BY <1>10, <2>1, <2>2
  <2>3. CASE p # c
    BY <1>9, <2>1, <2>3 DEF GrownTree, Same
  <2> QED BY <2>2, <2>3
<1>12. q \notin DOMAIN t => u[c].kids = Append(t[c].kids, x)
  BY <1>10
<1>13. q \in DOMAIN u /\ \A p \in DOMAIN t : ~IsUnder(q, p) => p \in DOMAIN u
  BY <1>4
<1> QED BY <1>2, <1>5, <1>6, <1>11, <1>12, <1>13 DEF q, u

(* A leaf planted, or put in the place of another and all there was under it.   *)
LEMMA StillGrown ==
  ASSUME NEW t, GrownTree(t), NEW c \in DOMAIN t, t[c].shape = "struct", NEW x, NEW node, IsNode(node),
         node.kids = <<>>, node.at = Sum(t[c].at, node.offset)
  PROVE  GrownTree(InsertField(t, c, x, node))
<1> DEFINE q == Append(c, x)
           u == InsertField(t, c, x, node)
<1> HIDE DEF q, u
<1>1. /\ q \in DOMAIN u /\ u[q] = node /\ IsList(q) /\ Len(q) = Len(c) + 1
      /\ \A p \in DOMAIN u : p # q =>
              /\ p \in DOMAIN t /\ ~IsUnder(q, p) /\ Same(u[p], t[p]) /\ IsNode(u[p])
              /\ u[p].kids = t[p].kids
                   \/ (p = c /\ q \notin DOMAIN t /\ u[p].kids = Append(t[p].kids, x))
      /\ \A p \in DOMAIN t : Len(p) <= Len(c) => p \in DOMAIN u /\ p # q
      /\ \A p \in DOMAIN t : ~IsUnder(q, p) => p \in DOMAIN u
      /\ q \notin DOMAIN t => u[c].kids = Append(t[c].kids, x)
  BY Planted DEF q, u
<1>2. /\ \A p \in DOMAIN t : IsList(p) /\ Len(p) \in Nat /\ IsNode(t[p])
      /\ <<>> \in DOMAIN t /\ t[<<>>].at = 0
  BY LenOf DEF GrownTree
<1>3. /\ c \in DOMAIN u /\ c # q /\ Parent(q) = c /\ q # <<>> /\ Same(u[c], t[c])
      /\ \A n \in 0 .. Len(c) : n \in 0 .. Len(q) /\ Up(q, n) = Up(c, n)
  <2>1. c \in DOMAIN u /\ c # q
    BY <1>1, <1>2
  <2>2. /\ Parent(q) = c /\ q # <<>>
        /\ \A n \in 0 .. Len(c) : n \in 0 .. Len(q) /\ Up(q, n) = Up(c, n)
    BY <1>2, UpPut DEF q
  <2> QED BY <1>1, <2>1, <2>2
<1>4. ASSUME NEW p \in DOMAIN u, p # q, NEW n \in 0 .. Len(p)
      PROVE  Up(p, n) \in DOMAIN u /\ Up(p, n) # q /\ Same(u[Up(p, n)], t[Up(p, n)])
  <2>1. p \in DOMAIN t /\ ~IsUnder(q, p) /\ IsList(p) /\ Len(p) \in Nat
    BY <1>1, <1>2, <1>4
  <2>2. Up(p, n) \in DOMAIN t
    BY <2>1 DEF GrownTree, Rooted
  <2>3. ~IsUnder(q, Up(p, n))
    BY <1>1, <2>1, UnderToo
  <2>4. Up(p, n) \in DOMAIN u
    BY <1>1, <2>2, <2>3
  <2>5. Up(p, n) # q
    <3> SUFFICES ASSUME Up(p, n) = q PROVE FALSE
      OBVIOUS
    <3>1. Len(q) = n /\ SubSeq(p, 1, Len(q)) = q
      BY <2>1, UpIsList DEF Up
    <3>2. CASE n = Len(p)
      BY <1>4, <2>1, <3>2, UpAll
    <3>3. CASE n # Len(p)
      <4>1. Len(p) > Len(q)
        BY <2>1, <3>1, <3>3
      <4> QED BY <2>1, <3>1, <4>1 DEF IsUnder
    <3> QED BY <3>2, <3>3
  <2> QED BY <1>1, <2>4, <2>5
<1>5. <<>> \in DOMAIN u /\ <<>> # q /\ Same(u[<<>>], t[<<>>])
  <2>1. Up(c, 0) = <<>> /\ 0 \in 0 .. Len(c)
    BY <1>2, UpAll
  <2> QED BY <1>3, <1>4, <2>1
<1>6. ASSUME NEW p \in DOMAIN u, p # q, NEW n \in 1 .. Len(p), Lies(u, Up(p, n)) PROVE Lies(t, Up(p, n))
  <2>1. p \in DOMAIN t /\ IsList(p) /\ Len(p) \in Nat
    BY <1>1, <1>2, <1>6
  <2>2. n \in 0 .. Len(p) /\ n - 1 \in 0 .. Len(p) /\ n - 1 \in 0 .. n
    BY <2>1
  <2>3. Len(Up(p, n)) = n
    BY <2>1, <2>2, UpIsList
  <2>4. Parent(Up(p, n)) = Up(p, n - 1)
    BY <2>1, <2>2, <2>3, UpUp DEF Parent
  <2>5. Same(u[Up(p, n)], t[Up(p, n)]) /\ Same(u[Up(p, n - 1)], t[Up(p, n - 1)])
    BY <1>4, <1>6, <2>2
  <2>6. GetSize(u[Up(p, n)]) = GetSize(t[Up(p, n)])
    BY <2>5, SameSize
  <2> QED BY <1>6, <2>4, <2>5, <2>6 DEF Lies, Same
<1>7. ASSUME NEW p \in DOMAIN u, p # q
      PROVE  /\ IsList(p) /\ IsNode(u[p]) /\ Rooted(u, p)
             /\ KidsThere(u, p) /\ IsKid(u, p) /\ Rises(u, p) /\ FitsIn(u, p)
  <2>1. /\ p \in DOMAIN t /\ ~IsUnder(q, p) /\ Same(u[p], t[p]) /\ IsNode(u[p])
        /\ IsList(p) /\ Len(p) \in Nat /\ IsNode(t[p])
        /\ u[p].kids = t[p].kids
             \/ (p = c /\ q \notin DOMAIN t /\ u[p].kids = Append(t[p].kids, x))
    BY <1>1, <1>2, <1>7
  <2>2. Rooted(t, p) /\ KidsThere(t, p) /\ IsKid(t, p) /\ Rises(t, p) /\ FitsIn(t, p)
    BY <2>1 DEF GrownTree
  <2>3. Rooted(u, p)
    BY <1>4, <1>7 DEF Rooted
  <2>4. KidsThere(u, p)
    <3>1. ASSUME NEW k \in 1 .. Len(t[p].kids) PROVE Append(p, t[p].kids[k]) \in DOMAIN u
      <4>1. Append(p, t[p].kids[k]) \in DOMAIN t
        BY <2>2 DEF KidsThere
      <4>2. ~IsUnder(q, Append(p, t[p].kids[k]))
        BY <1>1, <1>7, <2>1, UnderKid
      <4> QED BY <1>1, <4>1, <4>2
    <3>2. CASE u[p].kids = t[p].kids
      BY <3>1, <3>2 DEF KidsThere
    <3>3. CASE p = c /\ u[p].kids = Append(t[p].kids, x)
      <4>1. IsList(t[p].kids) /\ Len(t[p].kids) \in Nat
        BY <2>1, LenOf DEF IsNode
      <4>2. /\ Len(u[p].kids) = Len(t[p].kids) + 1 /\ u[p].kids[Len(t[p].kids) + 1] = x
            /\ \A k \in 1 .. Len(t[p].kids) : u[p].kids[k] = t[p].kids[k]
        BY <3>3, <4>1, PutName
      <4>3. ASSUME NEW k \in 1 .. Len(u[p].kids) PROVE Append(p, u[p].kids[k]) \in DOMAIN u
        <5>1. CASE k = Len(t[p].kids) + 1
          BY <1>1, <3>3, <4>2, <5>1 DEF q
        <5>2. CASE k # Len(t[p].kids) + 1
          <6>1. k \in 1 .. Len(t[p].kids)
            BY <4>1, <4>2, <5>2
          <6> QED BY <3>1, <4>2, <6>1
        <5> QED BY <5>1, <5>2
      <4> QED BY <4>3 DEF KidsThere
    <3> QED BY <2>1, <3>2, <3>3
  <2>5. IsKid(u, p)
    <3> SUFFICES ASSUME p # <<>>
                 PROVE  /\ \E k \in 1 .. Len(u[Parent(p)].kids) : u[Parent(p)].kids[k] = p[Len(p)]
                        /\ u[Parent(p)].shape = "struct"
                        /\ u[p].at = Sum(u[Parent(p)].at, u[p].offset)
      BY DEF IsKid
    <3> DEFINE d == Parent(p)
    <3>1. d \in DOMAIN u /\ d # q /\ Same(u[d], t[d])
      BY <1>4, <1>7, <2>1, LastName DEF Parent
    <3>2. /\ d \in DOMAIN t /\ IsNode(t[d])
          /\ u[d].kids = t[d].kids \/ u[d].kids = Append(t[d].kids, x)
      BY <1>1, <1>2, <3>1
    <3>3. /\ t[d].shape = "struct" /\ t[p].at = Sum(t[d].at, t[p].offset)
          /\ \E k \in 1 .. Len(t[d].kids) : t[d].kids[k] = p[Len(p)]
      BY <2>2 DEF IsKid
    <3>4. u[d].shape = "struct" /\ u[p].at = Sum(u[d].at, u[p].offset)
      BY <2>1, <3>1, <3>3 DEF Same
    <3> HIDE DEF d
    <3>5. PICK k \in 1 .. Len(t[d].kids) : t[d].kids[k] = p[Len(p)]
      BY <3>3
    <3>6. CASE u[d].kids = t[d].kids
      BY <3>4, <3>5, <3>6 DEF d
    <3>7. CASE u[d].kids = Append(t[d].kids, x)
      <4>1. IsList(t[d].kids) /\ Len(t[d].kids) \in Nat
        BY <3>2, LenOf DEF IsNode
      <4>2. /\ Len(u[d].kids) = Len(t[d].kids) + 1
            /\ \A i \in 1 .. Len(t[d].kids) : u[d].kids[i] = t[d].kids[i]
        BY <3>7, <4>1, PutName
      <4>3. k \in 1 .. Len(u[d].kids) /\ u[d].kids[k] = p[Len(p)]
        BY <3>5, <4>1, <4>2
      <4> QED BY <3>4, <4>3 DEF d
    <3> QED BY <3>2, <3>6, <3>7
  <2>6. Rises(u, p)
    <3> SUFFICES ASSUME u[p].at # NoOffset, NEW n \in 0 .. Len(p)
                 PROVE  u[Up(p, n)].at \in Nat /\ u[Up(p, n)].at <= u[p].at
      BY DEF Rises
    <3>1. Same(u[Up(p, n)], t[Up(p, n)])
      BY <1>4, <1>7
    <3> QED BY <2>1, <2>2, <3>1 DEF Rises, Same
  <2>7. FitsIn(u, p)
    <3> SUFFICES ASSUME u[p].at # NoOffset, \A n \in 1 .. Len(p) : Lies(u, Up(p, n))
                 PROVE  u[p].at + GetSize(u[p]) <= GetSize(u[<<>>])
      BY DEF FitsIn
    <3>1. \A n \in 1 .. Len(p) : Lies(t, Up(p, n))
      BY <1>6, <1>7
    <3>2. t[p].at + GetSize(t[p]) <= GetSize(t[<<>>]) /\ t[p].at = u[p].at
      BY <2>1, <2>2, <3>1 DEF FitsIn, Same
    <3>3. GetSize(u[p]) = GetSize(t[p]) /\ GetSize(u[<<>>]) = GetSize(t[<<>>])
      BY <1>5, <2>1, SameSize
    <3> QED BY <3>2, <3>3
  <2> QED BY <2>1, <2>3, <2>4, <2>5, <2>6, <2>7
<1>8. /\ IsList(q) /\ IsNode(u[q]) /\ Rooted(u, q)
      /\ KidsThere(u, q) /\ IsKid(u, q) /\ Rises(u, q) /\ FitsIn(u, q)
  <2>1. IsList(c) /\ Len(c) \in Nat /\ IsNode(t[c]) /\ IsNode(u[c]) /\ Len(q) \in Nat /\ Up(q, Len(q)) = q
    BY <1>1, <1>2, <1>3, UpAll, LenOf
  <2>2. \A n \in 0 .. Len(q) : n = Len(q) \/ n \in 0 .. Len(c)
    BY <1>1, <2>1
  <2>3. \A n \in 0 .. Len(c) : Up(q, n) \in DOMAIN u /\ Same(u[Up(q, n)], t[Up(c, n)])
    BY <1>3, <1>4
  <2>4. Rooted(u, q)
    BY <1>1, <2>1, <2>2, <2>3 DEF Rooted
  <2>5. KidsThere(u, q)
    <3>1. Len(u[q].kids) = 0
      BY <1>1
    <3> QED BY <3>1 DEF KidsThere
  <2>6. q[Len(q)] = x
    BY <1>1, <2>1, PutName DEF q
  <2>7. \E k \in 1 .. Len(u[c].kids) : u[c].kids[k] = x
    <3>1. CASE q \in DOMAIN t
      <4>1. u[c].kids = t[c].kids
        BY <1>1, <1>3, <3>1
      <4>2. IsKid(t, q)
        BY <3>1 DEF GrownTree
      <4> QED BY <1>3, <2>6, <4>1, <4>2 DEF IsKid
    <3>2. CASE q \notin DOMAIN t
      <4>1. IsList(t[c].kids) /\ Len(t[c].kids) \in Nat
        BY <2>1, LenOf DEF IsNode
      <4>2. u[c].kids = Append(t[c].kids, x)
        BY <1>1, <3>2
      <4>3. Len(u[c].kids) = Len(t[c].kids) + 1 /\ u[c].kids[Len(t[c].kids) + 1] = x
        BY <4>1, <4>2, PutName
      <4> QED BY <4>1, <4>3
    <3> QED BY <3>1, <3>2
  <2>8. u[q].at = Sum(u[c].at, u[q].offset) /\ u[c].shape = "struct"
    BY <1>1, <1>3 DEF Same
  <2>9. IsKid(u, q)
    BY <1>3, <2>6, <2>7, <2>8 DEF IsKid
  <2>10. Rises(t, c) /\ FitsIn(t, c)
    BY DEF GrownTree
  <2>11. ASSUME u[q].at # NoOffset
         PROVE  /\ t[c].at \in Nat /\ u[q].offset \in Nat /\ u[q].at = t[c].at + u[q].offset
                /\ u[q].at \in Nat /\ t[c].at <= u[q].at /\ t[c].at # NoOffset
    <3>1. u[q].at = Sum(t[c].at, u[q].offset)
      BY <1>1
    <3>2. t[c].at \in Nat \cup {NoOffset} /\ u[q].offset \in Nat \cup {NoOffset} /\ u[q].at \in Nat \cup {NoOffset}
      BY <1>1, <2>1 DEF IsNode
    <3>3. t[c].at # NoOffset /\ u[q].offset # NoOffset /\ u[q].at = t[c].at + u[q].offset
      BY <2>11, <3>1 DEF Sum
    <3> QED BY <2>11, <3>2, <3>3
  <2>12. Rises(u, q)
    <3> SUFFICES ASSUME u[q].at # NoOffset, NEW n \in 0 .. Len(q)
                 PROVE  u[Up(q, n)].at \in Nat /\ u[Up(q, n)].at <= u[q].at
      BY DEF Rises
    <3>1. CASE n = Len(q)
      BY <2>1, <2>11, <3>1
    <3>2. CASE n \in 0 .. Len(c)
      <4>1. t[Up(c, n)].at \in Nat /\ t[Up(c, n)].at <= t[c].at
        BY <2>10, <2>11, <3>2 DEF Rises
      <4>2. u[Up(q, n)].at = t[Up(c, n)].at
        BY <2>3, <3>2 DEF Same
      <4> QED BY <2>11, <4>1, <4>2
    <3> QED BY <2>2, <3>1, <3>2
  <2>13. FitsIn(u, q)
    <3> SUFFICES ASSUME u[q].at # NoOffset, \A n \in 1 .. Len(q) : Lies(u, Up(q, n))
                 PROVE  u[q].at + GetSize(u[q]) <= GetSize(u[<<>>])
      BY DEF FitsIn
    <3>1. \A n \in 1 .. Len(c) : n \in 0 .. Len(c) /\ n \in 1 .. Len(q)
      BY <1>1, <2>1
    <3>2. \A n \in 1 .. Len(c) : Lies(u, Up(c, n))
      BY <1>3, <3>1
    <3>3. \A n \in 1 .. Len(c) : Lies(t, Up(c, n))
      BY <1>3, <1>6, <3>2
    <3>4. t[c].at + GetSize(t[c]) <= GetSize(t[<<>>])
      BY <2>10, <2>11, <3>3 DEF FitsIn
    <3>5. Len(q) \in 1 .. Len(q)
      BY <1>1, <2>1
    <3>6. u[q].offset + GetSize(u[q]) <= u[c].size
      BY <1>3, <2>1, <3>5 DEF Lies
    <3>7. u[c].size = t[c].size /\ GetSize(t[c]) = t[c].size /\ t[c].size \in Nat
      BY <1>3, <2>1, SizeOf DEF Same, IsNode
    <3>8. GetSize(u[<<>>]) = GetSize(t[<<>>]) /\ GetSize(t[<<>>]) \in Nat /\ GetSize(u[q]) \in Nat
      BY <1>1, <1>2, <1>5, SameSize, SizeOf
    <3> QED BY <2>11, <3>4, <3>6, <3>7, <3>8
  <2> QED BY <1>1, <2>4, <2>5, <2>9, <2>12, <2>13
<1>9. GrownTree(u)
  BY <1>2, <1>5, <1>7, <1>8 DEF GrownTree, Same
<1> QED BY <1>9 DEF u
--------------------------------------------------------------------------------
(* The calls that are still to come.                                            *)

LEMMA TailOf ==
  ASSUME NEW w, IsList(w), w # <<>>
  PROVE  /\ IsList(Tail(w)) /\ Len(w) \in Nat /\ Len(Tail(w)) = Len(w) - 1
         /\ 1 \in 1 .. Len(w) /\ Head(w) = w[1]
         /\ \A i \in 1 .. Len(Tail(w)) : i + 1 \in 1 .. Len(w) /\ Tail(w)[i] = w[i + 1]
<1>1. PICK F : w \in Seq(F)
  BY DEF IsList
<1>2. Len(w) \in Nat /\ Len(w) # 0
  BY <1>1, EmptySeq
<1>3. Tail(w) \in Seq(F) /\ Len(Tail(w)) = Len(w) - 1 /\ \A i \in 1 .. Len(Tail(w)) : Tail(w)[i] = w[i + 1]
  BY <1>1, HeadTailProperties
<1>4. Head(w) = w[1]
  BY <1>1, <1>2
<1>5. \A i \in 1 .. Len(Tail(w)) : i + 1 \in 1 .. Len(w)
  BY <1>2, <1>3
<1> QED BY <1>2, <1>3, <1>4, <1>5 DEF IsList

LEMMA InFront ==
  ASSUME NEW a, IsList(a), NEW b, IsList(b)
  PROVE  /\ IsList(a \o b) /\ Len(a \o b) = Len(a) + Len(b) /\ Len(a) \in Nat /\ Len(b) \in Nat
         /\ \A i \in 1 .. Len(a) : i \in 1 .. Len(a \o b) /\ (a \o b)[i] = a[i]
         /\ \A i \in 1 .. Len(b) : Len(a) + i \in 1 .. Len(a \o b) /\ (a \o b)[Len(a) + i] = b[i]
         /\ \A i \in 1 .. Len(a \o b) :
              i \in 1 .. Len(a) \/ (i - Len(a) \in 1 .. Len(b) /\ (a \o b)[i] = b[i - Len(a)])
<1>1. PICK F, G : a \in Seq(F) /\ b \in Seq(G)
  BY DEF IsList
<1>2. a \in Seq(F \cup G) /\ Len(a) \in Nat
  BY <1>1
<1>3. b \in Seq(F \cup G) /\ Len(b) \in Nat
  BY <1>1
<1> DEFINE c == a \o b
<1>4. /\ c \in Seq(F \cup G) /\ Len(c) = Len(a) + Len(b)
      /\ \A i \in 1 .. Len(a) + Len(b) : c[i] = IF i <= Len(a) THEN a[i] ELSE b[i - Len(a)]
  BY <1>2, <1>3, ConcatProperties
<1> HIDE DEF c
<1>5. \A i \in 1 .. Len(a) : i \in 1 .. Len(c) /\ c[i] = a[i]
  BY <1>2, <1>3, <1>4
<1>6. \A i \in 1 .. Len(b) : Len(a) + i \in 1 .. Len(c) /\ c[Len(a) + i] = b[i]
  <2> TAKE i \in 1 .. Len(b)
  <2>1. Len(a) + i \in 1 .. Len(a) + Len(b) /\ ~(Len(a) + i <= Len(a)) /\ (Len(a) + i) - Len(a) = i
    BY <1>2, <1>3
  <2> QED BY <1>4, <2>1
<1>7. \A i \in 1 .. Len(c) : i \in 1 .. Len(a) \/ (i - Len(a) \in 1 .. Len(b) /\ c[i] = b[i - Len(a)])
  <2> TAKE i \in 1 .. Len(c)
  <2>1. CASE i <= Len(a)
    BY <1>2, <1>4, <2>1
  <2>2. CASE ~(i <= Len(a))
    <3>1. i - Len(a) \in 1 .. Len(b) /\ i \in 1 .. Len(a) + Len(b)
      BY <1>2, <1>3, <1>4, <2>2
    <3> QED BY <1>4, <2>2, <3>1
  <2> QED BY <2>1, <2>2
<1> QED BY <1>2, <1>3, <1>4, <1>5, <1>6, <1>7 DEF c, IsList

LEMMA DomainOf == ASSUME NEW s, IsList(s) PROVE DOMAIN s = 1 .. Len(s) /\ Len(s) \in Nat
<1>1. PICK F : s \in Seq(F)
  BY DEF IsList
<1> QED BY <1>1

LEMMA ListOver ==
  ASSUME NEW s, IsList(s), NEW f, f = [k \in DOMAIN s |-> f[k]]
  PROVE  IsList(f) /\ Len(f) = Len(s) /\ Len(s) \in Nat /\ DOMAIN s = 1 .. Len(s)
<1>1. DOMAIN s = 1 .. Len(s) /\ Len(s) \in Nat
  BY DomainOf
<1> DEFINE n == Len(s)
           F == {f[k] : k \in 1 .. n}
<1>2. n \in Nat /\ f \in [1 .. n -> F]
  BY <1>1
<1> HIDE DEF n, F
<1>3. f \in Seq(F) /\ Len(f) = n
  BY <1>2
<1> QED BY <1>1, <1>3 DEF IsList, n

LEMMA OneItem ==
  ASSUME NEW x
  PROVE  IsList(<<x>>) /\ Len(<<x>>) = 1 /\ 1 \in 1 .. Len(<<x>>) /\ \A i \in 1 .. Len(<<x>>) : <<x>>[i] = x
<1> DEFINE w == <<x>>
<1>1. w \in Seq({x}) /\ Len(w) = 1 /\ w[1] = x
  OBVIOUS
<1> HIDE DEF w
<1>2. 1 \in 1 .. Len(w) /\ \A i \in 1 .. Len(w) : i = 1
  BY <1>1
<1>3. IsList(w)
  BY <1>1 DEF IsList
<1>4. \A i \in 1 .. Len(w) : w[i] = x
  BY <1>1, <1>2
<1> QED BY <1>1, <1>2, <1>3, <1>4 DEF w

LEMMA NoItems == IsList(<<>>) /\ Len(<<>>) = 0 /\ DOMAIN <<>> = {}
  BY DEF IsList

--------------------------------------------------------------------------------
(* The tree is built.                                                           *)

(* The calls are those of the struct at the bottom and of the ones around it.   *)
TypeCalls(w, t) ==
  /\ \A i \in 1 .. Len(w) :
       /\ w[i].path \in DOMAIN t /\ t[w[i].path].shape = "struct"
       /\ w[i].item.kind = "field" => Measured(w[i].item)
  /\ \A i, j \in 1 .. Len(w) : i < j => Len(w[j].path) <= Len(w[i].path)

TreeWalk ==
  \/ First /\ Len(walk) = 1 /\ Measured(Call.item)
  \/ GrownTree(tree) /\ TypeCalls(walk, tree)

(* A shape that is put for a call.                                              *)
GrownLeaf(shape, call) ==
  shape \in Shapes /\ (shape = "number" => call.item.base_type \in Numbers)

LEMMA SeedGrown ==
  ASSUME NEW node, IsNode(node), node.kids = <<>>, node.at = 0
  PROVE  /\ GrownTree(Only(<<>>, node)) /\ <<>> \in DOMAIN Only(<<>>, node)
         /\ Only(<<>>, node)[<<>>] = node
<1> DEFINE t == Only(<<>>, node)
<1>1. DOMAIN t = {<<>>} /\ t[<<>>] = node
  BY DEF Only
<1> HIDE DEF t
<1> DEFINE r == <<>>
<1>2. IsList(r) /\ Len(r) = 0 /\ Up(r, 0) = r
  BY NoItems, UpAll
<1> HIDE DEF r
<1>3. IsNode(t[r]) /\ GetSize(node) \in Nat /\ node.at \in Nat /\ node.at + GetSize(node) = GetSize(node)
  BY <1>1, SizeOf DEF r
<1>4. \A n \in 0 .. Len(r) : n = 0
  BY <1>2
<1>5. Rooted(t, r)
  BY <1>1, <1>2, <1>4 DEF Rooted, r
<1>6. KidsThere(t, r)
  BY <1>1, NoItems DEF KidsThere, r
<1>7. IsKid(t, r)
  BY DEF IsKid, r
<1>8. Rises(t, r)
  <2>1. t[Up(r, 0)].at = 0 /\ t[r].at = 0
    BY <1>1, <1>2 DEF r
  <2> QED BY <1>4, <2>1 DEF Rises
<1>9. FitsIn(t, r)
  BY <1>1, <1>3 DEF FitsIn, r
<1>10. GrownTree(t)
  BY <1>1, <1>2, <1>3, <1>5, <1>6, <1>7, <1>8, <1>9 DEF GrownTree, r
<1> QED BY <1>1, <1>10 DEF t

LEMMA SumIsPlace ==
  ASSUME NEW a \in Nat \cup {NoOffset}, NEW b \in Nat \cup {NoOffset}
  PROVE  Sum(a, b) \in Nat \cup {NoOffset}
  BY DEF Sum

(* What Put leaves of the tree, and of the calls.                               *)
LEMMA PutGrown ==
  ASSUME IsList(walk), walk # <<>>, TreeWalk, First \/ Call.item.kind = "field",
         NEW shape, GrownLeaf(shape, Call), NEW size \in Nat, Put(Call, shape, size)
  PROVE  /\ GrownTree(tree') /\ TypeCalls(Tail(walk), tree')
         /\ PathOf(Call) \in DOMAIN tree' /\ tree'[PathOf(Call)].shape = shape
         /\ \A i \in 1 .. Len(Tail(walk)) : Len(Tail(walk)[i].path) <= Len(PathOf(Call))
<1>1. /\ IsList(Tail(walk)) /\ Len(walk) \in Nat /\ Len(Tail(walk)) = Len(walk) - 1
      /\ 1 \in 1 .. Len(walk) /\ Call = walk[1]
      /\ \A i \in 1 .. Len(Tail(walk)) : i + 1 \in 1 .. Len(walk) /\ Tail(walk)[i] = walk[i + 1]
  BY TailOf DEF Call
<1>2. shape \in Shapes /\ (shape = "number" => Call.item.base_type \in Numbers)
  BY DEF GrownLeaf
<1>3. CASE First
  <2>1. Len(walk) = 1
    BY <1>3 DEF TreeWalk, First, GrownTree
  <2>2. Len(Tail(walk)) = 0
    BY <1>1, <2>1
  <2>3. PathOf(Call) = <<>> /\ tree' = Only(<<>>, Node(shape, Call.item.base_type, size, 0, 0))
    BY <1>3 DEF Put, PathOf
  <2> DEFINE n == Node(shape, Call.item.base_type, size, 0, 0)
  <2>4. IsNode(n) /\ n.kids = <<>> /\ n.at = 0 /\ n.shape = shape
    <3>1. 0 \in Nat \cup {NoOffset}
      OBVIOUS
    <3> QED BY <1>2, <3>1, NoItems DEF Node, IsNode
  <2> HIDE DEF n
  <2>5. GrownTree(tree') /\ <<>> \in DOMAIN tree' /\ tree'[<<>>] = n
    BY <2>3, <2>4, SeedGrown DEF n
  <2>6. \A i \in 1 .. Len(Tail(walk)) : FALSE
    <3>1. \A k : k = 0 => \A i \in 1 .. k : FALSE
      OBVIOUS
    <3> QED BY <2>2, <3>1
  <2>7. TypeCalls(Tail(walk), tree')
    BY <2>6 DEF TypeCalls
  <2> QED BY <2>3, <2>4, <2>5, <2>6, <2>7
<1>4. CASE ~First
  <2> DEFINE c == Call.path
             q == Append(c, Call.item.name)
             n == Node(shape, Call.item.base_type, size, Call.item.offset,
                       Sum(tree[c].at, Call.item.offset))
  <2>1. GrownTree(tree) /\ TypeCalls(walk, tree)
    BY <1>4 DEF TreeWalk
  <2>2. /\ c \in DOMAIN tree /\ tree[c].shape = "struct" /\ Measured(Call.item)
        /\ \A i \in 1 .. Len(Tail(walk)) : Len(Tail(walk)[i].path) <= Len(c)
    <3>1. \A i \in 1 .. Len(Tail(walk)) : 1 < i + 1
      BY <1>1
    <3>2. Call.item.kind = "field"
      BY <1>4
    <3> QED BY <1>1, <2>1, <3>1, <3>2 DEF TypeCalls
  <2>3. IsList(c) /\ Len(c) \in Nat /\ IsNode(tree[c])
    BY <2>1, <2>2, LenOf DEF GrownTree
  <2>4. Call.item.offset \in Nat \cup {NoOffset} /\ tree[c].at \in Nat \cup {NoOffset}
    BY <2>2, <2>3, SymbolConstants DEF Measured, IsNode
  <2>5. Sum(tree[c].at, Call.item.offset) \in Nat \cup {NoOffset}
    BY <2>4, SumIsPlace
  <2>6. IsNode(n) /\ n.kids = <<>> /\ n.at = Sum(tree[c].at, n.offset) /\ n.shape = shape
    BY <1>2, <2>4, <2>5, NoItems DEF Node, IsNode
  <2>7. PathOf(Call) = q
    BY <1>4 DEF PathOf
  <2>8. tree' = InsertField(tree, c, Call.item.name, n)
    BY <1>4 DEF Put
  <2> HIDE DEF n, c, q
  <2>9. GrownTree(tree')
    BY <2>1, <2>2, <2>6, <2>8, StillGrown
  <2>10. /\ q \in DOMAIN tree' /\ tree'[q] = n /\ Len(q) = Len(c) + 1
         /\ \A p \in DOMAIN tree' : p # q => Same(tree'[p], tree[p])
         /\ \A p \in DOMAIN tree : Len(p) <= Len(c) => p \in DOMAIN tree' /\ p # q
    BY <2>1, <2>2, <2>6, <2>8, Planted DEF q
  <2>11. ASSUME NEW i \in 1 .. Len(Tail(walk))
         PROVE  /\ Tail(walk)[i].path \in DOMAIN tree' /\ tree'[Tail(walk)[i].path].shape = "struct"
                /\ Tail(walk)[i].item.kind = "field" => Measured(Tail(walk)[i].item)
                /\ Len(Tail(walk)[i].path) <= Len(q)
    <3> DEFINE p == Tail(walk)[i].path
    <3>1. /\ p \in DOMAIN tree /\ tree[p].shape = "struct"
          /\ Tail(walk)[i].item.kind = "field" => Measured(Tail(walk)[i].item)
      BY <1>1, <2>1 DEF TypeCalls
    <3>2. Len(p) <= Len(c) /\ Len(p) \in Nat
      BY <2>1, <2>2, <3>1, LenOf DEF GrownTree
    <3> HIDE DEF p
    <3>3. p \in DOMAIN tree' /\ tree'[p].shape = "struct"
      BY <2>10, <3>1, <3>2 DEF Same
    <3>4. Len(p) <= Len(q)
      BY <2>3, <2>10, <3>2
    <3> QED BY <3>1, <3>3, <3>4 DEF p
  <2>12. ASSUME NEW i \in 1 .. Len(Tail(walk)), NEW j \in 1 .. Len(Tail(walk)), i < j
         PROVE  Len(Tail(walk)[j].path) <= Len(Tail(walk)[i].path)
    <3>1. i + 1 < j + 1
      BY <1>1, <2>12
    <3> QED BY <1>1, <2>1, <3>1 DEF TypeCalls
  <2>13. TypeCalls(Tail(walk), tree')
    BY <2>11, <2>12 DEF TypeCalls
  <2>14. tree'[q].shape = shape
    BY <2>6, <2>10
  <2> QED BY <2>7, <2>9, <2>10, <2>11, <2>13, <2>14
<1> QED BY <1>3, <1>4

LEMMA CallsInFront ==
  ASSUME NEW a, IsList(a), NEW b, IsList(b), NEW t, TypeCalls(b, t), NEW q \in DOMAIN t, IsList(q),
         t[q].shape = "struct",
         \A i \in 1 .. Len(a) : a[i].path = q /\ (a[i].item.kind = "field" => Measured(a[i].item)),
         \A i \in 1 .. Len(b) : Len(b[i].path) <= Len(q)
  PROVE  IsList(a \o b) /\ TypeCalls(a \o b, t)
<1>0. /\ IsList(a \o b) /\ Len(a \o b) = Len(a) + Len(b) /\ Len(a) \in Nat /\ Len(b) \in Nat
      /\ \A i \in 1 .. Len(a) : i \in 1 .. Len(a \o b) /\ (a \o b)[i] = a[i]
      /\ \A i \in 1 .. Len(b) : Len(a) + i \in 1 .. Len(a \o b) /\ (a \o b)[Len(a) + i] = b[i]
      /\ \A i \in 1 .. Len(a \o b) :
           i \in 1 .. Len(a) \/ (i - Len(a) \in 1 .. Len(b) /\ (a \o b)[i] = b[i - Len(a)])
  BY InFront, Zenon
<1> DEFINE c == a \o b
           n == Len(a)
<1>1. /\ IsList(c) /\ Len(c) = n + Len(b) /\ n \in Nat /\ Len(b) \in Nat
      /\ \A i \in 1 .. n : i \in 1 .. Len(c) /\ c[i] = a[i]
      /\ \A i \in 1 .. Len(c) : i \in 1 .. n \/ (i - n \in 1 .. Len(b) /\ c[i] = b[i - n])
  BY <1>0
<1> HIDE DEF c, n
<1>2. ASSUME NEW i \in 1 .. Len(c)
      PROVE  /\ c[i].path \in DOMAIN t /\ t[c[i].path].shape = "struct"
             /\ c[i].item.kind = "field" => Measured(c[i].item)
  <2>1. CASE i \in 1 .. n
    BY <1>1, <2>1 DEF n
  <2>2. CASE i - n \in 1 .. Len(b) /\ c[i] = b[i - n]
    BY <2>2 DEF TypeCalls
  <2> QED BY <1>1, <2>1, <2>2
<1>3. ASSUME NEW i \in 1 .. Len(c), NEW j \in 1 .. Len(c), i < j
      PROVE  Len(c[j].path) <= Len(c[i].path)
  <2>1. Len(q) \in Nat
    BY LenOf
  <2>2. CASE i \in 1 .. n /\ j \in 1 .. n
    <3>1. c[i].path = q /\ c[j].path = q
      BY <1>1, <2>2 DEF n
    <3> QED BY <2>1, <3>1
  <2>3. CASE i \in 1 .. n /\ (j - n \in 1 .. Len(b) /\ c[j] = b[j - n])
    <3>1. c[i].path = q
      BY <1>1, <2>3 DEF n
    <3> QED BY <2>3, <3>1
  <2>4. CASE /\ i - n \in 1 .. Len(b) /\ c[i] = b[i - n]
             /\ j - n \in 1 .. Len(b) /\ c[j] = b[j - n]
    <3>1. i - n < j - n
      BY <1>1, <1>3
    <3> QED BY <2>4, <3>1 DEF TypeCalls
  <2>5. CASE (i - n \in 1 .. Len(b)) /\ j \in 1 .. n
    <3>1. FALSE
      BY <1>1, <1>3, <2>5
    <3> QED BY <3>1
  <2> QED BY <1>1, <2>2, <2>3, <2>4, <2>5
<1>4. TypeCalls(c, t)
  BY <1>2, <1>3 DEF TypeCalls
<1> QED BY <1>1, <1>4 DEF c

LEMMA CallMeasured ==
  ASSUME IsList(walk), walk # <<>>, TreeWalk, First \/ Call.item.kind = "field"
  PROVE  Measured(Call.item)
<1>1. 1 \in 1 .. Len(walk) /\ Call = walk[1]
  BY TailOf DEF Call
<1>2. CASE First
  BY <1>2 DEF TreeWalk, First, GrownTree
<1>3. CASE ~First
  BY <1>1, <1>3 DEF TreeWalk, TypeCalls
<1> QED BY <1>2, <1>3

LEMMA StepNotAField ==
  ASSUME IsList(walk), TreeWalk, NotAField
  PROVE  IsList(walk') /\ TreeWalk'
<1>1. walk # <<>> /\ walk' = Tail(walk) /\ tree' = tree /\ ~First
  BY DEF NotAField, Typing, Return
<1>2. /\ IsList(Tail(walk)) /\ Len(walk) \in Nat /\ Len(Tail(walk)) = Len(walk) - 1
      /\ \A i \in 1 .. Len(Tail(walk)) : i + 1 \in 1 .. Len(walk) /\ Tail(walk)[i] = walk[i + 1]
  BY <1>1, TailOf
<1>3. GrownTree(tree) /\ TypeCalls(walk, tree)
  BY <1>1 DEF TreeWalk
<1> DEFINE w == Tail(walk)
<1>4. ASSUME NEW i \in 1 .. Len(w)
      PROVE  /\ w[i].path \in DOMAIN tree /\ tree[w[i].path].shape = "struct"
             /\ w[i].item.kind = "field" => Measured(w[i].item)
  BY <1>2, <1>3 DEF TypeCalls
<1>5. ASSUME NEW i \in 1 .. Len(w), NEW j \in 1 .. Len(w), i < j
      PROVE  Len(w[j].path) <= Len(w[i].path)
  <2>1. i + 1 < j + 1
    BY <1>2, <1>5
  <2> QED BY <1>2, <1>3, <2>1 DEF TypeCalls
<1>6. TypeCalls(w, tree)
  BY <1>4, <1>5 DEF TypeCalls
<1>7. GrownTree(tree') /\ TypeCalls(walk', tree')
  BY <1>1, <1>3, <1>6
<1> QED BY <1>1, <1>2, <1>7 DEF TreeWalk

LEMMA StepTypeIsSimple ==
  ASSUME IsList(walk), TreeWalk, TypeIsSimple
  PROVE  IsList(walk') /\ TreeWalk'
<1>1. walk # <<>> /\ walk' = Tail(walk) /\ (First \/ Call.item.kind = "field")
  BY DEF TypeIsSimple, Typing, Return
<1>2. Call.item.size \in Nat
  BY <1>1, CallMeasured DEF Measured
<1>3. CASE Call.item.base_type # 65 /\ Put(Call, FromTypeId(Call.item.base_type), Call.item.size)
  <2> DEFINE shape == FromTypeId(Call.item.base_type)
  <2>1. GrownLeaf(shape, Call)
    BY <1>3 DEF GrownLeaf, FromTypeId, Shapes
  <2>2. GrownTree(tree') /\ TypeCalls(Tail(walk), tree')
    BY <1>1, <1>2, <1>3, <2>1, PutGrown
  <2> QED BY <1>1, <2>2, TailOf DEF TreeWalk
<1>4. CASE Put(Call, "unknown", Call.item.size)
  <2>1. GrownLeaf("unknown", Call)
    BY DEF GrownLeaf, Shapes
  <2>2. GrownTree(tree') /\ TypeCalls(Tail(walk), tree')
    BY <1>1, <1>2, <1>4, <2>1, PutGrown
  <2> QED BY <1>1, <2>2, TailOf DEF TreeWalk
<1> QED BY <1>3, <1>4 DEF TypeIsSimple

LEMMA StepTypeIsCompound ==
  ASSUME IsList(walk), TreeWalk, AllEntries(types), TypeIsCompound
  PROVE  (task' = "panic" /\ walk' = walk) \/ (task' = task /\ IsList(walk') /\ TreeWalk')
<1>1. walk # <<>> /\ (First \/ Call.item.kind = "field")
  BY DEF TypeIsCompound, Typing
<1>2. Call.item.size \in Nat
  BY <1>1, CallMeasured DEF Measured
<1>3. PICK i \in DOMAIN types :
        LET kids == types[i].kids
            fields == [k \in DOMAIN kids |->
              TypeCall(PathOf(Call), kids[k], Call.within \cup {Call.item.typ})] IN
          \/ Put(Call, "array", Call.item.size) /\ Return
          \/ Put(Call, "struct", types[i].size) /\ walk' = fields \o Tail(walk)
          \/ task' = "panic" /\ walk' = walk
  BY DEF TypeIsCompound
<1> DEFINE kids == types[i].kids
           fields == [k \in DOMAIN kids |->
              TypeCall(PathOf(Call), kids[k], Call.within \cup {Call.item.typ})]
<1>4. CASE Put(Call, "array", Call.item.size) /\ Return
  <2>1. GrownLeaf("array", Call)
    BY DEF GrownLeaf, Shapes
  <2>2. GrownTree(tree') /\ TypeCalls(Tail(walk), tree')
    BY <1>1, <1>2, <1>4, <2>1, PutGrown
  <2>3. task' = task /\ walk' = Tail(walk)
    BY <1>4 DEF Put, Return
  <2> QED BY <1>1, <2>2, <2>3, TailOf DEF TreeWalk
<1>5. CASE Put(Call, "struct", types[i].size) /\ walk' = fields \o Tail(walk)
  <2>1. i \in 1 .. Len(types) /\ IsEntry(types[i])
    BY DomainOf DEF AllEntries
  <2>2. /\ types[i].size \in Nat /\ IsList(kids)
        /\ \A k \in 1 .. Len(kids) : kids[k].kind = "field" => Measured(kids[k])
    BY <2>1 DEF IsEntry, Measured
  <2>3. GrownLeaf("struct", Call)
    BY DEF GrownLeaf, Shapes
  <2> DEFINE q == PathOf(Call)
  <2> HIDE DEF q
  <2>4. /\ GrownTree(tree') /\ TypeCalls(Tail(walk), tree')
        /\ q \in DOMAIN tree' /\ tree'[q].shape = "struct"
        /\ \A k \in 1 .. Len(Tail(walk)) : Len(Tail(walk)[k].path) <= Len(q)
    BY <1>1, <1>5, <2>2, <2>3, PutGrown DEF q
  <2>5. IsList(q)
    BY <2>4 DEF GrownTree
  <2>6. fields = [k \in DOMAIN kids |-> fields[k]]
    OBVIOUS
  <2>7. IsList(fields) /\ Len(fields) = Len(kids) /\ DOMAIN kids = 1 .. Len(kids)
    BY <2>2, <2>6, ListOver
  <2>8. \A k \in 1 .. Len(kids) : fields[k] = TypeCall(q, kids[k], Call.within \cup {Call.item.typ})
    BY <2>7 DEF q
  <2> HIDE DEF fields, kids
  <2>9. ASSUME NEW k \in 1 .. Len(fields)
        PROVE  fields[k].path = q /\ (fields[k].item.kind = "field" => Measured(fields[k].item))
    <3>1. fields[k].path = q /\ fields[k].item = kids[k]
      <4>1. k \in 1 .. Len(kids)
        BY <2>7
      <4>2. fields[k] = TypeCall(q, kids[k], Call.within \cup {Call.item.typ})
        BY <2>8, <4>1
      <4> QED BY <4>2 DEF TypeCall
    <3> QED BY <2>2, <2>7, <3>1
  <2>10. IsList(Tail(walk))
    BY <1>1, TailOf
  <2>11. IsList(fields \o Tail(walk)) /\ TypeCalls(fields \o Tail(walk), tree')
    BY <2>4, <2>5, <2>7, <2>9, <2>10, CallsInFront
  <2>12. task' = task
    BY <1>5 DEF Put
  <2> QED BY <1>5, <2>4, <2>11, <2>12 DEF TreeWalk
<1> QED BY <1>3, <1>4, <1>5

LEMMA StepAsked ==
  ASSUME NEW name, AllEntries(symbols), walk = <<>>, First, GetDynamicTypeTree(name)
  PROVE  IsList(walk') /\ TreeWalk'
<1>1. CASE tree' = Only(<<>>, Node("missing", 0, 0, 0, 0)) /\ UNCHANGED walk
  <2> DEFINE n == Node("missing", 0, 0, 0, 0)
  <2>1. IsNode(n) /\ n.kids = <<>> /\ n.at = 0
    BY NoItems DEF Node, IsNode, Shapes
  <2> HIDE DEF n
  <2>2. GrownTree(tree')
    BY <1>1, <2>1, SeedGrown DEF n
  <2>3. walk' = <<>> /\ IsList(<<>>) /\ Len(<<>>) = 0
    BY <1>1, NoItems
  <2>4. \A i \in 1 .. Len(<<>>) : FALSE
    <3>1. \A k : k = 0 => \A i \in 1 .. k : FALSE
      OBVIOUS
    <3> QED BY <2>3, <3>1
  <2>5. TypeCalls(<<>>, tree')
    BY <2>4 DEF TypeCalls
  <2> QED BY <2>2, <2>3, <2>5 DEF TreeWalk
<1>2. CASE \E i \in DOMAIN symbols : walk' = <<TypeCall(<<>>, symbols[i], {})>> /\ UNCHANGED tree
  <2>1. PICK i \in DOMAIN symbols : walk' = <<TypeCall(<<>>, symbols[i], {})>> /\ UNCHANGED tree
    BY <1>2
  <2>2. Measured(symbols[i])
    BY DomainOf DEF AllEntries, IsEntry
  <2>3. IsList(walk') /\ Len(walk') = 1 /\ walk' # <<>> /\ Head(walk') = TypeCall(<<>>, symbols[i], {})
    <3> DEFINE x == TypeCall(<<>>, symbols[i], {})
    <3> HIDE DEF x
    <3>1. Head(<<x>>) = x /\ <<x>> # <<>>
      OBVIOUS
    <3>2. walk' = <<x>>
      BY <2>1 DEF x
    <3>3. IsList(<<x>>) /\ Len(<<x>>) = 1
      BY OneItem
    <3> QED BY <3>1, <3>2, <3>3 DEF x
  <2>4. Measured(Call.item)'
    BY <2>2, <2>3 DEF Call, TypeCall
  <2> QED BY <2>1, <2>3, <2>4 DEF TreeWalk, First
<1> QED BY <1>1, <1>2 DEF GetDynamicTypeTree

--------------------------------------------------------------------------------
(* What a path of the tree has before it.                                       *)

LEMMA NextUp ==
  ASSUME NEW t, GrownTree(t), NEW p \in DOMAIN t, NEW n \in 0 .. Len(p), n # Len(p)
  PROVE  /\ n + 1 \in 0 .. Len(p) /\ Up(p, n) \in DOMAIN t /\ t[Up(p, n)].shape = "struct"
         /\ \E k \in 1 .. Len(t[Up(p, n)].kids) : Up(p, n + 1) = Append(Up(p, n), t[Up(p, n)].kids[k])
<1>1. IsList(p) /\ Len(p) \in Nat /\ Rooted(t, p)
  BY LenOf DEF GrownTree
<1>2. n \in Nat /\ n < Len(p) /\ n + 1 \in 0 .. Len(p) /\ (n + 1) - 1 = n
  BY <1>1
<1> DEFINE q == Up(p, n + 1)
           c == Up(p, n)
<1>3. q = Append(c, p[n + 1])
  BY <1>1, <1>2, UpOne
<1>4. q \in DOMAIN t /\ c \in DOMAIN t
  BY <1>1, <1>2 DEF Rooted
<1>5. IsList(c) /\ IsKid(t, q) /\ Len(q) = n + 1
  BY <1>1, <1>2, <1>4, UpIsList DEF GrownTree
<1> HIDE DEF q, c
<1>6. Parent(q) = c /\ q # <<>> /\ q[Len(q)] = p[n + 1]
  <2>1. Parent(q) = c /\ q # <<>>
    BY <1>3, <1>5, UpPut
  <2>2. Len(Append(c, p[n + 1])) = Len(c) + 1 /\ Append(c, p[n + 1])[Len(c) + 1] = p[n + 1]
    BY <1>5, PutName
  <2> QED BY <1>3, <2>1, <2>2
<1>7. t[c].shape = "struct" /\ \E k \in 1 .. Len(t[c].kids) : t[c].kids[k] = p[n + 1]
  BY <1>5, <1>6 DEF IsKid
<1> QED BY <1>2, <1>3, <1>4, <1>7 DEF c, q

LEMMA InnerIsStruct ==
  ASSUME NEW t, GrownTree(t), NEW p \in DOMAIN t, NEW n \in 0 .. Len(p), t[Up(p, n)].shape # "struct"
  PROVE  Up(p, n) = p
<1>1. IsList(p)
  BY DEF GrownTree
<1>2. n = Len(p)
  BY NextUp
<1> QED BY <1>1, <1>2, UpAll

(* A field of a struct.                                                         *)
LEMMA FieldOf ==
  ASSUME NEW t, GrownTree(t), NEW c \in DOMAIN t, NEW k \in 1 .. Len(t[c].kids)
  PROVE  LET q == Append(c, t[c].kids[k]) IN
         /\ q \in DOMAIN t /\ IsList(q) /\ Len(q) \in 1 .. Len(q) /\ q[Len(q)] = t[c].kids[k]
         /\ q # <<>> /\ Parent(q) = c /\ t[q].at = Sum(t[c].at, t[q].offset) /\ IsNode(t[q])
<1> DEFINE x == t[c].kids[k]
           q == Append(c, x)
<1>1. q \in DOMAIN t /\ IsList(c)
  BY DEF GrownTree, KidsThere
<1> HIDE DEF x
<1>2. IsList(q) /\ IsKid(t, q) /\ IsNode(t[q])
  BY <1>1 DEF GrownTree
<1>3. Parent(q) = c /\ q # <<>>
  BY <1>1, UpPut
<1>4. Len(q) = Len(c) + 1 /\ q[Len(c) + 1] = x /\ Len(c) \in Nat
  BY <1>1, PutName, LenOf
<1> HIDE DEF q
<1>5. Len(q) \in 1 .. Len(q) /\ q[Len(q)] = x
  BY <1>4
<1>6. t[q].at = Sum(t[c].at, t[q].offset)
  BY <1>2, <1>3 DEF IsKid
<1> QED BY <1>1, <1>2, <1>3, <1>5, <1>6 DEF q, x

--------------------------------------------------------------------------------
(* The tree is flattened.                                                       *)

(* A descriptor is that of the node at its key.                                 *)
Described(e, p) ==
  /\ tree[p].at # NoOffset /\ e.at = tree[p].at /\ e.base = tree[p].base /\ e.size = tree[p].size
  /\ \/ /\ e.shape = "time" /\ IsTimeStruct(tree[p]) /\ Timely(p)
        /\ \A i \in DOMAIN TimeKeys : e.parts[i] = Part(p, i).offset
     \/ e.shape = "void" /\ tree[p].shape \in {"array", "unknown"}
     \/ e.shape = tree[p].shape /\ tree[p].shape \in {"number", "void", "string", "wstring"}

MapEntries(m) == \A k \in DOMAIN m : k \in DOMAIN tree /\ Described(m[k], k)

MapCalls(w) ==
  \A i \in 1 .. Len(w) :
    w[i].path \in DOMAIN tree /\ w[i].key = w[i].path /\ w[i].at = tree[w[i].path].at

(* What is not a struct is in the map, or one of the structs around it is; or   *)
(* is still to come; or is left out.                                            *)
Mapped(m, q) ==
  q \in DOMAIN m \/ (IsTimeStruct(tree[q]) /\ ~Timely(q)) \/ tree[q].at = NoOffset
ToCome(w, q) == \E i \in 1 .. Len(w) : w[i].path = q
MapCovers(w, m) ==
  \A p \in DOMAIN tree : tree[p].shape \notin {"struct", "missing"} =>
    \E n \in 0 .. Len(p) : Mapped(m, Up(p, n)) \/ ToCome(w, Up(p, n))

LEMMA OneLessToCome ==
  ASSUME NEW w, IsList(w), w # <<>>, NEW q, ToCome(w, q)
  PROVE  q = Head(w).path \/ ToCome(Tail(w), q)
<1>1. /\ Len(w) \in Nat /\ Len(Tail(w)) = Len(w) - 1 /\ Head(w) = w[1]
      /\ \A i \in 1 .. Len(Tail(w)) : i + 1 \in 1 .. Len(w) /\ Tail(w)[i] = w[i + 1]
  BY TailOf
<1>2. PICK i \in 1 .. Len(w) : w[i].path = q
  BY DEF ToCome
<1>3. CASE i = 1
  BY <1>1, <1>2, <1>3
<1>4. CASE i # 1
  <2>1. i - 1 \in 1 .. Len(Tail(w)) /\ (i - 1) + 1 = i
    BY <1>1, <1>4
  <2>2. Tail(w)[i - 1].path = q
    BY <1>1, <1>2, <2>1
  <2> QED BY <2>1, <2>2 DEF ToCome
<1> QED BY <1>3, <1>4

LEMMA ToComeInFront ==
  ASSUME NEW a, IsList(a), NEW b, IsList(b), NEW q, ToCome(a, q) \/ ToCome(b, q)
  PROVE  ToCome(a \o b, q)
<1>0. /\ IsList(a \o b) /\ Len(a \o b) = Len(a) + Len(b) /\ Len(a) \in Nat /\ Len(b) \in Nat
      /\ \A i \in 1 .. Len(a) : i \in 1 .. Len(a \o b) /\ (a \o b)[i] = a[i]
      /\ \A i \in 1 .. Len(b) : Len(a) + i \in 1 .. Len(a \o b) /\ (a \o b)[Len(a) + i] = b[i]
      /\ \A i \in 1 .. Len(a \o b) :
           i \in 1 .. Len(a) \/ (i - Len(a) \in 1 .. Len(b) /\ (a \o b)[i] = b[i - Len(a)])
  BY InFront, Zenon
<1> DEFINE c == a \o b
           n == Len(a)
<1>1. /\ IsList(c) /\ Len(c) = n + Len(b) /\ n \in Nat /\ Len(b) \in Nat
      /\ \A i \in 1 .. n : i \in 1 .. Len(c) /\ c[i] = a[i]
      /\ \A i \in 1 .. Len(b) : n + i \in 1 .. Len(c) /\ c[n + i] = b[i]
  BY <1>0
<1> HIDE DEF c, n
<1> SUFFICES ToCome(c, q)
  BY DEF c
<1>2. CASE ToCome(a, q)
  BY <1>1, <1>2 DEF ToCome, n
<1>3. CASE ToCome(b, q)
  <2>1. PICK i \in 1 .. Len(b) : b[i].path = q
    BY <1>3 DEF ToCome
  <2>2. n + i \in 1 .. Len(c) /\ c[n + i].path = q
    BY <1>1, <2>1
  <2>3. ToCome(c, q)
    BY <2>2 DEF ToCome
  <2> QED BY <2>3
<1> QED BY <1>2, <1>3

LEMMA TailMapCalls ==
  ASSUME NEW w, IsList(w), w # <<>>, MapCalls(w)
  PROVE  IsList(Tail(w)) /\ MapCalls(Tail(w))
<1>1. /\ IsList(Tail(w))
      /\ \A i \in 1 .. Len(Tail(w)) : i + 1 \in 1 .. Len(w) /\ Tail(w)[i] = w[i + 1]
  BY TailOf
<1> QED BY <1>1 DEF MapCalls

(* A call returns: what it has made settles its path.                           *)
LEMMA MapReturns ==
  ASSUME NEW w, IsList(w), w # <<>>, GrownTree(tree), MapCalls(w), NEW m, MapCovers(w, m), NEW m1,
         DOMAIN m \subseteq DOMAIN m1,
         Mapped(m1, Head(w).path) \/ tree[Head(w).path].shape = "missing"
  PROVE  MapCovers(Tail(w), m1)
<1> SUFFICES ASSUME NEW p \in DOMAIN tree, tree[p].shape \notin {"struct", "missing"}
             PROVE  \E n \in 0 .. Len(p) : Mapped(m1, Up(p, n)) \/ ToCome(Tail(w), Up(p, n))
  BY DEF MapCovers
<1>1. PICK n \in 0 .. Len(p) : Mapped(m, Up(p, n)) \/ ToCome(w, Up(p, n))
  BY DEF MapCovers
<1>2. CASE Mapped(m, Up(p, n))
  BY <1>2 DEF Mapped
<1>3. CASE ToCome(w, Up(p, n))
  <2>1. Up(p, n) = Head(w).path \/ ToCome(Tail(w), Up(p, n))
    BY <1>3, OneLessToCome
  <2>2. CASE Up(p, n) = Head(w).path
    <3>1. tree[Head(w).path].shape # "missing"
      <4> SUFFICES ASSUME tree[Up(p, n)].shape = "missing" PROVE FALSE
        BY <2>2
      <4>1. Up(p, n) = p
        BY InnerIsStruct
      <4> QED BY <4>1
    <3> QED BY <2>2, <3>1
  <2> QED BY <2>1, <2>2
<1> QED BY <1>1, <1>2, <1>3

LEMMA MapFieldsToCome ==
  ASSUME GrownTree(tree), NoEmptyName, NEW call, call.path \in DOMAIN tree, call.key = call.path,
         call.at = tree[call.path].at
  PROVE  /\ IsList(MapFields(call)) /\ MapCalls(MapFields(call))
         /\ \A k \in 1 .. Len(tree[call.path].kids) :
              ToCome(MapFields(call), Append(call.path, tree[call.path].kids[k]))
<1> DEFINE c == call.path
           kids == tree[c].kids
           f == MapFields(call)
<1>1. IsList(c) /\ IsList(kids)
  BY DEF GrownTree, IsNode
<1>2. f = [k \in DOMAIN kids |-> MapCall(Append(c, kids[k]), JoinPath(call.key, kids[k]),
                                     Sum(call.at, tree[Append(c, kids[k])].offset))]
  BY DEF MapFields
<1>3. f = [k \in DOMAIN kids |-> f[k]]
  BY <1>2
<1> HIDE DEF f
<1>4. IsList(f) /\ Len(f) = Len(kids) /\ DOMAIN kids = 1 .. Len(kids)
  BY <1>1, <1>3, ListOver
<1>5. ASSUME NEW k \in 1 .. Len(kids)
      PROVE  LET q == Append(c, kids[k]) IN
             f[k].path = q /\ q \in DOMAIN tree /\ f[k].key = q /\ f[k].at = tree[q].at
  <2> DEFINE q == Append(c, kids[k])
  <2>1. /\ q \in DOMAIN tree /\ IsList(q) /\ Len(q) \in 1 .. Len(q) /\ q[Len(q)] = kids[k]
        /\ tree[q].at = Sum(tree[c].at, tree[q].offset)
    BY FieldOf
  <2>2. Len(q) \in DOMAIN q
    BY <2>1, DomainOf
  <2>3. kids[k] # <<>>
    BY <2>1, <2>2 DEF NoEmptyName
  <2>4. f[k] = MapCall(q, JoinPath(call.key, kids[k]), Sum(call.at, tree[q].offset))
    BY <1>2, <1>4
  <2>5. JoinPath(call.key, kids[k]) = q
    BY <2>3 DEF JoinPath
  <2> HIDE DEF q
  <2>6. f[k].path = q /\ f[k].key = q /\ f[k].at = tree[q].at
    BY <2>1, <2>4, <2>5 DEF MapCall
  <2> QED BY <2>1, <2>6 DEF q
<1>6. MapCalls(f)
  BY <1>4, <1>5 DEF MapCalls
<1>7. \A k \in 1 .. Len(kids) : ToCome(f, Append(c, kids[k]))
  BY <1>4, <1>5 DEF ToCome
<1> QED BY <1>4, <1>6, <1>7 DEF f

LEMMA MapCallsInFront ==
  ASSUME NEW a, IsList(a), NEW b, IsList(b), MapCalls(a), MapCalls(b)
  PROVE  IsList(a \o b) /\ MapCalls(a \o b)
<1>0. /\ IsList(a \o b) /\ Len(a \o b) = Len(a) + Len(b) /\ Len(a) \in Nat /\ Len(b) \in Nat
      /\ \A i \in 1 .. Len(a) : i \in 1 .. Len(a \o b) /\ (a \o b)[i] = a[i]
      /\ \A i \in 1 .. Len(b) : Len(a) + i \in 1 .. Len(a \o b) /\ (a \o b)[Len(a) + i] = b[i]
      /\ \A i \in 1 .. Len(a \o b) :
           i \in 1 .. Len(a) \/ (i - Len(a) \in 1 .. Len(b) /\ (a \o b)[i] = b[i - Len(a)])
  BY InFront, Zenon
<1> DEFINE c == a \o b
           n == Len(a)
<1>1. /\ IsList(c) /\ Len(c) = n + Len(b) /\ n \in Nat /\ Len(b) \in Nat
      /\ \A i \in 1 .. n : i \in 1 .. Len(c) /\ c[i] = a[i]
      /\ \A i \in 1 .. Len(c) : i \in 1 .. n \/ (i - n \in 1 .. Len(b) /\ c[i] = b[i - n])
  BY <1>0
<1> HIDE DEF c, n
<1>2. ASSUME NEW i \in 1 .. Len(c)
      PROVE  c[i].path \in DOMAIN tree /\ c[i].key = c[i].path /\ c[i].at = tree[c[i].path].at
  <2>1. CASE i \in 1 .. n
    BY <1>1, <2>1 DEF n, MapCalls
  <2>2. CASE i - n \in 1 .. Len(b) /\ c[i] = b[i - n]
    BY <2>2 DEF MapCalls
  <2> QED BY <1>1, <2>1, <2>2
<1>3. MapCalls(c)
  BY <1>2 DEF MapCalls
<1> QED BY <1>1, <1>3 DEF c

(* A struct is entered: its fields come before what came after it.              *)
LEMMA MapExpands ==
  ASSUME NEW w, IsList(w), w # <<>>, GrownTree(tree), NEW m, MapCovers(w, m), NEW f, IsList(f),
         Head(w).path \in DOMAIN tree, tree[Head(w).path].shape = "struct",
         \A k \in 1 .. Len(tree[Head(w).path].kids) :
           ToCome(f, Append(Head(w).path, tree[Head(w).path].kids[k]))
  PROVE  MapCovers(f \o Tail(w), m)
<1> SUFFICES ASSUME NEW p \in DOMAIN tree, tree[p].shape \notin {"struct", "missing"}
             PROVE  \E n \in 0 .. Len(p) : Mapped(m, Up(p, n)) \/ ToCome(f \o Tail(w), Up(p, n))
  BY DEF MapCovers
<1>1. PICK n \in 0 .. Len(p) : Mapped(m, Up(p, n)) \/ ToCome(w, Up(p, n))
  BY DEF MapCovers
<1>2. CASE Mapped(m, Up(p, n))
  BY <1>2
<1>3. CASE ToCome(w, Up(p, n))
  <2>1. IsList(Tail(w))
    BY TailOf
  <2>2. Up(p, n) = Head(w).path \/ ToCome(Tail(w), Up(p, n))
    BY <1>3, OneLessToCome
  <2>3. CASE ToCome(Tail(w), Up(p, n))
    <3>1. ToCome(f \o Tail(w), Up(p, n))
      BY <2>1, <2>3, ToComeInFront
    <3> QED BY <3>1
  <2>4. CASE Up(p, n) = Head(w).path
    <3>1. n # Len(p)
      <4> SUFFICES ASSUME n = Len(p) PROVE FALSE
        OBVIOUS
      <4>1. Up(p, n) = p
        BY UpAll DEF GrownTree
      <4> QED BY <2>4, <4>1
    <3>2. /\ n + 1 \in 0 .. Len(p) /\ Up(p, n) \in DOMAIN tree /\ tree[Up(p, n)].shape = "struct"
          /\ \E k \in 1 .. Len(tree[Up(p, n)].kids) : Up(p, n + 1) = Append(Up(p, n), tree[Up(p, n)].kids[k])
      BY <3>1, NextUp
    <3> DEFINE q == Up(p, n)
    <3>3. PICK k \in 1 .. Len(tree[q].kids) : Up(p, n + 1) = Append(q, tree[q].kids[k])
      BY <3>2
    <3> HIDE DEF q
    <3>4. ToCome(f, Up(p, n + 1))
      <4>1. q = Head(w).path
        BY <2>4 DEF q
      <4>2. \A i \in 1 .. Len(tree[q].kids) : ToCome(f, Append(q, tree[q].kids[i]))
        BY <4>1
      <4>3. ToCome(f, Append(q, tree[q].kids[k]))
        BY <4>2
      <4> QED BY <3>3, <4>3
    <3>5. ToCome(f \o Tail(w), Up(p, n + 1))
      BY <2>1, <3>4, ToComeInFront
    <3> QED BY <3>2, <3>5
  <2> QED BY <2>2, <2>3, <2>4
<1> QED BY <1>1, <1>2, <1>3

LEMMA EntryAdded ==
  ASSUME NEW m, MapEntries(m), NEW q \in DOMAIN tree, NEW e, Described(e, q)
  PROVE  /\ MapEntries(Insert(m, q, e)) /\ q \in DOMAIN Insert(m, q, e)
         /\ DOMAIN m \subseteq DOMAIN Insert(m, q, e)
<1> DEFINE m1 == Insert(m, q, e)
<1>1. DOMAIN m1 = DOMAIN m \cup {q} /\ \A k \in DOMAIN m1 : m1[k] = IF k = q THEN e ELSE m[k]
  BY DEF Insert
<1> HIDE DEF m1
<1>2. \A k \in DOMAIN m1 : k \in DOMAIN tree /\ Described(m1[k], k)
  BY <1>1 DEF MapEntries
<1> QED BY <1>1, <1>2 DEF MapEntries, m1

LEMMA StepMap ==
  ASSUME IsList(walk), GrownTree(tree), NoEmptyName, MapCalls(walk), MapEntries(type_map),
         MapCovers(walk, type_map), MapStep
  PROVE  IsList(walk') /\ MapCalls(walk') /\ MapEntries(type_map') /\ MapCovers(walk', type_map')
<1> DEFINE c == Call.path
           node == tree[c]
           Described1(shape, parts) == Descriptor(shape, node, parts, Call.at)
<1>1. walk # <<>>
  BY DEF MapStep
<1>2. c \in DOMAIN tree /\ Call.key = c /\ Call.at = node.at /\ Call = Head(walk)
  <2>1. 1 \in 1 .. Len(walk) /\ Call = walk[1]
    BY <1>1, TailOf DEF Call
  <2> QED BY <2>1 DEF MapCalls, Call
<1>3. IsNode(node)
  BY <1>2 DEF GrownTree
<1>4. IsList(Tail(walk)) /\ MapCalls(Tail(walk))
  BY <1>1, TailMapCalls
<1>5. CASE /\ Call.at = NoOffset \/ node.shape = "missing" \/ (IsTimeStruct(node) /\ ~Timely(c))
           /\ Return /\ UNCHANGED type_map
  <2>1. Mapped(type_map, c) \/ node.shape = "missing"
    BY <1>2, <1>5 DEF Mapped
  <2>2. MapCovers(Tail(walk), type_map)
    BY <1>1, <1>2, <2>1, MapReturns
  <2>3. walk' = Tail(walk) /\ type_map' = type_map
    BY <1>5 DEF Return
  <2> QED BY <1>4, <2>2, <2>3
<1>6. ASSUME NEW e, Described(e, c), type_map' = Insert(type_map, Call.key, e), Return
      PROVE  IsList(walk') /\ MapCalls(walk') /\ MapEntries(type_map') /\ MapCovers(walk', type_map')
  <2>1. MapEntries(type_map') /\ c \in DOMAIN type_map' /\ DOMAIN type_map \subseteq DOMAIN type_map'
    BY <1>2, <1>6, EntryAdded
  <2>2. Mapped(type_map', c)
    BY <2>1 DEF Mapped
  <2>3. MapCovers(Tail(walk), type_map')
    BY <1>1, <1>2, <2>1, <2>2, MapReturns
  <2>4. walk' = Tail(walk)
    BY <1>6 DEF Return
  <2> QED BY <1>4, <2>1, <2>3, <2>4
<1>7. CASE /\ Call.at # NoOffset /\ IsTimeStruct(node) /\ Timely(c) /\ Return
           /\ type_map' = Insert(type_map, Call.key,
                Descriptor("time", node, [i \in DOMAIN TimeKeys |-> Part(c, i).offset], Call.at))
  <2> DEFINE e == Descriptor("time", node, [i \in DOMAIN TimeKeys |-> Part(c, i).offset], Call.at)
  <2>1. /\ e.at = node.at /\ e.base = node.base /\ e.size = node.size /\ e.shape = "time"
        /\ \A i \in DOMAIN TimeKeys : e.parts[i] = Part(c, i).offset
    BY <1>2 DEF Descriptor
  <2>2. type_map' = Insert(type_map, Call.key, e)
    BY <1>7
  <2> HIDE DEF e
  <2>3. Described(e, c)
    BY <1>2, <1>7, <2>1 DEF Described
  <2> QED BY <1>6, <1>7, <2>2, <2>3
<1>8. CASE /\ Call.at # NoOffset /\ node.shape = "struct" /\ UNCHANGED type_map
           /\ walk' = MapFields(Call) \o Tail(walk)
  <2>1. /\ IsList(MapFields(Call)) /\ MapCalls(MapFields(Call))
        /\ \A k \in 1 .. Len(node.kids) : ToCome(MapFields(Call), Append(c, node.kids[k]))
    BY <1>2, MapFieldsToCome
  <2> DEFINE f == MapFields(Call)
  <2> HIDE DEF f
  <2>2. IsList(f \o Tail(walk)) /\ MapCalls(f \o Tail(walk))
    BY <1>4, <2>1, MapCallsInFront DEF f
  <2>3. MapCovers(f \o Tail(walk), type_map)
    BY <1>1, <1>2, <1>8, <2>1, MapExpands DEF f
  <2>4. walk' = f \o Tail(walk) /\ type_map' = type_map
    BY <1>8 DEF f
  <2> QED BY <2>2, <2>3, <2>4
<1>9. ASSUME NEW shape, Call.at # NoOffset, Return,
             type_map' = Insert(type_map, Call.key, Descriptor(shape, node, <<>>, Call.at)),
             \/ shape = "void" /\ node.shape \in {"array", "unknown"}
             \/ shape = node.shape /\ node.shape \in {"number", "void", "string", "wstring"}
      PROVE  IsList(walk') /\ MapCalls(walk') /\ MapEntries(type_map') /\ MapCovers(walk', type_map')
  <2> DEFINE e == Descriptor(shape, node, <<>>, Call.at)
  <2>1. e.at = node.at /\ e.base = node.base /\ e.size = node.size /\ e.shape = shape
    BY <1>2 DEF Descriptor
  <2>2. type_map' = Insert(type_map, Call.key, e)
    BY <1>9
  <2> HIDE DEF e
  <2>3. Described(e, c)
    BY <1>2, <1>9, <2>1 DEF Described
  <2> QED BY <1>6, <1>9, <2>2, <2>3
<1>10. CASE /\ Call.at # NoOffset /\ node.shape \in {"array", "unknown"} /\ Return
            /\ type_map' = Insert(type_map, Call.key, Descriptor("void", node, <<>>, Call.at))
  BY <1>9, <1>10
<1>11. CASE /\ Call.at # NoOffset /\ node.shape \notin {"struct", "array", "unknown", "missing"} /\ Return
            /\ type_map' = Insert(type_map, Call.key, Descriptor(node.shape, node, <<>>, Call.at))
  <2>1. node.shape \in {"number", "void", "string", "wstring"}
    BY <1>3, <1>11 DEF IsNode, Shapes
  <2> QED BY <1>9, <1>11, <2>1
<1>12. \/ /\ Call.at = NoOffset \/ node.shape = "missing" \/ (IsTimeStruct(node) /\ ~Timely(c))
          /\ Return /\ UNCHANGED type_map
       \/ /\ Call.at # NoOffset /\ IsTimeStruct(node) /\ Timely(c) /\ Return
          /\ type_map' = Insert(type_map, Call.key,
               Descriptor("time", node, [i \in DOMAIN TimeKeys |-> Part(c, i).offset], Call.at))
       \/ /\ Call.at # NoOffset /\ node.shape = "struct" /\ UNCHANGED type_map
          /\ walk' = MapFields(Call) \o Tail(walk)
       \/ /\ Call.at # NoOffset /\ node.shape \in {"array", "unknown"} /\ Return
          /\ type_map' = Insert(type_map, Call.key, Descriptor("void", node, <<>>, Call.at))
       \/ /\ Call.at # NoOffset /\ node.shape \notin {"struct", "array", "unknown", "missing"} /\ Return
          /\ type_map' = Insert(type_map, Call.key, Descriptor(node.shape, node, <<>>, Call.at))
  BY DEF MapStep
<1> QED BY <1>5, <1>7, <1>8, <1>10, <1>11, <1>12

--------------------------------------------------------------------------------
(* A sample is read with the tree.                                              *)

Here(p) == tree[p].at # NoOffset /\ tree[p].at <= sample

Seen(p) ==
  IF ~Here(p) THEN Failed("missing")
  ELSE IF tree[p].shape = "struct" THEN Value("struct", 65, tree[p].at, tree[p].size)
  ELSE ReadLeaf(tree[p], tree[p].at, sample)

TreeEntries(v) == \A p \in DOMAIN v : p \in DOMAIN tree /\ v[p] = Seen(p)

ReadCalls(w) ==
  \A i \in 1 .. Len(w) : w[i].path \in DOMAIN tree /\ w[i].at = tree[w[i].path].at

(* All is read, but for what is within something that is not there.             *)
ReadCovers(w, v) ==
  \A p \in DOMAIN tree :
    p \in DOMAIN v \/ \E n \in 0 .. Len(p) : ToCome(w, Up(p, n)) \/ ~Here(Up(p, n))

LEMMA TailReadCalls ==
  ASSUME NEW w, IsList(w), w # <<>>, ReadCalls(w)
  PROVE  IsList(Tail(w)) /\ ReadCalls(Tail(w))
<1>1. /\ IsList(Tail(w))
      /\ \A i \in 1 .. Len(Tail(w)) : i + 1 \in 1 .. Len(w) /\ Tail(w)[i] = w[i + 1]
  BY TailOf
<1> QED BY <1>1 DEF ReadCalls

LEMMA ReadCallsInFront ==
  ASSUME NEW a, IsList(a), NEW b, IsList(b), ReadCalls(a), ReadCalls(b)
  PROVE  IsList(a \o b) /\ ReadCalls(a \o b)
<1>0. /\ IsList(a \o b) /\ Len(a \o b) = Len(a) + Len(b) /\ Len(a) \in Nat /\ Len(b) \in Nat
      /\ \A i \in 1 .. Len(a) : i \in 1 .. Len(a \o b) /\ (a \o b)[i] = a[i]
      /\ \A i \in 1 .. Len(b) : Len(a) + i \in 1 .. Len(a \o b) /\ (a \o b)[Len(a) + i] = b[i]
      /\ \A i \in 1 .. Len(a \o b) :
           i \in 1 .. Len(a) \/ (i - Len(a) \in 1 .. Len(b) /\ (a \o b)[i] = b[i - Len(a)])
  BY InFront, Zenon
<1> DEFINE c == a \o b
           n == Len(a)
<1>1. /\ IsList(c) /\ Len(c) = n + Len(b) /\ n \in Nat /\ Len(b) \in Nat
      /\ \A i \in 1 .. n : i \in 1 .. Len(c) /\ c[i] = a[i]
      /\ \A i \in 1 .. Len(c) : i \in 1 .. n \/ (i - n \in 1 .. Len(b) /\ c[i] = b[i - n])
  BY <1>0
<1> HIDE DEF c, n
<1>2. ASSUME NEW i \in 1 .. Len(c)
      PROVE  c[i].path \in DOMAIN tree /\ c[i].at = tree[c[i].path].at
  <2>1. CASE i \in 1 .. n
    BY <1>1, <2>1 DEF n, ReadCalls
  <2>2. CASE i - n \in 1 .. Len(b) /\ c[i] = b[i - n]
    BY <2>2 DEF ReadCalls
  <2> QED BY <1>1, <2>1, <2>2
<1>3. ReadCalls(c)
  BY <1>2 DEF ReadCalls
<1> QED BY <1>1, <1>3 DEF c

LEMMA TreeFieldsToCome ==
  ASSUME GrownTree(tree), NEW call, call.path \in DOMAIN tree, call.at = tree[call.path].at
  PROVE  /\ IsList(TreeFields(call)) /\ ReadCalls(TreeFields(call))
         /\ \A k \in 1 .. Len(tree[call.path].kids) :
              ToCome(TreeFields(call), Append(call.path, tree[call.path].kids[k]))
<1> DEFINE c == call.path
           kids == tree[c].kids
           f == TreeFields(call)
<1>1. IsList(c) /\ IsList(kids)
  BY DEF GrownTree, IsNode
<1>2. f = [k \in DOMAIN kids |-> ReadCall(Append(c, kids[k]),
                                      Sum(call.at, tree[Append(c, kids[k])].offset))]
  BY DEF TreeFields
<1>3. f = [k \in DOMAIN kids |-> f[k]]
  BY <1>2
<1> HIDE DEF f
<1>4. IsList(f) /\ Len(f) = Len(kids) /\ DOMAIN kids = 1 .. Len(kids)
  BY <1>1, <1>3, ListOver
<1>5. ASSUME NEW k \in 1 .. Len(kids)
      PROVE  LET q == Append(c, kids[k]) IN
             f[k].path = q /\ q \in DOMAIN tree /\ f[k].at = tree[q].at
  <2> DEFINE q == Append(c, kids[k])
  <2>1. q \in DOMAIN tree /\ tree[q].at = Sum(tree[c].at, tree[q].offset)
    BY FieldOf
  <2>2. f[k] = ReadCall(q, Sum(call.at, tree[q].offset))
    BY <1>2, <1>4
  <2> HIDE DEF q
  <2>3. f[k].path = q /\ f[k].at = tree[q].at
    BY <2>1, <2>2 DEF ReadCall
  <2> QED BY <2>1, <2>3 DEF q
<1>6. ReadCalls(f)
  BY <1>4, <1>5 DEF ReadCalls
<1>7. \A k \in 1 .. Len(kids) : ToCome(f, Append(c, kids[k]))
  BY <1>4, <1>5 DEF ToCome
<1> QED BY <1>4, <1>6, <1>7 DEF f

LEMMA ReadReturns ==
  ASSUME NEW w, IsList(w), w # <<>>, GrownTree(tree), NEW v, ReadCovers(w, v), NEW v1,
         DOMAIN v \subseteq DOMAIN v1, Head(w).path \in DOMAIN v1,
         ~Here(Head(w).path) \/ tree[Head(w).path].shape # "struct"
  PROVE  ReadCovers(Tail(w), v1)
<1> SUFFICES ASSUME NEW p \in DOMAIN tree, p \notin DOMAIN v1
             PROVE  \E n \in 0 .. Len(p) : ToCome(Tail(w), Up(p, n)) \/ ~Here(Up(p, n))
  BY DEF ReadCovers
<1>1. PICK n \in 0 .. Len(p) : ToCome(w, Up(p, n)) \/ ~Here(Up(p, n))
  BY DEF ReadCovers
<1>2. CASE ~Here(Up(p, n))
  BY <1>2
<1>3. CASE ToCome(w, Up(p, n))
  <2>1. Up(p, n) = Head(w).path \/ ToCome(Tail(w), Up(p, n))
    BY <1>3, OneLessToCome
  <2>2. CASE Up(p, n) = Head(w).path
    <3>1. CASE ~Here(Head(w).path)
      BY <2>2, <3>1
    <3>2. CASE tree[Head(w).path].shape # "struct"
      <4>1. tree[Up(p, n)].shape # "struct"
        BY <2>2, <3>2
      <4>2. Up(p, n) = p
        BY <4>1, InnerIsStruct
      <4> QED BY <2>2, <4>2
    <3> QED BY <3>1, <3>2
  <2> QED BY <2>1, <2>2
<1> QED BY <1>1, <1>2, <1>3

LEMMA ReadExpands ==
  ASSUME NEW w, IsList(w), w # <<>>, GrownTree(tree), NEW v, ReadCovers(w, v), NEW v1,
         DOMAIN v \subseteq DOMAIN v1, Head(w).path \in DOMAIN v1, NEW f, IsList(f),
         \A k \in 1 .. Len(tree[Head(w).path].kids) :
           ToCome(f, Append(Head(w).path, tree[Head(w).path].kids[k]))
  PROVE  ReadCovers(f \o Tail(w), v1)
<1> SUFFICES ASSUME NEW p \in DOMAIN tree, p \notin DOMAIN v1
             PROVE  \E n \in 0 .. Len(p) : ToCome(f \o Tail(w), Up(p, n)) \/ ~Here(Up(p, n))
  BY DEF ReadCovers
<1>1. PICK n \in 0 .. Len(p) : ToCome(w, Up(p, n)) \/ ~Here(Up(p, n))
  BY DEF ReadCovers
<1>2. CASE ~Here(Up(p, n))
  BY <1>2
<1>3. CASE ToCome(w, Up(p, n))
  <2>1. IsList(Tail(w))
    BY TailOf
  <2>2. Up(p, n) = Head(w).path \/ ToCome(Tail(w), Up(p, n))
    BY <1>3, OneLessToCome
  <2>3. CASE ToCome(Tail(w), Up(p, n))
    <3>1. ToCome(f \o Tail(w), Up(p, n))
      BY <2>1, <2>3, ToComeInFront
    <3> QED BY <3>1
  <2>4. CASE Up(p, n) = Head(w).path
    <3>1. n # Len(p)
      <4> SUFFICES ASSUME n = Len(p) PROVE FALSE
        OBVIOUS
      <4>1. Up(p, n) = p
        BY UpAll DEF GrownTree
      <4> QED BY <2>4, <4>1
    <3>2. /\ n + 1 \in 0 .. Len(p) /\ Up(p, n) \in DOMAIN tree /\ tree[Up(p, n)].shape = "struct"
          /\ \E k \in 1 .. Len(tree[Up(p, n)].kids) : Up(p, n + 1) = Append(Up(p, n), tree[Up(p, n)].kids[k])
      BY <3>1, NextUp
    <3> DEFINE q == Up(p, n)
    <3>3. PICK k \in 1 .. Len(tree[q].kids) : Up(p, n + 1) = Append(q, tree[q].kids[k])
      BY <3>2
    <3> HIDE DEF q
    <3>4. ToCome(f, Up(p, n + 1))
      <4>1. q = Head(w).path
        BY <2>4 DEF q
      <4>2. \A i \in 1 .. Len(tree[q].kids) : ToCome(f, Append(q, tree[q].kids[i]))
        BY <4>1
      <4>3. ToCome(f, Append(q, tree[q].kids[k]))
        BY <4>2
      <4> QED BY <3>3, <4>3
    <3>5. ToCome(f \o Tail(w), Up(p, n + 1))
      BY <2>1, <3>4, ToComeInFront
    <3> QED BY <3>2, <3>5
  <2> QED BY <2>2, <2>3, <2>4
<1> QED BY <1>1, <1>2, <1>3

LEMMA ValueRead ==
  ASSUME NEW v, TreeEntries(v), NEW q \in DOMAIN tree, NEW value, value = Seen(q)
  PROVE  /\ TreeEntries(Insert(v, q, value)) /\ q \in DOMAIN Insert(v, q, value)
         /\ DOMAIN v \subseteq DOMAIN Insert(v, q, value)
<1> DEFINE v1 == Insert(v, q, value)
<1>1. DOMAIN v1 = DOMAIN v \cup {q} /\ \A k \in DOMAIN v1 : v1[k] = IF k = q THEN value ELSE v[k]
  BY DEF Insert
<1> HIDE DEF v1
<1>2. \A k \in DOMAIN v1 : k \in DOMAIN tree /\ v1[k] = Seen(k)
  BY <1>1 DEF TreeEntries
<1> QED BY <1>1, <1>2 DEF TreeEntries, v1

LEMMA StepRead ==
  ASSUME IsList(walk), GrownTree(tree), ReadCalls(walk), TreeEntries(as_tree),
         ReadCovers(walk, as_tree), ReadStep
  PROVE  IsList(walk') /\ ReadCalls(walk') /\ TreeEntries(as_tree') /\ ReadCovers(walk', as_tree')
<1> DEFINE c == Call.path
           node == tree[c]
<1>1. walk # <<>>
  BY DEF ReadStep
<1>2. c \in DOMAIN tree /\ Call.at = node.at /\ Call = Head(walk)
  <2>1. 1 \in 1 .. Len(walk) /\ Call = walk[1]
    BY <1>1, TailOf DEF Call
  <2> QED BY <2>1 DEF ReadCalls, Call
<1>3. IsList(Tail(walk)) /\ ReadCalls(Tail(walk))
  BY <1>1, TailReadCalls
<1>4. PICK value : as_tree' = Insert(as_tree, c, value) /\ value = Seen(c)
  BY <1>2 DEF ReadStep, Seen, Here
<1>5. TreeEntries(as_tree') /\ c \in DOMAIN as_tree' /\ DOMAIN as_tree \subseteq DOMAIN as_tree'
  BY <1>2, <1>4, ValueRead
<1>6. CASE ~(Here(c) /\ node.shape = "struct")
  <2>1. walk' = Tail(walk)
    BY <1>2, <1>6 DEF ReadStep, Here, Return
  <2>2. ReadCovers(Tail(walk), as_tree')
    BY <1>1, <1>2, <1>5, <1>6, ReadReturns
  <2> QED BY <1>3, <1>5, <2>1, <2>2
<1>7. CASE Here(c) /\ node.shape = "struct"
  <2> DEFINE f == TreeFields(Call)
  <2>1. walk' = f \o Tail(walk)
    BY <1>2, <1>7 DEF ReadStep, Here
  <2>2. /\ IsList(f) /\ ReadCalls(f)
        /\ \A k \in 1 .. Len(node.kids) : ToCome(f, Append(c, node.kids[k]))
    BY <1>2, TreeFieldsToCome
  <2> HIDE DEF f
  <2>3. IsList(f \o Tail(walk)) /\ ReadCalls(f \o Tail(walk))
    BY <1>3, <2>2, ReadCallsInFront
  <2>4. ReadCovers(f \o Tail(walk), as_tree')
    BY <1>1, <1>2, <1>5, <2>2, ReadExpands
  <2> QED BY <1>5, <2>1, <2>3, <2>4
<1> QED BY <1>6, <1>7

--------------------------------------------------------------------------------
(* The invariant of all three.                                                  *)

NotYet ==
  /\ task = "idle" => walk = <<>> /\ First
  /\ task \in {"idle", "tree"} => DOMAIN type_map = {}
  /\ task \in {"idle", "tree", "map"} => DOMAIN as_tree = {}

HasTree == GrownTree(tree) /\ length = GetSize(tree[<<>>])

IsMapped ==
  /\ MapEntries(type_map)
  /\ IF task = "map" THEN IsList(walk) /\ MapCalls(walk) /\ MapCovers(walk, type_map)
     ELSE MapCovers(<<>>, type_map)

IsRead ==
  /\ sample \in Nat /\ as_map = ReadMap(type_map, sample)
  /\ IsList(walk) /\ ReadCalls(walk) /\ TreeEntries(as_tree) /\ ReadCovers(walk, as_tree)

SymbolsInv ==
  /\ NotYet
  /\ task = "tree" => IsList(walk) /\ TreeWalk
  /\ task \in {"map", "read"} => HasTree /\ (NoEmptyName => IsMapped)
  /\ task = "read" => IsRead

LEMMA InitSymbols == SymbolsInit => TInv /\ AInv /\ SymbolsInv
<1> SUFFICES ASSUME SymbolsInit PROVE TInv /\ AInv /\ SymbolsInv
  OBVIOUS
<1>1. TInv /\ AInv
  BY InitTables, GoodInit DEF SymbolsInit
<1>2. task = "idle" /\ walk = <<>> /\ tree = <<>> /\ type_map = <<>> /\ as_tree = <<>>
  BY DEF SymbolsInit
<1>3. SymbolsInv
  BY <1>2, NoItems DEF SymbolsInv, NotYet, First
<1> QED BY <1>1, <1>3

LEMMA SameTables == TInv /\ AInv /\ UNCHANGED vars => (TInv /\ AInv)'
<1> SUFFICES ASSUME TInv, AInv, UNCHANGED vars PROVE TInv' /\ AInv'
  OBVIOUS
<1>1. UNCHANGED <<upload, data, stack, pc, types, symbols>>
  BY DEF vars
<1>2. TInv'
  BY NextTables
<1>3. Reading' = Reading /\ Bottom'
  BY <1>1 DEF AInv, Bottom, Reading
<1>4. AInv'
  BY <1>1, <1>3 DEF AInv
<1> QED BY <1>2, <1>4

LEMMA SameLayout == SymbolsInv /\ UNCHANGED layout_vars => SymbolsInv'
<1> SUFFICES ASSUME SymbolsInv, UNCHANGED layout_vars PROVE SymbolsInv'
  OBVIOUS
<1>1. UNCHANGED <<task, walk, tree, length, type_map, sample, as_tree, as_map>>
  BY DEF layout_vars, sample_vars
<1>2. NotYet' = NotYet
  BY <1>1 DEF NotYet, First
<1>3. TreeWalk' = TreeWalk
  BY <1>1 DEF TreeWalk, First, Call
<1>4. HasTree' = HasTree /\ NoEmptyName' = NoEmptyName
  BY <1>1 DEF HasTree, NoEmptyName
<1>5. IsMapped' = IsMapped
  <2>1. MapEntries(type_map)' = MapEntries(type_map)
    BY <1>1 DEF MapEntries, Described, Timely, Part
  <2>2. MapCalls(walk)' = MapCalls(walk)
    BY <1>1 DEF MapCalls
  <2>3. MapCovers(walk, type_map)' = MapCovers(walk, type_map)
    BY <1>1 DEF MapCovers, Mapped, Timely, Part
  <2>4. MapCovers(<<>>, type_map)' = MapCovers(<<>>, type_map)
    BY <1>1 DEF MapCovers, Mapped, Timely, Part
  <2> QED BY <1>1, <2>1, <2>2, <2>3, <2>4 DEF IsMapped
<1>6. IsRead' = IsRead
  <2>1. ReadCalls(walk)' = ReadCalls(walk)
    BY <1>1 DEF ReadCalls
  <2>2. TreeEntries(as_tree)' = TreeEntries(as_tree)
    BY <1>1 DEF TreeEntries, Seen, Here
  <2>3. ReadCovers(walk, as_tree)' = ReadCovers(walk, as_tree)
    BY <1>1 DEF ReadCovers, Here
  <2> QED BY <1>1, <2>1, <2>2, <2>3 DEF IsRead
<1> QED BY <1>1, <1>2, <1>3, <1>4, <1>5, <1>6 DEF SymbolsInv

(* While the tree is made.                                                      *)
LEMMA TreeStep ==
  ASSUME AInv, SymbolsInv,
         (\E name \in Wanted : GetDynamicTypeTree(name)) \/ NotAField \/ TypeIsSimple \/ TypeIsCompound
  PROVE  SymbolsInv' /\ UNCHANGED vars
<1>1. AllEntries(types) /\ AllEntries(symbols) /\ NotYet
  BY DEF AInv, SymbolsInv
<1>2. UNCHANGED vars /\ UNCHANGED type_map /\ UNCHANGED as_tree
  <2>1. CASE \E name \in Wanted : GetDynamicTypeTree(name)
    BY <2>1 DEF GetDynamicTypeTree, sample_vars
  <2>2. CASE NotAField
    BY <2>2 DEF NotAField, sample_vars
  <2>3. CASE TypeIsSimple
    BY <2>3 DEF TypeIsSimple, Put, sample_vars
  <2>4. CASE TypeIsCompound
    BY <2>4 DEF TypeIsCompound, Put, sample_vars
  <2> QED BY <2>1, <2>2, <2>3, <2>4
<1>3. /\ task' = "panic" \/ (task' = "tree" /\ IsList(walk') /\ TreeWalk')
      /\ task \in {"idle", "tree"}
  <2>1. CASE \E name \in Wanted : GetDynamicTypeTree(name)
    <3>1. PICK name \in Wanted : GetDynamicTypeTree(name)
      BY <2>1
    <3>2. task = "idle" /\ task' = "tree"
      BY <3>1 DEF GetDynamicTypeTree
    <3> QED BY <1>1, <3>1, <3>2, StepAsked DEF NotYet
  <2>2. CASE NotAField
    <3>1. task = "tree" /\ task' = "tree"
      BY <2>2 DEF NotAField, Typing
    <3> QED BY <1>1, <2>2, <3>1, StepNotAField DEF SymbolsInv
  <2>3. CASE TypeIsSimple
    <3>1. task = "tree" /\ task' = "tree"
      BY <2>3 DEF TypeIsSimple, Typing, Put
    <3> QED BY <1>1, <2>3, <3>1, StepTypeIsSimple DEF SymbolsInv
  <2>4. CASE TypeIsCompound
    <3>1. task = "tree"
      BY <2>4 DEF TypeIsCompound, Typing
    <3> QED BY <1>1, <2>4, <3>1, StepTypeIsCompound DEF SymbolsInv
  <2> QED BY <2>1, <2>2, <2>3, <2>4
<1>4. NotYet'
  BY <1>1, <1>2, <1>3 DEF NotYet
<1> QED BY <1>2, <1>3, <1>4 DEF SymbolsInv

LEMMA StillMapped ==
  ASSUME tree' = tree
  PROVE  /\ MapEntries(type_map)' = MapEntries(type_map')
         /\ MapCalls(walk)' = MapCalls(walk')
         /\ MapCovers(walk, type_map)' = MapCovers(walk', type_map')
         /\ MapCovers(<<>>, type_map)' = MapCovers(<<>>, type_map')
         /\ NoEmptyName' = NoEmptyName
<1>1. MapEntries(type_map)' = MapEntries(type_map')
  BY DEF MapEntries, Described, Timely, Part
<1>2. MapCalls(walk)' = MapCalls(walk')
  BY DEF MapCalls
<1>3. MapCovers(walk, type_map)' = MapCovers(walk', type_map')
  BY DEF MapCovers, Mapped, Timely, Part
<1>4. MapCovers(<<>>, type_map)' = MapCovers(<<>>, type_map')
  BY DEF MapCovers, Mapped, Timely, Part
<1>5. NoEmptyName' = NoEmptyName
  BY DEF NoEmptyName
<1> QED BY <1>1, <1>2, <1>3, <1>4, <1>5

LEMMA StillRead ==
  ASSUME tree' = tree, sample' = sample
  PROVE  /\ ReadCalls(walk)' = ReadCalls(walk')
         /\ TreeEntries(as_tree)' = TreeEntries(as_tree')
         /\ ReadCovers(walk, as_tree)' = ReadCovers(walk', as_tree')
<1>1. ReadCalls(walk)' = ReadCalls(walk')
  BY DEF ReadCalls
<1>2. TreeEntries(as_tree)' = TreeEntries(as_tree')
  BY DEF TreeEntries, Seen, Here
<1>3. ReadCovers(walk, as_tree)' = ReadCovers(walk', as_tree')
  BY DEF ReadCovers, Here
<1> QED BY <1>1, <1>2, <1>3

(* From the root on.                                                            *)
LEMMA RootToCome ==
  ASSUME GrownTree(tree), NEW call, call.path = <<>>, NEW p \in DOMAIN tree
  PROVE  0 \in 0 .. Len(p) /\ ToCome(<<call>>, Up(p, 0)) /\ Up(p, 0) = <<>>
<1>1. IsList(p) /\ Len(p) \in Nat /\ Up(p, 0) = <<>>
  BY LenOf, UpAll DEF GrownTree
<1>2. 0 \in 0 .. Len(p)
  BY <1>1
<1>3. ToCome(<<call>>, <<>>)
  <2> DEFINE w == <<call>>
  <2>1. 1 \in 1 .. Len(w) /\ w[1] = call
    BY OneItem
  <2> HIDE DEF w
  <2>2. ToCome(w, <<>>)
    BY <2>1 DEF ToCome
  <2> QED BY <2>2 DEF w
<1> QED BY <1>1, <1>2, <1>3

LEMMA SubscribeStep == ASSUME SymbolsInv, Subscribe PROVE SymbolsInv' /\ UNCHANGED vars
<1>1. /\ task = "tree" /\ walk = <<>> /\ task' = "map" /\ length' = GetSize(tree[<<>>])
      /\ UNCHANGED tree /\ UNCHANGED type_map /\ UNCHANGED as_tree /\ UNCHANGED vars
      /\ walk' = <<MapCall(<<>>, <<>>, 0)>>
  BY DEF Subscribe, sample_vars
<1>2. GrownTree(tree) /\ <<>> \in DOMAIN tree /\ tree[<<>>].at = 0
  <2>1. Len(walk) # 1
    BY <1>1, NoItems
  <2>2. GrownTree(tree)
    BY <1>1, <2>1 DEF SymbolsInv, TreeWalk
  <2> QED BY <2>2 DEF GrownTree
<1>3. NotYet' /\ DOMAIN type_map = {}
  BY <1>1 DEF SymbolsInv, NotYet
<1> DEFINE call == MapCall(<<>>, <<>>, 0)
<1>4. call.path = <<>> /\ call.key = <<>> /\ call.at = 0
  BY DEF MapCall
<1>5. walk' = <<call>>
  BY <1>1
<1> HIDE DEF call
<1>6. IsList(walk') /\ \A i \in 1 .. Len(walk') : walk'[i] = call
  BY <1>5, OneItem
<1>7. MapCalls(walk')
  BY <1>2, <1>4, <1>6 DEF MapCalls
<1>8. MapCovers(walk', type_map')
  <2> SUFFICES ASSUME NEW p \in DOMAIN tree
               PROVE  \E n \in 0 .. Len(p) : ToCome(walk', Up(p, n))
    BY DEF MapCovers
  <2> QED BY <1>2, <1>4, <1>5, RootToCome
<1>9. MapEntries(type_map')
  BY <1>1, <1>3 DEF MapEntries
<1>10. IsMapped'
  BY <1>1, <1>6, <1>7, <1>8, <1>9, StillMapped DEF IsMapped
<1>11. HasTree'
  BY <1>1, <1>2 DEF HasTree
<1> QED BY <1>1, <1>3, <1>10, <1>11 DEF SymbolsInv

LEMMA MapStepKeeps == ASSUME SymbolsInv, MapStep PROVE SymbolsInv' /\ UNCHANGED vars
<1>1. /\ task = "map" /\ task' = task /\ walk # <<>>
      /\ UNCHANGED tree /\ UNCHANGED length /\ UNCHANGED as_tree /\ UNCHANGED vars
  BY DEF MapStep, sample_vars
<1>2. GrownTree(tree) /\ NotYet /\ HasTree
  BY <1>1 DEF SymbolsInv, HasTree
<1>3. NotYet'
  BY <1>1, <1>2 DEF NotYet
<1>4. HasTree'
  BY <1>1, <1>2 DEF HasTree
<1>5. ASSUME NoEmptyName PROVE IsMapped'
  <2>1. IsList(walk) /\ MapCalls(walk) /\ MapEntries(type_map) /\ MapCovers(walk, type_map)
    BY <1>1, <1>5 DEF SymbolsInv, IsMapped
  <2>2. IsList(walk') /\ MapCalls(walk') /\ MapEntries(type_map') /\ MapCovers(walk', type_map')
    BY <1>2, <1>5, <2>1, StepMap
  <2> QED BY <1>1, <2>2, StillMapped DEF IsMapped
<1>6. NoEmptyName' = NoEmptyName
  BY <1>1, StillMapped
<1> QED BY <1>1, <1>3, <1>4, <1>5, <1>6 DEF SymbolsInv

LEMMA RecvKeeps == ASSUME SymbolsInv, NEW n \in Lengths, Recv(n) PROVE SymbolsInv' /\ UNCHANGED vars
<1>1. /\ task = "map" /\ walk = <<>> /\ task' = "read" /\ sample' = n /\ as_map' = ReadMap(type_map, n)
      /\ UNCHANGED tree /\ UNCHANGED length /\ UNCHANGED type_map /\ UNCHANGED as_tree /\ UNCHANGED vars
      /\ walk' = <<ReadCall(<<>>, 0)>>
  BY DEF Recv
<1>2. HasTree /\ NotYet /\ (NoEmptyName => IsMapped)
  BY <1>1 DEF SymbolsInv
<1>3. GrownTree(tree) /\ <<>> \in DOMAIN tree /\ tree[<<>>].at = 0 /\ DOMAIN as_tree = {}
  BY <1>1, <1>2 DEF HasTree, GrownTree, NotYet
<1>4. NotYet'
  BY <1>1, <1>2 DEF NotYet
<1>5. HasTree'
  BY <1>1, <1>2 DEF HasTree
<1>6. ASSUME NoEmptyName PROVE IsMapped'
  <2>1. MapEntries(type_map) /\ MapCovers(<<>>, type_map)
    BY <1>1, <1>2, <1>6 DEF IsMapped
  <2>2. MapEntries(type_map') /\ MapCovers(<<>>, type_map')
    BY <1>1, <2>1
  <2> QED BY <1>1, <2>2, StillMapped DEF IsMapped
<1> DEFINE call == ReadCall(<<>>, 0)
<1>7. call.path = <<>> /\ call.at = 0
  BY DEF ReadCall
<1>8. walk' = <<call>>
  BY <1>1
<1> HIDE DEF call
<1>9. IsList(walk') /\ \A i \in 1 .. Len(walk') : walk'[i] = call
  BY <1>8, OneItem
<1>10. ReadCalls(walk)'
  BY <1>1, <1>3, <1>7, <1>9 DEF ReadCalls
<1>11. ReadCovers(walk, as_tree)'
  <2> SUFFICES ASSUME NEW p \in DOMAIN tree
               PROVE  \E m \in 0 .. Len(p) : ToCome(walk', Up(p, m))
    BY <1>1 DEF ReadCovers
  <2> QED BY <1>3, <1>7, <1>8, RootToCome
<1>12. TreeEntries(as_tree)'
  BY <1>1, <1>3 DEF TreeEntries
<1>13. IsRead'
  BY <1>1, <1>9, <1>10, <1>11, <1>12, SymbolConstants DEF IsRead
<1>14. NoEmptyName' = NoEmptyName
  BY <1>1, StillMapped
<1> QED BY <1>1, <1>4, <1>5, <1>6, <1>13, <1>14 DEF SymbolsInv

LEMMA ReadStepKeeps == ASSUME SymbolsInv, ReadStep PROVE SymbolsInv' /\ UNCHANGED vars
<1>1. /\ task = "read" /\ task' = task /\ sample' = sample /\ as_map' = as_map
      /\ UNCHANGED tree /\ UNCHANGED length /\ UNCHANGED type_map /\ UNCHANGED vars
  BY DEF ReadStep
<1>2. HasTree /\ NotYet /\ (NoEmptyName => IsMapped) /\ IsRead /\ GrownTree(tree)
  BY <1>1 DEF SymbolsInv, HasTree
<1>3. NotYet'
  BY <1>1, <1>2 DEF NotYet
<1>4. HasTree'
  BY <1>1, <1>2 DEF HasTree
<1>5. ASSUME NoEmptyName PROVE IsMapped'
  <2>1. MapEntries(type_map) /\ MapCovers(<<>>, type_map)
    BY <1>1, <1>2, <1>5 DEF IsMapped
  <2>2. MapEntries(type_map') /\ MapCovers(<<>>, type_map')
    BY <1>1, <2>1
  <2> QED BY <1>1, <2>2, StillMapped DEF IsMapped
<1>6. IsRead'
  <2>1. IsList(walk') /\ ReadCalls(walk') /\ TreeEntries(as_tree') /\ ReadCovers(walk', as_tree')
    BY <1>2, StepRead DEF IsRead
  <2>2. ReadCalls(walk)' /\ TreeEntries(as_tree)' /\ ReadCovers(walk, as_tree)'
    BY <1>1, <2>1, StillRead
  <2> QED BY <1>1, <1>2, <2>1, <2>2 DEF IsRead
<1>7. NoEmptyName' = NoEmptyName
  BY <1>1, StillMapped
<1> QED BY <1>1, <1>3, <1>4, <1>5, <1>6, <1>7 DEF SymbolsInv

LEMMA NextSymbols == TInv /\ AInv /\ SymbolsInv /\ [SymbolsNext]_all_vars => (TInv /\ AInv /\ SymbolsInv)'
<1> SUFFICES ASSUME TInv, AInv, SymbolsInv, [SymbolsNext]_all_vars PROVE TInv' /\ AInv' /\ SymbolsInv'
  OBVIOUS
<1>1. CASE DecodeStep /\ UNCHANGED layout_vars
  BY <1>1, NextTables, GoodNext, SameLayout
<1>2. CASE (\E name \in Wanted : GetDynamicTypeTree(name)) \/ NotAField \/ TypeIsSimple \/ TypeIsCompound
  BY <1>2, TreeStep, SameTables
<1>3. CASE Subscribe
  BY <1>3, SubscribeStep, SameTables
<1>4. CASE MapStep
  BY <1>4, MapStepKeeps, SameTables
<1>5. CASE \E n \in Lengths : Recv(n)
  BY <1>5, RecvKeeps, SameTables
<1>6. CASE ReadStep
  BY <1>6, ReadStepKeeps, SameTables
<1>7. CASE UNCHANGED all_vars
  <2>1. UNCHANGED vars /\ UNCHANGED layout_vars
    BY <1>7 DEF all_vars
  <2> QED BY <2>1, SameTables, SameLayout
<1> QED BY <1>1, <1>2, <1>3, <1>4, <1>5, <1>6, <1>7 DEF SymbolsNext, Finished

--------------------------------------------------------------------------------
(* When all is read.                                                            *)

AllRead ==
  /\ GrownTree(tree) /\ length = GetSize(tree[<<>>]) /\ sample \in Nat
  /\ MapEntries(type_map)
  /\ \A p \in DOMAIN tree : tree[p].shape \notin {"struct", "missing"} =>
       \E n \in 0 .. Len(p) : Mapped(type_map, Up(p, n))
  /\ DOMAIN as_map = DOMAIN type_map
  /\ \A k \in DOMAIN as_map : as_map[k] = ReadPrimitive(type_map[k], sample)
  /\ TreeEntries(as_tree)
  /\ \A p \in DOMAIN tree : Here(p) => p \in DOMAIN as_tree /\ as_tree[p] = Seen(p)

LEMMA HereBefore ==
  ASSUME GrownTree(tree), sample \in Nat, NEW p \in DOMAIN tree, Here(p), NEW n \in 0 .. Len(p)
  PROVE  /\ Up(p, n) \in DOMAIN tree /\ Here(Up(p, n)) /\ tree[Up(p, n)].at \in Nat
         /\ tree[p].at \in Nat /\ tree[Up(p, n)].at <= tree[p].at
<1>1. Rises(tree, p) /\ Rooted(tree, p) /\ IsNode(tree[p])
  BY DEF GrownTree
<1>2. Up(p, n) \in DOMAIN tree /\ tree[Up(p, n)].at \in Nat /\ tree[Up(p, n)].at <= tree[p].at
  BY <1>1 DEF Rises, Rooted, Here
<1>3. tree[p].at \in Nat /\ tree[p].at <= sample
  BY <1>1 DEF IsNode, Here
<1>4. tree[Up(p, n)].at # NoOffset /\ tree[Up(p, n)].at <= sample
  BY <1>2, <1>3, SymbolConstants
<1> QED BY <1>2, <1>3, <1>4 DEF Here

LEMMA ReadAll == ASSUME SymbolsInv, Received, NoEmptyName PROVE AllRead
<1>1. task = "read" /\ walk = <<>>
  BY DEF Received
<1>2. HasTree /\ IsMapped /\ IsRead
  BY <1>1 DEF SymbolsInv
<1>3. GrownTree(tree) /\ length = GetSize(tree[<<>>]) /\ sample \in Nat
  BY <1>2 DEF HasTree, IsRead
<1>4. MapEntries(type_map) /\ MapCovers(<<>>, type_map)
  BY <1>1, <1>2 DEF IsMapped
<1>5. ReadCovers(<<>>, as_tree) /\ TreeEntries(as_tree)
  BY <1>1, <1>2 DEF IsRead
<1>6. \A q : ~ToCome(<<>>, q)
  <2>1. \A k : k = 0 => \A i \in 1 .. k : FALSE
    OBVIOUS
  <2>2. \A i \in 1 .. Len(<<>>) : FALSE
    BY <2>1, NoItems
  <2> QED BY <2>2 DEF ToCome
<1>7. \A p \in DOMAIN tree : tree[p].shape \notin {"struct", "missing"} =>
        \E n \in 0 .. Len(p) : Mapped(type_map, Up(p, n))
  BY <1>4, <1>6 DEF MapCovers
<1>8. ASSUME NEW p \in DOMAIN tree, Here(p) PROVE p \in DOMAIN as_tree /\ as_tree[p] = Seen(p)
  <2>1. \A n \in 0 .. Len(p) : Here(Up(p, n))
    BY <1>3, <1>8, HereBefore
  <2>2. p \in DOMAIN as_tree
    BY <1>5, <1>6, <2>1 DEF ReadCovers
  <2> QED BY <1>5, <2>2 DEF TreeEntries
<1>9. DOMAIN as_map = DOMAIN type_map /\ \A k \in DOMAIN as_map : as_map[k] = ReadPrimitive(type_map[k], sample)
  BY <1>2 DEF IsRead, ReadMap
<1> QED BY <1>3, <1>4, <1>5, <1>7, <1>8, <1>9 DEF AllRead

(* What is read of one node, by its shape.                                      *)
Plain == {"void", "string", "wstring", "array"}

LEMMA LeafRead ==
  ASSUME NEW leaf, NEW at \in Nat, NEW n \in Nat, leaf.size \in Nat,
         leaf.shape \in Shapes \ {"struct"}, leaf.shape = "number" => leaf.base \in Numbers
  PROVE  LET v == ReadLeaf(leaf, at, n) IN
         /\ leaf.shape = "number" =>
              /\ Bytes(leaf.base) \in Nat
              /\ at + Bytes(leaf.base) > n => v = Failed("malformed")
              /\ at + Bytes(leaf.base) <= n => v = Value("number", leaf.base, at, Bytes(leaf.base))
         /\ leaf.shape \in {"missing", "unknown"} => v = Failed(leaf.shape)
         /\ leaf.shape \in Plain =>
              \/ leaf.shape = "wstring" /\ leaf.size % 2 # 0 /\ v = Failed("malformed")
              \/ at + leaf.size > n /\ v = Failed("panic")
              \/ at + leaf.size <= n /\ v = Value(leaf.shape, leaf.base, at, leaf.size)
<1>1. CASE leaf.shape = "number"
  <2>1. leaf.base \in {2, 3, 4, 5, 16, 17, 18, 19, 20, 21, 32, 33}
    BY <1>1 DEF Numbers, Uint
  <2>2. Bytes(leaf.base) \in Nat
    BY <2>1 DEF Bytes, Uint
  <2>3. /\ at + Bytes(leaf.base) > n => ReadLeaf(leaf, at, n) = Failed("malformed")
        /\ ~(at + Bytes(leaf.base) > n) =>
             ReadLeaf(leaf, at, n) = Value("number", leaf.base, at, Bytes(leaf.base))
    BY <1>1 DEF ReadLeaf
  <2>4. at + Bytes(leaf.base) <= n => ~(at + Bytes(leaf.base) > n)
    BY <2>2
  <2> QED BY <1>1, <2>2, <2>3, <2>4 DEF Plain
<1>2. CASE leaf.shape \in {"missing", "unknown"}
  BY <1>2 DEF ReadLeaf, Plain
<1>3. CASE leaf.shape = "wstring" /\ leaf.size % 2 # 0
  BY <1>3 DEF ReadLeaf, Plain
<1>4. CASE leaf.shape \in Plain /\ ~(leaf.shape = "wstring" /\ leaf.size % 2 # 0)
  <2>1. ReadLeaf(leaf, at, n) = IF at + leaf.size > n THEN Failed("panic")
                                ELSE Value(leaf.shape, leaf.base, at, leaf.size)
    BY <1>4 DEF ReadLeaf, Plain
  <2>2. ~(at + leaf.size > n) => at + leaf.size <= n
    OBVIOUS
  <2> QED BY <1>4, <2>1, <2>2 DEF Plain
<1> QED BY <1>1, <1>2, <1>3, <1>4 DEF Shapes, Plain

LEMMA TimeRead ==
  ASSUME NEW time, NEW n \in Nat, time.at \in Nat, \A i \in Dated : time.parts[i] \in Nat
  PROVE  /\ (\A i \in Dated : time.at + time.parts[i] + 2 <= n) =>
              /\ ReadTime(time, n).what = "time"
              /\ ReadTime(time, n).at = [i \in Dated |-> time.at + time.parts[i]]
         /\ (\E i \in Dated : ~(time.at + time.parts[i] + 2 <= n)) =>
              ReadTime(time, n) \in {Failed("panic"), Failed("malformed")}
<1> DEFINE first == [i \in Dated |-> time.at + time.parts[i]]
           cut == {i \in Dated : first[i] + Bytes(Uint) > n}
           earliest == CHOOSE i \in cut : \A j \in cut : i <= j
<1>1. Bytes(Uint) = 2
  BY DEF Bytes, Uint
<1>2. \A i \in Dated : i \in cut <=> ~(time.at + time.parts[i] + 2 <= n)
  BY <1>1
<1>3. ReadTime(time, n) =
        CASE cut = {} -> [Failed("time") EXCEPT !.at = first]
          [] cut # {} /\ first[earliest] > n -> Failed("panic")
          [] OTHER -> Failed("malformed")
  BY DEF ReadTime
<1> HIDE DEF earliest
<1>4. ASSUME \A i \in Dated : time.at + time.parts[i] + 2 <= n
      PROVE  ReadTime(time, n).what = "time" /\ ReadTime(time, n).at = first
  <2>1. cut = {}
    BY <1>2, <1>4
  <2> HIDE DEF cut, first
  <2>2. ReadTime(time, n) = [Failed("time") EXCEPT !.at = first]
    BY <1>3, <2>1
  <2> QED BY <2>2 DEF Failed, Value
<1>5. ASSUME \E i \in Dated : ~(time.at + time.parts[i] + 2 <= n)
      PROVE  ReadTime(time, n) \in {Failed("panic"), Failed("malformed")}
  <2>1. cut # {}
    BY <1>2, <1>5
  <2> HIDE DEF cut, first
  <2> QED BY <1>3, <2>1
<1> QED BY <1>4, <1>5

(* The parts of a time.                                                         *)
LEMMA PartsPlaced ==
  ASSUME GrownTree(tree), NEW k \in DOMAIN tree, tree[k].at # NoOffset,
         IsTimeStruct(tree[k]), Timely(k), NEW i \in DOMAIN TimeKeys
  PROVE  LET q == Append(k, TimeKeys[i]) IN
         /\ q \in DOMAIN tree /\ tree[q] = Part(k, i) /\ IsNode(tree[q])
         /\ tree[q].shape = "number" /\ tree[q].base = Uint /\ tree[q].offset \in Nat
         /\ tree[k].at \in Nat /\ tree[q].at = tree[k].at + tree[q].offset
         /\ tree[q].at \in Nat /\ tree[q].at # NoOffset
<1>1. IsNode(tree[k]) /\ tree[k].kids = TimeKeys
  BY DEF GrownTree, IsTimeStruct
<1>2. IsList(tree[k].kids)
  BY <1>1 DEF IsNode
<1>3. i \in 1 .. Len(tree[k].kids)
  BY <1>1, <1>2, DomainOf
<1> DEFINE q == Append(k, tree[k].kids[i])
<1>4. q \in DOMAIN tree /\ tree[q].at = Sum(tree[k].at, tree[q].offset) /\ IsNode(tree[q])
  BY <1>3, FieldOf
<1>5. q = Append(k, TimeKeys[i]) /\ tree[q] = Part(k, i)
  BY <1>1 DEF Part
<1> HIDE DEF q
<1>6. tree[q].offset # NoOffset /\ tree[q].shape = "number" /\ tree[q].base = Uint
  BY <1>5 DEF Timely
<1>7. tree[q].offset \in Nat /\ tree[k].at \in Nat
  BY <1>1, <1>4, <1>6 DEF IsNode
<1>8. tree[q].at = tree[k].at + tree[q].offset
  BY <1>4, <1>6 DEF Sum
<1>9. tree[q].at \in Nat /\ tree[q].at # NoOffset
  BY <1>7, <1>8, SymbolConstants
<1> QED BY <1>4, <1>5, <1>6, <1>7, <1>8, <1>9

--------------------------------------------------------------------------------
(* A sample of the size that was asked for.                                     *)

LEMMA LiesInSample ==
  ASSUME AllRead, Sound, sample >= length, NEW p \in DOMAIN tree, tree[p].at # NoOffset
  PROVE  /\ tree[p].at \in Nat /\ IsNode(tree[p])
         /\ tree[p].at + GetSize(tree[p]) <= sample /\ Here(p)
<1>1. GrownTree(tree) /\ length = GetSize(tree[<<>>]) /\ sample \in Nat /\ <<>> \in DOMAIN tree
  BY DEF AllRead, GrownTree
<1>2. IsNode(tree[p]) /\ FitsIn(tree, p) /\ Rises(tree, p) /\ Rooted(tree, p) /\ IsList(p) /\ Len(p) \in Nat
  BY <1>1, LenOf DEF GrownTree
<1>3. tree[p].at \in Nat
  BY <1>2 DEF IsNode
<1>4. ASSUME NEW n \in 1 .. Len(p) PROVE Lies(tree, Up(p, n))
  <2>1. n \in 0 .. Len(p)
    BY <1>2
  <2>2. Up(p, n) \in DOMAIN tree /\ tree[Up(p, n)].at \in Nat
    BY <1>2, <2>1 DEF Rises, Rooted
  <2>3. tree[Up(p, n)].at # NoOffset
    BY <2>2, SymbolConstants
  <2>4. Len(Up(p, n)) = n
    BY <1>2, <2>1, UpIsList
  <2>5. Up(p, n) # <<>>
    <3>1. Len(Up(p, n)) # 0
      BY <2>4
    <3> QED BY <3>1, NoItems
  <2> DEFINE q == Up(p, n)
  <2> HIDE DEF q
  <2>6. q \in DOMAIN tree /\ tree[q].at # NoOffset /\ q # <<>>
    BY <2>2, <2>3, <2>5 DEF q
  <2>7. tree[q].offset + GetSize(tree[q]) <= tree[SubSeq(q, 1, Len(q) - 1)].size
    BY <2>6 DEF Sound
  <2>8. Lies(tree, q)
    BY <2>7 DEF Lies, Parent, Up
  <2> QED BY <2>8 DEF q
<1>5. tree[p].at + GetSize(tree[p]) <= length
  BY <1>1, <1>2, <1>4 DEF FitsIn
<1>6. GetSize(tree[p]) \in Nat /\ length \in Nat
  BY <1>1, <1>2, SizeOf DEF GrownTree
<1>7. tree[p].at + GetSize(tree[p]) <= sample /\ tree[p].at <= sample
  BY <1>1, <1>3, <1>5, <1>6
<1> QED BY <1>2, <1>3, <1>7 DEF Here

(* A leaf within the sample.                                                    *)
LEMMA LeafIsThere ==
  ASSUME NEW leaf, NEW at \in Nat, NEW n \in Nat, leaf.size \in Nat,
         leaf.shape \in Shapes \ {"struct"}, leaf.shape = "number" => leaf.base \in Numbers,
         at + GetSize(leaf) <= n, leaf.shape = "wstring" => leaf.size % 2 = 0
  PROVE  /\ ReadLeaf(leaf, at, n).what = leaf.shape
         /\ leaf.shape \notin {"malformed", "panic"}
<1> DEFINE v == ReadLeaf(leaf, at, n)
<1>1. /\ leaf.shape = "number" =>
           /\ Bytes(leaf.base) \in Nat
           /\ at + Bytes(leaf.base) > n => v = Failed("malformed")
           /\ at + Bytes(leaf.base) <= n => v = Value("number", leaf.base, at, Bytes(leaf.base))
      /\ leaf.shape \in {"missing", "unknown"} => v = Failed(leaf.shape)
      /\ leaf.shape \in Plain =>
              \/ leaf.shape = "wstring" /\ leaf.size % 2 # 0 /\ v = Failed("malformed")
              \/ at + leaf.size > n /\ v = Failed("panic")
              \/ at + leaf.size <= n /\ v = Value(leaf.shape, leaf.base, at, leaf.size)
  BY LeafRead
<1> HIDE DEF v
<1>2. CASE leaf.shape = "number"
  <2>1. leaf.base \in {2, 3, 4, 5, 16, 17, 18, 19, 20, 21, 32, 33}
    BY <1>2 DEF Numbers, Uint
  <2>2. GetSize(leaf) = Bytes(leaf.base)
    BY <1>2, <2>1 DEF GetSize, Bytes, Uint
  <2>3. at + Bytes(leaf.base) <= n
    BY <2>2
  <2>4. v = Value("number", leaf.base, at, Bytes(leaf.base))
    BY <1>1, <1>2, <2>3
  <2> QED BY <1>2, <2>4 DEF v, Value
<1>3. CASE leaf.shape \in {"missing", "unknown"}
  <2>1. v = Failed(leaf.shape)
    BY <1>1, <1>3
  <2> QED BY <1>3, <2>1 DEF v, Failed, Value
<1>4. CASE leaf.shape \in Plain
  <2>1. GetSize(leaf) = leaf.size
    BY <1>4 DEF GetSize, Plain
  <2>2. ~(at + leaf.size > n)
    BY <2>1
  <2>3. v = Value(leaf.shape, leaf.base, at, leaf.size)
    BY <1>1, <1>4, <2>2
  <2> QED BY <1>4, <2>3 DEF v, Value, Plain
<1> QED BY <1>2, <1>3, <1>4 DEF Shapes, Plain

LEMMA FullTree ==
  ASSUME AllRead, Sound, sample >= length, NEW p \in DOMAIN as_tree
  PROVE  /\ p \in DOMAIN tree /\ as_tree[p].what \notin {"malformed", "panic"}
         /\ as_tree[p].what = "missing" => tree[p].at = NoOffset \/ tree[p].shape = "missing"
<1>1. p \in DOMAIN tree /\ as_tree[p] = Seen(p) /\ sample \in Nat
  BY DEF AllRead, TreeEntries
<1>2. CASE tree[p].at = NoOffset
  <2>1. as_tree[p].what = "missing"
    BY <1>1, <1>2 DEF Seen, Here, Failed, Value
  <2> QED BY <1>1, <1>2, <2>1
<1>3. CASE tree[p].at # NoOffset
  <2>1. /\ tree[p].at \in Nat /\ IsNode(tree[p])
        /\ tree[p].at + GetSize(tree[p]) <= sample /\ Here(p)
    BY <1>1, <1>3, LiesInSample
  <2>2. CASE tree[p].shape = "struct"
    <3>1. as_tree[p].what = "struct"
      BY <1>1, <2>1, <2>2 DEF Seen, Value
    <3> QED BY <1>1, <3>1
  <2>3. CASE tree[p].shape # "struct"
    <3>1. as_tree[p] = ReadLeaf(tree[p], tree[p].at, sample)
      BY <1>1, <2>1, <2>3 DEF Seen
    <3>2. tree[p].shape = "wstring" => tree[p].size % 2 = 0
      BY <1>1, <1>3 DEF Sound
    <3>3. /\ tree[p].size \in Nat /\ tree[p].shape \in Shapes \ {"struct"}
          /\ tree[p].shape = "number" => tree[p].base \in Numbers
      BY <2>1, <2>3 DEF IsNode
    <3>4. as_tree[p].what = tree[p].shape /\ tree[p].shape \notin {"malformed", "panic"}
      BY <1>1, <2>1, <3>1, <3>2, <3>3, LeafIsThere
    <3> QED BY <1>1, <3>4
  <2> QED BY <2>2, <2>3
<1> QED BY <1>2, <1>3

LEMMA FullMap ==
  ASSUME AllRead, Sound, sample >= length, NEW k \in DOMAIN as_map
  PROVE  /\ as_map[k].what \notin {"malformed", "panic"}
         /\ k \in DOMAIN tree /\ tree[k].at # NoOffset /\ tree[k].shape # "missing"
<1> DEFINE e == type_map[k]
<1>1. /\ k \in DOMAIN tree /\ Described(e, k) /\ as_map[k] = ReadPrimitive(e, sample)
      /\ sample \in Nat /\ GrownTree(tree)
  BY DEF AllRead, MapEntries
<1> HIDE DEF e
<1>2. tree[k].at # NoOffset /\ e.at = tree[k].at /\ e.base = tree[k].base /\ e.size = tree[k].size
  BY <1>1 DEF Described
<1>3. /\ tree[k].at \in Nat /\ IsNode(tree[k])
      /\ tree[k].at + GetSize(tree[k]) <= sample /\ Here(k)
  BY <1>1, <1>2, LiesInSample
<1>4. ~(e.at > sample) /\ e.at <= sample /\ e.at \in Nat /\ e.size \in Nat
  BY <1>1, <1>2, <1>3 DEF Here, IsNode
<1>5. CASE e.shape = "time"
  <2>1. IsTimeStruct(tree[k]) /\ Timely(k) /\ \A i \in DOMAIN TimeKeys : e.parts[i] = Part(k, i).offset
    BY <1>1, <1>5 DEF Described, IsTimeStruct
  <2>2. ASSUME NEW i \in Dated PROVE e.parts[i] \in Nat /\ e.at + e.parts[i] + 2 <= sample
    <3>1. i \in DOMAIN TimeKeys
      BY DEF Dated
    <3> DEFINE q == Append(k, TimeKeys[i])
    <3>2. /\ q \in DOMAIN tree /\ tree[q] = Part(k, i) /\ IsNode(tree[q])
          /\ tree[q].shape = "number" /\ tree[q].base = Uint /\ tree[q].offset \in Nat
          /\ tree[k].at \in Nat /\ tree[q].at = tree[k].at + tree[q].offset
          /\ tree[q].at \in Nat /\ tree[q].at # NoOffset
      BY <1>1, <1>2, <2>1, <3>1, PartsPlaced
    <3> HIDE DEF q
    <3>3. tree[q].at + GetSize(tree[q]) <= sample
      BY <3>2, LiesInSample
    <3>4. GetSize(tree[q]) = 2
      BY <3>2 DEF GetSize, Uint
    <3>5. e.parts[i] = tree[q].offset
      BY <2>1, <3>1, <3>2
    <3> QED BY <1>2, <3>2, <3>3, <3>4, <3>5
  <2>3. ReadTime(e, sample).what = "time"
    BY <1>1, <1>4, <2>2, TimeRead
  <2>4. as_map[k] = ReadTime(e, sample)
    BY <1>1, <1>4, <1>5 DEF ReadPrimitive
  <2>5. tree[k].shape = "struct"
    BY <2>1 DEF IsTimeStruct
  <2> QED BY <1>1, <1>2, <2>3, <2>4, <2>5
<1>6. CASE e.shape # "time"
  <2>1. \/ e.shape = "void" /\ tree[k].shape \in {"array", "unknown"}
        \/ e.shape = tree[k].shape /\ tree[k].shape \in {"number", "void", "string", "wstring"}
    BY <1>1, <1>6 DEF Described
  <2>2. as_map[k] = ReadLeaf(e, e.at, sample)
    BY <1>1, <1>4, <1>6 DEF ReadPrimitive
  <2>3. e.shape \in Shapes \ {"struct"} /\ tree[k].shape # "missing"
    BY <2>1 DEF Shapes
  <2>4. e.shape = "number" => e.base \in Numbers
    BY <1>2, <1>3, <2>1 DEF IsNode
  <2>5. GetSize(e) = GetSize(tree[k])
    <3>1. CASE e.shape = tree[k].shape
      BY <1>2, <3>1 DEF GetSize
    <3>2. CASE e.shape = "void" /\ tree[k].shape \in {"array", "unknown"}
      <4>1. GetSize(e) = e.size
        BY <3>2 DEF GetSize
      <4>2. GetSize(tree[k]) = tree[k].size
        BY <3>2 DEF GetSize
      <4> QED BY <1>2, <4>1, <4>2
    <3> QED BY <2>1, <3>1, <3>2
  <2>6. e.shape = "wstring" => e.size % 2 = 0
    BY <1>1, <1>2, <2>1 DEF Sound
  <2>7. as_map[k].what = e.shape /\ e.shape \notin {"malformed", "panic"}
    BY <1>1, <1>2, <1>3, <1>4, <2>2, <2>3, <2>4, <2>5, <2>6, LeafIsThere
  <2> QED BY <1>1, <1>2, <2>3, <2>7
<1> QED BY <1>5, <1>6

LEMMA FullSamples == TInv /\ AInv /\ SymbolsInv => FullSamplesAreRead
<1> SUFFICES ASSUME SymbolsInv, Received, NoEmptyName, Sound, sample >= length
             PROVE  /\ ~Panics(as_tree) /\ ~Panics(as_map)
                    /\ \A k \in DOMAIN as_map : as_map[k].what # "malformed"
                    /\ \A p \in DOMAIN as_tree :
                         as_tree[p].what = "missing" => ValueAt(as_map, p).what = "missing"
                    /\ Deserializes(as_tree) \/ \E p \in DOMAIN as_tree : as_tree[p].what = "unknown"
  BY DEF FullSamplesAreRead
<1>1. AllRead
  BY ReadAll
<1>2. ~Panics(as_tree) /\ (Deserializes(as_tree) \/ \E p \in DOMAIN as_tree : as_tree[p].what = "unknown")
  BY <1>1, FullTree DEF Panics, Deserializes
<1>3. ~Panics(as_map) /\ \A k \in DOMAIN as_map : as_map[k].what # "malformed"
  BY <1>1, FullMap DEF Panics
<1>4. ASSUME NEW p \in DOMAIN as_tree, as_tree[p].what = "missing" PROVE ValueAt(as_map, p).what = "missing"
  <2>1. p \notin DOMAIN as_map
    BY <1>1, <1>4, FullTree, FullMap
  <2> QED BY <2>1 DEF ValueAt, Failed, Value
<1> QED BY <1>2, <1>3, <1>4

--------------------------------------------------------------------------------
(* A sample of any length.                                                      *)

LEMMA WhatIsSeen ==
  ASSUME AllRead, NEW p \in DOMAIN tree
  PROVE  ValueAt(as_tree, p) = IF Here(p) THEN Seen(p) ELSE Failed("missing")
<1>1. CASE Here(p)
  BY <1>1 DEF AllRead, ValueAt
<1>2. CASE ~Here(p)
  <2>1. CASE p \in DOMAIN as_tree
    BY <1>2, <2>1 DEF AllRead, TreeEntries, Seen, ValueAt
  <2>2. CASE p \notin DOMAIN as_tree
    BY <1>2, <2>2 DEF ValueAt
  <2> QED BY <2>1, <2>2
<1> QED BY <1>1, <1>2

(* What the map reads of a descriptor, where it does not panic.                 *)
LEMMA MapReads ==
  ASSUME AllRead, NEW k \in DOMAIN as_map, as_map[k].what # "panic"
  PROVE  /\ k \in DOMAIN tree /\ Described(type_map[k], k) /\ Here(k) /\ tree[k].at \in Nat /\ IsNode(tree[k])
         /\ tree[k].at # NoOffset /\ sample \in Nat /\ GrownTree(tree)
         /\ IF type_map[k].shape = "time" THEN as_map[k] = ReadTime(type_map[k], sample)
            ELSE as_map[k] = ReadLeaf(type_map[k], tree[k].at, sample)
<1> DEFINE e == type_map[k]
<1>1. /\ k \in DOMAIN tree /\ Described(e, k) /\ as_map[k] = ReadPrimitive(e, sample)
      /\ sample \in Nat /\ GrownTree(tree)
  BY DEF AllRead, MapEntries
<1> HIDE DEF e
<1>2. IsNode(tree[k]) /\ tree[k].at # NoOffset /\ e.at = tree[k].at
  BY <1>1 DEF GrownTree, Described
<1>3. tree[k].at \in Nat
  BY <1>2 DEF IsNode
<1>4. ~(e.at > sample)
  <2> SUFFICES ASSUME e.at > sample PROVE FALSE
    OBVIOUS
  <2>0. ~(e.at <= sample)
    BY <1>1, <1>2, <1>3
  <2>1. as_map[k] = Failed("panic")
    BY <1>1, <2>0 DEF ReadPrimitive
  <2> QED BY <2>1 DEF Failed, Value
<1>5. e.at <= sample
  BY <1>1, <1>2, <1>3, <1>4
<1>6. IF e.shape = "time" THEN as_map[k] = ReadTime(e, sample)
      ELSE as_map[k] = ReadLeaf(e, tree[k].at, sample)
  BY <1>1, <1>2, <1>4, <1>5 DEF ReadPrimitive
<1> QED BY <1>1, <1>2, <1>3, <1>5, <1>6 DEF Here, e

(* A part of a time: it is there for both or for neither.                       *)
LEMMA PartSeen ==
  ASSUME AllRead, NEW k \in DOMAIN tree, Here(k), IsTimeStruct(tree[k]), Timely(k), NEW i \in Dated
  PROVE  LET q == Append(k, TimeKeys[i]) IN
         /\ tree[k].at \in Nat /\ Part(k, i).offset \in Nat
         /\ IF tree[k].at + Part(k, i).offset + 2 <= sample
            THEN ValueAt(as_tree, q) = Value("number", Uint, tree[k].at + Part(k, i).offset, 2)
            ELSE ValueAt(as_tree, q).what # "number"
<1> DEFINE q == Append(k, TimeKeys[i])
<1>1. GrownTree(tree) /\ sample \in Nat
  BY DEF AllRead
<1>2. i \in DOMAIN TimeKeys /\ tree[k].at # NoOffset
  BY DEF Dated, Here
<1>3. /\ q \in DOMAIN tree /\ tree[q] = Part(k, i) /\ IsNode(tree[q])
      /\ tree[q].shape = "number" /\ tree[q].base = Uint /\ tree[q].offset \in Nat
      /\ tree[k].at \in Nat /\ tree[q].at = tree[k].at + tree[q].offset
      /\ tree[q].at \in Nat /\ tree[q].at # NoOffset
  BY <1>1, <1>2, PartsPlaced
<1> HIDE DEF q
<1>4. ValueAt(as_tree, q) = IF Here(q) THEN Seen(q) ELSE Failed("missing")
  BY <1>3, WhatIsSeen
<1> DEFINE a == tree[q].at
<1>5. ReadLeaf(tree[q], a, sample) = IF a + 2 > sample THEN Failed("malformed") ELSE Value("number", Uint, a, 2)
  <2>1. Bytes(tree[q].base) = 2
    BY <1>3 DEF Bytes, Uint
  <2>2. ReadLeaf(tree[q], a, sample) = IF a + Bytes(tree[q].base) > sample THEN Failed("malformed")
                                       ELSE Value("number", tree[q].base, a, Bytes(tree[q].base))
    BY <1>3 DEF ReadLeaf
  <2> QED BY <1>3, <2>1, <2>2
<1>6. Here(q) <=> a <= sample
  BY <1>3 DEF Here
<1>7. Here(q) => Seen(q) = ReadLeaf(tree[q], a, sample)
  BY <1>3 DEF Seen
<1>8. a \in Nat /\ a = tree[k].at + Part(k, i).offset
  BY <1>3
<1> HIDE DEF a
<1>9. CASE a + 2 <= sample
  <2>1. Here(q) /\ ~(a + 2 > sample)
    BY <1>1, <1>6, <1>8, <1>9
  <2>2. ValueAt(as_tree, q) = Value("number", Uint, a, 2)
    BY <1>4, <1>5, <1>7, <2>1
  <2> QED BY <1>3, <1>8, <1>9, <2>2 DEF q
<1>10. CASE ~(a + 2 <= sample)
  <2>1. a + 2 > sample
    BY <1>1, <1>8, <1>10
  <2>2. ValueAt(as_tree, q) \in {Failed("malformed"), Failed("missing")}
    BY <1>4, <1>5, <1>7, <2>1
  <2>3. ValueAt(as_tree, q).what # "number"
    BY <2>2 DEF Failed, Value
  <2> QED BY <1>3, <1>8, <1>10, <2>3 DEF q
<1> QED BY <1>9, <1>10

LEMMA AgreeTime ==
  ASSUME NEW k, NEW value, value.what = "time",
         IF k = <<>> THEN ValueAt(as_tree, k).what = "struct" ELSE GetTimestamp(as_tree, k) = value.at
  PROVE  Agree(k, value)
  BY Zenon DEF Agree

LEMMA AgreeMalformed ==
  ASSUME NEW k, NEW value, value.what = "malformed",
         ValueAt(as_tree, k).what = "struct", GetTimestamp(as_tree, k) = <<>>
  PROVE  Agree(k, value)
<1>1. value.what # "time"
  OBVIOUS
<1> QED BY <1>1 DEF Agree

LEMMA TimeAgrees ==
  ASSUME AllRead, NoEmptyName, NEW k \in DOMAIN as_map, as_map[k].what # "panic", type_map[k].shape = "time"
  PROVE  Agree(k, as_map[k])
<1> DEFINE e == type_map[k]
           value == as_map[k]
<1>1. /\ k \in DOMAIN tree /\ Described(e, k) /\ Here(k) /\ tree[k].at \in Nat
      /\ sample \in Nat /\ value = ReadTime(e, sample)
  BY MapReads
<1>2. /\ IsTimeStruct(tree[k]) /\ Timely(k) /\ \A i \in DOMAIN TimeKeys : e.parts[i] = Part(k, i).offset
      /\ e.at = tree[k].at /\ tree[k].shape = "struct"
  BY <1>1 DEF Described, IsTimeStruct
<1> HIDE DEF e
<1> DEFINE part == [i \in Dated |-> ValueAt(as_tree, Append(k, TimeKeys[i]))]
<1>3. ASSUME NEW i \in Dated
      PROVE  /\ e.at \in Nat /\ e.parts[i] \in Nat
             /\ IF e.at + e.parts[i] + 2 <= sample
                THEN part[i] = Value("number", Uint, e.at + e.parts[i], 2)
                ELSE part[i].what # "number"
  <2>1. i \in DOMAIN TimeKeys
    BY DEF Dated
  <2>2. e.parts[i] = Part(k, i).offset
    BY <1>2, <2>1
  <2> QED BY <1>1, <1>2, <2>2, PartSeen
<1>4. ValueAt(as_tree, k) = Value("struct", 65, tree[k].at, tree[k].size)
  BY <1>1, <1>2, WhatIsSeen DEF Seen
<1>5. ValueAt(as_tree, k).what = "struct"
  BY <1>4 DEF Value
<1>6. GetTimestamp(as_tree, k) =
        IF GetChild(as_tree, k).what = "struct"
             /\ \A i \in Dated : part[i].what = "number" /\ part[i].base = Uint
        THEN [i \in Dated |-> part[i].at] ELSE <<>>
  BY DEF GetTimestamp
<1> HIDE DEF part
<1>7. CASE \A i \in Dated : e.at + e.parts[i] + 2 <= sample
  <2>1. value.what = "time" /\ value.at = [i \in Dated |-> e.at + e.parts[i]]
    BY <1>1, <1>2, <1>3, <1>7, TimeRead
  <2>2. CASE k = <<>>
    <3>1. ValueAt(as_tree, k).what = "struct" /\ value.what = "time"
      BY <1>5, <2>1
    <3>2. Agree(k, value)
      BY <2>2, <3>1, AgreeTime
    <3> QED BY <3>2
  <2>3. CASE k # <<>>
    <3>1. GetChild(as_tree, k).what = "struct"
      BY <1>5, <2>3 DEF GetChild
    <3>2. \A i \in Dated : part[i] = Value("number", Uint, e.at + e.parts[i], 2)
      BY <1>3, <1>7
    <3>3. ASSUME NEW i \in Dated
          PROVE  part[i].what = "number" /\ part[i].base = Uint /\ part[i].at = e.at + e.parts[i]
      <4>1. part[i] = Value("number", Uint, e.at + e.parts[i], 2)
        BY <3>2
      <4> QED BY <4>1 DEF Value
    <3>4. GetTimestamp(as_tree, k) = [i \in Dated |-> part[i].at]
      BY <1>6, <3>1, <3>3
    <3>5. GetTimestamp(as_tree, k) = value.at
      BY <2>1, <3>3, <3>4
    <3>6. Agree(k, value)
      BY <2>1, <2>3, <3>5, AgreeTime
    <3> QED BY <3>6
  <2> QED BY <2>2, <2>3
<1>8. CASE \E i \in Dated : ~(e.at + e.parts[i] + 2 <= sample)
  <2>1. value \in {Failed("panic"), Failed("malformed")}
    BY <1>1, <1>2, <1>3, <1>8, TimeRead
  <2>2. value = Failed("malformed") /\ value.what = "malformed"
    BY <2>1 DEF Failed, Value
  <2>3. \E i \in Dated : part[i].what # "number"
    BY <1>3, <1>8
  <2>4. GetTimestamp(as_tree, k) = <<>>
    BY <1>6, <2>3
  <2>5. Agree(k, value)
    BY <1>5, <2>2, <2>4, AgreeMalformed
  <2> QED BY <2>5
<1> QED BY <1>7, <1>8

LEMMA SameLeaf ==
  ASSUME NEW a, NEW b, a.shape = b.shape, a.base = b.base, a.size = b.size, NEW at, NEW n
  PROVE  ReadLeaf(a, at, n) = ReadLeaf(b, at, n)
  BY DEF ReadLeaf

LEMMA LeafAgrees ==
  ASSUME AllRead, NEW k \in DOMAIN as_map, as_map[k].what # "panic", type_map[k].shape # "time"
  PROVE  Agree(k, as_map[k])
<1> DEFINE e == type_map[k]
           value == as_map[k]
           at == tree[k].at
<1>1. /\ k \in DOMAIN tree /\ Described(e, k) /\ Here(k) /\ at \in Nat /\ IsNode(tree[k])
      /\ sample \in Nat /\ value = ReadLeaf(e, at, sample)
  BY MapReads
<1>2. /\ e.base = tree[k].base /\ e.size = tree[k].size /\ e.size \in Nat
      /\ \/ e.shape = "void" /\ tree[k].shape \in {"array", "unknown"}
         \/ e.shape = tree[k].shape /\ tree[k].shape \in {"number", "void", "string", "wstring"}
  BY <1>1 DEF Described, IsNode
<1>3. tree[k].shape # "struct"
  BY <1>2
<1>4. ValueAt(as_tree, k) = ReadLeaf(tree[k], at, sample)
  BY <1>1, <1>3, WhatIsSeen DEF Seen
<1>5. value.what # "panic"
  OBVIOUS
<1> DEFINE seen == ValueAt(as_tree, k)
<1> HIDE DEF e, value, at, seen
<1>6. CASE e.shape = "void" /\ tree[k].shape \in {"array", "unknown"}
  <2>1. \/ at + e.size > sample /\ value = Failed("panic")
        \/ at + e.size <= sample /\ value = Value("void", e.base, at, e.size)
    BY <1>1, <1>2, <1>6, LeafRead DEF Shapes, Plain
  <2>2. at + e.size <= sample /\ value = Value("void", e.base, at, e.size)
    BY <1>5, <2>1 DEF Failed, Value
  <2>3. value.what = "void" /\ value.at = at /\ value.size = e.size
    BY <2>2 DEF Value
  <2>4. CASE tree[k].shape = "unknown"
    <3>1. seen = Failed("unknown")
      BY <1>1, <1>2, <1>4, <2>4, LeafRead DEF Shapes, IsNode, seen
    <3>2. seen.what = "unknown"
      BY <3>1 DEF Failed, Value
    <3> QED BY <2>3, <3>2 DEF Agree, seen, value
  <2>5. CASE tree[k].shape = "array"
    <3>1. \/ at + tree[k].size > sample /\ seen = Failed("panic")
          \/ at + tree[k].size <= sample /\ seen = Value("array", tree[k].base, at, tree[k].size)
      BY <1>1, <1>2, <1>4, <2>5, LeafRead DEF Shapes, Plain, IsNode, seen
    <3>2. ~(at + tree[k].size > sample)
      BY <1>1, <1>2, <2>2
    <3>3. seen = Value("array", tree[k].base, at, tree[k].size)
      BY <3>1, <3>2
    <3>4. seen.what = "array" /\ seen.at = at /\ seen.size = e.size
      BY <1>2, <3>3 DEF Value
    <3> QED BY <2>3, <3>4 DEF Agree, seen, value
  <2> QED BY <1>6, <2>4, <2>5
<1>7. CASE e.shape = tree[k].shape /\ tree[k].shape \in {"number", "void", "string", "wstring"}
  <2>1. value = seen
    BY <1>1, <1>2, <1>4, <1>7, SameLeaf DEF seen
  <2>2. value.what \in {"malformed", "panic", "number", "void", "string", "wstring"}
    <3>1. CASE e.shape = "number"
      <4>1. value \in {Failed("malformed"), Value("number", e.base, at, Bytes(e.base))}
        BY <1>1, <3>1 DEF ReadLeaf
      <4> QED BY <4>1 DEF Failed, Value
    <3>2. CASE e.shape \in {"void", "string", "wstring"}
      <4>1. value \in {Failed("malformed"), Failed("panic"), Value(e.shape, e.base, at, e.size)}
        BY <1>1, <3>2 DEF ReadLeaf
      <4> QED BY <3>2, <4>1 DEF Failed, Value
    <3> QED BY <1>7, <3>1, <3>2
  <2> QED BY <1>5, <2>1, <2>2 DEF Agree, seen, value
<1> QED BY <1>2, <1>6, <1>7

LEMMA EachAgrees ==
  ASSUME AllRead, NoEmptyName, NEW k \in DOMAIN as_map, as_map[k].what # "panic"
  PROVE  Agree(k, as_map[k])
<1>1. CASE type_map[k].shape = "time"
  BY <1>1, TimeAgrees
<1>2. CASE type_map[k].shape # "time"
  BY <1>2, LeafAgrees
<1> QED BY <1>1, <1>2

(* Something was read at a path: the map has it, or the struct around it, unless*)
(* that is nearly a time.                                                       *)
LEMMA ReadIsMapped ==
  ASSUME AllRead, NEW p \in DOMAIN as_tree, as_tree[p].what \notin {"struct", "missing"}
  PROVE  /\ p \in DOMAIN tree /\ Here(p) /\ as_tree[p] = Seen(p) /\ IsNode(tree[p])
         /\ tree[p].shape \in Shapes \ {"struct"} /\ tree[p].at \in Nat
         /\ \/ Lost(p)
            \/ \E n \in 0 .. Len(p) : Up(p, n) \in DOMAIN as_map
<1>1. /\ p \in DOMAIN tree /\ as_tree[p] = Seen(p) /\ GrownTree(tree) /\ sample \in Nat
      /\ DOMAIN as_map = DOMAIN type_map
  BY DEF AllRead, TreeEntries
<1>2. IsNode(tree[p]) /\ IsList(p)
  BY <1>1 DEF GrownTree
<1>3. Here(p)
  <2> SUFFICES ASSUME ~Here(p) PROVE FALSE
    OBVIOUS
  <2>1. as_tree[p] = Failed("missing")
    BY <1>1 DEF Seen
  <2> QED BY <2>1 DEF Failed, Value
<1>4. tree[p].at \in Nat
  BY <1>2, <1>3 DEF IsNode, Here
<1>5. tree[p].shape # "struct"
  <2> SUFFICES ASSUME tree[p].shape = "struct" PROVE FALSE
    OBVIOUS
  <2>1. as_tree[p] = Value("struct", 65, tree[p].at, tree[p].size)
    BY <1>1, <1>3 DEF Seen
  <2> QED BY <2>1 DEF Value
<1>6. tree[p].shape # "missing"
  <2> SUFFICES ASSUME tree[p].shape = "missing" PROVE FALSE
    OBVIOUS
  <2>1. as_tree[p] = ReadLeaf(tree[p], tree[p].at, sample)
    BY <1>1, <1>3, <1>5 DEF Seen
  <2>2. as_tree[p] = Failed("missing")
    BY <2>1 DEF ReadLeaf
  <2> QED BY <2>2 DEF Failed, Value
<1>7. PICK n \in 0 .. Len(p) : Mapped(type_map, Up(p, n))
  BY <1>1, <1>5, <1>6 DEF AllRead
<1>8. tree[Up(p, n)].at # NoOffset
  BY <1>1, <1>3, HereBefore DEF Here
<1>9. CASE IsTimeStruct(tree[Up(p, n)]) /\ ~Timely(Up(p, n))
  <2>1. Lost(p)
    BY <1>9 DEF Lost, Up
  <2> QED BY <1>1, <1>2, <1>3, <1>4, <1>5, <2>1 DEF IsNode
<1>10. CASE Up(p, n) \in DOMAIN type_map
  BY <1>1, <1>2, <1>3, <1>4, <1>5, <1>10 DEF IsNode
<1> QED BY <1>7, <1>8, <1>9, <1>10 DEF Mapped

LEMMA BothAgree == TInv /\ AInv /\ SymbolsInv => TreeAndMapAgree
<1> SUFFICES ASSUME SymbolsInv, Received, NoEmptyName, ~Panics(as_tree), ~Panics(as_map)
             PROVE  /\ \A k \in DOMAIN as_map : Agree(k, as_map[k])
                    /\ \A p \in DOMAIN as_tree : as_tree[p].what \notin {"struct", "missing"} =>
                         Lost(p) \/ \E n \in 0 .. Len(p) : SubSeq(p, 1, n) \in DOMAIN as_map
  BY DEF TreeAndMapAgree
<1>1. AllRead
  BY ReadAll
<1>2. ASSUME NEW k \in DOMAIN as_map PROVE Agree(k, as_map[k])
  <2>1. as_map[k].what # "panic"
    BY DEF Panics
  <2> QED BY <1>1, <2>1, EachAgrees
<1>3. ASSUME NEW p \in DOMAIN as_tree, as_tree[p].what \notin {"struct", "missing"}
      PROVE  Lost(p) \/ \E n \in 0 .. Len(p) : SubSeq(p, 1, n) \in DOMAIN as_map
  <2>1. Lost(p) \/ \E n \in 0 .. Len(p) : Up(p, n) \in DOMAIN as_map
    BY <1>1, <1>3, ReadIsMapped
  <2> QED BY <2>1 DEF Up
<1> QED BY <1>2, <1>3

(* What panics is a slice that ends beyond the sample.                          *)
LEMMA PanicIsSlice ==
  ASSUME AllRead, NEW p \in DOMAIN as_tree, as_tree[p].what = "panic"
  PROVE  /\ tree[p].shape \in Plain /\ tree[p].at \in Nat /\ tree[p].size \in Nat
         /\ ~(tree[p].shape = "wstring" /\ tree[p].size % 2 # 0)
         /\ tree[p].at + tree[p].size > sample
<1>1. /\ as_tree[p] = Seen(p) /\ Here(p) /\ IsNode(tree[p])
      /\ tree[p].shape \in Shapes \ {"struct"} /\ tree[p].at \in Nat
  BY ReadIsMapped
<1>2. sample \in Nat /\ tree[p].size \in Nat /\ (tree[p].shape = "number" => tree[p].base \in Numbers)
  BY <1>1 DEF AllRead, IsNode
<1> DEFINE at == tree[p].at
           leaf == tree[p]
<1>3. as_tree[p] = ReadLeaf(leaf, at, sample)
  BY <1>1 DEF Seen
<1>4. at \in Nat /\ leaf.shape \in Shapes \ {"struct"} /\ leaf.size \in Nat
      /\ (leaf.shape = "number" => leaf.base \in Numbers)
  BY <1>1, <1>2
<1> HIDE DEF at, leaf
<1>5. leaf.shape \in Plain
  <2>1. CASE leaf.shape = "number"
    <3>1. as_tree[p] \in {Failed("malformed"), Value("number", leaf.base, at, Bytes(leaf.base))}
      BY <1>3, <2>1 DEF ReadLeaf
    <3> QED BY <3>1 DEF Failed, Value
  <2>2. CASE leaf.shape \in {"missing", "unknown"}
    <3>1. as_tree[p] = Failed(leaf.shape)
      BY <1>2, <1>3, <1>4, <2>2, LeafRead
    <3> QED BY <2>2, <3>1 DEF Failed, Value
  <2> QED BY <1>4, <2>1, <2>2 DEF Shapes, Plain
<1>6. \/ leaf.shape = "wstring" /\ leaf.size % 2 # 0 /\ as_tree[p] = Failed("malformed")
      \/ at + leaf.size > sample /\ as_tree[p] = Failed("panic")
      \/ at + leaf.size <= sample /\ as_tree[p] = Value(leaf.shape, leaf.base, at, leaf.size)
  BY <1>2, <1>3, <1>4, <1>5, LeafRead
<1>7. as_tree[p] # Failed("malformed") /\ as_tree[p] # Value(leaf.shape, leaf.base, at, leaf.size)
  BY <1>5 DEF Failed, Value, Plain
<1>8. at + leaf.size > sample /\ as_tree[p] = Failed("panic")
  BY <1>6, <1>7
<1>9. ~(leaf.shape = "wstring" /\ leaf.size % 2 # 0)
  <2> SUFFICES ASSUME leaf.shape = "wstring", leaf.size % 2 # 0 PROVE FALSE
    OBVIOUS
  <2>1. as_tree[p] = Failed("malformed")
    BY <1>3 DEF ReadLeaf
  <2> QED BY <1>7, <2>1
<1> QED BY <1>4, <1>5, <1>8, <1>9 DEF at, leaf

LEMMA NextOfTree ==
  ASSUME GrownTree(tree), NEW p \in DOMAIN tree, NEW n \in 0 .. Len(p), n # Len(p)
  PROVE  /\ n + 1 \in 0 .. Len(p) /\ Up(p, n) \in DOMAIN tree /\ tree[Up(p, n)].shape = "struct"
         /\ \E k \in 1 .. Len(tree[Up(p, n)].kids) : Up(p, n + 1) = Append(Up(p, n), tree[Up(p, n)].kids[k])
  BY NextUp

(* A struct that is a time has only numbers in it.                              *)
LEMMA NothingBelowTime ==
  ASSUME GrownTree(tree), NEW p \in DOMAIN tree, tree[p].shape # "number", NEW n \in 0 .. Len(p),
         tree[Up(p, n)].at # NoOffset, IsTimeStruct(tree[Up(p, n)]), Timely(Up(p, n))
  PROVE  Up(p, n) = p
<1> SUFFICES ASSUME n # Len(p) PROVE FALSE
  <2>1. IsList(p)
    BY DEF GrownTree
  <2> QED BY <2>1, UpAll
<1>b. /\ n + 1 \in 0 .. Len(p) /\ Up(p, n) \in DOMAIN tree /\ tree[Up(p, n)].shape = "struct"
      /\ \E k \in 1 .. Len(tree[Up(p, n)].kids) : Up(p, n + 1) = Append(Up(p, n), tree[Up(p, n)].kids[k])
  BY NextOfTree
<1> DEFINE q == Up(p, n)
<1>1. /\ n + 1 \in 0 .. Len(p) /\ q \in DOMAIN tree
      /\ \E i \in 1 .. Len(tree[q].kids) : Up(p, n + 1) = Append(q, tree[q].kids[i])
  BY <1>b
<1>2. tree[q].at # NoOffset /\ IsTimeStruct(tree[q]) /\ Timely(q)
  OBVIOUS
<1>3. tree[q].kids = TimeKeys /\ IsList(TimeKeys)
  <2>1. IsNode(tree[q])
    BY <1>1 DEF GrownTree
  <2> QED BY <1>2, <2>1 DEF IsNode, IsTimeStruct
<1> HIDE DEF q
<1>4. PICK i \in 1 .. Len(TimeKeys) : Up(p, n + 1) = Append(q, TimeKeys[i])
  BY <1>1, <1>3
<1>5. i \in DOMAIN TimeKeys
  BY <1>3, DomainOf
<1>6. tree[Append(q, TimeKeys[i])].shape = "number"
  BY <1>1, <1>2, <1>5, PartsPlaced
<1>7. tree[Up(p, n + 1)].shape # "struct"
  BY <1>4, <1>6
<1>8. Up(p, n + 1) = p
  BY <1>1, <1>7, InnerIsStruct
<1> QED BY <1>4, <1>6, <1>8

LEMMA PanicsBoth == TInv /\ AInv /\ SymbolsInv => MapPanicsWithTree
<1> SUFFICES ASSUME SymbolsInv, Received, NoEmptyName, NEW p \in DOMAIN as_tree, as_tree[p].what = "panic",
                    ~\E k \in DOMAIN as_tree : Lost(k)
             PROVE  Panics(as_map)
  BY DEF MapPanicsWithTree, Panics
<1>1. AllRead
  BY ReadAll
<1>2. /\ p \in DOMAIN tree /\ Here(p) /\ ~Lost(p) /\ IsNode(tree[p])
      /\ \E n \in 0 .. Len(p) : Up(p, n) \in DOMAIN as_map
  BY <1>1, ReadIsMapped
<1>3. /\ tree[p].shape \in Plain /\ tree[p].at \in Nat /\ tree[p].size \in Nat
      /\ ~(tree[p].shape = "wstring" /\ tree[p].size % 2 # 0)
      /\ tree[p].at + tree[p].size > sample
  BY <1>1, PanicIsSlice
<1>4. PICK n \in 0 .. Len(p) : Up(p, n) \in DOMAIN as_map
  BY <1>2
<1> DEFINE q == Up(p, n)
           e == type_map[q]
<1>5. /\ Described(e, q) /\ q \in DOMAIN as_map /\ as_map[q] = ReadPrimitive(e, sample)
      /\ GrownTree(tree) /\ sample \in Nat
  BY <1>1, <1>4 DEF AllRead, MapEntries
<1>6. q = p
  <2>1. CASE e.shape = "time"
    <3>1. tree[q].at # NoOffset /\ IsTimeStruct(tree[q]) /\ Timely(q)
      BY <1>5, <2>1 DEF Described
    <3>2. tree[p].shape # "number"
      BY <1>3 DEF Plain
    <3> QED BY <1>2, <1>5, <3>1, <3>2, NothingBelowTime
  <2>2. CASE e.shape # "time"
    <3>1. tree[q].shape # "struct"
      BY <1>5, <2>2 DEF Described
    <3> QED BY <1>2, <1>5, <3>1, InnerIsStruct
  <2> QED BY <2>1, <2>2
<1>7. Described(e, p) /\ p \in DOMAIN as_map /\ as_map[p] = ReadPrimitive(e, sample)
  BY <1>5, <1>6
<1> HIDE DEF q, e
<1>8. /\ e.at = tree[p].at /\ e.size = tree[p].size /\ e.shape \in {"void", "string", "wstring"}
      /\ (e.shape = "wstring" => tree[p].shape = "wstring")
  BY <1>3, <1>7 DEF Described, Plain, IsTimeStruct
<1>9. e.at <= sample /\ e.shape # "time" /\ ~(e.at > sample)
  BY <1>2, <1>3, <1>5, <1>8 DEF Here
<1>10. as_map[p] = ReadLeaf(e, e.at, sample)
  BY <1>7, <1>9 DEF ReadPrimitive
<1>11. as_map[p] = Failed("panic")
  <2>1. e.at \in Nat /\ e.size \in Nat /\ e.shape \in Shapes \ {"struct"} /\ e.shape \in Plain
        /\ e.shape # "number"
    BY <1>3, <1>8 DEF Shapes, Plain
  <2>2. \/ e.shape = "wstring" /\ e.size % 2 # 0 /\ as_map[p] = Failed("malformed")
        \/ e.at + e.size > sample /\ as_map[p] = Failed("panic")
        \/ e.at + e.size <= sample /\ as_map[p] = Value(e.shape, e.base, e.at, e.size)
    BY <1>5, <1>10, <2>1, LeafRead
  <2>3. ~(e.at + e.size <= sample)
    BY <1>3, <1>5, <1>8
  <2>4. ~(e.shape = "wstring" /\ e.size % 2 # 0)
    BY <1>3, <1>8
  <2> QED BY <2>2, <2>3, <2>4
<1>12. as_map[p].what = "panic"
  BY <1>11 DEF Failed, Value
<1> QED BY <1>7, <1>12 DEF Panics

--------------------------------------------------------------------------------
(* SymbolsInv is kept because the three lists are each what is left of a walk:  *)
(* every path of the tree is done, or a call for it, or for a struct around it, *)
(* is still to come.                                                            *)

LEMMA SymbolsInvKept == SymbolsSpec => [](TInv /\ AInv /\ SymbolsInv)
<1>1. SymbolsInit => TInv /\ AInv /\ SymbolsInv
  BY InitSymbols
<1>2. TInv /\ AInv /\ SymbolsInv /\ [SymbolsNext]_all_vars => (TInv /\ AInv /\ SymbolsInv)'
  BY NextSymbols
<1> QED BY <1>1, <1>2, PTL DEF SymbolsSpec

(* FullSamplesAreRead: a sample of the size the client asked for is read to the *)
(* end by both subscriptions, whatever the tables of the PLC, as long as their  *)
(* fields lie within their structs (type_tree.rs:39-62; tree.rs:41-156;         *)
(* map.rs:91-378).                                                              *)
THEOREM FullSamplesRead == SymbolsSpec => []FullSamplesAreRead
  BY SymbolsInvKept, FullSamples, PTL

(* TreeAndMapAgree: the tree and the map of one sample, of any length, tell the *)
(* same bytes under the same path, and the map leaves out nothing that is there *)
(* but what is in a struct that is nearly a time (tree.rs:41-215; map.rs:91-392).*)
THEOREM BothReadingsAgree == SymbolsSpec => []TreeAndMapAgree
  BY SymbolsInvKept, BothAgree, PTL

(* MapPanicsWithTree: a sample too short for the tree is too short for the map  *)
(* (tree.rs:46-52; map.rs:292).                                                 *)
THEOREM TreePanicsMapPanics == SymbolsSpec => []MapPanicsWithTree
  BY SymbolsInvKept, PanicsBoth, PTL

(* No step of trees and samples touches what was decoded: what is proved of     *)
(* TableSpec (TablesNest, TablesRoundTrip, ...) holds of the whole              *)
(* (ads.rs:265-293).                                                            *)
THEOREM SymbolsImplementTables == SymbolsSpec => TableSpec
<1>1. SymbolsInit => Init
  BY DEF SymbolsInit
<1>2. [SymbolsNext]_all_vars => [DecodeStep]_vars
  <2> SUFFICES ASSUME [SymbolsNext]_all_vars PROVE [DecodeStep]_vars
    OBVIOUS
  <2>1. CASE DecodeStep
    BY <2>1
  <2>2. CASE (\E name \in Wanted : GetDynamicTypeTree(name)) \/ NotAField
    BY <2>2 DEF GetDynamicTypeTree, NotAField
  <2>3. CASE TypeIsSimple \/ TypeIsCompound
    <3>1. UNCHANGED vars
      BY <2>3 DEF TypeIsSimple, TypeIsCompound, Put
    <3> QED BY <3>1
  <2>4. CASE Subscribe \/ MapStep \/ (\E n \in Lengths : Recv(n)) \/ ReadStep
    BY <2>4 DEF Subscribe, MapStep, Recv, ReadStep
  <2>5. CASE UNCHANGED all_vars
    BY <2>5 DEF all_vars
  <2> QED BY <2>1, <2>2, <2>3, <2>4, <2>5 DEF SymbolsNext, Finished
<1> QED BY <1>1, <1>2, PTL DEF SymbolsSpec, TableSpec
================================================================================

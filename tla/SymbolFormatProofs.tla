------------------------- MODULE SymbolFormatProofs -------------------------
(***************************************************************************)
(* The walk of SymbolTables over tables a PLC wrote (SymbolFormat), of any *)
(* length and with any entries in them: what is decoded is what was meant. *)
(*                                                                         *)
(* The invariant says, of each frame of the stack, how far it has read the *)
(* entry it stands in (Reads) and that it waits for the entry of the frame *)
(* above it (Chain), up to the first entry nothing is known of.            *)
(***************************************************************************)
EXTENDS SymbolFormat, SymbolTablesProofs

--------------------------------------------------------------------------------
(* How far an entry has been read: what is still to be read of it, in order.    *)

ToEnum(e, i) == Some("enum", EnumCount(e) - i)
ToEnums(e) == If(Has(e, 16), "enums")
ToAttribute(e, i) == Some("attribute", AttributeCount(e) - i) \o ToEnums(e)
ToAttributes(e) == If(Has(e, 8), "attributes") \o ToEnums(e)
ToMethod(e, i) == Some("method", MethodCount(e) - i) \o ToAttributes(e)
ToMethods(e) == If(Has(e, 4), "methods") \o ToAttributes(e)
ToMask(e) == If(Has(e, 2), "mask") \o ToMethods(e)
ToGuid(e) == If(Has(e, 1), "guid") \o ToMask(e)
ToInner(e, i) == Some(InnerKind(e.item.kind), InnerCount(e) - i) \o ToGuid(e)
ToSubItems(e) ==
  IF e.item.kind \in {"type", "field"} THEN Goal("sub_items", InnerCount(e)) \o ToGuid(e)
  ELSE ToInner(e, 0)
ToDimension(e, i) == Some("dimension", Len(e.item.array) - i) \o ToSubItems(e)
ToTyp(e) == Goal("typ", Len(e.item.typ)) \o ToDimension(e, 0)
ToName(e) == Goal("name", Len(e.item.name)) \o ToTyp(e)

(* The first k of what the item holds, but for what stands where nothing is     *)
(* known to stand.                                                              *)
IsSeq(s) == \E F : s \in Seq(F)
LostKid(t, e, j) == j <= InnerCount(e) /\ e.inner[j] \notin DOMAIN t.entry
KidsRead(t, e, kids, k) ==
  /\ IsSeq(kids) /\ Len(kids) = k
  /\ \A j \in 1 .. k : kids[j] = e.item.kids[j] \/ LostKid(t, e, j)

Stands(f, ptr, todo, item) == f.ptr = ptr /\ f.todo = todo /\ f.item = item

(* A frame of entry e, at its header, name, type, dimensions, ...               *)
AtHeader(f, e) == Stands(f, e.at + 1, Goal("header", 1), NewItem(e.item.kind))
AtName(f, e) ==
  Stands(f, NameAt(e), ToName(e),
         [e.item EXCEPT !.name = <<>>, !.typ = <<>>, !.array = <<>>, !.kids = <<>>])
AtTyp(f, e) ==
  Stands(f, TypAt(e), ToTyp(e), [e.item EXCEPT !.typ = <<>>, !.array = <<>>, !.kids = <<>>])
AtDimension(f, e, i) ==
  /\ i \in 0 .. Len(e.item.array)
  /\ Stands(f, ArrayAt(e) + i, ToDimension(e, i),
            [e.item EXCEPT !.array = SubSeq(e.item.array, 1, i), !.kids = <<>>])

(* From here on all of it is read but what it holds. *)
Within(t, f, e, ptr, todo, k) ==
  /\ Stands(f, ptr, todo, [e.item EXCEPT !.kids = f.item.kids])
  /\ KidsRead(t, e, f.item.kids, k)

AtSubItems(t, f, e) == Within(t, f, e, e.inner[1], ToSubItems(e), 0)
AtInner(t, f, e, i, k) ==
  i \in 0 .. InnerCount(e) /\ Within(t, f, e, e.inner[i + 1], ToInner(e, i), k)
AtGuid(t, f, e) == Within(t, f, e, GuidAt(e), ToGuid(e), InnerCount(e))
AtMask(t, f, e) == Within(t, f, e, MaskAt(e), ToMask(e), KidsBeforeMethods(e))
AtMethods(t, f, e) == Within(t, f, e, MethodsAt(e), ToMethods(e), KidsBeforeMethods(e))
MethodKids(e, i) == KidsBeforeMethods(e) + Width(e.item.kind = "type", i)
AtMethod(t, f, e, i, k) ==
  i \in 0 .. MethodCount(e) /\ Within(t, f, e, e.methods[i + 1], ToMethod(e, i), k)
AtAttributes(t, f, e) == Within(t, f, e, AttributesAt(e), ToAttributes(e), KidsBeforeAttributes(e))
AtAttribute(t, f, e, i) ==
  /\ i \in 0 .. AttributeCount(e)
  /\ Within(t, f, e, e.attributes[i + 1], ToAttribute(e, i), KidsBeforeAttributes(e) + i)
AtEnums(t, f, e) == Within(t, f, e, EnumsAt(e), ToEnums(e), KidsBeforeEnums(e))
AtEnum(t, f, e, i) ==
  /\ i \in 0 .. EnumCount(e)
  /\ Within(t, f, e, e.enums[i + 1], ToEnum(e, i), KidsBeforeEnums(e) + i)

(* A frame reading entry e, none of the entries it holds being open.            *)
Reads(t, f, e) ==
  \/ AtHeader(f, e) \/ AtName(f, e) \/ AtTyp(f, e) \/ \E i \in Nat : AtDimension(f, e, i)
  \/ AtSubItems(t, f, e) \/ \E i \in Nat : AtInner(t, f, e, i, i)
  \/ AtGuid(t, f, e) \/ AtMask(t, f, e)
  \/ AtMethods(t, f, e) \/ \E i \in Nat : AtMethod(t, f, e, i, MethodKids(e, i))
  \/ AtAttributes(t, f, e) \/ \E i \in Nat : AtAttribute(t, f, e, i)
  \/ AtEnums(t, f, e) \/ \E i \in Nat : AtEnum(t, f, e, i)

--------------------------------------------------------------------------------
(* Entries and lists. *)

(* A table of numbers, and an entry that stands in it. *)
Stood(t, e) == t.whole \in Seq(Nat) /\ EntryWritten(t, e)

(* Positions and counts of an entry are numbers, and within its slice.          *)
LEMMA EntryFacts ==
  ASSUME NEW t, NEW e, Stood(t, e)
  PROVE  /\ e.item.size \in Nat /\ e.at \in Nat /\ e.end \in Nat
         /\ EndAt(e) \in Nat /\ EndAt(e) <= e.end /\ e.end <= Len(t.whole)
         /\ e.end = e.at + t.whole[e.at + 1]
         /\ InnerCount(e) \in Nat /\ \A i \in 1 .. InnerCount(e) + 1 :
              e.inner[i] \in Nat /\ e.inner[i] <= EndAt(e)
         /\ MethodCount(e) \in Nat /\ \A i \in 1 .. MethodCount(e) + 1 :
              e.methods[i] \in Nat /\ e.methods[i] <= EndAt(e)
         /\ AttributeCount(e) \in Nat /\ \A i \in 1 .. AttributeCount(e) + 1 :
              e.attributes[i] \in Nat /\ e.attributes[i] <= EndAt(e)
         /\ EnumCount(e) \in Nat /\ \A i \in 1 .. EnumCount(e) + 1 :
              e.enums[i] \in Nat /\ e.enums[i] <= EndAt(e)
<1> DEFINE Inside(list) == list \in Seq(Nat) /\ list # <<>>
                           /\ \A i \in DOMAIN list : list[i] <= EndAt(e)
<1>1. /\ e.item.size \in Nat /\ e.at \in Nat /\ e.end \in Nat
      /\ EndAt(e) <= e.end /\ e.end <= Len(t.whole)
      /\ e.end = e.at + t.whole[e.at + 1]
  BY DEF Stood, EntryWritten, PartsFollow
<1>2. Inside(e.inner) /\ Inside(e.methods) /\ Inside(e.attributes) /\ Inside(e.enums)
  BY DEF Stood, EntryWritten, PartsFollow
<1>3. ASSUME NEW list, Inside(list)
      PROVE  /\ Len(list) - 1 \in Nat
             /\ \A i \in 1 .. (Len(list) - 1) + 1 : list[i] \in Nat /\ list[i] <= EndAt(e)
  <2>1. Len(list) \in Nat /\ Len(list) # 0 /\ DOMAIN list = 1 .. Len(list)
    BY <1>3
  <2>2. \A i \in 1 .. Len(list) : list[i] \in Nat
    BY <1>3
  <2> QED BY <1>3, <2>1, <2>2
<1> HIDE DEF Inside
<1>4. /\ InnerCount(e) \in Nat /\ \A i \in 1 .. InnerCount(e) + 1 :
              e.inner[i] \in Nat /\ e.inner[i] <= EndAt(e)
  BY <1>2, <1>3 DEF InnerCount
<1>5. /\ MethodCount(e) \in Nat /\ \A i \in 1 .. MethodCount(e) + 1 :
              e.methods[i] \in Nat /\ e.methods[i] <= EndAt(e)
  BY <1>2, <1>3 DEF MethodCount
<1>6. /\ AttributeCount(e) \in Nat /\ \A i \in 1 .. AttributeCount(e) + 1 :
              e.attributes[i] \in Nat /\ e.attributes[i] <= EndAt(e)
  BY <1>2, <1>3 DEF AttributeCount
<1>7. /\ EnumCount(e) \in Nat /\ \A i \in 1 .. EnumCount(e) + 1 :
              e.enums[i] \in Nat /\ e.enums[i] <= EndAt(e)
  BY <1>2, <1>3 DEF EnumCount
<1>8. EndAt(e) \in Nat
  BY <1>7 DEF EndAt
<1> QED BY <1>1, <1>4, <1>5, <1>6, <1>7, <1>8

(* Goals in front of others.                                                    *)
LEMMA Ahead1 ==
  ASSUME NEW w, NEW n, NEW rest \in Seq(Goals)
  PROVE  /\ Goal(w, n) \o rest # <<>>
         /\ Head(Goal(w, n) \o rest) = [what |-> w, n |-> n]
         /\ Tail(Goal(w, n) \o rest) = rest
<1> DEFINE g == [what |-> w, n |-> n]
<1> HIDE DEF g
<1>1. <<g>> \in Seq(Goals \cup {g}) /\ rest \in Seq(Goals \cup {g})
  OBVIOUS
<1>2. /\ <<g>> \o rest \in Seq(Goals \cup {g}) /\ Len(<<g>> \o rest) = 1 + Len(rest)
      /\ \A i \in 1 .. 1 + Len(rest) : (<<g>> \o rest)[i] = IF i = 1 THEN g ELSE rest[i - 1]
  BY <1>1
<1> DEFINE u == <<g>> \o rest
<1> HIDE DEF u
<1>3. u \in Seq(Goals \cup {g}) /\ Len(u) = 1 + Len(rest) /\ u # <<>> /\ Head(u) = g
  <2>1. u \in Seq(Goals \cup {g}) /\ Len(u) = 1 + Len(rest) /\ u[1] = g
    BY <1>2 DEF u
  <2> QED BY <2>1
<1>4. Tail(u) = rest
  <2>1. /\ Tail(u) \in Seq(Goals \cup {g}) /\ Len(Tail(u)) = Len(u) - 1
        /\ \A i \in 1 .. Len(Tail(u)) : Tail(u)[i] = u[i + 1]
    BY <1>3, HeadTailProperties
  <2>2. \A i \in 1 .. Len(rest) : u[i + 1] = rest[i]
    BY <1>2 DEF u
  <2>3. Len(Tail(u)) = Len(rest)
    BY <1>3, <2>1
  <2> QED BY <1>1, <2>1, <2>2, <2>3, SeqEqual
<1> QED BY <1>3, <1>4 DEF u, g, Goal

(* Nothing before a list leaves it as it is.                                    *)
LEMMA Nothing == \A s \in Seq(Goals) : <<>> \o s = s
BY ConcatEmptySeq

(* What is still to be read of an entry is a list of goals.                     *)
LEMMA Todos ==
  ASSUME NEW t, NEW e, Stood(t, e)
  PROVE  /\ ToEnums(e) \in Seq(Goals) /\ ToAttributes(e) \in Seq(Goals)
         /\ ToMethods(e) \in Seq(Goals) /\ ToMask(e) \in Seq(Goals)
         /\ ToGuid(e) \in Seq(Goals) /\ ToSubItems(e) \in Seq(Goals)
         /\ ToTyp(e) \in Seq(Goals) /\ ToName(e) \in Seq(Goals)
         /\ \A i \in 0 .. EnumCount(e) : ToEnum(e, i) \in Seq(Goals)
         /\ \A i \in 0 .. AttributeCount(e) : ToAttribute(e, i) \in Seq(Goals)
         /\ \A i \in 0 .. MethodCount(e) : ToMethod(e, i) \in Seq(Goals)
         /\ \A i \in 0 .. InnerCount(e) : ToInner(e, i) \in Seq(Goals)
         /\ \A i \in 0 .. Len(e.item.array) : ToDimension(e, i) \in Seq(Goals)
<1>1. /\ EnumCount(e) \in Nat /\ AttributeCount(e) \in Nat
      /\ MethodCount(e) \in Nat /\ InnerCount(e) \in Nat
  BY EntryFacts
<1>2. /\ Len(e.item.array) \in Nat /\ Len(e.item.typ) \in Nat /\ Len(e.item.name) \in Nat
  BY DEF Stood, EntryWritten, Spells
<1>3. ASSUME NEW w \in Whats, NEW n \in Nat, NEW i \in 0 .. n
      PROVE  Some(w, n - i) \in Seq(Goals)
  <2>1. n - i \in Nat
    OBVIOUS
  <2> QED BY <2>1, GoalLists
<1>4. ASSUME NEW c, NEW w \in Whats PROVE If(c, w) \in Seq(Goals)
  BY GoalLists DEF If
<1>5. /\ {"enum", "enums", "attribute", "attributes", "method", "methods", "mask", "guid",
          "dimension", "field", "parameter"} \subseteq Whats
      /\ InnerKind(e.item.kind) \in Whats
  BY DEF Whats, Entries, InnerKind
<1>6. \A i \in 0 .. EnumCount(e) : ToEnum(e, i) \in Seq(Goals)
  BY <1>1, <1>3, <1>5 DEF ToEnum
<1>7. ToEnums(e) \in Seq(Goals)
  BY <1>4, <1>5 DEF ToEnums
<1>8. \A i \in 0 .. AttributeCount(e) : ToAttribute(e, i) \in Seq(Goals)
  BY <1>1, <1>3, <1>5, <1>7, Joined DEF ToAttribute
<1>9. ToAttributes(e) \in Seq(Goals)
  BY <1>4, <1>5, <1>7, Joined DEF ToAttributes
<1>10. \A i \in 0 .. MethodCount(e) : ToMethod(e, i) \in Seq(Goals)
  BY <1>1, <1>3, <1>5, <1>9, Joined DEF ToMethod
<1>11. ToMethods(e) \in Seq(Goals)
  BY <1>4, <1>5, <1>9, Joined DEF ToMethods
<1>12. ToMask(e) \in Seq(Goals)
  BY <1>4, <1>5, <1>11, Joined DEF ToMask
<1>13. ToGuid(e) \in Seq(Goals)
  BY <1>4, <1>5, <1>12, Joined DEF ToGuid
<1>14. \A i \in 0 .. InnerCount(e) : ToInner(e, i) \in Seq(Goals)
  BY <1>1, <1>3, <1>5, <1>13, Joined DEF ToInner
<1>15. ToSubItems(e) \in Seq(Goals)
  <2>1. Goal("sub_items", InnerCount(e)) \in Seq(Goals)
    BY <1>1, GoalLists DEF LengthGoals
  <2>2. ToInner(e, 0) \in Seq(Goals)
    BY <1>1, <1>14
  <2> QED BY <1>13, <2>1, <2>2, Joined DEF ToSubItems
<1>16. \A i \in 0 .. Len(e.item.array) : ToDimension(e, i) \in Seq(Goals)
  BY <1>2, <1>3, <1>5, <1>15, Joined DEF ToDimension
<1>17. ToTyp(e) \in Seq(Goals)
  <2>1. Goal("typ", Len(e.item.typ)) \in Seq(Goals)
    BY <1>2, GoalLists DEF LengthGoals
  <2>2. ToDimension(e, 0) \in Seq(Goals)
    BY <1>2, <1>16
  <2> QED BY <2>1, <2>2, Joined DEF ToTyp
<1>18. ToName(e) \in Seq(Goals)
  <2>1. Goal("name", Len(e.item.name)) \in Seq(Goals)
    BY <1>2, GoalLists DEF LengthGoals
  <2> QED BY <1>17, <2>1, Joined DEF ToName
<1> QED BY <1>6, <1>7, <1>8, <1>9, <1>10, <1>11, <1>12, <1>13, <1>14, <1>15, <1>16, <1>17, <1>18

(* The places of the parts follow one another.                                  *)
LEMMA Places ==
  ASSUME NEW t, NEW e, Stood(t, e)
  PROVE  /\ e.item.kind \in Entries /\ HeaderLength(e.item.kind) \in Nat
         /\ Len(e.item.name) \in Nat /\ Len(e.item.typ) \in Nat /\ Len(e.item.array) \in Nat
         /\ NameAt(e) \in Nat /\ NameAt(e) = e.at + (1 + HeaderLength(e.item.kind))
         /\ TypAt(e) \in Nat /\ TypAt(e) = NameAt(e) + (Len(e.item.name) + 1)
         /\ ArrayAt(e) \in Nat /\ ArrayAt(e) = TypAt(e) + (Len(e.item.typ) + 1)
         /\ e.inner[1] \in Nat /\ e.inner[1] = ArrayAt(e) + Len(e.item.array)
         /\ e.inner[1] <= EndAt(e)
         /\ GuidAt(e) \in Nat /\ GuidAt(e) = e.inner[InnerCount(e) + 1]
         /\ MaskAt(e) \in Nat /\ MaskAt(e) = GuidAt(e) + Width(Has(e, 1), 1)
         /\ MethodsAt(e) \in Nat /\ MethodsAt(e) = MaskAt(e) + Width(Has(e, 2), e.item.size)
         /\ e.methods[1] = MethodsAt(e) + Width(Has(e, 4), 1) /\ e.methods[1] <= EndAt(e)
         /\ AttributesAt(e) \in Nat /\ AttributesAt(e) = e.methods[MethodCount(e) + 1]
         /\ e.attributes[1] = AttributesAt(e) + Width(Has(e, 8), 1)
         /\ e.attributes[1] <= EndAt(e)
         /\ EnumsAt(e) \in Nat /\ EnumsAt(e) = e.attributes[AttributeCount(e) + 1]
         /\ e.enums[1] = EnumsAt(e) + Width(Has(e, 16), 1) /\ e.enums[1] <= EndAt(e)
<1>1. /\ e.item.kind \in Entries /\ e.at \in Nat /\ e.item.size \in Nat
      /\ Len(e.item.name) \in Nat /\ Len(e.item.typ) \in Nat /\ Len(e.item.array) \in Nat
  BY DEF Stood, EntryWritten, Spells
<1>2. HeaderLength(e.item.kind) \in Nat
  BY <1>1 DEF HeaderLength, Entries
<1>3. /\ e.inner[1] = ArrayAt(e) + Len(e.item.array)
      /\ e.methods[1] = MethodsAt(e) + Width(Has(e, 4), 1)
      /\ e.attributes[1] = AttributesAt(e) + Width(Has(e, 8), 1)
      /\ e.enums[1] = EnumsAt(e) + Width(Has(e, 16), 1)
  BY DEF Stood, EntryWritten, PartsFollow
<1>4. /\ e.inner[1] \in Nat /\ e.inner[1] <= EndAt(e) /\ GuidAt(e) \in Nat
      /\ e.methods[1] <= EndAt(e) /\ AttributesAt(e) \in Nat
      /\ e.attributes[1] <= EndAt(e) /\ EnumsAt(e) \in Nat /\ e.enums[1] <= EndAt(e)
  <2>1. /\ InnerCount(e) \in Nat /\ MethodCount(e) \in Nat /\ AttributeCount(e) \in Nat
        /\ EnumCount(e) \in Nat
    BY EntryFacts
  <2>2. /\ 1 \in 1 .. InnerCount(e) + 1 /\ InnerCount(e) + 1 \in 1 .. InnerCount(e) + 1
        /\ 1 \in 1 .. MethodCount(e) + 1 /\ MethodCount(e) + 1 \in 1 .. MethodCount(e) + 1
        /\ 1 \in 1 .. AttributeCount(e) + 1
        /\ AttributeCount(e) + 1 \in 1 .. AttributeCount(e) + 1
        /\ 1 \in 1 .. EnumCount(e) + 1
    BY <2>1
  <2> QED BY <2>2, EntryFacts DEF GuidAt, AttributesAt, EnumsAt
<1>5. NameAt(e) \in Nat /\ TypAt(e) \in Nat /\ ArrayAt(e) \in Nat
  <2>1. NameAt(e) \in Nat
    BY <1>1, <1>2 DEF NameAt
  <2>2. TypAt(e) \in Nat
    BY <1>1, <2>1 DEF TypAt
  <2> QED BY <1>1, <2>1, <2>2 DEF ArrayAt
<1>6. MaskAt(e) \in Nat /\ MethodsAt(e) \in Nat
  BY <1>1, <1>4 DEF MaskAt, MethodsAt, Width
<1> QED BY <1>1, <1>2, <1>3, <1>4, <1>5, <1>6
        DEF NameAt, TypAt, ArrayAt, GuidAt, MaskAt, MethodsAt, AttributesAt, EnumsAt

(* How much of what the item holds comes before the methods, and so on.         *)
LEMMA KidCounts ==
  ASSUME NEW t, NEW e, Stood(t, e)
  PROVE  /\ KidsBeforeMethods(e) \in Nat /\ InnerCount(e) <= KidsBeforeMethods(e)
         /\ KidsBeforeAttributes(e) \in Nat
         /\ KidsBeforeEnums(e) \in Nat
         /\ KidsBeforeEnums(e) = KidsBeforeAttributes(e) + AttributeCount(e)
         /\ MethodCount(e) = 0 => KidsBeforeAttributes(e) = KidsBeforeMethods(e)
         /\ AttributeCount(e) = 0 => KidsBeforeEnums(e) = KidsBeforeAttributes(e)
<1>1. /\ InnerCount(e) \in Nat /\ MethodCount(e) \in Nat /\ AttributeCount(e) \in Nat
  BY EntryFacts
<1> DEFINE g == Width(e.item.kind = "type" /\ Has(e, 1), 1)
           m == Width(e.item.kind = "type", MethodCount(e))
<1>2. g \in Nat /\ m \in Nat /\ (MethodCount(e) = 0 => m = 0)
  BY <1>1 DEF Width
<1>3. KidsBeforeMethods(e) = InnerCount(e) + g
  BY DEF KidsBeforeMethods
<1>4. KidsBeforeAttributes(e) = KidsBeforeMethods(e) + m
  BY DEF KidsBeforeAttributes
<1> HIDE DEF g, m
<1>5. KidsBeforeMethods(e) \in Nat /\ InnerCount(e) <= KidsBeforeMethods(e)
  BY <1>1, <1>2, <1>3
<1>6. /\ KidsBeforeAttributes(e) \in Nat
      /\ MethodCount(e) = 0 => KidsBeforeAttributes(e) = KidsBeforeMethods(e)
  BY <1>2, <1>4, <1>5
<1> QED BY <1>1, <1>5, <1>6 DEF KidsBeforeEnums

--------------------------------------------------------------------------------
(* What comes next. *)

(* Parts that are not there take no place.                                      *)
LEMMA Absent ==
  ASSUME NEW t, NEW e, Stood(t, e)
  PROVE  /\ ToDimension(e, Len(e.item.array)) = ToSubItems(e)
         /\ e.item.kind \notin {"type", "field"} => ToSubItems(e) = ToInner(e, 0)
         /\ ToInner(e, InnerCount(e)) = ToGuid(e)
         /\ ~Has(e, 1) => ToGuid(e) = ToMask(e)
         /\ ~Has(e, 2) => ToMask(e) = ToMethods(e)
         /\ ~Has(e, 4) => ToMethods(e) = ToAttributes(e) /\ MethodCount(e) = 0
         /\ ToMethod(e, MethodCount(e)) = ToAttributes(e)
         /\ ~Has(e, 8) => ToAttributes(e) = ToEnums(e) /\ AttributeCount(e) = 0
         /\ ToAttribute(e, AttributeCount(e)) = ToEnums(e)
         /\ ~Has(e, 16) => ToEnums(e) = <<>> /\ EnumCount(e) = 0
         /\ ToEnum(e, EnumCount(e)) = <<>>
<1>1. /\ ToEnums(e) \in Seq(Goals) /\ ToAttributes(e) \in Seq(Goals)
      /\ ToMethods(e) \in Seq(Goals) /\ ToMask(e) \in Seq(Goals)
      /\ ToGuid(e) \in Seq(Goals) /\ ToSubItems(e) \in Seq(Goals)
  BY Todos
<1>2. /\ EnumCount(e) - EnumCount(e) = 0 /\ AttributeCount(e) - AttributeCount(e) = 0
      /\ MethodCount(e) - MethodCount(e) = 0 /\ InnerCount(e) - InnerCount(e) = 0
  BY EntryFacts
<1>3. Len(e.item.array) - Len(e.item.array) = 0
  BY Places
<1>4. \A w : Some(w, 0) = <<>> /\ If(FALSE, w) = <<>>
  BY DEF Some, If
<1>5. ToDimension(e, Len(e.item.array)) = ToSubItems(e)
  BY <1>1, <1>3, <1>4, Nothing DEF ToDimension
<1>6. ToInner(e, InnerCount(e)) = ToGuid(e)
  BY <1>1, <1>2, <1>4, Nothing DEF ToInner
<1>7. ToMethod(e, MethodCount(e)) = ToAttributes(e)
  BY <1>1, <1>2, <1>4, Nothing DEF ToMethod
<1>8. ToAttribute(e, AttributeCount(e)) = ToEnums(e)
  BY <1>1, <1>2, <1>4, Nothing DEF ToAttribute
<1>9. ToEnum(e, EnumCount(e)) = <<>>
  BY <1>2, <1>4 DEF ToEnum
<1>10. /\ ~Has(e, 1) => ToGuid(e) = ToMask(e)
       /\ ~Has(e, 2) => ToMask(e) = ToMethods(e)
       /\ ~Has(e, 4) => ToMethods(e) = ToAttributes(e)
       /\ ~Has(e, 8) => ToAttributes(e) = ToEnums(e)
       /\ ~Has(e, 16) => ToEnums(e) = <<>>
  <2>1. ~Has(e, 1) => ToGuid(e) = ToMask(e)
    BY <1>1, Nothing DEF ToGuid, If
  <2>2. ~Has(e, 2) => ToMask(e) = ToMethods(e)
    BY <1>1, Nothing DEF ToMask, If
  <2>3. ~Has(e, 4) => ToMethods(e) = ToAttributes(e)
    BY <1>1, Nothing DEF ToMethods, If
  <2>4. ~Has(e, 8) => ToAttributes(e) = ToEnums(e)
    BY <1>1, Nothing DEF ToAttributes, If
  <2>5. ~Has(e, 16) => ToEnums(e) = <<>>
    BY DEF ToEnums, If
  <2> QED BY <2>1, <2>2, <2>3, <2>4, <2>5
<1>11. ~Has(e, 4) => MethodCount(e) = 0
  BY DEF Stood, EntryWritten, MethodsWritten
<1>12. ~Has(e, 8) => AttributeCount(e) = 0
  BY DEF Stood, EntryWritten, AttributesWritten
<1>13. ~Has(e, 16) => EnumCount(e) = 0
  BY DEF Stood, EntryWritten, EnumsWritten
<1>14. e.item.kind \notin {"type", "field"} => ToSubItems(e) = ToInner(e, 0)
  BY DEF ToSubItems
<1> QED BY <1>5, <1>6, <1>7, <1>8, <1>9, <1>10, <1>11, <1>12, <1>13, <1>14

(* At a part that is there, or at the end.                                      *)
Settled(t, f, e) ==
  \/ AtHeader(f, e) \/ AtName(f, e) \/ AtTyp(f, e)
  \/ \E i \in Nat : i < Len(e.item.array) /\ AtDimension(f, e, i)
  \/ e.item.kind \in {"type", "field"} /\ AtSubItems(t, f, e)
  \/ \E i \in Nat : i < InnerCount(e) /\ AtInner(t, f, e, i, i)
  \/ Has(e, 1) /\ AtGuid(t, f, e)
  \/ Has(e, 2) /\ AtMask(t, f, e)
  \/ Has(e, 4) /\ AtMethods(t, f, e)
  \/ \E i \in Nat : i < MethodCount(e) /\ AtMethod(t, f, e, i, MethodKids(e, i))
  \/ Has(e, 8) /\ AtAttributes(t, f, e)
  \/ \E i \in Nat : i < AttributeCount(e) /\ AtAttribute(t, f, e, i)
  \/ Has(e, 16) /\ AtEnums(t, f, e)
  \/ \E i \in Nat : i < EnumCount(e) /\ AtEnum(t, f, e, i)
  \/ AtEnum(t, f, e, EnumCount(e))

(* Two places of an entry that have the same to be read of it are one: of a     *)
(* list that is empty the frame is at the end, not before.                      *)
LEMMA Settles ==
  ASSUME NEW t, NEW e, Stood(t, e), NEW f, Reads(t, f, e)
  PROVE  Settled(t, f, e)
<1>1. /\ InnerCount(e) \in Nat /\ MethodCount(e) \in Nat
      /\ AttributeCount(e) \in Nat /\ EnumCount(e) \in Nat /\ Len(e.item.array) \in Nat
  BY EntryFacts, Places
<1>2. ASSUME NEW i \in Nat, AtEnum(t, f, e, i) PROVE Settled(t, f, e)
  <2>1. i \in 0 .. EnumCount(e)
    BY <1>2 DEF AtEnum
  <2>2. CASE i < EnumCount(e)
    BY <1>2, <2>2 DEF Settled
  <2>3. CASE i = EnumCount(e)
    BY <1>2, <2>3 DEF Settled
  <2> QED BY <1>1, <2>1, <2>2, <2>3
<1>3. ASSUME AtEnums(t, f, e) PROVE Settled(t, f, e)
  <2>1. CASE Has(e, 16)
    BY <1>3, <2>1 DEF Settled
  <2>2. CASE ~Has(e, 16)
    <3>1. ToEnums(e) = ToEnum(e, 0) /\ EnumCount(e) = 0
      BY <2>2, Absent
    <3>2. e.enums[0 + 1] = EnumsAt(e) /\ KidsBeforeEnums(e) + 0 = KidsBeforeEnums(e)
      <4>1. e.enums[1] = EnumsAt(e) /\ KidsBeforeEnums(e) \in Nat
        BY <2>2, Places, KidCounts DEF Width
      <4> QED BY <4>1
    <3>3. AtEnum(t, f, e, 0)
      BY <1>3, <3>1, <3>2 DEF AtEnums, AtEnum
    <3> QED BY <1>2, <3>3
  <2> QED BY <2>1, <2>2
<1>4. ASSUME NEW i \in Nat, AtAttribute(t, f, e, i) PROVE Settled(t, f, e)
  <2>1. i \in 0 .. AttributeCount(e)
    BY <1>4 DEF AtAttribute
  <2>2. CASE i < AttributeCount(e)
    BY <1>4, <2>2 DEF Settled
  <2>3. CASE i = AttributeCount(e)
    <3>1. AtEnums(t, f, e)
      BY <1>4, <2>3, Absent, Places DEF AtAttribute, AtEnums, KidsBeforeEnums
    <3> QED BY <1>3, <3>1
  <2> QED BY <1>1, <2>1, <2>2, <2>3
<1>5. ASSUME AtAttributes(t, f, e) PROVE Settled(t, f, e)
  <2>1. CASE Has(e, 8)
    BY <1>5, <2>1 DEF Settled
  <2>2. CASE ~Has(e, 8)
    <3>1. ToAttributes(e) = ToEnums(e) /\ AttributeCount(e) = 0
      BY <2>2, Absent
    <3>2. EnumsAt(e) = AttributesAt(e) /\ KidsBeforeEnums(e) = KidsBeforeAttributes(e)
      <4>1. EnumsAt(e) = e.attributes[1] /\ e.attributes[1] = AttributesAt(e)
        BY <2>2, <3>1, Places DEF Width
      <4> QED BY <3>1, <4>1, KidCounts
    <3>3. AtEnums(t, f, e)
      BY <1>5, <3>1, <3>2 DEF AtAttributes, AtEnums
    <3> QED BY <1>3, <3>3
  <2> QED BY <2>1, <2>2
<1>6. ASSUME NEW i \in Nat, AtMethod(t, f, e, i, MethodKids(e, i)) PROVE Settled(t, f, e)
  <2>1. i \in 0 .. MethodCount(e)
    BY <1>6 DEF AtMethod
  <2>2. CASE i < MethodCount(e)
    BY <1>6, <2>2 DEF Settled
  <2>3. CASE i = MethodCount(e)
    <3>1. AtAttributes(t, f, e)
      BY <1>6, <2>3, Absent, Places DEF AtMethod, AtAttributes, MethodKids, KidsBeforeAttributes
    <3> QED BY <1>5, <3>1
  <2> QED BY <1>1, <2>1, <2>2, <2>3
<1>7. ASSUME AtMethods(t, f, e) PROVE Settled(t, f, e)
  <2>1. CASE Has(e, 4)
    BY <1>7, <2>1 DEF Settled
  <2>2. CASE ~Has(e, 4)
    <3>1. ToMethods(e) = ToAttributes(e) /\ MethodCount(e) = 0
      BY <2>2, Absent
    <3>2. AttributesAt(e) = MethodsAt(e) /\ KidsBeforeMethods(e) = KidsBeforeAttributes(e)
      BY <2>2, <3>1, Places, KidCounts DEF Width
    <3>3. AtAttributes(t, f, e)
      BY <1>7, <3>1, <3>2 DEF AtMethods, AtAttributes
    <3> QED BY <1>5, <3>3
  <2> QED BY <2>1, <2>2
<1>8. ASSUME AtMask(t, f, e) PROVE Settled(t, f, e)
  <2>1. CASE Has(e, 2)
    BY <1>8, <2>1 DEF Settled
  <2>2. CASE ~Has(e, 2)
    <3>1. ToMask(e) = ToMethods(e) /\ MethodsAt(e) = MaskAt(e)
      BY <2>2, Absent, Places DEF Width
    <3>2. AtMethods(t, f, e)
      BY <1>8, <3>1 DEF AtMask, AtMethods
    <3> QED BY <1>7, <3>2
  <2> QED BY <2>1, <2>2
<1>9. ASSUME AtGuid(t, f, e) PROVE Settled(t, f, e)
  <2>1. CASE Has(e, 1)
    BY <1>9, <2>1 DEF Settled
  <2>2. CASE ~Has(e, 1)
    <3>1. ToGuid(e) = ToMask(e) /\ MaskAt(e) = GuidAt(e)
      BY <2>2, Absent, Places DEF Width
    <3>2. KidsBeforeMethods(e) = InnerCount(e)
      BY <1>1, <2>2 DEF KidsBeforeMethods, Width
    <3>3. AtMask(t, f, e)
      BY <1>9, <3>1, <3>2 DEF AtGuid, AtMask
    <3> QED BY <1>8, <3>3
  <2> QED BY <2>1, <2>2
<1>10. ASSUME NEW i \in Nat, AtInner(t, f, e, i, i) PROVE Settled(t, f, e)
  <2>1. i \in 0 .. InnerCount(e)
    BY <1>10 DEF AtInner
  <2>2. CASE i < InnerCount(e)
    BY <1>10, <2>2 DEF Settled
  <2>3. CASE i = InnerCount(e)
    <3>1. AtGuid(t, f, e)
      BY <1>10, <2>3, Absent, Places DEF AtInner, AtGuid
    <3> QED BY <1>9, <3>1
  <2> QED BY <1>1, <2>1, <2>2, <2>3
<1>11. ASSUME AtSubItems(t, f, e) PROVE Settled(t, f, e)
  <2>1. CASE e.item.kind \in {"type", "field"}
    BY <1>11, <2>1 DEF Settled
  <2>2. CASE e.item.kind \notin {"type", "field"}
    <3>1. AtInner(t, f, e, 0, 0)
      BY <1>1, <1>11, <2>2, Absent DEF AtSubItems, AtInner
    <3> QED BY <1>10, <3>1
  <2> QED BY <2>1, <2>2
<1>12. ASSUME NEW i \in Nat, AtDimension(f, e, i) PROVE Settled(t, f, e)
  <2>1. i \in 0 .. Len(e.item.array)
    BY <1>12 DEF AtDimension
  <2>2. CASE i < Len(e.item.array)
    BY <1>12, <2>2 DEF Settled
  <2>3. CASE i = Len(e.item.array)
    <3>1. /\ ToDimension(e, i) = ToSubItems(e) /\ ArrayAt(e) + i = e.inner[1]
          /\ SubSeq(e.item.array, 1, i) = e.item.array
      <4>1. e.item.array \in Seq(Nat)
        BY DEF Stood, EntryWritten, Spells
      <4> QED BY <2>3, <4>1, Absent, Places, SubSeqFull
    <3> DEFINE m == e.item
    <3>2. m = [kind |-> m.kind, name |-> m.name, typ |-> m.typ, size |-> m.size,
               offset |-> m.offset, base_type |-> m.base_type, array |-> m.array,
               kids |-> m.kids]
      BY DEF Stood, EntryWritten
    <3>3. /\ f.ptr = ArrayAt(e) + i /\ f.todo = ToDimension(e, i)
          /\ f.item = [m EXCEPT !.array = SubSeq(m.array, 1, i), !.kids = <<>>]
      BY <1>12 DEF AtDimension, Stands
    <3>4. f.item = [m EXCEPT !.kids = <<>>]
      BY <3>1, <3>2, <3>3
    <3>5. f.item.kids = <<>> /\ f.item = [m EXCEPT !.kids = f.item.kids]
      BY <3>2, <3>4
    <3>6. KidsRead(t, e, f.item.kids, 0)
      BY <3>5 DEF KidsRead, IsSeq
    <3>7. AtSubItems(t, f, e)
      BY <3>1, <3>3, <3>5, <3>6 DEF AtSubItems, Within, Stands
    <3> QED BY <1>11, <3>7
  <2> QED BY <1>1, <2>1, <2>2, <2>3
<1> QED BY <1>2, <1>3, <1>4, <1>5, <1>6, <1>7, <1>8, <1>9, <1>10, <1>11, <1>12
        DEF Reads, Settled

(* The first goal of a frame tells at which part it is, and what is left then.  *)
AtPart(t, f, e, w) ==
  /\ w \notin {"type", "symbol"}
  /\ w = "header" => AtHeader(f, e)
  /\ w = "name" => AtName(f, e)
  /\ w = "typ" => AtTyp(f, e)
  /\ w = "dimension" => \E i \in Nat : i < Len(e.item.array) /\ AtDimension(f, e, i)
  /\ w = "sub_items" => e.item.kind \in {"type", "field"} /\ AtSubItems(t, f, e)
  /\ w \in {"field", "parameter"} =>
       w = InnerKind(e.item.kind) /\ \E i \in Nat : i < InnerCount(e) /\ AtInner(t, f, e, i, i)
  /\ w = "guid" => Has(e, 1) /\ AtGuid(t, f, e)
  /\ w = "mask" => Has(e, 2) /\ AtMask(t, f, e)
  /\ w = "methods" => Has(e, 4) /\ AtMethods(t, f, e)
  /\ w = "method" => \E i \in Nat : i < MethodCount(e) /\ AtMethod(t, f, e, i, MethodKids(e, i))
  /\ w = "attributes" => Has(e, 8) /\ AtAttributes(t, f, e)
  /\ w = "attribute" => \E i \in Nat : i < AttributeCount(e) /\ AtAttribute(t, f, e, i)
  /\ w = "enums" => Has(e, 16) /\ AtEnums(t, f, e)
  /\ w = "enum" => \E i \in Nat : i < EnumCount(e) /\ AtEnum(t, f, e, i)

(* What is to be read next says where in its entry a frame is.                  *)
LEMMA NextPart ==
  ASSUME NEW t, NEW e, Stood(t, e), NEW f, Reads(t, f, e)
  PROVE  /\ f.todo = <<>> => AtEnum(t, f, e, EnumCount(e))
         /\ f.todo # <<>> => AtPart(t, f, e, Head(f.todo).what)
<1>1. Settled(t, f, e)
  BY Settles
<1>2. /\ InnerCount(e) \in Nat /\ MethodCount(e) \in Nat
      /\ AttributeCount(e) \in Nat /\ EnumCount(e) \in Nat /\ Len(e.item.array) \in Nat
  BY EntryFacts, Places
<1> DEFINE Heads(w) == f.todo # <<>> /\ Head(f.todo).what = w
<1>3. ASSUME NEW w, NEW n, NEW rest \in Seq(Goals), f.todo = Goal(w, n) \o rest PROVE Heads(w)
  BY <1>3, Ahead1
<1>4. ASSUME NEW w, NEW n \in Nat, NEW i \in Nat, i < n, NEW rest \in Seq(Goals),
             f.todo = Some(w, n - i) \o rest
      PROVE  Heads(w)
  <2>1. Some(w, n - i) = Goal(w, n - i)
    BY <1>4 DEF Some
  <2> QED BY <1>4, <2>1, <1>3
<1>5. ASSUME NEW w, NEW c, c, NEW rest \in Seq(Goals), f.todo = If(c, w) \o rest PROVE Heads(w)
  BY <1>3, <1>5 DEF If
<1>6. ASSUME NEW w, f.todo = Goal(w, 1) PROVE Heads(w)
  BY <1>6 DEF Goal
<1> HIDE DEF Heads
<1>7. CASE AtHeader(f, e)
  <2>1. Heads("header")
    BY <1>6, <1>7 DEF AtHeader, Stands
  <2> QED BY <1>7, <2>1 DEF Heads, AtPart
<1>8. CASE AtName(f, e)
  <2>1. Heads("name")
    BY <1>3, <1>8, Todos DEF AtName, Stands, ToName
  <2> QED BY <1>8, <2>1 DEF Heads, AtPart
<1>9. CASE AtTyp(f, e)
  <2>1. ToDimension(e, 0) \in Seq(Goals)
    BY <1>2, Todos
  <2>2. Heads("typ")
    BY <1>3, <1>9, <2>1 DEF AtTyp, Stands, ToTyp
  <2> QED BY <1>9, <2>2 DEF Heads, AtPart
<1>10. ASSUME NEW i \in Nat, i < Len(e.item.array), AtDimension(f, e, i)
       PROVE  Heads("dimension") /\ AtPart(t, f, e, "dimension")
  <2>0. f.todo = Some("dimension", Len(e.item.array) - i) \o ToSubItems(e)
    BY <1>10 DEF AtDimension, Stands, ToDimension
  <2>1. Heads("dimension")
    BY <1>2, <1>4, <1>10, <2>0, Todos
  <2> QED BY <1>10, <2>1 DEF AtPart
<1>11. CASE e.item.kind \in {"type", "field"} /\ AtSubItems(t, f, e)
  <2>1. Heads("sub_items")
    BY <1>3, <1>11, Todos DEF AtSubItems, Within, Stands, ToSubItems
  <2> QED BY <1>11, <2>1 DEF Heads, AtPart
<1>12. ASSUME NEW i \in Nat, i < InnerCount(e), AtInner(t, f, e, i, i)
       PROVE  Heads(InnerKind(e.item.kind)) /\ AtPart(t, f, e, InnerKind(e.item.kind))
  <2>0. f.todo = Some(InnerKind(e.item.kind), InnerCount(e) - i) \o ToGuid(e)
    BY <1>12 DEF AtInner, Within, Stands, ToInner
  <2>1. Heads(InnerKind(e.item.kind))
    BY <1>2, <1>4, <1>12, <2>0, Todos
  <2>2. InnerKind(e.item.kind) \in {"field", "parameter"}
    BY DEF InnerKind
  <2> QED BY <1>12, <2>1, <2>2 DEF AtPart
<1>13. CASE Has(e, 1) /\ AtGuid(t, f, e)
  <2>1. Heads("guid")
    BY <1>5, <1>13, Todos DEF AtGuid, Within, Stands, ToGuid
  <2> QED BY <1>13, <2>1 DEF Heads, AtPart
<1>14. CASE Has(e, 2) /\ AtMask(t, f, e)
  <2>1. Heads("mask")
    BY <1>5, <1>14, Todos DEF AtMask, Within, Stands, ToMask
  <2> QED BY <1>14, <2>1 DEF Heads, AtPart
<1>15. CASE Has(e, 4) /\ AtMethods(t, f, e)
  <2>1. Heads("methods")
    BY <1>5, <1>15, Todos DEF AtMethods, Within, Stands, ToMethods
  <2> QED BY <1>15, <2>1 DEF Heads, AtPart
<1>16. ASSUME NEW i \in Nat, i < MethodCount(e), AtMethod(t, f, e, i, MethodKids(e, i))
       PROVE  Heads("method") /\ AtPart(t, f, e, "method")
  <2>0. f.todo = Some("method", MethodCount(e) - i) \o ToAttributes(e)
    BY <1>16 DEF AtMethod, Within, Stands, ToMethod
  <2>1. Heads("method")
    BY <1>2, <1>4, <1>16, <2>0, Todos
  <2> QED BY <1>16, <2>1 DEF AtPart
<1>17. CASE Has(e, 8) /\ AtAttributes(t, f, e)
  <2>1. Heads("attributes")
    BY <1>5, <1>17, Todos DEF AtAttributes, Within, Stands, ToAttributes
  <2> QED BY <1>17, <2>1 DEF Heads, AtPart
<1>18. ASSUME NEW i \in Nat, i < AttributeCount(e), AtAttribute(t, f, e, i)
       PROVE  Heads("attribute") /\ AtPart(t, f, e, "attribute")
  <2>0. f.todo = Some("attribute", AttributeCount(e) - i) \o ToEnums(e)
    BY <1>18 DEF AtAttribute, Within, Stands, ToAttribute
  <2>1. Heads("attribute")
    BY <1>2, <1>4, <1>18, <2>0, Todos
  <2> QED BY <1>18, <2>1 DEF AtPart
<1>19. CASE Has(e, 16) /\ AtEnums(t, f, e)
  <2>1. Heads("enums")
    BY <1>6, <1>19 DEF AtEnums, Within, Stands, ToEnums, If
  <2> QED BY <1>19, <2>1 DEF Heads, AtPart
<1>20. ASSUME NEW i \in Nat, i < EnumCount(e), AtEnum(t, f, e, i)
       PROVE  Heads("enum") /\ AtPart(t, f, e, "enum")
  <2>1. EnumCount(e) - i # 0
    BY <1>2, <1>20
  <2>2. f.todo = Goal("enum", EnumCount(e) - i)
    BY <1>20, <2>1 DEF AtEnum, Within, Stands, ToEnum, Some
  <2>3. Heads("enum")
    BY <2>2 DEF Goal, Heads
  <2> QED BY <1>20, <2>3 DEF AtPart
<1>21. CASE AtEnum(t, f, e, EnumCount(e))
  <2>1. f.todo = <<>>
    BY <1>21, Absent DEF AtEnum, Within, Stands
  <2> QED BY <1>21, <2>1
<1>22. CASE \E w : Heads(w) /\ AtPart(t, f, e, w)
  BY <1>22 DEF Heads
<1> QED
  BY <1>1, <1>7, <1>8, <1>9, <1>10, <1>11, <1>12, <1>13, <1>14, <1>15, <1>16, <1>17, <1>18,
     <1>19, <1>20, <1>21, <1>22 DEF Settled

--------------------------------------------------------------------------------
(* Steps of a frame that reads a known entry: it goes on to the next part, or,  *)
(* if its slice is not the whole entry, may fail.                               *)

Clean(t, e) ==
  /\ TInv /\ Reading /\ IsBeginning(data, t.whole)
  /\ Stood(t, e) /\ Reads(t, Top, e)

Stays(t, e) ==
  \E f : /\ stack' = Append(Outer, f) /\ f.end = Top.end /\ Reads(t, f, e)
         /\ UNCHANGED <<upload, data, pc, types, symbols>>
Fails(e) == (Fail("error") \/ Fail("panic")) /\ Top.end # e.end

(* What the frame sees of the table.                                            *)
LEMMA CleanTop ==
  ASSUME NEW t, NEW e, Clean(t, e)
  PROVE  /\ Len(stack) > 0 /\ IsFrame(Top) /\ Top.ptr \in Nat /\ Top.end \in Nat
         /\ Top.ptr <= Top.end /\ Top.end <= Len(t.whole) /\ Top.end <= Len(data)
         /\ Len(data) \in Nat /\ data \in Seq(Nat)
         /\ Left = Top.end - Top.ptr /\ Left \in Nat
         /\ \A i \in 1 .. Left : Item(i) = t.whole[Top.ptr + i] /\ Item(i) \in Nat
         /\ e.item = [kind |-> e.item.kind, name |-> e.item.name, typ |-> e.item.typ,
                      size |-> e.item.size, offset |-> e.item.offset,
                      base_type |-> e.item.base_type, array |-> e.item.array,
                      kids |-> e.item.kids]
         /\ Top.item.kind = e.item.kind /\ e.item.kind \in Entries /\ e.item.kind # "table"
<1>1. Len(stack) > 0
  BY DEF Clean, TInv
<1>2. /\ IsFrame(Top) /\ Top.ptr \in Nat /\ Top.end \in Nat
      /\ Top.ptr <= Top.end /\ Top.end <= Len(data) /\ Len(data) \in Nat
      /\ Left = Top.end - Top.ptr /\ \A i \in 1 .. Left : Item(i) \in Nat
  BY <1>1, AtTop DEF Clean
<1>3. t.whole \in Seq(Nat) /\ Len(data) <= Len(t.whole) /\ data \in Seq(Nat)
      /\ \A i \in 1 .. Len(data) : data[i] = t.whole[i]
  BY DEF Clean, Stood, IsBeginning, TInv
<1>4. \A i \in 1 .. Left : Item(i) = t.whole[Top.ptr + i]
  <2> TAKE i \in 1 .. Left
  <2>1. Top.ptr + i \in 1 .. Len(data)
    BY <1>2
  <2> QED BY <1>3, <2>1 DEF Item
<1>5. /\ e.item.kind \in Entries
      /\ e.item = [kind |-> e.item.kind, name |-> e.item.name, typ |-> e.item.typ,
                      size |-> e.item.size, offset |-> e.item.offset,
                      base_type |-> e.item.base_type, array |-> e.item.array,
                      kids |-> e.item.kids]
  BY DEF Clean, Stood, EntryWritten
<1>6. Top.item.kind = e.item.kind
  <2> DEFINE m == e.item
  <2>1. /\ NewItem(m.kind).kind = m.kind
        /\ [m EXCEPT !.name = <<>>, !.typ = <<>>, !.array = <<>>, !.kids = <<>>].kind = m.kind
        /\ [m EXCEPT !.typ = <<>>, !.array = <<>>, !.kids = <<>>].kind = m.kind
        /\ \A a : [m EXCEPT !.array = a, !.kids = <<>>].kind = m.kind
        /\ \A a : [m EXCEPT !.kids = a].kind = m.kind
    BY <1>5 DEF NewItem
  <2> HIDE DEF m
  <2>2. \/ Top.item = NewItem(m.kind)
        \/ Top.item = [m EXCEPT !.name = <<>>, !.typ = <<>>, !.array = <<>>, !.kids = <<>>]
        \/ Top.item = [m EXCEPT !.typ = <<>>, !.array = <<>>, !.kids = <<>>]
        \/ \E a : Top.item = [m EXCEPT !.array = a, !.kids = <<>>]
        \/ \E a : Top.item = [m EXCEPT !.kids = a]
    BY DEF Clean, Reads, AtHeader, AtName, AtTyp, AtDimension, AtSubItems, AtInner, AtGuid, AtMask,
           AtMethods, AtMethod, AtAttributes, AtAttribute, AtEnums, AtEnum, Within, Stands, m
  <2> QED BY <2>1, <2>2 DEF m
<1>7. e.item.kind # "table" /\ Left \in Nat
  BY <1>2, <1>5 DEF Entries
<1> QED BY <1>1, <1>2, <1>3, <1>4, <1>5, <1>6, <1>7

(* The part of its entry that a step is about to read.                          *)
LEMMA CleanPart ==
  ASSUME NEW t, NEW e, Clean(t, e), NEW w, At(w)
  PROVE  AtPart(t, Top, e, w) /\ Ahead.what = w
BY NextPart DEF Clean, At, Ahead

(* A step that takes numbers leaves the frame at another place of its entry.    *)
LEMMA Moved ==
  ASSUME NEW t, NEW e, NEW n, NEW todo, NEW item, Take(n, todo, item),
         Reads(t, Past(n, todo, item), e)
  PROVE  Stays(t, e)
BY DEF Take, Past, Stays

(* The first of a list of goals, and what remains once it is met.               *)
LEMMA FirstOf ==
  ASSUME NEW w, NEW n, NEW rest \in Seq(Goals), Top.todo = Goal(w, n) \o rest
  PROVE  Ahead.what = w /\ Ahead.n = n /\ Tail(Top.todo) = rest
BY Ahead1 DEF Ahead

(* One of a list has been read: one less is left, or what comes behind it.      *)
LEMMA OneOf ==
  ASSUME Top.item.kind # "table", NEW w, NEW n \in Nat, NEW i \in Nat, i < n,
         NEW rest \in Seq(Goals), Top.todo = Some(w, n - i) \o rest
  PROVE  Tail(Top.todo) = rest /\ OneLess = Some(w, n - (i + 1)) \o rest
<1> DEFINE k == n - i
<1>1. k # 0 /\ k - 1 = n - (i + 1)
  OBVIOUS
<1>2. Top.todo = Some(w, k) \o rest
  OBVIOUS
<1> HIDE DEF k
<1>3. Top.todo = Goal(w, k) \o rest
  BY <1>1, <1>2 DEF Some
<1>4. Tail(Top.todo) = rest
  BY <1>3, FirstOf
<1>5. Ahead.what = w /\ Ahead.n = k
  BY <1>3, FirstOf
<1>6. OneLess = Some(Ahead.what, Ahead.n - 1) \o Tail(Top.todo)
  BY DEF OneLess
<1>7. OneLess = Some(w, k - 1) \o rest
  BY <1>4, <1>5, <1>6
<1> QED BY <1>1, <1>4, <1>7

(* Lists in the order in which the parts are announced.  Seq and \o are hidden: *)
(* the provers are to rewrite, not to think of elements.                        *)
Lists == Seq(Goals)
Join(a, b) == a \o b

(* Lists of goals, joined, are one.                                             *)
LEMMA Closed == \A a, b \in Lists : Join(a, b) \in Lists
BY Joined DEF Join, Lists

(* However they are grouped.                                                    *)
LEMMA Assoc == \A a, b, c \in Lists : Join(Join(a, b), c) = Join(a, Join(b, c))
BY ConcatAssociative DEF Join, Lists

(* Five lists, joined from the front or from the back.                          *)
LEMMA Regroup ==
  ASSUME NEW a \in Lists, NEW b \in Lists, NEW c \in Lists,
         NEW d \in Lists, NEW x \in Lists
  PROVE  Join(Join(Join(Join(a, b), c), d), x) = Join(a, Join(b, Join(c, Join(d, x))))
<1>1. /\ Join(a, b) \in Lists /\ Join(d, x) \in Lists
  BY Closed
<1>2. Join(Join(a, b), c) \in Lists /\ Join(c, Join(d, x)) \in Lists
  BY <1>1, Closed
<1>3. Join(Join(Join(Join(a, b), c), d), x) = Join(Join(Join(a, b), c), Join(d, x))
  BY <1>2, Assoc
<1>4. Join(Join(Join(a, b), c), Join(d, x)) = Join(Join(a, b), Join(c, Join(d, x)))
  BY <1>1, Assoc
<1>5. Join(Join(a, b), Join(c, Join(d, x))) = Join(a, Join(b, Join(c, Join(d, x))))
  BY <1>2, Assoc
<1> QED BY <1>3, <1>4, <1>5

(* The flags of a header announce the parts behind it, in their order.          *)
LEMMA Announced ==
  ASSUME NEW t, NEW e, Stood(t, e), e.item.kind \in {"type", "field"}
  PROVE  FlaggedParts(e.item.kind, e.flags) = ToGuid(e)
<1>1. /\ If(Flag(e.flags, 1), "guid") = If(Has(e, 1), "guid")
      /\ If(Flag(e.flags, 2), "mask") = If(Has(e, 2), "mask")
      /\ If(Flag(e.flags, 4), "methods") = If(Has(e, 4), "methods")
      /\ If(Flag(e.flags, 8), "attributes") = If(Has(e, 8), "attributes")
      /\ If(e.item.kind = "type" /\ Flag(e.flags, 16), "enums") = If(Has(e, 16), "enums")
  BY DEF If, Has
<1> DEFINE A == If(Has(e, 1), "guid")
           B == If(Has(e, 2), "mask")
           C == If(Has(e, 4), "methods")
           D == If(Has(e, 8), "attributes")
           X == If(Has(e, 16), "enums")
<1>2. A \in Seq(Goals) /\ B \in Seq(Goals) /\ C \in Seq(Goals) /\ D \in Seq(Goals)
      /\ X \in Seq(Goals)
  BY GoalLists DEF If, Whats
<1>3. FlaggedParts(e.item.kind, e.flags) = (((A \o B) \o C) \o D) \o X
  BY <1>1 DEF FlaggedParts
<1>4. ToGuid(e) = A \o (B \o (C \o (D \o X)))
  BY DEF ToGuid, ToMask, ToMethods, ToAttributes, ToEnums
<1> HIDE DEF A, B, C, D, X
<1>5. Join(Join(Join(Join(A, B), C), D), X) = Join(A, Join(B, Join(C, Join(D, X))))
  BY <1>2, Regroup DEF Lists
<1> QED BY <1>3, <1>4, <1>5, Zenon DEF Join

(* Where a part of the entry is not all there, the slice is not the whole entry.*)
LEMMA Short ==
  ASSUME NEW t, NEW e, Clean(t, e), NEW n \in Nat, Top.ptr + n <= EndAt(e), Left < n
  PROVE  Top.end # e.end
<1>1. Top.ptr \in Nat /\ Top.end \in Nat /\ Left = Top.end - Top.ptr
  BY CleanTop
<1>2. EndAt(e) \in Nat /\ e.end \in Nat /\ EndAt(e) <= e.end
  BY EntryFacts DEF Clean
<1> QED BY <1>1, <1>2

(* What the entry holds, with one more read.                                    *)
LEMMA Grown ==
  ASSUME NEW t, NEW e, NEW kids, NEW k \in Nat, KidsRead(t, e, kids, k),
         NEW kid, kid = e.item.kids[k + 1] \/ LostKid(t, e, k + 1)
  PROVE  KidsRead(t, e, Append(kids, kid), k + 1)
<1>1. PICK F : kids \in Seq(F)
  BY DEF KidsRead, IsSeq
<1>2. Len(kids) = k /\ \A j \in 1 .. k : kids[j] = e.item.kids[j] \/ LostKid(t, e, j)
  BY DEF KidsRead
<1> DEFINE u == Append(kids, kid)
<1>3. kids \in Seq(F \cup {kid})
  BY <1>1
<1>4. /\ u \in Seq(F \cup {kid}) /\ Len(u) = k + 1 /\ u[k + 1] = kid
      /\ \A j \in 1 .. k : u[j] = kids[j]
  BY <1>2, <1>3
<1> HIDE DEF u
<1>5. ASSUME NEW j \in 1 .. k + 1 PROVE u[j] = e.item.kids[j] \/ LostKid(t, e, j)
  <2>1. CASE j = k + 1
    BY <1>4, <2>1
  <2>2. CASE j # k + 1
    <3>1. j \in 1 .. k
      BY <2>2
    <3> QED BY <1>2, <1>4, <3>1
  <2> QED BY <2>1, <2>2
<1> QED BY <1>4, <1>5 DEF KidsRead, IsSeq, u

(* A step over the next n numbers, and one that adds to what the entry holds.   *)
LEMMA Onward ==
  ASSUME NEW t, NEW e, NEW p, NEW q, NEW k, Within(t, Top, e, p, q, k),
         NEW n, NEW todo, NEW y, p + n = y
  PROVE  Within(t, Past(n, todo, Top.item), e, y, todo, k)
BY DEF Within, Stands, Past

(* A step over a part that also adds to what the item holds.                    *)
LEMMA OnwardWithKid ==
  ASSUME NEW t, NEW e, Clean(t, e), NEW p, NEW q, NEW k \in Nat, Within(t, Top, e, p, q, k),
         NEW n, NEW todo, NEW y, p + n = y,
         NEW kid, kid = e.item.kids[k + 1] \/ LostKid(t, e, k + 1)
  PROVE  Within(t, Past(n, todo, WithKid(kid)), e, y, todo, k + 1)
<1> DEFINE m == e.item
           kids == Top.item.kids
<1>1. m = [kind |-> m.kind, name |-> m.name, typ |-> m.typ, size |-> m.size,
           offset |-> m.offset, base_type |-> m.base_type, array |-> m.array,
           kids |-> m.kids]
  BY CleanTop
<1>2. Top.item = [m EXCEPT !.kids = kids] /\ KidsRead(t, e, kids, k) /\ Top.ptr = p
  BY DEF Within, Stands
<1>3. KidsRead(t, e, Append(kids, kid), k + 1)
  BY <1>2, Grown
<1>4. WithKid(kid) = [Top.item EXCEPT !.kids = Append(Top.item.kids, kid)]
  BY DEF WithKid
<1> HIDE DEF m, kids
<1>5. /\ WithKid(kid) = [m EXCEPT !.kids = Append(kids, kid)]
      /\ WithKid(kid).kids = Append(kids, kid)
  <2>1. Top.item.kids = kids
    BY DEF kids
  <2> QED BY <1>1, <1>2, <1>4, <2>1
<1>6. Past(n, todo, WithKid(kid)) =
        [item |-> WithKid(kid), ptr |-> y, end |-> Top.end, todo |-> todo]
  BY <1>2 DEF Past
<1> DEFINE f == Past(n, todo, WithKid(kid))
<1> HIDE DEF f
<1>7. f.item = WithKid(kid) /\ f.ptr = y /\ f.todo = todo
  BY <1>6 DEF f
<1>8. f.item = [m EXCEPT !.kids = f.item.kids] /\ KidsRead(t, e, f.item.kids, k + 1)
  BY <1>3, <1>5, <1>7
<1>9. Within(t, f, e, y, todo, k + 1)
  BY <1>7, <1>8 DEF Within, Stands, m
<1> QED BY <1>9 DEF f

(* The number of methods (parse_type_flags, parse_field_attributes).            *)
LEMMA StayMethods ==
  ASSUME NEW t, NEW e, Clean(t, e), ReadCount("methods", "method")
  PROVE  Stays(t, e) \/ Fails(e)
<1>1. Has(e, 4) /\ AtMethods(t, Top, e)
  BY CleanPart DEF ReadCount, AtPart
<1>2. Within(t, Top, e, MethodsAt(e), ToMethods(e), KidsBeforeMethods(e))
      /\ Top.ptr = MethodsAt(e) /\ Top.todo = ToMethods(e)
  BY <1>1 DEF AtMethods, Within, Stands
<1>3. MethodsAt(e) + 1 = e.methods[1] /\ e.methods[1] <= EndAt(e) /\ MethodsAt(e) \in Nat
  BY <1>1, Places DEF Clean, Width
<1>4. MethodCount(e) \in Nat /\ 0 \in 0 .. MethodCount(e)
  BY EntryFacts DEF Clean
<1>5. ToAttributes(e) \in Seq(Goals) /\ ToMethods(e) = Goal("methods", 1) \o ToAttributes(e)
  BY <1>1, Todos DEF Clean, ToMethods, If
<1>6. Tail(Top.todo) = ToAttributes(e)
  BY <1>2, <1>5, FirstOf
<1>7. CASE Left < 1
  <2>1. Top.end # e.end
    BY <1>2, <1>3, <1>7, Short
  <2> QED BY <1>7, <2>1 DEF ReadCount, Fails
<1>8. CASE ~(Left < 1)
  <2>1. 1 \in 1 .. Left
    <3>1. Left \in Nat
      BY CleanTop
    <3> QED BY <1>8, <3>1
  <2>2. Item(1) = t.whole[MethodsAt(e) + 1]
    BY <1>2, <2>1, CleanTop
  <2>3. Item(1) = MethodCount(e)
    BY <1>1, <2>2 DEF Clean, Stood, EntryWritten, MethodsWritten
  <2> DEFINE f == Past(1, ToMethod(e, 0), Top.item)
  <2>4. Some("method", Item(1)) \o Tail(Top.todo) = ToMethod(e, 0)
    <3>1. MethodCount(e) - 0 = MethodCount(e)
      BY <1>4
    <3> QED BY <1>6, <2>3, <3>1 DEF ToMethod
  <2>5. Take(1, ToMethod(e, 0), Top.item)
    BY <1>8, <2>4 DEF ReadCount
  <2>6. Within(t, f, e, e.methods[1], ToMethod(e, 0), KidsBeforeMethods(e))
    BY <1>2, <1>3, Onward
  <2>7. MethodKids(e, 0) = KidsBeforeMethods(e)
    BY KidCounts DEF Clean, MethodKids, Width
  <2>8. AtMethod(t, f, e, 0, MethodKids(e, 0))
    BY <1>4, <2>6, <2>7 DEF AtMethod
  <2>9. Reads(t, f, e)
    BY <2>8 DEF Reads
  <2> QED BY <2>5, <2>9, Moved
<1> QED BY <1>7, <1>8

(* The number of attributes.                                                    *)
LEMMA StayAttributes ==
  ASSUME NEW t, NEW e, Clean(t, e), ReadCount("attributes", "attribute")
  PROVE  Stays(t, e) \/ Fails(e)
<1>1. Has(e, 8) /\ AtAttributes(t, Top, e)
  BY CleanPart DEF ReadCount, AtPart
<1>2. Within(t, Top, e, AttributesAt(e), ToAttributes(e), KidsBeforeAttributes(e))
      /\ Top.ptr = AttributesAt(e) /\ Top.todo = ToAttributes(e)
  BY <1>1 DEF AtAttributes, Within, Stands
<1>3. AttributesAt(e) + 1 = e.attributes[1] /\ e.attributes[1] <= EndAt(e) /\ AttributesAt(e) \in Nat
  BY <1>1, Places DEF Clean, Width
<1>4. AttributeCount(e) \in Nat /\ 0 \in 0 .. AttributeCount(e)
  BY EntryFacts DEF Clean
<1>5. ToEnums(e) \in Seq(Goals) /\ ToAttributes(e) = Goal("attributes", 1) \o ToEnums(e)
  BY <1>1, Todos DEF Clean, ToAttributes, If
<1>6. Tail(Top.todo) = ToEnums(e)
  BY <1>2, <1>5, FirstOf
<1>7. CASE Left < 1
  <2>1. Top.end # e.end
    BY <1>2, <1>3, <1>7, Short
  <2> QED BY <1>7, <2>1 DEF ReadCount, Fails
<1>8. CASE ~(Left < 1)
  <2>1. 1 \in 1 .. Left
    <3>1. Left \in Nat
      BY CleanTop
    <3> QED BY <1>8, <3>1
  <2>2. Item(1) = t.whole[AttributesAt(e) + 1]
    BY <1>2, <2>1, CleanTop
  <2>3. Item(1) = AttributeCount(e)
    BY <1>1, <2>2 DEF Clean, Stood, EntryWritten, AttributesWritten
  <2> DEFINE f == Past(1, ToAttribute(e, 0), Top.item)
  <2>4. Some("attribute", Item(1)) \o Tail(Top.todo) = ToAttribute(e, 0)
    <3>1. AttributeCount(e) - 0 = AttributeCount(e)
      BY <1>4
    <3> QED BY <1>6, <2>3, <3>1 DEF ToAttribute
  <2>5. Take(1, ToAttribute(e, 0), Top.item)
    BY <1>8, <2>4 DEF ReadCount
  <2>6. Within(t, f, e, e.attributes[1], ToAttribute(e, 0), KidsBeforeAttributes(e))
    BY <1>2, <1>3, Onward
  <2>7. KidsBeforeAttributes(e) + 0 = KidsBeforeAttributes(e) /\ e.attributes[0 + 1] = e.attributes[1]
    BY KidCounts DEF Clean
  <2>8. AtAttribute(t, f, e, 0)
    BY <1>4, <2>6, <2>7 DEF AtAttribute
  <2>9. Reads(t, f, e)
    BY <2>8 DEF Reads
  <2> QED BY <2>5, <2>9, Moved
<1> QED BY <1>7, <1>8

(* The number of enum variants.                                                 *)
LEMMA StayEnums ==
  ASSUME NEW t, NEW e, Clean(t, e), ReadCount("enums", "enum")
  PROVE  Stays(t, e) \/ Fails(e)
<1>1. Has(e, 16) /\ AtEnums(t, Top, e)
  BY CleanPart DEF ReadCount, AtPart
<1>2. Within(t, Top, e, EnumsAt(e), ToEnums(e), KidsBeforeEnums(e))
      /\ Top.ptr = EnumsAt(e) /\ Top.todo = ToEnums(e)
  BY <1>1 DEF AtEnums, Within, Stands
<1>3. EnumsAt(e) + 1 = e.enums[1] /\ e.enums[1] <= EndAt(e) /\ EnumsAt(e) \in Nat
  BY <1>1, Places DEF Clean, Width
<1>4. EnumCount(e) \in Nat /\ 0 \in 0 .. EnumCount(e)
  BY EntryFacts DEF Clean
<1>5. Top.todo = Goal("enums", 1)
  BY <1>1, <1>2 DEF ToEnums, If
<1>6. Tail(Top.todo) = <<>>
  BY <1>5 DEF Goal
<1>7. CASE Left < 1
  <2>1. Top.end # e.end
    BY <1>2, <1>3, <1>7, Short
  <2> QED BY <1>7, <2>1 DEF ReadCount, Fails
<1>8. CASE ~(Left < 1)
  <2>1. 1 \in 1 .. Left
    <3>1. Left \in Nat
      BY CleanTop
    <3> QED BY <1>8, <3>1
  <2>2. Item(1) = t.whole[EnumsAt(e) + 1]
    BY <1>2, <2>1, CleanTop
  <2>3. Item(1) = EnumCount(e)
    BY <1>1, <2>2 DEF Clean, Stood, EntryWritten, EnumsWritten
  <2> DEFINE f == Past(1, ToEnum(e, 0), Top.item)
  <2>4. Some("enum", Item(1)) \o Tail(Top.todo) = ToEnum(e, 0)
    <3>1. EnumCount(e) - 0 = EnumCount(e)
      BY <1>4
    <3>2. Some("enum", EnumCount(e)) \in Seq(Goals)
      BY <1>4, GoalLists DEF Whats
    <3> QED BY <1>6, <2>3, <3>1, <3>2, ConcatEmptySeq DEF ToEnum
  <2>5. Take(1, ToEnum(e, 0), Top.item)
    BY <1>8, <2>4 DEF ReadCount
  <2>6. Within(t, f, e, e.enums[1], ToEnum(e, 0), KidsBeforeEnums(e))
    BY <1>2, <1>3, Onward
  <2>7. KidsBeforeEnums(e) + 0 = KidsBeforeEnums(e) /\ e.enums[0 + 1] = e.enums[1]
    BY KidCounts DEF Clean
  <2>8. AtEnum(t, f, e, 0)
    BY <1>4, <2>6, <2>7 DEF AtEnum
  <2>9. Reads(t, f, e)
    BY <2>8 DEF Reads
  <2> QED BY <2>5, <2>9, Moved
<1> QED BY <1>7, <1>8

(* The GUID, that a type keeps and a field drops.                               *)
LEMMA StayGuid ==
  ASSUME NEW t, NEW e, Clean(t, e), ParseGuid
  PROVE  Stays(t, e) \/ Fails(e)
<1>1. Has(e, 1) /\ AtGuid(t, Top, e)
  BY CleanPart DEF ParseGuid, AtPart
<1>2. Within(t, Top, e, GuidAt(e), ToGuid(e), InnerCount(e))
      /\ Top.ptr = GuidAt(e) /\ Top.todo = ToGuid(e)
  BY <1>1 DEF AtGuid, Within, Stands
<1>3. GuidAt(e) + 1 = MaskAt(e) /\ MaskAt(e) <= EndAt(e) /\ GuidAt(e) \in Nat
  <2>1. GuidAt(e) + 1 = MaskAt(e) /\ GuidAt(e) \in Nat /\ MaskAt(e) \in Nat
    BY <1>1, Places DEF Clean, Width
  <2>2. MaskAt(e) <= MethodsAt(e) /\ MethodsAt(e) \in Nat
    <3>1. e.item.size \in Nat
      BY EntryFacts DEF Clean
    <3>2. Width(Has(e, 2), e.item.size) \in Nat
      BY <3>1 DEF Width
    <3>3. MethodsAt(e) \in Nat /\ MethodsAt(e) = MaskAt(e) + Width(Has(e, 2), e.item.size)
      BY Places DEF Clean
    <3> QED BY <2>1, <3>2, <3>3
  <2>3. MethodsAt(e) <= e.methods[1] /\ e.methods[1] <= EndAt(e)
    <3>1. Width(Has(e, 4), 1) \in Nat
      BY DEF Width
    <3>2. e.methods[1] = MethodsAt(e) + Width(Has(e, 4), 1) /\ e.methods[1] <= EndAt(e)
      BY Places DEF Clean
    <3> QED BY <2>2, <3>1, <3>2
  <2>4. e.methods[1] \in Nat /\ EndAt(e) \in Nat
    <3>1. MethodCount(e) \in Nat /\ 1 \in 1 .. MethodCount(e) + 1
      BY EntryFacts DEF Clean
    <3> QED BY <3>1, EntryFacts DEF Clean
  <2> QED BY <2>1, <2>2, <2>3, <2>4
<1>4. InnerCount(e) \in Nat
  BY EntryFacts DEF Clean
<1>5. ToMask(e) \in Seq(Goals) /\ ToGuid(e) = Goal("guid", 1) \o ToMask(e)
  BY <1>1, Todos DEF Clean, ToGuid, If
<1>6. Tail(Top.todo) = ToMask(e)
  BY <1>2, <1>5, FirstOf
<1>7. CASE Left < 1
  <2>1. Top.end # e.end
    BY <1>2, <1>3, <1>7, Short
  <2> QED BY <1>7, <2>1 DEF ParseGuid, Fails
<1>8. CASE ~(Left < 1)
  <2>1. 1 \in 1 .. Left
    <3>1. Left \in Nat
      BY CleanTop
    <3> QED BY <1>8, <3>1
  <2>2. Item(1) = t.whole[GuidAt(e) + 1]
    BY <1>2, <2>1, CleanTop
  <2>3. e.item.kind \in {"type", "field"} /\ Top.item.kind = e.item.kind
    <3>1. e.item.kind \in {"type", "field"}
      BY <1>1 DEF Has
    <3> QED BY <3>1, CleanTop
  <2>4. CASE e.item.kind = "field"
    <3> DEFINE f == Past(1, ToMask(e), Top.item)
    <3>1. Take(1, ToMask(e), Top.item)
      BY <1>6, <1>8, <2>3, <2>4 DEF ParseGuid
    <3>2. Within(t, f, e, MaskAt(e), ToMask(e), InnerCount(e))
      BY <1>2, <1>3, Onward
    <3>3. KidsBeforeMethods(e) = InnerCount(e)
      BY <1>4, <2>4 DEF KidsBeforeMethods, Width
    <3>4. Reads(t, f, e)
      BY <3>2, <3>3 DEF AtMask, Reads
    <3> QED BY <3>1, <3>4, Moved
  <2>5. CASE e.item.kind = "type"
    <3> DEFINE g == [kind |-> "guid", value |-> Item(1)]
               f == Past(1, ToMask(e), WithKid(g))
    <3>1. Take(1, ToMask(e), WithKid(g))
      BY <1>6, <1>8, <2>3, <2>5 DEF ParseGuid
    <3>2. g = e.item.kids[InnerCount(e) + 1]
      BY <1>1, <2>2, <2>5 DEF Clean, Stood, EntryWritten
    <3> HIDE DEF g
    <3>3. Within(t, f, e, MaskAt(e), ToMask(e), InnerCount(e) + 1)
      BY <1>2, <1>3, <1>4, <3>2, OnwardWithKid
    <3>4. KidsBeforeMethods(e) = InnerCount(e) + 1
      BY <1>1, <2>5 DEF KidsBeforeMethods, Width
    <3>5. Reads(t, f, e)
      BY <3>3, <3>4 DEF AtMask, Reads
    <3> QED BY <3>1, <3>5, Moved
  <2> QED BY <2>3, <2>4, <2>5
<1> QED BY <1>7, <1>8

(* The copy mask, as long as the type is large.                                 *)
LEMMA StayMask ==
  ASSUME NEW t, NEW e, Clean(t, e), SkipCopyMask
  PROVE  Stays(t, e) \/ Fails(e)
<1>1. Has(e, 2) /\ AtMask(t, Top, e)
  BY CleanPart DEF SkipCopyMask, AtPart
<1>2. Within(t, Top, e, MaskAt(e), ToMask(e), KidsBeforeMethods(e))
      /\ Top.ptr = MaskAt(e) /\ Top.todo = ToMask(e)
  BY <1>1 DEF AtMask, Within, Stands
<1>3. Top.item.size = e.item.size /\ e.item.size \in Nat
  <2> DEFINE m == e.item
  <2>1. m = [kind |-> m.kind, name |-> m.name, typ |-> m.typ, size |-> m.size,
             offset |-> m.offset, base_type |-> m.base_type, array |-> m.array,
             kids |-> m.kids]
    BY CleanTop
  <2>2. Top.item = [m EXCEPT !.kids = Top.item.kids]
    BY <1>2 DEF Within, Stands
  <2>3. m.size \in Nat
    BY EntryFacts DEF Clean
  <2> HIDE DEF m
  <2>4. Top.item.size = m.size
    BY <2>1, <2>2
  <2> QED BY <2>3, <2>4 DEF m
<1>4. /\ MaskAt(e) + e.item.size = MethodsAt(e) /\ MethodsAt(e) <= EndAt(e)
      /\ MaskAt(e) \in Nat
  <2>1. MaskAt(e) + e.item.size = MethodsAt(e) /\ MaskAt(e) \in Nat /\ MethodsAt(e) \in Nat
    BY <1>1, Places DEF Clean, Width
  <2>2. Width(Has(e, 4), 1) \in Nat
    BY DEF Width
  <2>3. e.methods[1] = MethodsAt(e) + Width(Has(e, 4), 1) /\ e.methods[1] <= EndAt(e)
    BY Places DEF Clean
  <2>4. EndAt(e) \in Nat
    BY EntryFacts DEF Clean
  <2> QED BY <2>1, <2>2, <2>3, <2>4
<1>5. ToMethods(e) \in Seq(Goals) /\ ToMask(e) = Goal("mask", 1) \o ToMethods(e)
  BY <1>1, Todos DEF Clean, ToMask, If
<1>6. Tail(Top.todo) = ToMethods(e)
  BY <1>2, <1>5, FirstOf
<1>7. CASE Left < Top.item.size
  <2>1. Top.end # e.end
    BY <1>2, <1>3, <1>4, <1>7, Short
  <2> QED BY <1>7, <2>1 DEF SkipCopyMask, Fails
<1>8. CASE ~(Left < Top.item.size)
  <2> DEFINE f == Past(e.item.size, ToMethods(e), Top.item)
  <2>1. Take(e.item.size, ToMethods(e), Top.item)
    BY <1>3, <1>6, <1>8 DEF SkipCopyMask
  <2>2. Within(t, f, e, MethodsAt(e), ToMethods(e), KidsBeforeMethods(e))
    BY <1>2, <1>4, Onward
  <2>3. Reads(t, f, e)
    BY <2>2 DEF AtMethods, Reads
  <2> QED BY <2>1, <2>3, Moved
<1> QED BY <1>7, <1>8

(* A string of the layout, as a piece of the table.                             *)
LEMMA Spelled ==
  ASSUME NEW t, NEW e, Clean(t, e), NEW s, NEW x \in Nat, Spells(t.whole, x, s),
         x + Len(s) <= Top.end
  PROVE  SubSeq(data, x + 1, x + Len(s)) = s
<1>1. s \in Seq(Nat) /\ Len(s) \in Nat /\ \A k \in 1 .. Len(s) : t.whole[x + k] = s[k]
  BY DEF Spells
<1>2. Top.end \in Nat /\ Len(data) \in Nat /\ Top.end <= Len(data) /\ data \in Seq(Nat)
  BY CleanTop
<1>3. \A i \in 1 .. Len(data) : data[i] = t.whole[i]
  BY DEF Clean, IsBeginning
<1>4. \A k \in 1 .. Len(s) : x + k \in 1 .. Len(data)
  BY <1>1, <1>2
<1>5. \A k \in 1 .. Len(s) : data[x + k] = s[k]
  BY <1>1, <1>3, <1>4
<1> DEFINE n == Len(s)
           u == SubSeq(data, x + 1, x + n)
<1>6. u \in Seq(Nat) /\ Len(u) = n /\ \A k \in 1 .. n : u[k] = data[x + k]
  <2>1. n \in Nat /\ x + n <= Len(data)
    BY <1>1, <1>2
  <2> HIDE DEF n
  <2> QED BY <1>2, <2>1
<1> HIDE DEF u
<1>7. \A k \in 1 .. Len(s) : u[k] = s[k]
  BY <1>5, <1>6
<1>8. u = s
  BY <1>1, <1>6, <1>7, SeqEqual
<1> QED BY <1>8 DEF u

(* An attribute: both of its strings are those that were written.               *)
LEMMA StayAttribute ==
  ASSUME NEW t, NEW e, Clean(t, e), ParseAttribute
  PROVE  Stays(t, e) \/ Fails(e)
<1>1. PICK i \in Nat : i < AttributeCount(e) /\ AtAttribute(t, Top, e, i)
  BY CleanPart DEF ParseAttribute, AtPart
<1> DEFINE x == e.attributes[i + 1]
           y == e.attributes[(i + 1) + 1]
           k == KidsBeforeAttributes(e) + i
           a == e.item.kids[KidsBeforeAttributes(e) + (i + 1)]
           ln == Len(a.name)
           lv == Len(a.value)
           n == 4 + ln + lv
<1>2. AttributeCount(e) \in Nat /\ i + 1 \in 1 .. AttributeCount(e)
      /\ i + 1 \in 0 .. AttributeCount(e) /\ i + 1 \in Nat
      /\ i + 1 \in 1 .. AttributeCount(e) + 1 /\ (i + 1) + 1 \in 1 .. AttributeCount(e) + 1
  <2>1. AttributeCount(e) \in Nat
    BY EntryFacts DEF Clean
  <2> QED BY <1>1, <2>1
<1>3. /\ a = [kind |-> "attribute", name |-> a.name, value |-> a.value]
      /\ t.whole[x + 1] = ln /\ t.whole[x + 2] = lv
      /\ Spells(t.whole, x + 2, a.name) /\ Spells(t.whole, x + 3 + ln, a.value)
      /\ y = x + 4 + ln + lv
  BY <1>2 DEF Clean, Stood, EntryWritten, AttributesWritten
<1>4. ln \in Nat /\ lv \in Nat
  BY <1>3 DEF Spells
<1>5. x \in Nat /\ y <= EndAt(e)
  BY <1>2, EntryFacts DEF Clean
<1>6. k \in Nat /\ KidsBeforeAttributes(e) + (i + 1) = k + 1
  BY KidCounts DEF Clean
<1>7. a = e.item.kids[k + 1]
  BY <1>6
<1> HIDE DEF k
<1>8. Within(t, Top, e, x, ToAttribute(e, i), k) /\ Top.ptr = x /\ Top.todo = ToAttribute(e, i)
  BY <1>1 DEF AtAttribute, Within, Stands, k
<1>9. OneLess = ToAttribute(e, i + 1)
  <2>1. Top.item.kind # "table"
    BY CleanTop
  <2>2. Top.todo = Some("attribute", AttributeCount(e) - i) \o ToEnums(e)
        /\ ToEnums(e) \in Seq(Goals)
    BY <1>8, Todos DEF Clean, ToAttribute
  <2>3. OneLess = Some("attribute", AttributeCount(e) - (i + 1)) \o ToEnums(e)
    BY <1>1, <1>2, <2>1, <2>2, OneOf
  <2> QED BY <2>3 DEF ToAttribute
<1>10. n = 4 + ln + lv /\ Len(a.name) = ln /\ Len(a.value) = lv
  OBVIOUS
<1> HIDE DEF x, y, a, ln, lv, n
<1>11. x + n <= EndAt(e) /\ x + n = y /\ n \in Nat /\ n >= 2
  <2>1. EndAt(e) \in Nat
    BY EntryFacts DEF Clean
  <2> QED BY <1>3, <1>4, <1>5, <1>10, <2>1
<1>12. EndAt(e) \in Nat /\ Left \in Nat /\ Top.end \in Nat /\ Left = Top.end - x
  <2>1. EndAt(e) \in Nat
    BY EntryFacts DEF Clean
  <2>2. Left \in Nat /\ Top.end \in Nat /\ Left = Top.end - Top.ptr
    BY CleanTop
  <2> QED BY <1>8, <2>1, <2>2
<1>13. CASE Left < 2
  <2>1. x + 2 <= EndAt(e)
    BY <1>5, <1>11, <1>12
  <2>2. Top.end # e.end
    BY <1>8, <1>13, <2>1, Short
  <2> QED BY <1>13, <2>2 DEF ParseAttribute, Fails
<1>14. CASE ~(Left < 2)
  <2>1. 1 \in 1 .. Left /\ 2 \in 1 .. Left
    BY <1>12, <1>14
  <2>2. Item(1) = ln /\ Item(2) = lv
    <3>1. Item(1) = t.whole[x + 1] /\ Item(2) = t.whole[x + 2]
      BY <1>8, <2>1, CleanTop
    <3> QED BY <1>3, <3>1
  <2>3. 4 + Item(1) + Item(2) = n
    BY <1>10, <2>2
  <2>4. CASE Left < n
    <3>1. Top.end # e.end
      BY <1>8, <1>11, <2>4, Short
    <3> QED BY <2>3, <2>4, <3>1 DEF ParseAttribute, Fails
  <2>5. CASE ~(Left < n)
    <3>1. x + n <= Top.end
      BY <1>5, <1>11, <1>12, <2>5
    <3>2. SubSeq(data, x + 3, x + 2 + ln) = a.name
      <4>1. x + 2 \in Nat /\ (x + 2) + ln <= Top.end
        BY <1>4, <1>5, <1>10, <1>12, <3>1
      <4>2. SubSeq(data, (x + 2) + 1, (x + 2) + ln) = a.name
        BY <1>3, <1>10, <4>1, Spelled
      <4>3. x + 3 = (x + 2) + 1
        BY <1>5
      <4> QED BY <4>2, <4>3
    <3>3. SubSeq(data, x + 3 + ln + 1, x + 3 + ln + lv) = a.value
      <4>1. x + 3 + ln \in Nat /\ x + 3 + ln + lv <= Top.end
        BY <1>4, <1>5, <1>10, <1>12, <3>1
      <4> QED BY <1>3, <1>10, <4>1, Spelled
    <3> DEFINE b == [kind |-> "attribute",
                     name |-> SubSeq(data, Top.ptr + 3, Top.ptr + 2 + Item(1)),
                     value |-> SubSeq(data, (Top.ptr + 3 + Item(1)) + 1,
                                      (Top.ptr + 3 + Item(1)) + Item(2))]
    <3>4. Take(n, OneLess, WithKid(b))
      BY <1>14, <2>3, <2>5 DEF ParseAttribute
    <3>5. b = a
      BY <1>3, <1>8, <2>2, <3>2, <3>3
    <3> HIDE DEF b
    <3>6. b = e.item.kids[k + 1]
      BY <1>7, <3>5
    <3> DEFINE f == Past(n, OneLess, WithKid(b))
    <3>7. Within(t, f, e, y, ToAttribute(e, i + 1), k + 1)
      BY <1>6, <1>8, <1>9, <1>11, <3>6, OnwardWithKid
    <3>8. AtAttribute(t, f, e, i + 1)
      BY <1>2, <1>6, <3>7 DEF AtAttribute, y
    <3> HIDE DEF f
    <3>9. Reads(t, f, e)
      BY <1>2, <3>8 DEF Reads
    <3> QED BY <3>4, <3>9, Moved DEF f
  <2> QED BY <2>4, <2>5
<1> QED BY <1>13, <1>14

(* An enum variant: its name, and its value as wide as the base type says.      *)
LEMMA StayEnum ==
  ASSUME NEW t, NEW e, Clean(t, e), ParseEnumInfo
  PROVE  Stays(t, e) \/ Fails(e)
<1>1. PICK i \in Nat : i < EnumCount(e) /\ AtEnum(t, Top, e, i)
  BY CleanPart DEF ParseEnumInfo, AtPart
<1> DEFINE x == e.enums[i + 1]
           y == e.enums[(i + 1) + 1]
           k == KidsBeforeEnums(e) + i
           a == e.item.kids[KidsBeforeEnums(e) + (i + 1)]
           ln == Len(a.name)
           lv == Len(a.value)
           size == e.item.size
           width == EnumWidth(e.item.base_type)
           n == 2 + ln + size
<1>2. EnumCount(e) \in Nat /\ i + 1 \in 1 .. EnumCount(e)
      /\ i + 1 \in 0 .. EnumCount(e) /\ i + 1 \in Nat
      /\ i + 1 \in 1 .. EnumCount(e) + 1 /\ (i + 1) + 1 \in 1 .. EnumCount(e) + 1
  <2>1. EnumCount(e) \in Nat
    BY EntryFacts DEF Clean
  <2> QED BY <1>1, <2>1
<1>3. /\ a = [kind |-> "enum", name |-> a.name, value |-> a.value]
      /\ t.whole[x + 1] = ln
      /\ Spells(t.whole, x + 1, a.name) /\ Spells(t.whole, x + 2 + ln, a.value)
      /\ IF width = 0 THEN size \in {1, 2, 4, 8} /\ lv = size ELSE width <= size /\ lv = width
      /\ y = x + 2 + ln + size
  BY <1>2 DEF Clean, Stood, EntryWritten, EnumsWritten
<1>4. ln \in Nat /\ lv \in Nat /\ size \in Nat /\ width \in Nat
  <2>1. width \in Nat
    BY DEF EnumWidth
  <2> QED BY <1>3, <2>1, EntryFacts DEF Clean, Spells
<1>5. x \in Nat /\ y <= EndAt(e)
  BY <1>2, EntryFacts DEF Clean
<1>6. k \in Nat /\ KidsBeforeEnums(e) + (i + 1) = k + 1
  BY KidCounts DEF Clean
<1>7. a = e.item.kids[k + 1]
  BY <1>6
<1> HIDE DEF k
<1>8. Within(t, Top, e, x, ToEnum(e, i), k) /\ Top.ptr = x /\ Top.todo = ToEnum(e, i)
  BY <1>1 DEF AtEnum, Within, Stands, k
<1>9. Top.item.size = size /\ EnumWidth(Top.item.base_type) = width
  <2> DEFINE m == e.item
  <2>1. m = [kind |-> m.kind, name |-> m.name, typ |-> m.typ, size |-> m.size,
             offset |-> m.offset, base_type |-> m.base_type, array |-> m.array,
             kids |-> m.kids]
    BY CleanTop
  <2>2. Top.item = [m EXCEPT !.kids = Top.item.kids]
    BY <1>8 DEF Within, Stands
  <2> HIDE DEF m
  <2>3. Top.item.size = m.size /\ Top.item.base_type = m.base_type
    BY <2>1, <2>2
  <2> QED BY <2>3 DEF m
<1>10. OneLess = ToEnum(e, i + 1)
  <2> DEFINE r == EnumCount(e) - i
  <2>1. r # 0 /\ r - 1 = EnumCount(e) - (i + 1) /\ r - 1 \in Nat
    BY <1>1, <1>2
  <2>2. Top.todo = Some("enum", r)
    BY <1>8 DEF ToEnum
  <2> HIDE DEF r
  <2>3. Top.todo = <<[what |-> "enum", n |-> r]>>
    BY <2>1, <2>2 DEF Some, Goal
  <2>4. Ahead.what = "enum" /\ Ahead.n = r /\ Tail(Top.todo) = <<>>
    BY <2>3 DEF Ahead
  <2>5. Some("enum", r - 1) \in Seq(Goals)
    BY <2>1, GoalLists DEF Whats
  <2>6. OneLess = Some("enum", r - 1) \o <<>>
    BY <2>4, CleanTop DEF OneLess
  <2>7. OneLess = Some("enum", r - 1)
    BY <2>5, <2>6, ConcatEmptySeq
  <2> QED BY <2>1, <2>7 DEF ToEnum
<1>11. n = 2 + ln + size /\ Len(a.name) = ln /\ Len(a.value) = lv
  OBVIOUS
<1>12. IF width = 0 THEN size \in {1, 2, 4, 8} /\ lv = size ELSE width <= size /\ lv = width
  BY <1>3
<1> HIDE DEF x, y, a, ln, lv, n, size, width
<1>13. x + n <= EndAt(e) /\ x + n = y /\ n \in Nat /\ n >= 1
  <2>1. EndAt(e) \in Nat
    BY EntryFacts DEF Clean
  <2> QED BY <1>3, <1>4, <1>5, <1>11, <2>1
<1>14. EndAt(e) \in Nat /\ Left \in Nat /\ Top.end \in Nat /\ Left = Top.end - x
  <2>1. EndAt(e) \in Nat
    BY EntryFacts DEF Clean
  <2>2. Left \in Nat /\ Top.end \in Nat /\ Left = Top.end - Top.ptr
    BY CleanTop
  <2> QED BY <1>8, <2>1, <2>2
<1>15. CASE Left < 1
  <2>1. x + 1 <= EndAt(e)
    BY <1>5, <1>13, <1>14
  <2>2. Top.end # e.end
    BY <1>8, <1>15, <2>1, Short
  <2> QED BY <1>15, <2>2 DEF ParseEnumInfo, Fails
<1>16. CASE ~(Left < 1)
  <2>1. 1 \in 1 .. Left /\ Left >= 1
    BY <1>14, <1>16
  <2>2. Item(1) = ln
    <3>1. Item(1) = t.whole[x + 1]
      BY <1>8, <2>1, CleanTop
    <3> QED BY <1>3, <3>1
  <2>3. 2 + Item(1) + Top.item.size = n
    BY <1>9, <1>11, <2>2
  <2>4. CASE Left < n
    <3>1. Top.end # e.end
      BY <1>8, <1>13, <2>4, Short
    <3> QED BY <2>1, <2>3, <2>4, <3>1 DEF ParseEnumInfo, Fails
  <2>5. CASE ~(Left < n)
    <3>1. x + n <= Top.end /\ Left >= n
      BY <1>5, <1>13, <1>14, <2>5
    <3>2. SubSeq(data, x + 2, x + 1 + ln) = a.name
      <4>1. x + 1 \in Nat /\ (x + 1) + ln <= Top.end
        BY <1>4, <1>5, <1>11, <1>14, <3>1
      <4>2. SubSeq(data, (x + 1) + 1, (x + 1) + ln) = a.name
        BY <1>3, <1>11, <4>1, Spelled
      <4>3. x + 2 = (x + 1) + 1
        BY <1>5
      <4> QED BY <4>2, <4>3
    <3>3. SubSeq(data, x + 2 + ln + 1, x + 2 + ln + lv) = a.value
      <4>0. lv <= size
        BY <1>4, <1>12
      <4>1. x + 2 + ln \in Nat /\ x + 2 + ln + lv <= Top.end
        BY <1>4, <1>5, <1>11, <1>14, <3>1, <4>0
      <4> QED BY <1>3, <1>11, <4>1, Spelled
    <3>4. (IF width = 0 THEN size ELSE width) = lv
      BY <1>12
    <3>5. ~(size < width) /\ ~(width = 0 /\ size \notin {1, 2, 4, 8})
      BY <1>4, <1>12
    <3> DEFINE b == [kind |-> "enum",
                     name |-> SubSeq(data, Top.ptr + 2, Top.ptr + 1 + Item(1)),
                     value |-> SubSeq(data, (Top.ptr + 2 + Item(1)) + 1,
                                      (Top.ptr + 2 + Item(1))
                                        + (IF EnumWidth(Top.item.base_type) = 0
                                           THEN Top.item.size
                                           ELSE EnumWidth(Top.item.base_type)))]
    <3>6. Take(2 + Item(1) + Top.item.size, OneLess, WithKid(b))
      <4>1. ~(\/ Left < 1 \/ (Left >= 1 /\ Left < 2 + Item(1) + Top.item.size))
        BY <1>16, <2>3, <2>5
      <4>2. ~(Top.item.size < EnumWidth(Top.item.base_type))
        BY <1>9, <3>5
      <4>3. ~(EnumWidth(Top.item.base_type) = 0 /\ Top.item.size \notin {1, 2, 4, 8})
        BY <1>9, <3>5
      <4> QED BY <4>1, <4>2, <4>3 DEF ParseEnumInfo
    <3>7. b = a
      BY <1>3, <1>8, <1>9, <2>2, <3>2, <3>3, <3>4
    <3> HIDE DEF b
    <3>8. b = e.item.kids[k + 1] /\ Take(n, OneLess, WithKid(b))
      BY <1>7, <2>3, <3>6, <3>7
    <3> DEFINE f == Past(n, OneLess, WithKid(b))
    <3>9. Within(t, f, e, y, ToEnum(e, i + 1), k + 1)
      BY <1>6, <1>8, <1>10, <1>13, <3>8, OnwardWithKid
    <3>10. AtEnum(t, f, e, i + 1)
      BY <1>2, <1>6, <3>9 DEF AtEnum, y
    <3> HIDE DEF f
    <3>11. Reads(t, f, e)
      BY <1>2, <3>10 DEF Reads
    <3> QED BY <3>8, <3>11, Moved DEF f
  <2> QED BY <2>4, <2>5
<1> QED BY <1>15, <1>16

(* The assertions of a table hold of what was written, and the fields come      *)
(* next.                                                                        *)
LEMMA StaySubItems ==
  ASSUME NEW t, NEW e, Clean(t, e), CheckSubItems
  PROVE  Stays(t, e)
<1>1. e.item.kind \in {"type", "field"} /\ AtSubItems(t, Top, e)
  BY CleanPart DEF CheckSubItems, AtPart
<1>2. Within(t, Top, e, e.inner[1], ToSubItems(e), 0)
      /\ Top.ptr = e.inner[1] /\ Top.todo = ToSubItems(e)
  BY <1>1 DEF AtSubItems, Within, Stands
<1>3. ToSubItems(e) = Goal("sub_items", InnerCount(e)) \o ToGuid(e) /\ ToGuid(e) \in Seq(Goals)
  BY <1>1, Todos DEF Clean, ToSubItems
<1>4. Ahead.n = InnerCount(e) /\ Tail(Top.todo) = ToGuid(e)
  BY <1>2, <1>3, FirstOf
<1>5. InnerCount(e) \in Nat /\ e.inner[1] \in Nat /\ Top.item.kind = e.item.kind
  BY EntryFacts, Places, CleanTop DEF Clean
<1>6. /\ e.item.kind = "field" => InnerCount(e) = 0
      /\ e.item.kind = "type" => e.item.offset = 0
  BY DEF Clean, Stood, EntryWritten, HeaderWritten
<1>7. Top.item.offset = e.item.offset
  <2> DEFINE m == e.item
  <2>1. m = [kind |-> m.kind, name |-> m.name, typ |-> m.typ, size |-> m.size,
             offset |-> m.offset, base_type |-> m.base_type, array |-> m.array,
             kids |-> m.kids]
    BY CleanTop
  <2>2. Top.item = [m EXCEPT !.kids = Top.item.kids]
    BY <1>2 DEF Within, Stands
  <2> HIDE DEF m
  <2>3. Top.item.offset = m.offset
    BY <2>1, <2>2
  <2> QED BY <2>3 DEF m
<1>8. (IF Top.item.kind = "type" THEN Some("field", Ahead.n) ELSE <<>>) \o Tail(Top.todo)
        = ToInner(e, 0)
  <2>1. InnerCount(e) - 0 = InnerCount(e)
    BY <1>5
  <2>2. CASE e.item.kind = "type"
    BY <1>4, <1>5, <2>1, <2>2 DEF ToInner, InnerKind
  <2>3. CASE e.item.kind = "field"
    BY <1>4, <1>5, <1>6, <2>1, <2>3 DEF ToInner, Some
  <2> QED BY <1>1, <2>2, <2>3
<1>9. Take(0, ToInner(e, 0), Top.item)
  <2>1. ~(upload.way = "bulk" /\ (IF Top.item.kind = "field" THEN Ahead.n # 0
                                  ELSE Top.item.offset # 0))
    BY <1>1, <1>4, <1>5, <1>6, <1>7
  <2>2. Take(0, (IF Top.item.kind = "type" THEN Some("field", Ahead.n) ELSE <<>>)
                 \o Tail(Top.todo), Top.item)
    BY <2>1 DEF CheckSubItems
  <2> QED BY <1>8, <2>2
<1> DEFINE f == Past(0, ToInner(e, 0), Top.item)
<1>10. Within(t, f, e, e.inner[0 + 1], ToInner(e, 0), 0)
  <2>1. e.inner[1] + 0 = e.inner[0 + 1]
    BY <1>5
  <2> QED BY <1>2, <2>1, Onward
<1>11. AtInner(t, f, e, 0, 0)
  BY <1>5, <1>10 DEF AtInner
<1> HIDE DEF f
<1>12. Reads(t, f, e)
  BY <1>11 DEF Reads
<1> QED BY <1>9, <1>12, Moved DEF f

(* A dimension of an array.                                                     *)
LEMMA StayDimension ==
  ASSUME NEW t, NEW e, Clean(t, e), ReadDimension
  PROVE  Stays(t, e) \/ Fails(e)
<1>1. PICK i \in Nat : i < Len(e.item.array) /\ AtDimension(Top, e, i)
  BY CleanPart DEF ReadDimension, AtPart
<1> DEFINE m == e.item
           x == ArrayAt(e)
           s == m.array
<1>2. /\ m = [kind |-> m.kind, name |-> m.name, typ |-> m.typ, size |-> m.size,
              offset |-> m.offset, base_type |-> m.base_type, array |-> m.array,
              kids |-> m.kids]
      /\ Top.item.kind # "table"
  BY CleanTop
<1>3. s \in Seq(Nat) /\ Len(s) \in Nat /\ x \in Nat
      /\ \A j \in 1 .. Len(s) : t.whole[x + j] = s[j]
  BY Places DEF Clean, Stood, EntryWritten, Spells
<1>4. e.inner[1] = x + Len(s) /\ e.inner[1] <= EndAt(e) /\ EndAt(e) \in Nat
  BY Places, EntryFacts DEF Clean
<1>5. /\ Top.ptr = x + i /\ Top.todo = ToDimension(e, i)
      /\ Top.item = [m EXCEPT !.array = SubSeq(s, 1, i), !.kids = <<>>]
  BY <1>1 DEF AtDimension, Stands
<1>6. OneLess = ToDimension(e, i + 1)
  <2>1. Top.todo = Some("dimension", Len(e.item.array) - i) \o ToSubItems(e)
        /\ ToSubItems(e) \in Seq(Goals)
    BY <1>5, Todos DEF Clean, ToDimension
  <2>2. OneLess = Some("dimension", Len(e.item.array) - (i + 1)) \o ToSubItems(e)
    BY <1>1, <1>2, <1>3, <2>1, OneOf
  <2> QED BY <2>2 DEF ToDimension
<1>7. i < Len(s)
  BY <1>1
<1> HIDE DEF m, x, s
<1>8. CASE Left < 1
  <2>1. Top.ptr + 1 <= EndAt(e)
    BY <1>3, <1>4, <1>5, <1>7
  <2>2. Top.end # e.end
    BY <1>8, <2>1, Short
  <2> QED BY <1>8, <2>2 DEF ReadDimension, Fails
<1>9. CASE ~(Left < 1)
  <2>1. Item(1) = s[i + 1]
    <3>1. 1 \in 1 .. Left
      <4>1. Left \in Nat
        BY CleanTop
      <4> QED BY <1>9, <4>1
    <3>2. Item(1) = t.whole[Top.ptr + 1]
      BY <3>1, CleanTop
    <3>3. i + 1 \in 1 .. Len(s) /\ (x + i) + 1 = x + (i + 1)
      BY <1>3, <1>7
    <3>4. t.whole[x + (i + 1)] = s[i + 1]
      BY <1>3, <3>3
    <3> QED BY <1>5, <3>2, <3>3, <3>4
  <2>2. Append(SubSeq(s, 1, i), s[i + 1]) = SubSeq(s, 1, i + 1)
    BY <1>3, <1>7
  <2> DEFINE item == [Top.item EXCEPT !.array = Append(@, Item(1))]
             f == Past(1, ToDimension(e, i + 1), item)
  <2>3. Take(1, ToDimension(e, i + 1), item)
    BY <1>6, <1>9 DEF ReadDimension
  <2>4. item = [m EXCEPT !.array = SubSeq(s, 1, i + 1), !.kids = <<>>]
    <3>1. Top.item.array = SubSeq(s, 1, i)
      BY <1>2, <1>5
    <3>2. item = [Top.item EXCEPT !.array = SubSeq(s, 1, i + 1)]
      BY <2>1, <2>2, <3>1
    <3> QED BY <1>2, <1>5, <3>2
  <2> HIDE DEF item
  <2>5. f.ptr = x + (i + 1) /\ f.todo = ToDimension(e, i + 1) /\ f.item = item
    BY <1>3, <1>5 DEF Past
  <2> HIDE DEF f
  <2>6. i + 1 \in 0 .. Len(s) /\ i + 1 \in Nat
    BY <1>3, <1>7
  <2>7. AtDimension(f, e, i + 1)
    BY <2>4, <2>5, <2>6 DEF AtDimension, Stands, m, s, x
  <2>8. Reads(t, f, e)
    BY <2>6, <2>7 DEF Reads
  <2> QED BY <2>3, <2>8, Moved DEF f
<1> QED BY <1>8, <1>9

(* Header, name, type and dimensions end before the entry does.                 *)
LEMMA Fits ==
  ASSUME NEW t, NEW e, Stood(t, e)
  PROVE  NameAt(e) <= EndAt(e) /\ TypAt(e) <= EndAt(e) /\ ArrayAt(e) <= EndAt(e)
<1> DEFINE name == NameAt(e)
           typ == TypAt(e)
           array == ArrayAt(e)
           k == Len(e.item.name)
           l == Len(e.item.typ)
           m == Len(e.item.array)
           inner == e.inner[1]
           end == EndAt(e)
<1>1. /\ name \in Nat /\ typ \in Nat /\ array \in Nat /\ end \in Nat
      /\ k \in Nat /\ l \in Nat /\ m \in Nat
  BY Places, EntryFacts
<1>2. typ = name + (k + 1) /\ array = typ + (l + 1) /\ inner = array + m /\ inner <= end
  BY Places
<1> HIDE DEF name, typ, array, k, l, m, inner, end
<1>3. array <= end
  BY <1>1, <1>2
<1>4. typ <= array
  BY <1>1, <1>2
<1>5. name <= typ
  BY <1>1, <1>2
<1>6. name <= end /\ typ <= end /\ array <= end
  BY <1>1, <1>3, <1>4, <1>5
<1> QED BY <1>6 DEF name, typ, array, end

(* The name.                                                                    *)
LEMMA StayName ==
  ASSUME NEW t, NEW e, Clean(t, e), ReadString("name")
  PROVE  Stays(t, e) \/ Fails(e)
<1>1. AtName(Top, e)
  BY CleanPart DEF ReadString, AtPart
<1> DEFINE m == e.item
           x == NameAt(e)
           n == Len(m.name)
<1>2. m = [kind |-> m.kind, name |-> m.name, typ |-> m.typ, size |-> m.size,
           offset |-> m.offset, base_type |-> m.base_type, array |-> m.array,
           kids |-> m.kids]
  BY CleanTop
<1>3. Spells(t.whole, x, m.name) /\ n < Buffer /\ Buffer \in Nat
  BY TableConstants DEF Clean, Stood, EntryWritten
<1>4. n \in Nat /\ x \in Nat /\ TypAt(e) = x + (n + 1) /\ TypAt(e) <= EndAt(e)
  BY Places, Fits DEF Clean
<1>5. /\ Top.ptr = x /\ Top.todo = Goal("name", n) \o ToTyp(e)
      /\ Top.item = [m EXCEPT !.name = <<>>, !.typ = <<>>, !.array = <<>>, !.kids = <<>>]
  BY <1>1 DEF AtName, Stands, ToName
<1>6. Ahead.n = n /\ Tail(Top.todo) = ToTyp(e)
  <2>1. ToTyp(e) \in Seq(Goals)
    BY Todos DEF Clean
  <2> QED BY <1>5, <2>1, FirstOf
<1>7. Len(m.name) = n
  OBVIOUS
<1> HIDE DEF m, x, n
<1>8. Left \in Nat /\ Top.end \in Nat /\ Left = Top.end - x
  <2>1. Left \in Nat /\ Top.end \in Nat /\ Left = Top.end - Top.ptr
    BY CleanTop
  <2> QED BY <1>5, <2>1
<1>9. ~(n + 1 > Buffer) /\ n + 1 <= Buffer /\ n + 1 \in Nat
  BY <1>3, <1>4
<1>10. CASE Left < n + 1
  <2>1. Top.end # e.end
    BY <1>4, <1>5, <1>9, <1>10, Short
  <2> QED BY <1>6, <1>9, <1>10, <2>1 DEF ReadString, Fails
<1>11. CASE ~(Left < n + 1)
  <2> DEFINE string == SubSeq(data, x + 1, x + n)
             item == [Top.item EXCEPT !.name = string]
             f == Past(n + 1, ToTyp(e), item)
  <2>1. Take(n + 1, ToTyp(e), item)
    BY <1>5, <1>6, <1>9, <1>11 DEF ReadString
  <2>2. string = m.name
    <3>1. x + n <= Top.end
      BY <1>4, <1>8, <1>11
    <3> QED BY <1>3, <1>4, <1>7, <3>1, Spelled
  <2> HIDE DEF string
  <2>3. item = [m EXCEPT !.typ = <<>>, !.array = <<>>, !.kids = <<>>]
    BY <1>2, <1>5, <2>2
  <2> HIDE DEF item
  <2>4. f.ptr = TypAt(e) /\ f.todo = ToTyp(e) /\ f.item = item
    BY <1>4, <1>5 DEF Past
  <2> HIDE DEF f
  <2>5. Reads(t, f, e)
    BY <2>3, <2>4 DEF Reads, AtTyp, Stands, m
  <2> QED BY <2>1, <2>5, Moved DEF f
<1> QED BY <1>10, <1>11

(* The type.                                                                    *)
LEMMA StayTyp ==
  ASSUME NEW t, NEW e, Clean(t, e), ReadString("typ")
  PROVE  Stays(t, e) \/ Fails(e)
<1>1. AtTyp(Top, e)
  BY CleanPart DEF ReadString, AtPart
<1> DEFINE m == e.item
           x == TypAt(e)
           n == Len(m.typ)
<1>2. m = [kind |-> m.kind, name |-> m.name, typ |-> m.typ, size |-> m.size,
           offset |-> m.offset, base_type |-> m.base_type, array |-> m.array,
           kids |-> m.kids]
  BY CleanTop
<1>3. Spells(t.whole, x, m.typ) /\ n < Buffer /\ Buffer \in Nat
  BY TableConstants DEF Clean, Stood, EntryWritten
<1>4. n \in Nat /\ x \in Nat /\ ArrayAt(e) = x + (n + 1) /\ ArrayAt(e) <= EndAt(e)
      /\ Len(m.array) \in Nat /\ ArrayAt(e) \in Nat
  BY Places, Fits DEF Clean
<1>5. /\ Top.ptr = x /\ Top.todo = Goal("typ", n) \o ToDimension(e, 0)
      /\ Top.item = [m EXCEPT !.typ = <<>>, !.array = <<>>, !.kids = <<>>]
  BY <1>1 DEF AtTyp, Stands, ToTyp
<1>6. Ahead.n = n /\ Tail(Top.todo) = ToDimension(e, 0)
  <2>1. ToDimension(e, 0) \in Seq(Goals)
    BY <1>4, Todos DEF Clean
  <2> QED BY <1>5, <2>1, FirstOf
<1>7. Len(m.typ) = n /\ m.array \in Seq(Nat)
  BY DEF Clean, Stood, EntryWritten, Spells
<1> HIDE DEF m, x, n
<1>8. Left \in Nat /\ Top.end \in Nat /\ Left = Top.end - x
  <2>1. Left \in Nat /\ Top.end \in Nat /\ Left = Top.end - Top.ptr
    BY CleanTop
  <2> QED BY <1>5, <2>1
<1>9. ~(n + 1 > Buffer) /\ n + 1 <= Buffer /\ n + 1 \in Nat
  BY <1>3, <1>4
<1>10. CASE Left < n + 1
  <2>1. Top.end # e.end
    BY <1>4, <1>5, <1>9, <1>10, Short
  <2> QED BY <1>6, <1>9, <1>10, <2>1 DEF ReadString, Fails
<1>11. CASE ~(Left < n + 1)
  <2> DEFINE string == SubSeq(data, x + 1, x + n)
             item == [Top.item EXCEPT !.typ = string]
             f == Past(n + 1, ToDimension(e, 0), item)
  <2>1. Take(n + 1, ToDimension(e, 0), item)
    BY <1>5, <1>6, <1>9, <1>11 DEF ReadString
  <2>2. string = m.typ
    <3>1. x + n <= Top.end
      BY <1>4, <1>8, <1>11
    <3> QED BY <1>3, <1>4, <1>7, <3>1, Spelled
  <2> HIDE DEF string
  <2>3. item = [m EXCEPT !.array = <<>>, !.kids = <<>>]
    BY <1>2, <1>5, <2>2
  <2>4. SubSeq(m.array, 1, 0) = <<>>
    BY <1>7
  <2> HIDE DEF item
  <2>5. f.ptr = ArrayAt(e) + 0 /\ f.todo = ToDimension(e, 0) /\ f.item = item
    BY <1>4, <1>5 DEF Past
  <2> HIDE DEF f
  <2>6. AtDimension(f, e, 0)
    <3>1. item = [m EXCEPT !.array = SubSeq(m.array, 1, 0), !.kids = <<>>]
      BY <2>3, <2>4
    <3>2. 0 \in 0 .. Len(m.array)
      BY <1>4
    <3> QED BY <2>5, <3>1, <3>2 DEF AtDimension, Stands, m
  <2>7. Reads(t, f, e)
    BY <2>6 DEF Reads
  <2> QED BY <2>1, <2>7, Moved DEF f
<1> QED BY <1>10, <1>11

(* At the header: the numbers of it, as far as they are there.                  *)
LEMMA AtTheHeader ==
  ASSUME NEW t, NEW e, Clean(t, e), At("header")
  PROVE  /\ Top.ptr = e.at + 1 /\ Top.item = NewItem(e.item.kind) /\ e.at \in Nat
         /\ \A i \in 1 .. Left : Item(i) = t.whole[e.at + 1 + i]
         /\ HeaderWritten(t.whole, e)
         /\ HeaderLength(e.item.kind) \in Nat
         /\ Top.ptr + HeaderLength(e.item.kind) = NameAt(e)
         /\ Left < HeaderLength(e.item.kind) => Top.end # e.end
<1>1. AtHeader(Top, e)
  BY CleanPart DEF AtPart
<1>2. Top.ptr = e.at + 1 /\ Top.item = NewItem(e.item.kind)
  BY <1>1 DEF AtHeader, Stands
<1>3. /\ HeaderWritten(t.whole, e) /\ HeaderLength(e.item.kind) \in Nat /\ e.at \in Nat
      /\ NameAt(e) = e.at + (1 + HeaderLength(e.item.kind)) /\ NameAt(e) <= EndAt(e)
  BY Places, EntryFacts, Fits DEF Clean, Stood, EntryWritten
<1>4. Top.ptr + HeaderLength(e.item.kind) = NameAt(e)
  BY <1>2, <1>3
<1>5. Left < HeaderLength(e.item.kind) => Top.end # e.end
  BY <1>3, <1>4, Short
<1>6. \A i \in 1 .. Left : Item(i) = t.whole[e.at + 1 + i]
  BY <1>2, CleanTop
<1> QED BY <1>2, <1>3, <1>4, <1>5, <1>6

(* Behind the header.                                                           *)
LEMMA PastHeader ==
  ASSUME NEW t, NEW e, Clean(t, e), At("header"), NEW todo, NEW item,
         Take(HeaderLength(e.item.kind), todo, item), todo = ToName(e),
         item = [e.item EXCEPT !.name = <<>>, !.typ = <<>>, !.array = <<>>, !.kids = <<>>]
  PROVE  Stays(t, e)
<1> DEFINE f == Past(HeaderLength(e.item.kind), todo, item)
<1>1. f.ptr = NameAt(e) /\ f.todo = ToName(e) /\ f.item = item
  BY AtTheHeader DEF Past
<1> HIDE DEF f
<1>2. Reads(t, f, e)
  BY <1>1 DEF Reads, AtName, Stands
<1> QED BY <1>2, Moved DEF f

(* An item of which the header is known.                                        *)
IsWhole(m) ==
  m = [kind |-> m.kind, name |-> m.name, typ |-> m.typ, size |-> m.size,
       offset |-> m.offset, base_type |-> m.base_type, array |-> m.array, kids |-> m.kids]

(* What is known of an item when its header has been read and nothing else.     *)
LEMMA Blank ==
  ASSUME NEW m, IsWhole(m)
  PROVE  [m EXCEPT !.name = <<>>, !.typ = <<>>, !.array = <<>>, !.kids = <<>>]
           = [kind |-> m.kind, name |-> <<>>, typ |-> <<>>, size |-> m.size,
              offset |-> m.offset, base_type |-> m.base_type, array |-> <<>>, kids |-> <<>>]
<1>1. PICK a, b, c, d, f, g, h, k :
        m = [kind |-> a, name |-> b, typ |-> c, size |-> d, offset |-> f, base_type |-> g,
             array |-> h, kids |-> k]
  BY DEF IsWhole
<1>2. m.kind = a /\ m.size = d /\ m.offset = f /\ m.base_type = g
  BY <1>1
<1>3. PICK m1 : m1 = [m EXCEPT !.name = <<>>]
  OBVIOUS
<1>4. m1 = [kind |-> a, name |-> <<>>, typ |-> c, size |-> d, offset |-> f, base_type |-> g,
             array |-> h, kids |-> k]
  BY <1>1, <1>3
<1>5. PICK m2 : m2 = [m1 EXCEPT !.typ = <<>>]
  OBVIOUS
<1>6. m2 = [kind |-> a, name |-> <<>>, typ |-> <<>>, size |-> d, offset |-> f, base_type |-> g,
             array |-> h, kids |-> k]
  BY <1>4, <1>5
<1>7. PICK m3 : m3 = [m2 EXCEPT !.array = <<>>]
  OBVIOUS
<1>8. m3 = [kind |-> a, name |-> <<>>, typ |-> <<>>, size |-> d, offset |-> f, base_type |-> g,
             array |-> <<>>, kids |-> k]
  BY <1>6, <1>7
<1>9. [m3 EXCEPT !.kids = <<>>] = [kind |-> a, name |-> <<>>, typ |-> <<>>, size |-> d, offset |-> f, base_type |-> g,
             array |-> <<>>, kids |-> <<>>]
  BY <1>8
<1>10. [m3 EXCEPT !.kids = <<>>]
         = [kind |-> m.kind, name |-> <<>>, typ |-> <<>>, size |-> m.size,
            offset |-> m.offset, base_type |-> m.base_type, array |-> <<>>, kids |-> <<>>]
  BY <1>2, <1>9
<1> QED BY <1>3, <1>5, <1>7, <1>10, Zenon

(* The header of a type or a field: what is to be read behind it is what was    *)
(* written behind it.                                                           *)
LEMMA StayTypeHeader ==
  ASSUME NEW t, NEW e, Clean(t, e), TypeHeader
  PROVE  Stays(t, e) \/ Fails(e)
<1> DEFINE m == e.item
           w == t.whole
           o == e.at + 1
<1>1. At("header") /\ Top.item.kind \in {"type", "field"}
  BY DEF TypeHeader
<1>2. m.kind \in {"type", "field"} /\ Left \in Nat /\ Top.item.kind = m.kind
  BY <1>1, CleanTop
<1>3. IsWhole(m)
  BY CleanTop DEF IsWhole
<1>4. HeaderLength(m.kind) = 9
  BY <1>2 DEF HeaderLength
<1>5. /\ w[o + 1] = 1 /\ w[o + 2] = m.size /\ w[o + 4] = m.base_type /\ w[o + 5] = e.flags
      /\ w[o + 6] = Len(m.name) /\ w[o + 7] = Len(m.typ) /\ w[o + 8] = Len(m.array)
      /\ w[o + 9] = InnerCount(e)
      /\ m.kind = "type" => m.offset = 0 /\ w[o + 3] = 0
      /\ m.kind = "field" =>
           IF m.offset = None THEN w[o + 3] = Elsewhere
           ELSE w[o + 3] = m.offset /\ m.offset # Elsewhere
  BY <1>1, <1>2, AtTheHeader DEF HeaderWritten
<1>6. /\ Top.item = NewItem(m.kind)
      /\ \A i \in 1 .. Left : Item(i) = w[o + i]
      /\ Left < HeaderLength(m.kind) => Top.end # e.end
  BY <1>1, AtTheHeader
<1>7. ToName(e) = Goal("name", Len(m.name)) \o Goal("typ", Len(m.typ))
                    \o Some("dimension", Len(m.array)) \o Goal("sub_items", InnerCount(e))
                    \o FlaggedParts(m.kind, e.flags)
  <2> DEFINE A == Goal("name", Len(m.name))
             B == Goal("typ", Len(m.typ))
             C == Some("dimension", Len(m.array))
             D == Goal("sub_items", InnerCount(e))
             X == ToGuid(e)
  <2>1. /\ Len(m.name) \in Nat /\ Len(m.typ) \in Nat /\ Len(m.array) \in Nat
        /\ InnerCount(e) \in Nat
    BY Places, EntryFacts DEF Clean
  <2>2. A \in Seq(Goals) /\ B \in Seq(Goals) /\ C \in Seq(Goals) /\ D \in Seq(Goals)
    BY <2>1, GoalLists DEF Whats, LengthGoals
  <2>3. X \in Seq(Goals)
    BY Todos DEF Clean
  <2>4. Len(m.array) - 0 = Len(m.array)
    BY <2>1
  <2>5. ToName(e) = A \o (B \o (C \o (D \o X)))
    BY <1>2, <2>4 DEF ToName, ToTyp, ToDimension, ToSubItems
  <2>6. FlaggedParts(m.kind, e.flags) = X
    BY <1>2, Announced DEF Clean
  <2> HIDE DEF A, B, C, D, X
  <2>7. Join(Join(Join(Join(A, B), C), D), X) = Join(A, Join(B, Join(C, Join(D, X))))
    BY <2>2, <2>3, Regroup DEF Lists
  <2>8. (((A \o B) \o C) \o D) \o X = A \o (B \o (C \o (D \o X)))
    BY <2>7, Zenon DEF Join
  <2>9. ToName(e) = (((A \o B) \o C) \o D) \o FlaggedParts(m.kind, e.flags)
    BY <2>5, <2>6, <2>8, Zenon
  <2> QED BY <2>9 DEF A, B, C, D
<1> DEFINE todo == Goal("name", Item(6)) \o Goal("typ", Item(7)) \o Some("dimension", Item(8))
                     \o Goal("sub_items", Item(9)) \o FlaggedParts(Top.item.kind, Item(5))
           item == [Top.item EXCEPT
                      !.size = Item(2), !.base_type = Item(4),
                      !.offset = IF Top.item.kind = "field" /\ Item(3) = Elsewhere
                                 THEN None ELSE Item(3)]
<1>8. Left >= 1 => Item(1) = 1
  <2> HAVE Left >= 1
  <2>1. 1 \in 1 .. Left
    BY <1>2
  <2> QED BY <1>5, <1>6, <2>1
<1>9. CASE Left < 9
  BY <1>4, <1>6, <1>8, <1>9 DEF TypeHeader, Fails
<1>10. CASE ~(Left < 9)
  <2>1. Take(9, todo, item)
    BY <1>8, <1>10 DEF TypeHeader
  <2>2. 2 \in 1 .. Left /\ 3 \in 1 .. Left /\ 4 \in 1 .. Left /\ 5 \in 1 .. Left
        /\ 6 \in 1 .. Left /\ 7 \in 1 .. Left /\ 8 \in 1 .. Left /\ 9 \in 1 .. Left
    BY <1>2, <1>10
  <2>3. /\ Item(2) = m.size /\ Item(4) = m.base_type /\ Item(5) = e.flags
        /\ Item(6) = Len(m.name) /\ Item(7) = Len(m.typ) /\ Item(8) = Len(m.array)
        /\ Item(9) = InnerCount(e) /\ Item(3) = w[o + 3]
    BY <1>5, <1>6, <2>2
  <2>4. todo = ToName(e)
    BY <1>2, <1>7, <2>3
  <2>5. (IF m.kind = "field" /\ Item(3) = Elsewhere THEN None ELSE Item(3)) = m.offset
    BY <1>2, <1>5, <2>3
  <2>6. item = [NewItem(m.kind) EXCEPT !.size = m.size, !.base_type = m.base_type,
                                       !.offset = m.offset]
    BY <1>2, <1>6, <2>3, <2>5
  <2> HIDE DEF item, todo
  <2>7. item = [m EXCEPT !.name = <<>>, !.typ = <<>>, !.array = <<>>, !.kids = <<>>]
    <3>1. item = [kind |-> m.kind, name |-> <<>>, typ |-> <<>>, size |-> m.size,
                  offset |-> m.offset, base_type |-> m.base_type, array |-> <<>>,
                  kids |-> <<>>]
      BY <2>6 DEF NewItem
    <3> HIDE DEF m
    <3> QED BY <1>3, <3>1, Blank
  <2> QED BY <1>1, <1>4, <2>1, <2>4, <2>7, PastHeader
<1> QED BY <1>9, <1>10

(* Behind the type of a symbol, a method or a parameter.                        *)
LEMMA BehindTyp ==
  ASSUME NEW t, NEW e, Stood(t, e), e.item.kind \in {"symbol", "method", "parameter"}
  PROVE  /\ ToDimension(e, 0) = Some("parameter", InnerCount(e)) \o If(Has(e, 8), "attributes")
         /\ e.item.kind \in {"symbol", "parameter"} => InnerCount(e) = 0
<1>1. e.item.array = <<>> /\ (e.item.kind \in {"symbol", "parameter"} => InnerCount(e) = 0)
  BY DEF Stood, EntryWritten, HeaderWritten
<1>2. ~Has(e, 1) /\ ~Has(e, 2) /\ ~Has(e, 4) /\ ~Has(e, 16)
  BY DEF Has
<1>3. ToGuid(e) = If(Has(e, 8), "attributes") \o <<>>
  BY <1>2, Absent DEF ToAttributes
<1>4. If(Has(e, 8), "attributes") \in Seq(Goals)
  BY GoalLists DEF If, Whats
<1>5. ToGuid(e) = If(Has(e, 8), "attributes")
  BY <1>3, <1>4, ConcatEmptySeq
<1>6. ToDimension(e, 0) = ToSubItems(e)
  <2>1. Len(e.item.array) = 0
    BY <1>1
  <2> QED BY <2>1, Absent
<1>7. ToSubItems(e) = ToInner(e, 0)
  BY Absent
<1>8. InnerCount(e) - 0 = InnerCount(e) /\ InnerKind(e.item.kind) = "parameter"
  BY EntryFacts DEF InnerKind
<1>9. ToInner(e, 0) = Some("parameter", InnerCount(e)) \o ToGuid(e)
  BY <1>8 DEF ToInner
<1> QED BY <1>1, <1>5, <1>6, <1>7, <1>9

(* The header of a symbol.                                                      *)
LEMMA StaySymbolHeader ==
  ASSUME NEW t, NEW e, Clean(t, e), SymbolHeader
  PROVE  Stays(t, e) \/ Fails(e)
<1> DEFINE m == e.item
           w == t.whole
           o == e.at + 1
<1>1. At("header") /\ Top.item.kind = "symbol"
  BY DEF SymbolHeader
<1>2. m.kind = "symbol" /\ Left \in Nat
  BY <1>1, CleanTop
<1>3. IsWhole(m)
  BY CleanTop DEF IsWhole
<1>4. HeaderLength(m.kind) = 5
  BY <1>2 DEF HeaderLength
<1>5. /\ w[o + 1] = m.offset /\ w[o + 2] = m.size /\ w[o + 3] = m.base_type
      /\ w[o + 4] = Len(m.name) /\ w[o + 5] = Len(m.typ)
  BY <1>1, <1>2, AtTheHeader DEF HeaderWritten
<1>6. /\ Top.item = NewItem(m.kind)
      /\ \A i \in 1 .. Left : Item(i) = w[o + i]
      /\ Left < HeaderLength(m.kind) => Top.end # e.end
  BY <1>1, AtTheHeader
<1>7. ToName(e) = Goal("name", Len(m.name)) \o Goal("typ", Len(m.typ))
  <2>1. Stood(t, e) /\ ~Has(e, 8)
    BY <1>2 DEF Clean, Has
  <2>2. ToDimension(e, 0) = <<>> \o <<>>
    BY <1>2, <2>1, BehindTyp DEF Some, If
  <2>3. ToDimension(e, 0) = <<>>
    BY <2>2
  <2>4. Goal("typ", Len(m.typ)) \in Seq(Goals)
    BY Places, GoalLists DEF LengthGoals, Clean
  <2>5. ToTyp(e) = Goal("typ", Len(m.typ))
    BY <2>3, <2>4, ConcatEmptySeq DEF ToTyp
  <2> QED BY <2>5 DEF ToName
<1> DEFINE todo == Goal("name", Item(4)) \o Goal("typ", Item(5))
           item == [Top.item EXCEPT !.offset = Item(1), !.size = Item(2), !.base_type = Item(3)]
<1>8. CASE Left < 5
  BY <1>4, <1>6, <1>8 DEF SymbolHeader, Fails
<1>9. CASE ~(Left < 5)
  <2>1. Take(5, todo, item)
    BY <1>9 DEF SymbolHeader
  <2>2. 1 \in 1 .. Left /\ 2 \in 1 .. Left /\ 3 \in 1 .. Left /\ 4 \in 1 .. Left
        /\ 5 \in 1 .. Left
    BY <1>2, <1>9
  <2>3. /\ Item(1) = m.offset /\ Item(2) = m.size /\ Item(3) = m.base_type
        /\ Item(4) = Len(m.name) /\ Item(5) = Len(m.typ)
    BY <1>5, <1>6, <2>2
  <2>4. todo = ToName(e)
    BY <1>7, <2>3
  <2>5. item = [NewItem(m.kind) EXCEPT !.offset = m.offset, !.size = m.size,
                                       !.base_type = m.base_type]
    BY <1>6, <2>3
  <2>6. m.array = <<>>
    BY <1>2 DEF Clean, Stood, EntryWritten, HeaderWritten
  <2> HIDE DEF item, todo
  <2>7. item = [m EXCEPT !.name = <<>>, !.typ = <<>>, !.array = <<>>, !.kids = <<>>]
    <3>1. item = [kind |-> m.kind, name |-> <<>>, typ |-> <<>>, size |-> m.size,
                  offset |-> m.offset, base_type |-> m.base_type, array |-> <<>>,
                  kids |-> <<>>]
      BY <2>5 DEF NewItem
    <3> HIDE DEF m
    <3> QED BY <1>3, <3>1, Blank
  <2> QED BY <1>1, <1>4, <2>1, <2>4, <2>7, PastHeader
<1> QED BY <1>8, <1>9

(* The header of a method or a parameter.                                       *)
LEMMA StayMethodHeader ==
  ASSUME NEW t, NEW e, Clean(t, e), MethodHeader
  PROVE  Stays(t, e) \/ Fails(e)
<1> DEFINE m == e.item
           w == t.whole
           o == e.at + 1
           n == HeaderLength(m.kind)
<1>1. At("header") /\ Top.item.kind \in {"method", "parameter"}
  BY DEF MethodHeader
<1>2. m.kind \in {"method", "parameter"} /\ Left \in Nat /\ Top.item.kind = m.kind
  BY <1>1, CleanTop
<1>3. IsWhole(m)
  BY CleanTop DEF IsWhole
<1>4. n = IF Top.item.kind = "method" THEN 5 ELSE 4
  BY <1>2 DEF HeaderLength
<1>5. /\ w[o + 1] = m.size /\ w[o + 2] = e.flags /\ w[o + 3] = Len(m.name)
      /\ w[o + 4] = Len(m.typ) /\ (m.kind = "method" => w[o + 5] = InnerCount(e))
      /\ m.offset = 0 /\ m.base_type = 0 /\ m.array = <<>>
  BY <1>1, <1>2, AtTheHeader DEF HeaderWritten
<1>6. /\ Top.item = NewItem(m.kind)
      /\ \A i \in 1 .. Left : Item(i) = w[o + i]
      /\ Left < n => Top.end # e.end
  BY <1>1, AtTheHeader
<1>7. Stood(t, e) /\ (Has(e, 8) <=> Flag(e.flags, 8))
  BY <1>2 DEF Clean, Has
<1>8. /\ Len(m.name) \in Nat /\ Len(m.typ) \in Nat /\ InnerCount(e) \in Nat
      /\ (m.kind = "parameter" => InnerCount(e) = 0)
  BY <1>2, <1>7, Places, EntryFacts, BehindTyp
<1>9. ToName(e) = Goal("name", Len(m.name)) \o Goal("typ", Len(m.typ))
                    \o Some("parameter", InnerCount(e)) \o If(Flag(e.flags, 8), "attributes")
  <2> DEFINE A == Goal("name", Len(m.name))
             B == Goal("typ", Len(m.typ))
             C == Some("parameter", InnerCount(e))
             D == If(Flag(e.flags, 8), "attributes")
  <2>1. A \in Seq(Goals) /\ B \in Seq(Goals) /\ C \in Seq(Goals) /\ D \in Seq(Goals)
    <3>1. A \in Seq(Goals) /\ B \in Seq(Goals)
      BY <1>8, GoalLists DEF LengthGoals
    <3>2. C \in Seq(Goals)
      BY <1>8, GoalLists DEF Whats, Entries
    <3>3. D \in Seq(Goals)
      BY GoalLists DEF Whats, If
    <3> QED BY <3>1, <3>2, <3>3
  <2>2. ToDimension(e, 0) = C \o D
    BY <1>2, <1>7, BehindTyp DEF If
  <2>3. ToName(e) = A \o (B \o (C \o D))
    BY <2>2 DEF ToName, ToTyp
  <2> HIDE DEF A, B, C, D
  <2>4. Join(A, B) \in Lists /\ Join(C, D) \in Lists
    BY <2>1, Closed DEF Lists
  <2>5. Join(Join(Join(A, B), C), D) = Join(Join(A, B), Join(C, D))
    BY <2>1, <2>4, Assoc DEF Lists
  <2>6. Join(Join(A, B), Join(C, D)) = Join(A, Join(B, Join(C, D)))
    BY <2>1, <2>4, Assoc DEF Lists
  <2>7. ((A \o B) \o C) \o D = A \o (B \o (C \o D))
    BY <2>5, <2>6, Zenon DEF Join
  <2> QED BY <2>3, <2>7, Zenon DEF A, B, C, D
<1> DEFINE todo == Goal("name", Item(3)) \o Goal("typ", Item(4))
                     \o (IF n = 5 THEN Some("parameter", Item(5)) ELSE <<>>)
                     \o If(Flag(Item(2), 8), "attributes")
           item == [Top.item EXCEPT !.size = Item(1)]
<1>10. CASE Left < n
  BY <1>4, <1>6, <1>10 DEF MethodHeader, Fails
<1>11. CASE ~(Left < n)
  <2>1. Take(n, todo, item)
    BY <1>4, <1>11 DEF MethodHeader
  <2>2. 1 \in 1 .. Left /\ 2 \in 1 .. Left /\ 3 \in 1 .. Left /\ 4 \in 1 .. Left
        /\ (m.kind = "method" => 5 \in 1 .. Left)
    BY <1>2, <1>4, <1>11
  <2>3. /\ Item(1) = m.size /\ Item(2) = e.flags /\ Item(3) = Len(m.name)
        /\ Item(4) = Len(m.typ) /\ (m.kind = "method" => Item(5) = InnerCount(e))
    BY <1>5, <1>6, <2>2
  <2>4. (IF n = 5 THEN Some("parameter", Item(5)) ELSE <<>>) = Some("parameter", InnerCount(e))
    BY <1>2, <1>4, <1>8, <2>3 DEF Some
  <2>5. todo = ToName(e)
    BY <1>9, <2>3, <2>4
  <2>6. item = [NewItem(m.kind) EXCEPT !.size = m.size]
    BY <1>6, <2>3
  <2> HIDE DEF item, todo
  <2>7. item = [m EXCEPT !.name = <<>>, !.typ = <<>>, !.array = <<>>, !.kids = <<>>]
    <3>1. m.offset = 0 /\ m.base_type = 0 /\ m.array = <<>>
      BY <1>5
    <3>2. item = [kind |-> m.kind, name |-> <<>>, typ |-> <<>>, size |-> m.size,
                  offset |-> m.offset, base_type |-> m.base_type, array |-> <<>>,
                  kids |-> <<>>]
      BY <2>6, <3>1 DEF NewItem
    <3> HIDE DEF m
    <3> QED BY <1>3, <3>2, Blank
  <2> QED BY <1>1, <2>1, <2>5, <2>7, PastHeader
<1> QED BY <1>10, <1>11

--------------------------------------------------------------------------------
(* The stack: which entries its frames read. *)

(* What is known of a table.                                                    *)
Known(t, kind) ==
  /\ t.whole \in Seq(Nat) /\ t.rows \in Seq(Nat) /\ t.rows # <<>>
  /\ t.rows[1] = 0 /\ t.rows[Len(t.rows)] = Len(t.whole)
  /\ \A i \in 1 .. Len(t.rows) - 1 :
       LET x == t.rows[i] IN
         /\ SizeWritten(t, x, t.rows[i + 1])
         /\ x \in DOMAIN t.entry => t.entry[x].item.kind = kind
  /\ \A x \in DOMAIN t.entry : t.entry[x].at = x /\ EntryWritten(t, t.entry[x])

(* What is decoded from an entry, and from the first k of a table.              *)
Decoded(t, item, e) ==
  /\ item = [e.item EXCEPT !.kids = item.kids]
  /\ KidsRead(t, e, item.kids, KidsBeforeEnums(e) + EnumCount(e))

RowsRead(t, items, k) ==
  /\ IsSeq(items) /\ Len(items) = k
  /\ \A j \in 1 .. k : t.rows[j] \notin DOMAIN t.entry \/ Decoded(t, items[j], t.entry[t.rows[j]])

(* The frame of a table, at row r, with the first k read.                       *)
AtRow(t, kind, f, r, k) ==
  /\ r \in 0 .. Len(t.rows) - 1
  /\ f.ptr = t.rows[r + 1] /\ f.todo = Goal(kind, 1)
  /\ f.item = [NewItem("table") EXCEPT !.kids = f.item.kids]
  /\ RowsRead(t, f.item.kids, k)

(* A frame that reads, at the end of the stack, and one that waits for the      *)
(* entry at z, further down.                                                    *)
Ends(f, e, slack) == IF slack THEN f.end < EndAt(e) ELSE f.end = e.end
Shut(t, kind, f, table, size, slack, y) ==
  IF table THEN f.end = size /\ \E r \in Nat : AtRow(t, kind, f, r, r)
  ELSE y \in DOMAIN t.entry /\ Reads(t, f, t.entry[y]) /\ Ends(f, t.entry[y], slack)

Opened(t, f, e, z) ==
  \/ \E i \in Nat : i < InnerCount(e) /\ e.inner[i + 1] = z /\ AtInner(t, f, e, i + 1, i)
  \/ \E i \in Nat : /\ i < MethodCount(e) /\ e.methods[i + 1] = z
                    /\ AtMethod(t, f, e, i + 1, MethodKids(e, i))
Open(t, kind, f, table, size, slack, y, z) ==
  IF table
  THEN /\ f.end = size
       /\ \E r \in Nat : /\ r < Len(t.rows) - 1 /\ t.rows[r + 1] = z
                         /\ AtRow(t, kind, f, r + 1, r)
  ELSE y \in DOMAIN t.entry /\ Opened(t, f, t.entry[y], z) /\ Ends(f, t.entry[y], slack)

(* The first h frames read entries that are known, x[i] is the place of the     *)
(* i-th.  Of the entry of the next frame nothing is known, nor of those behind. *)
(* In an answer cut short (slack) the first frame ends before its entry does.   *)
Chain(t, kind, s, bulk, size, slack, h, x) ==
  /\ h \in 0 .. Len(s) /\ x \in [Nat -> Nat] /\ x[1] = 0
  /\ bulk => h >= 1
  /\ h < Len(s) => x[h + 1] \notin DOMAIN t.entry
  /\ \A i \in 1 .. h :
       IF i = Len(s) THEN Shut(t, kind, s[i], bulk /\ i = 1, size, slack /\ i = 1, x[i])
       ELSE Open(t, kind, s[i], bulk /\ i = 1, size, slack /\ i = 1, x[i], x[i + 1])

(* Frames of a stack after a step.                                              *)
LEMMA Swapped ==
  ASSUME NEW s, IsSeq(s), Len(s) > 0, NEW f
  PROVE  LET u == Append(SubSeq(s, 1, Len(s) - 1), f) IN
           /\ IsSeq(u) /\ Len(u) = Len(s) /\ u[Len(s)] = f
           /\ \A i \in 1 .. Len(s) - 1 : u[i] = s[i]
<1>1. PICK F : s \in Seq(F)
  BY DEF IsSeq
<1> DEFINE k == Len(s) - 1
           o == SubSeq(s, 1, k)
           u == Append(o, f)
<1>2. Len(s) \in Nat /\ k \in Nat /\ Len(s) = k + 1
  BY <1>1
<1>3. \A i \in 1 .. k : s[i] \in F
  BY <1>1, <1>2
<1> HIDE DEF k
<1>4. /\ o \in Seq(F)
      /\ Len(o) = IF 1 <= k THEN k - 1 + 1 ELSE 0
      /\ \A i \in 1 .. k - 1 + 1 : o[i] = s[1 + i - 1]
  BY <1>2, <1>3, SubSeqProperties
<1> HIDE DEF o
<1>5. o \in Seq(F \cup {f}) /\ Len(o) = k /\ \A i \in 1 .. k : o[i] = s[i]
  <2>1. o \in Seq(F \cup {f})
    BY <1>4
  <2>2. Len(o) = k
    BY <1>2, <1>4
  <2>3. \A i \in 1 .. k : o[i] = s[i]
    BY <1>2, <1>4
  <2> QED BY <2>1, <2>2, <2>3
<1>6. /\ u \in Seq(F \cup {f}) /\ Len(u) = k + 1 /\ u[k + 1] = f
      /\ \A i \in 1 .. k : u[i] = o[i]
  BY <1>2, <1>5
<1>7. u = Append(SubSeq(s, 1, Len(s) - 1), f)
  BY DEF o, k
<1> HIDE DEF u
<1>8. /\ IsSeq(u) /\ Len(u) = Len(s) /\ u[Len(s)] = f
      /\ \A i \in 1 .. Len(s) - 1 : u[i] = s[i]
  <2>1. IsSeq(u)
    BY <1>6 DEF IsSeq
  <2>2. Len(u) = Len(s) /\ u[Len(s)] = f
    BY <1>2, <1>6
  <2>3. Len(s) - 1 = k
    BY <1>2
  <2>4. \A i \in 1 .. k : u[i] = s[i]
    BY <1>5, <1>6
  <2> QED BY <2>1, <2>2, <2>3, <2>4
<1> QED BY <1>7, <1>8

(* A frame on top of the others.                                                *)
LEMMA Appended ==
  ASSUME NEW s, IsSeq(s), NEW f
  PROVE  LET u == Append(s, f) IN
           /\ IsSeq(u) /\ Len(u) = Len(s) + 1 /\ u[Len(s) + 1] = f
           /\ \A i \in 1 .. Len(s) : u[i] = s[i]
<1>1. PICK F : s \in Seq(F)
  BY DEF IsSeq
<1>2. Len(s) \in Nat /\ s \in Seq(F \cup {f})
  BY <1>1
<1> DEFINE u == Append(s, f)
<1>3. /\ u \in Seq(F \cup {f}) /\ Len(u) = Len(s) + 1 /\ u[Len(s) + 1] = f
      /\ \A i \in 1 .. Len(s) : u[i] = s[i]
  BY <1>2
<1> HIDE DEF u
<1>4. IsSeq(u)
  BY <1>3 DEF IsSeq
<1> QED BY <1>3, <1>4 DEF u

(* One frame in the place of the last two.                                      *)
LEMMA Lowered ==
  ASSUME NEW s, IsSeq(s), Len(s) > 1, NEW f
  PROVE  LET u == Append(SubSeq(s, 1, Len(s) - 2), f) IN
           /\ IsSeq(u) /\ Len(u) = Len(s) - 1 /\ u[Len(s) - 1] = f
           /\ \A i \in 1 .. Len(s) - 2 : u[i] = s[i]
<1>1. PICK F : s \in Seq(F)
  BY DEF IsSeq
<1> DEFINE r == SubSeq(s, 1, Len(s) - 1)
<1>2. Len(s) \in Nat
  BY <1>1
<1>3. /\ r \in Seq(F) /\ Len(r) = Len(s) - 1 /\ \A i \in 1 .. Len(r) : r[i] = s[i]
      /\ SubSeq(r, 1, Len(r) - 1) = SubSeq(s, 1, Len(s) - 2)
  BY <1>1, <1>2
<1> HIDE DEF r
<1>4. IsSeq(r) /\ Len(r) > 0
  BY <1>2, <1>3 DEF IsSeq
<1> DEFINE u == Append(SubSeq(r, 1, Len(r) - 1), f)
<1>5. /\ IsSeq(u) /\ Len(u) = Len(r) /\ u[Len(r)] = f
      /\ \A i \in 1 .. Len(r) - 1 : u[i] = r[i]
  BY <1>4, Swapped
<1>6. u = Append(SubSeq(s, 1, Len(s) - 2), f)
  BY <1>3
<1> HIDE DEF u
<1>7. Len(r) - 1 = Len(s) - 2 /\ Len(r) = Len(s) - 1
  BY <1>2, <1>3
<1>8. \A i \in 1 .. Len(s) - 2 : u[i] = s[i]
  <2> TAKE i \in 1 .. Len(s) - 2
  <2>1. i \in 1 .. Len(r) - 1 /\ i \in 1 .. Len(r)
    BY <1>2, <1>7
  <2> QED BY <1>3, <1>5, <2>1
<1> QED BY <1>5, <1>6, <1>7, <1>8

(* The frame that reads an entry that is known.                                 *)
LEMMA ChainTop ==
  ASSUME NEW t, NEW kind, NEW bulk, NEW size, NEW slack, NEW x,
         TInv, Reading, IsBeginning(data, t.whole), Known(t, kind),
         Chain(t, kind, stack, bulk, size, slack, Len(stack), x), ~(bulk /\ Len(stack) = 1)
  PROVE  /\ x[Len(stack)] \in DOMAIN t.entry /\ Clean(t, t.entry[x[Len(stack)]])
         /\ Ends(Top, t.entry[x[Len(stack)]], slack /\ Len(stack) = 1)
<1> DEFINE n == Len(stack)
           e == t.entry[x[n]]
<1>1. n \in Nat /\ n > 0
  BY DEF TInv, IsStack
<1>2. Shut(t, kind, stack[n], bulk /\ n = 1, size, slack /\ n = 1, x[n])
  <2>1. n \in 1 .. n
    BY <1>1
  <2> QED BY <2>1 DEF Chain
<1>3. x[n] \in DOMAIN t.entry /\ Reads(t, Top, e) /\ Ends(Top, e, slack /\ n = 1)
  BY <1>2 DEF Shut, Top
<1>4. Stood(t, e)
  BY <1>3 DEF Known, Stood
<1> QED BY <1>3, <1>4 DEF Clean

(* The last frame goes on in its entry.                                         *)
LEMMA ChainStays ==
  ASSUME NEW t, NEW kind, NEW bulk, NEW size, NEW slack, NEW x,
         TInv, Reading, IsBeginning(data, t.whole), Known(t, kind),
         Chain(t, kind, stack, bulk, size, slack, Len(stack), x), ~(bulk /\ Len(stack) = 1),
         Stays(t, t.entry[x[Len(stack)]])
  PROVE  Chain(t, kind, stack', bulk, size, slack, Len(stack'), x)
<1> DEFINE n == Len(stack)
           e == t.entry[x[n]]
<1>1. n \in Nat /\ n > 0 /\ IsSeq(stack)
  BY DEF TInv, IsStack, IsSeq
<1>2. x[n] \in DOMAIN t.entry /\ Ends(Top, e, slack /\ n = 1)
  BY ChainTop
<1>3. PICK f : stack' = Append(Outer, f) /\ f.end = Top.end /\ Reads(t, f, e)
  BY DEF Stays
<1>4. Len(stack') = n /\ stack'[n] = f /\ \A i \in 1 .. n - 1 : stack'[i] = stack[i]
  BY <1>1, <1>3, Swapped DEF Outer
<1>5. Ends(f, e, slack /\ n = 1)
  BY <1>2, <1>3 DEF Ends
<1>6. Shut(t, kind, f, bulk /\ n = 1, size, slack /\ n = 1, x[n])
  BY <1>2, <1>3, <1>5 DEF Shut
<1>7. /\ x \in [Nat -> Nat] /\ x[1] = 0
      /\ \A i \in 1 .. n :
           IF i = n THEN Shut(t, kind, stack[i], bulk /\ i = 1, size, slack /\ i = 1, x[i])
           ELSE Open(t, kind, stack[i], bulk /\ i = 1, size, slack /\ i = 1, x[i], x[i + 1])
  BY DEF Chain
<1> HIDE DEF n
<1>8. ASSUME NEW i \in 1 .. n
      PROVE  IF i = n THEN Shut(t, kind, stack'[i], bulk /\ i = 1, size, slack /\ i = 1, x[i])
             ELSE Open(t, kind, stack'[i], bulk /\ i = 1, size, slack /\ i = 1, x[i], x[i + 1])
  <2>1. CASE i = n
    BY <1>4, <1>6, <2>1
  <2>2. CASE i # n
    <3>1. i \in 1 .. n - 1
      BY <1>1, <2>2
    <3> QED BY <1>4, <1>7, <2>2, <3>1
  <2> QED BY <2>1, <2>2
<1>9. n \in 0 .. n /\ n >= 1 /\ ~(n < n)
  BY <1>1
<1> QED BY <1>4, <1>7, <1>8, <1>9 DEF Chain

(* Above an entry nothing is known of, nothing changes below.                   *)
LEMMA ChainAbove ==
  ASSUME NEW t, NEW kind, NEW bulk, NEW size, NEW slack, NEW x, NEW h, NEW s, NEW u,
         Chain(t, kind, s, bulk, size, slack, h, x), Len(s) \in Nat, h < Len(s),
         Len(u) \in Nat, h < Len(u), \A i \in 1 .. h : u[i] = s[i]
  PROVE  Chain(t, kind, u, bulk, size, slack, h, x)
<1>1. /\ h \in 0 .. Len(s) /\ x \in [Nat -> Nat] /\ x[1] = 0 /\ (bulk => h >= 1)
      /\ x[h + 1] \notin DOMAIN t.entry
      /\ \A i \in 1 .. h :
           IF i = Len(s) THEN Shut(t, kind, s[i], bulk /\ i = 1, size, slack /\ i = 1, x[i])
           ELSE Open(t, kind, s[i], bulk /\ i = 1, size, slack /\ i = 1, x[i], x[i + 1])
  BY DEF Chain
<1>2. h \in 0 .. Len(u)
  BY <1>1
<1>3. ASSUME NEW i \in 1 .. h
      PROVE  i # Len(u) /\ Open(t, kind, u[i], bulk /\ i = 1, size, slack /\ i = 1, x[i], x[i + 1])
  <2>1. i # Len(s) /\ i # Len(u)
    <3>1. h \in Nat /\ i \in Nat /\ i <= h
      BY <1>1
    <3> QED BY <3>1
  <2> QED BY <1>1, <2>1
<1> QED BY <1>1, <1>2, <1>3 DEF Chain

(* The last frame goes on in an entry nothing is known of.                      *)
LEMMA ChainLost ==
  ASSUME NEW t, NEW kind, NEW bulk, NEW size, NEW slack, NEW x, NEW h,
         TInv, Reading, Chain(t, kind, stack, bulk, size, slack, h, x), h # Len(stack),
         NEW f, stack' = Append(Outer, f)
  PROVE  Chain(t, kind, stack', bulk, size, slack, h, x)
<1>1. Len(stack) \in Nat /\ Len(stack) > 0 /\ IsSeq(stack)
  BY DEF TInv, IsStack, IsSeq
<1>2. h \in Nat /\ h < Len(stack)
  BY <1>1 DEF Chain
<1>3. Len(stack') = Len(stack) /\ \A i \in 1 .. Len(stack) - 1 : stack'[i] = stack[i]
  BY <1>1, Swapped DEF Outer
<1>4. \A i \in 1 .. h : i \in 1 .. Len(stack) - 1
  BY <1>1, <1>2
<1> QED BY <1>1, <1>2, <1>3, <1>4, ChainAbove

(* And enters one in it.                                                        *)
LEMMA ChainLostDeeper ==
  ASSUME NEW t, NEW kind, NEW bulk, NEW size, NEW slack, NEW x, NEW h,
         TInv, Reading, Chain(t, kind, stack, bulk, size, slack, h, x), h # Len(stack),
         NEW f, NEW g, stack' = Append(Append(Outer, f), g)
  PROVE  Chain(t, kind, stack', bulk, size, slack, h, x)
<1>1. Len(stack) \in Nat /\ Len(stack) > 0 /\ IsSeq(stack)
  BY DEF TInv, IsStack, IsSeq
<1>2. h \in Nat /\ h < Len(stack)
  BY <1>1 DEF Chain
<1> DEFINE u == Append(Outer, f)
<1>3. IsSeq(u) /\ Len(u) = Len(stack) /\ \A i \in 1 .. Len(stack) - 1 : u[i] = stack[i]
  BY <1>1, Swapped DEF Outer
<1>4. stack' = Append(u, g)
  OBVIOUS
<1> HIDE DEF u
<1>5. Len(stack') = Len(stack) + 1 /\ \A i \in 1 .. Len(stack) : stack'[i] = u[i]
  BY <1>3, <1>4, Appended
<1>6. \A i \in 1 .. h : i \in 1 .. Len(stack) - 1 /\ i \in 1 .. Len(stack)
  BY <1>1, <1>2
<1>7. Len(stack') \in Nat /\ h < Len(stack')
  BY <1>1, <1>2, <1>5
<1>8. \A i \in 1 .. h : stack'[i] = stack[i]
  BY <1>3, <1>5, <1>6
<1> QED BY <1>1, <1>2, <1>7, <1>8, ChainAbove

(* The entry at z is entered; f waits for it.                                   *)
LEMMA ChainDeeper ==
  ASSUME NEW t, NEW kind, NEW bulk, NEW size, NEW slack, NEW x,
         TInv, Reading, Chain(t, kind, stack, bulk, size, slack, Len(stack), x),
         NEW f, NEW g, stack' = Append(Append(Outer, f), g), NEW z \in Nat,
         Open(t, kind, f, bulk /\ Len(stack) = 1, size, slack /\ Len(stack) = 1, x[Len(stack)], z),
         z \in DOMAIN t.entry => AtHeader(g, t.entry[z]) /\ g.end = t.entry[z].end
  PROVE  \E h, y : Chain(t, kind, stack', bulk, size, slack, h, y)
<1> DEFINE n == Len(stack)
           y == [x EXCEPT ![n + 1] = z]
           u == Append(Outer, f)
<1>1. n \in Nat /\ n > 0 /\ IsSeq(stack)
  BY DEF TInv, IsStack, IsSeq
<1>2. IsSeq(u) /\ Len(u) = n /\ u[n] = f /\ \A i \in 1 .. n - 1 : u[i] = stack[i]
  BY <1>1, Swapped DEF Outer
<1>3. stack' = Append(u, g)
  OBVIOUS
<1> HIDE DEF u
<1>4. /\ Len(stack') = n + 1 /\ stack'[n + 1] = g
      /\ \A i \in 1 .. n : stack'[i] = u[i]
  BY <1>2, <1>3, Appended
<1>5. n \in 1 .. n /\ \A i \in 1 .. n - 1 : i \in 1 .. n
  BY <1>1
<1>6. stack'[n] = f /\ \A i \in 1 .. n - 1 : stack'[i] = stack[i]
  BY <1>2, <1>4, <1>5
<1>7. /\ x \in [Nat -> Nat] /\ x[1] = 0
      /\ \A i \in 1 .. n :
           IF i = n THEN Shut(t, kind, stack[i], bulk /\ i = 1, size, slack /\ i = 1, x[i])
           ELSE Open(t, kind, stack[i], bulk /\ i = 1, size, slack /\ i = 1, x[i], x[i + 1])
  BY DEF Chain
<1>8. /\ y \in [Nat -> Nat] /\ y[n + 1] = z /\ \A i \in 1 .. n : y[i] = x[i]
      /\ y[1] = 0
  <2>1. n + 1 \in Nat /\ 1 \in 1 .. n /\ \A i \in 1 .. n : i \in Nat /\ i # n + 1
    BY <1>1
  <2> QED BY <1>7, <2>1
<1>9. Open(t, kind, f, bulk /\ n = 1, size, slack /\ n = 1, x[n], z)
  OBVIOUS
<1> HIDE DEF n, y
<1>10. ASSUME NEW i \in 1 .. n
       PROVE  Open(t, kind, stack'[i], bulk /\ i = 1, size, slack /\ i = 1, y[i], y[i + 1])
  <2>1. CASE i = n
    BY <1>5, <1>6, <1>8, <1>9, <2>1
  <2>2. CASE i # n
    <3>1. i \in 1 .. n - 1 /\ i \in 1 .. n /\ i + 1 \in 1 .. n
      BY <1>1, <2>2
    <3>2. Open(t, kind, stack[i], bulk /\ i = 1, size, slack /\ i = 1, x[i], x[i + 1])
      BY <1>7, <2>2
    <3> QED BY <1>6, <1>8, <3>1, <3>2
  <2> QED BY <2>1, <2>2
<1>11. CASE z \notin DOMAIN t.entry
  <2>1. n \in 0 .. n + 1 /\ n >= 1 /\ n < n + 1 /\ \A i \in 1 .. n : i # n + 1
    BY <1>1
  <2>2. Chain(t, kind, stack', bulk, size, slack, n, y)
    BY <1>4, <1>8, <1>10, <1>11, <2>1 DEF Chain
  <2> QED BY <2>2
<1>12. CASE z \in DOMAIN t.entry
  <2>1. n + 1 \in 0 .. n + 1 /\ n + 1 >= 1 /\ ~(n + 1 < n + 1) /\ n + 1 # 1
    BY <1>1
  <2>2. Shut(t, kind, g, bulk /\ n + 1 = 1, size, slack /\ n + 1 = 1, z)
    BY <1>12, <2>1 DEF Shut, Reads, Ends
  <2>3. ASSUME NEW i \in 1 .. n + 1
        PROVE  IF i = n + 1
               THEN Shut(t, kind, stack'[i], bulk /\ i = 1, size, slack /\ i = 1, y[i])
               ELSE Open(t, kind, stack'[i], bulk /\ i = 1, size, slack /\ i = 1, y[i], y[i + 1])
    <3>1. CASE i = n + 1
      BY <1>4, <1>8, <2>2, <3>1
    <3>2. CASE i # n + 1
      <4>1. i \in 1 .. n
        BY <1>1, <3>2
      <4> QED BY <1>10, <3>2, <4>1
    <3> QED BY <3>1, <3>2
  <2>4. Chain(t, kind, stack', bulk, size, slack, n + 1, y)
    BY <1>4, <1>8, <2>1, <2>3 DEF Chain
  <2> QED BY <2>4
<1> QED BY <1>11, <1>12

--------------------------------------------------------------------------------
(* Leaving an entry. *)

(* An entry all of whose fields or parameters are known is decoded as meant.    *)
LEMMA Exact ==
  ASSUME NEW t, NEW e, Stood(t, e), NEW item, Decoded(t, item, e),
         \A j \in 1 .. InnerCount(e) : e.inner[j] \in DOMAIN t.entry
  PROVE  item = e.item
<1> DEFINE m == e.item
           n == KidsBeforeEnums(e) + EnumCount(e)
           kids == item.kids
<1>1. /\ m = [kind |-> m.kind, name |-> m.name, typ |-> m.typ, size |-> m.size,
              offset |-> m.offset, base_type |-> m.base_type, array |-> m.array,
              kids |-> m.kids]
      /\ m.kids = [i \in 1 .. n |-> m.kids[i]]
  BY DEF Stood, EntryWritten
<1>2. item = [m EXCEPT !.kids = kids] /\ KidsRead(t, e, kids, n)
  BY DEF Decoded
<1>3. InnerCount(e) \in Nat /\ n \in Nat
  BY EntryFacts, KidCounts
<1>4. ASSUME NEW j \in 1 .. n PROVE kids[j] = m.kids[j]
  <2>1. ~LostKid(t, e, j)
    BY <1>3 DEF LostKid
  <2> QED BY <1>2, <2>1 DEF KidsRead
<1>5. PICK F : kids \in Seq(F)
  BY <1>2 DEF KidsRead, IsSeq
<1>6. Len(kids) = n
  BY <1>2 DEF KidsRead
<1>7. kids = [i \in 1 .. n |-> kids[i]]
  BY <1>5, <1>6
<1> HIDE DEF n, kids, m
<1>8. kids = m.kids
  BY <1>1, <1>4, <1>7
<1>9. item = m
  BY <1>1, <1>2, <1>8
<1> QED BY <1>9 DEF m

(* All that a field, parameter, method or symbol holds is known.                *)
LEMMA KnownInside ==
  ASSUME NEW t, NEW e, Stood(t, e), e.item.kind # "type"
  PROVE  \A j \in 1 .. InnerCount(e) : e.inner[j] \in DOMAIN t.entry
<1>1. InnerCount(e) \in Nat /\ e.item.kind \in Entries
  BY EntryFacts, Places
<1>2. CASE e.item.kind = "method"
  BY <1>2 DEF Stood, EntryWritten, InnerWritten
<1>3. CASE e.item.kind # "method"
  <2>1. InnerCount(e) = 0
    BY <1>1, <1>3 DEF Stood, EntryWritten, HeaderWritten, Entries
  <2> QED BY <2>1
<1> QED BY <1>2, <1>3

(* What is in a type and known is decoded as meant.                             *)
LEMMA ExactInside ==
  ASSUME NEW t, NEW e, Stood(t, e), NEW item, Decoded(t, item, e),
         e.item.kind # "type"
  PROVE  item = e.item
BY KnownInside, Exact

(* The outer frame with more in its item.                                       *)
LEMMA Refilled ==
  ASSUME NEW t, NEW e, Stood(t, e), NEW f, IsFrame(f), NEW p, NEW todo, NEW k,
         Within(t, f, e, p, todo, k), NEW kids, NEW n, KidsRead(t, e, kids, n)
  PROVE  /\ Within(t, [f EXCEPT !.item.kids = kids], e, p, todo, n)
         /\ [f EXCEPT !.item.kids = kids].end = f.end
<1> DEFINE m == e.item
           g == [f EXCEPT !.item.kids = kids]
           old == f.item.kids
<1>1. m = [kind |-> m.kind, name |-> m.name, typ |-> m.typ, size |-> m.size,
           offset |-> m.offset, base_type |-> m.base_type, array |-> m.array,
           kids |-> m.kids]
  BY DEF Stood, EntryWritten
<1>2. f = [item |-> f.item, ptr |-> f.ptr, end |-> f.end, todo |-> f.todo]
  BY DEF IsFrame
<1>3. f.ptr = p /\ f.todo = todo /\ f.item = [m EXCEPT !.kids = old]
  BY DEF Within, Stands
<1>4. /\ g.ptr = f.ptr /\ g.todo = f.todo /\ g.end = f.end
      /\ g.item = [f.item EXCEPT !.kids = kids]
  BY <1>2
<1> HIDE DEF g, m, old
<1>5. g.item = [m EXCEPT !.kids = kids] /\ g.item.kids = kids
  BY <1>1, <1>3, <1>4
<1>6. Within(t, g, e, p, todo, n)
  <2>1. Stands(g, p, todo, [e.item EXCEPT !.kids = g.item.kids])
    BY <1>3, <1>4, <1>5 DEF Stands, m
  <2>2. KidsRead(t, e, g.item.kids, n)
    BY <1>5
  <2> QED BY <2>1, <2>2 DEF Within
<1> QED BY <1>4, <1>5, <1>6 DEF g, m

(* A frame decodes an item of the kind of its entry.                            *)
LEMMA SameKind ==
  ASSUME NEW t, NEW e, Stood(t, e), NEW f, NEW p, NEW todo, NEW k, Within(t, f, e, p, todo, k)
  PROVE  f.item.kind = e.item.kind
<1> DEFINE m == e.item
           old == f.item.kids
<1>1. m = [kind |-> m.kind, name |-> m.name, typ |-> m.typ, size |-> m.size,
           offset |-> m.offset, base_type |-> m.base_type, array |-> m.array,
           kids |-> m.kids]
  BY DEF Stood, EntryWritten
<1>2. f.item = [m EXCEPT !.kids = old]
  BY DEF Within, Stands
<1> HIDE DEF m, old
<1>3. f.item.kind = m.kind
  BY <1>1, <1>2
<1> QED BY <1>3 DEF m

Kept(f, kid) ==
  IF f.item.kind = "field" /\ kid.kind = "method" THEN f.item.kids
  ELSE Append(f.item.kids, kid)

(* The frame that waited for an entry of its own goes on behind it.             *)
LEMMA Resumed ==
  ASSUME NEW t, NEW e, Stood(t, e), NEW f, IsFrame(f), NEW z, Opened(t, f, e, z),
         NEW kid, z \in DOMAIN t.entry => kid = t.entry[z].item
  PROVE  /\ Reads(t, [f EXCEPT !.item.kids = Kept(f, kid)], e)
         /\ [f EXCEPT !.item.kids = Kept(f, kid)].end = f.end
<1> DEFINE g == [f EXCEPT !.item.kids = Kept(f, kid)]
<1>1. /\ InnerCount(e) \in Nat /\ MethodCount(e) \in Nat /\ e.item.kind \in Entries
      /\ KidsBeforeMethods(e) \in Nat
  BY EntryFacts, Places, KidCounts
<1>2. ASSUME NEW i \in Nat, i < InnerCount(e), e.inner[i + 1] = z, AtInner(t, f, e, i + 1, i)
      PROVE  Reads(t, g, e) /\ g.end = f.end
  <2>1. /\ Within(t, f, e, e.inner[(i + 1) + 1], ToInner(e, i + 1), i)
        /\ KidsRead(t, e, f.item.kids, i)
    BY <1>2 DEF AtInner, Within
  <2>2. i + 1 \in 1 .. InnerCount(e) /\ i + 1 \in 0 .. InnerCount(e) /\ i + 1 \in Nat
    BY <1>1, <1>2
  <2>3. kid = e.item.kids[i + 1] \/ LostKid(t, e, i + 1)
    <3>1. z \in DOMAIN t.entry => t.entry[z].item = e.item.kids[i + 1]
      BY <1>2, <2>2 DEF Stood, EntryWritten, InnerWritten
    <3>2. z \notin DOMAIN t.entry => LostKid(t, e, i + 1)
      BY <1>1, <1>2, <2>2 DEF LostKid
    <3> QED BY <3>1, <3>2
  <2>4. KidsRead(t, e, Append(f.item.kids, kid), i + 1)
    BY <2>1, <2>3, Grown
  <2>5. f.item.kind = e.item.kind /\ e.item.kind # "field"
    <3>1. f.item.kind = e.item.kind
      BY <2>1, SameKind
    <3>2. e.item.kind = "field" => InnerCount(e) = 0
      BY DEF Stood, EntryWritten, HeaderWritten
    <3> QED BY <1>1, <1>2, <3>1, <3>2
  <2>6. Kept(f, kid) = Append(f.item.kids, kid)
    BY <2>5 DEF Kept
  <2>7. Within(t, g, e, e.inner[(i + 1) + 1], ToInner(e, i + 1), i + 1) /\ g.end = f.end
    <3> DEFINE kept == Kept(f, kid)
               p == e.inner[(i + 1) + 1]
               todo == ToInner(e, i + 1)
               n == i + 1
    <3>1. Within(t, f, e, p, todo, i) /\ KidsRead(t, e, kept, n)
      BY <2>1, <2>4, <2>6
    <3> HIDE DEF kept, p, todo, n
    <3>2. /\ Within(t, [f EXCEPT !.item.kids = kept], e, p, todo, n)
          /\ [f EXCEPT !.item.kids = kept].end = f.end
      BY <3>1, Refilled
    <3> QED BY <3>2 DEF kept, p, todo, n
  <2> HIDE DEF g
  <2>8. AtInner(t, g, e, i + 1, i + 1)
    BY <2>2, <2>7 DEF AtInner
  <2> QED BY <2>2, <2>7, <2>8 DEF Reads
<1>3. ASSUME NEW i \in Nat, i < MethodCount(e), e.methods[i + 1] = z,
             AtMethod(t, f, e, i + 1, MethodKids(e, i))
      PROVE  Reads(t, g, e) /\ g.end = f.end
  <2> DEFINE k == MethodKids(e, i)
  <2>1. /\ Within(t, f, e, e.methods[(i + 1) + 1], ToMethod(e, i + 1), k)
        /\ KidsRead(t, e, f.item.kids, k)
    BY <1>3 DEF AtMethod, Within
  <2>2. i + 1 \in 1 .. MethodCount(e) /\ i + 1 \in 0 .. MethodCount(e) /\ i + 1 \in Nat
    BY <1>1, <1>3
  <2>3. /\ z \in DOMAIN t.entry /\ t.entry[z].item.kind = "method"
        /\ e.item.kind = "type" =>
             t.entry[z].item = e.item.kids[KidsBeforeMethods(e) + (i + 1)]
    BY <1>3, <2>2 DEF Stood, EntryWritten, MethodsWritten
  <2>4. e.item.kind \in {"type", "field"}
    <3>1. ~Has(e, 4) => MethodCount(e) = 0
      BY Absent
    <3>2. Has(e, 4) => e.item.kind \in {"type", "field"}
      BY DEF Has
    <3> QED BY <1>1, <1>3, <3>1, <3>2
  <2>5. f.item.kind = e.item.kind
    BY <2>1, SameKind
  <2>6. KidsRead(t, e, Kept(f, kid), MethodKids(e, i + 1))
    <3>1. CASE e.item.kind = "type"
      <4>1. MethodKids(e, i) = KidsBeforeMethods(e) + i
            /\ MethodKids(e, i + 1) = KidsBeforeMethods(e) + (i + 1)
        BY <3>1 DEF MethodKids, Width
      <4>2. k \in Nat /\ k + 1 = KidsBeforeMethods(e) + (i + 1)
        BY <1>1, <4>1
      <4> HIDE DEF k
      <4>3. kid = e.item.kids[k + 1]
        BY <2>3, <3>1, <4>2
      <4>4. KidsRead(t, e, Append(f.item.kids, kid), k + 1)
        BY <2>1, <4>2, <4>3, Grown
      <4>5. Kept(f, kid) = Append(f.item.kids, kid)
        BY <2>5, <3>1 DEF Kept
      <4> QED BY <4>1, <4>2, <4>4, <4>5
    <3>2. CASE e.item.kind = "field"
      <4>1. MethodKids(e, i) = MethodKids(e, i + 1)
        BY <3>2 DEF MethodKids, Width
      <4>2. Kept(f, kid) = f.item.kids
        BY <2>3, <2>5, <3>2 DEF Kept
      <4> QED BY <2>1, <4>1, <4>2
    <3> QED BY <2>4, <3>1, <3>2
  <2>7. /\ Within(t, g, e, e.methods[(i + 1) + 1], ToMethod(e, i + 1), MethodKids(e, i + 1))
        /\ g.end = f.end
    <3> DEFINE kept == Kept(f, kid)
               p == e.methods[(i + 1) + 1]
               todo == ToMethod(e, i + 1)
               n == MethodKids(e, i + 1)
    <3>1. Within(t, f, e, p, todo, k) /\ KidsRead(t, e, kept, n)
      BY <2>1, <2>6
    <3> HIDE DEF kept, p, todo, n
    <3>2. /\ Within(t, [f EXCEPT !.item.kids = kept], e, p, todo, n)
          /\ [f EXCEPT !.item.kids = kept].end = f.end
      BY <3>1, Refilled
    <3> QED BY <3>2 DEF kept, p, todo, n
  <2> HIDE DEF g
  <2>8. AtMethod(t, g, e, i + 1, MethodKids(e, i + 1))
    BY <2>2, <2>7 DEF AtMethod
  <2> QED BY <2>2, <2>7, <2>8 DEF Reads
<1> QED BY <1>2, <1>3 DEF Opened

(* The frame of a table, once an entry of it is read.                           *)
LEMMA TableResumed ==
  ASSUME NEW t, NEW kind, NEW f, IsFrame(f), NEW r \in Nat, AtRow(t, kind, f, r + 1, r),
         NEW kid, t.rows[r + 1] \in DOMAIN t.entry => Decoded(t, kid, t.entry[t.rows[r + 1]])
  PROVE  /\ AtRow(t, kind, [f EXCEPT !.item.kids = Kept(f, kid)], r + 1, r + 1)
         /\ [f EXCEPT !.item.kids = Kept(f, kid)].end = f.end
<1> DEFINE g == [f EXCEPT !.item.kids = Kept(f, kid)]
           old == f.item.kids
<1>1. f = [item |-> f.item, ptr |-> f.ptr, end |-> f.end, todo |-> f.todo]
  BY DEF IsFrame
<1>2. /\ r + 1 \in 0 .. Len(t.rows) - 1
      /\ f.ptr = t.rows[(r + 1) + 1] /\ f.todo = Goal(kind, 1)
      /\ f.item = [NewItem("table") EXCEPT !.kids = old] /\ RowsRead(t, old, r)
  BY DEF AtRow
<1> HIDE DEF old
<1>3. f.item.kind = "table" /\ f.item.kids = old
  BY <1>2 DEF NewItem
<1>4. Kept(f, kid) = Append(old, kid)
  BY <1>3 DEF Kept
<1>5. /\ g.ptr = f.ptr /\ g.todo = f.todo /\ g.end = f.end
      /\ g.item = [f.item EXCEPT !.kids = Append(old, kid)]
  BY <1>1, <1>4
<1> HIDE DEF g
<1>6. /\ g.item = [NewItem("table") EXCEPT !.kids = Append(old, kid)]
      /\ g.item.kids = Append(old, kid)
  BY <1>2, <1>5 DEF NewItem
<1>7. RowsRead(t, Append(old, kid), r + 1)
  <2>1. IsSeq(old) /\ Len(old) = r
    BY <1>2 DEF RowsRead
  <2> DEFINE u == Append(old, kid)
  <2>2. IsSeq(u) /\ Len(u) = r + 1 /\ u[r + 1] = kid /\ \A j \in 1 .. r : u[j] = old[j]
    BY <2>1, Appended
  <2> HIDE DEF u
  <2>3. ASSUME NEW j \in 1 .. r + 1
        PROVE  t.rows[j] \notin DOMAIN t.entry \/ Decoded(t, u[j], t.entry[t.rows[j]])
    <3>1. CASE j = r + 1
      BY <2>2, <3>1
    <3>2. CASE j # r + 1
      <4>1. j \in 1 .. r
        BY <3>2
      <4> QED BY <1>2, <2>2, <4>1 DEF RowsRead
    <3> QED BY <3>1, <3>2
  <2> QED BY <2>2, <2>3 DEF RowsRead, u
<1>8. AtRow(t, kind, g, r + 1, r + 1)
  BY <1>2, <1>5, <1>6, <1>7 DEF AtRow
<1> QED BY <1>5, <1>8 DEF g

(* What the item of an entry is when nothing of it is left to read.             *)
LEMMA AllRead ==
  ASSUME NEW t, NEW e, Clean(t, e), Top.todo = <<>>
  PROVE  Decoded(t, Top.item, e)
<1>1. AtEnum(t, Top, e, EnumCount(e))
  BY NextPart DEF Clean
<1> QED BY <1>1 DEF AtEnum, Within, Stands, Decoded

(* An entry in another is none of a table.                                      *)
LEMMA Inside ==
  ASSUME NEW t, NEW e, Stood(t, e), NEW f, NEW z \in DOMAIN t.entry, Opened(t, f, e, z)
  PROVE  t.entry[z].item.kind # "type"
<1>1. InnerCount(e) \in Nat /\ MethodCount(e) \in Nat
  BY EntryFacts
<1>2. ASSUME NEW i \in Nat, i < InnerCount(e), e.inner[i + 1] = z
      PROVE  t.entry[z].item.kind # "type"
  <2>1. i + 1 \in 1 .. InnerCount(e)
    BY <1>1, <1>2
  <2>2. t.entry[z].item.kind = InnerKind(e.item.kind)
    BY <1>2, <2>1 DEF Stood, EntryWritten, InnerWritten
  <2> QED BY <2>2 DEF InnerKind
<1>3. ASSUME NEW i \in Nat, i < MethodCount(e), e.methods[i + 1] = z
      PROVE  t.entry[z].item.kind # "type"
  <2>1. i + 1 \in 1 .. MethodCount(e)
    BY <1>1, <1>3
  <2>2. t.entry[z].item.kind = "method"
    BY <1>3, <2>1 DEF Stood, EntryWritten, MethodsWritten
  <2> QED BY <2>2
<1> QED BY <1>2, <1>3 DEF Opened

(* What waits for an entry goes on behind it.                                   *)
LEMMA Reopened ==
  ASSUME NEW t, NEW kind, Known(t, kind), NEW f, IsFrame(f),
         NEW table, NEW size, NEW slack, NEW y, NEW z, Open(t, kind, f, table, size, slack, y, z),
         NEW kid, z \in DOMAIN t.entry => Decoded(t, kid, t.entry[z])
  PROVE  Shut(t, kind, [f EXCEPT !.item.kids = Kept(f, kid)], table, size, slack, y)
<1> DEFINE g == [f EXCEPT !.item.kids = Kept(f, kid)]
<1>1. CASE table
  <2>1. f.end = size
    BY <1>1 DEF Open
  <2>2. PICK r \in Nat : t.rows[r + 1] = z /\ AtRow(t, kind, f, r + 1, r)
    BY <1>1 DEF Open
  <2>3. AtRow(t, kind, g, r + 1, r + 1) /\ g.end = f.end
    BY <2>2, TableResumed
  <2> HIDE DEF g
  <2>4. r + 1 \in Nat
    OBVIOUS
  <2>5. Shut(t, kind, g, table, size, slack, y)
    BY <1>1, <2>1, <2>3, <2>4 DEF Shut
  <2> QED BY <2>5 DEF g
<1>2. CASE ~table
  <2>1. y \in DOMAIN t.entry /\ Opened(t, f, t.entry[y], z) /\ Ends(f, t.entry[y], slack)
    BY <1>2 DEF Open
  <2>2. Stood(t, t.entry[y])
    BY <2>1 DEF Known, Stood
  <2>3. z \in DOMAIN t.entry => kid = t.entry[z].item
    <3> SUFFICES ASSUME z \in DOMAIN t.entry PROVE kid = t.entry[z].item
      OBVIOUS
    <3>1. Stood(t, t.entry[z])
      BY DEF Known, Stood
    <3>2. t.entry[z].item.kind # "type"
      BY <2>1, <2>2, Inside
    <3> QED BY <3>1, <3>2, ExactInside
  <2>4. Reads(t, g, t.entry[y]) /\ g.end = f.end
    BY <2>1, <2>2, <2>3, Resumed
  <2> HIDE DEF g
  <2>5. Shut(t, kind, g, table, size, slack, y)
    BY <1>2, <2>1, <2>4 DEF Shut, Ends
  <2> QED BY <2>5 DEF g
<1> QED BY <1>1, <1>2

(* An entry is left, known or not: the frame below is where the entry ends      *)
(* (LeaveEntry).                                                                *)
LEMMA ChainLeft ==
  ASSUME NEW t, NEW kind, NEW bulk, NEW size, NEW slack, NEW x, NEW h,
         TInv, IsBeginning(data, t.whole), Known(t, kind),
         Chain(t, kind, stack, bulk, size, slack, h, x), LeaveEntry
  PROVE  \E k : Chain(t, kind, stack', bulk, size, slack, k, x)
<1> DEFINE n == Len(stack)
           m == Len(stack) - 1
           outer == stack[m]
           f == [outer EXCEPT !.item.kids = Kept(outer, Top.item)]
<1>1. n \in Nat /\ n > 1 /\ m \in Nat /\ m >= 1 /\ n = m + 1 /\ m # n /\ n - 2 = m - 1
  <2>1. IsSeq(stack)
    BY DEF TInv, IsStack, IsSeq
  <2>2. Len(stack) \in Nat
    BY <2>1 DEF IsSeq
  <2>3. Len(stack) > 1
    BY DEF LeaveEntry
  <2> QED BY <2>2, <2>3
<1>2. Reading /\ Top.todo = <<>> /\ stack' = Append(SubSeq(stack, 1, n - 2), f)
  BY DEF LeaveEntry, Kept
<1>0. IsFrame(outer) /\ n = Len(stack)
  <2> HIDE DEF n, m
  <2>1. m \in 1 .. n
    BY <1>1
  <2> QED BY <2>1 DEF TInv, IsStack, n
<1> HIDE DEF f
<1>3. Len(stack') = m /\ stack'[m] = f /\ \A i \in 1 .. m - 1 : stack'[i] = stack[i]
  <2>1. /\ Len(stack') = n - 1 /\ stack'[n - 1] = f
        /\ \A i \in 1 .. n - 2 : stack'[i] = stack[i]
    <3>1. IsSeq(stack)
      BY DEF TInv, IsStack, IsSeq
    <3> QED BY <1>1, <1>2, <3>1, Lowered
  <2> QED BY <1>1, <2>1
<1>4. h \in 0 .. n
  BY DEF Chain
<1> HIDE DEF n, m, outer
<1>5. CASE h < m
  <2>1. \A i \in 1 .. h : i \in 1 .. m - 1
    BY <1>1, <1>4, <1>5
  <2>2. n \in Nat /\ h < n /\ Len(stack') \in Nat /\ h < Len(stack')
    BY <1>1, <1>3, <1>4, <1>5
  <2>3. Chain(t, kind, stack', bulk, size, slack, h, x)
    BY <1>0, <1>3, <2>1, <2>2, ChainAbove
  <2> QED BY <2>3
<1>6. CASE h = m \/ h = n
  <2>1. m \in 1 .. h
    BY <1>1, <1>4, <1>6
  <2>2. Open(t, kind, outer, bulk /\ m = 1, size, slack /\ m = 1, x[m], x[m + 1])
    BY <1>0, <1>1, <2>1 DEF Chain, outer
  <2>3. x[m + 1] \in DOMAIN t.entry => Decoded(t, Top.item, t.entry[x[m + 1]])
    <3>1. CASE h = m
      <4>1. h < Len(stack) /\ h + 1 = m + 1
        BY <1>0, <1>1, <3>1
      <4> QED BY <4>1 DEF Chain
    <3>2. CASE h = n
      <4>1. Chain(t, kind, stack, bulk, size, slack, Len(stack), x) /\ Len(stack) # 1
        BY <1>0, <1>1, <3>2
      <4>2. Clean(t, t.entry[x[n]])
        BY <1>0, <1>2, <4>1, ChainTop
      <4> QED BY <1>1, <1>2, <4>2, AllRead
    <3> QED BY <1>6, <3>1, <3>2
  <2>5. Shut(t, kind, f, bulk /\ m = 1, size, slack /\ m = 1, x[m])
    BY <1>0, <2>2, <2>3, Reopened DEF f
  <2>6. /\ x \in [Nat -> Nat] /\ x[1] = 0
        /\ \A i \in 1 .. m - 1 :
             Open(t, kind, stack[i], bulk /\ i = 1, size, slack /\ i = 1, x[i], x[i + 1])
    <3>1. \A i \in 1 .. m - 1 : i \in 1 .. h /\ i # n
      BY <1>1, <1>4, <2>1
    <3> QED BY <1>0, <3>1 DEF Chain
  <2>7. ASSUME NEW i \in 1 .. m
        PROVE  IF i = m
               THEN Shut(t, kind, stack'[i], bulk /\ i = 1, size, slack /\ i = 1, x[i])
               ELSE Open(t, kind, stack'[i], bulk /\ i = 1, size, slack /\ i = 1, x[i], x[i + 1])
    <3>1. CASE i = m
      BY <1>3, <2>5, <3>1
    <3>2. CASE i # m
      <4>1. i \in 1 .. m - 1
        BY <1>1, <3>2
      <4> QED BY <1>3, <2>6, <3>2, <4>1
    <3> QED BY <3>1, <3>2
  <2>8. m \in 0 .. m /\ m >= 1 /\ ~(m < m)
    BY <1>1
  <2>9. Chain(t, kind, stack', bulk, size, slack, m, x)
    BY <1>3, <2>6, <2>7, <2>8 DEF Chain
  <2> QED BY <2>9
<1> QED BY <1>1, <1>4, <1>5, <1>6

--------------------------------------------------------------------------------
(* Entering an entry. *)

(* Its size says where its slice ends, if that is all there.                    *)
LEMMA Sized ==
  ASSUME NEW t, t.whole \in Seq(Nat), TInv, IsBeginning(data, t.whole),
         NEW z \in Nat, NEW y \in Nat, SizeWritten(t, z, y),
         Top.ptr = z, NEW w, EnterEntry(w)
  PROVE  /\ t.whole[z + 1] \in Nat /\ t.whole[z + 1] > 0 /\ z + t.whole[z + 1] = y
         /\ \/ (Fail("error") \/ Fail("panic")) /\ Left < t.whole[z + 1]
            \/ /\ stack' = Append(Append(Outer, Past(t.whole[z + 1], OneLess, Top.item)),
                                  Frame(w, z + 1, z + t.whole[z + 1], Goal("header", 1)))
               /\ UNCHANGED <<upload, data, pc, types, symbols>>
<1> DEFINE n == t.whole[z + 1]
<1>1. n \in Nat /\ n > 0 /\ y = z + n
  <2>1. z + 1 \in 1 .. Len(t.whole)
    BY DEF SizeWritten
  <2> QED BY <2>1 DEF SizeWritten
<1>2. /\ Len(stack) > 0 /\ Top.end \in Nat /\ Top.ptr <= Top.end /\ Top.end <= Len(data)
      /\ Left = Top.end - Top.ptr
  BY AtTop DEF EnterEntry, At, TInv
<1>3. Left \in Nat
  BY <1>2
<1>4. CASE Left < 1
  <2>1. Fail("error")
    BY <1>3, <1>4 DEF EnterEntry
  <2>2. Left < n
    BY <1>1, <1>3, <1>4
  <2> QED BY <1>1, <2>1, <2>2
<1>5. CASE ~(Left < 1)
  <2>1. Item(1) = n
    <3>1. Top.ptr + 1 \in 1 .. Len(data)
      BY <1>2, <1>5
    <3> QED BY <3>1 DEF Item, IsBeginning
  <2>2. CASE n > Left
    <3>1. ~(n < 1) /\ Left >= 1
      BY <1>1, <1>3, <1>5
    <3>2. Fail("panic")
      BY <2>1, <2>2, <3>1 DEF EnterEntry
    <3>3. Left < n
      BY <1>1, <1>3, <2>2
    <3> QED BY <1>1, <3>2, <3>3
  <2>3. CASE ~(n > Left)
    <3>1. ~(n < 1) /\ ~(Left < 1)
      BY <1>1, <1>5
    <3>2. /\ stack' = Append(Append(Outer, Past(n, OneLess, Top.item)),
                             Frame(w, z + 1, z + n, Goal("header", 1)))
          /\ UNCHANGED <<upload, data, pc, types, symbols>>
      BY <2>1, <2>3, <3>1 DEF EnterEntry
    <3> QED BY <1>1, <3>2
  <2> QED BY <2>2, <2>3
<1> QED BY <1>4, <1>5

(* A known entry waits for one it holds, or the slice is too short for that.    *)
EntersAt(t, w, z) ==
  /\ stack' = Append(Append(Outer, Past(t.whole[z + 1], OneLess, Top.item)),
                     Frame(w, z + 1, z + t.whole[z + 1], Goal("header", 1)))
  /\ UNCHANGED <<upload, data, pc, types, symbols>>
  /\ z \in DOMAIN t.entry => t.entry[z].item.kind = w

(* From an entry that is known, a step into one it holds.                       *)
LEMMA EnterInside ==
  ASSUME NEW t, NEW e, Clean(t, e), NEW w \in Entries, EnterEntry(w)
  PROVE  \/ Fails(e)
         \/ \E z \in Nat : /\ EntersAt(t, w, z)
                           /\ Opened(t, Past(t.whole[z + 1], OneLess, Top.item), e, z)
<1>1. AtPart(t, Top, e, w)
  BY CleanPart DEF EnterEntry
<1>2. TInv /\ IsBeginning(data, t.whole) /\ t.whole \in Seq(Nat)
  BY DEF Clean, Stood
<1>3. /\ InnerCount(e) \in Nat /\ MethodCount(e) \in Nat /\ EndAt(e) \in Nat
      /\ \A i \in 1 .. InnerCount(e) + 1 : e.inner[i] \in Nat /\ e.inner[i] <= EndAt(e)
      /\ \A i \in 1 .. MethodCount(e) + 1 : e.methods[i] \in Nat /\ e.methods[i] <= EndAt(e)
  BY EntryFacts DEF Clean
<1>4. Top.item.kind # "table"
  BY CleanTop
<1>5. ASSUME w \in {"field", "parameter"}
      PROVE  \/ Fails(e)
             \/ \E z \in Nat : /\ EntersAt(t, w, z)
                               /\ Opened(t, Past(t.whole[z + 1], OneLess, Top.item), e, z)
  <2>1. w = InnerKind(e.item.kind)
    BY <1>1, <1>5 DEF AtPart
  <2>2. PICK i \in Nat : i < InnerCount(e) /\ AtInner(t, Top, e, i, i)
    BY <1>1, <1>5 DEF AtPart
  <2> DEFINE z == e.inner[i + 1]
             y == e.inner[(i + 1) + 1]
             n == t.whole[z + 1]
             todo == ToInner(e, i + 1)
  <2>3. /\ i + 1 \in 1 .. InnerCount(e) /\ i + 1 \in 0 .. InnerCount(e)
        /\ i + 1 \in 1 .. InnerCount(e) + 1 /\ (i + 1) + 1 \in 1 .. InnerCount(e) + 1
    BY <1>3, <2>2
  <2>4. z \in Nat /\ y \in Nat /\ y <= EndAt(e)
    BY <1>3, <2>3
  <2>5. /\ SizeWritten(t, z, y)
        /\ z \in DOMAIN t.entry => t.entry[z].item.kind = w
    BY <2>1, <2>3 DEF Clean, Stood, EntryWritten, InnerWritten
  <2>6. Within(t, Top, e, z, ToInner(e, i), i) /\ Top.ptr = z /\ Top.todo = ToInner(e, i)
    BY <2>2 DEF AtInner, Within, Stands
  <2>7. OneLess = todo
    <3>1. ToGuid(e) \in Seq(Goals)
      BY Todos DEF Clean
    <3> QED BY <1>3, <1>4, <2>2, <2>6, <3>1, OneOf DEF ToInner
  <2>8. \/ (Fail("error") \/ Fail("panic")) /\ Left < n
        \/ EntersAt(t, w, z)
    BY <1>2, <2>4, <2>5, <2>6, Sized DEF EntersAt
  <2>9. n \in Nat /\ z + n = y
    BY <1>2, <2>4, <2>5, <2>6, Sized
  <2>10. ASSUME (Fail("error") \/ Fail("panic")) /\ Left < n PROVE Fails(e)
    <3>1. Top.ptr + n <= EndAt(e)
      BY <2>4, <2>6, <2>9
    <3> HIDE DEF n
    <3> QED BY <2>9, <2>10, <3>1, Short DEF Fails
  <2>11. Opened(t, Past(n, OneLess, Top.item), e, z)
    <3> HIDE DEF n, z, y, todo
    <3>1. Within(t, Past(n, todo, Top.item), e, y, todo, i)
      BY <2>6, <2>9, Onward
    <3>2. AtInner(t, Past(n, OneLess, Top.item), e, i + 1, i)
      BY <2>3, <2>7, <3>1 DEF AtInner, y, todo
    <3> QED BY <2>2, <3>2 DEF Opened, z
  <2> QED BY <2>4, <2>8, <2>10, <2>11
<1>6. ASSUME w = "method"
      PROVE  \/ Fails(e)
             \/ \E z \in Nat : /\ EntersAt(t, w, z)
                               /\ Opened(t, Past(t.whole[z + 1], OneLess, Top.item), e, z)
  <2>2. PICK i \in Nat : i < MethodCount(e) /\ AtMethod(t, Top, e, i, MethodKids(e, i))
    BY <1>1, <1>6 DEF AtPart
  <2> DEFINE z == e.methods[i + 1]
             y == e.methods[(i + 1) + 1]
             n == t.whole[z + 1]
             todo == ToMethod(e, i + 1)
             k == MethodKids(e, i)
  <2>3. /\ i + 1 \in 1 .. MethodCount(e) /\ i + 1 \in 0 .. MethodCount(e)
        /\ i + 1 \in 1 .. MethodCount(e) + 1 /\ (i + 1) + 1 \in 1 .. MethodCount(e) + 1
    BY <1>3, <2>2
  <2>4. z \in Nat /\ y \in Nat /\ y <= EndAt(e)
    BY <1>3, <2>3
  <2>5. /\ SizeWritten(t, z, y)
        /\ t.entry[z].item.kind = w
    BY <1>6, <2>3 DEF Clean, Stood, EntryWritten, MethodsWritten
  <2>6. Within(t, Top, e, z, ToMethod(e, i), k) /\ Top.ptr = z /\ Top.todo = ToMethod(e, i)
    BY <2>2 DEF AtMethod, Within, Stands
  <2>7. OneLess = todo
    <3>1. ToAttributes(e) \in Seq(Goals)
      BY Todos DEF Clean
    <3> QED BY <1>3, <1>4, <2>2, <2>6, <3>1, OneOf DEF ToMethod
  <2>8. \/ (Fail("error") \/ Fail("panic")) /\ Left < n
        \/ EntersAt(t, w, z)
    BY <1>2, <2>4, <2>5, <2>6, Sized DEF EntersAt
  <2>9. n \in Nat /\ z + n = y
    BY <1>2, <2>4, <2>5, <2>6, Sized
  <2>10. ASSUME (Fail("error") \/ Fail("panic")) /\ Left < n PROVE Fails(e)
    <3>1. Top.ptr + n <= EndAt(e)
      BY <2>4, <2>6, <2>9
    <3> HIDE DEF n
    <3> QED BY <2>9, <2>10, <3>1, Short DEF Fails
  <2>11. Opened(t, Past(n, OneLess, Top.item), e, z)
    <3> HIDE DEF n, z, y, todo, k
    <3>1. Within(t, Past(n, todo, Top.item), e, y, todo, k)
      BY <2>6, <2>9, Onward
    <3>2. AtMethod(t, Past(n, OneLess, Top.item), e, i + 1, MethodKids(e, i))
      BY <2>3, <2>7, <3>1 DEF AtMethod, y, todo, k
    <3> QED BY <2>2, <3>2 DEF Opened, z
  <2> QED BY <2>4, <2>8, <2>10, <2>11
<1>7. w \notin {"type", "symbol"}
  BY <1>1 DEF AtPart
<1> QED BY <1>5, <1>6, <1>7 DEF Entries

(* The frame of a table waits for the next entry, or the table is cut.          *)
LEMMA EnterRow ==
  ASSUME NEW t, NEW kind, Known(t, kind), TInv, IsBeginning(data, t.whole),
         NEW r \in Nat, AtRow(t, kind, Top, r, r), NEW w, EnterEntry(w)
  PROVE  \/ (Fail("error") \/ Fail("panic")) /\ Top.end # Len(t.whole)
         \/ \E z \in Nat : /\ EntersAt(t, w, z) /\ r < Len(t.rows) - 1 /\ t.rows[r + 1] = z
                           /\ AtRow(t, kind, Past(t.whole[z + 1], OneLess, Top.item), r + 1, r)
<1>1. /\ t.whole \in Seq(Nat) /\ t.rows \in Seq(Nat) /\ Len(t.whole) \in Nat
      /\ Len(t.rows) \in Nat /\ t.rows[Len(t.rows)] = Len(t.whole)
      /\ Len(data) <= Len(t.whole)
  BY DEF Known, IsBeginning
<1>2. /\ Top.ptr \in Nat /\ Top.end \in Nat /\ Top.ptr <= Top.end /\ Top.end <= Len(data)
      /\ Len(data) \in Nat /\ Left = Top.end - Top.ptr
  BY AtTop DEF EnterEntry, At, TInv
<1>3. /\ r \in 0 .. Len(t.rows) - 1 /\ Top.ptr = t.rows[r + 1] /\ Top.todo = Goal(kind, 1)
      /\ Top.item = [NewItem("table") EXCEPT !.kids = Top.item.kids]
      /\ RowsRead(t, Top.item.kids, r)
  BY DEF AtRow
<1>4. Top.item.kind = "table"
  BY <1>3 DEF NewItem
<1>5. w = kind
  BY <1>3 DEF EnterEntry, At, Ahead, Goal
<1>6. Left # 0
  BY <1>4 DEF EnterEntry
<1>7. r < Len(t.rows) - 1
  <2>1. ASSUME r = Len(t.rows) - 1 PROVE FALSE
    <3>1. r + 1 = Len(t.rows)
      BY <1>1, <2>1
    <3>2. Top.ptr = Len(t.whole)
      BY <1>1, <1>3, <3>1
    <3> QED BY <1>1, <1>2, <1>6, <3>2
  <2> QED BY <1>1, <1>3, <2>1
<1> DEFINE z == t.rows[r + 1]
           y == t.rows[(r + 1) + 1]
           n == t.whole[z + 1]
<1>8. r + 1 \in 1 .. Len(t.rows) - 1 /\ r + 1 \in 0 .. Len(t.rows) - 1
  BY <1>1, <1>7
<1>9. /\ SizeWritten(t, z, y)
      /\ z \in DOMAIN t.entry => t.entry[z].item.kind = w
  BY <1>5, <1>8 DEF Known
<1>10. z \in Nat /\ y \in Nat /\ y <= Len(t.whole)
  <2>1. r + 1 \in 1 .. Len(t.rows) /\ (r + 1) + 1 \in 1 .. Len(t.rows)
    BY <1>1, <1>8
  <2>2. z \in Nat /\ y \in Nat
    BY <1>1, <2>1
  <2>3. CASE (r + 1) + 1 = Len(t.rows)
    BY <1>1, <2>2, <2>3
  <2>4. CASE (r + 1) + 1 # Len(t.rows)
    <3>1. (r + 1) + 1 \in 1 .. Len(t.rows) - 1
      BY <1>1, <2>1, <2>4
    <3>2. y < Len(t.whole)
      BY <3>1 DEF Known, SizeWritten
    <3> QED BY <1>1, <2>2, <3>2
  <2> QED BY <2>3, <2>4
<1>11. /\ \/ (Fail("error") \/ Fail("panic")) /\ Left < n
          \/ EntersAt(t, w, z)
       /\ n \in Nat /\ z + n = y
  <2>1. Top.ptr = z
    BY <1>3
  <2> HIDE DEF z, y
  <2>2. /\ n \in Nat /\ z + n = y
        /\ \/ (Fail("error") \/ Fail("panic")) /\ Left < n
           \/ /\ stack' = Append(Append(Outer, Past(n, OneLess, Top.item)),
                                 Frame(w, z + 1, z + n, Goal("header", 1)))
              /\ UNCHANGED <<upload, data, pc, types, symbols>>
    BY <1>1, <1>9, <1>10, <2>1, Sized
  <2> QED BY <1>9, <2>2 DEF EntersAt
<1>12. n \in Nat /\ z + n = y
  BY <1>11
<1>13. Left < n => Top.end # Len(t.whole)
  <2> HIDE DEF n, z
  <2>1. Top.ptr = z
    BY <1>3 DEF z
  <2> QED BY <1>1, <1>2, <1>10, <1>12, <2>1
<1>14. OneLess = Goal(kind, 1)
  BY <1>3, <1>4 DEF OneLess
<1>15. AtRow(t, kind, Past(n, OneLess, Top.item), r + 1, r)
  <2> DEFINE f == Past(n, OneLess, Top.item)
  <2>1. f.ptr = y /\ f.todo = Goal(kind, 1) /\ f.item = Top.item
    BY <1>3, <1>12, <1>14 DEF Past
  <2> HIDE DEF f
  <2>2. AtRow(t, kind, f, r + 1, r)
    BY <1>3, <1>8, <2>1 DEF AtRow
  <2> QED BY <2>2 DEF f
<1> QED BY <1>7, <1>10, <1>11, <1>13, <1>15

(* Every step of the walk goes from frames that read known entries to such, or  *)
(* fails, and this only where a slice is not all there or something unknown is  *)
(* read.                                                                        *)
GoesOn(t, kind, bulk, size, slack) ==
  /\ \E h, x : Chain(t, kind, stack', bulk, size, slack, h, x)
  /\ UNCHANGED <<upload, data, pc, types, symbols>>
GivesUp(t, size, slack, h) ==
  /\ Fail("error") \/ Fail("panic")
  /\ h # Len(stack) \/ slack \/ size # Len(t.whole)

(* An entry is entered, or the table or answer ends before it does              *)
(* (EnterEntry).                                                                *)
LEMMA ChainEntered ==
  ASSUME NEW t, NEW kind, NEW bulk, NEW size, NEW slack, NEW x,
         TInv, IsBeginning(data, t.whole), Known(t, kind),
         Chain(t, kind, stack, bulk, size, slack, Len(stack), x),
         NEW w \in Entries, EnterEntry(w)
  PROVE  GoesOn(t, kind, bulk, size, slack) \/ GivesUp(t, size, slack, Len(stack))
<1> DEFINE n == Len(stack)
<1>1. Reading /\ n \in Nat /\ n > 0 /\ n \in 1 .. n
  BY DEF EnterEntry, At, TInv, IsStack
<1>2. Shut(t, kind, Top, bulk /\ n = 1, size, slack /\ n = 1, x[n])
  BY <1>1 DEF Chain, Top
<1>3. ASSUME NEW z \in Nat, EntersAt(t, w, z),
             Open(t, kind, Past(t.whole[z + 1], OneLess, Top.item),
                  bulk /\ n = 1, size, slack /\ n = 1, x[n], z)
      PROVE  GoesOn(t, kind, bulk, size, slack)
  <2> DEFINE f == Past(t.whole[z + 1], OneLess, Top.item)
             g == Frame(w, z + 1, z + t.whole[z + 1], Goal("header", 1))
  <2>1. stack' = Append(Append(Outer, f), g)
    BY <1>3 DEF EntersAt
  <2>2. ASSUME z \in DOMAIN t.entry
        PROVE  AtHeader(g, t.entry[z]) /\ g.end = t.entry[z].end
    <3>1. t.entry[z].at = z /\ Stood(t, t.entry[z]) /\ t.entry[z].item.kind = w
      BY <1>3, <2>2 DEF Known, Stood, EntersAt
    <3>2. t.entry[z].end = z + t.whole[z + 1]
      BY <3>1, EntryFacts
    <3> QED BY <3>1, <3>2 DEF AtHeader, Stands, Frame
  <2>3. Open(t, kind, f, bulk /\ n = 1, size, slack /\ n = 1, x[n], z)
    BY <1>3
  <2> HIDE DEF f, g
  <2>4. \E h, y : Chain(t, kind, stack', bulk, size, slack, h, y)
    BY <1>1, <2>1, <2>2, <2>3, ChainDeeper
  <2> QED BY <1>3, <2>4 DEF GoesOn, EntersAt
<1>4. CASE bulk /\ n = 1
  <2>1. Top.end = size /\ \E r \in Nat : AtRow(t, kind, Top, r, r)
    BY <1>2, <1>4 DEF Shut
  <2>2. PICK r \in Nat : AtRow(t, kind, Top, r, r)
    BY <2>1
  <2>3. \/ (Fail("error") \/ Fail("panic")) /\ Top.end # Len(t.whole)
        \/ \E z \in Nat : /\ EntersAt(t, w, z) /\ r < Len(t.rows) - 1 /\ t.rows[r + 1] = z
                          /\ AtRow(t, kind, Past(t.whole[z + 1], OneLess, Top.item), r + 1, r)
    BY <2>2, EnterRow
  <2>4. ASSUME NEW z \in Nat, EntersAt(t, w, z), r < Len(t.rows) - 1, t.rows[r + 1] = z,
               AtRow(t, kind, Past(t.whole[z + 1], OneLess, Top.item), r + 1, r)
        PROVE  GoesOn(t, kind, bulk, size, slack)
    <3>1. Past(t.whole[z + 1], OneLess, Top.item).end = size
      BY <2>1 DEF Past
    <3>2. Open(t, kind, Past(t.whole[z + 1], OneLess, Top.item),
               bulk /\ n = 1, size, slack /\ n = 1, x[n], z)
      BY <1>4, <2>4, <3>1 DEF Open
    <3> QED BY <1>3, <2>4, <3>2
  <2> QED BY <2>1, <2>3, <2>4 DEF GivesUp
<1>5. CASE ~(bulk /\ n = 1)
  <2> DEFINE e == t.entry[x[n]]
  <2>1. x[n] \in DOMAIN t.entry /\ Clean(t, e) /\ Ends(Top, e, slack /\ n = 1)
    BY <1>1, <1>5, ChainTop
  <2>2. \/ Fails(e)
        \/ \E z \in Nat : /\ EntersAt(t, w, z)
                          /\ Opened(t, Past(t.whole[z + 1], OneLess, Top.item), e, z)
    BY <2>1, EnterInside
  <2>3. ASSUME NEW z \in Nat, EntersAt(t, w, z),
               Opened(t, Past(t.whole[z + 1], OneLess, Top.item), e, z)
        PROVE  GoesOn(t, kind, bulk, size, slack)
    <3>1. Past(t.whole[z + 1], OneLess, Top.item).end = Top.end
      BY DEF Past
    <3>2. Open(t, kind, Past(t.whole[z + 1], OneLess, Top.item),
               bulk /\ n = 1, size, slack /\ n = 1, x[n], z)
      BY <1>5, <2>1, <2>3, <3>1 DEF Open, Ends
    <3> QED BY <1>3, <2>3, <3>2
  <2>4. ASSUME Fails(e) PROVE GivesUp(t, size, slack, Len(stack))
    BY <2>1, <2>4 DEF Fails, Ends, GivesUp
  <2> QED BY <2>2, <2>3, <2>4
<1> QED BY <1>4, <1>5

(* The steps inside an entry.                                                   *)
Strides ==
  \/ TypeHeader \/ SymbolHeader \/ MethodHeader
  \/ ReadString("name") \/ ReadString("typ") \/ ReadDimension \/ CheckSubItems
  \/ ParseGuid \/ SkipCopyMask
  \/ ReadCount("methods", "method") \/ ReadCount("attributes", "attribute")
  \/ ReadCount("enums", "enum") \/ ParseAttribute \/ ParseEnumInfo

(* Steps within the entry of the last frame.                                    *)
LEMMA Strided ==
  ASSUME Strides
  PROVE  /\ Reading /\ \E w : At(w) /\ w \notin Entries
         /\ \/ Fail("error") \/ Fail("panic")
            \/ \E n, todo, item : Take(n, todo, item)
<1>1. ASSUME NEW w \in {"header", "name", "typ", "dimension", "sub_items", "guid", "mask",
                        "methods", "attributes", "enums", "attribute", "enum"}, At(w)
      PROVE  Reading /\ \E v : At(v) /\ v \notin Entries
  BY <1>1 DEF At, Entries
<1>2. Reading /\ \E w : At(w) /\ w \notin Entries
  BY <1>1 DEF Strides, TypeHeader, SymbolHeader, MethodHeader, ReadString, ReadDimension,
              CheckSubItems, ParseGuid, SkipCopyMask, ReadCount, ParseAttribute, ParseEnumInfo
<1> DEFINE Done == Fail("error") \/ Fail("panic") \/ \E n, todo, item : Take(n, todo, item)
<1> SUFFICES Done
  BY <1>2
<1>0. /\ (Fail("error") => Done) /\ (Fail("panic") => Done)
      /\ \A n, todo, item : Take(n, todo, item) => Done
  OBVIOUS
<1> HIDE DEF Done
<1>3. CASE TypeHeader
  BY <1>0, <1>3 DEF TypeHeader
<1>4. CASE SymbolHeader \/ MethodHeader
  BY <1>0, <1>4 DEF SymbolHeader, MethodHeader
<1>5. ASSUME NEW w, ReadString(w) PROVE Done
  BY <1>0, <1>5 DEF ReadString
<1>6. CASE ReadDimension \/ CheckSubItems \/ ParseGuid \/ SkipCopyMask
  BY <1>0, <1>6 DEF ReadDimension, CheckSubItems, ParseGuid, SkipCopyMask
<1>7. ASSUME NEW list, NEW entry, ReadCount(list, entry) PROVE Done
  BY <1>0, <1>7 DEF ReadCount
<1>8. CASE ParseAttribute
  BY <1>0, <1>8 DEF ParseAttribute
<1>9. CASE ParseEnumInfo
  BY <1>0, <1>9 DEF ParseEnumInfo
<1> QED BY <1>3, <1>4, <1>5, <1>6, <1>7, <1>8, <1>9 DEF Strides

(* All the steps in an entry that is known: on to the next part, or the answer  *)
(* ends before it does.                                                         *)
LEMMA ChainStrides ==
  ASSUME NEW t, NEW kind, NEW bulk, NEW size, NEW slack, NEW x,
         TInv, IsBeginning(data, t.whole), Known(t, kind), kind \in Entries,
         Chain(t, kind, stack, bulk, size, slack, Len(stack), x), Strides
  PROVE  GoesOn(t, kind, bulk, size, slack) \/ GivesUp(t, size, slack, Len(stack))
<1> DEFINE n == Len(stack)
<1>1. Reading /\ n \in Nat /\ n > 0 /\ n \in 1 .. n
  BY Strided DEF TInv, IsStack
<1>2. ~(bulk /\ n = 1)
  <2> SUFFICES ASSUME bulk, n = 1 PROVE FALSE
    OBVIOUS
  <2>1. Shut(t, kind, Top, bulk /\ n = 1, size, slack /\ n = 1, x[n])
    BY <1>1 DEF Chain, Top
  <2>2. Top.todo = Goal(kind, 1)
    BY <2>1 DEF Shut, AtRow
  <2>3. \A w : At(w) => w = kind
    BY <2>2 DEF At, Ahead, Goal
  <2> QED BY <2>3, Strided
<1> DEFINE e == t.entry[x[n]]
<1>3. Clean(t, e) /\ Ends(Top, e, slack /\ n = 1)
  BY <1>1, <1>2, ChainTop
<1>4. Stays(t, e) \/ Fails(e)
  <2> HIDE DEF e
  <2>1. CASE TypeHeader \/ SymbolHeader \/ MethodHeader
    BY <1>3, <2>1, StayTypeHeader, StaySymbolHeader, StayMethodHeader
  <2>2. CASE ReadString("name") \/ ReadString("typ") \/ ReadDimension \/ CheckSubItems
    BY <1>3, <2>2, StayName, StayTyp, StayDimension, StaySubItems
  <2>3. CASE ParseGuid \/ SkipCopyMask \/ ParseAttribute \/ ParseEnumInfo
    BY <1>3, <2>3, StayGuid, StayMask, StayAttribute, StayEnum
  <2>4. CASE \/ ReadCount("methods", "method") \/ ReadCount("attributes", "attribute")
             \/ ReadCount("enums", "enum")
    BY <1>3, <2>4, StayMethods, StayAttributes, StayEnums
  <2> QED BY <2>1, <2>2, <2>3, <2>4 DEF Strides
<1>5. ASSUME Fails(e) PROVE GivesUp(t, size, slack, Len(stack))
  BY <1>3, <1>5 DEF Fails, Ends, GivesUp
<1>6. ASSUME Stays(t, e) PROVE GoesOn(t, kind, bulk, size, slack)
  <2>1. Chain(t, kind, stack', bulk, size, slack, Len(stack'), x)
    BY <1>1, <1>2, <1>6, ChainStays
  <2> QED BY <1>6, <2>1 DEF GoesOn, Stays
<1> QED BY <1>4, <1>5, <1>6

(* All of the walk.                                                             *)
Walk == Strides \/ LeaveEntry \/ \E kind \in Entries : EnterEntry(kind)

(* And all steps, wherever they are: what is read in an entry nothing is known  *)
(* of changes no frame below.                                                   *)
LEMMA Walked ==
  ASSUME NEW t, NEW kind, NEW bulk, NEW size, NEW slack, NEW x, NEW h,
         TInv, IsBeginning(data, t.whole), Known(t, kind), kind \in Entries,
         Chain(t, kind, stack, bulk, size, slack, h, x), Walk
  PROVE  GoesOn(t, kind, bulk, size, slack) \/ GivesUp(t, size, slack, h)
<1>1. CASE LeaveEntry
  <2>1. \E k : Chain(t, kind, stack', bulk, size, slack, k, x)
    BY <1>1, ChainLeft
  <2> QED BY <1>1, <2>1 DEF GoesOn, LeaveEntry
<1>2. CASE h = Len(stack) /\ ~LeaveEntry
  BY <1>2, ChainStrides, ChainEntered DEF Walk
<1>3. CASE h # Len(stack) /\ ~LeaveEntry
  <2>1. CASE Strides
    <3>1. Reading
      BY <2>1, Strided
    <3>2. ASSUME NEW n, NEW todo, NEW item, Take(n, todo, item)
          PROVE  GoesOn(t, kind, bulk, size, slack)
      <4>1. Chain(t, kind, stack', bulk, size, slack, h, x)
        BY <1>3, <3>1, <3>2, ChainLost DEF Take
      <4> QED BY <3>2, <4>1 DEF GoesOn, Take
    <3> QED BY <1>3, <2>1, <3>2, Strided DEF GivesUp
  <2>2. CASE \E w \in Entries : EnterEntry(w)
    <3>1. PICK w \in Entries : EnterEntry(w)
      BY <2>2
    <3>2. Reading
      BY <3>1 DEF EnterEntry, At
    <3>3. \/ Fail("error") \/ Fail("panic")
          \/ /\ \E f, g : stack' = Append(Append(Outer, f), g)
             /\ UNCHANGED <<upload, data, pc, types, symbols>>
      BY <3>1 DEF EnterEntry
    <3>4. ASSUME NEW f, NEW g, stack' = Append(Append(Outer, f), g),
                 UNCHANGED <<upload, data, pc, types, symbols>>
          PROVE  GoesOn(t, kind, bulk, size, slack)
      <4>1. Chain(t, kind, stack', bulk, size, slack, h, x)
        BY <1>3, <3>2, <3>4, ChainLostDeeper
      <4> QED BY <3>4, <4>1 DEF GoesOn
    <3> QED BY <1>3, <3>3, <3>4 DEF GivesUp
  <2> QED BY <1>3, <2>1, <2>2 DEF Walk
<1> QED BY <1>1, <1>2, <1>3

--------------------------------------------------------------------------------
(* Uploads of which something is known. *)

Understood == upload.harm \in {"none", "inside", "cut"}
Bulk == upload.way = "bulk"
TypesTable == IF Bulk THEN upload.types ELSE AnswerOf(upload)
InTypes == LayoutOf[upload].types
InSymbols == LayoutOf[upload].symbols
CutAnswer == upload.harm = "cut" /\ ~Bulk

(* What is known of a table that was written.                                   *)
LEMMA KnownTable ==
  ASSUME NEW t, NEW table, NEW meant, NEW kind, TableWritten(t, table, meant, kind)
  PROVE  Known(t, kind) /\ IsBeginning(table, t.whole)
<1>1. t.rows \in Seq(Nat) /\ t.rows # <<>>
  BY DEF TableWritten
<1>2. (Len(t.rows) - 1) + 1 = Len(t.rows)
  BY <1>1
<1>3. /\ t.whole \in Seq(Nat) /\ IsBeginning(table, t.whole)
      /\ t.rows[1] = 0 /\ t.rows[(Len(t.rows) - 1) + 1] = Len(t.whole)
      /\ \A i \in 1 .. Len(t.rows) - 1 :
           LET x == t.rows[i] IN
             /\ SizeWritten(t, x, t.rows[i + 1])
             /\ x \in DOMAIN t.entry => t.entry[x].item = meant[i] /\ meant[i].kind = kind
      /\ \A x \in DOMAIN t.entry : t.entry[x].at = x /\ EntryWritten(t, t.entry[x])
  BY DEF TableWritten
<1>4. ASSUME NEW i \in 1 .. Len(t.rows) - 1
      PROVE  /\ SizeWritten(t, t.rows[i], t.rows[i + 1])
             /\ t.rows[i] \in DOMAIN t.entry => t.entry[t.rows[i]].item.kind = kind
  BY <1>3
<1> QED BY <1>1, <1>2, <1>3, <1>4 DEF Known

(* So much is known of both tables of an upload.                                *)
LEMMA UploadKnown ==
  ASSUME TInv, Understood
  PROVE  /\ TableWritten(InTypes, TypesTable, upload.meant.types, "type")
         /\ TableWritten(InSymbols, upload.symbols, upload.meant.symbols, "symbol")
         /\ Known(InTypes, "type") /\ IsBeginning(TypesTable, InTypes.whole)
         /\ Known(InSymbols, "symbol") /\ IsBeginning(upload.symbols, InSymbols.whole)
<1>1. Written(upload, LayoutOf[upload])
  BY PLCWrites DEF TInv
<1>2. /\ TableWritten(InTypes, TypesTable, upload.meant.types, "type")
      /\ TableWritten(InSymbols, upload.symbols, upload.meant.symbols, "symbol")
  BY <1>1 DEF Written, Understood, TypesTable, Bulk, InTypes, InSymbols
<1> QED BY <1>2, KnownTable

(* The ways of asking, and the types of what is answered.                       *)
LEMMA WayKnown ==
  ASSUME TInv
  PROVE  /\ upload.way \in {"bulk", "by_name"} /\ (~Bulk => upload.way = "by_name")
         /\ upload.types \in Seq(Nat) /\ upload.symbols \in Seq(Nat) /\ upload.declared \in Nat
BY TableConstants DEF TInv, Bulk

(* How long an answer about one type is.                                        *)
LEMMA AnswerLength ==
  ASSUME TInv
  PROVE  Len(AnswerOf(upload)) = upload.declared /\ AnswerOf(upload) \in Seq(Nat)
<1>1. upload.types \in Seq(Nat) /\ upload.declared \in Nat
  BY WayKnown
<1>2. AnswerOf(upload) \in [1 .. upload.declared -> Nat]
  <2>1. \A i \in 1 .. upload.declared : i <= Len(upload.types) => upload.types[i] \in Nat
    BY <1>1
  <2> QED BY <2>1 DEF AnswerOf
<1> QED BY <1>1, <1>2

--------------------------------------------------------------------------------
(* What is decoded of a table that ends where an entry ends.                    *)
TableRead(t, table, items) ==
  \E r \in 0 .. Len(t.rows) - 1 : t.rows[r + 1] = Len(table) /\ RowsRead(t, items, r)

(* Of a whole table all of it.                                                  *)
LEMMA WholeRead ==
  ASSUME NEW t, NEW kind, Known(t, kind), NEW items, TableRead(t, t.whole, items)
  PROVE  RowsRead(t, items, Len(t.rows) - 1)
<1>1. PICK r \in 0 .. Len(t.rows) - 1 : t.rows[r + 1] = Len(t.whole) /\ RowsRead(t, items, r)
  BY DEF TableRead
<1>2. Len(t.rows) \in Nat /\ Len(t.whole) \in Nat
  BY DEF Known
<1>3. CASE r = Len(t.rows) - 1
  BY <1>1, <1>3
<1>4. CASE r # Len(t.rows) - 1
  <2>1. r + 1 \in 1 .. Len(t.rows) - 1
    BY <1>2, <1>4
  <2>2. t.rows[r + 1] < Len(t.whole)
    BY <2>1 DEF Known, SizeWritten
  <2> QED BY <1>1, <1>2, <2>2
<1> QED BY <1>3, <1>4

(* Rows of entries that are known, as are those they hold, are what was meant.  *)
LEMMA RowMeant ==
  ASSUME NEW t, NEW table, NEW meant, NEW kind, TableWritten(t, table, meant, kind),
         NEW items, RowsRead(t, items, Len(t.rows) - 1),
         NEW i \in 1 .. Len(t.rows) - 1, t.rows[i] \in DOMAIN t.entry,
         \A j \in 1 .. InnerCount(t.entry[t.rows[i]]) :
           t.entry[t.rows[i]].inner[j] \in DOMAIN t.entry
  PROVE  items[i] = meant[i]
<1> DEFINE e == t.entry[t.rows[i]]
<1>1. Stood(t, e) /\ e.item = meant[i]
  BY DEF TableWritten, Stood
<1>2. Decoded(t, items[i], e)
  BY DEF RowsRead
<1> HIDE DEF e
<1>3. \A j \in 1 .. InnerCount(e) : e.inner[j] \in DOMAIN t.entry
  BY DEF e
<1> QED BY <1>1, <1>2, <1>3, Exact

(* How many there are.                                                          *)
LEMMA RowCount ==
  ASSUME NEW t, NEW table, NEW meant, NEW kind, TableWritten(t, table, meant, kind),
         NEW items, RowsRead(t, items, Len(t.rows) - 1)
  PROVE  /\ Len(t.rows) - 1 \in Nat
         /\ Len(items) = Len(t.rows) - 1 /\ Len(meant) = Len(t.rows) - 1
         /\ items = [i \in 1 .. Len(t.rows) - 1 |-> items[i]]
         /\ meant = [i \in 1 .. Len(t.rows) - 1 |-> meant[i]]
<1> DEFINE n == Len(t.rows) - 1
<1>1. t.rows \in Seq(Nat) /\ t.rows # <<>> /\ meant = [i \in 1 .. n |-> meant[i]]
  BY DEF TableWritten
<1>2. n \in Nat
  BY <1>1
<1>3. IsSeq(items) /\ Len(items) = n
  BY DEF RowsRead
<1> HIDE DEF n
<1>4. items = [i \in 1 .. n |-> items[i]]
  BY <1>3 DEF IsSeq
<1>5. Len(meant) = n
  <2>1. [i \in 1 .. n |-> meant[i]] \in Seq({meant[i] : i \in 1 .. n})
    BY <1>2
  <2>2. Len([i \in 1 .. n |-> meant[i]]) = n
    BY <1>2, <2>1
  <2> QED BY <1>1, <2>2
<1> QED BY <1>1, <1>2, <1>3, <1>4, <1>5 DEF n

(* As many items were meant as the table has rows.                              *)
LEMMA MeantCount ==
  ASSUME NEW t, NEW table, NEW meant, NEW kind, TableWritten(t, table, meant, kind)
  PROVE  Len(t.rows) - 1 \in Nat /\ Len(meant) = Len(t.rows) - 1
<1> DEFINE n == Len(t.rows) - 1
<1>1. t.rows \in Seq(Nat) /\ t.rows # <<>> /\ meant = [i \in 1 .. n |-> meant[i]]
  BY DEF TableWritten
<1>2. n \in Nat
  BY <1>1
<1> HIDE DEF n
<1>3. [i \in 1 .. n |-> meant[i]] \in Seq({meant[i] : i \in 1 .. n})
  BY <1>2
<1>4. Len([i \in 1 .. n |-> meant[i]]) = n
  BY <1>2, <1>3
<1> QED BY <1>1, <1>2, <1>4 DEF n

--------------------------------------------------------------------------------
(* The invariant: what the frames read is what was written, and so is what they *)
(* have decoded.                                                                *)

OnTrack(t, kind, bulk, slack) == \E h, x : Chain(t, kind, stack, bulk, Len(data), slack, h, x)

AsWritten ==
  /\ pc = "ask" => ~Bulk
  /\ upload.harm = "none" => pc \notin {"error", "panic"}
  /\ pc # "done" => symbols = <<>>
  /\ pc = "types" => data = TypesTable /\ OnTrack(InTypes, "type", Bulk, CutAnswer)
  /\ pc = "symbols" => /\ Bulk /\ data = upload.symbols
                       /\ TableRead(InTypes, upload.types, types)
                       /\ OnTrack(InSymbols, "symbol", TRUE, FALSE)
  /\ pc = "done" =>
       IF Bulk THEN /\ TableRead(InTypes, upload.types, types)
                    /\ TableRead(InSymbols, upload.symbols, symbols)
       ELSE upload.harm # "cut" /\ RowsRead(InTypes, types, 1) /\ symbols = <<>>

FInv == TInv /\ (Understood => AsWritten)

(* At the end of tables that are whole, every row of them has been read.        *)
LEMMA AllDecoded ==
  ASSUME TInv, AsWritten, Understood, pc = "done", upload.harm # "cut"
  PROVE  /\ RowsRead(InTypes, types, Len(InTypes.rows) - 1)
         /\ RowsRead(InSymbols, symbols, Len(InSymbols.rows) - 1)
<1>1. Written(upload, LayoutOf[upload])
  BY PLCWrites DEF TInv
<1>2. TypesTable = InTypes.whole /\ upload.symbols = InSymbols.whole
  BY <1>1 DEF Written, Understood, TypesTable, Bulk, InTypes, InSymbols
<1>3. /\ TableWritten(InTypes, TypesTable, upload.meant.types, "type")
      /\ TableWritten(InSymbols, upload.symbols, upload.meant.symbols, "symbol")
      /\ Known(InTypes, "type") /\ Known(InSymbols, "symbol")
  BY UploadKnown
<1>4. CASE Bulk
  <2>1. TableRead(InTypes, InTypes.whole, types) /\ TableRead(InSymbols, InSymbols.whole, symbols)
    BY <1>2, <1>4 DEF AsWritten, TypesTable
  <2> QED BY <1>3, <2>1, WholeRead
<1>5. CASE ~Bulk
  <2>1. RowsRead(InTypes, types, 1) /\ symbols = <<>>
    BY <1>5 DEF AsWritten
  <2>2. Len(upload.meant.types) = 1 /\ upload.meant.symbols = <<>>
    BY <1>1, <1>5, WayKnown DEF Written, Understood
  <2>3. Len(InTypes.rows) - 1 = 1 /\ Len(InSymbols.rows) - 1 = 0
    <3>1. Len(upload.meant.symbols) = 0
      BY <2>2
    <3> QED BY <1>3, <2>2, <3>1, MeantCount
  <2>4. RowsRead(InSymbols, <<>>, 0)
    BY DEF RowsRead, IsSeq
  <2> QED BY <2>1, <2>3, <2>4
<1> QED BY <1>4, <1>5

(* Rows that are known, with all they hold, are what was meant.                 *)
LEMMA AsMeant ==
  ASSUME NEW t, NEW table, NEW meant, NEW kind, TableWritten(t, table, meant, kind),
         KnownBut(t, 0, 0), NEW items, RowsRead(t, items, Len(t.rows) - 1)
  PROVE  items = meant
<1> DEFINE n == Len(t.rows) - 1
<1>1. /\ items = [i \in 1 .. n |-> items[i]] /\ meant = [i \in 1 .. n |-> meant[i]]
  BY RowCount
<1>2. ASSUME NEW i \in 1 .. n PROVE items[i] = meant[i]
  <2> DEFINE e == t.entry[t.rows[i]]
  <2>1. i # 0
    BY MeantCount
  <2>2. InnerCount(e) \in Nat
    <3>1. t.rows[i] \in DOMAIN t.entry
      BY <2>1 DEF KnownBut
    <3>2. Stood(t, e)
      BY <3>1 DEF TableWritten, Stood
    <3> QED BY <3>2, EntryFacts
  <2>3. /\ t.rows[i] \in DOMAIN t.entry
        /\ \A j \in 1 .. InnerCount(e) : e.inner[j] \in DOMAIN t.entry
    BY <2>1, <2>2 DEF KnownBut
  <2> QED BY <2>3, RowMeant
<1> HIDE DEF n
<1> QED BY <1>1, <1>2

(* The invariant gives RoundTrip.                                               *)
LEMMA DecodesMeant == FInv => RoundTrip
<1> SUFFICES ASSUME FInv, upload.harm = "none"
             PROVE  /\ pc \notin {"error", "panic"}
                    /\ pc = "done" => types = upload.meant.types /\ symbols = upload.meant.symbols
  BY DEF RoundTrip
<1>1. Understood /\ TInv /\ AsWritten
  BY DEF FInv, Understood
<1>2. pc \notin {"error", "panic"}
  BY <1>1 DEF AsWritten
<1>3. ASSUME pc = "done" PROVE types = upload.meant.types /\ symbols = upload.meant.symbols
  <2>1. KnownBut(InTypes, 0, 0) /\ KnownBut(InSymbols, 0, 0)
    <3>1. Written(upload, LayoutOf[upload])
      BY <1>1, PLCWrites DEF TInv
    <3> QED BY <3>1 DEF Written, InTypes, InSymbols
  <2>2. /\ RowsRead(InTypes, types, Len(InTypes.rows) - 1)
        /\ RowsRead(InSymbols, symbols, Len(InSymbols.rows) - 1)
    BY <1>1, <1>3, AllDecoded
  <2>3. /\ TableWritten(InTypes, TypesTable, upload.meant.types, "type")
        /\ TableWritten(InSymbols, upload.symbols, upload.meant.symbols, "symbol")
    BY <1>1, UploadKnown
  <2>4. types = upload.meant.types
    BY <2>1, <2>2, <2>3, AsMeant
  <2>5. symbols = upload.meant.symbols
    <3> DEFINE meant == upload.meant.symbols
               t == InSymbols
               table == upload.symbols
    <3>1. /\ TableWritten(t, table, meant, "symbol") /\ KnownBut(t, 0, 0)
          /\ RowsRead(t, symbols, Len(t.rows) - 1)
      BY <2>1, <2>2, <2>3
    <3> HIDE DEF meant, t, table
    <3>2. symbols = meant
      BY <3>1, AsMeant
    <3> QED BY <3>2 DEF meant
  <2> QED BY <2>4, <2>5
<1> QED BY <1>2, <1>3

(* Of a table with damage in one entry all the rest is what was meant.          *)
LEMMA AsMeantBut ==
  ASSUME NEW t, NEW table, NEW meant, NEW kind, TableWritten(t, table, meant, kind),
         NEW row, NEW inner, KnownBut(t, row, inner),
         NEW items, RowsRead(t, items, Len(t.rows) - 1)
  PROVE  /\ Len(items) = Len(meant) /\ DOMAIN items = 1 .. Len(t.rows) - 1
         /\ \A i \in DOMAIN items : i # row => items[i] = meant[i]
         /\ inner # 0 =>
              /\ Len(items[row].kids) = Len(meant[row].kids)
              /\ \A j \in DOMAIN items[row].kids :
                   j # inner => items[row].kids[j] = meant[row].kids[j]
<1> DEFINE n == Len(t.rows) - 1
<1>1. /\ Len(items) = Len(meant) /\ items = [i \in 1 .. n |-> items[i]]
  BY RowCount
<1>2. DOMAIN items = 1 .. n
  <2> HIDE DEF n
  <2>1. DOMAIN [i \in 1 .. n |-> items[i]] = 1 .. n
    OBVIOUS
  <2> QED BY <1>1, <2>1
<1>3. ASSUME NEW i \in 1 .. n, i # row PROVE items[i] = meant[i]
  <2>1. /\ t.rows[i] \in DOMAIN t.entry
        /\ \A j \in 1 .. InnerCount(t.entry[t.rows[i]]) :
             t.entry[t.rows[i]].inner[j] \in DOMAIN t.entry
    BY <1>3 DEF KnownBut
  <2> QED BY <2>1, RowMeant
<1>4. ASSUME inner # 0
      PROVE  /\ Len(items[row].kids) = Len(meant[row].kids)
             /\ \A j \in DOMAIN items[row].kids :
                  j # inner => items[row].kids[j] = meant[row].kids[j]
  <2> DEFINE e == t.entry[t.rows[row]]
             kids == items[row].kids
             k == KidsBeforeEnums(e) + EnumCount(e)
  <2>1. row \in 1 .. n
    BY <1>4 DEF KnownBut
  <2>2. t.rows[row] \in DOMAIN t.entry
    BY <1>4, <2>1 DEF KnownBut
  <2>3. \A j \in 1 .. InnerCount(e) : e.inner[j] \in DOMAIN t.entry \/ j = inner
    BY <1>4, <2>1 DEF KnownBut
  <2>4. Stood(t, e) /\ e.item = meant[row]
    BY <2>1, <2>2 DEF TableWritten, Stood
  <2>5. KidsRead(t, e, kids, k)
    BY <2>1, <2>2 DEF RowsRead, Decoded
  <2>6. e.item.kids = [i \in 1 .. k |-> e.item.kids[i]]
    BY <2>4 DEF Stood, EntryWritten
  <2>7. k \in Nat /\ InnerCount(e) \in Nat
    BY <2>4, EntryFacts, KidCounts
  <2> HIDE DEF e, kids, k, n
  <2>8. Len(e.item.kids) = k
    <3>1. [i \in 1 .. k |-> e.item.kids[i]] \in Seq({e.item.kids[i] : i \in 1 .. k})
      BY <2>7
    <3>2. Len([i \in 1 .. k |-> e.item.kids[i]]) = k
      BY <2>7, <3>1
    <3> QED BY <2>6, <3>2
  <2>9. DOMAIN kids = 1 .. k /\ Len(kids) = k
    BY <2>5 DEF KidsRead, IsSeq
  <2>10. ASSUME NEW j \in 1 .. k, j # inner PROVE kids[j] = e.item.kids[j]
    <3>1. LostKid(t, e, j) => j \in 1 .. InnerCount(e)
      BY <2>7 DEF LostKid
    <3>2. ~LostKid(t, e, j)
      BY <2>3, <2>10, <3>1 DEF LostKid
    <3> QED BY <2>5, <3>2 DEF KidsRead
  <2> QED BY <2>4, <2>8, <2>9, <2>10 DEF kids
<1> QED BY <1>1, <1>2, <1>3, <1>4

(* The invariant gives DamageIsContained.                                       *)
LEMMA ContainsDamage == FInv => DamageIsContained
<1> SUFFICES ASSUME FInv, upload.harm = "inside", pc = "done"
             PROVE  DamageIsContained
  BY DEF DamageIsContained
<1>1. Understood /\ TInv /\ AsWritten
  BY DEF FInv, Understood
<1>2. KnownBut(InTypes, upload.entry, upload.field) /\ KnownBut(InSymbols, upload.symbol, 0)
  <2>1. Written(upload, LayoutOf[upload])
    BY <1>1, PLCWrites DEF TInv
  <2> QED BY <2>1 DEF Written, InTypes, InSymbols
<1>3. /\ RowsRead(InTypes, types, Len(InTypes.rows) - 1)
      /\ RowsRead(InSymbols, symbols, Len(InSymbols.rows) - 1)
  BY <1>1, AllDecoded
<1> DEFINE meant == upload.meant
<1>4. /\ TableWritten(InTypes, TypesTable, meant.types, "type")
      /\ TableWritten(InSymbols, upload.symbols, meant.symbols, "symbol")
  BY <1>1, UploadKnown
<1> HIDE DEF meant
<1>5. /\ Len(types) = Len(meant.types)
      /\ \A i \in DOMAIN types : i # upload.entry => types[i] = meant.types[i]
      /\ upload.field # 0 =>
           /\ Len(types[upload.entry].kids) = Len(meant.types[upload.entry].kids)
           /\ \A j \in DOMAIN types[upload.entry].kids : j # upload.field =>
                types[upload.entry].kids[j] = meant.types[upload.entry].kids[j]
  BY <1>2, <1>3, <1>4, AsMeantBut
<1>6. /\ Len(symbols) = Len(meant.symbols)
      /\ \A i \in DOMAIN symbols : i # upload.symbol => symbols[i] = meant.symbols[i]
  BY <1>2, <1>3, <1>4, AsMeantBut
<1> QED BY <1>5, <1>6 DEF DamageIsContained, meant

(* The invariant gives CutIsRefused: no row ends where the table does.          *)
LEMMA RefusesCut == FInv => CutIsRefused
<1> SUFFICES ASSUME FInv, upload.harm = "cut", pc = "done" PROVE FALSE
  BY DEF CutIsRefused
<1>1. Understood /\ TInv /\ AsWritten
  BY DEF FInv, Understood
<1>2. Bulk /\ TableRead(InTypes, upload.types, types) /\ TableRead(InSymbols, upload.symbols, symbols)
  BY <1>1 DEF AsWritten
<1>3. CutShort(InTypes, upload.types) \/ CutShort(InSymbols, upload.symbols)
  <2>1. Written(upload, LayoutOf[upload])
    BY <1>1, PLCWrites DEF TInv
  <2> QED BY <1>2, <2>1 DEF Written, InTypes, InSymbols, Bulk
<1>4. ASSUME NEW t, NEW kind, Known(t, kind), NEW table, NEW items, TableRead(t, table, items)
      PROVE  ~CutShort(t, table)
  <2>1. PICK r \in 0 .. Len(t.rows) - 1 : t.rows[r + 1] = Len(table)
    BY <1>4 DEF TableRead
  <2>2. t.rows \in Seq(Nat)
    BY <1>4 DEF Known
  <2>3. r + 1 \in DOMAIN t.rows
    BY <2>1, <2>2
  <2> QED BY <2>1, <2>3 DEF CutShort
<1> QED BY <1>1, <1>2, <1>3, <1>4, UploadKnown

--------------------------------------------------------------------------------
(* Where every entry is known, nothing else is read.                            *)
LEMMA NeverLost ==
  ASSUME NEW t, NEW kind, Known(t, kind), KnownBut(t, 0, 0),
         NEW s, Len(s) \in Nat, NEW bulk, bulk \/ Len(t.rows) > 1,
         NEW size, NEW slack, NEW h, NEW x,
         Chain(t, kind, s, bulk, size, slack, h, x)
  PROVE  h = Len(s)
<1> SUFFICES ASSUME h # Len(s) PROVE FALSE
  OBVIOUS
<1>1. /\ h \in 0 .. Len(s) /\ x \in [Nat -> Nat] /\ x[1] = 0 /\ (bulk => h >= 1)
  BY DEF Chain
<1>2. h \in Nat /\ h < Len(s)
  BY <1>1
<1>3. x[h + 1] \notin DOMAIN t.entry
  BY <1>2 DEF Chain
<1>4. Len(t.rows) \in Nat /\ t.rows[1] = 0
  BY DEF Known
<1>5. ASSUME NEW i \in 1 .. Len(t.rows) - 1
      PROVE  /\ t.rows[i] \in DOMAIN t.entry
             /\ \A j \in 1 .. InnerCount(t.entry[t.rows[i]]) :
                  t.entry[t.rows[i]].inner[j] \in DOMAIN t.entry
  <2> DEFINE e == t.entry[t.rows[i]]
  <2>1. t.rows[i] \in DOMAIN t.entry /\ i # 0
    BY <1>5 DEF KnownBut
  <2>2. InnerCount(e) \in Nat
    <3>1. Stood(t, e)
      BY <2>1 DEF Known, Stood
    <3> QED BY <3>1, EntryFacts
  <2> QED BY <2>1, <2>2 DEF KnownBut
<1>6. bulk \/ x[1] \in DOMAIN t.entry
  <2> SUFFICES ASSUME ~bulk PROVE x[1] \in DOMAIN t.entry
    OBVIOUS
  <2>1. 1 \in 1 .. Len(t.rows) - 1
    BY <1>4
  <2> QED BY <1>1, <1>4, <1>5, <2>1
<1>7. h >= 1
  <2>1. h # 0
    BY <1>1, <1>3, <1>6
  <2> QED BY <1>2, <2>1
<1>8. ASSUME NEW i \in 1 .. h
      PROVE  Open(t, kind, s[i], bulk /\ i = 1, size, slack /\ i = 1, x[i], x[i + 1])
  <2>1. i # Len(s)
    BY <1>2
  <2> QED BY <2>1 DEF Chain
<1>9. Open(t, kind, s[h], bulk /\ h = 1, size, slack /\ h = 1, x[h], x[h + 1])
  BY <1>2, <1>7, <1>8
<1>10. CASE bulk /\ h = 1
  <2>1. PICK r \in Nat : r < Len(t.rows) - 1 /\ t.rows[r + 1] = x[h + 1]
    BY <1>9, <1>10 DEF Open
  <2>2. r + 1 \in 1 .. Len(t.rows) - 1
    BY <1>4, <2>1
  <2> QED BY <1>3, <1>5, <2>1, <2>2
<1>11. CASE ~(bulk /\ h = 1)
  <2> DEFINE e == t.entry[x[h]]
             z == x[h + 1]
  <2>1. x[h] \in DOMAIN t.entry /\ Opened(t, s[h], e, z) /\ Stood(t, e)
    BY <1>9, <1>11 DEF Open, Known, Stood
  <2>2. InnerCount(e) \in Nat /\ MethodCount(e) \in Nat
    BY <2>1, EntryFacts
  <2>3. ASSUME NEW i \in Nat, i < MethodCount(e), e.methods[i + 1] = z PROVE FALSE
    <3>1. i + 1 \in 1 .. MethodCount(e)
      BY <2>2, <2>3
    <3>2. z \in DOMAIN t.entry
      BY <2>1, <2>3, <3>1 DEF Stood, EntryWritten, MethodsWritten
    <3> QED BY <1>3, <3>2
  <2>4. \A j \in 1 .. InnerCount(e) : e.inner[j] \in DOMAIN t.entry
    <3>1. CASE h = 1
      <4>1. 1 \in 1 .. Len(t.rows) - 1 /\ x[h] = t.rows[1]
        BY <1>1, <1>4, <1>11, <3>1
      <4> QED BY <1>5, <4>1
    <3>2. CASE h # 1
      <4> DEFINE k == h - 1
      <4>1. k \in 1 .. h /\ k + 1 = h
        BY <1>2, <1>7, <3>2
      <4>2. Open(t, kind, s[k], bulk /\ k = 1, size, slack /\ k = 1, x[k], x[k + 1])
        BY <1>8, <4>1
      <4> HIDE DEF k
      <4>3. CASE bulk /\ k = 1
        <5>1. PICK r \in Nat : r < Len(t.rows) - 1 /\ t.rows[r + 1] = x[h]
          BY <4>1, <4>2, <4>3 DEF Open
        <5>2. r + 1 \in 1 .. Len(t.rows) - 1
          BY <1>4, <5>1
        <5>3. \A j \in 1 .. InnerCount(t.entry[t.rows[r + 1]]) :
                t.entry[t.rows[r + 1]].inner[j] \in DOMAIN t.entry
          BY <1>5, <5>2
        <5> QED BY <5>1, <5>3
      <4>4. CASE ~(bulk /\ k = 1)
        <5>1. x[k] \in DOMAIN t.entry /\ Opened(t, s[k], t.entry[x[k]], x[h])
          BY <4>1, <4>2, <4>4 DEF Open
        <5>2. Stood(t, t.entry[x[k]])
          BY <5>1 DEF Known, Stood
        <5>3. e.item.kind # "type"
          BY <2>1, <5>1, <5>2, Inside
        <5> QED BY <2>1, <5>3, KnownInside
      <4> QED BY <4>3, <4>4
    <3> QED BY <3>1, <3>2
  <2>5. ASSUME NEW i \in Nat, i < InnerCount(e), e.inner[i + 1] = z PROVE FALSE
    <3>1. i + 1 \in 1 .. InnerCount(e)
      BY <2>2, <2>5
    <3> QED BY <1>3, <2>4, <2>5, <3>1
  <2> QED BY <2>1, <2>3, <2>5 DEF Opened
<1> QED BY <1>10, <1>11

--------------------------------------------------------------------------------
(* Steps. *)

(* The frame of a table from which nothing has been read.                       *)
LEMMA FreshChain ==
  ASSUME NEW t, NEW kind, Known(t, kind), NEW table, NEW bulk, bulk, NEW slack
  PROVE  \E h, x : Chain(t, kind, <<TableFrame(table, kind)>>, bulk, Len(table), slack, h, x)
<1> DEFINE f == TableFrame(table, kind)
           x == [i \in Nat |-> 0]
           s == <<f>>
<1>1. /\ f.ptr = 0 /\ f.end = Len(table) /\ f.todo = Goal(kind, 1)
      /\ f.item = NewItem("table")
  BY DEF TableFrame, Frame
<1> HIDE DEF f
<1>2. f.item = [NewItem("table") EXCEPT !.kids = f.item.kids] /\ f.item.kids = <<>>
  BY <1>1 DEF NewItem
<1>3. RowsRead(t, <<>>, 0)
  BY DEF RowsRead, IsSeq
<1>4. /\ Len(t.rows) - 1 \in Nat /\ t.rows[0 + 1] = 0
  <2>1. t.rows \in Seq(Nat) /\ t.rows # <<>> /\ t.rows[1] = 0
    BY DEF Known
  <2> QED BY <2>1
<1>5. AtRow(t, kind, f, 0, 0)
  BY <1>1, <1>2, <1>3, <1>4 DEF AtRow
<1>6. Shut(t, kind, f, TRUE, Len(table), FALSE, 0)
  BY <1>1, <1>5 DEF Shut
<1>7. Len(s) = 1 /\ s[1] = f
  OBVIOUS
<1>8. x \in [Nat -> Nat] /\ x[1] = 0
  OBVIOUS
<1> HIDE DEF s, x
<1>9. ASSUME NEW i \in 1 .. 1
      PROVE  /\ i = Len(s)
             /\ Shut(t, kind, s[i], bulk /\ i = 1, Len(table), slack /\ i = 1, x[i])
  <2>1. i = 1
    OBVIOUS
  <2>2. f.end = Len(table) /\ \E r \in Nat : AtRow(t, kind, f, r, r)
    BY <1>1, <1>5
  <2> QED BY <1>7, <2>1, <2>2 DEF Shut
<1>10. Chain(t, kind, s, bulk, Len(table), slack, 1, x)
  BY <1>7, <1>8, <1>9 DEF Chain
<1> QED BY <1>10 DEF s, f

(* The first frame stands at the first row.                                     *)
LEMMA InitWritten == Init => FInv
<1> SUFFICES ASSUME Init PROVE FInv
  OBVIOUS
<1>1. TInv
  BY InitTables
<1>2. ASSUME Understood PROVE AsWritten
  <2>1. Known(InTypes, "type")
    BY <1>1, <1>2, UploadKnown
  <2>2. symbols = <<>>
    BY DEF Init
  <2>3. CASE Bulk
    <3>1. pc = "types" /\ data = upload.types /\ stack = <<TableFrame(data, "type")>>
      BY <2>3 DEF Init, Bulk
    <3>2. OnTrack(InTypes, "type", Bulk, CutAnswer)
      BY <2>1, <2>3, <3>1, FreshChain DEF OnTrack
    <3> QED BY <2>2, <2>3, <3>1, <3>2 DEF AsWritten, TypesTable
  <2>4. CASE ~Bulk
    <3>1. pc = "ask"
      BY <2>4 DEF Init, Bulk
    <3> QED BY <2>2, <2>4, <3>1 DEF AsWritten
  <2> QED BY <2>3, <2>4
<1> QED BY <1>1, <1>2 DEF FInv

(* What is said of an upload does not change with the state.                    *)
LEMMA SameUpload ==
  ASSUME UNCHANGED upload
  PROVE  /\ Understood' = Understood /\ Bulk' = Bulk /\ TypesTable' = TypesTable
         /\ InTypes' = InTypes /\ InSymbols' = InSymbols /\ CutAnswer' = CutAnswer
BY DEF Understood, Bulk, TypesTable, InTypes, InSymbols, CutAnswer, AnswerOf

(* A failure harms nothing where something was wrong.                           *)
LEMMA Gone ==
  ASSUME Fail("error") \/ Fail("panic"), AsWritten, pc # "done", upload.harm # "none"
  PROVE  AsWritten'
<1>1. /\ pc' \in {"error", "panic"} /\ upload' = upload /\ symbols' = symbols
      /\ symbols = <<>>
  BY DEF Fail, AsWritten
<1> QED BY <1>1 DEF AsWritten

(* Where nothing is wrong all is known, and there.                              *)
LEMMA Unharmed ==
  ASSUME TInv, upload.harm = "none"
  PROVE  /\ Understood /\ ~CutAnswer
         /\ KnownBut(InTypes, 0, 0) /\ TypesTable = InTypes.whole
         /\ KnownBut(InSymbols, 0, 0) /\ upload.symbols = InSymbols.whole
         /\ Bulk \/ Len(InTypes.rows) > 1
         /\ ~Bulk => upload.declared <= ReadBuffer
<1>1. Written(upload, LayoutOf[upload])
  BY PLCWrites DEF TInv
<1>2. Understood /\ ~CutAnswer
  BY DEF Understood, CutAnswer
<1>3. /\ KnownBut(InTypes, 0, 0) /\ TypesTable = InTypes.whole
      /\ KnownBut(InSymbols, 0, 0) /\ upload.symbols = InSymbols.whole
      /\ ~Bulk => upload.declared <= ReadBuffer
  BY <1>1, WayKnown DEF Written, TypesTable, Bulk, InTypes, InSymbols
<1>4. Bulk \/ Len(InTypes.rows) > 1
  <2> SUFFICES ASSUME ~Bulk PROVE Len(InTypes.rows) > 1
    OBVIOUS
  <2>1. Len(upload.meant.types) = 1
    BY <1>1, WayKnown DEF Written
  <2>2. Len(InTypes.rows) - 1 = 1
    BY <1>2, <2>1, UploadKnown, MeantCount
  <2>3. Len(InTypes.rows) \in Nat
    BY <1>2, UploadKnown DEF Known
  <2> QED BY <2>2, <2>3
<1> QED BY <1>2, <1>3, <1>4

(* The walk over a table or an answer.                                          *)
LEMMA StepWalk == ASSUME TInv, Understood, AsWritten, Walk PROVE AsWritten'
<1>1. Reading
  BY Strided DEF Walk, LeaveEntry, EnterEntry, At
<1>2. Len(stack) \in Nat
  BY DEF TInv, IsStack
<1>3. /\ Known(InTypes, "type") /\ IsBeginning(TypesTable, InTypes.whole)
      /\ Known(InSymbols, "symbol") /\ IsBeginning(upload.symbols, InSymbols.whole)
      /\ "type" \in Entries /\ "symbol" \in Entries
  BY UploadKnown DEF Entries
<1>4. CASE pc = "types"
  <2>1. data = TypesTable /\ OnTrack(InTypes, "type", Bulk, CutAnswer) /\ symbols = <<>>
    BY <1>4 DEF AsWritten
  <2>2. PICK h, x : Chain(InTypes, "type", stack, Bulk, Len(data), CutAnswer, h, x)
    BY <2>1 DEF OnTrack
  <2>3. \/ GoesOn(InTypes, "type", Bulk, Len(data), CutAnswer)
        \/ GivesUp(InTypes, Len(data), CutAnswer, h)
    BY <1>3, <2>1, <2>2, Walked
  <2>4. CASE GoesOn(InTypes, "type", Bulk, Len(data), CutAnswer)
    <3>1. UNCHANGED <<upload, data, pc, types, symbols>>
      BY <2>4 DEF GoesOn
    <3>2. OnTrack(InTypes, "type", Bulk, CutAnswer)'
      BY <2>4, <3>1, SameUpload DEF GoesOn, OnTrack
    <3> QED BY <1>4, <2>1, <3>1, <3>2, SameUpload DEF AsWritten
  <2>5. CASE GivesUp(InTypes, Len(data), CutAnswer, h)
    <3>1. upload.harm # "none"
      <4> SUFFICES ASSUME upload.harm = "none" PROVE FALSE
        OBVIOUS
      <4>1. h = Len(stack)
        BY <1>2, <1>3, <2>2, Unharmed, NeverLost
      <4> QED BY <2>1, <2>5, <4>1, Unharmed DEF GivesUp
    <3> QED BY <1>4, <2>5, <3>1, Gone DEF GivesUp
  <2> QED BY <2>3, <2>4, <2>5
<1>5. CASE pc = "symbols"
  <2>1. /\ Bulk /\ data = upload.symbols /\ OnTrack(InSymbols, "symbol", TRUE, FALSE)
        /\ symbols = <<>> /\ TableRead(InTypes, upload.types, types)
    BY <1>5 DEF AsWritten
  <2>2. PICK h, x : Chain(InSymbols, "symbol", stack, TRUE, Len(data), FALSE, h, x)
    BY <2>1 DEF OnTrack
  <2>3. \/ GoesOn(InSymbols, "symbol", TRUE, Len(data), FALSE)
        \/ GivesUp(InSymbols, Len(data), FALSE, h)
    BY <1>3, <2>1, <2>2, Walked
  <2>4. CASE GoesOn(InSymbols, "symbol", TRUE, Len(data), FALSE)
    <3>1. UNCHANGED <<upload, data, pc, types, symbols>>
      BY <2>4 DEF GoesOn
    <3>2. OnTrack(InSymbols, "symbol", TRUE, FALSE)'
      BY <2>4, <3>1, SameUpload DEF GoesOn, OnTrack
    <3>3. TableRead(InTypes, upload.types, types)'
      BY <2>1, <3>1, SameUpload
    <3> QED BY <1>5, <2>1, <3>1, <3>2, <3>3, SameUpload DEF AsWritten
  <2>5. CASE GivesUp(InSymbols, Len(data), FALSE, h)
    <3>1. upload.harm # "none"
      <4> SUFFICES ASSUME upload.harm = "none" PROVE FALSE
        OBVIOUS
      <4>1. h = Len(stack)
        BY <1>2, <1>3, <2>2, Unharmed, NeverLost
      <4> QED BY <2>1, <2>5, <4>1, Unharmed DEF GivesUp
    <3> QED BY <1>5, <2>5, <3>1, Gone DEF GivesUp
  <2> QED BY <2>3, <2>4, <2>5
<1> QED BY <1>1, <1>4, <1>5 DEF Reading

(* A table is at its end with the last of its entries.                          *)
LEMMA TableEnds ==
  ASSUME NEW t, NEW kind, NEW slack, NEW h, NEW x, NEW bulk, bulk,
         TInv, Len(stack) = 1, Left = 0, Chain(t, kind, stack, bulk, Len(data), slack, h, x)
  PROVE  TableRead(t, data, Top.item.kids)
<1>1. h = 1 /\ 1 \in 1 .. h /\ Len(stack) = 1
  BY DEF Chain
<1>2. Shut(t, kind, Top, TRUE, Len(data), slack /\ TRUE, x[1])
  BY <1>1 DEF Chain, Top
<1>3. Top.end = Len(data) /\ \E r \in Nat : AtRow(t, kind, Top, r, r)
  BY <1>2 DEF Shut
<1>4. Top.ptr \in Nat /\ Top.end \in Nat /\ Left = Top.end - Top.ptr
  BY <1>1, AtTop
<1>5. Top.ptr = Len(data)
  BY <1>3, <1>4
<1> QED BY <1>3, <1>5 DEF AtRow, TableRead

(* The frame of the answer about one type, whole or cut short.                  *)
LEMMA AnswerChain ==
  ASSUME NEW t, Known(t, "type"), Len(t.rows) = 2,
         NEW answer, answer \in Seq(Nat), IsBeginning(answer, t.whole), Len(answer) >= 1,
         NEW end, end = (IF answer[1] < Len(answer) THEN answer[1] ELSE Len(answer)),
         NEW slack \in BOOLEAN,
         IF slack THEN 0 \in DOMAIN t.entry /\ Len(answer) < EndAt(t.entry[0])
         ELSE Len(answer) = Len(t.whole),
         NEW size
  PROVE  \E h, x : Chain(t, "type", <<Frame("type", 1, end, Goal("header", 1))>>, FALSE,
                         size, slack, h, x)
<1> DEFINE f == Frame("type", 1, end, Goal("header", 1))
           s == <<f>>
           x == [i \in Nat |-> 0]
           e == t.entry[0]
<1>1. f.ptr = 1 /\ f.end = end /\ f.todo = Goal("header", 1) /\ f.item = NewItem("type")
  BY DEF Frame
<1>2. Len(s) = 1 /\ s[1] = f
  OBVIOUS
<1>3. x \in [Nat -> Nat] /\ \A i \in Nat : x[i] = 0
  OBVIOUS
<1> HIDE DEF f, s, x
<1>4. Len(answer) \in Nat /\ answer[1] \in Nat /\ end \in Nat /\ end <= Len(answer)
  BY SMT
<1>5. CASE 0 \notin DOMAIN t.entry
  <2>1. 0 \in 0 .. Len(s) /\ x[1] = 0 /\ x[0 + 1] \notin DOMAIN t.entry
    BY <1>2, <1>3, <1>5
  <2>2. Chain(t, "type", s, FALSE, size, slack, 0, x)
    BY <1>3, <2>1 DEF Chain
  <2> QED BY <2>2 DEF s, f
<1>6. CASE 0 \in DOMAIN t.entry
  <2>1. Stood(t, e) /\ e.at = 0 /\ t.rows[1] = 0 /\ t.rows[2] = Len(t.whole)
        /\ t.whole \in Seq(Nat)
    BY <1>6 DEF Known, Stood
  <2>2. SizeWritten(t, 0, Len(t.whole)) /\ e.item.kind = "type"
    <3>1. 1 \in 1 .. Len(t.rows) - 1
      OBVIOUS
    <3> QED BY <1>6, <2>1, <3>1 DEF Known
  <2> HIDE DEF e
  <2>3. e.end = e.at + t.whole[e.at + 1]
    BY <2>1, EntryFacts
  <2>4. e.end = Len(t.whole) /\ t.whole[1] \in Nat /\ t.whole[1] = Len(t.whole)
    BY <2>1, <2>2, <2>3 DEF SizeWritten
  <2>5. Ends(f, e, slack)
    <3>1. CASE slack
      <4>1. Len(answer) < EndAt(e) /\ EndAt(e) \in Nat
        BY <2>1, <3>1, EntryFacts DEF e
      <4> QED BY <1>1, <1>4, <3>1, <4>1 DEF Ends
    <3>2. CASE ~slack
      <4>1. Len(answer) = Len(t.whole) /\ answer[1] = t.whole[1]
        BY <1>4, <3>2 DEF IsBeginning
      <4> QED BY <1>1, <1>4, <2>4, <3>2, <4>1 DEF Ends
    <3> QED BY <3>1, <3>2
  <2>6. AtHeader(f, e)
    BY <1>1, <2>1, <2>2 DEF AtHeader, Stands
  <2>7. Shut(t, "type", f, FALSE, size, slack, 0)
    BY <1>6, <2>5, <2>6 DEF Shut, Reads, e
  <2>8. ASSUME NEW i \in 1 .. 1
        PROVE  i = 1 /\ i = Len(s) /\ x[i] = 0 /\ s[i] = f
    BY <1>2, <1>3
  <2>9. 1 \in 0 .. Len(s) /\ x[1] = 0 /\ ~(1 < Len(s))
    BY <1>2, <1>3
  <2>10. ASSUME NEW i \in 1 .. 1
         PROVE  IF i = Len(s) THEN Shut(t, "type", s[i], FALSE /\ i = 1, size, slack /\ i = 1, x[i])
                ELSE Open(t, "type", s[i], FALSE /\ i = 1, size, slack /\ i = 1, x[i], x[i + 1])
    <3>1. i = 1 /\ i = Len(s) /\ x[i] = 0 /\ s[i] = f
      BY <2>8
    <3>2. Shut(t, "type", f, FALSE /\ i = 1, size, slack /\ i = 1, 0)
      BY <2>7, <3>1 DEF Shut, Ends
    <3> QED BY <3>1, <3>2
  <2>11. Chain(t, "type", s, FALSE, size, slack, 1, x)
    BY <1>3, <2>9, <2>10 DEF Chain
  <2> QED BY <2>11 DEF s, f
<1> QED BY <1>5, <1>6

(* An answer about one type that is not whole.                                  *)
LEMMA AnswerKnown ==
  ASSUME TInv, Understood, ~Bulk
  PROVE  /\ TypesTable = AnswerOf(upload) /\ Len(InTypes.rows) = 2
         /\ CutAnswer => /\ 0 \in DOMAIN InTypes.entry
                         /\ Len(TypesTable) < EndAt(InTypes.entry[0])
         /\ ~CutAnswer => TypesTable = InTypes.whole
<1>1. Written(upload, LayoutOf[upload])
  BY PLCWrites DEF TInv
<1>2. TypesTable = AnswerOf(upload) /\ upload.way = "by_name"
  BY WayKnown DEF TypesTable
<1>3. Len(upload.meant.types) = 1
  BY <1>1, <1>2 DEF Written, Understood
<1>4. Len(InTypes.rows) = 2
  <2>1. Len(InTypes.rows) - 1 = 1
    BY <1>3, UploadKnown, MeantCount
  <2>2. Len(InTypes.rows) \in Nat
    BY UploadKnown DEF Known
  <2> QED BY <2>1, <2>2
<1>5. CutAnswer => AnswerCutShort(InTypes, TypesTable)
  BY <1>1, <1>2 DEF Written, CutAnswer, Bulk, TypesTable, InTypes
<1>6. ~CutAnswer => TypesTable = InTypes.whole
  BY <1>1, <1>2 DEF Written, CutAnswer, Understood, Bulk, TypesTable, InTypes
<1> QED BY <1>2, <1>4, <1>5, <1>6 DEF AnswerCutShort

(* The answer about one type: its header is behind its size                     *)
(* (GetTypeInfoByName).                                                         *)
LEMMA StepAsk ==
  ASSUME TInv, Understood, AsWritten, GetTypeInfoByName
  PROVE  AsWritten'
<1> DEFINE n == upload.declared
           answer == [i \in 1 .. n |->
                        IF i <= Len(upload.types) THEN upload.types[i] ELSE 0]
           end == IF answer[1] < n THEN answer[1] ELSE n
           Refuses == \/ Fail("panic") /\ (n > ReadBuffer \/ answer[1] < 1)
                      \/ Fail("error") /\ n < 1
           Begins == /\ n >= 1 /\ data' = answer
                     /\ stack' = <<Frame("type", 1, end, Goal("header", 1))>>
                     /\ pc' = "types" /\ UNCHANGED <<upload, types, symbols>>
<1>0. answer = AnswerOf(upload)
  BY DEF AnswerOf
<1>1. pc = "ask" /\ ~Bulk /\ symbols = <<>>
  BY DEF GetTypeInfoByName, AsWritten
<1>2. Refuses \/ Begins
  <2>1. n \in Nat /\ ReadBuffer \in Nat
    BY WayKnown, TableConstants
  <2>2. CASE n > ReadBuffer
    BY <2>2 DEF GetTypeInfoByName
  <2>3. CASE ~(n > ReadBuffer) /\ n < 1
    BY <2>1, <2>3 DEF GetTypeInfoByName
  <2>4. CASE ~(n > ReadBuffer) /\ 1 <= n /\ answer[1] < 1
    BY <2>1, <2>4 DEF GetTypeInfoByName
  <2>5. CASE ~(n > ReadBuffer) /\ 1 <= n /\ ~(answer[1] < 1)
    BY <2>1, <2>5 DEF GetTypeInfoByName
  <2> QED BY <2>1, <2>2, <2>3, <2>4, <2>5
<1> HIDE DEF n, answer, end, Refuses, Begins
<1>3. Len(answer) = n /\ answer \in Seq(Nat) /\ n \in Nat
  BY <1>0, AnswerLength, WayKnown DEF n
<1>4. TypesTable = answer /\ Len(InTypes.rows) = 2
  BY <1>0, <1>1, AnswerKnown
<1>5. Known(InTypes, "type") /\ IsBeginning(answer, InTypes.whole)
  BY <1>4, UploadKnown
<1>6. CASE Refuses
  <2>1. upload.harm # "none"
    <3> SUFFICES ASSUME upload.harm = "none" PROVE FALSE
      OBVIOUS
    <3>1. answer = InTypes.whole /\ n <= ReadBuffer
      BY <1>1, <1>4, Unharmed DEF n
    <3>2. 1 \in 1 .. Len(InTypes.rows) - 1 /\ InTypes.rows[1] = 0
      BY <1>4, <1>5 DEF Known
    <3>3. 0 < Len(InTypes.whole) /\ InTypes.whole[0 + 1] > 0
      BY <1>5, <3>2 DEF Known, SizeWritten
    <3>4. ReadBuffer \in Nat
      BY TableConstants
    <3>5. n > 0 /\ answer[1] > 0 /\ answer[1] \in Nat
      BY <1>3, <3>1, <3>3
    <3> QED BY <1>3, <1>6, <3>1, <3>4, <3>5 DEF Refuses
  <2> QED BY <1>1, <1>6, <2>1, Gone DEF Refuses
<1>7. CASE Begins
  <2>1. CutAnswer \in BOOLEAN
    BY DEF CutAnswer
  <2>2. IF CutAnswer THEN 0 \in DOMAIN InTypes.entry /\ Len(answer) < EndAt(InTypes.entry[0])
        ELSE Len(answer) = Len(InTypes.whole)
    BY <1>1, <1>4, AnswerKnown
  <2> DEFINE first == end
             t == InTypes
             slack == CutAnswer
  <2>3. first = IF answer[1] < Len(answer) THEN answer[1] ELSE Len(answer)
    BY <1>3 DEF end
  <2>4. Len(answer) >= 1
    BY <1>3, <1>7 DEF Begins
  <2>5. stack' = <<Frame("type", 1, first, Goal("header", 1))>>
    BY <1>7 DEF Begins
  <2> HIDE DEF first, t, slack
  <2>6. /\ Known(t, "type") /\ Len(t.rows) = 2 /\ IsBeginning(answer, t.whole)
        /\ slack \in BOOLEAN
        /\ IF slack THEN 0 \in DOMAIN t.entry /\ Len(answer) < EndAt(t.entry[0])
           ELSE Len(answer) = Len(t.whole)
    BY <1>4, <1>5, <2>1, <2>2 DEF t, slack
  <2>7. \E h, x : Chain(t, "type", <<Frame("type", 1, first, Goal("header", 1))>>, FALSE,
                        Len(answer), slack, h, x)
    BY <1>3, <2>3, <2>4, <2>6, AnswerChain
  <2>8. \E h, x : Chain(InTypes, "type", stack', FALSE, Len(data'), CutAnswer, h, x)
    BY <1>7, <2>5, <2>7 DEF t, slack, Begins
  <2>9. Bulk = FALSE
    BY <1>1 DEF Bulk
  <2>10. OnTrack(InTypes, "type", Bulk, CutAnswer)'
    BY <1>7, <2>8, <2>9, SameUpload DEF OnTrack, Begins
  <2> QED BY <1>1, <1>4, <1>7, <2>10, SameUpload DEF AsWritten, Begins
<1> QED BY <1>2, <1>6, <1>7

(* The end of the types, or of the one type (TypesDecoded).                     *)
LEMMA TypesRead ==
  ASSUME TInv, Understood, AsWritten, TypesDecoded
  PROVE  AsWritten'
<1>1. pc = "types" /\ Len(stack) = 1 /\ upload' = upload /\ symbols' = symbols
  BY DEF TypesDecoded
<1>2. data = TypesTable /\ OnTrack(InTypes, "type", Bulk, CutAnswer) /\ symbols = <<>>
  BY <1>1 DEF AsWritten
<1>3. PICK h, x : Chain(InTypes, "type", stack, Bulk, Len(data), CutAnswer, h, x)
  BY <1>2 DEF OnTrack
<1>4. Known(InTypes, "type") /\ IsBeginning(data, InTypes.whole) /\ Known(InSymbols, "symbol")
  BY <1>2, UploadKnown
<1>5. CASE Bulk
  <2>1. /\ Left = 0 /\ types' = Top.item.kids /\ pc' = "symbols" /\ data' = upload.symbols
        /\ stack' = <<TableFrame(data', "symbol")>>
    BY <1>5 DEF TypesDecoded, Bulk
  <2>2. TableRead(InTypes, upload.types, types')
    <3>1. TableRead(InTypes, data, Top.item.kids)
      BY <1>1, <1>3, <1>5, <2>1, TableEnds
    <3>2. data = upload.types
      BY <1>2, <1>5 DEF TypesTable
    <3> QED BY <2>1, <3>1, <3>2
  <2>3. \E k, y : Chain(InSymbols, "symbol", <<TableFrame(upload.symbols, "symbol")>>, TRUE,
                        Len(upload.symbols), FALSE, k, y)
    BY <1>4, FreshChain
  <2>4. OnTrack(InSymbols, "symbol", TRUE, FALSE)'
    BY <1>1, <2>1, <2>3, SameUpload DEF OnTrack
  <2>5. Bulk' /\ InTypes' = InTypes
    BY <1>1, <1>5, SameUpload
  <2>6. TableRead(InTypes, upload.types, types)'
    BY <1>1, <2>2, <2>5
  <2> QED BY <1>1, <1>2, <2>1, <2>4, <2>5, <2>6 DEF AsWritten
<1>6. CASE ~Bulk
  <2>1. Top.todo = <<>> /\ types' = <<Top.item>> /\ pc' = "done"
    BY <1>6 DEF TypesDecoded, Bulk
  <2>2. Len(InTypes.rows) = 2 /\ InTypes.rows[1] = 0
    BY <1>4, <1>6, AnswerKnown DEF Known
  <2>3. CutAnswer => 0 \in DOMAIN InTypes.entry /\ Len(data) < EndAt(InTypes.entry[0])
    BY <1>2, <1>6, AnswerKnown
  <2>4. /\ 0 \notin DOMAIN InTypes.entry \/ Decoded(InTypes, Top.item, InTypes.entry[0])
        /\ ~CutAnswer
    <3>1. h \in 0 .. 1 /\ x[1] = 0
      BY <1>1, <1>3 DEF Chain
    <3>2. CASE h = 0
      <4>1. 0 \notin DOMAIN InTypes.entry
        BY <1>1, <1>3, <3>1, <3>2 DEF Chain
      <4> QED BY <2>3, <4>1
    <3>3. CASE h = 1
      <4>1. Reading /\ h = Len(stack)
        BY <1>1, <3>3 DEF Reading
      <4> DEFINE t == InTypes
                 e == t.entry[x[Len(stack)]]
      <4>2. x[Len(stack)] \in DOMAIN t.entry /\ Clean(t, e) /\ Ends(Top, e, CutAnswer /\ Len(stack) = 1)
        <5> DEFINE size == Len(data)
                   bulk == Bulk
                   slack == CutAnswer
        <5>1. Chain(t, "type", stack, bulk, size, slack, Len(stack), x)
          BY <1>3, <4>1
        <5>2. Known(t, "type") /\ IsBeginning(data, t.whole) /\ ~(bulk /\ Len(stack) = 1)
          BY <1>4, <1>6
        <5> HIDE DEF t, size, bulk, slack
        <5> QED BY <4>1, <5>1, <5>2, ChainTop DEF slack
      <4>3. e = t.entry[0]
        BY <1>1, <3>1
      <4> HIDE DEF t, e
      <4>4. Decoded(t, Top.item, e)
        BY <2>1, <4>2, AllRead
      <4>5. ~CutAnswer
        <5> SUFFICES ASSUME CutAnswer PROVE FALSE
          OBVIOUS
        <5>1. Top.end < EndAt(e)
          BY <1>1, <4>2 DEF Ends
        <5>2. AtEnum(t, Top, e, EnumCount(e))
          BY <2>1, <4>2, NextPart DEF Clean
        <5>3. Top.ptr = EndAt(e)
          BY <5>2 DEF AtEnum, Within, Stands, EndAt
        <5>4. Top.ptr \in Nat /\ Top.end \in Nat /\ Top.ptr <= Top.end
          BY <4>2, CleanTop
        <5> QED BY <5>1, <5>3, <5>4
      <4> QED BY <4>3, <4>4, <4>5 DEF t
    <3> QED BY <3>1, <3>2, <3>3
  <2>5. upload.harm # "cut"
    BY <1>6, <2>4 DEF CutAnswer
  <2>6. RowsRead(InTypes, types', 1)
    <3>1. IsSeq(<<Top.item>>)
      <4>1. <<Top.item>> \in Seq({Top.item})
        OBVIOUS
      <4> QED BY <4>1 DEF IsSeq
    <3>2. Len(<<Top.item>>) = 1 /\ <<Top.item>>[1] = Top.item
      OBVIOUS
    <3>3. ASSUME NEW j \in 1 .. 1
          PROVE  \/ InTypes.rows[j] \notin DOMAIN InTypes.entry
                 \/ Decoded(InTypes, <<Top.item>>[j], InTypes.entry[InTypes.rows[j]])
      <4>1. j = 1
        OBVIOUS
      <4> QED BY <2>2, <2>4, <3>2, <4>1
    <3> QED BY <2>1, <3>1, <3>2, <3>3 DEF RowsRead
  <2>7. RowsRead(InTypes, types, 1)'
    BY <1>1, <2>6, SameUpload
  <2> QED BY <1>1, <1>2, <1>6, <2>1, <2>5, <2>7, SameUpload DEF AsWritten
<1> QED BY <1>5, <1>6

(* The end of the symbols (SymbolsDecoded).                                     *)
LEMMA SymbolsRead ==
  ASSUME TInv, Understood, AsWritten, SymbolsDecoded
  PROVE  AsWritten'
<1>1. /\ pc = "symbols" /\ Len(stack) = 1 /\ Left = 0 /\ symbols' = Top.item.kids
      /\ pc' = "done" /\ UNCHANGED <<upload, types>>
  BY DEF SymbolsDecoded
<1>2. /\ Bulk /\ data = upload.symbols /\ TableRead(InTypes, upload.types, types)
      /\ OnTrack(InSymbols, "symbol", TRUE, FALSE)
  BY <1>1 DEF AsWritten
<1>3. PICK h, x : Chain(InSymbols, "symbol", stack, TRUE, Len(data), FALSE, h, x)
  BY <1>2 DEF OnTrack
<1>4. TableRead(InSymbols, upload.symbols, symbols')
  BY <1>1, <1>2, <1>3, TableEnds
<1>5. /\ TableRead(InTypes, upload.types, types)'
      /\ TableRead(InSymbols, upload.symbols, symbols)'
  BY <1>1, <1>2, <1>4, SameUpload
<1>6. Bulk' /\ upload' = upload
  BY <1>1, <1>2, SameUpload
<1> QED BY <1>1, <1>5, <1>6 DEF AsWritten

(* Every step keeps the invariant.                                              *)
LEMMA NextWritten == FInv /\ [DecodeStep]_vars => FInv'
<1> SUFFICES ASSUME FInv, [DecodeStep]_vars PROVE FInv'
  OBVIOUS
<1>1. TInv /\ TInv'
  BY NextTables DEF FInv
<1>2. ASSUME Understood, DecodeStep PROVE upload' = upload /\ AsWritten'
  <2>1. AsWritten
    BY <1>2 DEF FInv
  <2>2. CASE GetTypeInfoByName
    BY <1>1, <1>2, <2>1, <2>2, StepAsk DEF GetTypeInfoByName, Fail
  <2>3. CASE Walk
    <3>1. upload' = upload
      <4>1. CASE Strides
        BY <4>1, Strided DEF Fail, Take
      <4>2. CASE ~Strides
        BY <2>3, <4>2 DEF Walk, LeaveEntry, EnterEntry, Fail
      <4> QED BY <4>1, <4>2
    <3> QED BY <1>1, <1>2, <2>1, <2>3, <3>1, StepWalk
  <2>4. CASE TypesDecoded
    BY <1>1, <1>2, <2>1, <2>4, TypesRead DEF TypesDecoded
  <2>5. CASE SymbolsDecoded
    BY <1>1, <1>2, <2>1, <2>5, SymbolsRead DEF SymbolsDecoded
  <2> QED BY <1>2, <2>2, <2>3, <2>4, <2>5 DEF DecodeStep, Walk, Strides
<1>3. ASSUME UNCHANGED vars PROVE Understood' = Understood /\ AsWritten' = AsWritten
  <2>1. /\ upload' = upload /\ data' = data /\ stack' = stack /\ pc' = pc
        /\ types' = types /\ symbols' = symbols
    BY <1>3 DEF vars
  <2>2. /\ Understood' = Understood /\ Bulk' = Bulk /\ TypesTable' = TypesTable
        /\ InTypes' = InTypes /\ InSymbols' = InSymbols /\ CutAnswer' = CutAnswer
    BY <2>1, SameUpload
  <2> QED BY <2>1, <2>2 DEF AsWritten, OnTrack
<1>4. CASE DecodeStep
  <2>1. ASSUME Understood' PROVE Understood
    <3>1. upload' = upload
      <4>1. CASE Strides
        BY <4>1, Strided DEF Fail, Take
      <4>2. CASE ~Strides
        BY <1>4, <4>2 DEF DecodeStep, Strides, LeaveEntry, EnterEntry, GetTypeInfoByName,
                          TypesDecoded, SymbolsDecoded, Fail
      <4> QED BY <4>1, <4>2
    <3> QED BY <2>1, <3>1 DEF Understood
  <2> QED BY <1>1, <1>2, <1>4, <2>1 DEF FInv
<1> QED BY <1>1, <1>3, <1>4 DEF FInv

(* Whatever types and symbols a PLC has, as many as it likes and however deep   *)
(* they go: decode_symbol_info and get_type_info_by_name give what it wrote,    *)
(* and no part of it is an error or a panic.                                    *)
THEOREM TablesRoundTrip == TableSpec => []RoundTrip
<1>1. FInv /\ [DecodeStep]_vars => FInv'
  BY NextWritten
<1> QED BY <1>1, InitWritten, DecodesMeant, PTL DEF TableSpec

(* Wherever the wrong number is: if the decoding ends at all, all the other     *)
(* entries are what they were, and of a damaged field all other fields.         *)
THEOREM DamageStaysInside == TableSpec => []DamageIsContained
<1>1. FInv /\ [DecodeStep]_vars => FInv'
  BY NextWritten
<1> QED BY <1>1, InitWritten, ContainsDamage, PTL DEF TableSpec

(* Wherever a table or an answer is cut, if it is within an entry: nothing is   *)
(* taken for the whole of it.                                                   *)
THEOREM CutTablesAreRefused == TableSpec => []CutIsRefused
<1>1. FInv /\ [DecodeStep]_vars => FInv'
  BY NextWritten
<1> QED BY <1>1, InitWritten, RefusesCut, PTL DEF TableSpec
================================================================================

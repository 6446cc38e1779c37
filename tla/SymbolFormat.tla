---------------------------- MODULE SymbolFormat ----------------------------
(***************************************************************************)
(* What a PLC writes: where in its tables, or in its answer about one      *)
(* type, which number stands, as the test server writes them               *)
(* (tests/test_symbol.rs:19-68) and as the decoder of symbol/type.rs takes *)
(* them apart.  Said of positions alone, with no word of how they are read.*)
(*                                                                         *)
(* A position is how many numbers are before it.                           *)
(***************************************************************************)
EXTENDS SymbolTables

(* Of each upload the layout of its two tables: `whole`, the numbers the PLC    *)
(* wrote, of which the table may be the beginning; `rows`, where the entries    *)
(* begin and where the last one ends; `entry`, what stands at which position.   *)
(* Of an entry that is not in `entry` nothing is known but its size.            *)
CONSTANT LayoutOf

(* An entry: the item it stands for, its flags, where its size is and where its *)
(* slice ends; of each of its four lists where the parts begin, and where the   *)
(* last one ends.  `inner` are the fields of a type, the parameters of a method.*)
InnerCount(e) == Len(e.inner) - 1
MethodCount(e) == Len(e.methods) - 1
AttributeCount(e) == Len(e.attributes) - 1
EnumCount(e) == Len(e.enums) - 1

(* Flags that count for entries of this kind. *)
Has(e, bit) ==
  /\ Flag(e.flags, bit)
  /\ \/ e.item.kind = "type"
     \/ e.item.kind = "field" /\ bit # 16
     \/ e.item.kind \in {"method", "parameter"} /\ bit = 8

Width(condition, n) == IF condition THEN n ELSE 0

HeaderLength(kind) == CASE kind \in {"type", "field"} -> 9 [] kind = "parameter" -> 4
                        [] kind \in {"method", "symbol"} -> 5

NameAt(e) == e.at + (1 + HeaderLength(e.item.kind))
TypAt(e) == NameAt(e) + (Len(e.item.name) + 1)
ArrayAt(e) == TypAt(e) + (Len(e.item.typ) + 1)
GuidAt(e) == e.inner[InnerCount(e) + 1]
MaskAt(e) == GuidAt(e) + Width(Has(e, 1), 1)
MethodsAt(e) == MaskAt(e) + Width(Has(e, 2), e.item.size)
AttributesAt(e) == e.methods[MethodCount(e) + 1]
EnumsAt(e) == e.attributes[AttributeCount(e) + 1]
EndAt(e) == e.enums[EnumCount(e) + 1]

(* Among what an item holds: fields or parameters, the GUID, methods, attributes*)
(* and enum variants, in this order.  A field keeps attributes only.            *)
KidsBeforeMethods(e) == InnerCount(e) + Width(e.item.kind = "type" /\ Has(e, 1), 1)
KidsBeforeAttributes(e) ==
  KidsBeforeMethods(e) + Width(e.item.kind = "type", MethodCount(e))
KidsBeforeEnums(e) == KidsBeforeAttributes(e) + AttributeCount(e)

InnerKind(kind) == IF kind = "type" THEN "field" ELSE "parameter"

(* The string s behind position x. *)
Spells(w, x, s) == s \in Seq(Nat) /\ \A k \in 1 .. Len(s) : w[x + k] = s[k]

--------------------------------------------------------------------------------
(* One entry. *)

HeaderWritten(w, e) ==
  LET m == e.item
      At1(i) == w[e.at + 1 + i] IN
  /\ m.kind \in {"type", "field"} =>
       /\ At1(1) = 1 /\ At1(2) = m.size /\ At1(4) = m.base_type /\ At1(5) = e.flags
       /\ At1(6) = Len(m.name) /\ At1(7) = Len(m.typ) /\ At1(8) = Len(m.array)
       /\ At1(9) = InnerCount(e)
  /\ m.kind = "type" => m.offset = 0 /\ At1(3) = 0
  /\ m.kind = "field" =>
       IF m.offset = None THEN At1(3) = Elsewhere ELSE At1(3) = m.offset /\ m.offset # Elsewhere
  /\ m.kind \in {"method", "parameter"} =>
       /\ At1(1) = m.size /\ At1(2) = e.flags /\ At1(3) = Len(m.name) /\ At1(4) = Len(m.typ)
       /\ m.kind = "method" => At1(5) = InnerCount(e)
       /\ m.offset = 0 /\ m.base_type = 0 /\ m.array = <<>>
  /\ m.kind = "symbol" =>
       /\ At1(1) = m.offset /\ At1(2) = m.size /\ At1(3) = m.base_type
       /\ At1(4) = Len(m.name) /\ At1(5) = Len(m.typ) /\ m.array = <<>>
  /\ m.kind \in {"field", "parameter", "symbol"} => InnerCount(e) = 0

(* Positions follow one another, up to the end of the slice.                    *)
PartsFollow(w, e) ==
  /\ e.inner[1] = ArrayAt(e) + Len(e.item.array)
  /\ e.methods[1] = MethodsAt(e) + Width(Has(e, 4), 1)
  /\ e.attributes[1] = AttributesAt(e) + Width(Has(e, 8), 1)
  /\ e.enums[1] = EnumsAt(e) + Width(Has(e, 16), 1)
  /\ \A list \in {e.inner, e.methods, e.attributes, e.enums} :
       list \in Seq(Nat) /\ list # <<>> /\ \A i \in DOMAIN list : list[i] <= EndAt(e)
  /\ EndAt(e) <= e.end /\ e.end <= Len(w)
  /\ e.end = e.at + w[e.at + 1]

(* An entry begins with its size, that says where the next one begins.          *)
SizeWritten(t, x, next) ==
  x < Len(t.whole) /\ t.whole[x + 1] > 0 /\ next = x + t.whole[x + 1]

InnerWritten(t, e) ==
  \A i \in 1 .. InnerCount(e) :
    LET x == e.inner[i] IN
      /\ SizeWritten(t, x, e.inner[i + 1])
      /\ x \in DOMAIN t.entry => /\ t.entry[x].item = e.item.kids[i]
                                 /\ t.entry[x].item.kind = InnerKind(e.item.kind)
      /\ e.item.kind = "method" => x \in DOMAIN t.entry

MethodsWritten(t, e) ==
  /\ IF Has(e, 4) THEN t.whole[MethodsAt(e) + 1] = MethodCount(e) ELSE MethodCount(e) = 0
  /\ \A i \in 1 .. MethodCount(e) :
       LET x == e.methods[i] IN
         /\ SizeWritten(t, x, e.methods[i + 1])
         /\ x \in DOMAIN t.entry /\ t.entry[x].item.kind = "method"
         /\ e.item.kind = "type" => t.entry[x].item = e.item.kids[KidsBeforeMethods(e) + i]

AttributesWritten(w, e) ==
  /\ IF Has(e, 8) THEN w[AttributesAt(e) + 1] = AttributeCount(e) ELSE AttributeCount(e) = 0
  /\ \A i \in 1 .. AttributeCount(e) :
       LET x == e.attributes[i]
           a == e.item.kids[KidsBeforeAttributes(e) + i] IN
         /\ a = [kind |-> "attribute", name |-> a.name, value |-> a.value]
         /\ w[x + 1] = Len(a.name) /\ w[x + 2] = Len(a.value)
         /\ Spells(w, x + 2, a.name) /\ Spells(w, x + 3 + Len(a.name), a.value)
         /\ e.attributes[i + 1] = x + 4 + Len(a.name) + Len(a.value)

(* The value of a variant is as wide as the base type, or as the type itself.   *)
EnumsWritten(w, e) ==
  LET size == e.item.size
      width == EnumWidth(e.item.base_type) IN
  /\ IF Has(e, 16) THEN w[EnumsAt(e) + 1] = EnumCount(e) ELSE EnumCount(e) = 0
  /\ \A i \in 1 .. EnumCount(e) :
       LET x == e.enums[i]
           a == e.item.kids[KidsBeforeEnums(e) + i] IN
         /\ a = [kind |-> "enum", name |-> a.name, value |-> a.value]
         /\ w[x + 1] = Len(a.name)
         /\ Spells(w, x + 1, a.name) /\ Spells(w, x + 2 + Len(a.name), a.value)
         /\ IF width = 0 THEN size \in {1, 2, 4, 8} /\ Len(a.value) = size
            ELSE width <= size /\ Len(a.value) = width
         /\ e.enums[i + 1] = x + 2 + Len(a.name) + size

EntryWritten(t, e) ==
  LET m == e.item
      w == t.whole IN
  /\ m = [kind |-> m.kind, name |-> m.name, typ |-> m.typ, size |-> m.size,
          offset |-> m.offset, base_type |-> m.base_type, array |-> m.array, kids |-> m.kids]
  /\ m.kind \in Entries /\ m.size \in Nat /\ e.flags \in Nat /\ e.at \in Nat /\ e.end \in Nat
  /\ Spells(w, NameAt(e), m.name) /\ Spells(w, TypAt(e), m.typ) /\ Spells(w, ArrayAt(e), m.array)
  /\ Len(m.name) < Buffer /\ Len(m.typ) < Buffer
  /\ m.kids = [i \in 1 .. KidsBeforeEnums(e) + EnumCount(e) |-> m.kids[i]]
  /\ m.kind = "type" /\ Has(e, 1) =>
       m.kids[InnerCount(e) + 1] = [kind |-> "guid", value |-> w[GuidAt(e) + 1]]
  /\ HeaderWritten(w, e) /\ PartsFollow(w, e)
  /\ InnerWritten(t, e) /\ MethodsWritten(t, e) /\ AttributesWritten(w, e) /\ EnumsWritten(w, e)

--------------------------------------------------------------------------------
(* A table, and an upload. *)

IsBeginning(table, whole) ==
  Len(table) <= Len(whole) /\ \A i \in 1 .. Len(table) : table[i] = whole[i]

TableWritten(t, table, meant, kind) ==
  LET n == Len(t.rows) - 1 IN
  /\ t.whole \in Seq(Nat) /\ IsBeginning(table, t.whole)
  /\ t.rows \in Seq(Nat) /\ t.rows # <<>> /\ t.rows[1] = 0 /\ t.rows[n + 1] = Len(t.whole)
  /\ meant = [i \in 1 .. n |-> meant[i]]
  /\ \A i \in 1 .. n :
       LET x == t.rows[i] IN
         /\ SizeWritten(t, x, t.rows[i + 1])
         /\ x \in DOMAIN t.entry => t.entry[x].item = meant[i] /\ meant[i].kind = kind
  /\ \A x \in DOMAIN t.entry : t.entry[x].at = x /\ EntryWritten(t, t.entry[x])

(* Every entry is known but the `row`-th, and of that one all but the `inner`-th*)
(* of the entries it holds; 0 is none.                                          *)
KnownBut(t, row, inner) ==
  /\ inner # 0 => row \in 1 .. Len(t.rows) - 1
  /\ \A i \in 1 .. Len(t.rows) - 1 :
       LET e == t.entry[t.rows[i]] IN
         i # row \/ inner # 0 =>
           /\ t.rows[i] \in DOMAIN t.entry
           /\ \A j \in 1 .. InnerCount(e) :
                e.inner[j] \in DOMAIN t.entry \/ (i = row /\ j = inner)

(* What the client makes of an answer shorter than the length it declares.      *)
AnswerOf(u) ==
  [i \in 1 .. u.declared |-> IF i <= Len(u.types) THEN u.types[i] ELSE 0]

(* The table is cut where no entry ends; the answer, within what it tells.      *)
CutShort(t, table) == \A i \in DOMAIN t.rows : t.rows[i] # Len(table)
AnswerCutShort(t, answer) == 0 \in DOMAIN t.entry /\ Len(answer) < EndAt(t.entry[0])

(* The layout fits the upload.  Of one with a wrong size nothing is said.       *)
Written(u, l) ==
  LET table == IF u.way = "bulk" THEN u.types ELSE AnswerOf(u) IN
  u.harm \in {"none", "inside", "cut"} =>
    /\ TableWritten(l.types, table, u.meant.types, "type")
    /\ TableWritten(l.symbols, u.symbols, u.meant.symbols, "symbol")
    /\ u.way = "by_name" => Len(u.meant.types) = 1 /\ u.meant.symbols = <<>>
    /\ u.harm = "none" =>
         /\ table = l.types.whole /\ u.symbols = l.symbols.whole
         /\ KnownBut(l.types, 0, 0) /\ KnownBut(l.symbols, 0, 0)
         /\ u.way = "by_name" => u.declared <= ReadBuffer
    /\ u.harm = "inside" =>
         /\ table = l.types.whole /\ u.symbols = l.symbols.whole
         /\ KnownBut(l.types, u.entry, u.field) /\ KnownBut(l.symbols, u.symbol, 0)
    /\ u.harm = "cut" =>
         IF u.way = "bulk"
         THEN CutShort(l.types, u.types) \/ CutShort(l.symbols, u.symbols)
         ELSE AnswerCutShort(l.types, table)

(* What `meant` and `harm` say of an upload is so.                              *)
ASSUME PLCWrites == \A u \in Uploads : Written(u, LayoutOf[u])
================================================================================

---------------------------- MODULE SymbolTables ----------------------------
(***************************************************************************)
(* symbol/type.rs: the walk over the type and symbol tables of the PLC     *)
(* (decode_symbol_info) and over the answer about one type                 *)
(* (get_type_info_by_name, decode_type_info_by_name).                      *)
(*                                                                         *)
(* Entries hold entries: a type its fields and methods, a method its       *)
(* parameters.  Each begins with its own size, is cut out as a slice and   *)
(* decoded inside it; what is left of a slice is skipped.  The recursion   *)
(* is a stack of frames: a slice, and what is still to be read from it.    *)
(*                                                                         *)
(* A table is a sequence of numbers.  A field of fixed width is one of     *)
(* them, and so is a byte of anything that has a length.  Left out are the *)
(* fields nobody looks at and the comments, third strings among others.    *)
(* Flag bits 1, 2, 4, 8 and 16 stand for 0x80, 0x200, 0x800, 0x1000 and    *)
(* 0x2000; 8 also for the attribute bits of methods and parameters.        *)
(***************************************************************************)
EXTENDS Integers, Sequences

CONSTANTS
  Uploads,      \* what the PLC may answer
  Buffer,       \* the buffer for a string: [0; 1024], [0; 2048]
  ReadBuffer,   \* vec![0u8; 4096], the buffer for the answer about one type
  Elsewhere,    \* 0xFFFF_FFFF, the offset of a field that is not in its struct
  None

(* An upload: the two tables, or the body of the answer about one type with the *)
(* length it declares.                                                          *)
ASSUME TableConstants ==
  /\ {Buffer, ReadBuffer, Elsewhere} \subseteq Nat
  /\ \A u \in Uploads : /\ u.way \in {"bulk", "by_name"}
                        /\ u.types \in Seq(Nat) /\ u.symbols \in Seq(Nat)
                        /\ u.declared \in Nat

VARIABLES
  upload,    \* what the PLC answers
  data,      \* the table being read
  stack,     \* the frames, the innermost last
  pc,        \* "ask", "types", "symbols", then "done", "error" or "panic"
  types,     \* the decoded types, in the order of the table
  symbols    \* and symbols

vars == <<upload, data, stack, pc, types, symbols>>

(* What is decoded: a type, field, method, parameter or symbol, with what it    *)
(* holds in the order it was read.                                              *)
NewItem(kind) ==
  [kind |-> kind, name |-> <<>>, typ |-> <<>>, size |-> 0, offset |-> 0,
   base_type |-> 0, array |-> <<>>, kids |-> <<>>]

(* Something to read: how many entries are left of a list, how long a string is.*)
Goal(what, n) == <<[what |-> what, n |-> n]>>
Some(what, n) == IF n = 0 THEN <<>> ELSE Goal(what, n)
If(condition, what) == IF condition THEN Goal(what, 1) ELSE <<>>

Frame(kind, first, end, todo) ==
  [item |-> NewItem(kind), ptr |-> first, end |-> end, todo |-> todo]

(* while !data_ptr.is_empty() *)
TableFrame(table, entry) == Frame("table", 0, Len(table), Goal(entry, 1))

Init ==
  /\ upload \in Uploads
  /\ types = <<>> /\ symbols = <<>>
  /\ IF upload.way = "bulk"
     THEN /\ pc = "types"
          /\ data = upload.types
          /\ stack = <<TableFrame(data, "type")>>
     ELSE pc = "ask" /\ data = <<>> /\ stack = <<>>

Reading == pc \in {"types", "symbols"}
Top == stack[Len(stack)]
Outer == SubSeq(stack, 1, Len(stack) - 1)
Left == Top.end - Top.ptr
Item(i) == data[Top.ptr + i]
Ahead == Head(Top.todo)                 \* what is to be read next
At(what) == Reading /\ Top.todo # <<>> /\ Ahead.what = what

(* What remains once one of a list has been read. *)
OneLess ==
  IF Top.item.kind = "table" THEN Top.todo
  ELSE Some(Ahead.what, Ahead.n - 1) \o Tail(Top.todo)

Fail(how) == pc' = how /\ UNCHANGED <<upload, data, stack, types, symbols>>

(* The frame behind the next n numbers, going on with todo. *)
Past(n, todo, item) ==
  [item |-> item, ptr |-> Top.ptr + n, end |-> Top.end, todo |-> todo]

Take(n, todo, item) ==
  /\ stack' = Append(Outer, Past(n, todo, item))
  /\ UNCHANGED <<upload, data, pc, types, symbols>>

Flag(flags, bit) == (flags \div bit) % 2 = 1

--------------------------------------------------------------------------------
(* get_type_info_by_name: read_data[..n], then data[4..body_end]. *)

GetTypeInfoByName ==
  /\ pc = "ask"
  /\ LET n == upload.declared
         answer == [i \in 1 .. n |->
                      IF i <= Len(upload.types) THEN upload.types[i] ELSE 0] IN
       CASE n > ReadBuffer -> Fail("panic")
         [] n < 1 -> Fail("error")
         [] 1 <= n /\ n <= ReadBuffer /\ answer[1] < 1 -> Fail("panic")
         [] OTHER ->
              /\ data' = answer
              /\ stack' = <<Frame("type", 1, IF answer[1] < n THEN answer[1] ELSE n,
                                  Goal("header", 1))>>
              /\ pc' = "types"
              /\ UNCHANGED <<upload, types, symbols>>

(* Where an entry too small for its own size is an error and not an underflow.  *)
SizeIsChecked(kind) ==
  kind \in {"method", "parameter"} \/ (kind = "field" /\ upload.way = "by_name")

Entries == {"type", "symbol", "field", "method", "parameter"}

(* Mutant of EnterEntry: an entry larger than what is left gets it all. *)
EnterEntryClamped(kind) ==
  /\ At(kind)
  /\ ~(Top.item.kind = "table" /\ Left = 0)
  /\ LET size == IF Item(1) < Left THEN Item(1) ELSE Left IN
       IF Left < 1 \/ Item(1) < 1 THEN Fail("error")
       ELSE /\ stack' = Append(Append(Outer, Past(size, OneLess, Top.item)),
                        Frame(kind, Top.ptr + 1, Top.ptr + size, Goal("header", 1)))
            /\ UNCHANGED <<upload, data, pc, types, symbols>>

(* Mutant of EnterEntry: the slice is not compared with what is left. *)
EnterEntryUnchecked(kind) ==
  /\ At(kind)
  /\ ~(Top.item.kind = "table" /\ Left = 0)
  /\ IF Left < 1 \/ Item(1) < 1 THEN Fail("error")
     ELSE /\ stack' = Append(Append(Outer, Past(Item(1), OneLess, Top.item)),
                      Frame(kind, Top.ptr + 1, Top.ptr + Item(1), Goal("header", 1)))
          /\ UNCHANGED <<upload, data, pc, types, symbols>>

(* An entry: its size, its slice (split_at), and the rest behind it. *)
EnterEntry(kind) ==
  /\ At(kind)
  /\ ~(Top.item.kind = "table" /\ Left = 0)
  /\ CASE Left < 1 -> Fail("error")
       [] Left >= 1 /\ Item(1) < 1 -> Fail(IF SizeIsChecked(kind) THEN "error" ELSE "panic")
       [] Left >= 1 /\ Item(1) > Left -> Fail("panic")
       [] OTHER ->
            /\ stack' = Append(Append(Outer, Past(Item(1), OneLess, Top.item)),
                        Frame(kind, Top.ptr + 1, Top.ptr + Item(1), Goal("header", 1)))
            /\ UNCHANGED <<upload, data, pc, types, symbols>>

(* Mutant of LeaveEntry: the outer one goes on where the inner one stopped. *)
LeaveEntryHere ==
  /\ Reading /\ Top.todo = <<>> /\ Len(stack) > 1
  /\ stack' = Append(SubSeq(stack, 1, Len(stack) - 2),
                     [stack[Len(stack) - 1] EXCEPT !.item.kids = Append(@, Top.item),
                                                   !.ptr = Top.ptr])
  /\ UNCHANGED <<upload, data, pc, types, symbols>>

(* The entry is decoded; the outer one goes on behind it.  The methods of a     *)
(* field are read and thrown away.                                              *)
LeaveEntry ==
  /\ Reading /\ Top.todo = <<>> /\ Len(stack) > 1
  /\ LET outer == stack[Len(stack) - 1]
         kept == IF outer.item.kind = "field" /\ Top.item.kind = "method"
                 THEN outer.item.kids ELSE Append(outer.item.kids, Top.item) IN
       stack' = Append(SubSeq(stack, 1, Len(stack) - 2), [outer EXCEPT !.item.kids = kept])
  /\ UNCHANGED <<upload, data, pc, types, symbols>>

--------------------------------------------------------------------------------
(* Headers; the strings, dimensions and lists they announce come behind them.   *)

(* Mutant of FlaggedParts: attributes before methods. *)
FlaggedPartsSwapped(kind, flags) ==
  If(Flag(flags, 1), "guid") \o If(Flag(flags, 2), "mask") \o If(Flag(flags, 8), "attributes")
    \o If(Flag(flags, 4), "methods") \o If(kind = "type" /\ Flag(flags, 16), "enums")

(* GUID, copy mask, methods, attributes; of a type also its enum variants.      *)
FlaggedParts(kind, flags) ==
  If(Flag(flags, 1), "guid") \o If(Flag(flags, 2), "mask") \o If(Flag(flags, 4), "methods")
    \o If(Flag(flags, 8), "attributes") \o If(kind = "type" /\ Flag(flags, 16), "enums")

(* version, size, offset, base_type, flags, len_name, len_type, array_dim,      *)
(* sub_items                                                                    *)
TypeHeader ==
  /\ At("header") /\ Top.item.kind \in {"type", "field"}
  /\ CASE upload.way = "bulk" /\ Left >= 1 /\ Item(1) # 1 -> Fail("error")
       [] Left < 9 -> Fail("error")
       [] OTHER ->
            Take(9,
              Goal("name", Item(6)) \o Goal("typ", Item(7)) \o Some("dimension", Item(8))
                \o Goal("sub_items", Item(9)) \o FlaggedParts(Top.item.kind, Item(5)),
              [Top.item EXCEPT
                 !.size = Item(2), !.base_type = Item(4),
                 !.offset = IF Top.item.kind = "field" /\ Item(3) = Elsewhere
                            THEN None ELSE Item(3)])

(* ix_offset, size, base_type, len_name, len_type; the rest is jumped over.     *)
SymbolHeader ==
  /\ At("header") /\ Top.item.kind = "symbol"
  /\ IF Left < 5 THEN Fail("error")
     ELSE Take(5, Goal("name", Item(4)) \o Goal("typ", Item(5)),
               [Top.item EXCEPT !.offset = Item(1), !.size = Item(2), !.base_type = Item(3)])

(* return_size, flags, len_name, return_type_len, param_count; of a parameter   *)
(* size, flags, name_len, type_len.                                             *)
MethodHeader ==
  /\ At("header") /\ Top.item.kind \in {"method", "parameter"}
  /\ LET n == IF Top.item.kind = "method" THEN 5 ELSE 4 IN
       IF Left < n THEN Fail("error")
       ELSE Take(n,
              Goal("name", Item(3)) \o Goal("typ", Item(4))
                \o (IF n = 5 THEN Some("parameter", Item(5)) ELSE <<>>)
                \o If(Flag(Item(2), 8), "attributes"),
              [Top.item EXCEPT !.size = Item(1)])

(* A string and its NUL, through a buffer of fixed size. *)
ReadString(which) ==
  /\ At(which)
  /\ LET n == Ahead.n
         string == SubSeq(data, Top.ptr + 1, Top.ptr + n) IN
       CASE n + 1 > Buffer -> Fail("panic")
         [] n + 1 <= Buffer /\ Left < n + 1 -> Fail("error")
         [] OTHER -> Take(n + 1, Tail(Top.todo),
                          IF which = "name" THEN [Top.item EXCEPT !.name = string]
                          ELSE [Top.item EXCEPT !.typ = string])

(* Lower bound and number of elements, as one. *)
ReadDimension ==
  /\ At("dimension")
  /\ IF Left < 1 THEN Fail("error")
     ELSE Take(1, OneLess, [Top.item EXCEPT !.array = Append(@, Item(1))])

(* The table's assertions: a field holds no items, a type is at offset 0.  The  *)
(* fields of a type come next.                                                  *)
CheckSubItems ==
  /\ At("sub_items")
  /\ IF upload.way = "bulk" /\ (IF Top.item.kind = "field" THEN Ahead.n # 0
                                ELSE Top.item.offset # 0)
     THEN Fail("panic")
     ELSE Take(0, (IF Top.item.kind = "type" THEN Some("field", Ahead.n) ELSE <<>>)
                    \o Tail(Top.todo), Top.item)

--------------------------------------------------------------------------------
(* parse_type_flags, parse_field_attributes and what they call. *)

WithKid(kid) == [Top.item EXCEPT !.kids = Append(@, kid)]

(* The GUID of a field is dropped. *)
ParseGuid ==
  /\ At("guid")
  /\ IF Left < 1 THEN Fail("error")
     ELSE Take(1, Tail(Top.todo), IF Top.item.kind = "field" THEN Top.item
                                  ELSE WithKid([kind |-> "guid", value |-> Item(1)]))

SkipCopyMask ==
  /\ At("mask")
  /\ IF Left < Top.item.size THEN Fail("error")
     ELSE Take(Top.item.size, Tail(Top.todo), Top.item)

(* The number of entries of a list. *)
ReadCount(list, entry) ==
  /\ At(list)
  /\ IF Left < 1 THEN Fail("error")
     ELSE Take(1, Some(entry, Item(1)) \o Tail(Top.todo), Top.item)

(* Both lengths first, then both strings; a length of one byte never exceeds    *)
(* the buffer of 256.                                                           *)
ParseAttribute ==
  /\ At("attribute")
  /\ IF Left < 2 \/ Left < 4 + Item(1) + Item(2) THEN Fail("error")
     ELSE LET value == Top.ptr + 3 + Item(1) IN
          Take(4 + Item(1) + Item(2), OneLess,
               WithKid([kind |-> "attribute",
                        name |-> SubSeq(data, Top.ptr + 3, Top.ptr + 2 + Item(1)),
                        value |-> SubSeq(data, value + 1, value + Item(2))]))

(* Bytes of a value of this base type; 0 where only the size decides.           *)
EnumWidth(base_type) ==
  CASE base_type \in {16, 17} -> 1 [] base_type \in {2, 18} -> 2
    [] base_type \in {3, 4, 19} -> 4 [] base_type \in {5, 20, 21} -> 8 [] OTHER -> 0

(* raw[..w] panics in an enum smaller than its base type. *)
ParseEnumInfo ==
  /\ At("enum")
  /\ LET size == Top.item.size
         width == EnumWidth(Top.item.base_type)
         raw == Top.ptr + 2 + Item(1) IN
       CASE Left < 1 \/ (Left >= 1 /\ Left < 2 + Item(1) + size) -> Fail("error")
         [] Left >= 1 /\ Left >= 2 + Item(1) + size /\ size < width -> Fail("panic")
         [] Left >= 1 /\ Left >= 2 + Item(1) + size /\ width = 0 /\ size \notin {1, 2, 4, 8} ->
              Fail("error")
         [] OTHER ->
              Take(2 + Item(1) + size, OneLess,
                   WithKid([kind |-> "enum",
                            name |-> SubSeq(data, Top.ptr + 2, Top.ptr + 1 + Item(1)),
                            value |-> SubSeq(data, raw + 1,
                                             raw + (IF width = 0 THEN size ELSE width))]))

--------------------------------------------------------------------------------
(* The end of a table: nothing is left, or the one type is decoded. *)

TypesDecoded ==
  /\ pc = "types" /\ Len(stack) = 1
  /\ IF upload.way = "bulk"
     THEN /\ Left = 0
          /\ types' = Top.item.kids
          /\ pc' = "symbols"
          /\ data' = upload.symbols
          /\ stack' = <<TableFrame(data', "symbol")>>
          /\ UNCHANGED <<upload, symbols>>
     ELSE /\ Top.todo = <<>>
          /\ types' = <<Top.item>>
          /\ pc' = "done"
          /\ UNCHANGED <<upload, data, stack, symbols>>

SymbolsDecoded ==
  /\ pc = "symbols" /\ Len(stack) = 1 /\ Left = 0
  /\ symbols' = Top.item.kids
  /\ pc' = "done"
  /\ UNCHANGED <<upload, data, stack, types>>

DecodeStep ==
  \/ GetTypeInfoByName
  \/ (\E kind \in Entries : EnterEntry(kind)) \/ LeaveEntry
  \/ TypeHeader \/ SymbolHeader \/ MethodHeader
  \/ ReadString("name") \/ ReadString("typ") \/ ReadDimension \/ CheckSubItems
  \/ ParseGuid \/ SkipCopyMask
  \/ ReadCount("methods", "method") \/ ReadCount("attributes", "attribute")
  \/ ReadCount("enums", "enum") \/ ParseAttribute \/ ParseEnumInfo
  \/ TypesDecoded \/ SymbolsDecoded

TableSpec == Init /\ [][DecodeStep]_vars

--------------------------------------------------------------------------------
(* Properties.  `meant` is what the PLC encoded; `harm` says what became of it: *)
(* nothing, one number `inside` an entry (of type `entry`, in its field `field`,*)
(* or of symbol `symbol`), its `size`, or all behind some point (`cut`).        *)

(* A slice lies in the slice around it, and in the part that has been stepped   *)
(* over there: whatever sizes the PLC writes, no entry is read past its end and *)
(* none is read twice (type.rs:287-297, 330-340, 559-562, 572-585, 723-733).    *)
SlicesNest ==
  \A i \in DOMAIN stack :
    /\ 0 <= stack[i].ptr /\ stack[i].ptr <= stack[i].end /\ stack[i].end <= Len(data)
    /\ i < Len(stack) => stack[i + 1].end <= stack[i].ptr

(* What the PLC meant is what is decoded, from the tables and from the answer   *)
(* about one type alike, and no part of it is an error or a panic               *)
(* (type.rs:397-440, 485-620, 655-743).                                         *)
RoundTrip ==
  upload.harm = "none" =>
    /\ pc \notin {"error", "panic"}
    /\ pc = "done" => types = upload.meant.types /\ symbols = upload.meant.symbols

(* A wrong number inside an entry costs that entry, or the whole decoding; it   *)
(* never moves what comes behind (`rest`, type.rs:297, 340, 562, 573, 585, 731).*)
DamageIsContained ==
  upload.harm = "inside" /\ pc = "done" =>
    LET meant == upload.meant
        Same(a, b, except) ==
          Len(a) = Len(b) /\ \A i \in DOMAIN a : i # except => a[i] = b[i] IN
      /\ Same(types, meant.types, upload.entry)
      /\ Same(symbols, meant.symbols, upload.symbol)
      /\ upload.field # 0 =>
           Same(types[upload.entry].kids, meant.types[upload.entry].kids, upload.field)

(* Half an entry is never taken for a whole one (type.rs:560, 573, 585, 731).   *)
CutIsRefused == upload.harm = "cut" => pc # "done"
================================================================================

-------------------------- MODULE MCDynamicSymbols --------------------------
(* Small instances of DynamicSymbols for TLC: types, the tables a PLC makes of  *)
(* them (tests/test_symbol.rs:19-68), and every single number of a table wrong. *)
EXTENDS DynamicSymbols, SymbolFormat, SequencesExt

--------------------------------------------------------------------------------
(* Types and symbols. *)

Plain(kind, name, typ, size, offset, base) ==
  [NewItem(kind) EXCEPT !.name = name, !.typ = typ, !.size = size, !.offset = offset,
                        !.base_type = base]
Holding(item, kids) == [item EXCEPT !.kids = kids]
Field(name, typ, size, offset, base) == Plain("field", <<name>>, typ, size, offset, base)
Struct(name, size, fields) == Holding(Plain("type", <<name>>, <<>>, size, 0, 65), fields)
Symbol(name, typ, size, base) == Plain("symbol", name, typ, size, 7, base)
Attr(name, value) == [kind |-> "attribute", name |-> name, value |-> value]

(* The table of a PLC: with `extra`, fields have what the decoder drops.        *)
Named(s) == s \o <<0>>
Sized(body) == <<Len(body) + 1>> \o body
Of(item, kind) == SelectSeq(item.kids, LAMBDA k : k.kind = kind)
Bit(bit, set) == IF set THEN bit ELSE 0
Counted(list, Encode(_)) == <<Len(list)>> \o FlattenSeq([i \in DOMAIN list |-> Encode(list[i])])
EncodeAttr(a) == <<Len(a.name), Len(a.value)>> \o Named(a.name) \o Named(a.value)
EncodeEnum(e) == <<Len(e.name)>> \o Named(e.name) \o e.value
Attrs(item) ==
  IF Of(item, "attribute") = <<>> THEN <<>> ELSE Counted(Of(item, "attribute"), EncodeAttr)
HasAttrs(item) == Bit(8, Of(item, "attribute") # <<>>)

EncodeParameter(p) ==
  Sized(<<p.size, HasAttrs(p), Len(p.name), Len(p.typ)>> \o Named(p.name) \o Named(p.typ)
          \o Attrs(p))
EncodeMethod(m) ==
  LET parameters == Of(m, "parameter") IN
  Sized(<<m.size, HasAttrs(m), Len(m.name), Len(m.typ), Len(parameters)>> \o Named(m.name)
          \o Named(m.typ)
          \o FlattenSeq([i \in DOMAIN parameters |-> EncodeParameter(parameters[i])]) \o Attrs(m))

Header(item, flags, subs) ==
  <<1, item.size, IF item.offset = None THEN Elsewhere ELSE item.offset, item.base_type, flags,
    Len(item.name), Len(item.typ), Len(item.array), subs>>
    \o Named(item.name) \o Named(item.typ) \o item.array

Method1 == [NewItem("method") EXCEPT !.name = <<6>>]

EncodeField(f, extra) ==
  Sized(Header(f, Bit(7, extra) + HasAttrs(f), 0)
          \o (IF extra THEN <<3>> \o [i \in 1 .. f.size |-> 4] \o Counted(<<Method1>>, EncodeMethod)
              ELSE <<>>) \o Attrs(f))
EncodeType(t, extra) ==
  LET fields == Of(t, "field") guid == Of(t, "guid") IN
  Sized(Header(t, Bit(3, guid # <<>>) + Bit(4, Of(t, "method") # <<>>) + HasAttrs(t)
                    + Bit(16, Of(t, "enum") # <<>>), Len(fields))
          \o FlattenSeq([i \in DOMAIN fields |-> EncodeField(fields[i], extra)])
          \o (IF guid = <<>> THEN <<>> ELSE <<guid[1].value>> \o [i \in 1 .. t.size |-> 4])
          \o (IF Of(t, "method") = <<>> THEN <<>> ELSE Counted(Of(t, "method"), EncodeMethod))
          \o Attrs(t)
          \o (IF Of(t, "enum") = <<>> THEN <<>> ELSE Counted(Of(t, "enum"), EncodeEnum)))
EncodeSymbol(s) ==     \* with a comment that is jumped over
  Sized(<<s.offset, s.size, s.base_type, Len(s.name), Len(s.typ)>> \o Named(s.name)
          \o Named(s.typ) \o <<5, 0>>)

Upload(list, symbol_list, extra) ==
  [way |-> "bulk", types |-> FlattenSeq([i \in DOMAIN list |-> EncodeType(list[i], extra)]),
   symbols |-> FlattenSeq([i \in DOMAIN symbol_list |-> EncodeSymbol(symbol_list[i])]),
   declared |-> 0, meant |-> [types |-> list, symbols |-> symbol_list],
   harm |-> "none", entry |-> 0, field |-> 0, symbol |-> 0]

ByName(type, extra) ==
  [Upload(<<type>>, <<>>, extra) EXCEPT !.way = "by_name", !.declared = Len(EncodeType(type, extra))]

--------------------------------------------------------------------------------
(* Every table with one number wrong, or cut. *)

Wrong == {0, 1, 2, 3, 5, 40, Elsewhere}

(* Where the i-th of these entries begins, and which one holds position p.      *)
Start(entries, i) == 1 + Len(FlattenSeq(SubSeq(entries, 1, i - 1)))
Holder(entries, p) ==
  CHOOSE i \in DOMAIN entries : Start(entries, i) <= p /\ p < Start(entries, i + 1)

FieldAt(type, extra, p) ==
  LET fields == [i \in DOMAIN Of(type, "field") |-> EncodeField(Of(type, "field")[i], extra)]
      first == 10 + Len(Named(type.name) \o Named(type.typ) \o type.array)
      q == p - first IN
    IF q \in 1 .. Len(FlattenSeq(fields)) /\ q # Start(fields, Holder(fields, q))
    THEN Holder(fields, q) ELSE 0

WrongTypes(u, extra) ==
  LET entries == [i \in DOMAIN u.meant.types |-> EncodeType(u.meant.types[i], extra)] IN
  { LET k == Holder(entries, p) IN
    [u EXCEPT !.types[p] = w, !.harm = IF p = Start(entries, k) THEN "size" ELSE "inside",
              !.entry = k, !.field = FieldAt(u.meant.types[k], extra, p - Start(entries, k) + 1)]
      : p \in DOMAIN u.types, w \in Wrong }

WrongSymbols(u) ==
  LET entries == [i \in DOMAIN u.meant.symbols |-> EncodeSymbol(u.meant.symbols[i])] IN
  { LET k == Holder(entries, p) IN
    [u EXCEPT !.symbols[p] = w, !.harm = IF p = Start(entries, k) THEN "size" ELSE "inside",
              !.symbol = k]
      : p \in DOMAIN u.symbols, w \in Wrong }

Cut(u, extra) ==
  LET entries == [i \in DOMAIN u.meant.types |-> EncodeType(u.meant.types[i], extra)]
      whole == {Start(entries, i) - 1 : i \in 1 .. Len(entries)} \cup {Len(u.types)} IN
  { [u EXCEPT !.types = SubSeq(u.types, 1, n), !.harm = "cut", !.declared = n]
      : n \in (0 .. Len(u.types)) \ (IF u.way = "bulk" THEN whole ELSE {Len(u.types)}) }

CutSymbols(u) ==
  LET entries == [i \in DOMAIN u.meant.symbols |-> EncodeSymbol(u.meant.symbols[i])]
      whole == {Start(entries, i) - 1 : i \in 1 .. Len(entries)} \cup {Len(u.symbols)} IN
  { [u EXCEPT !.symbols = SubSeq(u.symbols, 1, n), !.harm = "cut"]
      : n \in (0 .. Len(u.symbols)) \ whole }

--------------------------------------------------------------------------------
(* Where in a table what was put. *)

Positions(at, parts) ==
  [i \in 1 .. Len(parts) + 1 |-> at + Len(FlattenSeq(SubSeq(parts, 1, i - 1)))]
Each(item, kind, Encode(_)) == [i \in DOMAIN Of(item, kind) |-> Encode(Of(item, kind)[i])]

Placed(item, at, flags, encoded, inner, methods) ==
  LET a == [item |-> item, at |-> at, flags |-> flags, end |-> at + Len(encoded)]
      b == a @@ [inner |-> Positions(ArrayAt(a) + Len(item.array), inner)]
      c == b @@ [methods |-> Positions(MethodsAt(b) + Width(Has(b, 4), 1), methods)]
      d == c @@ [attributes |-> Positions(AttributesAt(c) + Width(Has(c, 8), 1),
                                          Each(item, "attribute", EncodeAttr))] IN
    d @@ [enums |-> Positions(EnumsAt(d) + Width(Has(d, 16), 1), Each(item, "enum", EncodeEnum))]

PlacedParameter(p, at) == Placed(p, at, HasAttrs(p), EncodeParameter(p), <<>>, <<>>)
PlacedMethod(m, at) ==
  LET parameters == Of(m, "parameter")
      e == Placed(m, at, HasAttrs(m), EncodeMethod(m), Each(m, "parameter", EncodeParameter), <<>>) IN
    {e} \cup {PlacedParameter(parameters[i], e.inner[i]) : i \in DOMAIN parameters}
PlacedField(f, at, extra) ==
  LET e == Placed(f, at, Bit(7, extra) + HasAttrs(f), EncodeField(f, extra), <<>>,
                  IF extra THEN <<EncodeMethod(Method1)>> ELSE <<>>) IN
    {e} \cup (IF extra THEN PlacedMethod(Method1, e.methods[1]) ELSE {})
PlacedType(t, at, extra) ==
  LET fields == Of(t, "field")
      methods == Of(t, "method")
      encoded == EncodeType(t, extra)
      e == Placed(t, at, encoded[6], encoded,
                  [i \in DOMAIN fields |-> EncodeField(fields[i], extra)],
                  Each(t, "method", EncodeMethod)) IN
    {e} \cup UNION {PlacedField(fields[i], e.inner[i], extra) : i \in DOMAIN fields}
        \cup UNION {PlacedMethod(methods[i], e.methods[i]) : i \in DOMAIN methods}
PlacedSymbol(s, at) == {Placed(s, at, 0, EncodeSymbol(s), <<>>, <<>>)}

(* Of a table with a wrong number, the slices it is in are not known, but for   *)
(* that of the type whose field it is in.                                       *)
LayoutFor(table, harm, field, parts, Place(_, _)) ==
  LET clean == FlattenSeq(parts)
      rows == Positions(0, parts)
      whole == IF harm = "cut" THEN clean ELSE table
      wrong == {p \in DOMAIN clean : whole[p] # clean[p]}
      all == UNION {Place(i, rows[i]) : i \in DOMAIN parts}
      known == {e \in all : \/ ~ \E p \in wrong : e.at < p /\ p <= e.end
                            \/ field # 0 /\ e.item.kind = "type"} IN
    [whole |-> whole, rows |-> rows,
     entry |-> [x \in {e.at : e \in known} |-> CHOOSE e \in known : e.at = x]]

NoLayout == [whole |-> <<>>, rows |-> <<0>>, entry |-> <<>>]
LayoutOfUpload(u) ==
  LET Parts(extra) == [i \in DOMAIN u.meant.types |-> EncodeType(u.meant.types[i], extra)]
      Fits(extra) == LET clean == FlattenSeq(Parts(extra)) IN
                     IF u.harm = "cut" THEN IsPrefix(u.types, clean)
                     ELSE Len(u.types) = Len(clean)
      extra == Fits(TRUE)
      encoded == Parts(extra) IN
    IF u.harm = "size" THEN [types |-> NoLayout, symbols |-> NoLayout]
    ELSE [types |-> LayoutFor(u.types, u.harm, u.field, encoded,
                              LAMBDA i, at : PlacedType(u.meant.types[i], at, extra)),
          symbols |-> LayoutFor(u.symbols, u.harm, 0,
                                [i \in DOMAIN u.meant.symbols |-> EncodeSymbol(u.meant.symbols[i])],
                                LAMBDA i, at : PlacedSymbol(u.meant.symbols[i], at))]

--------------------------------------------------------------------------------
(* The instances. *)

Rich ==     \* every part there is
  Holding(Plain("type", <<1>>, <<>>, 3, 0, 65),
    << Holding(Field(21, <<>>, 2, 0, 2), <<Attr(<<8>>, <<>>)>>),
       [Field(22, <<2>>, 1, None, 16) EXCEPT !.array = <<3>>],
       [kind |-> "guid", value |-> 9],
       Holding([NewItem("method") EXCEPT !.name = <<5>>, !.typ = <<>>, !.size = 2],
         <<[NewItem("parameter") EXCEPT !.name = <<6>>, !.size = 1], Attr(<<>>, <<4>>)>>),
       Attr(<<7>>, <<9>>) >>)
Enum ==
  Holding(Plain("type", <<2>>, <<>>, 1, 0, 16),
    << [kind |-> "enum", name |-> <<4>>, value |-> <<0>>],
       [kind |-> "enum", name |-> <<3>>, value |-> <<1>>] >>)

Main == <<13>>
RichUpload(extra) ==
  Upload(<<Rich, Enum>>, <<Symbol(<<3>>, <<1>>, 3, 65), Symbol(<<4>>, <<2>>, 1, 16)>>, extra)

Harmed ==
  UNION { {RichUpload(x), ByName(Rich, x), ByName(Enum, x)} \cup WrongTypes(RichUpload(x), x)
            \cup Cut(RichUpload(x), x) \cup Cut(ByName(Rich, x), x)
            \cup WrongTypes(ByName(Rich, x), x) \cup WrongTypes(ByName(Enum, x), x)
            : x \in BOOLEAN }
    \cup WrongSymbols(RichUpload(FALSE)) \cup CutSymbols(RichUpload(FALSE))
    \cup { [ByName(Enum, FALSE) EXCEPT !.declared = n, !.harm = "size"] : n \in {0, 1, 30, 121} }

(* The types a field may have, with the entries they need. *)
Kinds ==
  { [base |-> b, size |-> Bytes(b), typ |-> <<>>, need |-> <<>>]
      : b \in {2, Uint, 21, 32, 33} }
  \cup { [base |-> s[1], size |-> s[2], typ |-> <<>>, need |-> <<>>]
           : s \in {<<0, 2>>, <<30, 3>>, <<31, 4>>, <<31, 3>>, <<77, 2>>} }
  \cup { [base |-> 65, size |-> t.size, typ |-> t.name, need |-> <<t>>]
           : t \in { Struct(3, 4, <<>>),
                     Struct(4, 5, <<Field(41, <<>>, 2, 0, Uint), Field(42, <<>>, 3, 2, 30)>>),
                     Struct(5, 6, <<Field(31, <<>>, 2, 0, Uint), Field(32, <<>>, 2, 2, Uint),
                                    Field(33, <<>>, 2, 4, Uint)>>),
                     Struct(6, 6, <<Field(31, <<>>, 2, 0, Uint), Field(32, <<>>, 2, 2, Uint),
                                    Field(33, <<>>, 2, 4, 30)>>) } }
  \cup { [base |-> 65, size |-> 2, typ |-> <<9>>, need |-> <<>>] }

Compounds == {k \in Kinds : k.base = 65}

Layouts ==
  { Upload(<<Struct(1, 16, <<Field(21, j.typ, j.size, 0, j.base), Field(22, k.typ, k.size, at, k.base)>>)>>
             \o j.need \o (IF j = k THEN <<>> ELSE k.need), <<Symbol(<<3>>, <<1>>, 16, 65)>>, FALSE)
      : j \in Kinds, k \in Kinds, at \in {2, 6, 20, None} }
  \cup { Upload(k.need, <<Symbol(<<3>>, k.typ, k.size, k.base)>>, FALSE) : k \in Kinds }
  \cup { Upload(<<Struct(1, 8, <<Field(21, j.typ, j.size, 0, j.base), Field(22, <<>>, 2, 6, 2),
                                 Field(21, k.typ, k.size, at, k.base)>>)>> \o j.need \o k.need,
                 <<Symbol(<<3>>, <<1>>, 8, 65)>>, FALSE)     \* one name twice
           : j \in Compounds, k \in Compounds, at \in {0, 4} }
  \cup { Upload(<<Struct(1, 4, <<Field(21, <<1>>, 4, 0, 65)>>)>>, <<Symbol(<<3>>, <<1>>, 4, 65)>>,
                FALSE) }                                    \* a type within itself

SmallUploads == Harmed \cup Layouts
SmallLayouts == [u \in SmallUploads |-> LayoutOfUpload(u)]
Capitals(n) == n % 10
TimeNames == << <<31>>, <<32>>, <<33>> >>
SecondName == <<32>>
WantedNames == {Main, <<99>>}
SampleLengths == 0 .. 8 \cup {10, 16, 17, 24}
================================================================================

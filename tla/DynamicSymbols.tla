--------------------------- MODULE DynamicSymbols ---------------------------
(***************************************************************************)
(* From the tables of the PLC to values (ads.rs, symbol/): the tables are  *)
(* decoded (SymbolTables), the tree of a symbol's type is built, flattened *)
(* to a map, and the samples that come are read with both (SymbolLayout).  *)
(*                                                                         *)
(* The tables were read when the tree was built; a sample may be shorter   *)
(* or longer than the size asked for then, if the program of the PLC has   *)
(* changed since.                                                          *)
(*                                                                         *)
(* A tree is a function from paths to nodes.  The three recursions, over a *)
(* type, to flatten its tree and to read with it, are lists of the calls   *)
(* that are still to come (`walk`), in the order the code makes them.      *)
(***************************************************************************)
EXTENDS SymbolTables, SymbolLayout

CONSTANTS
  Wanted,       \* the symbols the application asks for
  Lengths,      \* bound: lengths of samples
  Lower(_)      \* to_lowercase of a letter

ASSUME SymbolConstants == NoOffset = None /\ None \notin Nat /\ Lengths \subseteq Nat

VARIABLES
  task,         \* "idle", "tree", "map", "read": what is being walked; or "panic"
  walk,         \* the calls that are still to come
  tree,         \* the type tree
  length,       \* the length both subscriptions ask for
  type_map,     \* the descriptors the map subscription reads with
  sample,       \* the length of the sample that came
  as_tree,      \* what recv() makes of it, subscribed as a tree
  as_map        \* and as a map

sample_vars == <<sample, as_tree, as_map>>
layout_vars == <<task, walk, tree, length, type_map, sample_vars>>
all_vars == <<vars, layout_vars>>

SymbolsInit ==
  /\ Init
  /\ task = "idle" /\ walk = <<>>
  /\ tree = <<>> /\ length = 0 /\ type_map = <<>>
  /\ sample = 0 /\ as_tree = <<>> /\ as_map = <<>>

Call == Head(walk)
Return == walk' = Tail(walk)

--------------------------------------------------------------------------------
(* get_dynamic_type_tree *)

LowerCase(name) == [i \in DOMAIN name |-> Lower(name[i])]

(* Of several the last counts. *)
IsLast(i, places) == i \in places /\ \A j \in places : j <= i

(* A node: its shape, the names of its fields in order, and its offset in the   *)
(* struct around.  `at` is history: where in a sample it is, if it has a place. *)
Node(shape, base, size, offset, at) ==
  [shape |-> shape, base |-> base, size |-> size, kids |-> <<>>, offset |-> offset, at |-> at]

(* try_from_type_or_field: for the symbol, or for a part of the struct at `path`*)
(* that is within these types.                                                  *)
TypeCall(path, item, within) == [path |-> path, item |-> item, within |-> within]

(* The last symbol of that name, whatever its case. *)
GetDynamicTypeTree(name) ==
  /\ pc = "done" /\ upload.way = "bulk" /\ task = "idle"
  /\ LET called == {i \in DOMAIN symbols : LowerCase(symbols[i].name) = LowerCase(name)} IN
       \/ /\ called = {}
          /\ tree' = Only(<<>>, Node("missing", 0, 0, 0, 0))
          /\ UNCHANGED walk
       \/ \E i \in DOMAIN symbols :
            /\ IsLast(i, called)
            /\ walk' = <<TypeCall(<<>>, symbols[i], {})>>
            /\ UNCHANGED tree
  /\ task' = "tree"
  /\ UNCHANGED <<vars, length, type_map, sample_vars>>

Typing == task = "tree" /\ walk # <<>>

(* try_from_symbol, before any try_from_field. *)
First == DOMAIN tree = {}

PathOf(call) == IF First THEN <<>> ELSE Append(call.path, call.item.name)

Sum(at, offset) == IF NoOffset \in {at, offset} THEN NoOffset ELSE at + offset

IsUnder(path, p) == Len(p) > Len(path) /\ SubSeq(p, 1, Len(path)) = path

(* struct_map.insert: a second field of one name takes the place of the first.  *)
InsertField(t, outer, name, node) ==
  LET path == Append(outer, name)
      others == {p \in DOMAIN t : ~IsUnder(path, p)} IN
  [p \in others \cup {path} |->
     CASE p = path -> node
       [] p = outer ->
            [t[outer] EXCEPT !.kids = IF path \in DOMAIN t THEN @ ELSE Append(@, name)]
       [] OTHER -> t[p]]

Put(call, shape, size) ==
  LET field == call.item IN
  /\ \/ First /\ tree' = Only(<<>>, Node(shape, field.base_type, size, 0, 0))
     \/ /\ ~First
        /\ tree' = InsertField(tree, call.path, field.name,
                               Node(shape, field.base_type, size, field.offset,
                                    Sum(tree[call.path].at, field.offset)))
  /\ UNCHANGED <<vars, task, length, type_map, sample_vars>>

(* What else a type holds has no part in its tree. *)
NotAField ==
  /\ Typing /\ ~First /\ Call.item.kind # "field"
  /\ Return
  /\ UNCHANGED <<vars, task, tree, length, type_map, sample_vars>>

(* A type that stands for itself; or one that is not in the tables, which is an *)
(* error, of which every caller makes Unknown(size).                            *)
TypeIsSimple ==
  /\ Typing /\ (First \/ Call.item.kind = "field")
  /\ \/ Call.item.base_type # 65 /\ Put(Call, FromTypeId(Call.item.base_type), Call.item.size)
     \/ /\ Call.item.base_type = 65
        /\ \A i \in DOMAIN types : types[i].name # Call.item.typ
        /\ Put(Call, "unknown", Call.item.size)
  /\ Return

(* Of two types of one name the map has the last.  Without fields it is taken   *)
(* for an array.  A type within itself is a recursion without end.              *)
TypeIsCompound ==
  /\ Typing /\ (First \/ Call.item.kind = "field") /\ Call.item.base_type = 65
  /\ LET named == {i \in DOMAIN types : types[i].name = Call.item.typ} IN
     \E i \in DOMAIN types :
       /\ IsLast(i, named)
       /\ LET kids == types[i].kids
              fields == [k \in DOMAIN kids |->
                TypeCall(PathOf(Call), kids[k], Call.within \cup {Call.item.typ})]
              has_fields == \E k \in DOMAIN kids : kids[k].kind = "field" IN
          \/ ~has_fields /\ Put(Call, "array", Call.item.size) /\ Return
          \/ /\ has_fields /\ Call.item.typ \notin Call.within
             /\ Put(Call, "struct", types[i].size)
             /\ walk' = fields \o Tail(walk)
          \/ /\ has_fields /\ Call.item.typ \in Call.within
             /\ task' = "panic"
             /\ UNCHANGED <<vars, walk, tree, length, type_map, sample_vars>>

--------------------------------------------------------------------------------
(* subscribe_tree and subscribe_map; SymbolTypeMap::from_tree *)

(* from_tree for the node at `path`, its key in the map so far and its place;   *)
(* and for its fields.                                                          *)
MapCall(path, key, at) == [path |-> path, key |-> key, at |-> at]

(* Mutant of MapFields: offsets from the struct around, not from the root.      *)
MapFieldsNear(call) ==
  LET Field(name) == Append(call.path, name) IN
  [k \in DOMAIN tree[call.path].kids |->
     LET name == tree[call.path].kids[k] IN
       MapCall(Field(name), JoinPath(call.key, name), tree[Field(name)].offset)]

MapFields(call) ==
  LET Field(name) == Append(call.path, name) IN
  [k \in DOMAIN tree[call.path].kids |->
     LET name == tree[call.path].kids[k] IN
       MapCall(Field(name), JoinPath(call.key, name), Sum(call.at, tree[Field(name)].offset))]

Subscribe ==
  /\ task = "tree" /\ walk = <<>>
  /\ length' = GetSize(tree[<<>>])
  /\ task' = "map"
  /\ walk' = <<MapCall(<<>>, <<>>, 0)>>
  /\ UNCHANGED <<vars, tree, type_map, sample_vars>>

IsTimeStruct(node) == node.shape = "struct" /\ node.kids = TimeKeys
Part(path, i) == tree[Append(path, TimeKeys[i])]
Timely(path) ==
  \A i \in DOMAIN TimeKeys : LET part == Part(path, i) IN
    part.offset # NoOffset /\ part.shape = "number" /\ part.base = Uint

Descriptor(shape, node, parts, at) ==
  [shape |-> shape, base |-> node.base, size |-> node.size, parts |-> parts, at |-> at]

(* Mutant of MapStep: arrays and unknown types are left out. *)
MapStepNoArrays ==
  /\ task = "map" /\ walk # <<>>
  /\ LET node == tree[Call.path]
         left_out == Call.at = NoOffset \/ node.shape \in {"missing", "array", "unknown"} IN
       \/ left_out /\ Return /\ UNCHANGED type_map
       \/ /\ ~left_out /\ node.shape = "struct"
          /\ walk' = MapFields(Call) \o Tail(walk)
          /\ UNCHANGED type_map
       \/ /\ ~left_out /\ node.shape # "struct"
          /\ type_map' = Insert(type_map, Call.key, Descriptor(node.shape, node, <<>>, Call.at))
          /\ Return
  /\ UNCHANGED <<vars, task, tree, length, sample_vars>>

(* What is at which path; arrays and unknown types as raw bytes. *)
MapStep ==
  /\ task = "map" /\ walk # <<>>
  /\ LET node == tree[Call.path]
         Entry(shape, parts) ==
           type_map' = Insert(type_map, Call.key, Descriptor(shape, node, parts, Call.at)) IN
       \/ /\ \/ Call.at = NoOffset \/ node.shape = "missing"
             \/ IsTimeStruct(node) /\ ~Timely(Call.path)
          /\ Return /\ UNCHANGED type_map
       \/ /\ Call.at # NoOffset /\ node.shape # "missing"
          /\ \/ /\ IsTimeStruct(node) /\ Timely(Call.path)
                /\ Entry("time", [i \in DOMAIN TimeKeys |-> Part(Call.path, i).offset])
                /\ Return
             \/ /\ node.shape = "struct" /\ ~IsTimeStruct(node)
                /\ walk' = MapFields(Call) \o Tail(walk)
                /\ UNCHANGED type_map
             \/ node.shape \in {"array", "unknown"} /\ Entry("void", <<>>) /\ Return
             \/ /\ node.shape \notin {"struct", "array", "unknown"}
                /\ Entry(node.shape, <<>>) /\ Return
  /\ UNCHANGED <<vars, task, tree, length, sample_vars>>

--------------------------------------------------------------------------------
(* recv(), in both subscriptions; SymbolTree::from_bytes *)

(* from_bytes for the node at `path`, and for the fields of a struct there.     *)
ReadCall(path, at) == [path |-> path, at |-> at]

TreeFields(call) ==
  LET Field(name) == Append(call.path, name) IN
  [k \in DOMAIN tree[call.path].kids |->
     LET name == tree[call.path].kids[k] IN
       ReadCall(Field(name), Sum(call.at, tree[Field(name)].offset))]

Recv(n) ==
  /\ task = "map" /\ walk = <<>>
  /\ sample' = n
  /\ as_map' = ReadMap(type_map, n)
  /\ task' = "read"
  /\ walk' = <<ReadCall(<<>>, 0)>>
  /\ UNCHANGED <<vars, tree, length, type_map, as_tree>>

(* The value at a path; a struct is at its path too. *)
ReadStep ==
  /\ task = "read" /\ walk # <<>>
  /\ LET node == tree[Call.path]
         here == Call.at # NoOffset /\ Call.at <= sample
         Read(value) == as_tree' = Insert(as_tree, Call.path, value) IN
       \/ ~here /\ Read(Failed("missing")) /\ Return
       \/ /\ here /\ node.shape = "struct"
          /\ Read(Value("struct", 65, Call.at, node.size))
          /\ walk' = TreeFields(Call) \o Tail(walk)
       \/ here /\ node.shape # "struct" /\ Read(ReadLeaf(node, Call.at, sample)) /\ Return
  /\ UNCHANGED <<vars, task, tree, length, type_map, sample, as_map>>

Received == task = "read" /\ walk = <<>>

Finished ==
  /\ \/ pc \in {"error", "panic"} \/ task = "panic" \/ Received
     \/ pc = "done" /\ upload.way = "by_name"
  /\ UNCHANGED all_vars

SymbolsNext ==
  \/ DecodeStep /\ UNCHANGED layout_vars
  \/ \E name \in Wanted : GetDynamicTypeTree(name)
  \/ NotAField \/ TypeIsSimple \/ TypeIsCompound
  \/ Subscribe \/ MapStep
  \/ (\E n \in Lengths : Recv(n)) \/ ReadStep
  \/ Finished

SymbolsSpec == SymbolsInit /\ [][SymbolsNext]_all_vars

--------------------------------------------------------------------------------
(* Properties.  A path is written with periods: with an empty name in it, it    *)
(* may be that of another field.                                                *)

NoEmptyName == \A p \in DOMAIN tree : \A i \in DOMAIN p : p[i] # <<>>

(* Every field lies within its struct, and wide strings are of whole words.     *)
Sound ==
  \A p \in DOMAIN tree : tree[p].at # NoOffset =>
    /\ tree[p].shape = "wstring" => tree[p].size % 2 = 0
    /\ p # <<>> => tree[p].offset + GetSize(tree[p]) <= tree[SubSeq(p, 1, Len(p) - 1)].size

(* A struct with the names of a time, but not made like one: the map has nothing*)
(* of it.                                                                       *)
Lost(path) ==
  \E n \in 0 .. Len(path) :
    LET p == SubSeq(path, 1, n) IN IsTimeStruct(tree[p]) /\ ~Timely(p)

(* A sample of the size that was asked for is read to the end, by both          *)
(* subscriptions, without panic and without a malformed value; only fields      *)
(* placed elsewhere are missing.  The size and the widths that are read are     *)
(* written down in two places (type_tree.rs:39-62; tree.rs:54-156;              *)
(* map.rs:291-378).                                                             *)
FullSamplesAreRead ==
  Received /\ NoEmptyName /\ Sound /\ sample >= length =>
    /\ ~Panics(as_tree) /\ ~Panics(as_map)
    /\ \A k \in DOMAIN as_map : as_map[k].what # "malformed"
    /\ \A p \in DOMAIN as_tree :
         as_tree[p].what = "missing" => ValueAt(as_map, p).what = "missing"
    /\ Deserializes(as_tree) \/ \E p \in DOMAIN as_tree : as_tree[p].what = "unknown"

(* What the map says of a key, and what the tree says. *)
Agree(key, value) ==
  LET seen == ValueAt(as_tree, key) IN
    CASE value.what = "time" ->
           IF key = <<>> THEN seen.what = "struct" ELSE GetTimestamp(as_tree, key) = value.at
      [] value.what = "malformed" ->
           seen.what = "malformed" \/ (seen.what = "struct" /\ GetTimestamp(as_tree, key) = <<>>)
      [] value.what = "void" ->
           seen.what = "unknown" \/ (seen.what \in {"array", "void"}
                                      /\ seen.at = value.at /\ seen.size = value.size)
      [] OTHER -> seen = value

(* Both subscriptions tell the same of a sample of any length, wherever the     *)
(* fields are, as long as neither panics: the same bytes under the same path,   *)
(* the same date, the root's excepted; what the map leaves out is elsewhere,    *)
(* beyond the sample, or in a struct that is nearly a time (tree.rs:41-215;     *)
(* map.rs:91-262).                                                              *)
TreeAndMapAgree ==
  Received /\ NoEmptyName /\ ~Panics(as_tree) /\ ~Panics(as_map) =>
    /\ \A k \in DOMAIN as_map : Agree(k, as_map[k])
    /\ \A p \in DOMAIN as_tree : as_tree[p].what \notin {"struct", "missing"} =>
         Lost(p) \/ \E n \in 0 .. Len(p) : SubSeq(p, 1, n) \in DOMAIN as_map

(* Where a short sample panics the tree it panics the map: the tree is the safer*)
(* of the two (tree.rs:46-52; map.rs:292), but for structs the map leaves out.  *)
MapPanicsWithTree ==
  Received /\ NoEmptyName /\ Panics(as_tree) =>
    Panics(as_map) \/ \E p \in DOMAIN as_tree : Lost(p)
================================================================================

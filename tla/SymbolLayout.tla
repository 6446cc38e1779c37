---------------------------- MODULE SymbolLayout ----------------------------
(***************************************************************************)
(* symbol/type_tree.rs, tree.rs, map.rs: the types a symbol is made of,    *)
(* their sizes, and what is read of them at an offset of a sample.  The    *)
(* recursions over trees are the steps of DynamicSymbols.                  *)
(*                                                                         *)
(* A sample is known by its length.  A value is where it was read: its     *)
(* kind, its offset and its width; or "missing", "malformed", "unknown",   *)
(* or "panic" where the code panics.  A map is a function from its keys:   *)
(* the order of an IndexMap decides nothing here.                          *)
(***************************************************************************)
EXTENDS Integers, Sequences

CONSTANTS
  TimeKeys,     \* TIMESTRUCT_KEYS, in order
  DayOfWeek,    \* the one of them that is not needed for a date
  NoOffset      \* the offset of a field placed elsewhere

(* IndexMap::insert *)
Insert(map, key, value) ==
  [k \in DOMAIN map \cup {key} |-> IF k = key THEN value ELSE map[k]]

Only(key, value) == [k \in {key} |-> value]

Uint == 18
Numbers == {2, 3, 4, 5, 16, 17, Uint, 19, 20, 21, 32, 33}

--------------------------------------------------------------------------------
(* type_tree.rs *)

FromTypeId(base) ==
  CASE base \in Numbers -> "number"
    [] base = 0 -> "void"
    [] base = 30 -> "string"
    [] base = 31 -> "wstring"
    [] base = 65 -> "compound"
    [] OTHER -> "unknown"

(* Mutant of GetSize: REAL80 as 8 bytes. *)
GetSizeShort(node) ==
  IF node.shape # "number" THEN node.size
  ELSE CASE node.base \in {16, 17, 33} -> 1 [] node.base \in {2, Uint} -> 2
         [] node.base \in {3, 4, 19} -> 4 [] OTHER -> 8

(* get_size *)
GetSize(node) ==
  IF node.shape # "number" THEN node.size
  ELSE CASE node.base \in {16, 17, 33} -> 1 [] node.base \in {2, Uint} -> 2
         [] node.base \in {3, 4, 19} -> 4 [] node.base \in {5, 20, 21} -> 8
         [] node.base = 32 -> 10

--------------------------------------------------------------------------------
(* tree.rs *)

Value(what, base, at, size) == [what |-> what, base |-> base, at |-> at, size |-> size]
Failed(what) == Value(what, 0, 0, 0)

(* The bytes of i16, i32, f32, f64, ... *)
Bytes(base) ==
  CASE base \in {16, 17, 33} -> 1 [] base \in {2, Uint} -> 2
    [] base \in {3, 4, 19} -> 4 [] base \in {5, 20, 21} -> 8 [] base = 32 -> 10

(* Numbers need their bytes or are malformed; the rest is sliced out.  A wide   *)
(* string is sliced word by word, `[i..i + 2]`, before its bytes are looked at. *)
ReadLeaf(leaf, at, length) ==
  CASE leaf.shape = "number" ->
         IF at + Bytes(leaf.base) > length THEN Failed("malformed")
         ELSE Value("number", leaf.base, at, Bytes(leaf.base))
    [] leaf.shape = "wstring" /\ leaf.size % 2 # 0 -> Failed("malformed")
    [] leaf.shape = "missing" -> Failed("missing")
    [] leaf.shape = "unknown" -> Failed("unknown")
    [] OTHER -> IF at + leaf.size > length THEN Failed("panic")
                ELSE Value(leaf.shape, leaf.base, at, leaf.size)

ValueAt(values, path) ==
  IF path \in DOMAIN values THEN values[path] ELSE Failed("missing")

(* get_child: the empty path is one empty name, not the root. *)
GetChild(values, path) == ValueAt(values, IF path = <<>> THEN << <<>> >> ELSE path)

Dated == {i \in DOMAIN TimeKeys : TimeKeys[i] # DayOfWeek}

(* get_timestamp: the offsets of its parts, or none.  The root has no path, so  *)
(* that of a symbol that is itself a time cannot be asked for.                  *)
GetTimestamp(values, path) ==
  LET part == [i \in Dated |-> ValueAt(values, Append(path, TimeKeys[i]))] IN
    IF GetChild(values, path).what = "struct"
         /\ \A i \in Dated : part[i].what = "number" /\ part[i].base = Uint
    THEN [i \in Dated |-> part[i].at]
    ELSE <<>>

(* deserialize_any: one value that is Unknown or Malformed, wanted or not, and  *)
(* the whole tree is refused.                                                   *)
Deserializes(values) == \A p \in DOMAIN values : values[p].what \notin {"unknown", "malformed"}

Panics(values) == \E p \in DOMAIN values : values[p].what = "panic"

--------------------------------------------------------------------------------
(* map.rs *)

(* An empty path takes no period, so an empty name below it changes nothing.    *)
JoinPath(path, name) == IF path = <<>> /\ name = <<>> THEN <<>> ELSE Append(path, name)

(* datetime_from_bytes: the first part that is cut off decides.                 *)
ReadTime(time, length) ==
  LET first == [i \in Dated |-> time.at + time.parts[i]]
      cut == {i \in Dated : first[i] + Bytes(Uint) > length}
      earliest == CHOOSE i \in cut : \A j \in cut : i <= j IN
    CASE cut = {} -> [Failed("time") EXCEPT !.at = first]
      [] cut # {} /\ first[earliest] > length -> Failed("panic")
      [] OTHER -> Failed("malformed")

(* read_from_bytes *)
ReadPrimitive(entry, length) ==
  CASE entry.at > length -> Failed("panic")
    [] entry.at <= length /\ entry.shape = "time" -> ReadTime(entry, length)
    [] OTHER -> ReadLeaf(entry, entry.at, length)

(* SymbolMap::from_bytes *)
ReadMap(map, length) == [k \in DOMAIN map |-> ReadPrimitive(map[k], length)]
================================================================================

----------------------------- MODULE JsonValues -----------------------------
(***************************************************************************)
(* JSON documents as encoding/json hands them to the validators (a         *)
(* map[string]interface{}) and as it decodes them into Go structs.         *)
(* Numbers are counted in halves, so that there are whole ones and others; *)
(* plain says that the text of the number has neither fraction nor         *)
(* exponent, which only the decoding into an integer tells apart.          *)
(***************************************************************************)
EXTENDS Integers, Sequences, TLC

Null == [null |-> TRUE]
Str(s) == [str |-> s]
Bool(b) == [bool |-> b]
Arr(s) == [arr |-> s]
Obj(f) == [obj |-> f]
Num(n) == [num |-> 2 * n, plain |-> TRUE]
Decimal(n) == [num |-> 2 * n, plain |-> FALSE]
NumAndHalf(n) == [num |-> 2 * n + 1, plain |-> FALSE]

IsNull(v) == "null" \in DOMAIN v
IsStr(v) == "str" \in DOMAIN v
IsBool(v) == "bool" \in DOMAIN v
IsArr(v) == "arr" \in DOMAIN v
IsObj(v) == "obj" \in DOMAIN v
IsNum(v) == "num" \in DOMAIN v

\* v.(T) of Go, with the zero value of T when v has another type.
AsStr(v) == IF IsStr(v) THEN v.str ELSE ""
AsBool(v) == IsBool(v) /\ v.bool
AsArr(v) == IF IsArr(v) THEN v.arr ELSE <<>>
AsObj(v) == IF IsObj(v) THEN v.obj ELSE <<>>
AsInt(v) == IF IsNum(v) THEN v.num \div 2 ELSE 0

\* m[k] of a Go map: nil when there is no such key.
Get(o, k) == IF k \in DOMAIN o THEN o[k] ELSE Null

\* The number at a key satisfies a comparison with n, given in halves; FALSE
\* when there is no number.
Below(v, n) == IsNum(v) /\ v.num < 2 * n
Above(v, n) == IsNum(v) /\ v.num > 2 * n

-----------------------------------------------------------------------------
(* json.Unmarshal into a Go type.  A type is [go |-> its kind] with the    *)
(* element type of a list or map, or the fields of a struct.  null leaves  *)
(* the zero value; a key that no field has is skipped.                     *)

RECURSIVE Decodes(_, _)
Decodes(v, type) ==
  \/ IsNull(v)
  \/ type.go = "string" /\ IsStr(v)
  \/ type.go = "bool" /\ IsBool(v)
  \/ type.go = "int" /\ IsNum(v) /\ v.plain
  \/ type.go = "float" /\ IsNum(v)
  \/ type.go = "list" /\ IsArr(v) /\ \A i \in DOMAIN v.arr : Decodes(v.arr[i], type.of)
  \/ type.go = "map" /\ IsObj(v) /\ \A k \in DOMAIN v.obj : Decodes(v.obj[k], type.of)
  \/ type.go = "any"
  \/ type.go = "struct" /\ IsObj(v)
       /\ \A k \in DOMAIN v.obj \cap DOMAIN type.fields : Decodes(v.obj[k], type.fields[k])

-----------------------------------------------------------------------------
(* Editing a document.                                                     *)

\* The document with the value at a path replaced (to = <<v>>) or removed
\* (to = <<>>); a path alternates keys and positions as the document does.
RECURSIVE SetAt(_, _, _)
SetAt(v, path, to) ==
  LET k == Head(path)
      inner == SetAt(IF IsArr(v) THEN v.arr[k] ELSE Get(v.obj, k), Tail(path), to)
  IN  CASE path = <<>> -> to[1]
        [] path # <<>> /\ IsArr(v) -> Arr([v.arr EXCEPT ![k] = inner])
        [] OTHER -> IF Len(path) = 1 /\ to = <<>>
                    THEN Obj([j \in DOMAIN v.obj \ {k} |-> v.obj[j]])
                    ELSE Obj((k :> inner) @@ v.obj)
=============================================================================

--------------------------------- MODULE Json ---------------------------------
(***************************************************************************)
(* JSON values as records, one shape for every kind, and the text a        *)
(* template renders of them.                                               *)
(***************************************************************************)
EXTENDS Integers, Sequences

Lists == INSTANCE SequencesExt

Null == [kind |-> "null"]
Str(text) == [kind |-> "string", text |-> text]
Num(number) == [kind |-> "number", number |-> number]
Array(items) == [kind |-> "array", items |-> items]
Object(fields) == [kind |-> "object", fields |-> fields]

JsonKind == {"null", "string", "number", "array", "object"}

\* The fields of an object.  Fields[key] = v, and all of more at once.
NoFields == [k \in {} |-> Null]
Put(fields, key, v) == [k \in DOMAIN fields \cup {key} |-> IF k = key THEN v ELSE fields[k]]
PutAll(fields, more) ==
  [k \in DOMAIN fields \cup DOMAIN more |-> IF k \in DOMAIN more THEN more[k] ELSE fields[k]]

IsObject(v) == v.kind = "object"
IsArray(v) == v.kind = "array"

\* A string renders as itself, a number as its digits, null as nothing, and
\* anything else as its dump, which is a string of its own.
Rendering(v) == CASE v.kind = "string" -> v
                  [] v.kind = "number" -> Str(v.number)
                  [] v.kind = "null" -> Str("")
                  [] OTHER -> [kind |-> "string", dump |-> v]
==============================================================================

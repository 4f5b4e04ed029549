----------------------------- MODULE CtBuilder ------------------------------
(***************************************************************************)
(* How arg_fuzz reads its constraint tree (src/arg_fuzz.c: jso_count,      *)
(* ct_builder and their calls in main): a first visit of the JSON document *)
(* counts its objects, the table is allocated, and a second visit fills    *)
(* one entry for every object with an id, in two loops over its fields.    *)
(*                                                                         *)
(* A document is the sequence of its objects in the order json_c_visit     *)
(* reaches them, each with its own key and the sequence of its fields in   *)
(* the order of the file; visits of anything but objects do nothing.       *)
(***************************************************************************)
EXTENDS Integers, Sequences

CONSTANTS
  Documents,
  Null,      (* the JSON null                                             *)
  Garbage    (* what malloc leaves in a member                            *)

VARIABLES
  pc,
  doc,         (* the document                                            *)
  o,           (* the object that is visited                              *)
  f,           (* the iterator over its fields                            *)
  id, id_loaded,
  node_count,
  arg_array

vars == <<pc, doc, o, f, id, id_loaded, node_count, arg_array>>

\* The keys that are loaded alike, and what a null means for each.
Flags   == {"must_have"}
Strings == {"operator_value", "operator_sibling", "operator_child"}
Lists   == {"mutex", "dependency_id", "child_id"}
Numbers == {"value_type", "weight"}

NullMeans ==
  [key \in Flags \cup Strings \cup Lists \cup Numbers |->
     CASE key \in Flags   -> FALSE
       [] key \in Strings -> "NULL"
       [] key \in Lists   -> <<>>
       [] key = "value_type" -> 0
       [] key = "weight"     -> 1]

\* Where a value goes: two of the types are lists of numbers.
ValueMember ==
  [type \in 1 .. 4 |-> CASE type \in {1, 2} -> "value_int"
                         [] type = 3 -> "value_char"
                         [] type = 4 -> "value_char_array"]

Members == DOMAIN NullMeans
             \cup {"arg", "must_child", "value_int", "value_char", "value_char_array"}

Field == doc[o].fields[f]
MoreFields == f <= Len(doc[o].fields)

-----------------------------------------------------------------------------
\* Mutant of Arguments: the outermost object is counted.
Arguments_WithRoot(count) == count

\* The outermost object is not an argument.
Arguments(count) == count - 1

\* The first visit, and the allocation of the table.
jso_count ==
  /\ pc = "count"
  /\ IF o <= Len(doc)
     THEN /\ node_count' = node_count + 1
          /\ o' = o + 1
          /\ UNCHANGED <<pc, arg_array>>
     ELSE /\ node_count' = Arguments(node_count)
          /\ arg_array' = [n \in 0 .. node_count' - 1 |-> [m \in Members |-> Garbage]]
          /\ o' = 1
          /\ pc' = "find_id"
  /\ UNCHANGED <<doc, f, id, id_loaded>>

\* Mutant of IdField: ids count from 1.
IdField_FromOne == Field.value + 1

IdField == Field.value

\* One iteration of the first loop, which looks for the id.  An entry outside
\* the table is memory of somebody else.
FindId ==
  /\ pc = "find_id" /\ o <= Len(doc) /\ MoreFields
  /\ f' = f + 1
  /\ IF Field.key = "id"
     THEN /\ id' = IdField
          /\ id_loaded' = TRUE
          /\ IF id' \in DOMAIN arg_array
             THEN arg_array' = [arg_array EXCEPT ![id'].arg = doc[o].key] /\ UNCHANGED pc
             ELSE pc' = "outside" /\ UNCHANGED arg_array
     ELSE UNCHANGED <<pc, id, id_loaded, arg_array>>
  /\ UNCHANGED <<doc, o, node_count>>

\* Mutant of IdFound: an object without an id is loaded too.
IdFound_Always ==
  /\ pc = "find_id" /\ o <= Len(doc) /\ ~ MoreFields
  /\ f' = 1
  /\ pc' = "load"
  /\ UNCHANGED <<doc, o, id, id_loaded, node_count, arg_array>>

\* The end of the first loop.
IdFound ==
  /\ pc = "find_id" /\ o <= Len(doc) /\ ~ MoreFields
  /\ f' = 1
  /\ IF id_loaded THEN pc' = "load" /\ UNCHANGED o
                  ELSE o' = o + 1 /\ UNCHANGED pc
  /\ UNCHANGED <<doc, id, id_loaded, node_count, arg_array>>

Set(member, v) == arg_array' = [arg_array EXCEPT ![id][member] = v]

\* Mutant of LoadPlain: a null is left out.
LoadPlain_SkipsNull ==
  /\ Field.key \in DOMAIN NullMeans
  /\ IF Field.value = Null THEN UNCHANGED arg_array ELSE Set(Field.key, Field.value)
  /\ UNCHANGED pc

\* Most members take the value of the field, or what a null means for it; for
\* a list json-c is asked for its length, and aborts if it is not an array.
LoadPlain ==
  /\ Field.key \in DOMAIN NullMeans
  /\ IF Field.key \in Lists /\ Field.value # Null /\ ~ Field.array
     THEN pc' = "aborted" /\ UNCHANGED arg_array
     ELSE /\ Set(Field.key, IF Field.value = Null THEN NullMeans[Field.key] ELSE Field.value)
          /\ UNCHANGED pc

\* A null must_child is stored as a must_have.
LoadMustChild ==
  /\ Field.key = "must_child"
  /\ IF Field.value = Null THEN Set("must_have", FALSE)
                           ELSE Set("must_child", Field.value)
  /\ UNCHANGED pc

\* The value_type that the loading of a value sees: whatever memory holds, if
\* the field has not come yet.
CurrentTypes ==
  IF arg_array[id].value_type = Garbage THEN 0 .. 4 ELSE {arg_array[id].value_type}

\* A value is loaded by the type, and aborts like a list unless it is a string.
LoadValue ==
  /\ Field.key = "value"
  /\ IF Field.value = Null THEN Set("value_char_array", <<>>) /\ UNCHANGED pc
     ELSE \E type \in CurrentTypes :
            IF type \notin DOMAIN ValueMember THEN UNCHANGED <<pc, arg_array>>
            ELSE IF type # 3 /\ ~ Field.array THEN pc' = "aborted" /\ UNCHANGED arg_array
            ELSE Set(ValueMember[type], Field.value) /\ UNCHANGED pc

\* The id, nested objects and unknown keys match nothing.
LoadNothing ==
  /\ Field.key \notin DOMAIN NullMeans \cup {"must_child", "value"}
  /\ UNCHANGED <<pc, arg_array>>

\* One iteration of the second loop.
LoadField ==
  /\ pc = "load" /\ MoreFields
  /\ LoadPlain \/ LoadMustChild \/ LoadValue \/ LoadNothing
  /\ f' = f + 1
  /\ UNCHANGED <<doc, o, id, id_loaded, node_count>>

\* The locals of the next call of ct_builder.
Reset == id' = 0 /\ id_loaded' = FALSE

\* The end of the second loop.
Loaded ==
  /\ pc = "load" /\ ~ MoreFields
  /\ Reset
  /\ o' = o + 1 /\ f' = 1
  /\ pc' = "find_id"
  /\ UNCHANGED <<doc, node_count, arg_array>>

Finished ==
  /\ pc = "find_id" /\ o > Len(doc)
  /\ pc' = "done"
  /\ UNCHANGED <<doc, o, f, id, id_loaded, node_count, arg_array>>

Init ==
  /\ pc = "count" /\ doc \in Documents
  /\ o = 1 /\ f = 1
  /\ id = 0 /\ id_loaded = FALSE
  /\ node_count = 0
  /\ arg_array = <<>>

Next == jso_count \/ FindId \/ IdFound \/ LoadField \/ Loaded \/ Finished

Spec == Init /\ [][Next]_vars
-----------------------------------------------------------------------------
\* What an object says of a key; Garbage if it does not mention it.
Says(obj, key) ==
  IF \E k \in DOMAIN obj.fields : obj.fields[k].key = key
  THEN obj.fields[CHOOSE k \in DOMAIN obj.fields : obj.fields[k].key = key].value
  ELSE Garbage

Meaning(obj, key) ==
  IF Says(obj, key) = Null THEN NullMeans[key] ELSE Says(obj, key)

ArgObjects == {k \in DOMAIN doc : Says(doc[k], "id") # Garbage}

\* The ids of the arguments index a table with one entry for each of them.
Numbered == \A k \in ArgObjects : Says(doc[k], "id") \in 0 .. Len(doc) - 2

\* The lists of an object are arrays or null.
ListsFit(obj) ==
  \A k \in DOMAIN obj.fields :
    obj.fields[k].key \in Lists => obj.fields[k].value = Null \/ obj.fields[k].array

\* Its value, if there is one, comes after its type, and is of that type.
ValueFits(obj) ==
  \A k \in DOMAIN obj.fields :
    obj.fields[k].key = "value" /\ obj.fields[k].value # Null
      => \E j \in 1 .. k - 1 :
           /\ obj.fields[j].key = "value_type"
           /\ obj.fields[j].value \in {1, 2, 4} => obj.fields[k].array

\* The variables have their types.
TypeOK ==
  /\ pc \in {"count", "find_id", "load", "done", "outside", "aborted"}
  /\ o \in 1 .. Len(doc) + 1
  /\ id_loaded \in BOOLEAN
  /\ DOMAIN arg_array = IF pc = "count" THEN {} ELSE 0 .. node_count - 1
  /\ pc = "load" => id \in DOMAIN arg_array /\ id_loaded

\* The table that the fuzzer works on says what the document says: of every
\* object, whatever the order of its fields, in its own entry and under its
\* own name.  Only a value must not come before its type (arg_fuzz.c:186).
BuiltAsWritten ==
  pc = "done" =>
    \A k \in ArgObjects :
      LET obj   == doc[k]
          entry == arg_array[Says(obj, "id")]
      IN  /\ entry.arg = obj.key
          /\ \A key \in DOMAIN NullMeans : entry[key] = Meaning(obj, key)
          /\ Says(obj, "must_child") # Null
               => entry.must_child = Says(obj, "must_child")
          /\ (/\ ValueFits(obj)
              /\ Says(obj, "value") \notin {Null, Garbage}
              /\ Meaning(obj, "value_type") \in DOMAIN ValueMember)
               => entry[ValueMember[Meaning(obj, "value_type")]] = Says(obj, "value")

\* The count of main, which takes the outermost object out, is the number of
\* entries that are filled: none is left over and none is missing.
CountsArguments ==
  pc = "done" =>
    {n \in DOMAIN arg_array : arg_array[n].arg # Garbage} = DOMAIN arg_array

\* Which documents are loaded: memory behind the table is written only for an
\* id that is too large for the number of arguments (arg_fuzz.c:165), json-c is
\* made to abort only by a list or a value that is no array or by a value before
\* its type, and a document with such an id or list never gets through.
StaysInTable ==
  /\ pc = "outside" => ~ Numbered
  /\ pc = "aborted" => \E k \in ArgObjects : ~ ListsFit(doc[k]) \/ ~ ValueFits(doc[k])
  /\ pc = "done" => Numbered /\ \A k \in ArgObjects : ListsFit(doc[k])
=============================================================================

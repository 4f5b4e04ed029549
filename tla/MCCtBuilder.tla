---------------------------- MODULE MCCtBuilder -----------------------------
(***************************************************************************)
(* CtBuilder on documents of two arguments, one inside the other, whose    *)
(* fields come in any order, and on documents that do not have the form    *)
(* the code expects.                                                       *)
(***************************************************************************)
EXTENDS CtBuilder, SequencesExt

Fld(key, v) == [key |-> key, value |-> v, array |-> FALSE]
Arr(key, v) == [key |-> key, value |-> v, array |-> TRUE]

Obj(key, fields) == [key |-> key, fields |-> fields]

\* The outermost object, which has no key and no id.
Root == Obj(Null, <<Fld("-a", "-a")>>)

\* The members that are loaded alike are all there, but only one of each kind
\* takes part in the reordering.
Fixed == <<Fld("operator_sibling", " "), Fld("operator_child", Null),
           Arr("child_id", Null), Arr("dependency_id", <<0>>)>>

Outer(n, v, mutex) ==
  { Fld("id", n), v[1], v[2], Fld("must_have", TRUE), Fld("must_child", FALSE), mutex }

\* A value that is no array is written as a sequence of one.
Values == { <<Fld("value_type", 1), Arr("value", <<0, 9, 3>>)>>,
            <<Fld("value_type", 3), Fld("value", <<"x">>)>>,
            <<Fld("value_type", 4), Arr("value", <<"x", "y">>)>>,
            <<Fld("value_type", Null), Fld("value", Null)>> }

Inner == Fixed \o <<Fld("id", 1), Fld("value_type", 2), Arr("value", <<2, 0, 2, 1>>),
                    Fld("operator_value", "="), Arr("mutex", <<0>>),
                    Fld("must_have", Null), Fld("weight", 2), Fld("must_child", TRUE)>>

Doc(outer) == <<Root, Obj("-a", outer), Obj("b", Inner)>>

\* The order of json/mke2fs.json.
AsShipped(n, v, mutex) ==
  <<Fld("id", n), v[1], v[2], Fld("must_have", TRUE), Fld("must_child", FALSE), mutex>>

\* Ids that do not start at 0, as the ones of json/mke2fs_simple.json; a list
\* and a value that should be arrays and are not.
Misshapen ==
  {AsShipped(n, v, Arr("mutex", Null)) : n \in {2, 46}, v \in Values}
    \cup {AsShipped(0, v, Fld("mutex", <<7>>)) : v \in Values}
    \cup {AsShipped(0, <<Fld("value_type", type), Fld("value", <<7>>)>>, Arr("mutex", Null)) :
            type \in {1, 4}}

AnyDocument ==
  {Doc(<<Fld("weight", Null), Fld("operator_value", Null)>> \o s \o Fixed) :
     s \in Misshapen
            \cup UNION {SetToSeqs(Outer(0, v, Arr("mutex", Null))) : v \in Values}}
=============================================================================

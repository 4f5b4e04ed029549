--------------------------- MODULE ConstraintTree ---------------------------
(***************************************************************************)
(* The constraint tree of ConFuzz: the table arg_array that ct_builder     *)
(* fills from a JSON file (json/mke2fs.json, json/resize2fs.json), one     *)
(* arg_node per command-line argument of the target utility.  The table is *)
(* read-only once it is built, so here it is a constant; ids run from 0.   *)
(***************************************************************************)
EXTENDS Integers, Sequences

CONSTANTS
  NodeCount,  (* node_count of main: the number of arguments              *)
  arg_array,  (* the table, a function from ids to arg_node records       *)
  RoundsUp    (* TRUE: rand_num may draw an x that rounds up to 2^64      *)

Node == 0 .. NodeCount - 1

(***************************************************************************)
(* struct arg_node.  A NULL list is the empty sequence, a NULL operator is *)
(* the string "NULL" (as ct_builder stores it).  values is the set of      *)
(* values that the value of the argument says may be drawn, each a number  *)
(* (for string types, the index of the string); it is empty for value_type *)
(* 0.  weight only sizes the bitmap and is left out.                       *)
(***************************************************************************)
Operators == {"NULL", " ", ","}

ArgNode ==
  [ value_type       : 0 .. 4,
    values           : SUBSET Nat,
    operator_value   : Operators,
    operator_sibling : Operators,
    operator_child   : Operators,
    mutex            : Seq(Node),
    must_have        : BOOLEAN,
    must_child       : BOOLEAN,
    child_id         : Seq(Node),
    dependency_id    : Seq(Node) ]

ASSUME TreeAssumption ==
  /\ NodeCount \in Nat \ {0}
  /\ arg_array \in [Node -> ArgNode]
  /\ \A n \in Node : arg_array[n].value_type = 0 <=> arg_array[n].values = {}
  /\ RoundsUp \in BOOLEAN

(***************************************************************************)
(* rand_num(min, max) as a set of outcomes.  The code scales a 64-bit x by *)
(* the double x / 2^64, which is below 1 except for the 2^10 largest x:    *)
(* those round to 2^64 and the result is max itself.                       *)
(***************************************************************************)
rand_num(min, max) == min .. (IF RoundsUp THEN max ELSE max - 1)

Elements(seq) == {seq[j] : j \in DOMAIN seq}

Mutex(n)      == Elements(arg_array[n].mutex)
Dependency(n) == Elements(arg_array[n].dependency_id)
Child(n)      == Elements(arg_array[n].child_id)

-----------------------------------------------------------------------------
(***************************************************************************)
(* What json/mke2fs.json and json/resize2fs.json have in common, and       *)
(* arg_fuzz relies on without testing it.                                  *)
(***************************************************************************)

\* A mutex list names one argument at most.
ShortMutexLists == \A n \in Node : Len(arg_array[n].mutex) <= 1

\* Mutex lists come in pairs, and a mutex argument is optional.
MutexPairs ==
  \A n \in Node :
    /\ \A m \in Mutex(n) : m # n /\ n \in Mutex(m)
    /\ Mutex(n) # {} => ~ arg_array[n].must_have

\* "all mutex nodes are leaf nodes": no argument has one as its dependency.
MutexLeaves ==
  \A n \in Node : \A p \in Dependency(n) : Mutex(p) = {}

\* Where one child must be chosen, its mutex peers are children as well.
MutexSiblings ==
  \A p \in Node : arg_array[p].must_child =>
    \A c \in Child(p) : Mutex(c) \subseteq Child(p)

\* At most one dependency each.
OneDependency == \A n \in Node : Len(arg_array[n].dependency_id) <= 1

\* A child depends on its parent, and on nothing else.
ChildDependsOnParent ==
  \A p \in Node : \A c \in Child(p) : Dependency(c) = {p}

\* What depends on an argument that must have a child is such a child.
MustChildClosed ==
  \A n \in Node : \A p \in Dependency(n) :
    arg_array[p].must_child => n \in Child(p)

WellFormedTree ==
  /\ ShortMutexLists
  /\ MutexPairs
  /\ MutexLeaves
  /\ MutexSiblings
  /\ OneDependency
  /\ ChildDependsOnParent
  /\ MustChildClosed
=============================================================================

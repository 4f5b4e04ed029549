----------------------------- MODULE ConfigTrees ----------------------------
(***************************************************************************)
(* The constraint tree of mke2fs that ConFuzz ships, as a value for        *)
(* arg_array: the table ct_builder makes of json/mke2fs.json, and a slice  *)
(* of it that is small enough to try every bitmap.                         *)
(* The drawn values are represented by one or two numbers each.            *)
(***************************************************************************)
EXTENDS Integers, Sequences

\* An argument with every JSON field null, which its siblings follow after " ".
Plain ==
  [ value_type |-> 0, values |-> {}, operator_value |-> "NULL", operator_sibling |-> " ",
    operator_child |-> "NULL", mutex |-> << >>, must_have |-> FALSE,
    must_child |-> FALSE, child_id |-> << >>, dependency_id |-> << >> ]

\* "-x value", with a value of the given type.
Valued(type) ==
  [Plain EXCEPT !.operator_value = " ", !.value_type = type, !.values = {0}]

\* "-x a,b,c": an argument that must have at least one of its children.
Parent(children) ==
  [Plain EXCEPT !.operator_child = " ", !.must_child = TRUE,
                !.child_id = children]

\* One of the a, b, c; without and with a value ("name=" carries the "=").
Option(parent) ==
  [Plain EXCEPT !.operator_sibling = ",", !.dependency_id = <<parent>>]
ValuedOption(parent, type) ==
  [Option(parent) EXCEPT !.value_type = type, !.values = {0}]

MustHave(node) == [node EXCEPT !.must_have = TRUE]

-----------------------------------------------------------------------------
\* json/mke2fs.json, whole.  -E has its dependency list under a misspelt key
\* ("dependencies_id"): the table holds what malloc returned there, taken here
\* as an empty list.
Mke2fsCount == 48

Mke2fsTree ==
  [n \in 0 .. Mke2fsCount - 1 |->
    CASE n = 0  -> MustHave(Valued(2))                         \* -b
      [] n = 1  -> [Plain EXCEPT !.child_id = <<2>>]           \* -c
      [] n = 2  -> [Plain EXCEPT !.operator_sibling = "NULL",  \* c
                                 !.dependency_id = <<1>>]
      [] n = 3  -> MustHave(Parent(<<4, 5, 6, 7, 8, 9, 10>>))  \* -E
      [] n \in 4 .. 7 -> ValuedOption(3, 1)                    \* stride= ...
      [] n \in 8 .. 10 -> Option(3)                            \* discard ...
      [] n = 11 -> MustHave(Plain)                             \* -F
      [] n = 13 -> [Valued(2) EXCEPT !.dependency_id = <<32>>] \* -G
      [] n = 17 -> [Parent(<<18, 19>>) EXCEPT                  \* -J
                      !.operator_value = " "]
      [] n = 18 -> [ValuedOption(17, 1) EXCEPT !.mutex = <<19>>]  \* size=
      [] n = 19 -> [ValuedOption(17, 3) EXCEPT !.mutex = <<18>>]  \* device=
      [] n \in {16, 20, 25} -> [Plain EXCEPT !.operator_value = " "]
      [] n \in {12, 14, 22, 23, 26, 40} -> Valued(1)
      [] n = 15 -> Valued(2)                                   \* -I
      [] n \in {21, 24} -> Valued(3)
      [] n \in {27, 43, 44} -> Valued(4)
      [] n = 28 -> Parent(<<29, 30, 31, 32, 33, 34, 35, 36, 37, 38>>)  \* -O
      [] n \in 29 .. 38 -> Option(28)                  \* flex_bg (32) ...
      [] n = 42 -> MustHave(Valued(4))                         \* -t
      [] n = 47 -> [Plain EXCEPT !.value_type = 3, !.values = {0}]  \* -d
      [] OTHER  -> Plain]                                \* -q -S -v -V

\* Every kind of constraint of mke2fs.json, in its order: -b, -c with c, -E
\* with two of its options, -G (which needs flex_bg), -J with its two
\* exclusive options, -O with flex_bg and extent.
SliceCount == 12

Mke2fsSlice ==
  [n \in 0 .. SliceCount - 1 |->
    CASE n = 0  -> MustHave(Valued(2))                                \* -b
      [] n = 1  -> [Plain EXCEPT !.child_id = <<2>>]                  \* -c
      [] n = 2  -> [Plain EXCEPT !.operator_sibling = "NULL",         \* c
                                 !.dependency_id = <<1>>]
      [] n = 3  -> MustHave(Parent(<<4, 5>>))                         \* -E
      [] n = 4  -> ValuedOption(3, 1)                                 \* stride=
      [] n = 5  -> Option(3)                                          \* discard
      [] n = 6  -> [Valued(2) EXCEPT !.dependency_id = <<11>>]        \* -G
      [] n = 7  -> [Parent(<<8, 9>>) EXCEPT !.operator_value = " "]   \* -J
      [] n = 8  -> [ValuedOption(7, 1) EXCEPT !.mutex = <<9>>]        \* size=
      [] n = 9  -> [ValuedOption(7, 3) EXCEPT !.mutex = <<8>>]        \* device=
      [] n = 10 -> Parent(<<11>>)                                     \* -O
      [] OTHER  -> Option(10)]                                        \* flex_bg

-----------------------------------------------------------------------------
\* The parities of a bitmap: 2 for an even byte, 1 for an odd one.
AllBitmaps(count) == [0 .. count - 1 -> {1, 2}]

\* The bitmaps with at most one even byte, and those with at most one odd one.
SparseBitmaps(count) ==
  LET Byte(on) == IF on THEN 2 ELSE 1
  IN  {[n \in 0 .. count - 1 |-> Byte((n = one) = on)] :
         one \in 0 .. count, on \in BOOLEAN}

-----------------------------------------------------------------------------
\* What the memory of ir_ may be when it is allocated: zero,
ZeroHeap(count) == {[n \in 0 .. count - 1 |-> 0]}

\* zero except for one of the sets of arguments, where it is neither 0 nor 1,
SpoiltHeaps(count, sets) ==
  {[n \in 0 .. count - 1 |-> IF n \in S THEN 2 ELSE 0] : S \in sets}

\* or anything.
AnyHeap(count) == [0 .. count - 1 -> 0 .. 2]

-----------------------------------------------------------------------------
\* How many bytes the name of each argument of json/mke2fs.json takes, and its
\* longest value.
Mke2fsNameLength ==
  << 2, 2, 1, 2, 7, 13, 7, 17, 7, 7, 9, 3, 3, 2, 2, 2, 2, 2, 5, 7, 2, 2, 2, 2,
     2, 2, 2, 2, 2, 9, 6, 8, 7, 11, 11, 10, 12, 12, 9, 2, 2, 2, 2, 2, 2, 2, 2,
     2 >>

Mke2fsValueLength ==
  << 4, 0, 0, 0, 4, 4, 7, 1, 0, 0, 0, 0, 4, 4, 4, 4, 0, 0, 3, 11, 0, 8, 4, 2,
     5, 0, 4, 9, 0, 0, 0, 0, 0, 0, 0, 0, 0, 0, 0, 0, 1, 0, 4, 7, 36, 0, 0,
     11 >>
=============================================================================

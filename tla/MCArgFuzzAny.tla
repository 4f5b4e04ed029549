----------------------------- MODULE MCArgFuzzAny ---------------------------
(***************************************************************************)
(* ArgFuzz on tables that ct_builder accepts although no shipped file has  *)
(* them: what arg_fuzz does when a tree is not well formed.                *)
(***************************************************************************)
EXTENDS ArgFuzz, ConfigTrees

AnyBitmap == AllBitmaps(NodeCount)
AnyMemory == AnyHeap(NodeCount)
CleanMemory == ZeroHeap(NodeCount)

\* 0 and 1 are each other's child and dependency; 2 excludes both, and 1
\* stands behind 0 in its list; 3 is its own dependency and needs 2 as well.
TangleCount == 4

Tangle ==
  [n \in 0 .. TangleCount - 1 |->
    CASE n = 0 -> [Parent(<<1>>) EXCEPT !.dependency_id = <<1>>, !.mutex = <<2>>]
      [] n = 1 -> [Parent(<<0, 2>>) EXCEPT !.dependency_id = <<0>>, !.mutex = <<2>>]
      [] n = 2 -> [Valued(4) EXCEPT !.mutex = <<0, 1>>]
      [] OTHER -> [MustHave(Plain) EXCEPT !.dependency_id = <<3, 2>>]]

\* 2 needs 0 and 1.
TwoDependenciesCount == 3

TwoDependencies ==
  [n \in 0 .. TwoDependenciesCount - 1 |->
    IF n = 2 THEN [Plain EXCEPT !.dependency_id = <<0, 1>>] ELSE Plain]
=============================================================================

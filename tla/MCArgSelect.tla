----------------------------- MODULE MCArgSelect ----------------------------
(***************************************************************************)
(* ArgSelect on the trees of json/mke2fs.json.                             *)
(***************************************************************************)
EXTENDS ArgSelect, ConfigTrees

\* The trees of ConfigTrees are well formed, so the theorems apply to them.
ASSUME WellFormedTree

AnyBitmap == AllBitmaps(NodeCount)

\* Memory that is zero, that is spoilt everywhere, and that is spoilt in a
\* must-have (-E), one of a mutex pair (size=) and a dependency (flex_bg).
Memories == SpoiltHeaps(NodeCount, {{}, Node, {3, 8, 11}})
=============================================================================

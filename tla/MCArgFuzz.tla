------------------------------ MODULE MCArgFuzz -----------------------------
(***************************************************************************)
(* ArgFuzz on the trees of json/mke2fs.json.                               *)
(***************************************************************************)
EXTENDS ArgFuzz, ConfigTrees

ASSUME WellFormedTree

AnyBitmap == AllBitmaps(NodeCount)
FewBitmaps == SparseBitmaps(NodeCount)
CleanMemory == ZeroHeap(NodeCount)

\* The bytes that a token of a mke2fs command takes.
Bytes(token) ==
  CASE token[1] = "arg"   -> Mke2fsNameLength[token[2] + 1]
    [] token[1] = "value" -> Mke2fsValueLength[token[2] + 1]
    [] OTHER              -> 1

Length(text) ==
  Cardinality({<<p, b>> \in (DOMAIN text) \X (1 .. 40) : b <= Bytes(text[p])})

\* Neither buffer of arg_fuzz overflows on the shipped mke2fs tree, whatever
\* is selected: the blank, the text and the final NUL fit into cmd, and every
\* branch, when its outermost call returns, fits into branch.
BuffersSuffice ==
  /\ Complete => 1 + Length(cmd) + 1 <= MAX_CMD_LEN
  /\ Len(stack) = 1 /\ ~ MoreChildren
       => Length(branch \o Separator(Top)) + 1 <= MAX_BRANCH_LEN
=============================================================================

------------------------------- MODULE ArgFuzz ------------------------------
(***************************************************************************)
(* The whole of arg_fuzz (src/arg_fuzz.c): selection (ArgSelect) followed  *)
(* by generation, in which branch_generate walks the table and builds the  *)
(* command line, and the reset that makes ir_ ready for another call.      *)
(*                                                                         *)
(* branch_generate is recursive; its activation records are the elements   *)
(* of stack.  The text is abstracted to tokens <<kind, n>>: "arg" is the   *)
(* name of argument n, "value" the value drawn for it, "operator_value",   *)
(* "operator_child" and "operator_sibling" its operators (one character    *)
(* each), and "junk" what an uninitialised buffer holds.                   *)
(***************************************************************************)
EXTENDS ArgSelect, SequencesExt

CONSTANT MaxCalls  (* how often main calls arg_fuzz on the same ir_        *)

ASSUME CallsAssumption == MaxCalls \in Nat \ {0}

VARIABLES
  stack,     (* activations of branch_generate, the innermost one last    *)
  branch,    (* the buffer branch: the text of the current top-level call *)
  cmd,       (* the buffer cmd, after its leading blank                   *)
  selected,  (* history: what was enabled when generation began           *)
  calls      (* number of commands printed                                *)

genVars == <<stack, branch, cmd, selected, calls>>
vars == <<pc, i, id, arg_bitmap, enable, value,
          stack, branch, cmd, selected, calls>>

Junk == <<"junk", 0>>

Token(kind, n) == <<kind, n>>

\* The text that is left out when the operator is NULL.
Operator(kind, n) == IF arg_array[n][kind] = "NULL" THEN << >>
                                                    ELSE <<Token(kind, n)>>

NoNode == NodeCount

\* Mutant of MAX_CMD_LEN: a smaller buffer.
MAX_CMD_LEN_Small == 256

\* The sizes of the buffers cmd and branch, in bytes.
MAX_CMD_LEN == 1024
MAX_BRANCH_LEN == 1024

-----------------------------------------------------------------------------
(***************************************************************************)
(* strcpy(cmd, " "), and the start of the loop over the table.  branch is  *)
(* a local array that nobody has written to.                               *)
(***************************************************************************)
StartGenerate ==
  /\ pc = "selected"
  /\ pc' = "generate"
  /\ i' = 0
  /\ branch' = <<Junk>>
  /\ cmd' = << >>
  /\ selected' = Selected
  /\ UNCHANGED <<id, arg_bitmap, enable, value, stack, calls>>

\* Mutant of LastEnabledChild: the first one is taken.
LastEnabledChild_First(n) ==
  LET child_id == arg_array[n].child_id
      on == {j \in DOMAIN child_id : enable[child_id[j]] = 1 /\ child_id[j] # n}
  IN  IF on = {} THEN NoNode
                 ELSE child_id[CHOOSE j \in on : \A k \in on : k >= j]

(***************************************************************************)
(* The last of the children of n that is enabled once n is not.  When      *)
(* there is none the code leaves last_enabled_child_id uninitialised; no   *)
(* child is enabled then, so what it is compared with does not matter.     *)
(***************************************************************************)
LastEnabledChild(n) ==
  LET child_id == arg_array[n].child_id
      on == {j \in DOMAIN child_id : enable[child_id[j]] = 1 /\ child_id[j] # n}
  IN  IF on = {} THEN NoNode
                 ELSE child_id[CHOOSE j \in on : \A k \in on : k <= j]

\* Mutant of Marked: an emitted argument stays enabled.
Marked_Not(n) == enable

\* An argument that is emitted is marked, so that it is not emitted again.
Marked(n) == [enable EXCEPT ![n] = 2]

\* Mutant of Kept: every name is appended.
Kept_Always(n) == branch

\* What precedes the name of n: an argument without dependencies starts a
\* new branch (strcpy), any other is appended to the current one (strcat).
Kept(n) == IF arg_array[n].dependency_id = << >> THEN << >> ELSE branch

\* The value of the leaf n is a string behind the end of its list: a pointer
\* to anywhere.
StrayString(n) ==
  /\ arg_array[n].child_id = << >>
  /\ arg_array[n].value_type = 4
  /\ value[n] = PastEnd

\* strcat from there; nothing can be said of what follows.
ReadOutside(n) ==
  /\ StrayString(n)
  /\ pc' = "outside"
  /\ UNCHANGED <<i, enable, branch, stack>>

(***************************************************************************)
(* The body of branch_generate(n, last_sibling) for an enabled n, up to    *)
(* the loop over its children; for a leaf, up to its sibling operator.     *)
(***************************************************************************)
Enter(n, last_sibling, below) ==
  LET node  == arg_array[n]
      drawn == IF node.value_type # 0 THEN <<Token("value", n)>> ELSE << >>
      body  == IF node.child_id # << >>
               THEN Operator("operator_child", n)
               ELSE Operator("operator_value", n) \o drawn
  IN  /\ ~ StrayString(n)
      /\ enable' = Marked(n)
      /\ branch' = Kept(n) \o <<Token("arg", n)>> \o body
      /\ stack' = Append(below, [id |-> n, child |-> 1,
                                 last |-> LastEnabledChild(n),
                                 last_sibling |-> last_sibling])

(***************************************************************************)
(* The loop of arg_fuzz over the table: branch_generate(i, false), which   *)
(* returns 1 at once for an argument that is not enabled.                  *)
(***************************************************************************)
GenerateNext ==
  /\ pc = "generate"
  /\ stack = << >>
  /\ \/ /\ enable[i] = 1
        /\ Enter(i, FALSE, << >>)
        /\ UNCHANGED <<i, pc>>
     \/ /\ enable[i] = 1
        /\ ReadOutside(i)
     \/ /\ enable[i] # 1
        /\ NextIteration("print")
        /\ UNCHANGED <<enable, branch, stack>>
  /\ UNCHANGED <<id, arg_bitmap, value, cmd, selected, calls>>

Top == Last(stack)

\* Mutant of MoreChildren: the last child is left out.
MoreChildren_NotLast == Top.child < Len(arg_array[Top.id].child_id)

MoreChildren == Top.child <= Len(arg_array[Top.id].child_id)

\* Mutants of NextChild: the counter is advanced twice, or not at all.
NextChild_Twice == [stack EXCEPT ![Len(stack)].child = @ + 2]
NextChild_Never == stack

NextChild == [stack EXCEPT ![Len(stack)].child = @ + 1]

(***************************************************************************)
(* The loop over the children of the innermost activation.                 *)
(***************************************************************************)
GenerateChild ==
  /\ pc = "generate"
  /\ stack # << >>
  /\ MoreChildren
  /\ LET c == arg_array[Top.id].child_id[Top.child]
     IN  \/ /\ enable[c] = 1
            /\ Enter(c, c = Top.last, NextChild)
            /\ UNCHANGED <<pc, i>>
         \/ /\ enable[c] = 1
            /\ ReadOutside(c)
         \/ /\ enable[c] # 1
            /\ stack' = NextChild
            /\ UNCHANGED <<pc, i, enable, branch>>
  /\ UNCHANGED <<id, arg_bitmap, value, cmd, selected, calls>>

\* Mutant of Separator: the "else" belongs to the outer "if".
Separator_OuterElse(frame) ==
  IF frame.last_sibling THEN <<Token("operator_sibling", frame.id)>>
                        ELSE Operator("operator_sibling", frame.id)

\* Unless it is the last sibling, an argument is followed by its sibling
\* operator, or by a blank if it has none (the "else" of the code belongs to
\* the inner "if").
Separator(frame) ==
  IF frame.last_sibling THEN << >> ELSE <<Token("operator_sibling", frame.id)>>

\* Mutant of Flushed: branch is not emptied.
Flushed_Not(text) == text

\* What is left in branch when arg_fuzz has appended it to cmd.
Flushed(text) == << >>

(***************************************************************************)
(* The end of branch_generate.  When the outermost call returns, arg_fuzz  *)
(* appends branch to cmd.                                                  *)
(***************************************************************************)
GenerateReturn ==
  /\ pc = "generate"
  /\ stack # << >>
  /\ ~ MoreChildren
  /\ LET text == branch \o Separator(Top)
     IN  IF Len(stack) = 1
         THEN /\ cmd' = cmd \o text
              /\ branch' = Flushed(text)
              /\ NextIteration("print")
         ELSE /\ branch' = text
              /\ UNCHANGED <<cmd, pc, i>>
  /\ stack' = Front(stack)
  /\ UNCHANGED <<id, arg_bitmap, enable, value, selected, calls>>

\* Mutant of Reset: the loop that clears ir_ starts at 1.
Reset_FromOne == [n \in Node |-> IF n = 0 THEN enable[n] ELSE 0]

\* The loop at the end of arg_fuzz that makes ir_ ready for the next call.
Reset == [n \in Node |-> 0]

(***************************************************************************)
(* The end of arg_fuzz, and main's printf; main then calls arg_fuzz again  *)
(* or ends.  arg_bitmap, cmd and branch are dead until they are written    *)
(* again, and cleared here.                                                *)
(***************************************************************************)
ResetAndPrint ==
  /\ pc = "print"
  /\ enable' = Reset
  /\ calls' = calls + 1
  /\ pc' = IF calls + 1 < MaxCalls THEN "bitmap_fuzz" ELSE "done"
  /\ i' = 0
  /\ arg_bitmap' = [n \in Node |-> 1]
  /\ branch' = << >>
  /\ cmd' = << >>
  /\ selected' = {}
  /\ UNCHANGED <<id, value, stack>>

-----------------------------------------------------------------------------
Init ==
  /\ SelectInit
  /\ stack = << >>
  /\ branch = << >>
  /\ cmd = << >>
  /\ selected = {}
  /\ calls = 0

Next ==
  \/ SelectNext /\ UNCHANGED genVars
  \/ StartGenerate
  \/ GenerateNext
  \/ GenerateChild
  \/ GenerateReturn
  \/ ResetAndPrint

Spec == Init /\ [][Next]_vars

\* Sequential code: a step that can be taken is taken.
FairSpec == Spec /\ WF_vars(Next)
-----------------------------------------------------------------------------
(***************************************************************************)
(* Properties.  The command is complete when it is about to be printed.    *)
(***************************************************************************)
Complete == pc = "print"

\* Where argument n is named in the command.
Places(n) == {p \in DOMAIN cmd : cmd[p] = Token("arg", n)}

\* The variables have their types: until the behaviour becomes undefined (pc
\* is "outside"), no loop counter and no recursive call is out of the table,
\* whatever the tree.
TypeOK ==
  /\ pc \in {"bitmap_fuzz", "draw", "prune", "dependency", "dependant",
             "selected", "generate", "print", "done", "outside"}
  /\ i \in Node
  /\ id \in Node
  /\ enable \in [Node -> 0 .. 2]
  /\ \A f \in 1 .. Len(stack) :
       /\ stack[f].id \in Node
       /\ stack[f].child \in 1 .. Len(arg_array[stack[f].id].child_id) + 1
       /\ stack[f].last \in Node \cup {NoNode}
       /\ stack[f].last_sibling \in BOOLEAN
  /\ selected \subseteq Node
  /\ calls \in 0 .. MaxCalls

\* The command names every argument of the selection exactly once, and no
\* other: an argument that was emitted inside its parent's branch is not
\* emitted again when the loop over the table gets to it, and none is lost.
EmittedOnce ==
  Complete => \A n \in Node :
                Cardinality(Places(n)) = IF n \in selected THEN 1 ELSE 0

\* A child is emitted inside the branch of its parent: after the parent,
\* before the operator that ends the parent's branch, with no top-level
\* argument in between.
ChildInsideParent ==
  Complete =>
    \A n \in selected : \A c \in Child(n) \cap selected :
      \A p \in Places(n), q \in Places(c) :
        /\ p < q
        /\ \A r \in p + 1 .. q - 1 :
             /\ cmd[r] # Token("operator_sibling", n)
             /\ cmd[r][1] = "arg" => Dependency(cmd[r][2]) # {}

\* No two arguments run together: an argument follows a sibling operator, or
\* its parent's name and child operator.
ArgsSeparated ==
  Complete =>
    \A p \in DOMAIN cmd :
      cmd[p][1] = "arg" /\ p > 1
        => \/ cmd[p - 1][1] = "operator_sibling"
           \/ /\ cmd[p - 1][1] \in {"arg", "operator_child"}
              /\ cmd[p][2] \in Child(cmd[p - 1][2])

\* "remove the last sibling operator of each arg branch" (mke2fs.py:19): the
\* last of a list of children is followed by the operator of its parent and
\* not by its own as well.
NoDanglingOperator ==
  Complete =>
    \A p \in DOMAIN cmd :
      cmd[p][1] = "operator_sibling" /\ p < Len(cmd)
        => cmd[p + 1][1] # "operator_sibling"

\* Nothing of the uninitialised buffer branch gets into the command: the
\* first argument emitted is one that is copied, not appended.
NoJunk == \A p \in DOMAIN cmd : cmd[p] # Junk

\* The recursion of branch_generate is at most as deep as the tree has
\* arguments, also if the lists of children have cycles: no argument is entered
\* while a call for it is open, because it is marked before its children are.
OpenOnce ==
  \A f, g \in DOMAIN stack : stack[f].id = stack[g].id => f = g

\* Every call of arg_fuzz ends, whatever cycles the lists of the tree have: its
\* command is printed, unless the behaviour became undefined before.
AllPrinted == <>(calls = MaxCalls \/ pc = "outside")
=============================================================================

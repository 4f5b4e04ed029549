------------------------------ MODULE ArgSelect -----------------------------
(***************************************************************************)
(* The selection half of arg_fuzz (src/arg_fuzz.c): which arguments of the *)
(* constraint tree go into the next command line, and with which values.   *)
(*                                                                         *)
(* A call draws a random bitmap, switches on the arguments whose byte is   *)
(* even and draws a value for every argument, and then, at fuzz level 0,   *)
(* repairs the choice: a first pass over the table adds the must-haves and *)
(* prunes mutex groups, a second one adds dependencies and children.  Each *)
(* loop iteration, and each recursive call, is one step.                   *)
(*                                                                         *)
(* A number that the code reads from uninitialised memory or past the end  *)
(* of a list may be any int.  If it is the id of an argument, the call     *)
(* goes on with that argument; if it is not, the code writes outside ir_   *)
(* and nothing can be said of what follows: pc is "outside" for good.      *)
(***************************************************************************)
EXTENDS ConstraintTree, FiniteSets

CONSTANTS
  fuzz_level,     (* 0 SEMANTICALLY_CORRECT, 1 and 2 are the other levels *)
  Bitmaps,        (* the bitmaps rand() may produce                       *)
  Heaps           (* what the malloc'ed, never initialised ir_ may hold   *)

ASSUME SelectAssumption ==
  /\ fuzz_level \in 0 .. 2
  /\ Bitmaps \subseteq [Node -> 1 .. 255]
  /\ Heaps \subseteq [Node -> 0 .. 2]

VARIABLES
  pc,          (* where arg_fuzz is                                       *)
  i,           (* its loop counter                                        *)
  id,          (* the argument of the current call of enable_dependency   *)
               (* or enable_dependant                                     *)
  arg_bitmap,  (* one byte per argument; only its parity is ever read     *)
  enable,      (* ir_[n].enable: 0 off, 1 on, 2 pruned (or emitted); as   *)
               (* uninitialised memory, 2 is any int but 0 and 1          *)
  value        (* ir_[n].value_int / value_char, once drawn               *)

selectVars == <<pc, i, id, arg_bitmap, enable, value>>

Undrawn == -1

\* What a draw that rounds up yields: for a list of strings the word behind
\* its last pointer, for a range the value that would come next.
PastEnd == -2

Selected == {n \in Node : enable[n] = 1}

(***************************************************************************)
(* End of one iteration of a "for (i = 0; i < *arg_count; i++)" loop.      *)
(***************************************************************************)
NextIteration(after) ==
  IF i + 1 < NodeCount THEN /\ i' = i + 1
                            /\ UNCHANGED pc
                       ELSE /\ i' = 0
                            /\ pc' = after

\* A write to ir_[x] for an x that is not the id of an argument.
WriteOutside == pc' = "outside" /\ UNCHANGED <<i, id, enable>>

-----------------------------------------------------------------------------
(***************************************************************************)
(* bitmap_fuzz: every byte becomes rand() % 255 + 1.                       *)
(***************************************************************************)
bitmap_fuzz ==
  /\ pc = "bitmap_fuzz"
  /\ arg_bitmap' \in Bitmaps
  /\ pc' = "draw"
  /\ i' = 0
  /\ UNCHANGED <<id, enable, value>>

\* The values that may be drawn for n; value_type 3 is not drawn but copied.
Drawn(n) ==
  arg_array[n].values
    \cup (IF RoundsUp /\ arg_array[n].value_type \in {1, 2, 4} THEN {PastEnd} ELSE {})

(***************************************************************************)
(* The loop that reads the bitmap.  An even byte enables the argument, an  *)
(* odd one leaves enable as it is; the value is drawn in either case.      *)
(***************************************************************************)
Draw ==
  /\ pc = "draw"
  /\ enable' = IF arg_bitmap[i] % 2 = 0 THEN [enable EXCEPT ![i] = 1]
                                        ELSE enable
  /\ \/ /\ arg_array[i].value_type = 0
        /\ UNCHANGED value
     \/ /\ arg_array[i].value_type # 0
        /\ \E v \in Drawn(i) : value' = [value EXCEPT ![i] = v]
  /\ NextIteration(IF fuzz_level = 0 THEN "prune" ELSE "selected")
  /\ UNCHANGED <<id, arg_bitmap>>

-----------------------------------------------------------------------------
(***************************************************************************)
(* First iteration, case 0: a must-have is enabled.                        *)
(***************************************************************************)
PruneDisabled ==
  /\ enable[i] = 0
  /\ enable' = IF arg_array[i].must_have THEN [enable EXCEPT ![i] = 1]
                                         ELSE enable

\* Mutant of PruneMutex: the draw is off by one, so that it keeps nobody.
PruneMutex_KeepsNone ==
  /\ enable[i] = 1 /\ Mutex(i) # {}
  /\ enable' = [n \in Node |-> IF n \in ({i} \cup Mutex(i)) \cap Selected
                               THEN 2 ELSE enable[n]]

\* Mutant of PruneMutex: the group is left alone.
PruneMutex_KeepsAll == enable[i] = 1 /\ Mutex(i) # {} /\ UNCHANGED enable

\* The places of the enabled mutex peers of the argument the pass is at.
EnabledPeers ==
  {j \in DOMAIN arg_array[i].mutex : enable[arg_array[i].mutex[j]] = 1}

\* Mutant of Slots: the count of the group starts at 2.
Slots_OneMore == 0 .. Cardinality(EnabledPeers) + 1

\* The slots of the malloc'ed array mutex: one for i, one per enabled peer.
Slots == 0 .. Cardinality(EnabledPeers)

(***************************************************************************)
(* First iteration, case 1: the argument and its enabled mutex peers form  *)
(* a group of tmp, of which one, drawn at random, stays enabled.           *)
(*                                                                         *)
(* The group is collected in Slots: slot 0 is i, and the j-th peer, when   *)
(* enabled, goes to slot j (counting peers from 1) even if peers before it *)
(* were skipped.  A slot that no peer was written to is then read          *)
(* uninitialised, and a peer whose slot is not there is written past the   *)
(* array, where it is never read back.  Here the slot happens to hold the  *)
(* id of an argument and the write does no harm; else see PruneOutside.    *)
(*                                                                         *)
(* A null list leaves the pointer mutex of the entry as malloc returned    *)
(* it, so that the test for a list may go either way (PruneNothing).       *)
(***************************************************************************)
PruneMutex ==
  LET mutex == arg_array[i].mutex
      Group == {s \in [Slots -> Node] :
                  s[0] = i /\ \A j \in EnabledPeers \cap Slots : s[j] = mutex[j]}
  IN  /\ enable[i] = 1
      /\ \E k \in rand_num(0, 1 + Cardinality(EnabledPeers)), s \in Group :
           LET Kept(n) == /\ k \in Slots
                          /\ s[k] = n
                          /\ \A j \in Slots : j > k => s[j] # n
           IN  enable' = [n \in Node |-> IF Kept(n) THEN 1
                                         ELSE IF \E j \in Slots : s[j] = n
                                              THEN 2
                                              ELSE enable[n]]

\* There is an uninitialised slot, which holds no id of an argument, and a
\* write past the array, which does harm.
PruneOutside ==
  /\ enable[i] = 1
  /\ Slots # {0} \cup EnabledPeers
  /\ WriteOutside

\* Nothing to do: pruned already, or enabled and of no mutex group.
PruneNothing ==
  /\ enable[i] # 0
  /\ enable[i] = 1 => arg_array[i].mutex = << >>
  /\ UNCHANGED enable

Prune ==
  /\ pc = "prune"
  /\ \/ /\ PruneDisabled \/ PruneMutex \/ PruneNothing
        /\ NextIteration("dependency")
        /\ id' = 0
     \/ PruneOutside
  /\ UNCHANGED <<arg_bitmap, value>>

-----------------------------------------------------------------------------
\* Mutant of Unmet: the loop over the list starts at its second entry.
Unmet_SkipsFirst(n) ==
  LET dependency_id == arg_array[n].dependency_id
  IN  {j \in DOMAIN dependency_id :
         enable[n] = 1 /\ enable[dependency_id[j]] = 0 /\ j > 1}

\* Mutant of Unmet: the argument itself need not be enabled, as in
\* src/arg_fuzz_1.c.
Unmet_Unguarded(n) ==
  LET dependency_id == arg_array[n].dependency_id
  IN  {j \in DOMAIN dependency_id : enable[dependency_id[j]] = 0}

\* The places of the disabled dependencies of an enabled argument.
Unmet(n) ==
  LET dependency_id == arg_array[n].dependency_id
  IN  {j \in DOMAIN dependency_id :
         enable[n] = 1 /\ enable[dependency_id[j]] = 0}

(***************************************************************************)
(* enable_dependency(id): the first disabled dependency of an enabled      *)
(* argument is enabled and visited in turn; the call returns after that,   *)
(* so the rest of the list is not looked at.                               *)
(***************************************************************************)
enable_dependency ==
  /\ pc = "dependency"
  /\ \/ \E j \in Unmet(id) :
          LET parent_id == arg_array[id].dependency_id[j]
          IN  /\ \A k \in Unmet(id) : j <= k
              /\ enable' = [enable EXCEPT ![parent_id] = 1]
              /\ id' = parent_id
              /\ UNCHANGED pc
     \/ /\ Unmet(id) = {}
        /\ id' = i
        /\ pc' = "dependant"
        /\ UNCHANGED enable
  /\ UNCHANGED <<i, arg_bitmap, value>>

\* Mutant of NeedsChild: a child is drawn even if one is enabled already.
NeedsChild_Always(n) ==
  /\ enable[n] = 1
  /\ arg_array[n].must_child
  /\ \E c \in Child(n) : enable[c] # 1

\* Mutant of NeedsChild: the wrong flag is tested.
NeedsChild_MustHave(n) ==
  /\ enable[n] = 1
  /\ arg_array[n].child_id # << >>
  /\ arg_array[n].must_have
  /\ \A c \in Child(n) : enable[c] # 1

\* An enabled argument that must have a child has none enabled.
NeedsChild(n) ==
  /\ enable[n] = 1
  /\ arg_array[n].child_id # << >>
  /\ arg_array[n].must_child
  /\ \A c \in Child(n) : enable[c] # 1

\* Mutant of DrawChild: the parent is taken for the child.
DrawChild_Parent(n) == {n}

\* A random child.  A draw of child_id_len reads past the list; here, an int
\* that is the id of an argument (see enable_dependant for any other).
DrawChild(n) ==
  UNION { IF k < Len(arg_array[n].child_id) THEN {arg_array[n].child_id[k + 1]}
                                            ELSE Node :
          k \in rand_num(0, Len(arg_array[n].child_id)) }

\* The next iteration of the second pass starts with enable_dependency(i).
SecondPassNext ==
  IF i + 1 < NodeCount THEN i' = i + 1 /\ id' = i + 1 /\ pc' = "dependency"
                       ELSE i' = 0 /\ id' = 0 /\ pc' = "selected"

(***************************************************************************)
(* enable_dependant(id): the child that is drawn is enabled and visited in *)
(* turn.  When the recursion ends, so does the iteration.  What is read    *)
(* past the list of children need not be the id of an argument.            *)
(***************************************************************************)
enable_dependant ==
  /\ pc = "dependant"
  /\ \/ /\ NeedsChild(id)
        /\ \E c \in DrawChild(id) :
             /\ enable' = [enable EXCEPT ![c] = 1]
             /\ id' = c
        /\ UNCHANGED <<pc, i>>
     \/ /\ NeedsChild(id)
        /\ Len(arg_array[id].child_id) \in rand_num(0, Len(arg_array[id].child_id))
        /\ WriteOutside
     \/ /\ ~ NeedsChild(id)
        /\ SecondPassNext
        /\ UNCHANGED enable
  /\ UNCHANGED <<arg_bitmap, value>>

-----------------------------------------------------------------------------
SelectInit ==
  /\ pc = "bitmap_fuzz"
  /\ i = 0
  /\ id = 0
  /\ arg_bitmap = [n \in Node |-> 1]
  /\ enable \in Heaps
  /\ value = [n \in Node |-> Undrawn]

SelectNext ==
  \/ bitmap_fuzz
  \/ Draw
  \/ Prune
  \/ enable_dependency
  \/ enable_dependant

SelectSpec == SelectInit /\ [][SelectNext]_selectVars

(***************************************************************************)
(* arg_fuzz is sequential code: as long as it can take a step, it does.    *)
(***************************************************************************)
FairSelectSpec == SelectSpec /\ WF_selectVars(SelectNext)
-----------------------------------------------------------------------------
(***************************************************************************)
(* Properties.  Repaired states are the ones in which a call at level 0    *)
(* has finished both passes and is about to generate the command line.     *)
(***************************************************************************)
Repaired == pc = "selected" /\ fuzz_level = 0

\* ir_ is zero when main allocates it, as when the allocator hands out fresh
\* pages.  Nothing in the code sees to it (arg_fuzz.c:623).
CleanHeap == \A h \in Heaps : \A n \in Node : h[n] = 0

\* The variables of the selection have their types: no loop counter, recursive
\* call or slot of a mutex group leaves the table, so pc is never "outside".
\* It needs mutex lists of one argument at most, and no draw that rounds up.
SelectTypeOK ==
  /\ pc \in {"bitmap_fuzz", "draw", "prune", "dependency", "dependant",
             "selected"}
  /\ i \in Node
  /\ id \in Node
  /\ arg_bitmap \in [Node -> 1 .. 255]
  /\ enable \in [Node -> 0 .. 2]
  /\ DOMAIN value = Node

\* "enable all must-haves" (arg_fuzz.c:508): when both passes are done every
\* must-have argument is enabled; no prune took it away.
MustHavesSelected ==
  Repaired => \A n \in Node : arg_array[n].must_have => enable[n] = 1

\* "randomly prune one of the node in each mutex pair" (arg_fuzz.c:508): two
\* arguments that exclude each other are never both enabled, although the
\* second pass enables arguments without looking at mutex lists.
MutexExclusive ==
  Repaired => \A n \in Selected : Mutex(n) \cap Selected \subseteq {n}

\* "enable all dependency nodes" (arg_fuzz.c:542): every dependency of an
\* enabled argument is enabled, the arguments that the pass itself added
\* (also behind the loop counter) included.
DependenciesSelected ==
  Repaired => \A n \in Selected : Dependency(n) \subseteq Selected

\* "enable a child node for non-leaf nodes with no child nodes but must have
\* a child" (arg_fuzz.c:543): an enabled argument that must have a child has
\* an enabled one, also when it was enabled after the loop passed it.
MustChildSelected ==
  Repaired => \A n \in Selected :
                arg_array[n].must_child /\ Child(n) # {}
                  => Child(n) \cap Selected # {}

\* Pruning never loses a whole group: an argument that the bitmap asked for
\* and that is not enabled was given up for an enabled mutex peer.
PrunedForPeer ==
  Repaired => \A n \in Node :
                arg_bitmap[n] % 2 = 0 /\ n \notin Selected
                  => Mutex(n) \cap Selected # {}

\* The repair adds nothing without a reason: every enabled argument was asked
\* for by the bitmap, is a must-have, is a dependency of an enabled one, or
\* is a child of an enabled one that must have a child.
SelectionJustified ==
  Repaired => \A n \in Selected :
                \/ arg_bitmap[n] % 2 = 0
                \/ arg_array[n].must_have
                \/ \E m \in Selected : n \in Dependency(m)
                \/ \E p \in Selected : arg_array[p].must_child /\ n \in Child(p)

\* The recursion of the second pass ends: a call always gets to the point
\* where it generates the command line, whatever ir_ held at its start.
SelectionTerminates == <>(pc = "selected")
-----------------------------------------------------------------------------
(***************************************************************************)
(* The inductive invariant behind these properties, for a well-formed      *)
(* tree: what each pass has established so far.  The parts that need ir_   *)
(* to be zero at the start say so.                                         *)
(***************************************************************************)
Even(n) == arg_bitmap[n] % 2 = 0

Repairing == \/ pc \in {"prune", "dependency", "dependant"}
             \/ Repaired

\* The first pass is done with n.
Visited(n) == pc = "prune" => n < i

HasChild(n) == arg_array[n].must_child /\ Child(n) # {}
                 => Child(n) \cap Selected # {}

\* What the bitmap asked for is enabled; on clean memory, nothing else is.
DrawInv ==
  /\ pc = "draw" => \A n \in Node : n < i /\ Even(n) => enable[n] = 1
  /\ CleanHeap =>
       /\ pc = "bitmap_fuzz" => \A n \in Node : enable[n] = 0
       /\ pc = "draw" => \A n \in Node : n >= i \/ ~ Even(n) => enable[n] = 0

\* Of two peers at most one is left once the first pass has seen one of them
\* enabled; an argument that the bitmap asked for, and on clean memory any
\* other, is pruned only for an enabled peer.
PruneInv ==
  Repairing =>
    \A n \in Node :
      /\ Even(n) => enable[n] # 0
      /\ Visited(n) /\ arg_array[n].must_have => enable[n] # 0
      /\ Visited(n) /\ enable[n] = 1 => Mutex(n) \cap Selected = {}
      /\ (CleanHeap \/ Even(n)) /\ enable[n] = 2 => Mutex(n) \cap Selected # {}

\* Why an argument is enabled; in the first pass only for itself.
Reason(n) ==
  \/ Even(n)
  \/ arg_array[n].must_have
  \/ /\ pc # "prune"
     /\ \/ \E m \in Selected : n \in Dependency(m)
        \/ \E p \in Selected : arg_array[p].must_child /\ n \in Child(p)

ReasonInv == CleanHeap /\ Repairing => \A n \in Selected : Reason(n)

\* No dependency of n is off.  One may still be 2, on memory that is not clean.
Met(n) == \A d \in Dependency(n) : enable[d] # 0

\* The second pass has closed the arguments up to i, except for the one that
\* the recursion is looking at.
CloseInv ==
  /\ pc = "dependency" =>
       \A n \in Selected :
         /\ n <= i /\ n # id => Met(n)
         /\ n < i => HasChild(n)
  /\ pc = "dependant" =>
       \A n \in Selected :
         /\ n <= i => Met(n)
         /\ n <= i /\ n # id => HasChild(n)
  /\ Repaired => \A n \in Selected : Met(n) /\ HasChild(n)

\* What holds between any two steps of a call on a well-formed tree; it is
\* inductive, and its conjuncts at the end of the call are the properties.
SelectInv ==
  /\ SelectTypeOK
  /\ DrawInv
  /\ PruneInv
  /\ ReasonInv
  /\ CloseInv
=============================================================================

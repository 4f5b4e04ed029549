--------------------------- MODULE ArgSelectProofs --------------------------
(***************************************************************************)
(* Proofs about ArgSelect, for every constraint tree and bitmap, as long   *)
(* as no draw of rand_num rounds up: with mutex lists of one argument at   *)
(* most the selection never leaves the table, and on a well-formed tree it *)
(* ends with a selection that satisfies the constraints of the tree, some  *)
(* of them whatever ir_ held at first, the others if it was zero.          *)
(***************************************************************************)
EXTENDS ArgSelect, TLAPS

\* The sizes of the sets that are counted here.
LEMMA SmallSets == Cardinality({}) = 0 /\ \A x : Cardinality({x}) = 1
<1> DEFINE Rest(T) == T \ {CHOOSE x : x \in T}
           Counts(f, S) == f = [T \in SUBSET S |-> IF T = {} THEN 0 ELSE 1 + f[Rest(T)]]
<1>1. ASSUME NEW S
      PROVE  Cardinality(S) = (CHOOSE f : Counts(f, S))[S]
  BY DEF Cardinality
<1>2. Counts([T \in SUBSET {} |-> 0], {})
  OBVIOUS
<1>3. ASSUME NEW x
      PROVE  Counts([T \in SUBSET {x} |-> IF T = {} THEN 0 ELSE 1], {x})
  <2>1. \A T \in SUBSET {x} : T # {} => Rest(T) = {}
    OBVIOUS
  <2> HIDE DEF Rest
  <2> QED
    BY <2>1
<1>4. ASSUME NEW x, NEW f, Counts(f, {x})
      PROVE  f[{x}] = 1
  <2>1. Rest({x}) = {}
    OBVIOUS
  <2> HIDE DEF Rest
  <2>2. f[{}] = 0
    BY <1>4
  <2>3. {x} \in SUBSET {x} /\ {x} # {}
    OBVIOUS
  <2>4. f[{x}] = 1 + f[Rest({x})]
    BY <1>4, <2>3, Zenon
  <2> QED
    BY <2>1, <2>2, <2>4
<1>5. ASSUME NEW f, Counts(f, {})
      PROVE  f[{}] = 0
  BY <1>5
<1> HIDE DEF Counts
<1>6. Cardinality({}) = 0
  BY <1>1, <1>2, <1>5
<1>7. ASSUME NEW x
      PROVE  Cardinality({x}) = 1
  BY <1>1, <1>3, <1>4, Zenon
<1> QED
  BY <1>6, <1>7

\* What the type of the table says of one of its entries.
LEMMA NodeFacts ==
  ASSUME NEW n \in Node
  PROVE  /\ arg_array[n].mutex \in Seq(Node)
         /\ arg_array[n].dependency_id \in Seq(Node)
         /\ arg_array[n].child_id \in Seq(Node)
         /\ arg_array[n].must_have \in BOOLEAN
         /\ arg_array[n].must_child \in BOOLEAN
         /\ Mutex(n) \subseteq Node
         /\ Dependency(n) \subseteq Node
         /\ Child(n) \subseteq Node
<1>1. arg_array[n] \in ArgNode
  BY TreeAssumption
<1>2. /\ arg_array[n].mutex \in Seq(Node)
      /\ arg_array[n].dependency_id \in Seq(Node)
      /\ arg_array[n].child_id \in Seq(Node)
      /\ arg_array[n].must_have \in BOOLEAN
      /\ arg_array[n].must_child \in BOOLEAN
  BY <1>1 DEF ArgNode
<1>3. ASSUME NEW s \in Seq(Node)
      PROVE  Elements(s) \subseteq Node
  BY <1>3 DEF Elements
<1> QED
  BY <1>2, <1>3 DEF Mutex, Dependency, Child

LEMMA CountFacts == NodeCount \in Nat /\ NodeCount > 0 /\ 0 \in Node
  BY TreeAssumption DEF Node

\* A loop iteration keeps the counter in the table.
LEMMA IterationFacts ==
  ASSUME NEW after, i \in Node, NextIteration(after)
  PROVE  /\ i' \in Node
         /\ pc' \in {pc, after}
         /\ \/ pc' = pc /\ i' = i + 1
            \/ pc' = after /\ i' = 0 /\ i = NodeCount - 1
BY CountFacts DEF NextIteration, Node

\* With at most one peer every slot of the group is written, and no other.
LEMMA SlotFacts ==
  ASSUME ShortMutexLists, i \in Node
  PROVE  \/ EnabledPeers = {} /\ Slots = {0} /\ Cardinality(EnabledPeers) = 0
         \/ EnabledPeers = {1} /\ Slots = {0, 1} /\ Cardinality(EnabledPeers) = 1
<1>1. arg_array[i].mutex \in Seq(Node) /\ Len(arg_array[i].mutex) <= 1
  BY NodeFacts DEF ShortMutexLists
<1>2. EnabledPeers \subseteq {1}
  BY <1>1 DEF EnabledPeers
<1>3. CASE EnabledPeers = {}
  <2>1. Cardinality(EnabledPeers) = 0
    BY <1>3, SmallSets
  <2> QED
    BY <1>3, <2>1 DEF Slots
<1>4. CASE EnabledPeers = {1}
  <2>1. Cardinality(EnabledPeers) = 1
    BY <1>4, SmallSets, Zenon
  <2> QED
    BY <1>4, <2>1 DEF Slots
<1> QED
  BY <1>2, <1>3, <1>4

\* Whatever the scratch array held, a prune leaves flags in the flags.
LEMMA PruneMutexType ==
  ASSUME enable \in [Node -> 0 .. 2], PruneMutex
  PROVE  enable' \in [Node -> 0 .. 2]
<1>1. \A n \in Node : enable'[n] \in {1, 2, enable[n]}
  BY Zenon DEF PruneMutex
<1>2. enable' = [n \in Node |-> enable'[n]]
  BY Zenon DEF PruneMutex
<1>3. \A n \in Node : enable'[n] \in 0 .. 2
  BY <1>1
<1> QED
  BY <1>2, <1>3

\* A call starts with well-typed variables.
LEMMA SelectTypeInit == SelectInit => SelectTypeOK
<1> SUFFICES ASSUME SelectInit PROVE SelectTypeOK
  OBVIOUS
<1>1. enable \in [Node -> 0 .. 2]
  BY SelectAssumption, Zenon DEF SelectInit
<1>2. arg_bitmap \in [Node -> 1 .. 255]
  BY DEF SelectInit
<1> QED
  BY <1>1, <1>2, CountFacts DEF SelectInit, SelectTypeOK

\* Every step of the selection preserves the types.
LEMMA SelectTypeStep ==
  ASSUME ShortMutexLists, ~ RoundsUp
  PROVE  SelectTypeOK /\ [SelectNext]_selectVars => SelectTypeOK'
<1> SUFFICES ASSUME SelectTypeOK, [SelectNext]_selectVars
             PROVE  SelectTypeOK'
  OBVIOUS
<1> USE DEF SelectTypeOK
<1>1. CASE bitmap_fuzz
  BY <1>1, CountFacts, SelectAssumption DEF bitmap_fuzz
<1>2. CASE Draw
  <2>1. enable' \in [Node -> 0 .. 2]
    BY <1>2 DEF Draw
  <2>2. DOMAIN value' = Node
    BY <1>2 DEF Draw
  <2> QED
    BY <1>2, <2>1, <2>2, IterationFacts DEF Draw
<1>3. CASE Prune
  <2>1. ~ PruneOutside
    BY SlotFacts DEF PruneOutside
  <2>2. /\ PruneDisabled \/ PruneMutex \/ PruneNothing
        /\ pc = "prune" /\ NextIteration("dependency") /\ id' = 0
        /\ UNCHANGED <<arg_bitmap, value>>
    BY <1>3, <2>1 DEF Prune
  <2>3. i' \in Node /\ pc' \in {pc, "dependency"}
    BY <2>2, IterationFacts
  <2>4. enable' \in [Node -> 0 .. 2]
    BY <2>2, PruneMutexType DEF PruneDisabled, PruneNothing
  <2> QED
    BY <2>2, <2>3, <2>4, CountFacts
<1>4. CASE enable_dependency
  <2>1. \A j \in DOMAIN arg_array[id].dependency_id :
          arg_array[id].dependency_id[j] \in Node
    BY NodeFacts
  <2> QED
    BY <1>4, <2>1 DEF enable_dependency, Unmet
<1>5. CASE enable_dependant
  <2>1. DrawChild(id) \subseteq Node
    <3>1. ASSUME NEW k \in rand_num(0, Len(arg_array[id].child_id)),
                 k < Len(arg_array[id].child_id)
          PROVE  arg_array[id].child_id[k + 1] \in Node
      BY <3>1, NodeFacts DEF rand_num
    <3> QED
      BY <3>1 DEF DrawChild
  <2>2. Len(arg_array[id].child_id) \notin rand_num(0, Len(arg_array[id].child_id))
    BY NodeFacts DEF rand_num
  <2>3. enable' \in [Node -> 0 .. 2] /\ id' \in Node /\ i' \in Node
    <3>1. CASE NeedsChild(id)
      BY <3>1, <1>5, <2>1, <2>2 DEF enable_dependant
    <3>2. CASE ~ NeedsChild(id)
      BY <3>2, <1>5, CountFacts DEF enable_dependant, SecondPassNext, Node
    <3> QED
      BY <3>1, <3>2
  <2> QED
    BY <1>5, <2>2, <2>3 DEF enable_dependant, SecondPassNext
<1>6. CASE UNCHANGED selectVars
  BY <1>6 DEF selectVars
<1> QED
  BY <1>1, <1>2, <1>3, <1>4, <1>5, <1>6 DEF SelectNext

\* Whatever ir_ held at first and whatever else the tree looks like, if no
\* mutex list is longer than one argument and no draw of rand_num rounds up,
\* arg_fuzz reads no slot it has not written and indexes nothing outside the
\* table of node_count entries (arg_fuzz.c:387, :530, :536).
THEOREM SelectTypeCorrect ==
  ASSUME ShortMutexLists, ~ RoundsUp
  PROVE  SelectSpec => []SelectTypeOK
<1>1. SelectInit => SelectTypeOK
  BY SelectTypeInit
<1>2. SelectTypeOK /\ [SelectNext]_selectVars => SelectTypeOK'
  BY SelectTypeStep
<1> QED
  BY <1>1, <1>2, PTL DEF SelectSpec

-----------------------------------------------------------------------------
\* Mutex peers of a well-formed tree are disjoint pairs of optional nodes.
LEMMA PeerFacts ==
  ASSUME ShortMutexLists, MutexPairs, NEW n \in Node, NEW m \in Mutex(n)
  PROVE  /\ m \in Node /\ m # n
         /\ Mutex(n) = {m} /\ Mutex(m) = {n}
         /\ ~ arg_array[n].must_have /\ ~ arg_array[m].must_have
<1>1. m \in Node /\ m # n /\ n \in Mutex(m)
  BY NodeFacts DEF MutexPairs
<1>2. ASSUME NEW p \in Node, NEW q \in Mutex(p)
      PROVE  Mutex(p) = {q} /\ ~ arg_array[p].must_have
  <2>1. Len(arg_array[p].mutex) <= 1 /\ arg_array[p].mutex \in Seq(Node)
    BY NodeFacts DEF ShortMutexLists
  <2>2. \A j, k \in DOMAIN arg_array[p].mutex : j = k
    BY <2>1
  <2> QED
    BY <2>2, <1>2, Zenon DEF Mutex, Elements, MutexPairs
<1> QED
  BY <1>1, <1>2

\* Pruning on a well-formed tree: either no peer is enabled and nothing
\* happens, or exactly one of the pair is given up.
LEMMA PruneMutexFacts ==
  ASSUME ShortMutexLists, MutexPairs, ~ RoundsUp, i \in Node,
         enable \in [Node -> 0 .. 2], PruneMutex
  PROVE  \/ enable' = enable /\ Mutex(i) \cap Selected = {}
         \/ \E m \in Mutex(i) :
              /\ enable[m] = 1
              /\ \/ enable' = [enable EXCEPT ![m] = 2]
                 \/ enable' = [enable EXCEPT ![i] = 2]
<1> DEFINE mutex == arg_array[i].mutex
           Kept(k, s, n) == /\ k \in Slots
                            /\ s[k] = n
                            /\ \A j \in Slots : j > k => s[j] # n
           After(k, s) == [n \in Node |->
                             IF Kept(k, s, n) THEN 1
                             ELSE IF \E j \in Slots : s[j] = n THEN 2
                                  ELSE enable[n]]
<1>1. mutex \in Seq(Node) /\ Len(mutex) <= 1
  BY NodeFacts DEF ShortMutexLists
<1>2. PICK k \in rand_num(0, 1 + Cardinality(EnabledPeers)), s \in [Slots -> Node] :
        /\ s[0] = i
        /\ \A j \in EnabledPeers \cap Slots : s[j] = mutex[j]
        /\ enable' = After(k, s)
  BY Zenon DEF PruneMutex
<1>3. enable[i] = 1 /\ enable' = [n \in Node |-> After(k, s)[n]]
  BY <1>2, Zenon DEF PruneMutex
<1>4. CASE EnabledPeers = {}
  <2>1. Slots = {0} /\ k = 0
    <3>1. Slots = {0} /\ Cardinality(EnabledPeers) = 0
      BY <1>4, SlotFacts
    <3> QED
      BY <3>1 DEF rand_num
  <2>2. \A n \in Node : After(k, s)[n] = enable[n]
    <3>1. \A n \in Node : \A j \in Slots : j = 0 /\ k = 0 /\ s[j] = i
      BY <1>2, <2>1, Zenon
    <3>2. \A j \in Slots : ~ (j > k)
      BY <2>1
    <3> QED
      BY <1>3, <2>1, <3>1, <3>2, Zenon
  <2>3. enable' = enable
    BY <1>2, <2>2, Zenon
  <2>4. Mutex(i) \cap Selected = {}
    BY <1>4 DEF EnabledPeers, Mutex, Elements, Selected
  <2> QED
    BY <2>3, <2>4
<1>5. CASE EnabledPeers # {}
  <2>1. EnabledPeers = {1} /\ Slots = {0, 1} /\ Cardinality(EnabledPeers) = 1
    BY <1>5, SlotFacts
  <2>2. mutex[1] \in Node /\ enable[mutex[1]] = 1 /\ 1 \in DOMAIN mutex
    BY <1>1, <2>1 DEF EnabledPeers
  <2>3. k \in {0, 1}
    BY <2>1 DEF rand_num
  <2> DEFINE m == mutex[1]
  <2>4. m \in Mutex(i) /\ m # i /\ s[1] = m /\ enable[m] = 1
    <3>1. m \in Mutex(i)
      BY <2>2 DEF Mutex, Elements
    <3>2. 1 \in EnabledPeers \cap Slots
      BY <2>1
    <3> QED
      BY <3>1, <3>2, PeerFacts, <1>2, <2>2, Zenon
  <2> HIDE DEF m
  <2>5. CASE k = 0
    <3>1. \A n \in Node : After(k, s)[n] = IF n = m THEN 2 ELSE enable[n]
      BY <1>2, <2>1, <2>4, <2>5, <1>3
    <3> HIDE DEF After
    <3>2. enable' = [n \in Node |-> IF n = m THEN 2 ELSE enable[n]]
      BY <1>3, <3>1
    <3>3. enable' = [enable EXCEPT ![m] = 2]
      BY <3>2, Zenon
    <3> QED
      BY <3>3, <2>4, Zenon
  <2>6. CASE k = 1
    <3>1. \A n \in Node : After(k, s)[n] = IF n = i THEN 2 ELSE enable[n]
      BY <1>2, <2>1, <2>4, <2>6, <1>3
    <3> HIDE DEF After
    <3>2. enable' = [n \in Node |-> IF n = i THEN 2 ELSE enable[n]]
      BY <1>3, <3>1
    <3>3. enable' = [enable EXCEPT ![i] = 2]
      BY <3>2, Zenon
    <3> QED
      BY <3>3, <2>4
  <2> QED
    BY <2>3, <2>5, <2>6
<1> QED
  BY <1>4, <1>5

-----------------------------------------------------------------------------
\* The bitmap is drawn: it has enabled nothing yet.
LEMMA BitmapStep ==
  ASSUME SelectInv, bitmap_fuzz
  PROVE  (DrawInv /\ PruneInv /\ ReasonInv /\ CloseInv)'
<1>1. pc' = "draw" /\ i' = 0 /\ enable' = enable
  BY DEF bitmap_fuzz
<1>2. /\ \A n \in Node : ~ n < 0
      /\ CleanHeap => \A n \in Node : enable[n] = 0
  BY DEF SelectInv, DrawInv, bitmap_fuzz, Node
<1>3. DrawInv'
  BY <1>1, <1>2 DEF DrawInv
<1> QED
  BY <1>1, <1>3 DEF PruneInv, ReasonInv, CloseInv, Repairing, Repaired

\* One iteration of the draw loop; after the last one the first pass starts
\* with the arguments of the bitmap enabled, and on clean memory no other.
LEMMA DrawStep ==
  ASSUME SelectInv, Draw
  PROVE  (DrawInv /\ PruneInv /\ ReasonInv /\ CloseInv)'
<1>1. /\ pc = "draw" /\ i \in Node /\ enable \in [Node -> 0 .. 2]
      /\ \A n \in Node : n < i /\ Even(n) => enable[n] = 1
      /\ CleanHeap => \A n \in Node : n >= i \/ ~ Even(n) => enable[n] = 0
  BY DEF SelectInv, SelectTypeOK, DrawInv, Draw
<1>2. \A n \in Node : Even(n)' <=> Even(n)
  BY DEF Draw, Even
<1>3. /\ \A n \in Node : n < i + 1 /\ Even(n) => enable'[n] = 1
      /\ CleanHeap => \A n \in Node : n >= i + 1 \/ ~ Even(n) => enable'[n] = 0
  <2>1. enable' = IF Even(i) THEN [enable EXCEPT ![i] = 1] ELSE enable
    BY DEF Draw, Even
  <2>2. \A n \in Node : /\ n < i + 1 <=> n < i \/ n = i
                        /\ n >= i + 1 <=> n >= i /\ n # i
    BY <1>1 DEF Node
  <2> QED
    BY <1>1, <2>1, <2>2
<1>4. CASE pc' = pc /\ i' = i + 1
  <2>1. DrawInv'
    BY <1>1, <1>2, <1>3, <1>4 DEF DrawInv
  <2> QED
    BY <1>1, <1>4, <2>1 DEF PruneInv, ReasonInv, CloseInv, Repairing, Repaired
<1>5. CASE /\ pc' = IF fuzz_level = 0 THEN "prune" ELSE "selected"
           /\ i' = 0
           /\ i = NodeCount - 1
  <2>1. /\ \A n \in Node : Even(n) => enable'[n] = 1
        /\ CleanHeap => \A n \in Node : enable'[n] = IF Even(n) THEN 1 ELSE 0
    BY <1>3, <1>5, CountFacts DEF Node
  <2>2. DrawInv' /\ CloseInv'
    BY <1>5 DEF DrawInv, CloseInv, Repaired
  <2>3. PruneInv'
    <3>1. Repairing' => \A n \in Node : ~ Visited(n)'
      BY <1>5 DEF Repairing, Repaired, Visited, Node
    <3> QED
      BY <1>2, <2>1, <3>1 DEF PruneInv
  <2>4. ReasonInv'
    BY <1>2, <2>1 DEF ReasonInv, Reason, Selected
  <2> QED
    BY <2>2, <2>3, <2>4
<1> QED
  BY <1>1, <1>4, <1>5, IterationFacts DEF Draw

\* One iteration of the first pass.
LEMMA PruneStep ==
  ASSUME WellFormedTree, ~ RoundsUp, SelectInv, Prune
  PROVE  (DrawInv /\ PruneInv /\ ReasonInv /\ CloseInv)'
<1>1. /\ pc = "prune" /\ i \in Node /\ enable \in [Node -> 0 .. 2]
      /\ ShortMutexLists /\ MutexPairs
      /\ enable' \in [Node -> 0 .. 2]
  <2>1. SelectTypeOK'
    BY SelectTypeStep DEF SelectInv, SelectNext, WellFormedTree
  <2> QED
    BY <2>1 DEF SelectInv, SelectTypeOK, Prune, WellFormedTree
<1>2. \A n \in Node :
        /\ Even(n) => enable[n] # 0
        /\ n < i /\ arg_array[n].must_have => enable[n] # 0
        /\ n < i /\ enable[n] = 1 => \A w \in Mutex(n) : enable[w] # 1
        /\ (CleanHeap \/ Even(n)) /\ enable[n] = 2 => \E w \in Mutex(n) : enable[w] = 1
  BY <1>1, NodeFacts DEF SelectInv, PruneInv, Repairing, Visited, Selected
<1>3. CleanHeap => \A n \in Node : enable[n] = 1 => Even(n) \/ arg_array[n].must_have
  BY <1>1 DEF SelectInv, ReasonInv, Reason, Repairing, Selected
<1>4. /\ \A n \in Node : Even(n)' <=> Even(n)
      /\ pc' \in {"prune", "dependency"}
      /\ pc' = "dependency" => i' = 0 /\ id' = 0
      /\ \A n \in Node : Visited(n)' => n < i \/ n = i
  <2>0. ~ PruneOutside
    BY <1>1, SlotFacts DEF PruneOutside
  <2>1. \/ pc' = "prune" /\ i' = i + 1
        \/ pc' = "dependency" /\ i' = 0 /\ i = NodeCount - 1
    BY <1>1, <2>0, IterationFacts DEF Prune
  <2>2. \A n \in Node : Visited(n)' => n < i \/ n = i
    BY <1>1, <2>1, CountFacts DEF Visited, Node
  <2> QED
    BY <2>0, <2>1, <2>2 DEF Prune, Even
<1> DEFINE Pruned ==
      \A n \in Node :
        /\ Even(n) => enable'[n] # 0
        /\ n < i \/ n = i =>
             /\ arg_array[n].must_have => enable'[n] # 0
             /\ enable'[n] = 1 => \A w \in Mutex(n) : enable'[w] # 1
        /\ (CleanHeap \/ Even(n)) /\ enable'[n] = 2 => \E w \in Mutex(n) : enable'[w] = 1
        /\ CleanHeap /\ enable'[n] = 1 => Even(n) \/ arg_array[n].must_have
<1>5. SUFFICES Pruned
  <2>1. DrawInv'
    BY <1>4 DEF DrawInv
  <2>2. CloseInv'
    BY <1>4 DEF CloseInv, Node, Repaired, Selected
  <2>3. PruneInv'
    BY <1>4, <1>5, NodeFacts DEF PruneInv, Selected
  <2>4. ReasonInv'
    BY <1>4, <1>5 DEF ReasonInv, Reason, Selected
  <2> QED
    BY <2>1, <2>2, <2>3, <2>4
<1>6. CASE enable' = enable /\ (enable[i] = 1 => \A w \in Mutex(i) : enable[w] # 1)
                           /\ (arg_array[i].must_have => enable[i] # 0)
  BY <1>1, <1>2, <1>3, <1>6
<1>7. CASE PruneDisabled
  <2>1. CASE arg_array[i].must_have
    <3>1. enable' = [enable EXCEPT ![i] = 1]
      BY <1>7, <2>1 DEF PruneDisabled
    <3>2. Mutex(i) = {} /\ \A n \in Node : i \notin Mutex(n)
      BY <1>1, <2>1, PeerFacts
    <3>3. \A n \in Node : \A w \in Mutex(n) : w \in Node /\ enable'[w] = enable[w]
      BY <1>1, <3>1, <3>2, NodeFacts
    <3> QED
      BY <1>1, <1>2, <1>3, <2>1, <3>1, <3>2, <3>3
  <2>2. CASE ~ arg_array[i].must_have
    BY <1>6, <1>7, <2>2 DEF PruneDisabled
  <2> QED
    BY <2>1, <2>2
<1>8. CASE PruneMutex
  <2>1. CASE enable' = enable /\ Mutex(i) \cap Selected = {}
    <3>1. enable[i] = 1 /\ \A w \in Mutex(i) : enable[w] # 1
      BY <1>1, <1>8, <2>1, NodeFacts, Zenon DEF PruneMutex, Selected
    <3> QED
      BY <1>6, <2>1, <3>1
  <2>2. ASSUME NEW m \in Mutex(i), enable[m] = 1, NEW g \in {i, m},
               enable' = [enable EXCEPT ![g] = 2]
        PROVE  Pruned
    <3> DEFINE h == IF g = i THEN m ELSE i
    <3>1. /\ g \in Node /\ h \in Node /\ g # h
          /\ Mutex(g) = {h} /\ Mutex(h) = {g}
          /\ ~ arg_array[g].must_have
      BY <1>1, <2>2, PeerFacts
    <3>2. enable[g] = 1 /\ enable[h] = 1 /\ enable'[g] = 2 /\ enable'[h] = 1
      BY <1>1, <1>8, <2>2, <3>1, Zenon DEF PruneMutex
    <3>3. i \in {g, h}
      BY <2>2
    <3> HIDE DEF h
    <3>4. \A n \in Node : n # g => enable'[n] = enable[n]
      BY <1>1, <2>2, <3>1
    <3>5. \A n \in Node : n # g /\ n # h => g \notin Mutex(n)
      BY <1>1, <3>1, PeerFacts
    <3> QED
      BY <1>1, <1>2, <1>3, <3>1, <3>2, <3>3, <3>4, <3>5, NodeFacts
  <2> QED
    BY <1>1, <1>8, <2>1, <2>2, PruneMutexFacts
<1>9. CASE PruneNothing
  <2>1. arg_array[i].mutex = << >> => Mutex(i) = {}
    BY DEF Mutex, Elements
  <2> QED
    BY <1>6, <1>9, <2>1 DEF PruneNothing
<1>10. ~ PruneOutside
  BY <1>1, SlotFacts DEF PruneOutside
<1> QED
  BY <1>7, <1>8, <1>9, <1>10 DEF Prune

\* Enabling one more argument keeps what the first pass established and the
\* reasons, provided it has no enabled peer and a reason of its own.
LEMMA EnableOne ==
  ASSUME ShortMutexLists, MutexPairs, SelectInv, NEW n \in Node,
         pc \in {"dependency", "dependant"},
         enable' = [enable EXCEPT ![n] = 1], pc' = pc, arg_bitmap' = arg_bitmap,
         Mutex(n) \cap Selected = {},
         Reason(n)'
  PROVE  /\ (DrawInv /\ PruneInv /\ ReasonInv)'
         /\ Selected' = Selected \cup {n}
<1>1. /\ enable \in [Node -> 0 .. 2]
      /\ \A m \in Node : Even(m)' <=> Even(m)
  BY DEF SelectInv, SelectTypeOK, Even
<1>2. Selected' = Selected \cup {n}
  BY <1>1 DEF Selected
<1>3. \A m \in Node :
        /\ Even(m) => enable[m] # 0
        /\ arg_array[m].must_have => enable[m] # 0
        /\ enable[m] = 1 => Mutex(m) \cap Selected = {}
        /\ (CleanHeap \/ Even(m)) /\ enable[m] = 2 => Mutex(m) \cap Selected # {}
  BY DEF SelectInv, PruneInv, Repairing, Visited
<1>4. DrawInv'
  BY DEF DrawInv
<1>5. PruneInv'
  <2>1. \A m \in Selected : n \notin Mutex(m)
    BY PeerFacts DEF Selected
  <2>2. n \notin Mutex(n)
    BY PeerFacts
  <2>3. \A m \in Node : m # n => enable'[m] = enable[m]
    BY <1>1
  <2>4. enable'[n] = 1
    BY <1>1
  <2>5. ASSUME NEW m \in Node
        PROVE  /\ Even(m)' => enable'[m] # 0
               /\ arg_array[m].must_have => enable'[m] # 0
               /\ enable'[m] = 1 => Mutex(m) \cap Selected' = {}
               /\ (CleanHeap \/ Even(m)') /\ enable'[m] = 2 => Mutex(m) \cap Selected' # {}
    <3>1. CASE m = n
      BY <3>1, <1>2, <2>2, <2>4
    <3>2. CASE m # n
      <4>1. enable[m] = 1 => m \in Selected
        BY DEF Selected
      <4> QED
        BY <3>2, <4>1, <1>1, <1>2, <1>3, <2>1, <2>3
    <3> QED
      BY <3>1, <3>2
  <2> QED
    BY <2>5 DEF PruneInv
<1>6. ReasonInv'
  <2>1. CleanHeap => \A m \in Selected : Reason(m)
    BY DEF SelectInv, ReasonInv, Repairing
  <2>2. CleanHeap => \A m \in Selected : Reason(m)'
    BY <1>1, <1>2, <2>1 DEF Reason, Selected
  <2> QED
    BY <1>2, <2>2 DEF ReasonInv
<1> QED
  BY <1>2, <1>4, <1>5, <1>6

\* One call of enable_dependency.
LEMMA DependencyStep ==
  ASSUME WellFormedTree, SelectInv, enable_dependency
  PROVE  (DrawInv /\ PruneInv /\ ReasonInv /\ CloseInv)'
<1> DEFINE dependency_id == arg_array[id].dependency_id
           off == {j \in DOMAIN dependency_id : enable[dependency_id[j]] = 0}
<1>1. /\ pc = "dependency" /\ i \in Node /\ id \in Node
      /\ enable \in [Node -> 0 .. 2]
      /\ i' = i /\ arg_bitmap' = arg_bitmap
      /\ ShortMutexLists /\ MutexPairs
  BY DEF SelectInv, SelectTypeOK, enable_dependency, WellFormedTree
<1>2. \A n \in Selected :
        /\ n <= i /\ n # id => Met(n)
        /\ n < i => HasChild(n)
  BY <1>1 DEF SelectInv, CloseInv
<1>3. ASSUME enable[id] = 1, NEW j \in off,
             enable' = [enable EXCEPT ![dependency_id[j]] = 1],
             id' = dependency_id[j], pc' = pc
      PROVE  (DrawInv /\ PruneInv /\ ReasonInv /\ CloseInv)'
  <2>0. PICK p \in Node : p = dependency_id[j]
    BY <1>1, <1>3, NodeFacts
  <2>1. /\ p \in Node /\ p \in Dependency(id) /\ id \in Selected
        /\ enable[p] = 0 /\ p # id
    BY <1>1, <1>3, <2>0 DEF Dependency, Elements, Selected
  <2>2. Dependency(id) = {p}
    <3>1. dependency_id \in Seq(Node) /\ Len(dependency_id) <= 1
      BY <1>1, NodeFacts DEF WellFormedTree, OneDependency
    <3>2. \A k \in DOMAIN dependency_id : k = j
      BY <1>3, <3>1
    <3> QED
      BY <2>0, <2>1, <3>2 DEF Dependency, Elements
  <2>3. enable' = [enable EXCEPT ![p] = 1] /\ id' = p
    BY <1>3, <2>0
  <2>4. Mutex(p) = {}
    BY <1>1, <2>1 DEF WellFormedTree, MutexLeaves
  <2> HIDE DEF dependency_id
  <2>5. id \in Selected'
    BY <1>1, <2>1, <2>3 DEF Selected
  <2>6. Reason(p)'
    BY <1>1, <1>3, <2>1, <2>5 DEF Reason
  <2>7. (DrawInv /\ PruneInv /\ ReasonInv)' /\ Selected' = Selected \cup {p}
    BY <1>1, <1>3, <2>1, <2>3, <2>4, <2>6, EnableOne, Zenon
  <2>8. HasChild(p)'
    <3>1. arg_array[p].must_child => id \in Child(p)
      BY <1>1, <2>1 DEF WellFormedTree, MustChildClosed
    <3> QED
      BY <2>5, <3>1 DEF HasChild
  <2>9. \A n \in Selected : HasChild(n) => HasChild(n)'
    BY <2>7 DEF HasChild
  <2>10. CloseInv'
    <3>1. \A n \in Selected : n = id \/ Met(n) => Met(n)'
      <4>1. \A n \in Selected : Dependency(n) \subseteq Node
        BY NodeFacts DEF Selected
      <4> QED
        BY <1>1, <2>1, <2>2, <2>3, <4>1 DEF Met
    <3>2. \A n \in Selected' :
            /\ n <= i /\ n # p => Met(n)'
            /\ n < i => HasChild(n)'
      BY <1>2, <2>7, <2>8, <2>9, <3>1
    <3> QED
      BY <1>1, <1>3, <2>3, <3>2 DEF CloseInv, Repaired
  <2> QED
    BY <2>7, <2>10
<1>4. ASSUME enable[id] # 1 \/ off = {}, id' = i, pc' = "dependant",
             enable' = enable
      PROVE  (DrawInv /\ PruneInv /\ ReasonInv /\ CloseInv)'
  <2>1. Selected' = Selected /\ \A n \in Node : Even(n)' <=> Even(n)
    BY <1>1, <1>4 DEF Selected, Even
  <2>2. DrawInv'
    BY <1>4 DEF DrawInv
  <2>3. PruneInv'
    BY <1>1, <1>4, <2>1 DEF SelectInv, PruneInv, Repairing, Visited
  <2>4. ReasonInv'
    BY <1>1, <1>4, <2>1 DEF SelectInv, ReasonInv, Reason, Repairing, Selected
  <2>5. id \in Selected => Met(id)
    BY <1>1, <1>4, NodeFacts DEF Dependency, Elements, Selected, Met
  <2>6. CloseInv'
    <3>1. \A n \in Selected :
            /\ n <= i => Met(n)
            /\ n <= i /\ n # i => HasChild(n)
      BY <1>1, <1>2, <2>5 DEF Selected, Node
    <3>2. \A n \in Selected : (HasChild(n)' <=> HasChild(n)) /\ (Met(n)' <=> Met(n))
      BY <1>4, <2>1 DEF HasChild, Met
    <3> QED
      BY <1>1, <1>4, <2>1, <3>1, <3>2 DEF CloseInv, Repaired
  <2> QED
    BY <2>2, <2>3, <2>4, <2>6
<1> QED
  BY <1>1, <1>3, <1>4, Zenon DEF enable_dependency, Unmet

\* One call of enable_dependant.
LEMMA DependantStep ==
  ASSUME WellFormedTree, ~ RoundsUp, SelectInv, enable_dependant
  PROVE  (DrawInv /\ PruneInv /\ ReasonInv /\ CloseInv)'
<1>1. /\ pc = "dependant" /\ i \in Node /\ id \in Node
      /\ enable \in [Node -> 0 .. 2]
      /\ arg_bitmap' = arg_bitmap
      /\ ShortMutexLists /\ MutexPairs
  BY DEF SelectInv, SelectTypeOK, enable_dependant, WellFormedTree
<1>2. \A n \in Selected :
        /\ n <= i => Met(n)
        /\ n <= i /\ n # id => HasChild(n)
  BY <1>1 DEF SelectInv, CloseInv
<1>3. ASSUME NeedsChild(id), NEW c \in DrawChild(id),
             enable' = [enable EXCEPT ![c] = 1],
             id' = c, pc' = pc, i' = i
      PROVE  (DrawInv /\ PruneInv /\ ReasonInv /\ CloseInv)'
  <2>1. c \in Child(id) /\ c \in Node
    <3>1. arg_array[id].child_id \in Seq(Node) /\ Child(id) \subseteq Node
      BY <1>1, NodeFacts
    <3>2. PICK k \in rand_num(0, Len(arg_array[id].child_id)) :
            c \in IF k < Len(arg_array[id].child_id)
                  THEN {arg_array[id].child_id[k + 1]} ELSE Node
      BY <1>3 DEF DrawChild
    <3>3. k \in Nat /\ k < Len(arg_array[id].child_id)
      BY <3>1 DEF rand_num
    <3> QED
      BY <3>1, <3>2, <3>3 DEF Child, Elements
  <2>2. /\ id \in Selected /\ arg_array[id].must_child
        /\ Child(id) \cap Selected = {}
    BY <1>1, <1>3 DEF NeedsChild, Selected
  <2>3. Dependency(c) = {id} /\ Mutex(c) \subseteq Child(id)
    BY <1>1, <2>1, <2>2
       DEF WellFormedTree, ChildDependsOnParent, MutexSiblings
  <2>4. Mutex(c) \cap Selected = {}
    BY <2>2, <2>3
  <2>5. id \in Selected'
    BY <1>1, <1>3, <2>1, <2>2 DEF Selected
  <2>6. Reason(c)'
    BY <1>1, <1>3, <2>1, <2>2, <2>5 DEF Reason
  <2>7. (DrawInv /\ PruneInv /\ ReasonInv)' /\ Selected' = Selected \cup {c}
    BY <1>1, <1>3, <2>1, <2>4, <2>6, EnableOne, Zenon
  <2>8. \A n \in Selected : HasChild(n) => HasChild(n)'
    BY <2>7 DEF HasChild
  <2>9. Child(id) \cap Selected' # {}
    BY <2>1, <2>7
  <2>10. \A n \in Selected : n = id => HasChild(n)'
    BY <2>9 DEF HasChild
  <2>11. CloseInv'
    <3>1. \A n \in Selected : Met(n) => Met(n)'
      <4>1. \A n \in Selected : Dependency(n) \subseteq Node
        BY NodeFacts DEF Selected
      <4> QED
        BY <1>1, <1>3, <2>1, <4>1 DEF Met
    <3>2. Met(c)'
      BY <2>3, <2>5 DEF Met, Selected
    <3>3. \A n \in Selected' :
            /\ n <= i => Met(n)'
            /\ n <= i /\ n # c => HasChild(n)'
      BY <1>2, <2>7, <2>8, <2>10, <3>1, <3>2
    <3> QED
      BY <1>1, <1>3, <3>3 DEF CloseInv, Repaired
  <2> QED
    BY <2>7, <2>11
<1>4. ASSUME ~ NeedsChild(id), enable' = enable,
             \/ /\ i + 1 < NodeCount
                /\ i' = i + 1 /\ id' = i + 1 /\ pc' = "dependency"
             \/ /\ ~ (i + 1 < NodeCount)
                /\ i' = 0 /\ id' = 0 /\ pc' = "selected"
      PROVE  (DrawInv /\ PruneInv /\ ReasonInv /\ CloseInv)'
  <2>1. Selected' = Selected /\ \A n \in Node : Even(n)' <=> Even(n)
    BY <1>1, <1>4 DEF Selected, Even
  <2>2. DrawInv'
    BY <1>4 DEF DrawInv
  <2>3. PruneInv'
    <3>1. Repairing /\ \A n \in Node : Visited(n)
      BY <1>1 DEF Repairing, Visited
    <3> QED
      BY <1>4, <2>1, <3>1 DEF SelectInv, PruneInv
  <2>4. ReasonInv'
    BY <1>1, <1>4, <2>1 DEF SelectInv, ReasonInv, Reason, Repairing, Selected
  <2>5. id \in Selected => HasChild(id)
    <3>1. Child(id) # {} => arg_array[id].child_id # << >>
      BY DEF Child, Elements
    <3> QED
      BY <1>1, <1>4, <3>1, NodeFacts DEF NeedsChild, HasChild, Selected
  <2>6. \A n \in Selected : n <= i => Met(n) /\ HasChild(n)
    BY <1>2, <2>5
  <2>7. \A n \in Selected : (HasChild(n)' <=> HasChild(n)) /\ (Met(n)' <=> Met(n))
    BY <1>4, <2>1 DEF HasChild, Met
  <2>8. CloseInv'
    <3>1. CASE i + 1 < NodeCount
      <4>1. \A n \in Selected : (n <= i + 1 /\ n # i + 1 => n <= i)
                               /\ (n < i + 1 => n <= i)
        BY <1>1 DEF Selected, Node
      <4> QED
        BY <1>4, <2>1, <2>6, <2>7, <3>1, <4>1 DEF CloseInv, Repaired
    <3>2. CASE ~ (i + 1 < NodeCount)
      <4>1. \A n \in Selected : n <= i
        BY <1>1, <3>2, CountFacts DEF Selected, Node
      <4> QED
        BY <1>4, <2>1, <2>6, <2>7, <3>2, <4>1 DEF CloseInv, Repaired
    <3> QED
      BY <3>1, <3>2
  <2> QED
    BY <2>2, <2>3, <2>4, <2>8
<1>5. CASE NeedsChild(id)
  <2>1. Len(arg_array[id].child_id) \notin rand_num(0, Len(arg_array[id].child_id))
    BY <1>1, NodeFacts DEF rand_num
  <2> QED
    BY <1>1, <1>3, <1>5, <2>1 DEF enable_dependant
<1>6. CASE ~ NeedsChild(id)
  BY <1>4, <1>6 DEF enable_dependant, SecondPassNext
<1> QED
  BY <1>5, <1>6

-----------------------------------------------------------------------------
\* On every well-formed tree, whatever ir_ held at first (main mallocs it,
\* arg_fuzz.c:623) and as long as no draw of rand_num rounds up, every step of
\* the selection of arg_fuzz preserves the invariant.
THEOREM SelectInvCorrect ==
  ASSUME WellFormedTree, ~ RoundsUp
  PROVE  SelectSpec => []SelectInv
<1>1. SelectInit => SelectInv
  <2> SUFFICES ASSUME SelectInit PROVE SelectInv
    OBVIOUS
  <2>1. SelectTypeOK
    BY SelectTypeInit
  <2>2. CleanHeap => \A n \in Node : enable[n] = 0
    BY Zenon DEF SelectInit, CleanHeap
  <2>3. DrawInv
    BY <2>2 DEF SelectInit, DrawInv
  <2>4. PruneInv /\ ReasonInv /\ CloseInv
    BY DEF SelectInit, PruneInv, ReasonInv, CloseInv, Repairing, Repaired
  <2> QED
    BY <2>1, <2>3, <2>4 DEF SelectInv
<1>2. SelectInv /\ [SelectNext]_selectVars => SelectInv'
  <2> SUFFICES ASSUME SelectInv, [SelectNext]_selectVars PROVE SelectInv'
    OBVIOUS
  <2>1. SelectTypeOK'
    BY SelectTypeStep DEF SelectInv, WellFormedTree
  <2>2. CASE UNCHANGED selectVars
    <3>1. /\ UNCHANGED <<pc, i, id, arg_bitmap, enable, value>>
      BY <2>2 DEF selectVars
    <3>2. (DrawInv /\ PruneInv /\ ReasonInv /\ CloseInv)'
      <4>1. DrawInv'
        BY <3>1, Zenon DEF SelectInv, DrawInv, Even
      <4>2. PruneInv'
        BY <3>1, Zenon DEF SelectInv, PruneInv, Repairing, Repaired, Visited, Even, Selected
      <4>3. ReasonInv'
        BY <3>1, Zenon DEF SelectInv, ReasonInv, Repairing, Repaired, Reason, Even, Selected
      <4>4. CloseInv'
        BY <3>1, Zenon DEF SelectInv, CloseInv, Repaired, HasChild, Met, Selected
      <4> QED
        BY <4>1, <4>2, <4>3, <4>4, Zenon
    <3> QED
      BY <2>1, <3>2 DEF SelectInv
  <2>3. CASE SelectNext
    <3>1. (DrawInv /\ PruneInv /\ ReasonInv /\ CloseInv)'
      BY <2>3, BitmapStep, DrawStep, PruneStep, DependencyStep, DependantStep
         DEF SelectNext
    <3> QED
      BY <2>1, <3>1 DEF SelectInv
  <2> QED
    BY <2>2, <2>3
<1> QED
  BY <1>1, <1>2, PTL DEF SelectSpec

\* Whatever ir_ held at first, the selection that arg_fuzz ends with has no
\* mutex pair, and a child wherever one is needed; what the bitmap asked for was
\* given up for a peer only (arg_fuzz.c:508 and 543).
THEOREM AnyHeapCorrect ==
  ASSUME WellFormedTree, ~ RoundsUp
  PROVE  SelectSpec => [](MutexExclusive /\ MustChildSelected /\ PrunedForPeer)
<1>1. SelectInv => MutexExclusive /\ MustChildSelected /\ PrunedForPeer
  <2> SUFFICES ASSUME SelectInv, Repaired
               PROVE  /\ \A n \in Selected : Mutex(n) \cap Selected \subseteq {n}
                      /\ \A n \in Selected : HasChild(n)
                      /\ \A n \in Node : Even(n) /\ n \notin Selected
                                          => Mutex(n) \cap Selected # {}
    BY DEF MutexExclusive, MustChildSelected, PrunedForPeer, HasChild, Even
  <2>1. Repairing /\ \A n \in Node : Visited(n)
    BY DEF Repairing, Visited, Repaired
  <2>2. \A n \in Selected : n \in Node /\ enable[n] = 1
    BY DEF Selected
  <2>3. \A n \in Node : enable[n] \in {0, 1, 2} /\ (n \in Selected <=> enable[n] = 1)
    BY DEF SelectInv, SelectTypeOK, Selected
  <2>4. \A n \in Node : Even(n) /\ n \notin Selected => Mutex(n) \cap Selected # {}
    BY <2>1, <2>3 DEF SelectInv, PruneInv
  <2> QED
    BY <2>1, <2>2, <2>4 DEF SelectInv, PruneInv, CloseInv
<1>2. SelectSpec => []SelectInv
  BY SelectInvCorrect
<1> QED
  BY <1>1, <1>2, PTL

\* If ir_ was zero when the call began (the end of arg_fuzz leaves it so, the
\* malloc of main need not), the must-haves and every dependency are selected
\* as well, and nothing was added without a reason (arg_fuzz.c:508
\* and 542).
THEOREM CleanHeapCorrect ==
  ASSUME WellFormedTree, ~ RoundsUp, CleanHeap
  PROVE  SelectSpec => [](/\ MustHavesSelected
                          /\ DependenciesSelected
                          /\ SelectionJustified)
<1>1. SelectInv => /\ MustHavesSelected
                   /\ DependenciesSelected
                   /\ SelectionJustified
  <2> SUFFICES ASSUME SelectInv, Repaired
               PROVE  /\ \A n \in Node : arg_array[n].must_have => enable[n] = 1
                      /\ \A n \in Selected : Dependency(n) \subseteq Selected
                      /\ \A n \in Selected : Reason(n)
    BY DEF MustHavesSelected, DependenciesSelected, SelectionJustified, Even,
           Reason, Repaired
  <2>1. Repairing /\ \A n \in Node : Visited(n)
    BY DEF Repairing, Visited, Repaired
  <2>2. \A n \in Node : enable[n] \in {0, 1, 2} /\ (n \in Selected <=> enable[n] = 1)
    BY DEF SelectInv, SelectTypeOK, Selected
  <2>3. \A n \in Selected : n \in Node /\ Dependency(n) \subseteq Node
    BY NodeFacts DEF Selected
  <2>4. \A n \in Node :
          /\ Even(n) => enable[n] # 0
          /\ arg_array[n].must_have => enable[n] # 0
          /\ enable[n] = 2 => Mutex(n) # {} /\ Mutex(n) \cap Selected # {}
    BY <2>1 DEF SelectInv, PruneInv
  <2>5. \A n \in Node : arg_array[n].must_have => Mutex(n) = {}
    BY DEF WellFormedTree, MutexPairs
  <2>6. \A n \in Selected : \A d \in Dependency(n) : enable[d] # 0 /\ Mutex(d) = {}
    BY <2>3 DEF SelectInv, CloseInv, Met, WellFormedTree, MutexLeaves
  <2>7. \A n \in Selected : Reason(n)
    BY <2>1 DEF SelectInv, ReasonInv
  <2>8. \A n \in Selected : Dependency(n) \subseteq Selected
    BY <2>2, <2>3, <2>4, <2>6
  <2> QED
    BY <2>2, <2>4, <2>5, <2>7, <2>8
<1>2. SelectSpec => []SelectInv
  BY SelectInvCorrect
<1> QED
  BY <1>1, <1>2, PTL
=============================================================================

----------------------------- MODULE MetaCorrupt ----------------------------
(***************************************************************************)
(* The image corruptor (src/test.cc): it opens an ext2/3/4 image, records  *)
(* where the metadata structures of every block group lie, picks one at    *)
(* random and overwrites four of its bytes.                                *)
(*                                                                         *)
(* Each random number is the first rand() after srand(time(NULL)): it is a *)
(* function of the current second, held in rnd, and changes when the clock *)
(* ticks, which may happen between any two steps.                          *)
(***************************************************************************)
EXTENDS Integers, Functions

CONSTANTS
  Images,  (* file systems: the fields of ext2_filsys that test.cc reads  *)
  Rand     (* the numbers that the first rand() of a second may be        *)

ASSUME CorruptAssumption ==
  /\ \A img \in Images :
       img.blocksize \in Nat \ {0} /\ img.group_desc_count \in Nat \ {0}
  /\ Rand \subseteq Nat

VARIABLES
  fs,             (* the image that is opened                             *)
  pc,
  i,              (* loop counter of find_metadata_blocks                 *)
  meta_dict,      (* a partial function from keys to offset and length    *)
  rnd,            (* the first rand() of the current second               *)
  structure_num,  (* the key that was selected                            *)
  location,       (* where the corruption goes, in bytes                  *)
  written         (* the bytes of the image that were overwritten         *)

vars == <<fs, pc, i, meta_dict, rnd, structure_num, location, written>>

\* enum level_one_structures
Structures == <<"superblock", "bgd", "GDT", "meta_bg", "block bitmap",
                "inode bitmap", "inode table">>
kNum == 7

Key(structure, group) ==
  group * kNum + (CHOOSE k \in 0 .. kNum - 1 : Structures[k + 1] = structure)

Group == 0 .. fs.group_desc_count - 1

field_count == kNum * fs.group_desc_count

Entry(offset, length) == [offset |-> offset, length |-> length]

\* operator[] of the hash table: a missing key reads as zeroes.
Lookup(key) == IF key \in DOMAIN meta_dict THEN meta_dict[key] ELSE Entry(0, 0)

-----------------------------------------------------------------------------
(***************************************************************************)
(* libext2fs: which groups hold a copy of the superblock, and where the    *)
(* superblock and the descriptors of a group are (0: it has none).         *)
(***************************************************************************)
test_root(a, b) ==
  LET root[x \in 0 .. a] == \/ x = b
                            \/ x > b /\ x % b = 0 /\ root[x \div b]
  IN  root[a]

ext2fs_bg_has_super(group) ==
  \/ group = 0
  \/ IF fs.sparse_super2
     THEN group \in fs.backup_bgs
     ELSE \/ group <= 1
          \/ ~ fs.sparse_super
          \/ group % 2 = 1 /\ \E b \in {3, 5, 7} : test_root(group, b)

old_desc_blocks ==
  IF fs.meta_bg THEN fs.first_meta_bg ELSE fs.desc_blocks + fs.reserved_gdt_blocks

group_block(group) ==
  LET first == fs.first_data_block + fs.blocks_per_group * group
  IN  IF first = 0 /\ fs.blocksize = 1024 THEN 1 ELSE first

super_blk(group) ==
  IF ext2fs_bg_has_super(group) THEN group_block(group) ELSE 0

OldLayout(group) ==
  ~ fs.meta_bg \/ group \div fs.desc_per_block < fs.first_meta_bg

old_desc_blk(group) ==
  IF OldLayout(group) /\ ext2fs_bg_has_super(group) THEN group_block(group) + 1
                                                    ELSE 0

new_desc_blk(group) ==
  IF /\ ~ OldLayout(group)
     /\ group % fs.desc_per_block \in {0, 1, fs.desc_per_block - 1}
  THEN group_block(group) + (IF ext2fs_bg_has_super(group) THEN 1 ELSE 0)
  ELSE 0

-----------------------------------------------------------------------------
\* Mutant of SuperOffset: a group without a superblock is not marked.
SuperOffset_Unmarked(group) == super_blk(group) * fs.blocksize

\* The offset that ends up under the superblock key: of the three ifs of
\* find_super_and_bgd the last one wins, for group 0 as well.
SuperOffset(group) ==
  IF super_blk(group) = 0 THEN -1
  ELSE IF group = 0 /\ fs.blocksize = 1024 /\ fs.cluster_ratio > 1 THEN 0
  ELSE super_blk(group) * fs.blocksize

\* The old descriptor blocks of a group, cut off at the end of the image.
DescBlocks(group) ==
  IF old_desc_blk(group) + old_desc_blocks >= fs.blocks_count
  THEN fs.blocks_count - old_desc_blk(group)
  ELSE old_desc_blocks

(***************************************************************************)
(* find_super_and_bgd: the entries of the first four structures of a       *)
(* group; an offset of -1 says that the group has none.                    *)
(***************************************************************************)
find_super_and_bgd(group) ==
  LET old == old_desc_blk(group)
      new == new_desc_blk(group)
      At(blk) == IF blk = 0 THEN -1 ELSE blk * fs.blocksize
  IN  [key \in {Key(s, group) : s \in {"superblock", "bgd", "GDT", "meta_bg"}} |->
        CASE key = Key("superblock", group) ->
               Entry(SuperOffset(group), fs.blocksize)
          [] key = Key("bgd", group) -> Entry(At(old), fs.desc_size)
          [] key = Key("GDT", group) ->
               IF old = 0 THEN Entry(-1, fs.desc_size)
               ELSE Entry((old + 1) * fs.blocksize, DescBlocks(group) * fs.blocksize)
          [] OTHER -> Entry(At(new), fs.desc_per_block * fs.desc_size)]

\* The two bitmaps and the inode table; the table is stored under the key of
\* the block bitmap, whose entry it replaces.
BitmapsAndTable(group) ==
  LET At(blk) == blk * fs.blocksize
  IN  [key \in {Key("block bitmap", group), Key("inode bitmap", group)} |->
        IF key = Key("inode bitmap", group)
        THEN Entry(At(fs.inode_bitmap[group]), fs.blocksize)
        ELSE Entry(At(fs.inode_table[group]),
                   fs.blocksize * fs.inode_blocks_per_group)]

Merge(f, g) ==
  [key \in DOMAIN f \cup DOMAIN g |-> IF key \in DOMAIN g THEN g[key] ELSE f[key]]

-----------------------------------------------------------------------------
(***************************************************************************)
(* process_fs opens the image.  An error is only logged, and the program   *)
(* then dereferences the null pointer fs.                                  *)
(***************************************************************************)
Open ==
  /\ pc = "open"
  /\ pc' \in {"scan", "crashed"}
  /\ UNCHANGED <<fs, i, meta_dict, rnd, structure_num, location, written>>

(***************************************************************************)
(* One iteration of the loop of find_metadata_blocks.                      *)
(***************************************************************************)
find_metadata_blocks ==
  /\ pc = "scan"
  /\ meta_dict' = Merge(meta_dict, Merge(find_super_and_bgd(i), BitmapsAndTable(i)))
  /\ IF i + 1 < fs.group_desc_count THEN i' = i + 1 /\ UNCHANGED pc
                                    ELSE i' = 0 /\ pc' = "select"
  /\ UNCHANGED <<fs, rnd, structure_num, location, written>>

\* random(from, to), for to - from + 1 # 0.  The % of C takes the sign of the
\* dividend, so a negative modulus counts as its absolute value.
random(from, to) ==
  LET size == to - from + 1
  IN  (rnd % (IF size < 0 THEN - size ELSE size)) + from

\* Mutant of Selector: the generator is seeded, and the key drawn, before the
\* loop and not in it.
Selector_DrawnOnce ==
  IF structure_num = 0 THEN random(0, field_count) ELSE structure_num

\* Mutant of Selector: one more key.
Selector_OneMore == random(0, field_count + 1)

\* The key that level_one_structure_selector draws; the upper end belongs to
\* the range, so field_count, which is nobody's key, may be drawn.
Selector == random(0, field_count)

(***************************************************************************)
(* One iteration of the selection loop of level_one_image_mutation.        *)
(***************************************************************************)
SelectStructure ==
  /\ pc = "select"
  /\ structure_num' = Selector
  /\ meta_dict' = Merge([key \in {Selector} |-> Lookup(Selector)], meta_dict)
  /\ pc' = IF Lookup(Selector).offset >= 0 THEN "locate" ELSE "select"
  /\ UNCHANGED <<fs, i, rnd, location, written>>

\* Mutant of LastPlace: one place too many.
LastPlace_OffByOne(entry) == entry.length - 3

\* The last place for the four bytes.  For an entry of length 0 the unsigned
\* subtraction wraps around, and is -4 again as an int.
LastPlace(entry) == entry.length - 4

(***************************************************************************)
(* Where the corruption goes, and its report.                              *)
(***************************************************************************)
Locate ==
  /\ pc = "locate"
  /\ location' = Lookup(structure_num).offset
                   + random(0, LastPlace(Lookup(structure_num)))
  /\ pc' = "write"
  /\ UNCHANGED <<fs, i, meta_dict, rnd, structure_num, written>>

(***************************************************************************)
(* The corruption.  The image may not be writable: the stream is in error  *)
(* since open then, and neither seekg nor write does anything.             *)
(***************************************************************************)
Write ==
  /\ pc = "write"
  /\ written' \in {location .. location + 3, {}}
  /\ pc' = "done"
  /\ UNCHANGED <<fs, i, meta_dict, rnd, structure_num, location>>

\* The next second begins.
Tick ==
  /\ pc \in {"select", "locate"}
  /\ rnd' \in Rand
  /\ UNCHANGED <<fs, pc, i, meta_dict, structure_num, location, written>>

-----------------------------------------------------------------------------
Init ==
  /\ fs \in Images
  /\ pc = "open"
  /\ i = 0
  /\ meta_dict = [key \in {} |-> Entry(0, 0)]
  /\ rnd \in Rand
  /\ structure_num = 0
  /\ location = 0
  /\ written = {}

Step == Open \/ find_metadata_blocks \/ SelectStructure \/ Locate \/ Write

Next == Step \/ Tick

Spec == Init /\ [][Next]_vars

(***************************************************************************)
(* The program runs, and the clock does: among the numbers of the seconds  *)
(* to come is, again and again, one that selects a structure that exists,  *)
(* and the loop, which spins all through a second, sees it.                *)
(***************************************************************************)
Selects(r) == Lookup(r % (field_count + 1)).offset >= 0

FairSpec == /\ Spec
            /\ WF_vars(Step)
            /\ SF_vars(Tick /\ Selects(rnd'))
            /\ SF_vars(SelectStructure /\ Selects(rnd))
-----------------------------------------------------------------------------
Image == 0 .. fs.blocks_count * fs.blocksize - 1

\* Where a structure of a group really is, as a set of byte offsets; empty for
\* a structure that the group does not have.
Extent(structure, group) ==
  LET Blocks(first, count) ==
        first * fs.blocksize .. (first + count) * fs.blocksize - 1
  IN  CASE structure = "superblock" ->
             IF ext2fs_bg_has_super(group) THEN Blocks(super_blk(group), 1) ELSE {}
        [] structure \in {"bgd", "GDT"} ->
             IF old_desc_blk(group) = 0 THEN {}
             ELSE Blocks(old_desc_blk(group), old_desc_blocks)
        [] structure = "meta_bg" ->
             IF new_desc_blk(group) = 0 THEN {} ELSE Blocks(new_desc_blk(group), 1)
        [] structure = "block bitmap" -> Blocks(fs.block_bitmap[group], 1)
        [] structure = "inode bitmap" -> Blocks(fs.inode_bitmap[group], 1)
        [] OTHER -> Blocks(fs.inode_table[group], fs.inode_blocks_per_group)

\* The variables have their types; meta_dict holds keys of the groups scanned
\* so far and, after a draw, of what was looked up.
TypeOK ==
  /\ fs \in Images
  /\ pc \in {"open", "scan", "select", "locate", "write", "done", "crashed"}
  /\ i \in Group
  /\ DOMAIN meta_dict \subseteq 0 .. field_count
  /\ \A key \in DOMAIN meta_dict :
       meta_dict[key].offset \in Nat \cup {-1} /\ meta_dict[key].length \in Nat
  /\ structure_num \in 0 .. field_count

\* The corruption changes the image and does not make it longer: all four
\* bytes lie before its end.  (The entry of the GDT, which reaches one block
\* past the descriptors, relies on there being something behind them.)
InsideImage == written \subseteq Image

\* The keys under which the scan has stored an entry.
Recorded(key) == key < field_count /\ key % kNum # kNum - 1

\* Only metadata is corrupted: when a recorded structure is selected, all four
\* bytes belong to the metadata of that group, even though the entry of the
\* GDT starts one block late and reaches one block past it.
InsideMetadata ==
  Recorded(structure_num) =>
    \A byte \in written : \E structure \in Range(Structures) :
      byte \in Extent(structure, structure_num \div kNum)

\* "Corruption at key ... : <structure> of group <group> is selected"
\* (test.cc:206): the bytes that are corrupted belong to the structure that
\* the report names.
ReportIsTrue ==
  written # {} =>
    /\ structure_num < field_count
    /\ written \subseteq Extent(Structures[(structure_num % kNum) + 1],
                                structure_num \div kNum)

\* The selection loop ends: a corruption is made, or the image could not be
\* opened.
Ends == <>(pc \in {"done", "crashed"})
=============================================================================

---------------------------- MODULE MCMetaCorrupt ---------------------------
(***************************************************************************)
(* MetaCorrupt on small images.  The numbers of rand() are chosen so that  *)
(* every key is drawn, and with it the ends of every structure.            *)
(***************************************************************************)
EXTENDS MetaCorrupt

\* What mke2fs makes of an image of four groups with blocks of 1024 bytes:
\* sparse_super, one block of descriptors and one reserved, the bitmaps and an
\* inode table that fills the rest of its group behind them.
Image1k ==
  [ blocksize |-> 1024, group_desc_count |-> 4, blocks_per_group |-> 256,
    first_data_block |-> 1, blocks_count |-> 1025, desc_blocks |-> 1,
    reserved_gdt_blocks |-> 1, meta_bg |-> FALSE, first_meta_bg |-> 0,
    sparse_super |-> TRUE, sparse_super2 |-> FALSE, backup_bgs |-> {},
    desc_size |-> 32, desc_per_block |-> 32, cluster_ratio |-> 1,
    inode_blocks_per_group |-> 251,
    block_bitmap |-> [group \in 0 .. 3 |-> 256 * group + 4],
    inode_bitmap |-> [group \in 0 .. 3 |-> 256 * group + 5],
    inode_table  |-> [group \in 0 .. 3 |-> 256 * group + 6] ]

\* The same with blocks of 4096 bytes: the first block of group 0 is block 0.
Image4k ==
  [Image1k EXCEPT !.blocksize = 4096, !.first_data_block = 0, !.blocks_count = 1024,
     !.desc_per_block = 128,
     !.block_bitmap = [group \in 0 .. 3 |-> 256 * group + 3],
     !.inode_bitmap = [group \in 0 .. 3 |-> 256 * group + 4],
     !.inode_table  = [group \in 0 .. 3 |-> 256 * group + 5]]

\* The same with meta_bg from the first descriptor block on.
ImageMetaBg == [Image1k EXCEPT !.meta_bg = TRUE, !.reserved_gdt_blocks = 0]

\* sparse_super2: the backups are in the groups that the superblock names.
ImageSparse2 ==
  [Image1k EXCEPT !.sparse_super2 = TRUE, !.backup_bgs = {1, 2}]

AllImages == {Image1k, Image4k, ImageMetaBg, ImageSparse2}
OneImage == {Image1k}

\* The lengths that occur in the images.
Lengths == {32, 1024, 2048, 4096, 8192, 251 * 1024, 251 * 4096}

\* The rand() of a second: every key is drawn (28 of them and the one past the
\* end), and so are the first and the last places of every length.
Numbers == 0 .. 28 \cup UNION {len - 4 .. len - 1 : len \in Lengths}
=============================================================================

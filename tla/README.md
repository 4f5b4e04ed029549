# A TLA+ model of ConFuzz

ConFuzz generates configurations (command lines) for file-system utilities from
a *constraint tree*, a JSON description of a utility's arguments; it formats and
ages images, and corrupts their metadata.  This directory
holds TLA+ modules of its parts, TLC configurations that check them on small
instances, and proofs that TLAPS checks for instances of every size.  Paths are
relative to the root of the repository's sources; `E/` stands for
`src/e2fsprogs/`, the vendored copy of e2fsprogs 1.43.8.

## The system and its parts

```
 json/mke2fs.json --ct_builder--> arg_array --arg_fuzz--> command line
                    CtBuilder     ConstraintTree          ArgSelect, ArgFuzz
                                                          FuzzValue (rand_num)
 arg_fuzz.sh: truncate, mke2fs, mount, workload, umount, clean up   FuzzDriver
 src/test.cc: find metadata, select a structure, overwrite 4 bytes  MetaCorrupt
 E/lib/ext2fs/unix_io.c: the block cache that the utilities and the
   corruptor open images through                        UnixIo => BlockStore
```

| Part | Code | Modules | Status |
|---|---|---|---|
| constraint tree | `src/arg_fuzz.c` (`struct arg_node`, `rand_num`) | `ConstraintTree` | modelled |
| tree builder | `src/arg_fuzz.c` (`jso_count`, `ct_builder`, `main`) | `CtBuilder` | modelled |
| argument selection | `src/arg_fuzz.c` (`bitmap_fuzz`, first half of `arg_fuzz`, `enable_dependency`, `enable_dependant`) | `ArgSelect`, `ArgSelectProofs` | modelled |
| command generation | `src/arg_fuzz.c` (`branch_generate`, rest of `arg_fuzz`, `main`) | `ArgFuzz` | modelled |
| value drawing | `src/arg_fuzz.c` (`rand_num`, the `switch` of `arg_fuzz`) | `FuzzValue` | modelled |
| shipped configurations | `json/mke2fs.json` | `ConfigTrees` | modelled |
| fuzzing driver | `arg_fuzz.sh` | `FuzzDriver` | modelled |
| image corruptor | `src/test.cc`, `E/lib/ext2fs/closefs.c` (group layout) | `MetaCorrupt` | modelled |
| Unix I/O manager | `E/lib/ext2fs/unix_io.c`, `E/e2fsck/ehandler.c` | `UnixIo`, `BlockStore`, `UnixIoProofs` | the cache and e2fsck's error handlers |
| display functions, old copy of `arg_fuzz.c`, JSON generators, stubs, build files | | | not modelled |
| rest of e2fsprogs | `E/` | | not modelled; see "Possible extensions" |

How they interact: `CtBuilder` produces the table that `ConstraintTree` takes as
a constant (it is read-only once built); `ArgFuzz` extends `ArgSelect`, which
extends `ConstraintTree`, and adds generation, reset and repeated calls, so that
a run of `ArgFuzz` is whole calls of `arg_fuzz` one after the other; `FuzzValue`
says what the set `values` of an argument stands for and when the flag `RoundsUp`
of `ConstraintTree` applies; TLC checks that `UnixIo` implements `BlockStore`.
The driver script calls `arg_fuzz` but does not use its output (the line that
would is commented out), so `FuzzDriver` is a component of its own.

## The modules

**ConstraintTree.**  `arg_array` with one record per argument, and `rand_num` as
the set of its outcomes.  `WellFormedTree` collects what `json/mke2fs.json` and
`json/resize2fs.json` have in common and `arg_fuzz` relies on: mutex lists are pairs
of optional leaves, a child depends on its parent alone, and so on.  TLC evaluates it
on the tree of `mke2fs.json` and on the slice; `resize2fs.json` was only compared with
it outside TLC.

**ArgSelect.**  The first half of `arg_fuzz`.  State: `pc` and the loop counter
`i`, the argument `id` of the current recursive call, `arg_bitmap`, and the
members `enable` and `value` of `ir_`.  Each iteration of a loop (`Draw`,
`Prune`) and each recursive call (`enable_dependency`, `enable_dependant`) is an
action.  The recursions are tail calls, so they need no stack.  The bytes of the
bitmap are only read modulo 2, so TLC draws 1 or 2 for each.  `Heaps` is what the
malloc'ed `ir_` may hold when a call begins.  The scratch array of a mutex group is
modelled with its uninitialised slots (`Slots`): one that is read may happen to hold
the id of an argument (`PruneMutex`), or anything else (`PruneOutside`).  In the latter
case, and where `rand_num` rounds up and names a place behind a list of children, the
code has no defined behaviour any more, and the model goes to `pc = "outside"` and
stays there.
The properties of the selection say nothing of that state, but `SelectTypeOK` says
that it is not reached unless `rand_num` rounds up or a mutex list is longer than
one; `fuzz_any` goes there.

**ArgFuzz.**  `branch_generate` with its activation records in `stack`; text is a
sequence of tokens.  `branch` starts as junk because the code never initialises
it.  A string drawn from behind its list leads to `"outside"` as soon as it is
appended (`ReadOutside`).  `ResetAndPrint` is the end of `arg_fuzz` and main's
`printf`.  The loop around the call in `main` is commented out, so today there is one
call; the reset of `ir_` only matters with the loop, and `MaxCalls` says how often it
goes round.

**CtBuilder.**  The two visits of the document, one step per field.  json-c is
external: a document is the sequence of objects in the order `json_c_visit`
reaches them.  Members start as `Garbage`, since the table is malloc'ed.  A null
`must_child` is stored where the code stores it, in `must_have`.  An id that is too
large ends in `"outside"`; a list or a value that is not an array, or a value before
its type, makes json-c abort.

**FuzzValue.**  `rand_num` and the cases of `value_type`, with integers modulo
their width and doubles rounded to nearest even.  The widths are constants.

**FuzzDriver.**  Every command of `arg_fuzz.sh` that changes files or mounts is an
action of its own; `mke2fs`, `mount` and `umount` may fail (`rm`, `mkdir` and
`truncate` do not), the script may be killed between
any two commands (`Kill`), and is started again from what is left.  An image is
known by the number of the run that created it, because a deleted image lives on
under its mount.  What is inside the file systems is not modelled.

**MetaCorrupt.**  `find_super_and_bgd`, `find_metadata_blocks` and
`level_one_image_mutation`, over the block-group arithmetic of libext2fs.  Every
random number is the first one after `srand(time(NULL))`, so `rnd` is a function of
the current second and `Tick` may change it between any two steps.

**UnixIo, BlockStore.**  The cache: an iteration of the loops of `unix_read_blk64`
and `unix_write_blk64` is a step, the other operations are one step each.
`access_time` is kept as a ranking of the entries.  Raw reads, writes, flushes and
evictions fail or not, by channel; `Crash` ends the process anywhere.  A channel may
have the error handlers of e2fsck: a failed transfer of several blocks is then done
again, block by block, through the same channel and cache, before the operation that
failed goes on (`again` is what is left to do; `Hand*`, `Reread*`, `Rewrite*`).  A
handler that is left with one block asks whether to ignore the error, and the answer
is taken to be no.  Write-through channels have no handlers: nothing in the
repository sets `CHANNEL_FLAGS_WRITETHROUGH`.  `idle` calls are the close of a channel
with other holders and the change to the block size it has, which do nothing.
`BlockStore` is what clients rely on: reads return what was written last, a
successful flush leaves everything on the medium, only an operation that reports an
error or a crash loses a write.  The refinement maps `mem` to the contents that a
reader would get (the cached copy if there is one) and `media` to the device.

`ConfigTrees` and the `MC*` modules only hold instances.  An operator whose comment
says "Mutant of D" is a plausible mistake in D; it is not used by the model and
documents which mistake each property would catch.

## The runs

| Run | Checks | Shows |
|---|---|---|
| `select_slice` | `SelectTypeOK`, `MutexExclusive`, `MustChildSelected`, `PrunedForPeer`, `SelectInv`, `SelectionTerminates` | Every bitmap of a slice of the mke2fs tree with all its kinds of constraints, over zeroed and spoilt memory: the invariant is inductive, of a mutex pair one is left, what was asked for is given up for a peer only, a parent that needs a child has one, and the repair ends. |
| `fuzz_slice` | `MustHavesSelected`, `DependenciesSelected`, `SelectionJustified`, `EmittedOnce`, `ChildInsideParent`, `ArgsSeparated`, `NoDanglingOperator`, `NoJunk` | Two calls on the same `ir_`, zeroed at first: the selections have what they must have and nothing without a reason; the command names each selected argument once, inside its parent's branch and properly separated; the second call is not disturbed by the first. |
| `fuzz_mke2fs` | `MutexExclusive`, `MustChildSelected`, `EmittedOnce`, `BuffersSuffice` | The whole tree of 48 arguments with sparse and dense bitmaps; the longest commands fit into `cmd` and `branch`. |
| `fuzz_any` | `TypeOK`, `OpenOnce`, `AllPrinted` | On a cyclic tree that violates every well-formedness condition but `MustChildClosed`, with any memory and the rounding edge of `rand_num`: indices stay in the table, an argument is never entered again while it is being generated, and the call ends, printed or `"outside"`. |
| `builder` | `TypeOK`, `BuiltAsWritten`, `CountsArguments`, `StaysInTable` | For every order of the fields the table says what the document says; writing past the table and aborting happen for the faulty documents only, and a document with a wrong id or list is never loaded to the end. |
| `value_draw` | `AllowedUnlessOne` | For ranges whose length is an int and powers exact as doubles, a value outside the documented ones is drawn exactly when x / 2^64 rounds to 1. |
| `meta_corrupt` | `TypeOK`, `InsideImage`, `InsideMetadata`, `Ends` | On four layouts without `flex_bg`: corruption stays inside the image and, for a structure that was recorded, inside the metadata of its group; the selection loop ends. |
| `driver` | `TypeOK`, `AgesItsOwnImage`, `CleanWhenFinished`, `NeverFormatsMounted` | Four runs of the script that fail or are killed between any two commands: each ages its own image, never formats a mounted one, and leaves nothing behind when it finishes unless an `umount` has failed. |
| `io_cache` | `UniqueCopies`, `CleanIsOnDisk`, `IoInv`, `IsBlockStore`, `WritesThrough` | The cache is a block store: write-back with failing reads, writes and flushes, without and with the error handlers of e2fsck, write-through with failing reads, and with crashes.  With handlers a block may have two copies in the cache; the refinement shows that no reader sees the difference.  Failing evictions (`io_evict`) and failing raw writes of a write-through channel are left out: with them it is not. |
| `two_dependencies` | `DependenciesSelected` (violated) | Of two dependencies only the first is enabled. |
| `meta_report` | `ReportIsTrue` (violated) | The structure named in the report is not the one overwritten. |
| `io_evict` | `FlushIsHonest` (violated) | A flush succeeds after the write of an evicted block has failed. |

### Bounds

* `select_slice`, `fuzz_slice`: the slice has a must-have, a parent that must have a
  child, a mutex pair below it, a dependency across branches and an optional child;
  all bitmaps.  `select_slice` has one call and three memories: zero, neither 0 nor 1
  everywhere, and neither 0 nor 1 for some of the arguments.  `fuzz_slice` has zeroed
  memory, since the three properties of the selection fail without it, and `MaxCalls` = 2, because a call only leaves `ir_` behind and `Reset`
  makes that the same after every call.
* `fuzz_mke2fs`: bitmaps with at most one argument enabled or at most one disabled,
  since 2^48 bitmaps are out of reach.  With all of them enabled every mutex choice is
  tried, and with it the longest command.  "-E", whose dependency list is misspelt in
  the file, is taken to have none.
* `fuzz_any`: four arguments, cyclic and with lists of two, and every memory.
* `builder`: two arguments, one nested in the other, and all orders of six fields, at
  least one of each kind that is loaded differently; also, in the order of the shipped
  files, ids past the table, a list that is no array and a value that does not fit its
  type.  Left out are missing keys and a null `must_child`, of which `BuiltAsWritten`
  says nothing either; `mke2fs.json` and `resize2fs.json` have neither, but for the
  misspelt key.
* `value_draw`: an int of 4 bits, a mantissa of 6, an unsigned long of 8: the same
  order of widths as 32, 53 and 64, so that rounding and truncation occur; every x.
  Ranges with more values than an int can count, and powers that are not exact as
  doubles, are left out.
* `meta_corrupt`: four groups, with the layouts 1k, 4k, `meta_bg` and
  `sparse_super2`; the numbers drawn reach every key and both ends of every
  structure.  None has `flex_bg`, which moves the bitmaps of a group elsewhere: the
  GDT's entry, which reaches a block past the descriptors, would then no longer be
  sure to end in the metadata of its group.  `InsideMetadata` says nothing of the keys
  that are never recorded (the inode table's, and the one past the end); `InsideImage`
  covers them.
* `driver`: four runs, enough for one to leave a mount behind, one to pile
  another on top, one to unmount only the outer one, and one to run on that.
* `io_cache`: 3 blocks, 2 entries, `WRITE_DIRECT_SIZE` 2: one block more than the
  cache holds, so that every request may evict, and requests of 1, 2 and 3 blocks
  to reach the cached, the several-blocks and the direct paths.  The channel with
  error handlers was also checked with 3 entries.  (4 blocks with 3 entries did not
  finish in reasonable time; the theorems do not have this bound.)

Deadlock is checked in `io_cache` and `io_evict`, where there is always another request; in the
others the program ends.

### Fairness

`arg_fuzz` is sequential and single-threaded: weak fairness of its next-state
relation (`FairSelectSpec`, `FairSpec` of `ArgFuzz`) says that it runs on.  The
corruptor in addition depends on the clock: strong fairness of a tick to a number
that selects an existing structure says that the numbers of future seconds are not
for ever the unlucky ones, and strong fairness of the selection in such a second
that the loop, which spins millions of times a second, is not asleep in each of
them.  Nothing else is assumed, and no safety property depends on it.

## What is proved

`ArgSelectProofs` (for trees and bitmaps of every size).  All four assume `~ RoundsUp`:
no draw of `rand_num` is at its rounding edge, which has probability 2^-54.

* `SelectTypeCorrect`: `SelectSpec => []SelectTypeOK`, so `"outside"` is never reached,
  for any memory and any tree with `ShortMutexLists` (a mutex list names one argument
  at most, as in the shipped trees).
* `SelectInvCorrect`: `SelectInv` is invariant, for any memory, assuming
  `WellFormedTree`.
* `AnyHeapCorrect`: from it, `MutexExclusive`, `MustChildSelected` and `PrunedForPeer`,
  whatever the malloc'ed `ir_` held.
* `CleanHeapCorrect`: the other three properties of a finished selection, assuming
  `CleanHeap` as well: `ir_` is zero when the call begins.  The code does not see to
  that; without it these three fail.

The properties speak of the end of a call; the inductive invariant says how far
they hold before it.  `DrawInv` says that what the bitmap asks for is enabled before
the repair, and on clean memory nothing else.  `PruneInv` says that nothing that was
asked for (on clean memory, nothing at all) is pruned without an enabled peer, and that
of a pair of which the first pass has seen one enabled at most one is left.  The second
pass ignores mutex lists, but cannot break this: what it enables is a dependency (a leaf
of no mutex pair) or a child of an argument without enabled children, whose peers are
its siblings.  `ReasonInv` carries, on clean memory, the reason of each enabled
argument.  `CloseInv` says that the arguments up to `i` are closed except the one the
recursion is at; it is needed because the pass enables arguments behind its own counter.
A dependency counts as met if it is not 0; on clean memory it is then 1, since nothing
but a peer makes an argument 2 and a dependency has none.

`UnixIoProofs` (for every size of the device, the cache and the requests, every set
of channels, any raw operation failing, and crashes anywhere)

* `IoInvCorrect`: `Spec => []IoInv`, channels with error handlers included.
* `UniqueCopiesCorrect`: a block is in the cache at most once, on channels without error
  handlers; it says nothing of the others.
* `WritesThroughCorrect`: a write that reports success on a write-through channel is
  on the device.
* `CleanCorrect`: what is clean in the cache is on the device, assuming `Unhandled` (no
  error handlers are installed) and `Reliable`: raw writes of write-through channels do
  not fail.  (If one does, the cache keeps
  the new contents as clean, after the error has been reported.)

`IoInv` is the argument: `Progress` has the ranking (so there always is an eldest
entry to evict), the bounds of the loops and of what an error handler does again, that
the reply comes last, and that blocks about to be zeroed are not cached; `UniqueCopies` makes a flush or an eviction of an
entry leave the other entries true; `Through` says that a write-through cache has
nothing dirty and, in the middle of a write, that the device is ahead of the cache.
`Base` is the part that has to be proved first, since it gives the types that
everything else uses.

Assumptions on constants are named in the modules that declare them
(`TreeAssumption`, `SelectAssumption`, `UnixIoAssumption`), and TLC evaluates them in
the runs of these modules.  `UnixIo` itself assumes that a client zeroes only blocks
that are not cached (the guard of `Call`), and so do its theorems.

**Only model-checked.**  The generation half of `arg_fuzz`, the builder, the values,
the driver, the corruptor, the refinement `IsBlockStore`, and `CleanIsOnDisk` on
channels with error handlers.  Liveness under
fairness and `ENABLED` are out of the prover's reach (`SelectionTerminates`,
`AllPrinted`, `Ends`); so is induction over data, i.e. what a recursive definition
computes for every input (`test_root`, `double`); and modules with `RECURSIVE`
operators, of which this project has none.

## Where code and comments disagree

Shown by a run:

* `src/arg_fuzz.c:365`: `enable_dependency` returns after the first disabled
  dependency; line 542 says "enable all dependency nodes for leaf nodes".  The shipped
  trees have at most one dependency each (`two_dependencies`).
* `src/test.cc:173`, `:124`, `:186`: the inode table is stored under the key of the
  block bitmap, the GDT one block late, and the upper end of the draw is nobody's key,
  so the report of line 206 names another structure (`meta_report`).
* `E/lib/ext2fs/unix_io.c:476`: `reuse_cache` ignores a failed write of the block it
  evicts (`io_evict`).

Noted while modelling, without a run of their own:

* `src/arg_fuzz.c:623`: `ir_` is malloc'ed and not initialised before the first call;
  hence `CleanHeap` in `CleanHeapCorrect`.  A must-have whose flag happens to be 2 is not
  selected.
* `src/arg_fuzz.c:346`: for the 2^10 largest x, `rand_num` returns its upper end;
  hence `RoundsUp`.  `:483`: `tmp + 1` is an int.
* `src/arg_fuzz.c:164`: the table is as long as the document has arguments and is
  indexed by their ids.  The 5 arguments of `json/mke2fs_simple.json` have ids up to 47,
  outside its table, and no `must_child`.
* `src/arg_fuzz.c:247`: a null list gets the length 0, but its pointer is not set, and
  line 518 tests the pointer.  Either outcome of that test comes to the same (the model
  has both): a mutex group of one keeps its member.
* `src/arg_fuzz.c:285`: a null `must_child` overwrites `must_have`.
* `json/mke2fs.json`: "-E" has its dependency list under the key `dependencies_id`,
  which `ct_builder` ignores.
* `src/test.cc:110`: block number 0 also stands for "none", so with 4k blocks the
  superblock of group 0 is taken for missing.
* `arg_fuzz.sh`: the paths are expanded before `-d` is read; `-n` and `-m` set
  variables that nothing uses; `exit $?` comes after an `echo` and exits with 0; the
  heading "step 5: clean up" is executed as a command.
* `E/lib/ext2fs/unix_io.c:887`: when an error handler of e2fsck reads the blocks again,
  `unix_read_blk64` then fills the entry it had chosen before with a block that is in
  the cache by now.
* `E/e2fsck/ehandler.c:115`: told to ignore the error, e2fsck reports a block as written
  that is not.
* `E/lib/ext2fs/unix_io.c:5` speaks of a write-through cache; by default it is
  write-back.

## What is not modelled

* `ct_display`, `arg_fuzz_display`: only print, and are not called.
  `src/arg_fuzz_1.c`: an older copy, built by no Makefile.  `json/*.py`: dump a literal
  dictionary.  `workload/`, `verifier/`: empty stubs.  Mutation levels 0 and 2 of the
  corruptor: empty in the code.
* Of `ehandler.c`: a user who answers "Ignore error" or "Force rewrite", and
  `E2F_FLAG_EXITING`, which ignores every error.
* Of `unix_io.c`: the reference count and the block size as numbers, alignment and the bounce buffer, readahead (advice only), and
  `set_option`, which is used before the first request.  Zeroing or discarding a block
  that is cached is excluded; whether every caller avoids it is not shown.  After a
  failed raw write of a write-through channel the cache holds, as clean, what the device
  does not: this is in the model and in three of the theorems, but not in `io_cache`.
* Text: names, values and their formatting, except for lengths in `BuffersSuffice`.
* Two instances of the driver at the same time: it works on fixed paths and is meant to
  be run alone.

## Possible extensions

1. Journal replay and revocation (`E/e2fsck/recovery.c`, `revoke.c`, `journal.c`): the
   three passes over a log that wraps, with crashes during replay; an abstract
   specification (the committed transactions applied in order, without revoked blocks),
   replay shown to implement it and to be repeatable after a crash.
2. The undo log (`E/lib/ext2fs/undo_io.c`, `E/misc/e2undo.c`): the first write to a
   block saves it; a crash between the save and the write; replay restores the image.
   To be composed with `UnixIo`, over which both run.
3. An abstract specification of selection (any selection that satisfies the constraints)
   that `ArgSelect` implements.
4. Proofs: the refinement of `BlockStore` by `UnixIo` step by step from `IoInv`;
   `TypeOK` and `EmittedOnce` of `ArgFuzz`; `AgesItsOwnImage` of `FuzzDriver`; the
   invariants of the journal.

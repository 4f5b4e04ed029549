----------------------------- MODULE FuzzDriver -----------------------------
(***************************************************************************)
(* The driver script (arg_fuzz.sh): it makes an image, formats, mounts,    *)
(* ages and unmounts it and cleans up.  Commands fail, the script may be   *)
(* killed anywhere, and the next run starts from what was left behind.     *)
(*                                                                         *)
(* An image file is known by the number of the run that created it: a file *)
(* that is deleted while mounted lives on under its mount.                 *)
(***************************************************************************)
EXTENDS Naturals, Sequences

CONSTANTS
  Dirs,        (* directories                                             *)
  DefaultDir,  (* the value of DIR at the top of the script               *)
  MaxRuns      (* bound on the number of times the script is started      *)

ASSUME DriverAssumption ==
  /\ DefaultDir \in Dirs
  /\ MaxRuns \in Nat

None == 0

VARIABLES
  pc,
  DIR,                 (* the variable that the option -d sets            *)
  paths,               (* the directory in TESTMNT, BASE_IMG, JOURNAL_DEV *)
  mnt, journal_dev,    (* the directories where these files are           *)
  image,               (* for each directory the image in it, or None     *)
  formatted,           (* the images that mke2fs has been run on          *)
  mounts,              (* the images mounted on TESTMNT, innermost first  *)
  runs,                (* number of runs started                          *)
  stuck                (* whether an umount of something mounted failed   *)

files == <<mnt, journal_dev, image, formatted, mounts>>
script == <<DIR, paths, runs>>
vars == <<pc, script, files, stuck>>

-----------------------------------------------------------------------------
\* Mutant of Paths: the variables are never set.
Paths_Unset(dir) == None

\* TESTMNT, BASE_IMG and JOURNAL_DEV are expanded before the options are read.
Paths(dir) == DefaultDir

\* The script is started, with options or without; an option that asks for
\* help ends it at once.
Start ==
  /\ pc \in {"idle", "finished", "exited"} /\ runs < MaxRuns
  /\ runs' = runs + 1
  /\ \E dir \in Dirs : DIR' = dir /\ paths' = Paths(dir)
  /\ pc' \in {"umount", "exited"}
  /\ UNCHANGED <<files, stuck>>

\* umount takes the outermost mount away, or fails because it is in use.
Umount ==
  IF mounts = <<>> THEN UNCHANGED <<mounts, stuck>>
  ELSE \/ mounts' = SubSeq(mounts, 1, Len(mounts) - 1) /\ UNCHANGED stuck
       \/ stuck' = TRUE /\ UNCHANGED mounts

\* rm -rf leaves the directory where something is mounted on it.
RemoveMnt == mnt' = IF mounts = <<>> THEN mnt \ {paths} ELSE mnt

\* A command that only touches the files of the script, and the next one.
Command(this, next) ==
  /\ pc = this
  /\ pc' = next
  /\ UNCHANGED <<script, formatted, mounts, stuck>>

\* Step 1: umount, whatever is mounted.
SetUpUmount ==
  /\ pc = "umount"
  /\ Umount
  /\ pc' = "rm_mnt"
  /\ UNCHANGED <<script, mnt, journal_dev, image, formatted>>

\* Mutant of RemovedImage: the old image is not removed.
RemovedImage_Kept == image

\* rm -rf of BASE_IMG.
RemovedImage == [image EXCEPT ![paths] = None]

\* Step 1: the files of an earlier run are removed, the mount point is made.
SetUpRemoveMnt ==
  Command("rm_mnt", "mkdir") /\ RemoveMnt /\ UNCHANGED <<image, journal_dev>>

SetUpMkdir ==
  Command("mkdir", "rm_image") /\ mnt' = mnt \cup {paths} /\ UNCHANGED <<image, journal_dev>>

SetUpRemoveImage ==
  Command("rm_image", "rm_journal") /\ image' = RemovedImage /\ UNCHANGED <<mnt, journal_dev>>

SetUpRemoveJournal ==
  /\ Command("rm_journal", "truncate_image")
  /\ journal_dev' = journal_dev \ {paths}
  /\ UNCHANGED <<mnt, image>>

\* Step 1: truncate creates the image, unless there is one, and the journal
\* device.  (The argument vector drawn by arg_fuzz is not used.)
SetUpTruncateImage ==
  /\ Command("truncate_image", "truncate_journal")
  /\ image' = IF image[paths] = None THEN [image EXCEPT ![paths] = runs] ELSE image
  /\ UNCHANGED <<mnt, journal_dev>>

SetUpTruncateJournal ==
  /\ Command("truncate_journal", "mke2fs")
  /\ journal_dev' = journal_dev \cup {paths}
  /\ UNCHANGED <<mnt, image>>

\* mke2fs succeeds, or the script exits (with the status of its echo).
Mke2fs ==
  /\ pc = "mke2fs"
  /\ \/ formatted' = formatted \cup {image[paths]} /\ pc' = "mount"
     \/ pc' = "exited" /\ UNCHANGED formatted
  /\ UNCHANGED <<script, mnt, journal_dev, image, mounts, stuck>>

\* Step 2: mount succeeds, or the script exits.
Mount ==
  /\ pc = "mount"
  /\ \/ mounts' = Append(mounts, image[paths]) /\ pc' = "workload"
     \/ pc' = "exited" /\ UNCHANGED mounts
  /\ UNCHANGED <<script, mnt, journal_dev, image, formatted, stuck>>

\* The workload runs in the mounted file system.
Workload ==
  /\ pc = "workload"
  /\ pc' = "umount2"
  /\ UNCHANGED <<script, files, stuck>>

\* umount after the workload; the status is not looked at.
AgedUmount ==
  /\ pc = "umount2"
  /\ Umount
  /\ pc' = "clean_up"
  /\ UNCHANGED <<script, mnt, journal_dev, image, formatted>>

\* Step 5.  (The heading of the step is run as a command, which fails.)
CleanUpMnt ==
  Command("clean_up", "clean_image") /\ RemoveMnt /\ UNCHANGED <<image, journal_dev>>

CleanUpImage ==
  Command("clean_image", "clean_journal") /\ image' = RemovedImage /\ UNCHANGED <<mnt, journal_dev>>

\* Mutant of CleanUpJournal: the journal device is forgotten.
CleanUpJournal_Forgets ==
  Command("clean_journal", "finished") /\ UNCHANGED <<mnt, image, journal_dev>>

CleanUpJournal ==
  /\ Command("clean_journal", "finished")
  /\ journal_dev' = journal_dev \ {paths}
  /\ UNCHANGED <<mnt, image>>

\* The script is killed between two commands.
Kill ==
  /\ pc \notin {"idle", "finished", "exited"}
  /\ pc' = "idle"
  /\ UNCHANGED <<script, files, stuck>>

Init ==
  /\ pc = "idle"
  /\ DIR = DefaultDir /\ paths = DefaultDir
  /\ mnt = {} /\ journal_dev = {}
  /\ image = [dir \in Dirs |-> None]
  /\ formatted = {} /\ mounts = <<>>
  /\ runs = 0 /\ stuck = FALSE

Next == \/ Start \/ SetUpUmount \/ SetUpRemoveMnt \/ SetUpMkdir \/ SetUpRemoveImage
        \/ SetUpRemoveJournal \/ SetUpTruncateImage \/ SetUpTruncateJournal
        \/ Mke2fs \/ Mount \/ Workload \/ AgedUmount
        \/ CleanUpMnt \/ CleanUpImage \/ CleanUpJournal \/ Kill

Spec == Init /\ [][Next]_vars
-----------------------------------------------------------------------------
\* The variables have their types, and every image was made by some run.
TypeOK ==
  /\ {DIR, paths} \cup mnt \cup journal_dev \subseteq Dirs
  /\ image \in [Dirs -> 0 .. runs]
  /\ formatted \subseteq 1 .. runs
  /\ mounts \in Seq(1 .. runs)
  /\ runs <= MaxRuns

\* The workload ages the image that this run has created: after any sequence
\* of runs that failed, were killed or left their image mounted, the outermost
\* file system on TESTMNT is the one this run has formatted.
AgesItsOwnImage ==
  pc = "workload" => /\ mounts # <<>>
                     /\ mounts[Len(mounts)] = runs
                     /\ runs \in formatted

\* mke2fs is never run on an image that is still mounted.
NeverFormatsMounted ==
  [][pc = "mke2fs" /\ pc' = "mount" => \A k \in DOMAIN mounts : mounts[k] # image[paths]]_vars

\* A run that gets to its end leaves nothing behind, whatever earlier runs had
\* left, unless an umount failed.
CleanWhenFinished ==
  pc = "finished" /\ ~ stuck =>
    mounts = <<>> /\ mnt = {} /\ journal_dev = {} /\ image = [dir \in Dirs |-> None]
=============================================================================

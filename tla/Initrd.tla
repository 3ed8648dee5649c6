------------------------------- MODULE Initrd -------------------------------
(***************************************************************************)
(* The file system from the build to the kernel: tools/pack_initrd.c packs *)
(* the files of initrd/ into an archive, the rules of the Makefile decide  *)
(* when it is packed, measured and put into the disk image, stage 2 loads  *)
(* it and kernel/fs/fs.c finds a file in it.                               *)
(*                                                                         *)
(* The archive is a sequence of cells: its header, one cell per entry, and *)
(* one per byte of data.  The developer edits files and the Makefile       *)
(* between builds, runs make again after a failure, and boots the image.   *)
(***************************************************************************)
EXTENDS Integers, Sequences, SequencesExt, FiniteSetsExt

CONSTANTS
  Names,          \* file names, as sequences of characters
  Contents,       \* what a file may contain
  NAME_SIZE,      \* characters of initrd_entry_t's name, terminator included
  SECTOR,         \* cells in a sector
  Settings,       \* values of STAGE2_SECTORS and INITRD_SECTORS in the Makefile
  STAGE2_SIZE,    \* cells of stage 2 and the kernel
  MaxEdits,       \* bound on the developer's changes
  None            \* nothing there: no target built, no file found

ASSUME InitrdConstants ==
  /\ NAME_SIZE \in Nat \ {0} /\ SECTOR \in Nat \ {0} /\ STAGE2_SIZE \in Nat /\ MaxEdits \in Nat
  /\ Settings \subseteq [stage2 : Nat, initrd : Nat]

VARIABLES
  files,          \* the directory initrd/: names to contents
  unreadable,     \* the names that cannot be opened
  makefile,       \* the sector counts in the Makefile
  edits,
  stage2_o,       \* the counts stage2.o was assembled with, or None
  initrd_bin,     \* the archive, or None
  newer,          \* the files changed since the archive was written
  disk_img,       \* the image, or None
  img_old,        \* a prerequisite of the image is newer than it
  phase,          \* the next rule of a running make, or step of a booted kernel
  leftover,       \* ghost: a failed rule left initrd.bin behind
  made,           \* ghost: the files when make last succeeded
  memory,         \* the cells stage 2 has loaded
  fs_file_count, query, count,
  found           \* what the kernel has read, or None

dev_vars == <<files, unreadable, makefile, edits>>
build_vars == <<stage2_o, initrd_bin, newer, disk_img, img_old, leftover, made>>
boot_vars == <<memory, fs_file_count, query, count, found>>
vars == <<dev_vars, build_vars, phase, boot_vars>>

Zero == <<"zero">>

Init ==
  /\ files = <<>> /\ unreadable = {} /\ makefile \in Settings /\ edits = 0
  /\ stage2_o = None /\ initrd_bin = None /\ newer = {} /\ disk_img = None /\ img_old = FALSE
  /\ phase = "idle" /\ leftover = FALSE /\ made = <<>>
  /\ memory = <<>> /\ fs_file_count = 0 /\ query = <<>> /\ count = 0 /\ found = None

-----------------------------------------------------------------------------
(* pack_initrd *)

\* strncpy into a zeroed name, which keeps its last character zero.
Entry_name(name) == SubSeq(name, 1, Min({Len(name), NAME_SIZE - 1}))

\* Mutant: running_offset is advanced before the entry is written.
Offset_Late(order, k) == FoldLeft(+, 0, [l \in 1 .. k |-> Len(files[order[l]])])
\* running_offset, when the entry of the k-th file is written.
Offset(order, k) == FoldLeft(+, 0, [l \in 1 .. k - 1 |-> Len(files[order[l]])])

Header(n) == <<"header", n>>
Entry(order, k) == <<"entry", Entry_name(order[k]), Offset(order, k), Len(files[order[k]])>>
Data(name) == [b \in 1 .. Len(files[name]) |-> <<"data", files[name][b]>>]

pack_initrd(order) ==
  <<Header(Len(order))>>
    \o [k \in 1 .. Len(order) |-> Entry(order, k)]
    \o FlattenSeq([k \in 1 .. Len(order) |-> Data(order[k])])

-----------------------------------------------------------------------------
(* The developer *)

Edit == phase = "idle" /\ edits < MaxEdits /\ edits' = edits + 1

save_file ==
  /\ Edit
  /\ \E name \in Names, content \in Contents :
       /\ files' = (name :> content) @@ files
       /\ newer' = newer \cup {name}
  /\ UNCHANGED <<unreadable, makefile, stage2_o, initrd_bin, disk_img, img_old, leftover, made,
                 phase, boot_vars>>
remove_file ==
  /\ Edit
  /\ \E name \in DOMAIN files : files' = Restrict(files, DOMAIN files \ {name})
  /\ UNCHANGED <<unreadable, makefile, build_vars, phase, boot_vars>>
change_mode ==
  /\ Edit
  /\ \E name \in DOMAIN files :
       unreadable' = IF name \in unreadable THEN unreadable \ {name} ELSE unreadable \cup {name}
  /\ UNCHANGED <<files, makefile, build_vars, phase, boot_vars>>
\* "bump INITRD_SECTORS in the Makefile", or STAGE2_SECTORS.
edit_makefile ==
  /\ Edit
  /\ \E s \in Settings :
       /\ s # makefile /\ s.stage2 >= makefile.stage2 /\ s.initrd >= makefile.initrd
       /\ makefile' = s
  /\ img_old' = TRUE
  /\ UNCHANGED <<files, unreadable, stage2_o, initrd_bin, newer, disk_img, leftover, made, phase,
                 boot_vars>>

-----------------------------------------------------------------------------
(* make *)

make == /\ phase = "idle" /\ phase' = "stage2.o"
        /\ UNCHANGED <<dev_vars, build_vars, boot_vars>>
make_clean ==
  /\ phase = "idle" /\ edits > 0
  /\ stage2_o' = None /\ initrd_bin' = None /\ newer' = {} /\ disk_img' = None
  /\ img_old' = FALSE /\ leftover' = FALSE
  /\ UNCHANGED <<made, dev_vars, phase, boot_vars>>

\* The rule for stage2.o does not name the Makefile.
make_stage2 ==
  /\ phase = "stage2.o" /\ phase' = "initrd.bin"
  /\ stage2_o' = IF stage2_o = None THEN makefile ELSE stage2_o
  /\ UNCHANGED <<dev_vars, initrd_bin, newer, disk_img, img_old, leftover, made, boot_vars>>

Argv == {order \in [1 .. Cardinality(DOMAIN files) -> DOMAIN files] : IsInjective(order)}

initrd_up_to_date ==
  /\ phase = "initrd.bin" /\ initrd_bin # None /\ newer \cap DOMAIN files = {}
  /\ phase' = "disk.img"
  /\ UNCHANGED <<dev_vars, build_vars, boot_vars>>
Packs == phase = "initrd.bin" /\ (initrd_bin = None \/ newer \cap DOMAIN files # {})
\* No file to pack: the tool prints its usage and writes nothing.
pack_nothing ==
  /\ Packs /\ files = <<>>
  /\ phase' = "idle"
  /\ UNCHANGED <<dev_vars, build_vars, boot_vars>>
\* A file cannot be opened: the tool has written the header.
pack_part ==
  /\ Packs /\ files # <<>> /\ unreadable \cap DOMAIN files # {}
  /\ initrd_bin' = <<Header(Cardinality(DOMAIN files))>> /\ newer' = {} /\ img_old' = TRUE
  /\ phase' = "idle" /\ leftover' = TRUE
  /\ UNCHANGED <<dev_vars, stage2_o, disk_img, made, boot_vars>>
\* Mutant: the archive is not measured.
Fits_Any(archive) == TRUE
Fits(archive) == Len(archive) \in 0 .. makefile.initrd * SECTOR
\* The archive is packed, in whatever order the files come, and measured.
PackAll(archive) ==
  /\ Packs /\ files # <<>> /\ unreadable \cap DOMAIN files = {}
  /\ initrd_bin' = archive /\ newer' = {} /\ img_old' = TRUE
  /\ UNCHANGED <<dev_vars, stage2_o, disk_img, made, boot_vars>>
pack(archive) ==
  /\ PackAll(archive) /\ Fits(archive)
  /\ phase' = "disk.img" /\ leftover' = FALSE
\* The rule fails, and the archive stays.
pack_too_big(archive) ==
  /\ PackAll(archive) /\ ~ Fits(archive)
  /\ phase' = "idle" /\ leftover' = TRUE

\* What truncate makes of s: n cells, cut off or filled up with zeros.
Truncate(s, n) == [k \in 1 .. n |-> IF k <= Len(s) THEN s[k] ELSE Zero]

\* The image: stage 1's sector, stage 2 and the kernel, the archive.
Image ==
  [cells |-> Truncate(<<>>, (1 + makefile.stage2) * SECTOR)
               \o Truncate(initrd_bin, makefile.initrd * SECTOR),
   stage2 |-> stage2_o, settings |-> makefile, archive |-> initrd_bin, leftover |-> leftover]

img_up_to_date ==
  /\ phase = "disk.img" /\ disk_img # None /\ ~ img_old
  /\ phase' = "idle" /\ made' = files
  /\ UNCHANGED <<dev_vars, stage2_o, initrd_bin, newer, disk_img, img_old, leftover, boot_vars>>
\* Stage 2 and the kernel have outgrown their sectors: the image stays as it is.
img_too_small ==
  /\ phase = "disk.img" /\ (disk_img = None \/ img_old)
  /\ STAGE2_SIZE > makefile.stage2 * SECTOR
  /\ phase' = "idle"
  /\ UNCHANGED <<dev_vars, build_vars, boot_vars>>
make_img ==
  /\ phase = "disk.img" /\ (disk_img = None \/ img_old)
  /\ STAGE2_SIZE <= makefile.stage2 * SECTOR
  /\ disk_img' = Image /\ img_old' = FALSE /\ phase' = "idle" /\ made' = files
  /\ UNCHANGED <<dev_vars, stage2_o, initrd_bin, newer, leftover, boot_vars>>

-----------------------------------------------------------------------------
(* The booted kernel *)

\* Stage 2's second disk address packet: as many sectors as it was assembled for.
load_initrd ==
  /\ phase = "idle" /\ disk_img # None /\ phase' = "fs_init"
  /\ LET first == (1 + disk_img.stage2.stage2) * SECTOR
     IN  memory' = SubSeq(disk_img.cells, first + 1, first + disk_img.stage2.initrd * SECTOR)
  /\ query' \in Names
  /\ UNCHANGED <<dev_vars, build_vars, fs_file_count, count, found>>

\* fs_init mounts an archive that starts with the magic.
fs_init ==
  /\ phase = "fs_init" /\ phase' = "fs_read"
  /\ fs_file_count' = IF memory[1][1] = "header" THEN memory[1][2] ELSE 0
  /\ UNCHANGED <<dev_vars, build_vars, memory, query, count, found>>

\* Memory behind what was loaded holds no file.
At(k) == IF k \in DOMAIN memory THEN memory[k] ELSE Zero
fs_entries == 2
fs_data == fs_entries + fs_file_count

Searching == count < fs_file_count
fs_read ==
  /\ phase = "fs_read"
  /\ LET current == At(fs_entries + count)
     IN  \/ /\ ~ Searching
            /\ phase' = "read" /\ UNCHANGED <<count, found>>
         \/ /\ Searching /\ current[1] = "entry" /\ current[2] = query
            /\ found' = [b \in 1 .. current[4] |-> At(fs_data + current[3] + b - 1)]
            /\ phase' = "read" /\ UNCHANGED count
         \/ /\ Searching /\ ~ (current[1] = "entry" /\ current[2] = query)
            /\ count' = count + 1 /\ UNCHANGED <<phase, found>>
  /\ UNCHANGED <<dev_vars, build_vars, memory, fs_file_count, query>>

power_off == /\ phase = "read" /\ phase' = "idle"
             /\ memory' = <<>> /\ fs_file_count' = 0 /\ query' = <<>> /\ count' = 0 /\ found' = None
             /\ UNCHANGED <<dev_vars, build_vars>>

Next ==
  \/ save_file \/ remove_file \/ change_mode \/ edit_makefile
  \/ make \/ make_clean \/ make_stage2 \/ initrd_up_to_date \/ pack_nothing \/ pack_part
  \/ \E order \in Argv : pack(pack_initrd(order)) \/ pack_too_big(pack_initrd(order))
  \/ img_up_to_date \/ img_too_small \/ make_img
  \/ load_initrd \/ fs_init \/ fs_read \/ power_off

Spec == Init /\ [][Next]_vars

-----------------------------------------------------------------------------
(* The archive was packed and measured by a rule that succeeded, and stage 2 *)
(* was assembled with the sector counts the image was made with.             *)
Sound(image) == ~ image.leftover /\ image.stage2 = image.settings

EntriesNamed(name) == {k \in DOMAIN disk_img.archive : /\ disk_img.archive[k][1] = "entry"
                                                       /\ disk_img.archive[k][2] = name}

(* fs_read finds every file of initrd/ as it was when make last succeeded,   *)
(* with the content it had then and in whatever order the files were packed, *)
(* if its name fits an entry and no other file's name is cut to it; and it   *)
(* finds nothing under a name that no entry has.  This takes the offsets of  *)
(* pack_initrd, the rebuild rules, the padding of the image, the sectors     *)
(* stage 2 loads and fs.c's search to agree.                                 *)
FilesReadBack ==
  phase = "read" /\ Sound(disk_img) =>
    /\ query \in DOMAIN made /\ Len(query) < NAME_SIZE /\ Cardinality(EntriesNamed(query)) = 1
         => found = [b \in 1 .. Len(made[query]) |-> <<"data", made[query][b]>>]
    /\ EntriesNamed(query) = {} => found = None

LoadedWhole(archive) == \A k \in 1 .. Len(archive) : k \in DOMAIN memory /\ memory[k] = archive[k]

(* What stage 2 loads starts with the whole archive, when the archive passed *)
(* the size check, however often the Makefile's budgets were raised since,   *)
(* and stage 2 was assembled with the image's sector counts.                 *)
SoundImageLoadsWhole ==
  phase = "fs_init" /\ Sound(disk_img) => LoadedWhole(disk_img.archive)

(* "The build fails loudly if the real initrd ever outgrows it instead of    *)
(* silently loading a truncated filesystem": what stage 2 loads from an      *)
(* image that make has built starts with the whole archive.                  *)
NoTruncatedFilesystem ==
  phase = "fs_init" => LoadedWhole(disk_img.archive)
=============================================================================

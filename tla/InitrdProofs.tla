---------------------------- MODULE InitrdProofs ----------------------------
(***************************************************************************)
(* An archive that passed the Makefile's size check is loaded whole, for   *)
(* every set of files, contents and sector counts.                         *)
(***************************************************************************)
EXTENDS Initrd, SequenceTheorems, TLAPS

Budget(s) == s.initrd * SECTOR
ArchiveStart(s) == (1 + s.stage2) * SECTOR

\* An archive that no failed rule left behind keeps within the budget.
Measured ==
  (initrd_bin # None \/ phase = "disk.img") /\ ~ leftover => Len(initrd_bin) \in 0 .. Budget(makefile)

\* A sound image holds its archive where stage 2 looks for it.
Holds(image) ==
  Sound(image) =>
    /\ image.settings \in Settings
    /\ Len(image.archive) \in 0 .. Budget(image.settings)
    /\ \A k \in 1 .. Len(image.archive) :
         image.cells[ArchiveStart(image.settings) + k] = image.archive[k]

IInv ==
  /\ makefile \in Settings
  /\ Measured
  /\ disk_img # None => Holds(disk_img)
  /\ phase = "fs_init" => disk_img # None
  /\ SoundImageLoadsWhole

-----------------------------------------------------------------------------
\* The sector counts multiply out to naturals, and a larger count to a larger one.
LEMMA Products ==
  ASSUME NEW s \in Settings
  PROVE  /\ Budget(s) \in Nat /\ ArchiveStart(s) \in Nat
         /\ \A t \in Settings : t.initrd >= s.initrd => Budget(t) >= Budget(s)
<1>1. s.initrd \in Nat /\ s.stage2 \in Nat /\ SECTOR \in Nat
  BY InitrdConstants
<1>2. Budget(s) \in Nat /\ ArchiveStart(s) \in Nat
  BY <1>1 DEF Budget, ArchiveStart
<1>3. ASSUME NEW t \in Settings, t.initrd >= s.initrd
      PROVE  Budget(t) >= Budget(s)
  <2>1. t.initrd \in Nat
    BY InitrdConstants
  <2>2. \A a, b, c \in Nat : a >= b => a * c >= b * c
    OBVIOUS
  <2> QED BY <1>1, <1>3, <2>1, <2>2 DEF Budget
<1> QED BY <1>2, <1>3

\* truncate gives a file of the length asked for, and keeps what fits.
LEMMA TruncateLength ==
  ASSUME NEW s, NEW n \in Nat
  PROVE  /\ Len(Truncate(s, n)) = n /\ DOMAIN Truncate(s, n) = 1 .. n
         /\ \A k \in 1 .. n : k <= Len(s) => Truncate(s, n)[k] = s[k]
         /\ \E S : Truncate(s, n) \in Seq(S)
<1> DEFINE S == {Truncate(s, n)[k] : k \in 1 .. n}
<1>1. Truncate(s, n) \in [1 .. n -> S]
  BY DEF Truncate
<1>2. Truncate(s, n) \in Seq(S)
  BY <1>1
<1>3. DOMAIN Truncate(s, n) = 1 .. n
  BY DEF Truncate
<1>4. Len(Truncate(s, n)) = n
  BY <1>2, <1>3
<1>5. \A k \in 1 .. n : k <= Len(s) => Truncate(s, n)[k] = s[k]
  BY DEF Truncate
<1>6. \E T : Truncate(s, n) \in Seq(T)
  <2> HIDE DEF S
  <2> QED BY <1>2, Zenon
<1> QED BY <1>3, <1>4, <1>5, <1>6, Zenon

\* What the image rule writes holds the archive behind stage 2's sectors.
LEMMA ImageHolds ==
  ASSUME IInv, phase = "disk.img"
  PROVE  Holds(Image)
<1> SUFFICES ASSUME Sound(Image) PROVE Holds(Image)
  BY DEF Holds
<1>1. /\ Image.settings = makefile /\ Image.archive = initrd_bin /\ ~ leftover
      /\ Image.cells = Truncate(<<>>, ArchiveStart(makefile)) \o Truncate(initrd_bin, Budget(makefile))
  BY DEF Image, Sound, ArchiveStart, Budget
<1>2. Len(initrd_bin) \in 0 .. Budget(makefile) /\ makefile \in Settings
  BY <1>1 DEF IInv, Measured
<1> DEFINE a == Truncate(<<>>, ArchiveStart(makefile))
           b == Truncate(initrd_bin, Budget(makefile))
<1>3. Budget(makefile) \in Nat /\ ArchiveStart(makefile) \in Nat
  BY <1>2, Products
<1>4. PICK S : a \in Seq(S)
  BY <1>3, TruncateLength
<1>5. PICK T : b \in Seq(T)
  BY <1>3, TruncateLength
<1>6. a \in Seq(S \cup T) /\ b \in Seq(S \cup T)
  BY <1>4, <1>5
<1>7. Len(a) = ArchiveStart(makefile) /\ Len(b) = Budget(makefile)
  BY <1>3, TruncateLength
<1>8. \A k \in 1 .. Len(initrd_bin) : b[k] = initrd_bin[k]
  BY <1>2, <1>3, TruncateLength
<1>9. \A i \in 1 .. Len(a) + Len(b) : (a \o b)[i] = IF i <= Len(a) THEN a[i] ELSE b[i - Len(a)]
  BY <1>6, ConcatProperties
<1> HIDE DEF a, b
<1>10. \A k \in 1 .. Len(initrd_bin) : (a \o b)[ArchiveStart(makefile) + k] = initrd_bin[k]
  BY <1>2, <1>3, <1>7, <1>8, <1>9
<1> QED BY <1>1, <1>2, <1>10 DEF Holds, a, b

-----------------------------------------------------------------------------
\* Stage 2 loads a sound image's archive whole.
LEMMA LoadWhole ==
  ASSUME IInv, load_initrd
  PROVE  SoundImageLoadsWhole'
<1> SUFFICES ASSUME Sound(disk_img)
             PROVE  \A k \in 1 .. Len(disk_img.archive) :
                      k \in DOMAIN memory' /\ memory'[k] = disk_img.archive[k]
  BY DEF SoundImageLoadsWhole, LoadedWhole, load_initrd, build_vars, Sound
<1> DEFINE s == disk_img.settings
           m == ArchiveStart(s) + 1
           n == ArchiveStart(s) + Budget(s)
           S == {disk_img.cells[i] : i \in m .. n}
<1>1. Holds(disk_img) /\ s = disk_img.stage2
  BY DEF IInv, load_initrd, Sound
<1>2. Budget(s) \in Nat /\ ArchiveStart(s) \in Nat
  BY <1>1, Products DEF Holds
<1>3. memory' = SubSeq(disk_img.cells, m, n)
  BY <1>1 DEF load_initrd, ArchiveStart, Budget
<1>4. m \in Int /\ n \in Int /\ \A i \in m .. n : disk_img.cells[i] \in S
  BY <1>2
<1>5. /\ memory' \in Seq(S)
      /\ Len(memory') = IF m <= n THEN n - m + 1 ELSE 0
      /\ \A i \in 1 .. n - m + 1 : memory'[i] = disk_img.cells[m + i - 1]
  <2> HIDE DEF m, n, S
  <2> QED BY <1>3, <1>4, SubSeqProperties
<1>6. DOMAIN memory' = 1 .. Budget(s) /\ Len(memory') = Budget(s)
  BY <1>2, <1>5
<1>7. ASSUME NEW k \in 1 .. Len(disk_img.archive)
      PROVE  k \in DOMAIN memory' /\ memory'[k] = disk_img.archive[k]
  <2>1. k \in 1 .. Budget(s)
    BY <1>1, <1>2 DEF Holds
  <2>2. memory'[k] = disk_img.cells[ArchiveStart(s) + k]
    <3>1. k \in 1 .. n - m + 1 /\ m + k - 1 = ArchiveStart(s) + k
      BY <1>2, <2>1
    <3> HIDE DEF m, n, S
    <3> QED BY <1>5, <3>1
  <2> QED BY <1>1, <1>6, <2>1, <2>2 DEF Holds
<1> QED BY <1>7

\* Most steps leave the archive and the image alone.
LEMMA MeasuredKept ==
  ASSUME IInv, UNCHANGED <<makefile, initrd_bin, leftover>>,
         phase' = "disk.img" => initrd_bin # None \/ phase = "disk.img"
  PROVE  Measured' /\ makefile' \in Settings
BY DEF IInv, Measured, Budget
LEMMA ImageKept ==
  ASSUME IInv, UNCHANGED disk_img
  PROVE  (disk_img # None => Holds(disk_img))'
BY DEF IInv, Holds, Sound, Budget, ArchiveStart
LEMMA LoadedKept ==
  ASSUME IInv, UNCHANGED <<memory, disk_img>>, phase' = "fs_init" => phase = "fs_init"
  PROVE  SoundImageLoadsWhole' /\ (phase = "fs_init" => disk_img # None)'
BY DEF IInv, SoundImageLoadsWhole, LoadedWhole, Sound

(* The size check, the growth of the budgets and stage 2's reads keep IInv. *)
THEOREM Invariant == Spec => []IInv
<1>1. Init => IInv
  BY DEF Init, IInv, Measured, SoundImageLoadsWhole
<1>2. ASSUME IInv, [Next]_vars PROVE IInv'
  <2>1. CASE save_file \/ remove_file \/ change_mode
    <3>1. /\ phase = "idle" /\ phase' = "idle"
          /\ UNCHANGED <<makefile, initrd_bin, leftover, disk_img, memory>>
      BY <2>1 DEF save_file, remove_file, change_mode, Edit, build_vars, boot_vars
    <3> QED BY <1>2, <3>1, MeasuredKept, ImageKept, LoadedKept DEF IInv
  <2>2. CASE edit_makefile
    <3>1. PICK s \in Settings : s.initrd >= makefile.initrd /\ makefile' = s
      BY <2>2 DEF edit_makefile
    <3>2. phase = "idle" /\ phase' = "idle" /\ UNCHANGED <<initrd_bin, leftover, disk_img, memory>>
      BY <2>2 DEF edit_makefile, Edit, boot_vars
    <3>3. Measured'
      <4>1. Budget(makefile) \in Nat /\ Budget(s) \in Nat /\ Budget(s) >= Budget(makefile)
        BY <1>2, <3>1, Products DEF IInv
      <4>2. Budget(makefile)' = Budget(s)
        BY <3>1 DEF Budget
      <4> QED BY <1>2, <3>2, <4>1, <4>2 DEF IInv, Measured
    <3> QED BY <1>2, <3>1, <3>2, <3>3, ImageKept, LoadedKept DEF IInv
  <2>3. CASE make \/ make_stage2 \/ initrd_up_to_date \/ pack_nothing \/ img_up_to_date \/ img_too_small
    <3>1. /\ phase' = "disk.img" => initrd_bin # None
          /\ phase' # "fs_init" /\ UNCHANGED <<makefile, initrd_bin, leftover, disk_img, memory>>
      BY <2>3 DEF make, make_stage2, initrd_up_to_date, pack_nothing, img_up_to_date, img_too_small,
                  dev_vars, build_vars, boot_vars
    <3> QED BY <1>2, <3>1, MeasuredKept, ImageKept, LoadedKept DEF IInv
  <2>4. CASE make_clean
    <3>1. /\ phase = "idle" /\ phase' = "idle" /\ initrd_bin' = None /\ disk_img' = None
          /\ UNCHANGED makefile
      BY <2>4 DEF make_clean, dev_vars
    <3> QED BY <1>2, <3>1 DEF IInv, Measured, SoundImageLoadsWhole
  <2>5. CASE pack_part
    <3>1. leftover' /\ phase' = "idle" /\ UNCHANGED <<makefile, disk_img, memory>>
      BY <2>5 DEF pack_part, dev_vars, boot_vars
    <3> QED BY <1>2, <3>1, ImageKept, LoadedKept DEF IInv, Measured
  <2>6. ASSUME NEW archive, pack(archive) \/ pack_too_big(archive) PROVE IInv'
    <3>1. /\ initrd_bin' = archive /\ UNCHANGED <<makefile, disk_img, memory>>
          /\ phase' # "fs_init"
          /\ leftover' \/ Fits(archive)
      BY <2>6 DEF pack, pack_too_big, PackAll, dev_vars, boot_vars
    <3>2. Measured'
      BY <3>1 DEF Measured, Fits, Budget
    <3> QED BY <1>2, <3>1, <3>2, ImageKept, LoadedKept DEF IInv
  <2>7. CASE make_img
    <3>1. /\ phase = "disk.img" /\ phase' = "idle" /\ disk_img' = Image
          /\ UNCHANGED <<makefile, initrd_bin, leftover>>
      BY <2>7 DEF make_img, dev_vars
    <3>2. Holds(Image)
      BY <1>2, <3>1, ImageHolds
    <3>3. Holds(disk_img)'
      <4> HIDE DEF Image
      <4> QED BY <3>1, <3>2 DEF Holds, Sound, Budget, ArchiveStart
    <3> QED BY <1>2, <3>1, <3>3, MeasuredKept DEF IInv, SoundImageLoadsWhole
  <2>8. CASE load_initrd
    <3>1. /\ phase = "idle" /\ phase' = "fs_init" /\ disk_img # None
          /\ UNCHANGED <<makefile, initrd_bin, leftover, disk_img>>
      BY <2>8 DEF load_initrd, dev_vars, build_vars
    <3> QED BY <1>2, <2>8, <3>1, LoadWhole, MeasuredKept, ImageKept DEF IInv
  <2>9. CASE fs_init \/ fs_read \/ power_off
    <3>1. /\ phase' \in {"fs_read", "read", "idle"}
          /\ UNCHANGED <<makefile, initrd_bin, leftover, disk_img>>
      BY <2>9 DEF fs_init, fs_read, power_off, dev_vars, build_vars
    <3> QED BY <1>2, <3>1, MeasuredKept, ImageKept DEF IInv, SoundImageLoadsWhole
  <2>10. CASE UNCHANGED vars
    <3>1. UNCHANGED <<makefile, initrd_bin, leftover, disk_img, memory, phase>>
      BY <2>10 DEF vars, dev_vars, build_vars, boot_vars
    <3> QED BY <1>2, <3>1, MeasuredKept, ImageKept, LoadedKept DEF IInv
  <2> QED BY <1>2, <2>1, <2>2, <2>3, <2>4, <2>5, <2>6, <2>7, <2>8, <2>9, <2>10 DEF Next
<1> QED BY <1>1, <1>2, PTL DEF Spec

(* Stage 2 loads the whole archive from every image whose archive passed the *)
(* Makefile's size check and whose stage 2 has the image's sector counts,    *)
(* for every directory, sector size and sequence of edits and builds.        *)
THEOREM MeasuredArchivesLoadWhole == Spec => []SoundImageLoadsWhole
BY Invariant, PTL DEF IInv
=============================================================================

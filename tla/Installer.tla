----------------------------- MODULE Installer -----------------------------
(***************************************************************************)
(* The installation wizard of src/kernel/installer.c: its screens, and the *)
(* writes of an installation to the disk, one sector a step.  Any access   *)
(* may fail, and the power may fail between any two; the disk keeps what   *)
(* was written.  A write that reports success is taken to have happened.   *)
(***************************************************************************)
EXTENDS Integers, Sequences

CONSTANTS
  KernelSectors,    \* sectors from _kernel_start to _kernel_end
  MaxKernelSectors, \* the 1 MB above which the installer refuses the kernel
  Configs           \* what users enter, as records of user and host

ASSUME InstallerAssumption ==
  /\ KernelSectors \in Nat \ {0} /\ MaxKernelSectors \in Nat \ {0}
  /\ Configs # {} /\ \A c \in Configs : c = [user |-> c.user, host |-> c.host]

VARIABLES
  running, \* installer_run has been called and has not returned
  step,    \* current_step, which keeps its value from call to call
  config,  \* installer_config
  task,    \* which task of the installation is under way
  start,   \* file_start_sector, 0 while no file is being copied
  copied,  \* how many sectors of it have been written
  next,    \* next_free_sector
  disk     \* what the sectors hold

place == <<task, start, copied, next>>
insVars == <<running, step, config, place, disk>>

NoConfig == [user |-> "", host |-> ""]
Steps == {"welcome", "disk_selection", "user_config", "confirm", "install", "complete", "error"}

(* Where things go; files follow one another from FirstFree on.            *)
FsStart == 2048
DirSector == FsStart + 1
UserSector == FsStart + 30
HostSector == FsStart + 31
FirstFree == 100
MaxEntries == 10 \* of 48 bytes in a sector
FileSectors == FsStart + FirstFree .. FsStart + FirstFree + KernelSectors + 6
Sectors == {0, FsStart, DirSector, UserSector, HostSector} \cup FileSectors

(* A sector holds a sequence that begins with what it is.                  *)
Other == <<"other">>
FilePart(text, i) == <<"file", text, i>>
Entry(path, first, n) == [path |-> path, start |-> first, sectors |-> n]

-----------------------------------------------------------------------------
(* An installation is a list of tasks: sectors to be written, files to be  *)
(* copied, the check of the kernel's size and the boot code.               *)
Put(s, c) == [op |-> "put", sector |-> s, content |-> c]
Copy(path, text, n) == [op |-> "copy", path |-> path, text |-> text, sectors |-> n]

(* create_directory_entry begins a new directory with every entry.         *)
MakeDir(path) == Put(DirSector, <<"dir", Entry(path, 0, 0)>>)

TestDisk == <<Put(FsStart, <<"pattern">>)>>
Format == <<Put(0, <<"mbr", "table">>), Put(FsStart, <<"super">>)>>
SystemDirs ==
  <<MakeDir("/"), MakeDir("/boot"), MakeDir("/etc"), MakeDir("/usr"), MakeDir("/var"),
    MakeDir("/home"), MakeDir("/tmp")>>
Kernel == <<[op |-> "check"], Copy("/boot/kernel.bin", "kernel", KernelSectors)>>
SystemConfig(c) ==
  <<Copy("/etc/passwd", "passwd", 1),
    Copy("/etc/hostname", c.host, IF c.host = "" THEN 0 ELSE 1),
    Copy("/etc/fstab", "fstab", 1), Copy("/boot/grub.cfg", "grub", 1)>>
Drivers ==
  <<MakeDir("/usr/drivers"), Copy("/usr/drivers/keyboard.ko", "keyboard", 1),
    Copy("/usr/drivers/disk.ko", "disk", 1), Copy("/usr/drivers/network.ko", "network", 1)>>
UserConfig(c) == <<Put(UserSector, <<"user", c>>), Put(HostSector, <<"host", c.host>>)>>

Tasks(c) ==
  TestDisk \o Format \o SystemDirs \o Kernel \o SystemConfig(c) \o Drivers
    \o <<[op |-> "boot"]>> \o UserConfig(c)

-----------------------------------------------------------------------------
Now == Tasks(config)[task]
Working(op) == running /\ step = "install" /\ Now.op = op

(* Every access that fails ends the installation.                          *)
Fails == step' = "error" /\ UNCHANGED <<running, config, place, disk>>

(* The task is done.                                                       *)
Done ==
  IF task = Len(Tasks(config)) THEN step' = "complete" /\ task' = task
  ELSE step' = step /\ task' = task + 1

PutSector ==
  /\ Working("put")
  /\ \/ Fails
     \/ /\ disk' = [disk EXCEPT ![Now.sector] = Now.content] /\ Done
        /\ UNCHANGED <<running, config, start, copied, next>>

CheckKernel ==
  /\ Working("check")
  /\ IF KernelSectors > MaxKernelSectors THEN Fails
     ELSE Done /\ UNCHANGED <<running, config, start, copied, next, disk>>

(* Mutant: files are not given sectors of their own.                       *)
CopyBeginUnreserved ==
  /\ Working("copy") /\ start = 0
  /\ start' = FsStart + next /\ copied' = 0
  /\ UNCHANGED <<running, step, config, task, next, disk>>

(* copy_file_to_disk: its sectors, and then its entry in the directory.    *)
CopyBegin ==
  /\ Working("copy") /\ start = 0
  /\ start' = FsStart + next /\ copied' = 0 /\ next' = next + Now.sectors
  /\ UNCHANGED <<running, step, config, task, disk>>

(* Mutant: one sector more than the file has.                              *)
CopySectorMore ==
  /\ Working("copy") /\ start # 0 /\ copied <= Now.sectors
  /\ \/ Fails
     \/ /\ disk' = [disk EXCEPT ![start + copied] = FilePart(Now.text, copied)]
        /\ copied' = copied + 1
        /\ UNCHANGED <<running, step, config, task, start, next>>

(* Mutant: after the last sector of a file comes its first.                *)
CopySectorAgain ==
  /\ Working("copy") /\ start # 0 /\ copied < Now.sectors
  /\ \/ Fails
     \/ /\ disk' = [disk EXCEPT ![start + copied] = FilePart(Now.text, copied)]
        /\ copied' = (copied + 1) % Now.sectors
        /\ UNCHANGED <<running, step, config, task, start, next>>

CopySector ==
  /\ Working("copy") /\ start # 0 /\ copied < Now.sectors
  /\ \/ Fails
     \/ /\ disk' = [disk EXCEPT ![start + copied] = FilePart(Now.text, copied)]
        /\ copied' = copied + 1
        /\ UNCHANGED <<running, step, config, task, start, next>>

(* The directory is read and written back with the file's entry in its     *)
(* first free slot, if there is one.                                       *)
CopyEnter ==
  /\ Working("copy") /\ start # 0 /\ copied = Now.sectors
  /\ \/ Fails
     \/ /\ Len(Tail(disk[DirSector])) < MaxEntries
        /\ disk' = [disk EXCEPT ![DirSector] = Append(@, Entry(Now.path, start, Now.sectors))]
        /\ start' = 0 /\ copied' = 0 /\ Done
        /\ UNCHANGED <<running, config, next>>

(* Mutant: the boot code comes with a sector of its own.                   *)
InstallBootFresh ==
  /\ Working("boot")
  /\ \/ Fails
     \/ /\ disk' = [disk EXCEPT ![0] = <<"mbr", "code">>] /\ Done
        /\ UNCHANGED <<running, config, start, copied, next>>

(* installer_install_grub puts code into the sector it has read.           *)
InstallBoot ==
  /\ Working("boot")
  /\ \/ Fails
     \/ /\ disk' = [disk EXCEPT ![0] = Append(@, "code")] /\ Done
        /\ UNCHANGED <<running, config, start, copied, next>>

InstallStep == PutSector \/ CheckKernel \/ CopyBegin \/ CopySector \/ CopyEnter \/ InstallBoot

-----------------------------------------------------------------------------
Keys == INSTANCE Keyboard WITH RingSize <- 16
(* What the keys without a prefix give; Escape is not among it.            *)
KeysTyped == {Keys!Keymap[i] : i \in 1 .. 58} \cup {Keys!KeymapShifted[i] : i \in 1 .. 58}

(* cmd_install; nothing resets the step.                                   *)
Start ==
  /\ ~running /\ running' = TRUE
  /\ UNCHANGED <<step, config, place, disk>>

Welcome ==
  /\ running /\ step = "welcome"
  /\ \E key \in {10, 27} \cap KeysTyped :
       step' = IF key = 10 THEN "disk_selection" ELSE "error"
  /\ UNCHANGED <<running, config, place, disk>>

(* The number entered is that of a disk or not.                            *)
SelectDisk ==
  /\ running /\ step = "disk_selection"
  /\ \E found \in BOOLEAN : step' = IF found THEN "user_config" ELSE step
  /\ UNCHANGED <<running, config, place, disk>>

EnterUser ==
  /\ running /\ step = "user_config"
  /\ config' \in Configs /\ step' = "confirm"
  /\ UNCHANGED <<running, place, disk>>

Confirm ==
  /\ running /\ step = "confirm"
  /\ \E yes \in BOOLEAN : step' = IF yes THEN "install" ELSE "disk_selection"
  /\ UNCHANGED <<running, config, place, disk>>

LeaveError ==
  /\ running /\ step = "error" /\ running' = FALSE
  /\ UNCHANGED <<step, config, place, disk>>

(* The power fails, or Enter on the last screen resets the machine.        *)
Restart ==
  /\ running' = FALSE /\ step' = "welcome" /\ config' = NoConfig
  /\ task' = 1 /\ start' = 0 /\ copied' = 0 /\ next' = FirstFree
  /\ UNCHANGED disk

Screens == Start \/ Welcome \/ SelectDisk \/ EnterUser \/ Confirm \/ LeaveError

InsInit ==
  /\ running = FALSE /\ step = "welcome" /\ config = NoConfig
  /\ task = 1 /\ start = 0 /\ copied = 0 /\ next = FirstFree
  /\ disk = [s \in Sectors |-> Other]

InsNext == InstallStep \/ Screens \/ Restart

InsSpec == InsInit /\ [][InsNext]_insVars /\ WF_insVars(InstallStep)

-----------------------------------------------------------------------------
InsTypeOK ==
  /\ running \in BOOLEAN /\ step \in Steps
  /\ config \in Configs \cup {NoConfig}
  /\ task \in 1 .. Len(Tasks(config))
  /\ start \in FileSectors \cup {0}
  /\ next \in FirstFree .. FirstFree + KernelSectors + 7
  /\ copied \in 0 .. (IF Now.op = "copy" THEN Now.sectors ELSE KernelSectors)
  /\ DOMAIN disk = Sectors

Parts(first, text, n) == \A i \in 0 .. n - 1 : disk[first + i] = FilePart(text, i)

(* A file that the directory lists is on the disk, whole: at every moment, *)
(* whatever access or power failure ended this installation or an earlier  *)
(* one.                                                                    *)
Listed ==
  IF disk[DirSector] = Other THEN {} ELSE {disk[DirSector][i] : i \in 2 .. Len(disk[DirSector])}

ListedFilesStored ==
  \A e \in Listed : \E text \in {c.host : c \in Configs}
                         \cup {"kernel", "passwd", "fstab", "grub", "keyboard", "disk", "network"} :
     Parts(e.start, text, e.sectors)

(* An installation that says it is complete has left everything on the     *)
(* disk: the partition table with the boot code beside it, the filesystem, *)
(* each file it copied and what the user entered.                          *)
InstalledWhole ==
  step = "complete" =>
    /\ disk[0] = <<"mbr", "table", "code">> /\ disk[FsStart] = <<"super">>
    /\ disk[UserSector] = <<"user", config>> /\ disk[HostSector] = <<"host", config.host>>
    /\ \A i \in 1 .. Len(Tasks(config)) :
         LET t == Tasks(config)[i]
         IN  t.op = "copy" =>
               \E s \in FileSectors : /\ s + t.sectors - 1 \in FileSectors \cup {s - 1}
                                      /\ Parts(s, t.text, t.sectors)

(* An installation ends, complete or with an error, unless the power fails.*)
InstallEnds == step = "install" ~> step # "install"

(* "start           Start the installation wizard" (commands/install.c:19) *)
StartStartsWizard == [][Start => step' = "welcome"]_insVars
=============================================================================

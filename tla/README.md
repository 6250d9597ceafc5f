# A TLA+ verification of SyncWideOS

SyncWideOS is a small 32-bit x86 kernel in C: one thread, a shell, a FAT32 filesystem, drivers for a
keyboard, IDE disks and an RTL8139 network card, a network stack with a DHCP client, a text editor and an
installer. This directory models its core, the FAT32 filesystem and the shell commands that use it, the
in-memory tree they use when no volume is mounted, the editor over the keyboard driver, the installer, and the
DHCP client with the addresses it sets, model-checks the models with TLC and proves theorems about them with
TLAPS.

All paths below are relative to `src/src/`.

## 1. Inventory

| Component | State it keeps | Operations | Hard parts |
|---|---|---|---|
| FAT allocation table (`kernel/filesystem.c`) | the table on the disk; in `g_fs`: `mounted`, `free_clusters`, `next_free_cluster` | `fs_mount`, `fs_unmount`, `fat32_read/write_fat_entry`, `fat32_allocate_cluster`, `fat32_free_cluster_chain`, the walk in `fs_write` | a cached count and a cached hint beside the table; walks without a bound; cyclic chains |
| FAT32 filesystem API (`kernel/filesystem.c`) | root directory, data clusters, `g_file_handles[32]`, one shared `g_cluster_buffer` | `fs_open/close/read/write/seek`, `fs_mkdir/rmdir/delete/rename/exists/list_directory` | the shared buffer; handles that outlive their file; volume, directory or handles full half way through a call; sizes updated by name |
| Shell file commands (`commands/*.c`, dispatch in `kernel/kernel.c`) | the running command's handles and buffers | write, touch, echo `>` and `>>`, cp, mv, rm, mkdir, read/cat, wc, mount, unmount | several calls a command, each may be refused; two handles on one buffer (cp) |
| Legacy in-memory filesystem (`kernel/filesystem.c`) | tree of `fs_nodes[256]` | `fs_create_file/directory`, `fs_find_node*`, `fs_write_file` | a pool whose nodes never come back |
| RAM-disk storage (`kernel/filesystem.c`) | `ramdisk` | `storage_read/write_sectors` | it builds its volume at the first access |
| Main loop, terminal (`kernel/kernel.c`) | command line, cursor | `kernel_main`, `process_command` | long commands stop the polling of keyboard and network |
| Keyboard (`drivers/keyboard.c`) | modifier flags, ring of 16 keys | `keyboard_process_scancode`, `keyboard_get_key` | overflow of the ring, sequences of scancodes |
| Editor (`commands/pia.c`) | text buffer, cursor, scroll | `editor_handle_key` | limits of the buffer, leaving the editor |
| Installer (`kernel/installer.c`, `commands/install.c`) | `current_step`, `installer_config`, static `next_free_sector`; the disk | the wizard's screens, formatting, directories, copying, boot code, user data | failures and power cuts half way, a second installation over the first, statics that are never reset |
| IDE driver (`drivers/disk.c`) | channels and devices | ATA commands with polling | polling without a bound, statuses that are ignored |
| DHCP client (`kernel/dhcp.c`, `commands/dhcp.c`) | state, transaction id, timer, the offer it took and its lease | `dhcp_start`, `dhcp_stop`, `dhcp_tick` once a second, `dhcp_process_packet` | lost, late and repeated answers, several servers, timeouts and retries, a lease that must not be outlived |
| Network stack (`kernel/network.c`), `commands/ipconfig.c` | addresses, ARP table of 16; ipconfig's own copy of the addresses | packet handlers, setters of the addresses | three parties set the addresses; table limits |
| RTL8139 (`drivers/rtl8139.c`) | rings | transmit and receive | ring ends |
| PCI, GPU, memory, strings, other commands, `kernel/fat32.c`, boot code | little or none | | |

How they interact. `kernel_main` polls the keyboard and the network in one loop; a command line runs to its
end inside that loop. The file commands call the `fs_*` API, which calls the `fat32_*` functions, which call
`storage_*_sectors`. Everything is a plain call on one stack: there are no interrupts in use and no second
thread, so what interleaves is whole calls, by whoever holds handles. All operations of the filesystem share
`g_cluster_buffer` and `g_fs`. While no volume is mounted, some commands use the legacy tree instead. Between
two commands the same loop takes a packet and, every 100000 turns, calls `dhcp_tick`: answers, ticks and
commands interleave in every order, each whole.

What makes the modelled parts correct:

* table: the hint never passes over a free cluster; the count moves with the table; the root's cluster is
  never freed or linked; every loop but one ends on every table, and that one (the walk) ends on the chains
  the shell can produce;
* API: chains are sound and disjoint, entries can be found, nothing is lost when a call fails half way;
* commands: no handle and no cluster leaks, a file changes only by a command on it, and read, write and cp
  move the right bytes;
* keyboard and editor: no key is forgotten while a loop takes one for each scancode it polls; the array of
  lines is edited as a text is, and the cursor stays in the text and on the screen;
* installer: whatever fails and whenever, the directory on the disk lists only files that are there, and an
  installation that says it is complete has written every sector it was to write. (That is about sectors: the
  directory it leaves lists neither the kernel nor the configuration files, see Findings.)
* legacy tree: whatever paths the commands are given, the root stays a map from names to contents, in which a
  command changes the entries its paths lead to and no others;
* DHCP client: the address it sets is the one it was granted in the same attempt, its state machine stops
  counting on the lease before the lease ends (the stack keeps the address, see Findings), and a client that runs
  gets one in the end, however often messages are lost;
* ipconfig: what it shows is what the stack uses, unless DHCP has set other addresses or its own arguments cut
  it short.

The hazards, each at its line and with the properties meant for it, are in `PROJECT.json`.

## 2. Modules

| Module | Models | Depends on |
|---|---|---|
| `Fat` | the table and the `fat32_*` functions as operators on one value, their loops in closed form | |
| `FatCalls` | those functions called in any order on any table; the abstract specification of the table | `Fat` |
| `FatLoops` | the same functions, one loop iteration a step; implements `FatCalls` | `FatCalls` |
| `FatFS` | the `fs_*` API: directory, clusters, handles, buffer; `fs_read`, `fs_write`, `fs_seek` one cluster a step | `Fat` |
| `FatApi` | any caller of the API | `FatFS` |
| `Shell` | the file commands, one API call a step | `FatFS` |
| `Keyboard` | scancodes to keys, modifiers, the ring, as operators | |
| `TextBuffer` | the abstract specification of an editor: lines of text and a cursor | |
| `Editor` | the loop of `cmd_pia` over the keyboard driver; implements `TextBuffer` | `Keyboard` |
| `Installer` | the wizard, and an installation as a list of tasks, one write of a sector a step | `Keyboard` |
| `FileStore` | the abstract specification of a directory: a map from names to contents, and what each file command does to it | |
| `LegacyFs` | the in-memory tree, its pool, path resolution and the commands touch, write, cp, mv, rm on it; implements `FileStore` | |
| `Dhcp` | the DHCP client, the stack's addresses, the servers and the network between them | |
| `Network` | who sets the stack's addresses: boot, the client, `ipconfig` with its own copy | `Dhcp` |
| `MCFatApi`, `MCShell`, `MCEditor`, `MCInstaller`, `MCLegacyFs`, `MCNetwork` | volumes, names, paths, command lines, texts, scancodes, users and servers for TLC | `FatApi`, `Shell`, `Editor`, `Installer`, `LegacyFs`, `Network` |
| `Fat_proofs`, `FatLoops_proofs`, `Shell_proofs`, `Editor_proofs`, `Installer_proofs`, `LegacyFs_proofs`, `Network_proofs` | lemmas and theorems | the module in their name |
| `FatFS_proofs` | the lemmas about `FatFS` that `FatApi` and `Shell` share, and the theorems of `FatApi` | `FatApi`, `Fat_proofs` |

Correspondence with the code:

* `vol` is the part of `g_fs` that changes plus the table: `vol.fat[c]` is the entry of cluster `c`, `Eoc`
  stands for every value from `FAT32_EOC` on. `dir` is the root directory's cluster, one record an entry;
  an entry is "end" (first byte 0), "deleted" (0xE5) or "used". `data` holds the other clusters, `buf` is
  `g_cluster_buffer`, `handles` is `g_file_handles`. `call` is the stack frame of the loop that runs.
* `Open` is `fs_open` with its four ways out; `EnterNew` is what `fs_open` and `fs_mkdir` share: allocate,
  clear, enter in the directory or give the cluster back. `ReadStep`, `WriteInPlace`/`WriteExtending` and
  `SeekStep` are iterations of the loops, `ReadReturn`, `WriteReturn` (with `update_file_size`) and
  `SeekReturn` what follows. `Loaded` is the heart of it: the cluster is read only at offset 0.
* `cmd` in `Shell` is the frame of `cmd_*`: which command, which call comes next, its handles and buffers.
  Commands that make the same call share an action (`Check`, `OpenDst`, ...), which `map` points at one of
  them.
* Names: what the code tells apart is the 8.3 form, so `To83` is an uninterpreted many-to-one function (it
  capitalises and cuts), `Reopened` the 8.3 name that a re-opened handle's name converts to.
* `mods` and `ring` are the statics of the keyboard driver, `ed` is the editor's state, `at` which half of a
  turn of its loop comes next: `Poll` is `keyboard_poll`, `Get` takes a key and handles it (`WithKey`).
* In `Installer`, `step` is `current_step`; `Tasks` is the sequence of writes and copies that
  `installer_perform_installation` makes through the functions it calls, and `task` how far it has come.
  `start` and `copied` are `file_start_sector` and the loop of `copy_file_to_disk`, `next` its static.
* In `LegacyFs`, `fs_nodes` is the array up to `fs_node_count` and `children` the root's array of pointers, as
  indices; `NULL` is 0. `Components` stands for the splitting of a path in `fs_find_node_by_path`. `Rm` unlinks a
  node and leaves it in the pool, as `rm.c` does.
* In `Dhcp`, `dhcp` holds the statics of `dhcp.c`, `net` those of `network.c`. `Discover`, `Await`, `Hold` and
  `Renew` are the cases of `dhcp_tick`, `TakeOffer`, `TakeAck`, `TakeRenewal` and `TakeNak` those of
  `dhcp_process_packet`. `requests` and `answers` are what may still arrive: a message stays there, so it may
  arrive late, again and in any order, and one that never arrives is lost.
* In `Network`, `current_config` is ipconfig's static; `Applied` and `Abandoned` are its loop over the arguments
  with its two ways out.

Abstractions, and why they keep the behaviour:

* A cell is a run of bytes; a cluster has `ClusterCells` of them. What matters is whether a chunk ends inside
  a cluster, at its end or beyond, and each occurs with three cells.
* The working directory is the root: `fs_chdir` accepts nothing else. The root directory is one cluster
  long: no code extends it, and every search but `fs_list_directory` looks at its first cluster only.
* No storage access fails: every cluster number in a table is free, a cluster of the volume or an end mark.
  Tables with links past the volume or bad-cluster marks, long-name and volume-label entries are left out.
* Volumes other than the built-in one: the code calls its RAM disk a "Simple RAM disk for testing"
  (`kernel/filesystem.c:19`) behind a storage interface "implemented by storage driver"
  (`include/filesystem.h:213`). The findings use the built-in volume, except the one on cp, which takes a
  volume that holds two files.
* Fields the code never reads again (a deleted entry, a closed handle) get one fixed value.
* Shell runs its file commands on a mounted volume only; unmounted, the commands refuse or use the legacy
  tree. The image rendering of `read` is left out.
* Shell takes a command line as given. The driver's German layout has no key for `>`, so `echo`'s redirections
  wait for another layout; the code handles them, and so does the model.
* Editor leaves drawing out, but keeps what decides which part of the text is drawn. Files hold no zero. A file
  of 1000 newlines or more (`EDITOR_MAX_LINES`) sets `lines` to 1001, one more than the array has; it is left
  out by `EditorAssumption` and listed among the hazards.
* Installer: a sector is written whole or not at all, and a write that reports success has happened (what
  `drivers/disk.c:582` ignores is among the hazards). A sector's content is what it is, not its bytes. Every
  access may fail, which stands for the drive's errors and for the refusals of the wrappers
  (`kernel/installer.c:51`-121), such as a buffer that the compiler did not align. There is one disk, which may
  be found or not; the power may fail at any moment, and all memory with it.
* Legacy tree: names are shorter than 255 bytes. The directories below the root stay empty: no command creates
  a file in them, since `fs_create_file` is only given the root, the working directory that nothing changes.
* Transaction ids come from a generator that goes through all 2^32 values before it repeats one, so a message is
  known by how many ids were drawn since it was sent. Messages older than `MaxAge` have left the network.
* An answer shorter than 548 bytes is dropped (`kernel/dhcp.c:305`) and counts as lost. Answers are broadcast,
  because the client's flags ask for it (`kernel/dhcp.c:91`), so no address filters them. An ACK names what its
  server offered for the id.
* `CardReady` is what `rtl8139_is_initialized` answers. In this build that is always false
  (`drivers/rtl8139.c:233` reads a static that nothing sets), so no packet moves and the client waits and retries
  for ever. The run takes the stack as it is written for a card that answers; `AddressAcquired` says so in its
  premise, and the theorems hold for both.
* The name server's address is left out, since only ipconfig and messages show it.
* `Scancodes` limits what the user presses, depending on shift, to keep the instance small; every code is
  handled by `Keyboard`.

## 3. Runs

| Run | Question | Instance |
|---|---|---|
| `fat_loops` | Do the loops compute the closed forms of `Fat`, and end? `LoopsImplementCalls` is the refinement of `FatCalls` by `FatLoops`, seen at the returns of calls; `WalkEndsAtLast` gives the walk's end, `LoopsReturn` the end of all other loops, under weak fairness of the running loop. | every table of four clusters, cycles included; `MaxCount` 4 bounds the count at which chains are freed |
| `fat_api` | Do table, directory and handles stay consistent under any caller? Two handles, possibly on one file, deleting, renaming and unmounting under them; another file may then get the name or the clusters. | three clusters of one cell, the root's and two of one file; two directory slots, two names, one of them behind a '/' (`Paths`), the other one opened (`Opens`); a write is two cells and begins while the position is below `MaxSize` 1 |
| `shell` | Do the commands keep handles, clusters and files apart on a full volume with a full directory, do their entries stay findable, and does every command come back to the prompt? | four clusters of one cell, two files, two names, all commands; contents left out |
| `shell_contents` | Are the right bytes read, written and copied? | three cells a cluster, a file of two clusters, lines of one and four cells; `read` asks for two cells at a time, so it resumes inside a cluster and straddles two |
| `editor` | Is the array edited as a text is, with the cursor in it and on the screen, and is no key forgotten? | two lines of three characters, a window of two by one, a ring of two; no file, and a file with a line too long for the array; two letters, Enter, Backspace, shift and the chords that move the cursor and open the help |
| `installer` | What is on the disk, whatever fails, when an installation is repeated? Does an installation end? | a kernel of three sectors, two users, one with an empty host name; accesses and the power may fail without limit |
| `install_again` | the help for `install start`, which does not hold (see Findings) | a kernel one sector too large |
| `quit_help` | the help for Ctrl+Q, which does not hold (see Findings) | Ctrl and Q |
| `network` | Does the client hold the address and the lease that it was granted, and get one in the end, whatever becomes of the messages? Does ipconfig show what the stack uses? | two servers with an address each, one with a lease of four seconds, one that names none; a wait of two ticks, messages of this and the last id (`MaxAge` 1); two command lines of ipconfig, one of them cut short |
| `legacy` | Does each command do to the tree what it is asked? `ImplementsStore` is the refinement of `FileStore`, command by command. | three names and three paths that lead elsewhere or nowhere; three children and a pool of five nodes, so both run full |
| `append_comment`, `free_count_comment` | two comments of the code that do not hold (see Findings) | the built-in volume |

Bounds. Every property relates at most two files, two handles and the free clusters; two files, two handles,
a file of several clusters and a volume and directory that both run full are reachable in each instance, as
the mutants show: every property of every passing run is broken by some small change of the modelled code.
In `fat_api` a file of two clusters, two files of one, and a table with free clusters that the count misses all
occur, as do writes that run out of space half way and clusters linked to themselves through a stale handle. The
positions and sizes of `FatApi` are bounded by `MaxSize`, the counts of `FatCalls` by `MaxCount` (a
chain of a cyclic table adds one more than it frees, so the count could grow for ever).

Two ids are enough for `network`: the client compares an id with its own, so all that differ are alike to it. A
lease of four seconds has a tick in each of its phases. `LeaseAssumption` leaves out leases of one and two
seconds: with three ticks between an ACK and giving up, they are outlived.

The editor's lines fill up, its text runs out of lines, and its window is narrower and lower than the text.

Fairness. `FatLoops` and `Shell` assume weak fairness of the loop, or of the command, that runs: there is one
thread, and nothing can take the processor from it. Mounting and typing are not fair: the user may stop.
Deadlock is checked in `Shell`. It is not checked where the system may really stop: in `FatApi`, where a
caller with a stale handle may link a cluster to itself and the walk of `fs_write` then never ends (the model
has no step there), and in `FatLoops` at its bound. `Editor` needs no fairness: its properties are safety
properties. `Installer` assumes weak fairness of the writes alone: the thread goes on, and the drive answers,
with success or an error. `ide_polling` (`drivers/disk.c:181`) has no other end; a drive that stays busy is among
the hazards. Nothing is assumed of the user and the power.

`Network` assumes weak fairness of the tick, which the main loop calls for ever, and strong fairness of what
has to arrive for an attempt to succeed: a DISCOVER that is sent again and again arrives once, and so do the
OFFER, the REQUEST and the ACK, while the client waits for them. That is a network that loses messages but not
all of them, and a server that answers; `AddressAcquired` says that the client's timeouts make that enough. The
ticks stop for good when a user opens the editor, since `cmd_pia` polls only the keyboard and no key leaves it (see
Findings): the assumption is that nobody does. The other premise is `CardReady`, which this build never satisfies
(see Abstractions). `legacy`
is about safety; it stops when every name is hidden and the pool is used up, since all commands are then refused,
so deadlock is not checked in it.

The number of installations on the one disk is not bounded: the model's states are what the last ones may have
left. The size of the kernel changes only how long its copy takes; with three sectors it is cut off at its
beginning, in its middle and before its entry. The real kernel image is refused (see Findings); `installer` is
about one that is not.

### Findings

* **Appending** (`append_comment`). `commands/echo.c:39` says "Append to file". `fs_seek` leaves the handle
  inside its last cluster without loading it, and `fs_write` loads a cluster only at offset 0: what was in the
  cluster is replaced by what the buffer held, the root directory. Only a file that fills its last cluster is
  appended to correctly. The same stale
  buffer spoils `echo` with `>`, whose newline is a second `fs_write` that begins inside the cluster after the first has
  left the root directory in the buffer, and `cp`: from the second chunk of 512 bytes on, `fs_read` continues from the buffer that `fs_write`
  has left with the root directory in it, so `SmallCopyEqual` is about files of one chunk.
* **Counting** (`free_count_comment`). `kernel/filesystem.c:173` says "Count free clusters"; the count is taken
  before `mounted` is set, through an accessor that only answers when it is. It is always 0, so nothing
  can be created after a mount until a file has been deleted.
* **Quitting** (`quit_help`). `commands/pia.c:333` and `commands/help.c:95` say Ctrl+Q quits the editor.
  `cmd_pia` leaves its loop on key 17; the driver keeps `ctrl_pressed` and never reads it, so Ctrl+Q is the
  letter q, and no key leaves the editor. F1 and the arrow keys (`commands/help.c:96`-97, `commands/pia.c:386`-387)
  do nothing either: `pia.c` has codes of its own for them, those of the characters `;` `H` `P` `K` `M`, and the driver
  sends others. In `Editor`, as in the code, it is these characters that open the help and move the cursor, and none
  of them can be typed into a text.
* **Installing again** (`install_again`). `commands/install.c:19` says "start  Start the installation wizard".
  `current_step` is static and only `installer_init` resets it, which nothing calls: after an installation that
  failed, the command shows the error screen until the machine restarts. Here every installation fails:
  the kernel image holds the RAM disk of 4 MB (`kernel/filesystem.c:20`, inside `_kernel_start` and
  `_kernel_end` of `linker.ld`), and `kernel/installer.c:956` refuses more than 1 MB.

`echo` with `>` disagrees with its comment in one more way, which no run checks: `commands/echo.c:87` says "overwrite",
but `fs_open` with "w" truncates nothing and `fs_write` never lowers a size, so the tail of a longer file stays
(`WriteStored` is about the beginning of a file for the same reason).

Met while modelling, with no comment or test that says otherwise, so not among the findings:

* The client's REQUEST names neither the server nor the address it chose, and the ACK is not compared with the
  offer. With two servers, both may grant, and the client holds one's address with the other's lease:
  `AddressGranted` and `LeaseNotOutlived` are about attempts that one server answers (`OneServer`).
* Every REQUEST of a lease has the id of the first: an ACK that the network repeats extends the lease without the
  server.
* A NAK, the end of a lease and `dhcp stop` leave the address in the stack.
* The entry that gets the size of a written file is looked up by the handle's name, so in `FatApi` a handle whose
  file was renamed, or deleted and made anew, changes the size of another file. No command holds a handle while it
  renames or deletes; `FilesIsolated` and `SizeCovered` are about the commands.
* Every directory that the installer makes is entered into a directory sector begun from zeroes
  (`kernel/installer.c:661`). `/usr/drivers` (`kernel/installer.c:812`) is made after the kernel and the
  configuration files, so a finished installation lists
  neither the kernel nor the configuration files, whose sectors `InstalledWhole` is about.
* `mv` of the in-memory tree to a text with a '/' stores it as a name, and no path leads to the file again. Nodes
  removed by `rm` never return to the pool of 256.

## 4. Theorems

All constants are arbitrary, constrained only by the named assumptions of the modules: at least two clusters
besides the reserved ones, sizes at least 1, a typed volume image whose root cluster is in use and not linked
to; for the network any servers, addresses, timeouts and command lines, and leases of no known end or of three
seconds or more (`LeaseAssumption`); for the editor an array of at least one line of two characters and a
screen of at least one character; for the installer a kernel and users of any size; for the legacy tree any texts,
any way in which paths split into components, and a directory and a pool of any size that hold the first nodes,
each with a name of its own. The runs check the same formulas on small instances.

| Module | Theorem | Says |
|---|---|---|
| `FatLoops_proofs` | `CallsTypeCorrect`, `CallsHintTight` | `CallsSpec => []CallsTypeOK`, `CallsSpec => []HintTight` |
| | `LoopsImplement` | `LoopsSpec => LoopsImplementCalls`: the loops of `FatLoops` implement `FatCalls` |
| | `LoopsWalkEnds`, `LoopsHintTight` | `LoopsSpec` keeps `WalkEndsAtLast`, and `CallsTypeOK /\ HintTight` between iterations too |
| `FatFS_proofs` | `FsTypeCorrect`, `FsRootKept`, `FsHintTight` | `FsSpec` keeps `FsTypeOK`, `RootKept`, `HintTight` |
| | `FsChainsSound`, `FsCountBalanced` | with `ChainsSound` at first, `[]ChainsSound` and `CountBalanced` |
| | `FsEntriesFindable` | with `EntriesFindable` at first, always |
| `Shell_proofs` | `ShellTypeCorrect`, `ShellKeepsVolume` | `ShellSpec` keeps `ShellTypeOK`, `RootKept /\ HintTight` |
| | `ShellHoldsHandles` | no command uses the result of an `fs_open` that was refused, or writes when nothing is left to write |
| | `ShellChainsSound`, `ShellEntriesFindable`, `ShellHandlesLive`, `ShellNoClusterLeaked` | the properties in their names, given those of the mounted image |
| | `ShellFilesIsolated`, `ShellSizeCovered` | `FilesIsolated`, `[]SizeCovered`, under `NamesStable` as well |
| | `ShellReadGetsFile`, `ShellWriteStored`, `ShellSmallCopyEqual` | what lies in the files: `[]ReadGetsFile`, `[]WriteStored`, `[]SmallCopyEqual`, under the same hypotheses |
| `Editor_proofs` | `EditorTypeCorrect`, `EditorCursorInText`, `EditorCursorOnScreen`, `EditorForgetsNoKey` | `EditorSpec` keeps `EditorTypeOK`, `CursorInText`, `CursorOnScreen`, `NoKeyForgotten` |
| | `EditorChangesMarked` | `EditorSpec => ChangesMarked` |
| | `EditorEditsText` | `EditorSpec => EditsText`: `Editor` implements `TextBuffer` |
| `Installer_proofs` | `InstallerTypeCorrect`, `InstallerListsStored`, `InstallerWhole` | `InsSpec` keeps `InsTypeOK`, `ListedFilesStored`, `InstalledWhole` |
| `Network_proofs` | `NetworkTypeCorrect`, `NetworkAddressGranted`, `NetworkLeaseNotOutlived`, `NetworkConfigShown` | `NetworkSpec` keeps `NetworkTypeOK`, `AddressGranted`, `LeaseNotOutlived`, `ConfigShown` |
| `LegacyFs_proofs` | `LegacyTypeCorrect`, `LegacyTreeSound` | `LegacySpec` keeps `LegacyTypeOK`, `TreeSound` |
| | `LegacyImplementsStore` | `LegacySpec => ImplementsStore`: `LegacyFs` implements `FileStore`, command by command |

Hypotheses about the first state. The code mounts whatever volume it is given, so a theorem about chains says
that they stay sound, not that they were: `ChainsSound`, `EntriesFindable`, `NoClusterLeaked` and `SizeCovered` of
the image are premises, which the images of `MCFatApi` and `MCShell`, the built-in one among them, satisfy
(they are invariants of the runs). `NamesStable` says that a name under which an entry is stored converts to itself
when an open handle's name is converted again, `Reopened[To83[t]] = To83[t]`. The runs' names satisfy it; a name
whose stored form reads back differently (`update_file_size` then looks for another entry) is outside of
`ShellFilesIsolated`, `ShellSizeCovered` and the three theorems on contents, which rest on it.

### The argument

**Table.** `Fat_proofs` proves what each table operation keeps. `MinOfBounded` and
`ReachLeast` are the base: the minimum of a set of naturals exists, and what a walk visits lies inside every
set closed under links. From these: the cluster picked is free (`PickIsFree`) and the least free one at or
above the hint, so moving the hint past it passes over none (`AllocateKeeps`); freeing lowers the hint to the least
cluster walked (`FreeChainKeeps`); linking frees nothing (`WriteEntryKeeps`).

**Loops.** `LoopsInv` in `FatLoops_proofs` has a loop invariant for each loop, which says what it has done to the
volume `before` it began with. `Counting`: nothing is ever counted, since the accessor answers "end of chain" until
`mounted` is set. `Searching`: no cluster between the hint and the one looked at is free, in the second loop none from
the hint on either, so the first one found is the least (`SearchFinds`). `Freeing`: there is a set `W` of freed
clusters, closed under links but for the cluster that comes next; the count has grown by `Cardinality(W)`
(`FreedOnce`), and by one more once the walk has come back to a freed cluster (`FreedTwice`). When the walk ends, `W`
contains its beginning and is closed, so by `ReachLeast` it is the whole chain (`FreeEnds`). `Walking`: the cluster is
one the chain reaches, or entry 0 behind a free one. So no induction on the length of a walk is needed. Each action
then leaves `before` alone or returns having done a call's work (`Simulates`, one lemma per action). A return of
`fs_write`'s walk at entry 0 writes nothing: to `FatCalls` it is a mount of a mounted volume.

**API.** Neither hint nor root is inductive alone. The hint must be tight for the picked cluster to be the least
free one; the root's cluster must not be free for it never to be picked, and not linked to for a chain never
to reach it, which in turn needs that no entry and no handle points to it. `FsInv` in `FatFS_proofs` is the
conjunction: the volume is typed and tight and its root kept (`VolInv`), entries and handles are typed
and do not point to the root (`EntryInv`, `HandleInv`), and the loop that runs has a handle and, when writing,
its whole text (`CallInv`), with one lemma per action.

Chains are about the links of all files at once. `ApiStep` says what any step does to table and directory, in five
shapes: neither changes (`Rests`), an entry is renamed (`Renames`), a new entry gets a free cluster (`Enters`), a free
cluster is linked behind the end of a chain (`Grows`), an entry is erased and its chain freed (`Erases`). `StepSound`,
`StepBalanced` and `StepFindable` are about those shapes, so `FsChainsSound`, `FsCountBalanced` and
`FsEntriesFindable`, and the shell's versions of them, only need that each action has one (`ApiSteps`). A stale handle
breaks none of them: it links only behind a cluster that ends a chain, or behind the one just allocated, and
what it links was free.

**Shell.** The lemmas ask a caller for handles that exist, so the shell reuses them once it is known to hold such
handles: `CmdInv` in `Shell_proofs` says which step of which command holds a source, a destination and something to
write. `FlowInv` adds which command can be where (`OpsAt`) and exactly which handles are open there; `FileInv` that
each open handle stands for an entry that is in use and starts where it does. They give `HandlesLive`: a command's
entries outlive its handles because no command deletes while it holds one. `Owned` says that the clusters in use are
the root's and those of the entries' chains, which `StepOwned` keeps as long as only handles of entries are written; that
is `NoClusterLeaked`. For `SizeCovered`, `SizedIn` says of a handle that its size is covered by its chain and that its
position is what the clusters before its own hold, plus its offset; `MovesSized` carries that over an iteration of
`fs_write`, and `SizeInv` says it of the handle that is written.

**Contents.** `CellAt` finds a cell by how many clusters of the chain are left behind its own. A cluster of a chain that
ends is known by that number (`LengthsDiffer`), so "the file begins with the first n cells of s" can be said without
counting along the chain: `CellIn` asks for a cluster with so many behind it that holds the cell, `Begins` for one for
each cell, and `CellPicked` says that `CellAt` picks it. Two lemmas about tables carry `Begins` through everything that
happens to a file: `BeginsWritten`, a cluster is stored with the next cells in it, and `BeginsAppended`, a
cluster is linked behind the last.

The properties speak of the moment when a command closes its handle; the invariants say what holds until then.
`Reads(h, i, out)`: handle `h` has read `out`, its position is the length of `out`, the file of entry `i` begins with it,
and if `h` is inside a cluster that cluster is in the one buffer. The last conjunct is the point: `fs_read`
loads a cluster only at its beginning, and nothing between two requests of `read` uses the buffer. `Writes` is the
counterpart for a handle that writes, whose size may still be ahead of its entry's. `ReadInv` and `WriteInv` say where in
`read` and `write` which of them holds (`Gets`, `Puts`: of which loop), with one lemma for the loops' iterations
(`StepReads`, `StepWrites`).

`CopyInv` is about both ends of `cp` at once. While it reads, its destination is empty and its handle at
offset 0 (`Fresh`), so the first `fs_write` loads its cluster and does not need the buffer that `fs_read` has left. When it
has the chunk, the source is at its end (`AtEnd`) as it fits into one request, so `fs_read` is not asked again after
`fs_write` has taken the buffer. From the last `fs_write` on, both files begin with one text (`Common`). What `cp`
writes leaves the chain of its source alone, which is `WriteUntouched` of the proof of `FilesIsolated`. A larger
file breaks `AtEnd`, and its copy (see Findings).

**Editor.** `EdInv` adds to `CursorInText` that the last character of every line is zero, without which
`strlen` would leave the line; together they say that no character before the cursor is zero (`StrLenSays`), so
a character typed or erased there moves the end of the line with it. The window needs no more than that
`ScrollIfNeeded` follows every key, wherever the cursor was. `RingInv` says that the ring holds at most the key that
`Get` takes next, in every place the ring's indices can be: `NoKeyForgotten` for rings of every size. For the
refinement, each key's handler maps to an edit of the abstract text, line by line (`TextStep`): shifting the array
of lines up or down is inserting or removing a line of the sequence, and shifting characters is inserting or
removing one.

**Installer.** `InsInv` is the conjunction of what the screen says of the task under way (`ScreenInv`), where the
static `next` and the files of this installation are (`PlaceInv`), and what is on the disk: typed sectors
(`DiskTyped`), a directory whose entries are whole files (`DirInv`), the files this installation has copied so far
(`FilesInv`) and the writes that precede the task under way (`SystemInv`). The hard part is a second installation over
the first one, which writes into the same sectors. `Before` counts the sectors that the copies before a task
have used, `Place` is where its own file begins, and `Kept` says that the file of an entry lies in the
sectors for files and is whole. Once the directory is begun anew, before the first copy, every file it lists ends where
the running copy begins (`DirInv`), so no write reaches one.

**Network.** `AddressGranted` needs what the servers and the client remember to agree. `OneOffer` says that a
server's offer for an id is unique, `AckOffered` that an ACK has its OFFER on the network, `OfferTaken` that the
offer the client took is still there as long as it draws no new id. Then an ACK of the current id from the only
server is for the address taken (`AckOfServer`). Answers of the current id only ever arrive (`OneServerBefore`), so
what one server said cannot become what another did. `LeaseOffered` carries the same over to the lease time, and
`Elapsed` says how far into the lease each state may be: `timer` in BOUND, half of the lease plus `timer` in
RENEWING, that and a quarter (one tick at least) in REBINDING. `Quarters` adds these up. `ipconfig` disturbs
nothing that the first two mention (`UnseenKeeps`). `ConfigShown` needs only types beside it (`ConfigInv`), and what
the fold over the arguments of a command line of any length (`Applied`, `Abandoned`) keeps.

**Legacy tree.** `LegacyInv` is `TreeSound` with the reason for it: the root, node 1, is no child, and every other node
has the name of a text. Four lemmas say what the functions do to the two arrays and to the map that the names show
(`AddKeeps`, `PutKeeps`, `RenameKeeps`, `RemoveKeeps`), for `mv` under the premise that no path led to the new name
before. `PathInTree` and `NameLeads` join them to the paths: whatever the components, a walk ends at nothing,
the root or a child, and a name whose path leads nowhere names no child. That is why `mv` may look its destination up
by path and the tree stays sound; `mv` of a path to the root changes only the root's name, a stutter of the map.

**Induction.** The library's induction theorems take an operator, which the provers cannot instantiate. Where
a fact is about each of the values of a function on `0 .. n` (the components of a path, the arguments of a command line),
`UpTo` gives induction on a set of numbers instead, from the well-foundedness of the subsets of a finite set.

### Only model-checked

* The liveness properties (`LoopsReturn`, `CommandsReturn`, `InstallEnds`, `AddressAcquired`):
  fairness and ENABLED are beyond the prover.

Every other property of a passing run is a theorem. The runs that expect a violation check what does not hold.

## 5. Plan

In this order.

1. *Done:* `Fat`, `FatCalls`, `FatLoops`, `FatFS`, `FatApi`, `Shell` and their theorems.
2. *Done:* `Keyboard`, `TextBuffer`, `Editor` and their theorems. *Left:* `Terminal`, the command line of the
   main loop over `Keyboard`, where a long command lets the ring overflow.
3. *Done:* `Dhcp`, `Network` and their theorems. *Left:* the ARP table with the packets that go by it, and
   `Rtl8139` (transmit slots, receive ring).
4. *Done:* `Installer` and its theorems. *Left:* `Ide`, its commands and polling, under it.
5. *Done:* `FileStore`, `LegacyFs` and their theorems.
6. `FatFS` under the calls for which it implements `FileStore`.
7. Pure algorithms against reference definitions: Internet checksum, byte order, addresses, number
   conversion, 8.3 names, the bump allocator.
8. *Done:* what the clusters of a file hold (`ReadGetsFile`, `WriteStored`, `SmallCopyEqual`), proved.

Not modelled: `network_dhcp_request` and its variants (`kernel/network.c:509`-671), which nothing calls;
`network_ping`, which makes its answers up; `netstat`; the ARP table, by which no DHCP message goes.

Not planned: `drivers/gpu.c` and the display commands (pixels and layout), PCI enumeration (reads only),
`kernel/fat32.c` (unused), boot code and generated data.

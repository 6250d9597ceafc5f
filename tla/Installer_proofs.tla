-------------------------- MODULE Installer_proofs --------------------------
(***************************************************************************)
(* Proofs about the installation wizard.  An installation is a list of 23  *)
(* tasks, so the place of a file follows from the tasks before it, and the *)
(* invariant InsInv says where everything is that has been written: each   *)
(* task's lemma below shows that what it writes leaves the rest alone.     *)
(***************************************************************************)
EXTENDS Installer, SequenceTheorems, TLAPS

(* x is s, of length m, followed by u, of length n.                        *)

Joins(x, s, m, u, n) ==
  /\ Len(x) = m + n
  /\ \A i \in 1 .. m : x[i] = s[i]
  /\ \A i \in 1 .. n : x[m + i] = u[i]

LEMMA Joined ==
  ASSUME NEW S, NEW s \in Seq(S), NEW u \in Seq(S)
  PROVE  s \o u \in Seq(S) /\ Joins(s \o u, s, Len(s), u, Len(u))
<1>1. /\ s \o u \in Seq(S) /\ Len(s \o u) = Len(s) + Len(u)
      /\ \A i \in 1 .. Len(s) + Len(u) : (s \o u)[i] = IF i <= Len(s) THEN s[i] ELSE u[i - Len(s)]
  BY ConcatProperties
<1>2. \A i \in 1 .. Len(s) : (s \o u)[i] = s[i]
  BY <1>1
<1>3. ASSUME NEW i \in 1 .. Len(u) PROVE (s \o u)[Len(s) + i] = u[i]
  <2>1. Len(s) + i \in 1 .. Len(s) + Len(u) /\ ~(Len(s) + i <= Len(s)) /\ Len(s) + i - Len(s) = i
    OBVIOUS
  <2> QED BY <1>1, <2>1
<1> QED BY <1>1, <1>2, <1>3 DEF Joins

(* The boot code behind the partition table.                              *)
LEMMA AppendThird ==
  ASSUME NEW a, NEW b, NEW c
  PROVE Append(<<a, b>>, c) = <<a, b, c>>
<1> DEFINE S == {a, b, c}
<1>1. <<a, b>> \in Seq(S) /\ <<a, b, c>> \in Seq(S) /\ c \in S
  OBVIOUS
<1>2. /\ Append(<<a, b>>, c) \in Seq(S) /\ Len(Append(<<a, b>>, c)) = Len(<<a, b>>) + 1
      /\ \A i \in 1 .. Len(<<a, b>>) : Append(<<a, b>>, c)[i] = <<a, b>>[i]
      /\ Append(<<a, b>>, c)[Len(<<a, b>>) + 1] = c
  BY <1>1, AppendProperties
<1>3. Len(<<a, b>>) = 2 /\ Len(<<a, b, c>>) = 3
  OBVIOUS
<1> DEFINE u == Append(<<a, b>>, c)
<1>4. u \in Seq(S) /\ Len(u) = 3 /\ u[1] = a /\ u[2] = b /\ u[3] = c
  BY <1>2, <1>3
<1> HIDE DEF u
<1>5. Len(u) = Len(<<a, b, c>>) /\ \A i \in 1 .. Len(u) : u[i] = <<a, b, c>>[i]
  BY <1>4
<1>6. u = <<a, b, c>>
  BY <1>1, <1>4, <1>5, SeqEqual
<1> QED BY <1>6 DEF u

-----------------------------------------------------------------------------
(* The list of an installation's tasks, part by part.                      *)
Boot == <<[op |-> "boot"]>>

Jobs(c) ==
  {TestDisk[1], Format[1], Format[2], Kernel[1], Kernel[2], [op |-> "boot"],
   UserConfig(c)[1], UserConfig(c)[2]}
    \cup {SystemDirs[i] : i \in 1 .. 7} \cup {SystemConfig(c)[i] : i \in 1 .. 4}
    \cup {Drivers[i] : i \in 1 .. 4}

LEMMA Lists ==
  ASSUME NEW c
  PROVE  /\ TestDisk \in Seq(Jobs(c)) /\ Len(TestDisk) = 1
         /\ Format \in Seq(Jobs(c)) /\ Len(Format) = 2
         /\ SystemDirs \in Seq(Jobs(c)) /\ Len(SystemDirs) = 7
         /\ Kernel \in Seq(Jobs(c)) /\ Len(Kernel) = 2
         /\ SystemConfig(c) \in Seq(Jobs(c)) /\ Len(SystemConfig(c)) = 4
         /\ Drivers \in Seq(Jobs(c)) /\ Len(Drivers) = 4
         /\ Boot \in Seq(Jobs(c)) /\ Len(Boot) = 1
         /\ UserConfig(c) \in Seq(Jobs(c)) /\ Len(UserConfig(c)) = 2
<1>1. TestDisk \in Seq(Jobs(c)) /\ Len(TestDisk) = 1
  BY DEF TestDisk, Jobs
<1>2. Format \in Seq(Jobs(c)) /\ Len(Format) = 2
  BY DEF Format, Jobs
<1>3. SystemDirs \in Seq(Jobs(c)) /\ Len(SystemDirs) = 7
  BY DEF SystemDirs, Jobs
<1>4. Kernel \in Seq(Jobs(c)) /\ Len(Kernel) = 2
  BY DEF Kernel, Jobs
<1>5. SystemConfig(c) \in Seq(Jobs(c)) /\ Len(SystemConfig(c)) = 4
  <2>1. \E a1, a2, a3, a4 : SystemConfig(c) = <<a1, a2, a3, a4>>
    BY DEF SystemConfig
  <2>2. PICK a1, a2, a3, a4 : SystemConfig(c) = <<a1, a2, a3, a4>>
    BY <2>1
  <2>3. \A i \in 1 .. 4 : SystemConfig(c)[i] \in Jobs(c)
    BY DEF Jobs
  <2> QED BY <2>2, <2>3
<1>6. Drivers \in Seq(Jobs(c)) /\ Len(Drivers) = 4
  BY DEF Drivers, Jobs
<1>7. Boot \in Seq(Jobs(c)) /\ Len(Boot) = 1
  BY DEF Boot, Jobs
<1>8. UserConfig(c) \in Seq(Jobs(c)) /\ Len(UserConfig(c)) = 2
  BY DEF UserConfig, Jobs
<1> QED BY <1>1, <1>2, <1>3, <1>4, <1>5, <1>6, <1>7, <1>8

Parted == TestDisk \o Format
Rooted == Parted \o SystemDirs
Booting == Rooted \o Kernel
Configured(c) == Booting \o SystemConfig(c)
Driven(c) == Configured(c) \o Drivers
Loading(c) == Driven(c) \o Boot

(* Which task is which.                                                    *)
LEMMA TasksAre ==
  ASSUME NEW c
  PROVE  /\ Tasks(c) \in Seq(Jobs(c)) /\ Len(Tasks(c)) = 23
         /\ Tasks(c)[1] = TestDisk[1]
         /\ \A i \in 1 .. 2 : Tasks(c)[1 + i] = Format[i]
         /\ \A i \in 1 .. 7 : Tasks(c)[3 + i] = SystemDirs[i]
         /\ \A i \in 1 .. 2 : Tasks(c)[10 + i] = Kernel[i]
         /\ \A i \in 1 .. 4 : Tasks(c)[12 + i] = SystemConfig(c)[i]
         /\ \A i \in 1 .. 4 : Tasks(c)[16 + i] = Drivers[i]
         /\ Tasks(c)[21] = [op |-> "boot"]
         /\ \A i \in 1 .. 2 : Tasks(c)[21 + i] = UserConfig(c)[i]
<1>1. Parted \in Seq(Jobs(c)) /\ Joins(Parted, TestDisk, 1, Format, 2)
  BY Lists, Joined DEF Parted
<1>2. Rooted \in Seq(Jobs(c)) /\ Joins(Rooted, Parted, 3, SystemDirs, 7)
  <2>1. Len(Parted) = 3
    BY <1>1 DEF Joins
  <2> QED BY <1>1, <2>1, Lists, Joined DEF Rooted
<1>3. Booting \in Seq(Jobs(c)) /\ Joins(Booting, Rooted, 10, Kernel, 2)
  <2>1. Len(Rooted) = 10
    BY <1>2 DEF Joins
  <2> QED BY <1>2, <2>1, Lists, Joined DEF Booting
<1>4. Configured(c) \in Seq(Jobs(c)) /\ Joins(Configured(c), Booting, 12, SystemConfig(c), 4)
  <2>1. Len(Booting) = 12
    BY <1>3 DEF Joins
  <2> QED BY <1>3, <2>1, Lists, Joined DEF Configured
<1>5. Driven(c) \in Seq(Jobs(c)) /\ Joins(Driven(c), Configured(c), 16, Drivers, 4)
  <2>1. Len(Configured(c)) = 16
    BY <1>4 DEF Joins
  <2> QED BY <1>4, <2>1, Lists, Joined DEF Driven
<1>6. Loading(c) \in Seq(Jobs(c)) /\ Joins(Loading(c), Driven(c), 20, Boot, 1)
  <2>1. Len(Driven(c)) = 20
    BY <1>5 DEF Joins
  <2> QED BY <1>5, <2>1, Lists, Joined DEF Loading
<1>7. Tasks(c) \in Seq(Jobs(c)) /\ Joins(Tasks(c), Loading(c), 21, UserConfig(c), 2)
  <2>1. Len(Loading(c)) = 21
    BY <1>6 DEF Joins
  <2>2. Tasks(c) = Loading(c) \o UserConfig(c)
    BY DEF Tasks, Loading, Driven, Configured, Booting, Rooted, Parted, Boot
  <2> QED BY <1>6, <2>1, <2>2, Lists, Joined
<1>8. Len(Tasks(c)) = 23
  BY <1>7 DEF Joins
<1>9. /\ \A i \in 1 .. 21 : Tasks(c)[i] = Loading(c)[i]
      /\ \A i \in 1 .. 20 : Loading(c)[i] = Driven(c)[i]
      /\ \A i \in 1 .. 16 : Driven(c)[i] = Configured(c)[i]
      /\ \A i \in 1 .. 12 : Configured(c)[i] = Booting[i]
      /\ \A i \in 1 .. 10 : Booting[i] = Rooted[i]
      /\ \A i \in 1 .. 3 : Rooted[i] = Parted[i]
  BY <1>2, <1>3, <1>4, <1>5, <1>6, <1>7 DEF Joins
<1>10. \A i \in 1 .. 20 : Tasks(c)[i] = Driven(c)[i]
  BY <1>9
<1>11. \A i \in 1 .. 16 : Tasks(c)[i] = Configured(c)[i]
  BY <1>9, <1>10
<1>12. \A i \in 1 .. 12 : Tasks(c)[i] = Booting[i]
  BY <1>9, <1>11
<1>13. \A i \in 1 .. 10 : Tasks(c)[i] = Rooted[i]
  BY <1>9, <1>12
<1>14. \A i \in 1 .. 3 : Tasks(c)[i] = Parted[i]
  BY <1>9, <1>13
<1>15. Tasks(c)[1] = TestDisk[1] /\ \A i \in 1 .. 2 : Tasks(c)[1 + i] = Format[i]
  BY <1>1, <1>14 DEF Joins
<1>16. \A i \in 1 .. 7 : Tasks(c)[3 + i] = SystemDirs[i]
  BY <1>2, <1>13 DEF Joins
<1>17. \A i \in 1 .. 2 : Tasks(c)[10 + i] = Kernel[i]
  BY <1>3, <1>12 DEF Joins
<1>18. \A i \in 1 .. 4 : Tasks(c)[12 + i] = SystemConfig(c)[i]
  BY <1>4, <1>11 DEF Joins
<1>19. \A i \in 1 .. 4 : Tasks(c)[16 + i] = Drivers[i]
  BY <1>5, <1>10 DEF Joins
<1>20. Tasks(c)[21] = [op |-> "boot"]
  <2>1. Tasks(c)[21] = Boot[1]
    BY <1>6, <1>9 DEF Joins
  <2> QED BY <2>1 DEF Boot
<1>21. \A i \in 1 .. 2 : Tasks(c)[21 + i] = UserConfig(c)[i]
  BY <1>7 DEF Joins
<1> QED BY <1>7, <1>8, <1>15, <1>16, <1>17, <1>18, <1>19, <1>20, <1>21

(* Files are copied by these tasks, and take this many sectors.            *)
Copies == {12, 13, 14, 15, 16, 18, 19, 20}
HostUses(c) == IF c.host = "" THEN 0 ELSE 1
Uses(c, t) ==
  IF t = 12 THEN KernelSectors
  ELSE IF t = 14 THEN HostUses(c)
  ELSE IF t \in {13, 15, 16, 18, 19, 20} THEN 1 ELSE 0

(* The sectors taken before a task.                                        *)
Before(c, t) ==
  (IF t > 12 THEN KernelSectors ELSE 0) + (IF t > 13 THEN 1 ELSE 0)
    + (IF t > 14 THEN HostUses(c) ELSE 0) + (IF t > 15 THEN 1 ELSE 0)
    + (IF t > 16 THEN 1 ELSE 0) + (IF t > 18 THEN 1 ELSE 0)
    + (IF t > 19 THEN 1 ELSE 0) + (IF t > 20 THEN 1 ELSE 0)

Texts == {c.host : c \in Configs}
           \cup {"kernel", "passwd", "fstab", "grub", "keyboard", "disk", "network"}

Heads == {0, FsStart, DirSector, UserSector, HostSector}

(* What the tasks are made of.                                             *)
LEMMA TaskFields ==
  /\ \A p : /\ MakeDir(p).op = "put" /\ MakeDir(p).sector = DirSector
            /\ MakeDir(p).content = <<"dir", Entry(p, 0, 0)>>
  /\ \A p, text, n : /\ Copy(p, text, n).op = "copy" /\ Copy(p, text, n).text = text
                     /\ Copy(p, text, n).path = p /\ Copy(p, text, n).sectors = n
BY DEF MakeDir, Put, Copy

(* The tasks that begin a directory.                                       *)
DirPaths == {"/", "/boot", "/etc", "/usr", "/var", "/home", "/tmp", "/usr/drivers"}
MadeDirs == {MakeDir(p) : p \in DirPaths}

LEMMA DirAt ==
  ASSUME NEW c, NEW t \in {4, 5, 6, 7, 8, 9, 10, 17}
  PROVE  Tasks(c)[t] \in MadeDirs
<1>1. /\ SystemDirs[1] = MakeDir("/") /\ SystemDirs[2] = MakeDir("/boot")
      /\ SystemDirs[3] = MakeDir("/etc") /\ SystemDirs[4] = MakeDir("/usr")
      /\ SystemDirs[5] = MakeDir("/var") /\ SystemDirs[6] = MakeDir("/home")
      /\ SystemDirs[7] = MakeDir("/tmp") /\ Drivers[1] = MakeDir("/usr/drivers")
  BY DEF SystemDirs, Drivers
<1>2. /\ Tasks(c)[4] = SystemDirs[1] /\ Tasks(c)[5] = SystemDirs[2]
      /\ Tasks(c)[6] = SystemDirs[3] /\ Tasks(c)[7] = SystemDirs[4]
      /\ Tasks(c)[8] = SystemDirs[5] /\ Tasks(c)[9] = SystemDirs[6]
      /\ Tasks(c)[10] = SystemDirs[7] /\ Tasks(c)[17] = Drivers[1]
  BY TasksAre
<1>3. /\ MakeDir("/") \in MadeDirs /\ MakeDir("/boot") \in MadeDirs
      /\ MakeDir("/etc") \in MadeDirs /\ MakeDir("/usr") \in MadeDirs
      /\ MakeDir("/var") \in MadeDirs /\ MakeDir("/home") \in MadeDirs
      /\ MakeDir("/tmp") \in MadeDirs /\ MakeDir("/usr/drivers") \in MadeDirs
  BY DEF MadeDirs, DirPaths
<1> QED BY <1>1, <1>2, <1>3

(* The tasks that copy the files of the system's configuration.            *)
LEMMA ConfigAt ==
  ASSUME NEW c, NEW t \in {13, 14, 15, 16}
  PROVE  /\ Tasks(c)[t].op = "copy"
         /\ Tasks(c)[t].sectors = IF t = 14 THEN HostUses(c) ELSE 1
         /\ Tasks(c)[t].text \in {"passwd", "fstab", "grub"} \cup {c.host}
<1> DEFINE f1 == Copy("/etc/passwd", "passwd", 1)
           f2 == Copy("/etc/hostname", c.host, HostUses(c))
           f3 == Copy("/etc/fstab", "fstab", 1)
           f4 == Copy("/boot/grub.cfg", "grub", 1)
<1>1. SystemConfig(c) = <<f1, f2, f3, f4>>
  BY DEF SystemConfig, HostUses
<1>2. /\ f1.op = "copy" /\ f1.sectors = 1 /\ f1.text = "passwd"
      /\ f2.op = "copy" /\ f2.sectors = HostUses(c) /\ f2.text = c.host
      /\ f3.op = "copy" /\ f3.sectors = 1 /\ f3.text = "fstab"
      /\ f4.op = "copy" /\ f4.sectors = 1 /\ f4.text = "grub"
  BY DEF Copy
<1> HIDE DEF f1, f2, f3, f4
<1>3. /\ Tasks(c)[13] = SystemConfig(c)[1] /\ Tasks(c)[14] = SystemConfig(c)[2]
      /\ Tasks(c)[15] = SystemConfig(c)[3] /\ Tasks(c)[16] = SystemConfig(c)[4]
  BY TasksAre
<1>4. /\ Tasks(c)[13] = f1 /\ Tasks(c)[14] = f2 /\ Tasks(c)[15] = f3 /\ Tasks(c)[16] = f4
  BY <1>1, <1>3
<1>5. CASE t = 14
  BY <1>2, <1>4, <1>5
<1>6. CASE t \in {13, 15, 16}
  BY <1>2, <1>4, <1>6
<1> QED BY <1>5, <1>6

(* What each task does.                                                    *)
LEMMA OpAt ==
  ASSUME NEW c, NEW t \in 1 .. 23
  PROVE  Tasks(c)[t].op = IF t \in Copies THEN "copy"
                          ELSE IF t = 11 THEN "check" ELSE IF t = 21 THEN "boot" ELSE "put"
<1>1. t \in {1, 21} \/ t \in {2, 3} \/ t \in {4, 5, 6, 7, 8, 9, 10} \/ t \in {11, 12}
        \/ t \in {13, 14, 15, 16} \/ t \in {17, 18, 19, 20} \/ t \in {22, 23}
  OBVIOUS
<1>2. CASE t \in {1, 21}
  <2>1. Tasks(c)[1] = TestDisk[1] /\ Tasks(c)[21] = [op |-> "boot"]
    BY TasksAre
  <2> QED BY <1>2, <2>1 DEF TestDisk, Put, Copies
<1>3. CASE t \in {2, 3}
  <2>1. Tasks(c)[2] = Format[1] /\ Tasks(c)[3] = Format[2]
    BY TasksAre
  <2> QED BY <1>3, <2>1 DEF Format, Put, Copies
<1>4. CASE t \in {4, 5, 6, 7, 8, 9, 10}
  <2>1. Tasks(c)[t] \in MadeDirs
    BY <1>4, DirAt
  <2> QED BY <1>4, <2>1, TaskFields DEF MadeDirs, Copies
<1>5. CASE t \in {11, 12}
  <2>1. Tasks(c)[11] = Kernel[1] /\ Tasks(c)[12] = Kernel[2]
    BY TasksAre
  <2> QED BY <1>5, <2>1 DEF Kernel, Copy, Copies
<1>6. CASE t \in {13, 14, 15, 16}
  BY <1>6, ConfigAt DEF Copies
<1>7. CASE t \in {17, 18, 19, 20}
  <2>1. Tasks(c)[17] = Drivers[1] /\ Tasks(c)[18] = Drivers[2] /\ Tasks(c)[19] = Drivers[3]
          /\ Tasks(c)[20] = Drivers[4]
    BY TasksAre
  <2> QED BY <1>7, <2>1 DEF Drivers, MakeDir, Put, Copy, Copies
<1>8. CASE t \in {22, 23}
  <2>1. Tasks(c)[22] = UserConfig(c)[1] /\ Tasks(c)[23] = UserConfig(c)[2]
    BY TasksAre
  <2> QED BY <1>8, <2>1 DEF UserConfig, Put, Copies
<1> QED BY <1>1, <1>2, <1>3, <1>4, <1>5, <1>6, <1>7, <1>8

(* The size and the text of each file.                                     *)
LEMMA CopyAt ==
  ASSUME NEW c \in Configs, NEW t \in Copies
  PROVE  Tasks(c)[t].sectors = Uses(c, t) /\ Tasks(c)[t].text \in Texts
<1>1. CASE t = 12
  <2>1. Tasks(c)[12] = Kernel[2]
    BY TasksAre
  <2> QED BY <1>1, <2>1 DEF Kernel, Copy, Uses, Texts
<1>2. CASE t = 14
  <2>1. c.host \in Texts /\ {"passwd", "fstab", "grub"} \subseteq Texts
    BY DEF Texts
  <2>2. t \in {13, 14, 15, 16} /\ Uses(c, t) = IF t = 14 THEN HostUses(c) ELSE 1
    BY <1>2 DEF Uses
  <2>3. Tasks(c)[t].sectors = Uses(c, t)
    BY <2>2, ConfigAt
  <2>4. Tasks(c)[t].text \in {"passwd", "fstab", "grub"} \cup {c.host}
    BY <2>2, ConfigAt
  <2> QED BY <2>1, <2>3, <2>4
<1>3. CASE t \in {13, 15, 16}
  <2>1. c.host \in Texts /\ {"passwd", "fstab", "grub"} \subseteq Texts
    BY DEF Texts
  <2>2. t \in {13, 14, 15, 16} /\ Uses(c, t) = IF t = 14 THEN HostUses(c) ELSE 1
    BY <1>3 DEF Uses
  <2>3. Tasks(c)[t].sectors = Uses(c, t)
    BY <2>2, ConfigAt
  <2>4. Tasks(c)[t].text \in {"passwd", "fstab", "grub"} \cup {c.host}
    BY <2>2, ConfigAt
  <2> QED BY <2>1, <2>3, <2>4
<1>4. CASE t \in {18, 19, 20}
  <2>1. Tasks(c)[18] = Drivers[2] /\ Tasks(c)[19] = Drivers[3] /\ Tasks(c)[20] = Drivers[4]
    BY TasksAre
  <2> QED BY <1>4, <2>1 DEF Drivers, Copy, Uses, Texts
<1> QED BY <1>1, <1>2, <1>3, <1>4 DEF Copies

(* The sectors that have a fixed place.                                    *)
LEMMA PutAt ==
  ASSUME NEW c
  PROVE  /\ Tasks(c)[1].sector = FsStart
         /\ Tasks(c)[2].sector = 0 /\ Tasks(c)[2].content = <<"mbr", "table">>
         /\ Tasks(c)[3].sector = FsStart /\ Tasks(c)[3].content = <<"super">>
         /\ \A t \in {4, 5, 6, 7, 8, 9, 10, 17} :
              /\ Tasks(c)[t].sector = DirSector
              /\ \E p : Tasks(c)[t].content = <<"dir", Entry(p, 0, 0)>>
         /\ Tasks(c)[22].sector = UserSector /\ Tasks(c)[22].content = <<"user", c>>
         /\ Tasks(c)[23].sector = HostSector /\ Tasks(c)[23].content = <<"host", c.host>>
<1>1. /\ Tasks(c)[1].sector = FsStart
      /\ Tasks(c)[2].sector = 0 /\ Tasks(c)[2].content = <<"mbr", "table">>
      /\ Tasks(c)[3].sector = FsStart /\ Tasks(c)[3].content = <<"super">>
  <2>1. Tasks(c)[1] = TestDisk[1] /\ Tasks(c)[2] = Format[1] /\ Tasks(c)[3] = Format[2]
    BY TasksAre
  <2> QED BY <2>1 DEF TestDisk, Format, Put
<1>2. /\ Tasks(c)[22].sector = UserSector /\ Tasks(c)[22].content = <<"user", c>>
      /\ Tasks(c)[23].sector = HostSector /\ Tasks(c)[23].content = <<"host", c.host>>
  <2>1. Tasks(c)[22] = UserConfig(c)[1] /\ Tasks(c)[23] = UserConfig(c)[2]
    BY TasksAre
  <2> QED BY <2>1 DEF UserConfig, Put
<1>3. ASSUME NEW t \in {4, 5, 6, 7, 8, 9, 10, 17}
      PROVE  /\ Tasks(c)[t].sector = DirSector
             /\ \E p : Tasks(c)[t].content = <<"dir", Entry(p, 0, 0)>>
  BY DirAt, TaskFields DEF MadeDirs
<1> QED BY <1>1, <1>2, <1>3

(* Files follow one another, and fit into the sectors for files.           *)
LEMMA SectorUse ==
  ASSUME NEW c
  PROVE  /\ HostUses(c) \in {0, 1}
         /\ \A t \in 1 .. 23 :
              /\ Uses(c, t) \in Nat /\ Before(c, t) \in Nat
              /\ Before(c, t) + Uses(c, t) <= KernelSectors + 7
              /\ t \in Copies => Before(c, t) <= KernelSectors + 6
              /\ t \notin Copies => Uses(c, t) = 0
         /\ \A t \in 1 .. 22 : Before(c, t + 1) = Before(c, t) + Uses(c, t)
         /\ \A i, j \in 1 .. 23 : i < j => Before(c, i) + Uses(c, i) <= Before(c, j)
         /\ \A t \in 1 .. 12 : Before(c, t) = 0
<1>1. HostUses(c) \in {0, 1} /\ KernelSectors \in Nat /\ KernelSectors >= 1
  BY InstallerAssumption DEF HostUses
<1> DEFINE h == HostUses(c)
<1> HIDE DEF h
<1>2. \A t \in 1 .. 23 : Uses(c, t) \in Nat /\ Before(c, t) \in Nat
  BY <1>1 DEF Uses, Before
<1>3. \A t \in 1 .. 22 : Before(c, t + 1) = Before(c, t) + Uses(c, t)
  BY <1>1 DEF Uses, Before
<1>4. \A t \in 1 .. 23 :
        /\ Before(c, t) + Uses(c, t) <= KernelSectors + 7
        /\ t \in Copies => Before(c, t) <= KernelSectors + 6
        /\ t \notin Copies => Uses(c, t) = 0
  BY <1>1 DEF Uses, Before, Copies
<1>5. \A i, j \in 1 .. 23 : i < j => Before(c, i) + Uses(c, i) <= Before(c, j)
  <2>1. \A i, j \in 1 .. 23 : i <= j => Before(c, i) <= Before(c, j)
    BY <1>1 DEF Before
  <2> SUFFICES ASSUME NEW i \in 1 .. 23, NEW j \in 1 .. 23, i < j
               PROVE  Before(c, i) + Uses(c, i) <= Before(c, j)
    OBVIOUS
  <2>2. i \in 1 .. 22 /\ i + 1 \in 1 .. 23 /\ i + 1 <= j
    OBVIOUS
  <2> QED BY <1>3, <2>1, <2>2
<1>6. \A t \in 1 .. 12 : Before(c, t) = 0
  BY <1>1 DEF Before
<1> QED BY <1>1, <1>2, <1>3, <1>4, <1>5, <1>6

-----------------------------------------------------------------------------
(* The screen, and how far the installation is.                            *)
Finished == IF step = "complete" THEN 23 ELSE task - 1
Installing == step \in {"install", "complete"}

ScreenInv ==
  /\ running \in BOOLEAN /\ step \in Steps /\ config \in Configs \cup {NoConfig}
  /\ task \in 1 .. 23
  /\ step \in {"confirm", "install", "complete"} \/ task # 1 => config \in Configs
  /\ step \in {"install", "complete", "error"} \/ task = 1
  /\ step = "complete" => task = 23

(* A file's sectors are those behind all that were copied before it.       *)
FirstSector == FsStart + FirstFree
Place(c, t) == FirstSector + Before(c, t)

PlaceInv ==
  /\ next = FirstFree + Before(config, task) + (IF start # 0 THEN Uses(config, task) ELSE 0)
  /\ start = 0 \/ (task \in Copies /\ start = Place(config, task))
  /\ copied \in 0 .. (IF start # 0 THEN Uses(config, task) ELSE 0)

(* An entry's file is in the sectors for files, and whole.                 *)
Kept(e) ==
  /\ e.sectors \in Nat /\ e.start \in Nat
  /\ \/ e.sectors = 0
     \/ /\ FirstSector <= e.start /\ e.start + e.sectors <= FirstSector + KernelSectors + 7
        /\ \E text \in Texts : Parts(e.start, text, e.sectors)

Items == 2 .. Len(disk[DirSector])

(* Once the directory is begun anew, its files are those copied before.    *)
DirInv ==
  /\ \A i \in Items : Kept(disk[DirSector][i])
  /\ step = "install" /\ task > 4 =>
       \A i \in Items : LET e == disk[DirSector][i]
                        IN  e.sectors = 0 \/ e.start + e.sectors <= Place(config, task)

FilesInv ==
  /\ step = "install" /\ start # 0 => Parts(start, Now.text, copied)
  /\ Installing =>
       \A i \in Copies : i <= Finished =>
         Parts(Place(config, i), Tasks(config)[i].text, Uses(config, i))

SystemInv ==
  Installing =>
    /\ Finished \in 2 .. 20 => disk[0] = <<"mbr", "table">>
    /\ Finished >= 21 => disk[0] = <<"mbr", "table", "code">>
    /\ Finished >= 3 => disk[FsStart] = <<"super">>
    /\ Finished >= 22 => disk[UserSector] = <<"user", config>>
    /\ Finished >= 23 => disk[HostSector] = <<"host", config.host>>

DiskTyped == disk = [s \in Sectors |-> disk[s]] /\ \E S : disk[DirSector] \in Seq(S)

InsInv == ScreenInv /\ PlaceInv /\ DiskTyped /\ DirInv /\ FilesInv /\ SystemInv

-----------------------------------------------------------------------------
LEMMA SectorsAre ==
  /\ FirstSector \in Nat /\ KernelSectors \in Nat /\ KernelSectors >= 1
  /\ FileSectors = FirstSector .. FirstSector + KernelSectors + 6
  /\ Heads \subseteq Sectors /\ FileSectors \subseteq Sectors
  /\ \A s \in Heads : s \in Nat /\ s < FirstSector
  /\ \A s \in Sectors : s \in Nat
BY InstallerAssumption
   DEF FirstSector, FsStart, FirstFree, FileSectors, Sectors, Heads, DirSector, UserSector, HostSector

(* A file's place is among the sectors for files.                          *)
LEMMA PlaceIs ==
  ASSUME NEW c, NEW t \in 1 .. 23
  PROVE  /\ Place(c, t) \in Nat /\ FirstSector <= Place(c, t) /\ Uses(c, t) \in Nat
         /\ Place(c, t) + Uses(c, t) <= FirstSector + KernelSectors + 7
         /\ t \in Copies => Place(c, t) \in FileSectors
         /\ t \notin Copies => Uses(c, t) = 0
         /\ t <= 22 => Place(c, t + 1) = Place(c, t) + Uses(c, t)
         /\ \A i \in 1 .. 23 : i < t => Place(c, i) + Uses(c, i) <= Place(c, t)
<1>1. /\ Uses(c, t) \in Nat /\ Before(c, t) \in Nat
      /\ Before(c, t) + Uses(c, t) <= KernelSectors + 7
      /\ t \in Copies => Before(c, t) <= KernelSectors + 6
      /\ t \notin Copies => Uses(c, t) = 0
      /\ t <= 22 => Before(c, t + 1) = Before(c, t) + Uses(c, t)
  BY SectorUse
<1>2. \A i \in 1 .. 23 : /\ Uses(c, i) \in Nat /\ Before(c, i) \in Nat
                         /\ i < t => Before(c, i) + Uses(c, i) <= Before(c, t)
  BY SectorUse
<1>3. FirstSector \in Nat /\ KernelSectors \in Nat
  BY SectorsAre
<1>4. /\ Place(c, t) \in Nat /\ FirstSector <= Place(c, t)
      /\ Place(c, t) + Uses(c, t) <= FirstSector + KernelSectors + 7
  BY <1>1, <1>3 DEF Place
<1>5. t \in Copies => Place(c, t) \in FileSectors
  BY <1>1, <1>3, SectorsAre DEF Place
<1>6. t <= 22 => Place(c, t + 1) = Place(c, t) + Uses(c, t)
  BY <1>1, <1>3 DEF Place
<1>7. \A i \in 1 .. 23 : i < t => Place(c, i) + Uses(c, i) <= Place(c, t)
  BY <1>1, <1>2, <1>3 DEF Place
<1> QED BY <1>1, <1>4, <1>5, <1>6, <1>7

(* A write to another sector leaves a file whole.                          *)
LEMMA PartsKept ==
  ASSUME DiskTyped, NEW s \in Sectors, NEW x, disk' = [disk EXCEPT ![s] = x],
         NEW f \in Nat, NEW n \in Nat, NEW text, Parts(f, text, n),
         FirstSector <= f, f + n <= FirstSector + KernelSectors + 7,
         s < f \/ f + n <= s
  PROVE  Parts(f, text, n)'
<1> SUFFICES ASSUME NEW i \in 0 .. n - 1 PROVE disk'[f + i] = FilePart(text, i)
  BY DEF Parts
<1>1. f + i \in FileSectors /\ f + i # s
  BY SectorsAre
<1>2. f + i \in Sectors
  BY <1>1, SectorsAre
<1>3. disk'[f + i] = disk[f + i]
  BY <1>1, <1>2 DEF DiskTyped
<1> QED BY <1>3 DEF Parts

(* So does the file of an entry.                                           *)
LEMMA EntryKept ==
  ASSUME DiskTyped, NEW s \in Sectors, NEW x, disk' = [disk EXCEPT ![s] = x],
         NEW e, Kept(e), e.sectors = 0 \/ s < FirstSector \/ e.start + e.sectors <= s
  PROVE  Kept(e)'
<1>1. CASE e.sectors = 0
  BY <1>1 DEF Kept
<1>2. CASE e.sectors # 0
  <2>1. /\ e.sectors \in Nat /\ e.start \in Nat /\ FirstSector <= e.start
        /\ e.start + e.sectors <= FirstSector + KernelSectors + 7
    BY <1>2 DEF Kept
  <2>2. PICK text \in Texts : Parts(e.start, text, e.sectors)
    BY <1>2 DEF Kept
  <2>3. s < e.start \/ e.start + e.sectors <= s
    BY <1>2, <2>1, SectorsAre
  <2>4. Parts(e.start, text, e.sectors)'
    BY <2>1, <2>2, <2>3, PartsKept
  <2> QED BY <2>1, <2>4 DEF Kept
<1> QED BY <1>1, <1>2

(* Nothing but the screen changes.                                         *)
LEMMA DiskKept ==
  ASSUME DiskTyped, \A i \in Items : Kept(disk[DirSector][i]), UNCHANGED disk
  PROVE  DiskTyped' /\ \A i \in Items' : Kept(disk[DirSector][i])'
BY DEF DiskTyped, Items, Kept, Parts

(* The task under way.                                                     *)
LEMMA WorkingOn ==
  ASSUME InsInv, step = "install"
  PROVE  /\ config \in Configs /\ task \in 1 .. 23 /\ Finished = task - 1 /\ Installing
         /\ Now.op = IF task \in Copies THEN "copy"
                     ELSE IF task = 11 THEN "check" ELSE IF task = 21 THEN "boot" ELSE "put"
         /\ task \in Copies => Now.sectors = Uses(config, task) /\ Now.text \in Texts
<1>1. config \in Configs /\ task \in 1 .. 23 /\ Finished = task - 1 /\ Installing
  BY DEF InsInv, ScreenInv, Finished, Installing
<1> QED BY <1>1, OpAt, CopyAt DEF Now

(* The task that is done is the last, or the next one follows.             *)
LEMMA DoneMoves ==
  ASSUME InsInv, step = "install", Done, UNCHANGED <<running, config>>
  PROVE  /\ ScreenInv' /\ Installing' /\ Finished' = task /\ task' \in 1 .. 23
         /\ step' = "install" => task' = task + 1 /\ task <= 22
         /\ step' = "complete" => task' = task /\ task = 23
<1>1. config \in Configs /\ task \in 1 .. 23 /\ Len(Tasks(config)) = 23
  BY WorkingOn, TasksAre
<1>2. CASE task = 23
  BY <1>1, <1>2 DEF Done, InsInv, ScreenInv, Installing, Finished, Steps
<1>3. CASE task # 23
  BY <1>1, <1>3 DEF Done, InsInv, ScreenInv, Installing, Finished, Steps
<1> QED BY <1>2, <1>3

(* Between two copies the next one's place is behind what was taken.       *)
LEMMA PlaceMoves ==
  ASSUME InsInv, step = "install", Done, UNCHANGED <<running, config, next>>,
         start' = 0, copied' = 0, start # 0 \/ task \notin Copies
  PROVE  PlaceInv'
<1>1. /\ task \in 1 .. 23
      /\ step' = "install" => task' = task + 1 /\ task <= 22
      /\ step' = "complete" => task' = task /\ task = 23
      /\ step' \in {"install", "complete"}
  BY WorkingOn, DoneMoves DEF Installing
<1>2. next = FirstFree + Before(config, task) + Uses(config, task)
  <2>1. Uses(config, task) = 0 \/ start # 0
    BY <1>1, SectorUse
  <2>2. Before(config, task) \in Nat
    BY <1>1, SectorUse
  <2> QED BY <2>1, <2>2 DEF InsInv, PlaceInv, FirstFree
<1>3. next = FirstFree + Before(config, task')
  <2>1. CASE step' = "install"
    BY <1>1, <1>2, <2>1, SectorUse DEF FirstFree
  <2>2. CASE step' = "complete"
    <3>1. Uses(config, 23) = 0 /\ Before(config, 23) \in Nat
      BY SectorUse DEF Copies
    <3> QED BY <1>1, <1>2, <2>2, <3>1 DEF FirstFree
  <2> QED BY <1>1, <2>1, <2>2
<1>4. Before(config, task') \in Nat
  BY <1>1, SectorUse
<1> QED BY <1>3, <1>4 DEF PlaceInv, FirstFree

(* Nothing has been copied.                                                *)
Fresh == task = 1 /\ start = 0 /\ copied = 0 /\ next = FirstFree

(* Before the first task is done.                                          *)
LEMMA FirstIsFresh ==
  ASSUME InsInv, task = 1
  PROVE  Fresh
<1>1. Before(config, 1) = 0 /\ 1 \notin Copies
  BY SectorUse DEF Copies
<1>2. start = 0
  BY <1>1 DEF InsInv, PlaceInv
<1> QED BY <1>1, <1>2 DEF InsInv, PlaceInv, Fresh, FirstFree

(* A step that leaves the disk alone and begins no installation but afresh.*)
LEMMA Still ==
  ASSUME InsInv, UNCHANGED disk, ScreenInv',
         \/ UNCHANGED <<config, place>> /\ (step' = step \/ step' \notin {"install", "complete"})
         \/ Fresh' /\ step' # "complete"
  PROVE  InsInv'
<1>1. DiskTyped' /\ \A i \in Items' : Kept(disk[DirSector][i])'
  BY DiskKept DEF InsInv, DirInv
<1>2. CASE Fresh' /\ step' # "complete"
  <2>1. Before(config', 1) = 0
    BY SectorUse
  <2>2. task' = 1 /\ start' = 0 /\ copied' = 0 /\ next' = FirstFree
    BY <1>2 DEF Fresh
  <2>3. PlaceInv'
    BY <2>1, <2>2 DEF PlaceInv, FirstFree
  <2>4. Finished' = 0
    BY <1>2, <2>2 DEF Finished
  <2>5. DirInv'
    BY <1>1, <2>2 DEF DirInv
  <2>6. FilesInv'
    BY <2>2, <2>4 DEF FilesInv, Copies
  <2>7. SystemInv'
    BY <2>4 DEF SystemInv
  <2> QED BY <1>1, <2>3, <2>5, <2>6, <2>7 DEF InsInv
<1>3. CASE UNCHANGED <<config, place>> /\ (step' = step \/ step' \notin {"install", "complete"})
  <2>1. /\ UNCHANGED <<config, task, start, copied, next>>
        /\ step' = step \/ step' \notin {"install", "complete"}
    BY <1>3 DEF place
  <2>2. PlaceInv'
    BY <2>1 DEF InsInv, PlaceInv
  <2>3. DirInv'
    BY <1>1, <2>1 DEF InsInv, DirInv, Items
  <2>4. FilesInv'
    BY <2>1 DEF InsInv, FilesInv, Installing, Finished, Now, Parts
  <2>5. SystemInv'
    BY <2>1 DEF InsInv, SystemInv, Installing, Finished
  <2> QED BY <1>1, <2>2, <2>3, <2>4, <2>5 DEF InsInv
<1> QED BY <1>2, <1>3

(* An access fails.                                                        *)
LEMMA FailsKeep ==
  ASSUME InsInv, Fails
  PROVE  InsInv'
<1>1. ScreenInv'
  BY DEF Fails, InsInv, ScreenInv, place, Steps
<1> QED BY <1>1, Still DEF Fails

(* The screens before the installation, and the power switch.              *)
LEMMA ScreensKeep ==
  ASSUME InsInv, Screens \/ Restart
  PROVE  InsInv'
<1>1. CASE Start \/ Welcome \/ SelectDisk \/ LeaveError
  <2>1. /\ UNCHANGED <<config, place, disk>> /\ running' \in BOOLEAN
        /\ \/ step' = step
           \/ task = 1 /\ step' \in {"disk_selection", "user_config", "error"}
    BY <1>1 DEF Start, Welcome, SelectDisk, LeaveError, InsInv, ScreenInv
  <2>2. ScreenInv'
    BY <2>1 DEF InsInv, ScreenInv, place, Steps
  <2> QED BY <2>1, <2>2, Still
<1>2. CASE EnterUser
  <2>1. task = 1 /\ Fresh' /\ UNCHANGED disk /\ step' = "confirm"
    BY <1>2, FirstIsFresh DEF EnterUser, InsInv, ScreenInv, Fresh, place
  <2>2. ScreenInv'
    BY <1>2, <2>1 DEF EnterUser, InsInv, ScreenInv, place, Steps
  <2> QED BY <2>1, <2>2, Still
<1>3. CASE Confirm
  <2>1. /\ task = 1 /\ Fresh' /\ UNCHANGED <<config, disk>> /\ config \in Configs
        /\ step' \in {"install", "disk_selection"}
    BY <1>3, FirstIsFresh DEF Confirm, InsInv, ScreenInv, Fresh, place
  <2>2. ScreenInv'
    BY <1>3, <2>1 DEF Confirm, InsInv, ScreenInv, place, Steps
  <2> QED BY <2>1, <2>2, Still
<1>4. CASE Restart
  <2>1. Fresh' /\ UNCHANGED disk /\ step' = "welcome" /\ running' = FALSE /\ config' = NoConfig
    BY <1>4 DEF Restart, Fresh
  <2>2. config' \in Configs \cup {NoConfig} /\ running' \in BOOLEAN /\ task' = 1 /\ step' \in Steps
    BY <2>1 DEF Fresh, Steps
  <2>3. ScreenInv'
    BY <2>1, <2>2 DEF ScreenInv
  <2> QED BY <2>1, <2>3, Still
<1> QED BY <1>1, <1>2, <1>3, <1>4 DEF Screens

-----------------------------------------------------------------------------
(* A file copied before the task under way stays whole, whether a sector of*)
(* a fixed place is written or one behind that file.                       *)
LEMMA CopiedStays ==
  ASSUME InsInv, step = "install", UNCHANGED config, NEW i \in Copies, i < task,
         NEW s \in Sectors, NEW x, disk' = [disk EXCEPT ![s] = x],
         s < FirstSector \/ Place(config, task) <= s
  PROVE  Parts(Place(config, i), Tasks(config)[i].text, Uses(config, i))'
<1> DEFINE f == Place(config, i)
           n == Uses(config, i)
           text == Tasks(config)[i].text
<1>1. i \in 1 .. 23 /\ i <= Finished /\ Installing /\ task \in 1 .. 23
  BY WorkingOn DEF Copies
<1>2. Parts(f, text, n)
  BY <1>1 DEF InsInv, FilesInv
<1>3. f \in Nat /\ n \in Nat /\ FirstSector <= f /\ f + n <= FirstSector + KernelSectors + 7
  BY <1>1, PlaceIs
<1>4. f + n <= Place(config, task) /\ Place(config, task) \in Nat
  BY <1>1, PlaceIs
<1>5. DiskTyped /\ (s < f \/ f + n <= s)
  BY <1>3, <1>4, SectorsAre DEF InsInv
<1>6. UNCHANGED <<f, n, text>>
  BY DEF Place, Uses, HostUses
<1> HIDE DEF f, n, text
<1>7. Parts(f, text, n)'
  BY <1>2, <1>3, <1>5, <1>6, PartsKept
<1> QED BY <1>7 DEF f, n, text

(* What a task that copies no file leaves alone, whichever sector it writes*)
(* or none: the files copied before it.                                    *)
LEMMA FilesStay ==
  ASSUME InsInv, step = "install", task \notin Copies, Done,
         NEW s \in Heads, NEW x, disk' = [disk EXCEPT ![s] = x],
         UNCHANGED <<running, config, start, copied, next>>
  PROVE  ScreenInv' /\ PlaceInv' /\ FilesInv'
<1>1. start = 0 /\ copied = 0
  BY DEF InsInv, PlaceInv
<1>2. ScreenInv' /\ Finished' = task
  BY DoneMoves
<1>3. PlaceInv'
  BY <1>1, PlaceMoves
<1>4. ASSUME NEW i \in Copies, i <= Finished'
      PROVE  Parts(Place(config, i), Tasks(config)[i].text, Uses(config, i))'
  <2>1. i < task
    BY <1>2, <1>4, WorkingOn DEF Copies
  <2>2. s \in Sectors /\ s < FirstSector
    BY SectorsAre
  <2> QED BY <2>1, <2>2, CopiedStays
<1>5. FilesInv'
  BY <1>1, <1>4 DEF FilesInv
<1> QED BY <1>2, <1>3, <1>5

(* The directory stays, with the files of its entries.                     *)
LEMMA DirStays ==
  ASSUME InsInv, step = "install", task \notin Copies, task # 4, Done,
         NEW s \in Heads, s # DirSector, NEW x, disk' = [disk EXCEPT ![s] = x],
         UNCHANGED <<running, config, start, copied, next>>
  PROVE  DiskTyped' /\ DirInv'
<1>1. s \in Sectors /\ DirSector \in Sectors /\ s < FirstSector /\ DiskTyped
  BY SectorsAre DEF InsInv, Heads
<1>2. disk'[DirSector] = disk[DirSector]
  BY <1>1 DEF DiskTyped
<1>3. DiskTyped'
  BY <1>1, <1>2 DEF DiskTyped
<1>4. ASSUME NEW i \in Items' PROVE Kept(disk[DirSector][i])'
  <2>1. i \in Items
    BY <1>2 DEF Items
  <2> DEFINE e == disk[DirSector][i]
  <2>2. Kept(e)
    BY <2>1 DEF InsInv, DirInv
  <2>3. e' = e
    BY <1>2
  <2> HIDE DEF e
  <2>4. Kept(e)'
    BY <1>1, <2>2, <2>3, EntryKept
  <2> QED BY <2>4 DEF e
<1>5. step' = "install" /\ task' > 4 =>
        \A i \in Items' : LET e == disk'[DirSector][i]
                          IN  e.sectors = 0 \/ e.start + e.sectors <= Place(config, task)'
  <2> SUFFICES ASSUME step' = "install", task' > 4, NEW i \in Items'
               PROVE  LET e == disk'[DirSector][i]
                      IN  e.sectors = 0 \/ e.start + e.sectors <= Place(config, task)'
    OBVIOUS
  <2>1. task \in 1 .. 22 /\ task' = task + 1 /\ task > 4
    BY WorkingOn, DoneMoves
  <2>2. Place(config, task)' = Place(config', task')
    BY DEF Place, Before, HostUses
  <2>3. Place(config, task') = Place(config, task)
    BY <2>1, PlaceIs
  <2>4. i \in Items
    BY <1>2 DEF Items
  <2> QED BY <1>2, <2>1, <2>2, <2>3, <2>4 DEF InsInv, DirInv
<1> QED BY <1>3, <1>4, <1>5 DEF DirInv

(* A directory that begins anew has no file in it.                         *)
LEMMA DirBegins ==
  ASSUME InsInv, NEW p, disk' = [disk EXCEPT ![DirSector] = <<"dir", Entry(p, 0, 0)>>]
  PROVE  DiskTyped' /\ DirInv'
<1>1. DirSector \in Sectors /\ DiskTyped
  BY SectorsAre DEF InsInv, Heads
<1>2. disk'[DirSector] = <<"dir", Entry(p, 0, 0)>>
  BY <1>1 DEF DiskTyped
<1>3. DiskTyped'
  <2>1. <<"dir", Entry(p, 0, 0)>> \in Seq({"dir", Entry(p, 0, 0)})
    OBVIOUS
  <2> QED BY <1>1, <1>2, <2>1 DEF DiskTyped
<1>4. ASSUME NEW i \in Items'
      PROVE  disk'[DirSector][i].sectors = 0 /\ disk'[DirSector][i].start = 0
  <2> DEFINE n == Len(disk'[DirSector])
  <2>1. n = 2
    BY <1>2
  <2>2. i \in 2 .. n
    BY DEF Items
  <2> HIDE DEF n
  <2>3. i = 2
    BY <2>1, <2>2
  <2> QED BY <1>2, <2>3 DEF Entry
<1> QED BY <1>3, <1>4 DEF DirInv, Kept

(* What is in the other sectors by then stays there.                       *)
LEMMA SystemStays ==
  ASSUME InsInv, step = "install", task \notin {2, 3, 21, 22, 23},
         NEW s \in Sectors, s \notin {0, FsStart, UserSector, HostSector}, NEW x,
         disk' = [disk EXCEPT ![s] = x],
         UNCHANGED config, Finished' \in {task - 1, task}
  PROVE  SystemInv'
<1>1. {0, FsStart, UserSector, HostSector} \subseteq Sectors /\ DiskTyped
  BY DEF Sectors, InsInv
<1>2. UNCHANGED <<disk[0], disk[FsStart], disk[UserSector], disk[HostSector]>>
  BY <1>1 DEF DiskTyped
<1>3. Finished = task - 1 /\ task \in 1 .. 23 /\ Installing
  BY WorkingOn
<1> QED BY <1>2, <1>3 DEF InsInv, SystemInv

-----------------------------------------------------------------------------
(* installer_write_sector: a sector of a fixed place.                      *)
LEMMA PutKeeps ==
  ASSUME InsInv, PutSector
  PROVE  InsInv'
<1>1. CASE Fails
  BY <1>1, FailsKeep
<1>2. CASE /\ disk' = [disk EXCEPT ![Now.sector] = Now.content] /\ Done
           /\ UNCHANGED <<running, config, start, copied, next>>
  <2>1. step = "install" /\ Now.op = "put"
    BY DEF PutSector, Working
  <2>2. task \in 1 .. 23 /\ task \notin Copies \cup {11, 21} /\ Finished = task - 1 /\ Installing
    BY <2>1, WorkingOn
  <2>3. Finished' = task
    BY <1>2, <2>1, DoneMoves
  <2>4. DiskTyped /\ Heads \subseteq Sectors
    BY SectorsAre DEF InsInv
  <2>5. CASE task \in {4, 5, 6, 7, 8, 9, 10, 17}
    <3>1. Now.sector = DirSector /\ \E p : Now.content = <<"dir", Entry(p, 0, 0)>>
      BY <2>5, PutAt DEF Now
    <3>2. PICK p : Now.content = <<"dir", Entry(p, 0, 0)>>
      BY <3>1
    <3>3. disk' = [disk EXCEPT ![DirSector] = <<"dir", Entry(p, 0, 0)>>]
      BY <1>2, <3>1, <3>2
    <3>4. /\ DirSector \in Heads /\ DirSector \in Sectors
          /\ DirSector \notin {0, FsStart, UserSector, HostSector}
      BY DEF Heads, Sectors, DirSector, FsStart, UserSector, HostSector
    <3>5. ScreenInv' /\ PlaceInv' /\ FilesInv'
      BY <1>2, <2>1, <2>2, <3>3, <3>4, FilesStay
    <3>6. DiskTyped' /\ DirInv'
      BY <3>3, DirBegins
    <3>7. SystemInv'
      <4>1. task \notin {2, 3, 21, 22, 23}
        BY <2>5
      <4> QED BY <1>2, <2>1, <2>3, <3>3, <3>4, <4>1, SystemStays
    <3> QED BY <3>5, <3>6, <3>7 DEF InsInv
  <2>6. CASE task \in {1, 2, 3, 22, 23}
    <3> DEFINE s == Now.sector
               x == Now.content
    <3>1. /\ task = 1 => s = FsStart
          /\ task = 2 => s = 0 /\ x = <<"mbr", "table">>
          /\ task = 3 => s = FsStart /\ x = <<"super">>
          /\ task = 22 => s = UserSector /\ x = <<"user", config>>
          /\ task = 23 => s = HostSector /\ x = <<"host", config.host>>
      BY PutAt DEF Now
    <3>2. disk' = [disk EXCEPT ![s] = x]
      BY <1>2
    <3> HIDE DEF s, x
    <3>3. s \in Heads /\ s # DirSector /\ task # 4
      BY <2>6, <3>1 DEF Heads, DirSector, FsStart, UserSector, HostSector
    <3>4. ScreenInv' /\ PlaceInv' /\ FilesInv'
      BY <1>2, <2>1, <2>2, <3>2, <3>3, FilesStay
    <3>5. DiskTyped' /\ DirInv'
      BY <1>2, <2>1, <2>2, <2>6, <3>2, <3>3, DirStays
    <3>6. \A h \in Heads : disk'[h] = IF h = s THEN x ELSE disk[h]
      BY <2>4, <3>2 DEF DiskTyped
    <3>7. /\ disk'[0] = IF task = 2 THEN <<"mbr", "table">> ELSE disk[0]
          /\ disk'[FsStart] = IF task = 1 THEN x ELSE IF task = 3 THEN <<"super">>
                              ELSE disk[FsStart]
          /\ disk'[UserSector] = IF task = 22 THEN <<"user", config>> ELSE disk[UserSector]
          /\ disk'[HostSector] = IF task = 23 THEN <<"host", config.host>> ELSE disk[HostSector]
      BY <2>6, <3>1, <3>6 DEF Heads, FsStart, UserSector, HostSector
    <3>8. SystemInv'
      BY <1>2, <2>2, <2>3, <2>6, <3>7 DEF InsInv, SystemInv
    <3> QED BY <3>4, <3>5, <3>8 DEF InsInv
  <2> QED BY <2>2, <2>5, <2>6 DEF Copies
<1> QED BY <1>1, <1>2 DEF PutSector

(* The check of the kernel's size writes nothing.                          *)
LEMMA CheckKeeps ==
  ASSUME InsInv, CheckKernel
  PROVE  InsInv'
<1>1. CASE Fails
  BY <1>1, FailsKeep
<1>2. CASE Done /\ UNCHANGED <<running, config, start, copied, next, disk>>
  <2>1. step = "install" /\ task = 11 /\ task \notin Copies
    BY WorkingOn DEF CheckKernel, Working, Copies
  <2>2. /\ 0 \in Heads /\ 0 # DirSector /\ 0 \in Sectors /\ DirSector \in Sectors
        /\ DirSector \notin {0, FsStart, UserSector, HostSector}
    BY DEF Heads, Sectors, DirSector, FsStart, UserSector, HostSector
  <2>3. disk' = [disk EXCEPT ![0] = disk[0]] /\ disk' = [disk EXCEPT ![DirSector] = disk[DirSector]]
    BY <1>2, <2>2 DEF InsInv, DiskTyped
  <2>4. ScreenInv' /\ PlaceInv' /\ FilesInv'
    BY <1>2, <2>1, <2>2, <2>3, FilesStay
  <2>5. DiskTyped' /\ DirInv'
    <3>1. task # 4
      BY <2>1
    <3> QED BY <1>2, <2>1, <2>2, <2>3, <3>1, DirStays
  <2>6. Finished' = task
    BY <1>2, <2>1, DoneMoves
  <2>7. SystemInv'
    <3>1. task \notin {2, 3, 21, 22, 23}
      BY <2>1
    <3> QED BY <1>2, <2>1, <2>2, <2>3, <2>6, <3>1, SystemStays
  <2> QED BY <2>4, <2>5, <2>7 DEF InsInv
<1> QED BY <1>1, <1>2 DEF CheckKernel

(* installer_install_grub puts the boot code beside the partition table.   *)
LEMMA BootKeeps ==
  ASSUME InsInv, InstallBoot
  PROVE  InsInv'
<1>1. CASE Fails
  BY <1>1, FailsKeep
<1>2. CASE /\ disk' = [disk EXCEPT ![0] = Append(@, "code")] /\ Done
           /\ UNCHANGED <<running, config, start, copied, next>>
  <2>1. step = "install" /\ task = 21 /\ task \notin Copies /\ Finished = 20 /\ Installing
    BY WorkingOn DEF InstallBoot, Working, Copies
  <2>2. 0 \in Heads /\ 0 # DirSector /\ Heads \subseteq Sectors /\ DiskTyped
    BY SectorsAre DEF InsInv, Heads, DirSector, FsStart
  <2>3. disk' = [disk EXCEPT ![0] = Append(disk[0], "code")]
    BY <1>2
  <2>4. ScreenInv' /\ PlaceInv' /\ FilesInv'
    BY <1>2, <2>1, <2>2, <2>3, FilesStay
  <2>5. DiskTyped' /\ DirInv'
    <3>1. task # 4
      BY <2>1
    <3> QED BY <1>2, <2>1, <2>2, <2>3, <3>1, DirStays
  <2>6. Finished' = 21
    BY <1>2, <2>1, DoneMoves
  <2>7. disk[0] = <<"mbr", "table">> /\ disk[FsStart] = <<"super">>
    BY <2>1 DEF InsInv, SystemInv
  <2>8. disk'[0] = <<"mbr", "table", "code">> /\ disk'[FsStart] = <<"super">>
    <3>1. FsStart # 0 /\ 0 \in Sectors /\ FsStart \in Sectors
      BY DEF Sectors, FsStart
    <3>2. Append(<<"mbr", "table">>, "code") = <<"mbr", "table", "code">>
      BY AppendThird
    <3> QED BY <2>2, <2>3, <2>7, <3>1, <3>2 DEF DiskTyped
  <2>9. SystemInv'
    BY <2>6, <2>8 DEF SystemInv
  <2> QED BY <2>4, <2>5, <2>9 DEF InsInv
<1> QED BY <1>1, <1>2 DEF InstallBoot

-----------------------------------------------------------------------------
(* Where the task's file goes, while it is copied.                         *)
LEMMA Copying ==
  ASSUME InsInv, Working("copy")
  PROVE  /\ step = "install" /\ task \in Copies /\ task \in 1 .. 22 /\ task > 4
         /\ task \notin {2, 3, 21, 22, 23} /\ Finished = task - 1 /\ Installing
         /\ Now = Tasks(config)[task] /\ Now.sectors = Uses(config, task) /\ Now.text \in Texts
         /\ start # 0 => /\ start = Place(config, task) /\ start \in Nat
                         /\ Parts(start, Now.text, copied) /\ copied \in 0 .. Now.sectors
         /\ FirstSector <= Place(config, task) /\ Place(config, task) \in Nat
         /\ Uses(config, task) \in Nat
         /\ Place(config, task) + Uses(config, task) <= FirstSector + KernelSectors + 7
<1>1. step = "install" /\ Now.op = "copy"
  BY DEF Working
<1>2. /\ task \in 1 .. 23 /\ task \in Copies /\ Finished = task - 1 /\ Installing
      /\ Now.sectors = Uses(config, task) /\ Now.text \in Texts
  BY <1>1, WorkingOn
<1>3. task \in 1 .. 22 /\ task > 4 /\ task \notin {2, 3, 21, 22, 23}
  BY <1>2 DEF Copies
<1>4. /\ FirstSector <= Place(config, task) /\ Place(config, task) \in Nat
      /\ Uses(config, task) \in Nat
      /\ Place(config, task) + Uses(config, task) <= FirstSector + KernelSectors + 7
  BY <1>2, PlaceIs
<1>5. ASSUME start # 0
      PROVE  /\ start = Place(config, task) /\ start \in Nat
             /\ Parts(start, Now.text, copied) /\ copied \in 0 .. Now.sectors
  BY <1>1, <1>2, <1>4, <1>5 DEF InsInv, PlaceInv, FilesInv
<1> QED BY <1>1, <1>2, <1>3, <1>4, <1>5 DEF Now

(* copy_file_to_disk gives the file the sectors from next_free_sector on.  *)
LEMMA BeginKeeps ==
  ASSUME InsInv, CopyBegin
  PROVE  InsInv'
<1>1. /\ Working("copy") /\ start = 0 /\ start' = FsStart + next /\ copied' = 0
      /\ next' = next + Now.sectors /\ UNCHANGED <<running, step, config, task, disk>>
  BY DEF CopyBegin
<1>2. /\ task \in Copies /\ Now.sectors = Uses(config, task) /\ Uses(config, task) \in Nat
      /\ FirstSector <= Place(config, task) /\ Place(config, task) \in Nat /\ task \in 1 .. 23
  BY <1>1, Copying
<1>3. Before(config, task) \in Nat /\ FirstSector \in Nat
  BY <1>2, SectorUse, SectorsAre
<1>4. next = FirstFree + Before(config, task)
  BY <1>1, <1>3 DEF InsInv, PlaceInv, FirstFree
<1>5. start' = Place(config, task) /\ start' # 0
  BY <1>1, <1>2, <1>3, <1>4 DEF Place, FirstSector, FsStart, FirstFree
<1>6. next' = FirstFree + Before(config, task) + Uses(config, task)
  BY <1>1, <1>2, <1>4
<1>7. Place(config, task)' = Place(config, task) /\ Before(config, task)' = Before(config, task)
        /\ Uses(config, task)' = Uses(config, task)
  BY <1>1 DEF Place, Before, Uses, HostUses
<1>8. PlaceInv'
  BY <1>1, <1>2, <1>5, <1>6, <1>7 DEF PlaceInv
<1>9. DiskTyped' /\ \A i \in Items' : Kept(disk[DirSector][i])'
  BY <1>1, DiskKept DEF InsInv, DirInv
<1>10. DirInv'
  BY <1>1, <1>7, <1>9 DEF InsInv, DirInv, Items
<1>11. FilesInv'
  <2>1. Parts(start, Now.text, copied)'
    BY <1>1 DEF Parts
  <2>2. UNCHANGED <<Installing, Finished>>
    BY <1>1 DEF Installing, Finished
  <2> QED BY <1>1, <2>1, <2>2 DEF InsInv, FilesInv, Parts
<1>12. ScreenInv' /\ SystemInv'
  BY <1>1 DEF InsInv, ScreenInv, SystemInv, Installing, Finished
<1> QED BY <1>8, <1>9, <1>10, <1>11, <1>12 DEF InsInv

(* A sector of the file is written, behind every other file.               *)
LEMMA SectorKeeps ==
  ASSUME InsInv, CopySector
  PROVE  InsInv'
<1>1. CASE Fails
  BY <1>1, FailsKeep
<1>2. CASE /\ disk' = [disk EXCEPT ![start + copied] = FilePart(Now.text, copied)]
           /\ copied' = copied + 1
           /\ UNCHANGED <<running, step, config, task, start, next>>
  <2> DEFINE s == start + copied
             x == FilePart(Now.text, copied)
  <2>1. Working("copy") /\ start # 0 /\ copied < Now.sectors /\ step = "install"
    BY DEF CopySector, Working
  <2>2. /\ task \in Copies /\ task > 4 /\ task \notin {2, 3, 21, 22, 23} /\ Finished = task - 1
        /\ Now.sectors = Uses(config, task) /\ start = Place(config, task) /\ start \in Nat
        /\ Parts(start, Now.text, copied) /\ copied \in 0 .. Now.sectors
        /\ FirstSector <= start /\ Uses(config, task) \in Nat
        /\ start + Uses(config, task) <= FirstSector + KernelSectors + 7
    BY <2>1, Copying
  <2>3. /\ s \in FileSectors /\ s \in Sectors /\ s \in Nat /\ FirstSector <= s /\ start <= s
        /\ DirSector \in Sectors /\ DirSector # s /\ DiskTyped
        /\ s \notin {0, FsStart, UserSector, HostSector}
    <3>1. s \in FileSectors /\ s \in Nat /\ FirstSector <= s /\ start <= s
      BY <2>1, <2>2, SectorsAre
    <3>2. \A h \in Heads : h # s
      BY <3>1, SectorsAre
    <3>3. s \in Sectors /\ DirSector \in Sectors /\ DiskTyped
      BY <3>1, SectorsAre DEF InsInv, Heads
    <3> HIDE DEF s
    <3> QED BY <3>1, <3>2, <3>3 DEF Heads
  <2>4. disk' = [disk EXCEPT ![s] = x]
    BY <1>2
  <2>5. Now' = Now /\ Place(config, task)' = Place(config, task) /\ Uses(config, task)' = Uses(config, task)
          /\ Before(config, task)' = Before(config, task) /\ Finished' = Finished
    BY <1>2 DEF Now, Place, Uses, Before, HostUses, Finished
  <2>6. Parts(start, Now.text, copied)'
    <3> SUFFICES ASSUME NEW i \in 0 .. copied' - 1 PROVE disk'[start + i] = FilePart(Now.text, i)
      BY <1>2, <2>5 DEF Parts
    <3>1. CASE i = copied
      BY <2>3, <2>4, <3>1 DEF DiskTyped
    <3>2. CASE i # copied
      <4>1. i \in 0 .. copied - 1 /\ start + i # s
        BY <1>2, <2>2, <3>2
      <4>2. start + i \in FileSectors
        <5>1. start + i \in Nat /\ FirstSector <= start + i /\ start + i <= s
          <6>1. copied \in Nat /\ start \in Nat /\ FirstSector <= start /\ FirstSector \in Nat
            BY <2>2, SectorsAre
          <6> QED BY <4>1, <6>1
        <5> HIDE DEF s
        <5> QED BY <2>3, <5>1, SectorsAre
      <4>3. disk'[start + i] = disk[start + i]
        BY <2>3, <2>4, <4>1, <4>2, SectorsAre DEF DiskTyped
      <4> QED BY <2>2, <4>1, <4>3 DEF Parts
    <3> QED BY <3>1, <3>2
  <2> HIDE DEF s, x
  <2>7. FilesInv'
    <3>1. ASSUME NEW i \in Copies, i <= Finished'
          PROVE  Parts(Place(config, i), Tasks(config)[i].text, Uses(config, i))'
      <4>1. i < task
        BY <2>2, <2>5, <3>1, Copying, <2>1 DEF Copies
      <4> QED BY <1>2, <2>1, <2>2, <2>3, <2>4, <4>1, CopiedStays
    <3> QED BY <2>6, <3>1 DEF FilesInv
  <2>8. disk'[DirSector] = disk[DirSector]
    BY <2>3, <2>4 DEF DiskTyped
  <2>9. DiskTyped'
    BY <2>3, <2>4, <2>8 DEF DiskTyped
  <2>10. ASSUME NEW i \in Items' PROVE Kept(disk[DirSector][i])'
    <3> DEFINE e == disk[DirSector][i]
    <3>1. i \in Items
      BY <2>8 DEF Items
    <3>2. Kept(e) /\ (e.sectors = 0 \/ e.start + e.sectors <= Place(config, task))
      BY <2>1, <2>2, <3>1 DEF InsInv, DirInv
    <3>3. e' = e
      BY <2>8
    <3> HIDE DEF e
    <3>4. e.sectors = 0 \/ e.start + e.sectors <= s
      BY <2>2, <2>3, <3>2 DEF Kept
    <3>5. Kept(e)'
      BY <2>3, <2>4, <3>2, <3>3, <3>4, EntryKept
    <3> QED BY <3>5 DEF e
  <2>11. DirInv'
    BY <1>2, <2>5, <2>8, <2>10 DEF InsInv, DirInv, Items
  <2>12. SystemInv'
    BY <1>2, <2>1, <2>2, <2>3, <2>4, <2>5, SystemStays
  <2>13. PlaceInv'
    BY <1>2, <2>1, <2>2, <2>5 DEF InsInv, PlaceInv
  <2>14. ScreenInv'
    BY <1>2 DEF InsInv, ScreenInv
  <2> QED BY <2>7, <2>9, <2>11, <2>12, <2>13, <2>14 DEF InsInv
<1> QED BY <1>1, <1>2 DEF CopySector

(* The directory gets the entry of a file that is whole.                   *)
LEMMA EnterKeeps ==
  ASSUME InsInv, CopyEnter
  PROVE  InsInv'
<1>1. CASE Fails
  BY <1>1, FailsKeep
<1>2. CASE /\ disk' = [disk EXCEPT ![DirSector] = Append(@, Entry(Now.path, start, Now.sectors))]
           /\ start' = 0 /\ copied' = 0 /\ Done
           /\ UNCHANGED <<running, config, next>>
  <2>1. Working("copy") /\ start # 0 /\ copied = Now.sectors /\ step = "install"
    BY DEF CopyEnter, Working
  <2>2. PICK dir, path, text, f, n :
          dir = disk[DirSector] /\ path = Now.path /\ text = Now.text /\ f = start /\ n = Now.sectors
    OBVIOUS
  <2> DEFINE e == Entry(path, f, n)
  <2>3. /\ task \in Copies /\ task \in 1 .. 22 /\ task > 4 /\ task \notin {2, 3, 21, 22, 23}
        /\ Finished = task - 1 /\ text = Tasks(config)[task].text
        /\ n = Uses(config, task) /\ f = Place(config, task) /\ text \in Texts
        /\ Parts(f, text, n) /\ f \in Nat /\ FirstSector <= f /\ n \in Nat
        /\ f + n <= FirstSector + KernelSectors + 7
    BY <2>1, <2>2, Copying
  <2>4. /\ DirSector \in Sectors /\ DirSector < FirstSector /\ DirSector \in Nat /\ DiskTyped
        /\ DirSector \notin {0, FsStart, UserSector, HostSector} /\ FirstSector \in Nat
    <3>1. DirSector \notin {0, FsStart, UserSector, HostSector} /\ DirSector \in Heads
      BY DEF Heads, DirSector, FsStart, UserSector, HostSector
    <3> QED BY <3>1, SectorsAre DEF InsInv
  <2>5. e.start = f /\ e.sectors = n
    BY DEF Entry
  <2>6. disk' = [disk EXCEPT ![DirSector] = Append(dir, e)]
    BY <1>2, <2>2
  <2> HIDE DEF e
  <2>7. PICK S : dir \in Seq(S)
    BY <2>2, <2>4 DEF DiskTyped
  <2>8. /\ Append(dir, e) \in Seq(S \cup {e}) /\ Len(Append(dir, e)) = Len(dir) + 1
        /\ \A i \in 1 .. Len(dir) : Append(dir, e)[i] = dir[i]
        /\ Append(dir, e)[Len(dir) + 1] = e /\ Len(dir) \in Nat
    <3>1. dir \in Seq(S \cup {e}) /\ e \in S \cup {e}
      BY <2>7
    <3> QED BY <3>1, AppendProperties
  <2>9. disk'[DirSector] = Append(dir, e)
    BY <2>4, <2>6 DEF DiskTyped
  <2>10. DiskTyped'
    BY <2>4, <2>6, <2>8, <2>9 DEF DiskTyped
  <2>11. /\ ScreenInv' /\ Finished' = task /\ PlaceInv'
         /\ step' = "install" => task' = task + 1
    BY <1>2, <2>1, DoneMoves, PlaceMoves
  <2>12. Parts(f, text, n)'
    <3>1. DirSector < f
      BY <2>3, <2>4
    <3> QED BY <2>3, <2>4, <2>6, <3>1, PartsKept
  <2>13. Kept(e)'
    BY <2>3, <2>5, <2>12 DEF Kept
  <2>14. ASSUME NEW i \in Items'
         PROVE  (i \in Items /\ disk'[DirSector][i] = dir[i]) \/ disk'[DirSector][i] = e
    <3>1. i \in 2 .. Len(dir) + 1
      BY <2>8, <2>9 DEF Items
    <3>2. CASE i = Len(dir) + 1
      BY <2>8, <2>9, <3>2
    <3>3. CASE i # Len(dir) + 1
      <4>1. i \in 2 .. Len(dir) /\ i \in 1 .. Len(dir)
        BY <2>8, <3>1, <3>3
      <4> QED BY <2>2, <2>8, <2>9, <4>1 DEF Items
    <3> QED BY <3>2, <3>3
  <2>15. ASSUME NEW i \in Items' PROVE Kept(disk[DirSector][i])'
    <3>1. PICK d : d = disk'[DirSector][i]
      OBVIOUS
    <3>2. CASE i \in Items /\ d = dir[i]
      <4>1. Kept(d)
        BY <2>2, <3>2 DEF InsInv, DirInv
      <4>2. Kept(d)'
        BY <2>4, <2>6, <4>1, EntryKept
      <4> QED BY <3>1, <4>2
    <3>3. CASE d = e
      BY <2>13, <3>1, <3>3
    <3> QED BY <2>14, <3>1, <3>2, <3>3
  <2>16. step' = "install" /\ task' > 4 =>
           \A i \in Items' : LET d == disk'[DirSector][i]
                             IN  d.sectors = 0 \/ d.start + d.sectors <= Place(config, task)'
    <3> SUFFICES ASSUME step' = "install", NEW i \in Items'
                 PROVE  LET d == disk'[DirSector][i]
                        IN  d.sectors = 0 \/ d.start + d.sectors <= Place(config, task)'
      OBVIOUS
    <3>1. Place(config, task)' = Place(config, task + 1)
      BY <1>2, <2>11 DEF Place, Before, HostUses
    <3>2. Place(config, task + 1) = f + n
      BY <2>3, PlaceIs
    <3>3. PICK d : d = disk'[DirSector][i]
      OBVIOUS
    <3>4. CASE i \in Items /\ d = dir[i]
      <4>1. /\ d.sectors = 0 \/ d.start + d.sectors <= f
            /\ d.sectors \in Nat /\ d.start \in Nat
        BY <2>1, <2>2, <2>3, <3>4 DEF InsInv, DirInv, Kept
      <4> QED BY <2>3, <3>1, <3>2, <3>3, <4>1
    <3>5. CASE d = e
      BY <2>3, <2>5, <3>1, <3>2, <3>3, <3>5
    <3> QED BY <2>14, <3>3, <3>4, <3>5
  <2>17. DirInv'
    BY <2>15, <2>16 DEF DirInv
  <2>18. SystemInv'
    BY <1>2, <2>1, <2>3, <2>4, <2>6, <2>11, SystemStays
  <2>19. ASSUME NEW i \in Copies, i <= Finished'
         PROVE  Parts(Place(config, i), Tasks(config)[i].text, Uses(config, i))'
    <3>1. CASE i = task
      <4>1. f = Place(config', i) /\ text = Tasks(config')[i].text /\ n = Uses(config', i)
        BY <1>2, <2>3, <3>1
      <4> QED BY <2>12, <4>1
    <3>2. CASE i # task
      <4>1. i < task
        BY <2>3, <2>11, <2>19, <3>2 DEF Copies
      <4> QED BY <1>2, <2>1, <2>4, <2>6, <4>1, CopiedStays
    <3> QED BY <3>1, <3>2
  <2>20. FilesInv'
    BY <1>2, <2>19 DEF FilesInv
  <2> QED BY <2>10, <2>11, <2>17, <2>18, <2>20 DEF InsInv
<1> QED BY <1>1, <1>2 DEF CopyEnter

-----------------------------------------------------------------------------
(* The invariant holds of a disk with anything else on it.                 *)
LEMMA InsInvStarts ==
  ASSUME InsInit
  PROVE  InsInv
<1>1. DirSector \in Sectors
  BY DEF Sectors
<1>2. disk[DirSector] = Other /\ Other \in Seq({"other"}) /\ Len(Other) = 1
  BY <1>1 DEF InsInit, Other
<1>3. DiskTyped
  BY <1>2 DEF InsInit, DiskTyped
<1>4. Items = {}
  BY <1>2 DEF Items
<1>5. DirInv
  BY <1>4 DEF DirInv
<1>6. config \in Configs \cup {NoConfig} /\ running \in BOOLEAN /\ task = 1 /\ step = "welcome"
      /\ start = 0 /\ copied = 0 /\ next = FirstFree
  BY DEF InsInit
<1>7. ScreenInv
  BY <1>6 DEF ScreenInv, Steps
<1>8. Before(config, 1) = 0
  BY SectorUse
<1>9. PlaceInv
  BY <1>6, <1>8 DEF PlaceInv, FirstFree
<1>10. FilesInv /\ SystemInv
  BY <1>6 DEF FilesInv, SystemInv, Installing
<1> QED BY <1>3, <1>5, <1>7, <1>9, <1>10 DEF InsInv

LEMMA InsInvKept ==
  ASSUME InsInv, [InsNext]_insVars
  PROVE  InsInv'
<1>1. CASE InstallStep
  BY <1>1, PutKeeps, CheckKeeps, BeginKeeps, SectorKeeps, EnterKeeps, BootKeeps DEF InstallStep
<1>2. CASE Screens \/ Restart
  BY <1>2, ScreensKeep
<1>3. CASE UNCHANGED insVars
  <2>1. UNCHANGED <<running, step, config, place, disk>>
    BY <1>3 DEF insVars
  <2>2. ScreenInv'
    BY <2>1 DEF InsInv, ScreenInv, place
  <2> QED BY <2>1, <2>2, Still
<1> QED BY <1>1, <1>2, <1>3 DEF InsNext

LEMMA InsInvHolds == InsSpec => []InsInv
<1>1. InsInit => InsInv
  BY InsInvStarts
<1>2. InsInv /\ [InsNext]_insVars => InsInv'
  BY InsInvKept
<1> QED BY <1>1, <1>2, PTL DEF InsSpec

(* The wizard's variables have their types: next_free_sector stays within  *)
(* the sectors that the files of one installation take.                    *)
THEOREM InstallerTypeCorrect == InsSpec => []InsTypeOK
<1>1. InsInv => InsTypeOK
  <2> SUFFICES ASSUME InsInv PROVE InsTypeOK
    OBVIOUS
  <2>1. /\ running \in BOOLEAN /\ step \in Steps /\ config \in Configs \cup {NoConfig}
        /\ task \in 1 .. 23 /\ Len(Tasks(config)) = 23
    BY TasksAre DEF InsInv, ScreenInv
  <2>2. /\ Uses(config, task) \in Nat /\ Before(config, task) \in Nat
        /\ Before(config, task) + Uses(config, task) <= KernelSectors + 7
        /\ KernelSectors \in Nat
    BY <2>1, SectorUse, SectorsAre
  <2>3. start = 0 \/ (task \in Copies /\ start = Place(config, task))
    BY DEF InsInv, PlaceInv
  <2>4. start \in FileSectors \cup {0}
    BY <2>1, <2>3, PlaceIs
  <2>5. next \in FirstFree .. FirstFree + KernelSectors + 7
    BY <2>2 DEF InsInv, PlaceInv, FirstFree
  <2>6. copied \in 0 .. (IF Now.op = "copy" THEN Now.sectors ELSE KernelSectors)
    <3>1. CASE start = 0
      <4>1. copied = 0
        BY <3>1 DEF InsInv, PlaceInv
      <4>2. Now.op = "copy" => Now.sectors \in Nat
        <5> SUFFICES ASSUME Now.op = "copy" PROVE Now.sectors \in Nat
          OBVIOUS
        <5>1. task \in Copies
          BY <2>1, OpAt DEF Now
        <5>2. config \in Configs
          BY <5>1 DEF InsInv, ScreenInv, Copies
        <5> QED BY <2>2, <5>1, <5>2, CopyAt DEF Now
      <4> QED BY <2>2, <4>1, <4>2
    <3>2. CASE start # 0
      <4>1. task \in Copies /\ copied \in 0 .. Uses(config, task)
        BY <2>3, <3>2 DEF InsInv, PlaceInv
      <4>2. config \in Configs
        BY <4>1 DEF InsInv, ScreenInv, Copies
      <4>3. Now.op = "copy" /\ Now.sectors = Uses(config, task)
        BY <2>1, <4>1, <4>2, OpAt, CopyAt DEF Now
      <4> QED BY <4>1, <4>3
    <3> QED BY <3>1, <3>2
  <2>7. DOMAIN disk = Sectors
    BY DEF InsInv, DiskTyped
  <2> QED BY <2>1, <2>4, <2>5, <2>6, <2>7 DEF InsTypeOK
<1> QED BY <1>1, InsInvHolds, PTL

(* Whenever the power goes or an access fails: a file with an entry in the *)
(* directory has all its sectors on the disk.                              *)
THEOREM InstallerListsStored == InsSpec => []ListedFilesStored
<1>1. InsInv => ListedFilesStored
  <2> SUFFICES ASSUME InsInv, NEW e \in Listed
               PROVE  \E text \in Texts : Parts(e.start, text, e.sectors)
    BY DEF ListedFilesStored, Texts
  <2>1. PICK i \in Items : e = disk[DirSector][i]
    BY DEF Listed, Items
  <2>2. Kept(e)
    BY <2>1 DEF InsInv, DirInv
  <2>3. CASE e.sectors = 0
    <3>1. "kernel" \in Texts
      BY DEF Texts
    <3>2. Parts(e.start, "kernel", e.sectors)
      BY <2>3 DEF Parts
    <3> QED BY <3>1, <3>2
  <2> QED BY <2>2, <2>3 DEF Kept
<1> QED BY <1>1, InsInvHolds, PTL

(* The last screen tells the truth: behind it are the boot code beside the *)
(* partition table, the filesystem, the user's name and host, and every    *)
(* file with all its sectors.                                              *)
THEOREM InstallerWhole == InsSpec => []InstalledWhole
<1>1. InsInv => InstalledWhole
  <2> SUFFICES ASSUME InsInv, step = "complete" PROVE InstalledWhole
    BY DEF InstalledWhole
  <2>1. Finished = 23 /\ Installing /\ config \in Configs
    BY DEF Finished, Installing, InsInv, ScreenInv
  <2>2. /\ disk[0] = <<"mbr", "table", "code">> /\ disk[FsStart] = <<"super">>
        /\ disk[UserSector] = <<"user", config>> /\ disk[HostSector] = <<"host", config.host>>
    BY <2>1 DEF InsInv, SystemInv
  <2>3. ASSUME NEW i \in 1 .. 23, Tasks(config)[i].op = "copy"
        PROVE  LET t == Tasks(config)[i]
               IN  \E s \in FileSectors : /\ s + t.sectors - 1 \in FileSectors \cup {s - 1}
                                          /\ Parts(s, t.text, t.sectors)
    <3> DEFINE s == Place(config, i)
               n == Uses(config, i)
    <3>1. i \in Copies /\ i <= Finished
      BY <2>1, <2>3, OpAt DEF Copies
    <3>2. Tasks(config)[i].sectors = n
      BY <2>1, <3>1, CopyAt
    <3>3. Parts(s, Tasks(config)[i].text, n)
      BY <2>1, <3>1 DEF InsInv, FilesInv
    <3>4. s \in FileSectors /\ n \in Nat /\ s \in Nat /\ s + n <= FirstSector + KernelSectors + 7
          /\ FirstSector <= s
      BY <3>1, PlaceIs
    <3> HIDE DEF s, n
    <3>5. s + n - 1 \in FileSectors \cup {s - 1}
      BY <3>4, SectorsAre
    <3> QED BY <3>2, <3>3, <3>4, <3>5
  <2>4. Len(Tasks(config)) = 23
    BY TasksAre
  <2> QED BY <2>2, <2>3, <2>4 DEF InstalledWhole
<1> QED BY <1>1, InsInvHolds, PTL
=============================================================================

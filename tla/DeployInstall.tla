--------------------------- MODULE DeployInstall ---------------------------
(***************************************************************************)
(* The task image-install: it replaces the content of a host's boot        *)
(* partition over SSH.  Several runs may install on one host, a connection *)
(* may be lost at any call, and a call fails as the host's SFTP server     *)
(* makes it fail (external): mkdir and rename refuse an existing target,   *)
(* rename a missing source, rmdir a directory that is not empty.           *)
(*                                                                         *)
(* An item of the partition is <<who put it there, its name>>.             *)
(***************************************************************************)
EXTENDS Naturals, TLAPS

CONSTANTS
  Installs,     \* the runs that install, at most once each
  Image,        \* install -> the names at the top of its root fs
  OldNames,     \* the names on the partition at the start
  MaxSeconds    \* bound: the clock that names the backups

VARIABLES
  root,         \* the partition: name -> item
  tmp,          \* tmp-deploy: name -> item, or NoDir
  backups,      \* backup-{date}: date -> (name -> item)
  now,          \* the clock, in seconds
  inst,         \* install -> [pc, date, list, todo, old]
  mixed         \* history: installs that ran while another one changed the partition

hostVars == <<root, tmp, backups>>
vars == <<hostVars, now, inst, mixed>>

NoDir == [none |-> <<"no", "directory">>]
Put(f, x, y) == [z \in DOMAIN f \cup {x} |-> IF z = x THEN y ELSE f[z]]
Drop(f, x) == [y \in DOMAIN f \ {x} |-> f[y]]
Old == [n \in OldNames |-> <<"old", n>>]
Off == [pc |-> "idle", date |-> 0, list |-> {}, todo |-> {}, old |-> <<>>]

Init ==
  /\ root = Old /\ tmp = NoDir /\ backups = <<>> /\ now = 1
  /\ inst = [i \in Installs |-> Off] /\ mixed = {}

At(i, pc) == inst[i].pc = pc
Active(i) == inst[i].pc \notin {"idle", "done", "failed"}
Goto(i, pc) == inst' = [inst EXCEPT ![i].pc = pc]
GotoWith(i, pc, todo) == inst' = [inst EXCEPT ![i] = [@ EXCEPT !.pc = pc, !.todo = todo]]
Did(i, n) == inst' = [inst EXCEPT ![i].todo = @ \ {n}]
Mixes(i) == mixed' = mixed \cup {j \in Installs \ {i} : Active(j)}

\* A call that rejects: the task throws, the run ends, nothing is undone and
\* the connection stays open.
Throws(i) == Goto(i, "failed") /\ UNCHANGED <<hostVars, now, mixed>>

ConnectionLost(i) == Active(i) /\ Throws(i)

Tick == now < MaxSeconds /\ now' = now + 1 /\ UNCHANGED <<hostVars, inst, mixed>>

\* connect and readdir; backups are not in the list: they are skipped later.
Start(i) ==
  /\ At(i, "idle")
  /\ IF tmp # NoDir THEN Throws(i)
     ELSE /\ inst' = [inst EXCEPT ![i] = [pc |-> "mount", date |-> now, list |-> DOMAIN root,
                                          todo |-> {}, old |-> root]]
          /\ UNCHANGED <<hostVars, now, mixed>>

Remount(i) == At(i, "mount") /\ Goto(i, "mktmp") /\ UNCHANGED <<hostVars, now, mixed>>

MkTmp(i) ==
  /\ At(i, "mktmp")
  /\ IF tmp # NoDir THEN Throws(i)
     ELSE /\ tmp' = <<>> /\ Mixes(i)
          /\ GotoWith(i, "upload", Image[i])
          /\ UNCHANGED <<root, backups, now>>

\* uploadDirectory, an item of the top directory at a time.
Upload(i) ==
  /\ At(i, "upload")
  /\ IF inst[i].todo = {} THEN Goto(i, "mkbackup") /\ UNCHANGED <<hostVars, mixed>>
     ELSE \E n \in inst[i].todo :
            /\ tmp' = Put(tmp, n, <<i, n>>) /\ Mixes(i)
            /\ Did(i, n)
            /\ UNCHANGED <<root, backups>>
  /\ UNCHANGED now

MkBackup(i) ==
  /\ At(i, "mkbackup")
  /\ IF inst[i].date \in DOMAIN backups THEN Throws(i)
     ELSE /\ backups' = Put(backups, inst[i].date, <<>>) /\ Mixes(i)
          /\ GotoWith(i, "save", inst[i].list)
          /\ UNCHANGED <<root, tmp, now>>

\* sftp.rename of one item: the target directory with the item, or a failure.
Renamable(from, to, n) == n \in DOMAIN from /\ n \notin DOMAIN to

SaveDropped(i) ==
  /\ At(i, "save")
  /\ IF inst[i].todo = {} THEN GotoWith(i, "place", Image[i]) /\ UNCHANGED <<hostVars, now, mixed>>
     ELSE \E n \in inst[i].todo :
            IF ~Renamable(root, backups[inst[i].date], n) THEN Throws(i)
            ELSE root' = Drop(root, n) /\ Mixes(i) /\ Did(i, n) /\ UNCHANGED <<tmp, backups, now>>

Save(i) ==
  /\ At(i, "save")
  /\ IF inst[i].todo = {} THEN GotoWith(i, "place", Image[i]) /\ UNCHANGED <<hostVars, now, mixed>>
     ELSE \E n \in inst[i].todo :
            IF ~Renamable(root, backups[inst[i].date], n) THEN Throws(i)
            ELSE /\ root' = Drop(root, n)
                 /\ backups' = [backups EXCEPT ![inst[i].date] = Put(@, n, root[n])]
                 /\ Mixes(i) /\ Did(i, n)
                 /\ UNCHANGED <<tmp, now>>

Place(i) ==
  /\ At(i, "place") /\ inst[i].todo # {}
  /\ \E n \in inst[i].todo :
       IF ~Renamable(tmp, root, n) THEN Throws(i)
       ELSE /\ tmp' = Drop(tmp, n) /\ root' = Put(root, n, tmp[n])
            /\ Mixes(i) /\ Did(i, n)
            /\ UNCHANGED <<backups, now>>

RmTmp(i) ==
  /\ At(i, "place") /\ inst[i].todo = {}
  /\ IF tmp # <<>> THEN Throws(i)
     ELSE /\ tmp' = NoDir /\ Mixes(i)
          /\ Goto(i, "reboot")
          /\ UNCHANGED <<root, backups, now>>

Reboot(i) == At(i, "reboot") /\ Goto(i, "done") /\ UNCHANGED <<hostVars, now, mixed>>

Next ==
  \/ Tick
  \/ \E i \in Installs :
       \/ Start(i) \/ Remount(i) \/ MkTmp(i) \/ Upload(i) \/ MkBackup(i)
       \/ Save(i) \/ Place(i) \/ RmTmp(i) \/ Reboot(i) \/ ConnectionLost(i)

Spec == Init /\ [][Next]_vars
-----------------------------------------------------------------------------
Items(f) == {f[n] : n \in DOMAIN f}
Everywhere == Items(root) \cup (IF tmp = NoDir THEN {} ELSE Items(tmp))
                \cup UNION {Items(backups[d]) : d \in DOMAIN backups}

TypeOK ==
  /\ DOMAIN backups \subseteq 1..MaxSeconds
  /\ \A i \in Installs : inst[i].todo \subseteq Image[i] \cup inst[i].list

\* No install loses what was on the partition, nor what an earlier install put
\* there: it is still in the root or in a backup, wherever installs failed and
\* however they overlapped.
NothingLost ==
  /\ Items(Old) \subseteq Items(root) \cup UNION {Items(backups[d]) : d \in DOMAIN backups}
  /\ \A i \in Installs : At(i, "done") => {<<i, n>> : n \in Image[i]} \subseteq Everywhere

\* At the reboot of an install that no other one mixed with, the partition is
\* exactly its image, and its backup is exactly what it found.
InstalledWhole ==
  \A i \in Installs \ mixed : At(i, "reboot") =>
    /\ root = [n \in Image[i] |-> <<i, n>>]
    /\ backups[inst[i].date] = inst[i].old

-----------------------------------------------------------------------------
(* The proof that NothingLost holds for any number of runs, any images and *)
(* any partition.                                                          *)

\* What is in the root or in a backup.
Kept == Items(root) \cup UNION {Items(backups[d]) : d \in DOMAIN backups}

\* The runs that use tmp-deploy.
Holding(i) == inst[i].pc \in {"upload", "mkbackup", "save", "place"}

Pcs == {"idle", "mount", "mktmp", "upload", "mkbackup", "save", "place", "reboot", "done", "failed"}
IsRun(r) == r = [pc |-> r.pc, date |-> r.date, list |-> r.list, todo |-> r.todo, old |-> r.old]
Recorded ==
  /\ inst = [i \in Installs |-> inst[i]]
  /\ \A i \in Installs : IsRun(inst[i]) /\ inst[i].pc \in Pcs

\* tmp-deploy belongs to one run at most, and what it holds was uploaded.
Exclusive ==
  /\ \A i, j \in Installs : Holding(i) /\ Holding(j) => i = j
  /\ (\E i \in Installs : Holding(i)) => tmp # NoDir
  /\ tmp # NoDir => \A n \in DOMAIN tmp : \E j \in Installs : tmp[n] = <<j, n>>

Staged(i, n) == n \in DOMAIN tmp /\ tmp[n] = <<i, n>>

\* Where the image of a run is, by its step.
Located ==
  \A i \in Installs :
    /\ At(i, "upload") => \A n \in Image[i] \ inst[i].todo : Staged(i, n)
    /\ inst[i].pc \in {"mkbackup", "save"} => \A n \in Image[i] : Staged(i, n)
    /\ At(i, "place") => \A n \in Image[i] : IF n \in inst[i].todo THEN Staged(i, n)
                                             ELSE <<i, n>> \in Kept
    /\ inst[i].pc \in {"reboot", "done"} => \A n \in Image[i] : <<i, n>> \in Kept
    /\ At(i, "save") => inst[i].date \in DOMAIN backups

InstallInv == Recorded /\ Exclusive /\ Located /\ Items(Old) \subseteq Kept

LEMMA ItemsPut ==
  ASSUME NEW f, NEW x, NEW y, x \notin DOMAIN f
  PROVE  Items(Put(f, x, y)) = Items(f) \cup {y}
BY DEF Items, Put

LEMMA ItemsDrop ==
  ASSUME NEW f, NEW x, x \in DOMAIN f
  PROVE  Items(f) \subseteq Items(Drop(f, x)) \cup {f[x]}
BY DEF Items, Drop

LEMMA UploadedIsDir ==
  ASSUME NEW f, \A n \in DOMAIN f : \E j \in Installs : f[n] = <<j, n>>
  PROVE  f # NoDir
<1> SUFFICES ASSUME f = NoDir PROVE FALSE
  OBVIOUS
<1>1. "none" \in DOMAIN f /\ f["none"] = <<"no", "directory">>
  BY DEF NoDir
<1>2. PICK j \in Installs : f["none"] = <<j, "none">>
  BY <1>1
<1>3. "directory" = "none"
  BY <1>1, <1>2
<1> QED BY <1>3

\* A run goes to its next step.
LEMMA Moved ==
  ASSUME Recorded, NEW i \in Installs, NEW pc \in Pcs, Goto(i, pc)
  PROVE  /\ Recorded'
         /\ \A j \in Installs : /\ inst'[j].pc = IF j = i THEN pc ELSE inst[j].pc
                                /\ inst'[j].todo = inst[j].todo /\ inst'[j].date = inst[j].date
BY DEF Recorded, IsRun, Goto

LEMMA RunWith ==
  ASSUME NEW r, IsRun(r), NEW pc, NEW todo
  PROVE  /\ [r EXCEPT !.pc = pc, !.todo = todo] =
              [pc |-> pc, date |-> r.date, list |-> r.list, todo |-> todo, old |-> r.old]
         /\ [r EXCEPT !.todo = todo] =
              [pc |-> r.pc, date |-> r.date, list |-> r.list, todo |-> todo, old |-> r.old]
<1>1. [r EXCEPT !.todo = todo] =
        [pc |-> r.pc, date |-> r.date, list |-> r.list, todo |-> todo, old |-> r.old]
  BY DEF IsRun
<1>2. [r EXCEPT !.pc = pc, !.todo = todo] =
        [pc |-> pc, date |-> r.date, list |-> r.list, todo |-> todo, old |-> r.old]
  <2>1. r \in [pc : {r.pc}, date : {r.date}, list : {r.list}, todo : {r.todo}, old : {r.old}]
    BY DEF IsRun
  <2> DEFINE x == [r EXCEPT !.pc = pc, !.todo = todo]
  <2>2. x \in [pc : {pc}, date : {r.date}, list : {r.list}, todo : {todo}, old : {r.old}]
    BY <2>1
  <2> HIDE DEF x
  <2>3. x = [pc |-> pc, date |-> r.date, list |-> r.list, todo |-> todo, old |-> r.old]
    BY <2>2
  <2> QED BY <2>3 DEF x
<1> QED BY <1>1, <1>2

LEMMA MovedWith ==
  ASSUME Recorded, NEW i \in Installs, NEW pc \in Pcs, NEW todo, GotoWith(i, pc, todo)
  PROVE  /\ Recorded'
         /\ \A j \in Installs : /\ inst'[j].pc = IF j = i THEN pc ELSE inst[j].pc
                                /\ inst'[j].todo = IF j = i THEN todo ELSE inst[j].todo
                                /\ inst'[j].date = inst[j].date
<1>1. inst' = [inst EXCEPT ![i] = [pc |-> pc, date |-> inst[i].date, list |-> inst[i].list,
                                   todo |-> todo, old |-> inst[i].old]]
  BY RunWith DEF Recorded, GotoWith
<1> QED BY <1>1 DEF Recorded, IsRun

LEMMA DoneOne ==
  ASSUME Recorded, NEW i \in Installs, NEW n, Did(i, n)
  PROVE  /\ Recorded'
         /\ \A j \in Installs : /\ inst'[j].pc = inst[j].pc
                                /\ inst'[j].todo = IF j = i THEN inst[i].todo \ {n}
                                                   ELSE inst[j].todo
                                /\ inst'[j].date = inst[j].date
<1> DEFINE rest == inst[i].todo \ {n}
           r == [inst[i] EXCEPT !.todo = rest]
<1>1. r = [pc |-> inst[i].pc, date |-> inst[i].date, list |-> inst[i].list, todo |-> rest,
           old |-> inst[i].old]
  BY RunWith DEF Recorded
<1>2. inst' = [inst EXCEPT ![i] = r]
  BY DEF Did
<1> HIDE DEF r, rest
<1>3. Recorded' /\ \A j \in Installs : inst'[j] = IF j = i THEN r ELSE inst[j]
  BY <1>1, <1>2 DEF Recorded, IsRun
<1> QED BY <1>1, <1>3 DEF rest

LEMMA InitInstall == Init => InstallInv
<1> SUFFICES ASSUME Init PROVE InstallInv
  OBVIOUS
<1> USE DEF Init, Off
<1>1. Recorded
  BY DEF Recorded, IsRun, Pcs
<1>2. Exclusive
  BY DEF Exclusive, Holding
<1>3. Located
  BY DEF Located, At
<1>4. Items(Old) \subseteq Kept
  BY DEF Kept
<1> QED BY <1>1, <1>2, <1>3, <1>4 DEF InstallInv

\* A step that leaves the host alone and after which the run holds nothing it did not hold.
LEMMA QuietStep ==
  ASSUME InstallInv, NEW i \in Installs, NEW pc \in {"mount", "mktmp", "failed", "done"},
         UNCHANGED hostVars, Recorded',
         pc = "done" => At(i, "reboot"),
         inst'[i].pc = pc,
         \A j \in Installs \ {i} : inst'[j] = inst[j]
  PROVE  InstallInv'
<1> USE DEF InstallInv, hostVars
<1>1. Kept' = Kept
  BY DEF Kept
<1>2. Exclusive'
  BY DEF Exclusive, Holding
<1>3. Located'
  BY <1>1 DEF Located, At, Staged
<1> QED BY <1>1, <1>2, <1>3

LEMMA ThrowsInv ==
  ASSUME InstallInv, NEW i \in Installs, Throws(i)
  PROVE  InstallInv'
<1>1. Goto(i, "failed") /\ UNCHANGED hostVars
  BY DEF Throws
<1>2. Recorded' /\ inst'[i].pc = "failed"
  BY <1>1, Moved DEF InstallInv, Pcs
<1>3. \A j \in Installs \ {i} : inst'[j] = inst[j]
  BY <1>1 DEF Goto, InstallInv, Recorded
<1> QED BY <1>1, <1>2, <1>3, QuietStep

LEMMA StartInv ==
  ASSUME InstallInv, NEW i \in Installs, Start(i)
  PROVE  InstallInv'
<1>1. CASE Throws(i)
  BY <1>1, ThrowsInv
<1>2. CASE ~Throws(i)
  <2> DEFINE r == [pc |-> "mount", date |-> now, list |-> DOMAIN root, todo |-> {}, old |-> root]
  <2>1. inst' = [inst EXCEPT ![i] = r] /\ UNCHANGED hostVars
    BY <1>2 DEF Start
  <2>2. IsRun(r) /\ r.pc = "mount"
    BY DEF IsRun
  <2> HIDE DEF r
  <2>3. Recorded' /\ inst'[i].pc = "mount" /\ \A j \in Installs \ {i} : inst'[j] = inst[j]
    BY <2>1, <2>2 DEF InstallInv, Recorded, Pcs
  <2> QED BY <2>1, <2>3, QuietStep
<1> QED BY <1>1, <1>2

LEMMA WalkInv ==
  ASSUME InstallInv, NEW i \in Installs, Remount(i) \/ Reboot(i)
  PROVE  InstallInv'
<1>1. PICK pc \in {"mktmp", "done"} : /\ Goto(i, pc) /\ UNCHANGED hostVars
                                      /\ pc = "done" => At(i, "reboot")
  BY DEF Remount, Reboot
<1>2. Recorded' /\ inst'[i].pc = pc
  BY <1>1, Moved DEF InstallInv, Pcs
<1>3. \A j \in Installs \ {i} : inst'[j] = inst[j]
  BY <1>1 DEF Goto, InstallInv, Recorded
<1> QED BY <1>1, <1>2, <1>3, QuietStep

LEMMA MkTmpInv ==
  ASSUME InstallInv, NEW i \in Installs, MkTmp(i)
  PROVE  InstallInv'
<1> USE DEF InstallInv
<1>1. CASE Throws(i)
  BY <1>1, ThrowsInv
<1>2. CASE ~Throws(i)
  <2>1. /\ tmp = NoDir /\ tmp' = <<>> /\ UNCHANGED <<root, backups>>
        /\ GotoWith(i, "upload", Image[i])
    BY <1>2 DEF MkTmp
  <2>2. /\ Recorded'
        /\ \A j \in Installs : /\ inst'[j].pc = IF j = i THEN "upload" ELSE inst[j].pc
                               /\ inst'[j].todo = IF j = i THEN Image[i] ELSE inst[j].todo
                               /\ inst'[j].date = inst[j].date
    BY <2>1, MovedWith DEF Pcs
  <2>3. Kept' = Kept
    BY <2>1 DEF Kept
  <2>4. \A j \in Installs : ~Holding(j)
    BY <2>1 DEF Exclusive
  <2>5. Exclusive'
    <3>1. tmp' # NoDir
      BY <2>1, UploadedIsDir
    <3> QED BY <2>1, <2>2, <2>4, <3>1 DEF Exclusive, Holding
  <2>6. Located'
    BY <2>1, <2>2, <2>3, <2>4 DEF Located, At, Staged, Holding
  <2> QED BY <2>2, <2>3, <2>5, <2>6
<1> QED BY <1>1, <1>2

LEMMA UploadInv ==
  ASSUME InstallInv, NEW i \in Installs, Upload(i)
  PROVE  InstallInv'
<1> USE DEF InstallInv
<1>1. At(i, "upload") /\ Holding(i)
  BY DEF Upload, At, Holding
<1>2. CASE inst[i].todo = {}
  <2>1. Goto(i, "mkbackup") /\ UNCHANGED hostVars
    BY <1>2 DEF Upload
  <2>2. /\ Recorded'
        /\ \A j \in Installs : /\ inst'[j].pc = IF j = i THEN "mkbackup" ELSE inst[j].pc
                               /\ inst'[j].todo = inst[j].todo /\ inst'[j].date = inst[j].date
    BY <2>1, Moved DEF Pcs
  <2>3. Kept' = Kept
    BY <2>1 DEF Kept, hostVars
  <2>4. Exclusive'
    BY <1>1, <2>1, <2>2 DEF Exclusive, Holding, hostVars
  <2>5. Located'
    BY <1>1, <1>2, <2>1, <2>2, <2>3 DEF Located, At, Staged, hostVars
  <2> QED BY <2>2, <2>3, <2>4, <2>5
<1>3. CASE inst[i].todo # {}
  <2>1. PICK n \in inst[i].todo :
          tmp' = Put(tmp, n, <<i, n>>) /\ Did(i, n) /\ UNCHANGED <<root, backups>>
    BY <1>3 DEF Upload
  <2>2. /\ Recorded'
        /\ \A j \in Installs : /\ inst'[j].pc = inst[j].pc
                               /\ inst'[j].todo = IF j = i THEN inst[i].todo \ {n}
                                                  ELSE inst[j].todo
                               /\ inst'[j].date = inst[j].date
    BY <2>1, DoneOne
  <2>3. Kept' = Kept
    BY <2>1 DEF Kept
  <2>4. tmp # NoDir /\ \A m \in DOMAIN tmp : \E j \in Installs : tmp[m] = <<j, m>>
    BY <1>1 DEF Exclusive
  <2>5. \A m \in DOMAIN tmp' : \E j \in Installs : tmp'[m] = <<j, m>>
    BY <2>1, <2>4 DEF Put
  <2>6. tmp' # NoDir
    BY <2>5, UploadedIsDir
  <2>7. Exclusive'
    BY <2>2, <2>5, <2>6 DEF Exclusive, Holding
  <2>8. \A j \in Installs : Holding(j) => j = i
    BY <1>1 DEF Exclusive
  <2>9. Located'
    BY <1>1, <2>1, <2>2, <2>3, <2>8 DEF Located, At, Staged, Holding, Put
  <2> QED BY <2>2, <2>3, <2>7, <2>9
<1> QED BY <1>2, <1>3

LEMMA MkBackupInv ==
  ASSUME InstallInv, NEW i \in Installs, MkBackup(i)
  PROVE  InstallInv'
<1> USE DEF InstallInv
<1>1. CASE Throws(i)
  BY <1>1, ThrowsInv
<1>2. CASE ~Throws(i)
  <2> DEFINE d == inst[i].date
  <2>1. /\ At(i, "mkbackup") /\ d \notin DOMAIN backups
        /\ backups' = Put(backups, d, <<>>) /\ UNCHANGED <<root, tmp>>
        /\ GotoWith(i, "save", inst[i].list)
    BY <1>2 DEF MkBackup
  <2>2. /\ Recorded'
        /\ \A j \in Installs : /\ inst'[j].pc = IF j = i THEN "save" ELSE inst[j].pc
                               /\ inst'[j].todo = IF j = i THEN inst[i].list ELSE inst[j].todo
                               /\ inst'[j].date = inst[j].date
    BY <2>1, MovedWith DEF Pcs
  <2>3. DOMAIN backups' = DOMAIN backups \cup {d} /\ \A x \in DOMAIN backups : backups'[x] = backups[x]
    BY <2>1 DEF Put
  <2>4. Kept \subseteq Kept'
    BY <2>1, <2>3 DEF Kept
  <2>5. Exclusive'
    BY <2>1, <2>2 DEF Exclusive, Holding, At
  <2>6. Located'
    BY <2>1, <2>2, <2>3, <2>4 DEF Located, At, Staged
  <2> QED BY <2>2, <2>4, <2>5, <2>6
<1> QED BY <1>1, <1>2

\* An item moves from the root to a backup.
LEMMA SavedIsKept ==
  ASSUME NEW d \in DOMAIN backups, NEW n \in DOMAIN root, n \notin DOMAIN backups[d],
         root' = Drop(root, n),
         backups' = [backups EXCEPT ![d] = Put(@, n, root[n])]
  PROVE  Kept \subseteq Kept'
<1>1. /\ DOMAIN backups' = DOMAIN backups
      /\ backups'[d] = Put(backups[d], n, root[n])
      /\ \A x \in DOMAIN backups \ {d} : backups'[x] = backups[x]
  OBVIOUS
<1>2. \A x \in DOMAIN backups : Items(backups[x]) \subseteq Items(backups'[x])
  BY <1>1, ItemsPut
<1>3. root[n] \in Items(backups'[d])
  BY <1>1, ItemsPut
<1>4. Items(root) \subseteq Items(root') \cup {root[n]}
  BY ItemsDrop
<1> QED BY <1>1, <1>2, <1>3, <1>4 DEF Kept

LEMMA SaveInv ==
  ASSUME InstallInv, NEW i \in Installs, Save(i)
  PROVE  InstallInv'
<1> USE DEF InstallInv
<1>1. At(i, "save") /\ inst[i].date \in DOMAIN backups
  BY DEF Save, Located
<1>2. CASE Throws(i)
  BY <1>2, ThrowsInv
<1>3. CASE inst[i].todo = {}
  <2>1. GotoWith(i, "place", Image[i]) /\ UNCHANGED hostVars
    BY <1>3 DEF Save
  <2>2. /\ Recorded'
        /\ \A j \in Installs : /\ inst'[j].pc = IF j = i THEN "place" ELSE inst[j].pc
                               /\ inst'[j].todo = IF j = i THEN Image[i] ELSE inst[j].todo
                               /\ inst'[j].date = inst[j].date
    BY <2>1, MovedWith DEF Pcs
  <2>3. Kept' = Kept
    BY <2>1 DEF Kept, hostVars
  <2>4. Exclusive'
    BY <1>1, <2>1, <2>2 DEF Exclusive, Holding, At, hostVars
  <2>5. Located'
    BY <1>1, <2>1, <2>2, <2>3 DEF Located, At, Staged, hostVars
  <2> QED BY <2>2, <2>3, <2>4, <2>5
<1>4. CASE inst[i].todo # {} /\ ~Throws(i)
  <2> DEFINE d == inst[i].date
  <2>1. PICK n \in inst[i].todo :
          /\ Renamable(root, backups[d], n)
          /\ root' = Drop(root, n)
          /\ backups' = [backups EXCEPT ![d] = Put(@, n, root[n])]
          /\ Did(i, n) /\ UNCHANGED tmp
    BY <1>4 DEF Save
  <2>2. /\ Recorded'
        /\ \A j \in Installs : inst'[j].pc = inst[j].pc /\ inst'[j].date = inst[j].date
        /\ \A j \in Installs \ {i} : inst'[j].todo = inst[j].todo
    BY <2>1, DoneOne
  <2>3. Kept \subseteq Kept'
    BY <1>1, <2>1, SavedIsKept DEF Renamable
  <2>4. DOMAIN backups' = DOMAIN backups
    BY <2>1
  <2>5. Exclusive'
    BY <2>1, <2>2 DEF Exclusive, Holding
  <2>6. Located'
    BY <1>1, <2>1, <2>2, <2>3, <2>4 DEF Located, At, Staged
  <2> QED BY <2>2, <2>3, <2>5, <2>6
<1> QED BY <1>2, <1>3, <1>4

LEMMA PlaceInv ==
  ASSUME InstallInv, NEW i \in Installs, Place(i)
  PROVE  InstallInv'
<1> USE DEF InstallInv
<1>1. CASE Throws(i)
  BY <1>1, ThrowsInv
<1>2. CASE ~Throws(i)
  <2>1. PICK n \in inst[i].todo :
          /\ Renamable(tmp, root, n)
          /\ tmp' = Drop(tmp, n) /\ root' = Put(root, n, tmp[n])
          /\ Did(i, n) /\ UNCHANGED backups
    BY <1>2 DEF Place
  <2>2. At(i, "place") /\ \A j \in Installs : Holding(j) => j = i
    BY DEF Place, At, Holding, Exclusive
  <2>3. /\ Recorded'
        /\ \A j \in Installs : /\ inst'[j].pc = inst[j].pc
                               /\ inst'[j].todo = IF j = i THEN inst[i].todo \ {n}
                                                  ELSE inst[j].todo
                               /\ inst'[j].date = inst[j].date
    BY <2>1, DoneOne
  <2>4. Items(root') = Items(root) \cup {tmp[n]}
    BY <2>1, ItemsPut DEF Renamable
  <2>5. Kept \subseteq Kept' /\ tmp[n] \in Kept'
    BY <2>1, <2>4 DEF Kept
  <2>6. \A m \in DOMAIN tmp' : m \in DOMAIN tmp /\ tmp'[m] = tmp[m]
    BY <2>1 DEF Drop
  <2>7. tmp # NoDir /\ \A m \in DOMAIN tmp : \E j \in Installs : tmp[m] = <<j, m>>
    BY <2>2 DEF Exclusive, Holding, At
  <2>8. tmp' # NoDir
    BY <2>6, <2>7, UploadedIsDir
  <2>9. Exclusive'
    BY <2>3, <2>6, <2>7, <2>8 DEF Exclusive, Holding
  <2>10. Located'
    BY <2>1, <2>2, <2>3, <2>5 DEF Located, At, Staged, Holding, Drop
  <2> QED BY <2>3, <2>5, <2>9, <2>10
<1> QED BY <1>1, <1>2

LEMMA RmTmpInv ==
  ASSUME InstallInv, NEW i \in Installs, RmTmp(i)
  PROVE  InstallInv'
<1> USE DEF InstallInv
<1>1. CASE Throws(i)
  BY <1>1, ThrowsInv
<1>2. CASE ~Throws(i)
  <2>1. /\ At(i, "place") /\ inst[i].todo = {}
        /\ tmp' = NoDir /\ Goto(i, "reboot") /\ UNCHANGED <<root, backups>>
    BY <1>2 DEF RmTmp
  <2>2. /\ Recorded'
        /\ \A j \in Installs : /\ inst'[j].pc = IF j = i THEN "reboot" ELSE inst[j].pc
                               /\ inst'[j].todo = inst[j].todo /\ inst'[j].date = inst[j].date
    BY <2>1, Moved DEF Pcs
  <2>3. Kept' = Kept
    BY <2>1 DEF Kept
  <2>4. \A j \in Installs \ {i} : ~Holding(j)
    BY <2>1 DEF Exclusive, Holding, At
  <2>5. Exclusive'
    BY <2>1, <2>2, <2>4 DEF Exclusive, Holding
  <2>6. Located'
    BY <2>1, <2>2, <2>3, <2>4 DEF Located, At, Staged, Holding
  <2> QED BY <2>2, <2>3, <2>5, <2>6
<1> QED BY <1>1, <1>2

\* Whatever images are installed, however installs overlap and wherever they fail, nothing that was
\* on the partition is lost, nor the image of an install that ended (tasks/image-install.ts).
THEOREM InstallsLoseNothing == Spec => []NothingLost
<1>1. Init => InstallInv
  BY InitInstall
<1>2. InstallInv /\ [Next]_vars => InstallInv'
  <2> SUFFICES ASSUME InstallInv, [Next]_vars PROVE InstallInv'
    OBVIOUS
  <2>1. CASE UNCHANGED vars \/ Tick
    BY <2>1 DEF vars, hostVars, Tick, InstallInv, Recorded, Exclusive, Located, Kept, Holding, At,
                Staged
  <2>2. CASE \E i \in Installs : ConnectionLost(i)
    BY <2>2, ThrowsInv DEF ConnectionLost
  <2> QED
    BY <2>1, <2>2, StartInv, WalkInv, MkTmpInv, UploadInv, MkBackupInv, SaveInv, PlaceInv, RmTmpInv
    DEF Next
<1>3. InstallInv => NothingLost
  BY DEF InstallInv, Located, Kept, Everywhere, NothingLost, At
<1> QED BY <1>1, <1>2, <1>3, PTL DEF Spec
=============================================================================

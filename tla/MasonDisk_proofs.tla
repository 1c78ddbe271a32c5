--------------------------- MODULE MasonDisk_proofs ---------------------------
(***************************************************************************)
(* What the lock file guarantees in MasonDisk, for any number of processes *)
(* and versions.                                                           *)
(*                                                                         *)
(* While no lock is lost, the process at work has the lock, and a process  *)
(* that is about to write the lock file has seen that there is none, if it *)
(* has looked and if no other has written it since (Alone).  While nothing *)
(* is uninstalled under it either (Apart), what is in the staging          *)
(* directory and in the package's directory is what it has put there       *)
(* (StagingOK, PackageOK).  What a process leaves behind when it dies is   *)
(* bounded by CwdOK and DirsOK, which hold always, and Owned says what is  *)
(* there if none has died.                                                 *)
(***************************************************************************)
EXTENDS MasonDisk, TLAPS

-----------------------------------------------------------------------------
(* The inductive invariant.                                                *)

(* context.cwd is set by stage() and promote_cwd(), and the error of a      *)
(* request is there from its failure to its end.                           *)
CwdOK ==
    \A p \in Procs :
        /\ pc[p] \notin {"cleanup", "unlock"} => failed[p] = "none"
        /\ pc[p] = "cleanup" /\ cwd[p] # "package" => failed[p] # "none"
        /\ pc[p] \in {"idle", "check", "write", "stage", "unlink", "remove"}
              => cwd[p] = "none"
        /\ pc[p] \in {"part1", "part2", "unlinkold", "rmold", "mkdir",
                      "rename"} => cwd[p] = "staging"
        /\ pc[p] \in {"link", "symlink", "receipt"} => cwd[p] = "package"

(* Nothing is in a directory that is not there, and the staging directory  *)
(* has no receipt.                                                         *)
DirsOK ==
    /\ ~ staging.there => staging = NoDir
    /\ ~ pkgdir.there => pkgdir = NoDir
    /\ ~ staging.receipt

(* Whoever is at work has the lock; whoever goes to work finds none that   *)
(* is held.                                                                *)
Alone ==
    \A p \in Procs :
        /\ AtWork(p) => lock = p
        /\ pc[p] = "write" /\ ~ force[p] /\ p \notin raced => lock = Nobody

(* Nobody uninstalls what another installs. *)
Apart == \A p, q \in Procs : AtWork(p) => ~ Uninstalls(q)

(* What the process at work has in the staging directory. *)
StagingOK ==
    \A p \in Procs :
        /\ pc[p] = "part1" => staging = EmptyDir
        /\ pc[p] = "part2" =>
              staging.there /\ staging.parts = {<<ver[p], 1>>}
        /\ pc[p] \in {"unlinkold", "rmold", "mkdir", "rename"} =>
              staging.there /\ Complete(staging, ver[p])

(* What it has in the package's directory. *)
PackageOK ==
    \A p \in Procs :
        /\ pc[p] = "mkdir" => pkgdir = NoDir
        /\ pc[p] = "rename" => pkgdir = EmptyDir
        /\ pc[p] \in {"link", "symlink", "receipt"} =>
              pkgdir.there /\ ~ pkgdir.receipt /\ Complete(pkgdir, ver[p])
        /\ pc[p] = "receipt" => link = Target[ver[p]]
        /\ pc[p] = "cleanup" /\ cwd[p] = "package" /\ failed[p] # "none" =>
              ~ pkgdir.receipt

(* A receipt vouches for what is in the directory. *)
Vouched ==
    pkgdir.receipt /\ ~ torn /\ (\A p \in Procs : ~ Removing(p))
        => \E v \in Versions : Complete(pkgdir, v)

(* The lock is that of a request that is under way, or that is stuck. *)
LockKept == lock # Nobody => pc[lock] \notin {"idle", "unlink", "remove"}

(* Who has to remove the staging directory, or to rename it. *)
Stages(q) == cwd[q] = "staging" /\ pc[q] \in Working \cup {"cleanup"}
StagingKept == staging.there => staging.log \/ \E q \in Procs : Stages(q)

(* Who has to remove the package's directory, or to write there. *)
Finishes(q) ==
    \/ Removing(q)
    \/ pc[q] \in {"rename", "link", "symlink", "receipt"}
    \/ /\ pc[q] = "cleanup" /\ cwd[q] = "package"
       /\ failed[q] # "none" /\ debug[q]
PackageKept ==
    pkgdir.there =>
        \/ IF pkgdir.receipt THEN LinkSeen ELSE pkgdir.log
        \/ \E q \in Procs : Finishes(q)

(* While no process has died, whatever is there either is complete or has  *)
(* a process that takes care of it.                                        *)
Owned ==
    crashes = 0 => LockKept /\ StagingKept /\ PackageKept

(* While no process has died, a link is that of the package, or is on its  *)
(* way to be, or stays of a request that was given up.                     *)
Linked ==
    crashes = 0 /\ link # NoLink =>
        \/ stray
        \/ pkgdir.receipt /\ LinkSeen /\ \A p \in Procs : ~ Removing(p)
        \/ \E p \in Procs : pc[p] = "receipt"

(* All versions link one path. *)
OnePath == \A v, w \in Versions : Target[v] = Target[w]

(* --force is not refused. *)
Forced ==
    \A p \in Procs :
        /\ force[p] => pc[p] # "check"
        /\ force[p] => failed[p] \in {"none", "gaveup"}
        /\ pc[p] = "symlink" => link = NoLink

IInv ==
    /\ TypeOK /\ CwdOK /\ DirsOK
    /\ ~ lost => Alone
    /\ Undisturbed => /\ Apart /\ StagingOK /\ PackageOK
                      /\ Vouched /\ Owned /\ Linked
                      /\ OnePath => Forced
-----------------------------------------------------------------------------
(* The steps.                                                              *)

USE OptionsAssumption, UninstallingAssumption, NobodyAssumption,
    NoLinkAssumption, MaxCrashesAssumption

LEMMA StartKeeps ==
    ASSUME IInv, NEW p \in Procs, NEW v \in Versions, NEW opts \in Options,
           Start(p, v, opts)
    PROVE  IInv'
<1> USE DEF IInv, TypeOK, Start, Goto, diskVars, deaths, optVars, past
<1>1. TypeOK'
  BY DEF Pcs, Resting, Failures
<1>2. CwdOK'
  BY DEF CwdOK
<1>3. DirsOK'
  BY DEF DirsOK
<1>a. ~ lost' => Alone'
  BY DEF Alone, AtWork, Working, CwdOK, Holds, Overwrites, Steals
<1> SUFFICES ASSUME Undisturbed'
             PROVE  /\ Apart' /\ StagingOK' /\ PackageOK'
                    /\ Vouched' /\ Owned' /\ Linked'
                    /\ OnePath => Forced'
  BY <1>a, <1>1, <1>2, <1>3
<1>4. Undisturbed /\ Alone /\ Alone' /\ Apart
  BY <1>a DEF Undisturbed
<1>5. Apart'
  BY <1>4 DEF Apart, AtWork, Working, Uninstalls, CwdOK
<1>6. StagingOK'
  BY <1>4 DEF StagingOK
<1>7. PackageOK'
  BY <1>4 DEF PackageOK
<1>8. Vouched'
  BY <1>4 DEF Vouched, Removing, Discards
<1>9. Owned'
  <2>1. crashes' = 0 => LockKept'
    BY <1>4 DEF Owned, LockKept, Working
  <2>2. crashes' = 0 => StagingKept'
    BY <1>4 DEF Owned, StagingKept, Stages, Working, CwdOK
  <2>3. crashes' = 0 => PackageKept'
    BY <1>4 DEF Owned, PackageKept, Finishes, Removing, Discards, LinkSeen,
                Executable, CwdOK
  <2> QED
    BY <2>1, <2>2, <2>3 DEF Owned
<1>10. Linked'
  BY <1>4 DEF Linked, LinkSeen, Executable, Removing, Discards
<1>11. OnePath => Forced'
  BY <1>4 DEF Forced, CwdOK
<1> QED
  BY <1>5, <1>6, <1>7, <1>8, <1>9, <1>10, <1>11

LEMMA CheckLockKeeps ==
    ASSUME IInv, NEW p \in Procs, CheckLock(p)
    PROVE  IInv'
<1> USE DEF IInv, TypeOK, CheckLock, Goto, Fail, diskVars, optVars, deaths,
            past
<1>1. TypeOK'
  BY DEF Pcs, Resting, Failures
<1>2. CwdOK'
  BY DEF CwdOK
<1>3. DirsOK'
  BY DEF DirsOK
<1>a. ~ lost' => Alone'
  BY DEF Alone, AtWork, Working, CwdOK, Holds, Overwrites, Steals
<1> SUFFICES ASSUME Undisturbed'
             PROVE  /\ Apart' /\ StagingOK' /\ PackageOK'
                    /\ Vouched' /\ Owned' /\ Linked'
                    /\ OnePath => Forced'
  BY <1>a, <1>1, <1>2, <1>3
<1>4. Undisturbed /\ Alone /\ Alone' /\ Apart
  BY <1>a DEF Undisturbed
<1>5. Apart'
  BY <1>4 DEF Apart, AtWork, Working, Uninstalls, CwdOK
<1>6. StagingOK'
  BY <1>4 DEF StagingOK
<1>7. PackageOK'
  BY <1>4 DEF PackageOK, CwdOK
<1>8. Vouched'
  BY <1>4 DEF Vouched, Removing, Discards
<1>9. Owned'
  <2>1. crashes' = 0 => LockKept'
    BY <1>4 DEF Owned, LockKept, Working
  <2>2. crashes' = 0 => StagingKept'
    BY <1>4 DEF Owned, StagingKept, Stages, Working, CwdOK
  <2>3. crashes' = 0 => PackageKept'
    BY <1>4 DEF Owned, PackageKept, Finishes, Removing, Discards, LinkSeen,
                Executable, CwdOK
  <2> QED
    BY <2>1, <2>2, <2>3 DEF Owned
<1>10. Linked'
  BY <1>4 DEF Linked, LinkSeen, Executable, Removing, Discards, CwdOK
<1>11. OnePath => Forced'
  BY <1>4 DEF Forced
<1> QED
  BY <1>5, <1>6, <1>7, <1>8, <1>9, <1>10, <1>11

(* Whoever writes the lock file overwrites none that is held. *)
LEMMA WriteLockKeeps ==
    ASSUME IInv, NEW p \in Procs, WriteLock(p)
    PROVE  IInv'
<1> USE DEF IInv, TypeOK, WriteLock, Goto, optVars, deaths, past
<1>1. TypeOK'
  BY DEF Pcs, Resting, Working
<1>2. CwdOK'
  BY DEF CwdOK
<1>3. DirsOK'
  BY DEF DirsOK
<1>a. ~ lost' => Alone'
  BY DEF Alone, AtWork, Working, CwdOK, Holds, Overwrites, Steals
<1> SUFFICES ASSUME Undisturbed'
             PROVE  /\ Apart' /\ StagingOK' /\ PackageOK'
                    /\ Vouched' /\ Owned' /\ Linked'
                    /\ OnePath => Forced'
  BY <1>a, <1>1, <1>2, <1>3
<1>4. Undisturbed /\ Alone /\ Alone' /\ Apart
  BY <1>a DEF Undisturbed
<1>5. Apart'
  BY <1>4 DEF Apart, AtWork, Working, Uninstalls, Undisturbed
<1>6. StagingOK'
  BY <1>4 DEF StagingOK
<1>7. PackageOK'
  BY <1>4 DEF PackageOK
<1>8. Vouched'
  BY <1>4 DEF Vouched, Removing, Discards
<1>9. Owned'
  <2>1. crashes' = 0 => LockKept'
    BY <1>4 DEF Owned, LockKept, Working
  <2>2. crashes' = 0 => StagingKept'
    BY <1>4 DEF Owned, StagingKept, Stages, Working, CwdOK
  <2>3. crashes' = 0 => PackageKept'
    BY <1>4 DEF Owned, PackageKept, Finishes, Removing, Discards, LinkSeen,
                Executable, CwdOK
  <2> QED
    BY <2>1, <2>2, <2>3 DEF Owned
<1>10. Linked'
  BY <1>4 DEF Linked, LinkSeen, Executable, Removing, Discards
<1>11. OnePath => Forced'
  BY <1>4 DEF Forced
<1> QED
  BY <1>5, <1>6, <1>7, <1>8, <1>9, <1>10, <1>11

LEMMA UnlockKeeps ==
    ASSUME IInv, NEW p \in Procs, Unlock(p)
    PROVE  IInv'
<1> USE DEF IInv, TypeOK, Unlock, Goto, optVars, deaths, past, End
<1>1. TypeOK'
  BY DEF Pcs, Resting, Failures
<1>2. CwdOK'
  BY DEF CwdOK
<1>3. DirsOK'
  BY DEF DirsOK
<1>a. ~ lost' => Alone'
  BY DEF Alone, AtWork, Working, CwdOK, Holds, Overwrites, Steals
<1> SUFFICES ASSUME Undisturbed'
             PROVE  /\ Apart' /\ StagingOK' /\ PackageOK'
                    /\ Vouched' /\ Owned' /\ Linked'
                    /\ OnePath => Forced'
  BY <1>a, <1>1, <1>2, <1>3
<1>4. Undisturbed /\ Alone /\ Alone' /\ Apart
  BY <1>a DEF Undisturbed
<1>5. Apart'
  BY <1>4 DEF Apart, AtWork, Working, Uninstalls, CwdOK
<1>6. StagingOK'
  BY <1>4 DEF StagingOK
<1>7. PackageOK'
  BY <1>4 DEF PackageOK
<1>8. Vouched'
  BY <1>4 DEF Vouched, Removing, Discards
<1>9. Owned'
  <2>1. crashes' = 0 => LockKept'
    BY <1>4 DEF Owned, LockKept, Working
  <2>2. crashes' = 0 => StagingKept'
    BY <1>4 DEF Owned, StagingKept, Stages, Working, CwdOK
  <2>3. crashes' = 0 => PackageKept'
    BY <1>4 DEF Owned, PackageKept, Finishes, Removing, Discards, LinkSeen,
                Executable, CwdOK
  <2> QED
    BY <2>1, <2>2, <2>3 DEF Owned
<1>10. Linked'
  BY <1>4 DEF Linked, LinkSeen, Executable, Removing, Discards
<1>11. OnePath => Forced'
  BY <1>4 DEF Forced
<1> QED
  BY <1>5, <1>6, <1>7, <1>8, <1>9, <1>10, <1>11

LEMMA StageKeeps ==
    ASSUME IInv, NEW p \in Procs, Stage(p)
    PROVE  IInv'
<1> USE DEF IInv, TypeOK, Stage, Goto, optVars, deaths, past
<1>1. TypeOK'
  BY DEF Pcs, Resting, Working, Dir, NoDir, EmptyDir
<1>2. CwdOK'
  BY DEF CwdOK
<1>3. DirsOK'
  BY DEF DirsOK, NoDir, EmptyDir
<1>a. ~ lost' => Alone'
  BY DEF Alone, AtWork, Working, CwdOK, Holds, Overwrites, Steals
<1> SUFFICES ASSUME Undisturbed'
             PROVE  /\ Apart' /\ StagingOK' /\ PackageOK'
                    /\ Vouched' /\ Owned' /\ Linked'
                    /\ OnePath => Forced'
  BY <1>a, <1>1, <1>2, <1>3
<1>4. Undisturbed /\ Alone /\ Alone' /\ Apart
  BY <1>a DEF Undisturbed
<1>5. Apart'
  BY <1>4 DEF Apart, AtWork, Working, Uninstalls, CwdOK
<1>6. StagingOK'
  BY <1>4 DEF Alone, Apart, StagingOK, Working, AtWork
<1>7. PackageOK'
  BY <1>4 DEF PackageOK
<1>8. Vouched'
  BY <1>4 DEF Vouched, Removing, Discards
<1>9. Owned'
  <2>1. crashes' = 0 => LockKept'
    BY <1>4 DEF Owned, LockKept, Working
  <2>2. crashes' = 0 => StagingKept'
    BY <1>4 DEF Owned, StagingKept, Stages, Working, CwdOK
  <2>3. crashes' = 0 => PackageKept'
    BY <1>4 DEF Owned, PackageKept, Finishes, Removing, Discards, LinkSeen,
                Executable, CwdOK
  <2> QED
    BY <2>1, <2>2, <2>3 DEF Owned
<1>10. Linked'
  BY <1>4 DEF Linked, LinkSeen, Executable, Removing, Discards
<1>11. OnePath => Forced'
  BY <1>4 DEF Forced
<1> QED
  BY <1>5, <1>6, <1>7, <1>8, <1>9, <1>10, <1>11

LEMMA BuildKeeps ==
    ASSUME IInv, NEW p \in Procs, NEW part \in {1, 2}, Build(p, part)
    PROVE  IInv'
<1> USE DEF IInv, TypeOK, Build, Goto, Fail, optVars, deaths, past
<1>1. TypeOK'
  BY DEF Pcs, Resting, Failures, Working, Dir, Parts
<1>2. CwdOK'
  BY DEF CwdOK
<1>3. DirsOK'
  BY DEF DirsOK, Dir
<1>a. ~ lost' => Alone'
  BY DEF Alone, AtWork, Working, CwdOK, Holds, Overwrites, Steals
<1> SUFFICES ASSUME Undisturbed'
             PROVE  /\ Apart' /\ StagingOK' /\ PackageOK'
                    /\ Vouched' /\ Owned' /\ Linked'
                    /\ OnePath => Forced'
  BY <1>a, <1>1, <1>2, <1>3
<1>4. Undisturbed /\ Alone /\ Alone' /\ Apart
  BY <1>a DEF Undisturbed
<1>5. Apart'
  BY <1>4 DEF Apart, AtWork, Working, Uninstalls, CwdOK
<1>6. StagingOK'
  BY <1>4 DEF Alone, Apart, StagingOK, Working, AtWork, Dir, NoDir, EmptyDir,
              Complete
<1>7. PackageOK'
  BY <1>4 DEF PackageOK, CwdOK
<1>8. Vouched'
  BY <1>4 DEF Vouched, Removing, Discards
<1>9. Owned'
  <2>1. crashes' = 0 => LockKept'
    BY <1>4 DEF Owned, LockKept, Working
  <2>2. crashes' = 0 => StagingKept'
    BY <1>4 DEF Owned, StagingKept, Stages, Working, CwdOK
  <2>3. crashes' = 0 => PackageKept'
    BY <1>4 DEF Owned, PackageKept, Finishes, Removing, Discards, LinkSeen,
                Executable, CwdOK
  <2> QED
    BY <2>1, <2>2, <2>3 DEF Owned
<1>10. Linked'
  BY <1>4 DEF Linked, LinkSeen, Executable, Removing, Discards, CwdOK
<1>11. OnePath => Forced'
  BY <1>4 DEF StagingOK, Forced, NoDir, EmptyDir
<1> QED
  BY <1>5, <1>6, <1>7, <1>8, <1>9, <1>10, <1>11

LEMMA UnlinkOldKeeps ==
    ASSUME IInv, NEW p \in Procs, UnlinkOld(p)
    PROVE  IInv'
<1> USE DEF IInv, TypeOK, UnlinkOld, Goto, optVars, deaths, past
<1>1. TypeOK'
  BY DEF Pcs, Resting, Working
<1>2. CwdOK'
  BY DEF CwdOK
<1>3. DirsOK'
  BY DEF DirsOK
<1>a. ~ lost' => Alone'
  BY DEF Alone, AtWork, Working, CwdOK, Holds, Overwrites, Steals
<1> SUFFICES ASSUME Undisturbed'
             PROVE  /\ Apart' /\ StagingOK' /\ PackageOK'
                    /\ Vouched' /\ Owned' /\ Linked'
                    /\ OnePath => Forced'
  BY <1>a, <1>1, <1>2, <1>3
<1>4. Undisturbed /\ Alone /\ Alone' /\ Apart
  BY <1>a DEF Undisturbed
<1>5. Apart'
  BY <1>4 DEF Apart, AtWork, Working, Uninstalls, CwdOK
<1>6. StagingOK'
  BY <1>4 DEF StagingOK
<1>7. PackageOK'
  BY <1>4 DEF PackageOK, DirsOK
<1>8. Vouched'
  BY <1>4 DEF Vouched, Removing, Discards
<1>9. Owned'
  <2>1. crashes' = 0 => LockKept'
    BY <1>4 DEF Owned, LockKept, Working
  <2>2. crashes' = 0 => StagingKept'
    BY <1>4 DEF Owned, StagingKept, Stages, Working, CwdOK
  <2>3. crashes' = 0 => PackageKept'
    BY <1>4 DEF Owned, PackageKept, Finishes, Removing, Discards, LinkSeen,
                Executable, CwdOK
  <2> QED
    BY <2>1, <2>2, <2>3 DEF Owned
<1>10. Linked'
  BY <1>4 DEF Linked, LinkSeen, Executable, Removing, Discards
<1>11. OnePath => Forced'
  BY <1>4 DEF Forced
<1> QED
  BY <1>5, <1>6, <1>7, <1>8, <1>9, <1>10, <1>11

LEMMA RemoveOldKeeps ==
    ASSUME IInv, NEW p \in Procs, RemoveOld(p)
    PROVE  IInv'
<1> USE DEF IInv, TypeOK, RemoveOld, Goto, optVars, deaths, past
<1>1. TypeOK'
  BY DEF Pcs, Resting, Working, Dir, NoDir
<1>2. CwdOK'
  BY DEF CwdOK
<1>3. DirsOK'
  BY DEF DirsOK
<1>a. ~ lost' => Alone'
  BY DEF Alone, AtWork, Working, CwdOK, Holds, Overwrites, Steals
<1> SUFFICES ASSUME Undisturbed'
             PROVE  /\ Apart' /\ StagingOK' /\ PackageOK'
                    /\ Vouched' /\ Owned' /\ Linked'
                    /\ OnePath => Forced'
  BY <1>a, <1>1, <1>2, <1>3
<1>4. Undisturbed /\ Alone /\ Alone' /\ Apart
  BY <1>a DEF Undisturbed
<1>5. Apart'
  BY <1>4 DEF Apart, AtWork, Working, Uninstalls, CwdOK
<1>6. StagingOK'
  BY <1>4 DEF StagingOK
<1>7. PackageOK'
  BY <1>4 DEF Alone, Apart, PackageOK, Working, AtWork
<1>8. Vouched'
  BY <1>4 DEF Vouched, NoDir
<1>9. Owned'
  <2>1. crashes' = 0 => LockKept'
    BY <1>4 DEF Owned, LockKept, Working
  <2>2. crashes' = 0 => StagingKept'
    BY <1>4 DEF Owned, StagingKept, Stages, Working, CwdOK
  <2>3. crashes' = 0 => PackageKept'
    BY DEF PackageKept, NoDir
  <2> QED
    BY <2>1, <2>2, <2>3 DEF Owned
<1>10. Linked'
  BY <1>4 DEF Linked, LinkSeen, Executable, Removing, Discards
<1>11. OnePath => Forced'
  BY <1>4 DEF Forced
<1> QED
  BY <1>5, <1>6, <1>7, <1>8, <1>9, <1>10, <1>11

LEMMA RemovePartKeeps ==
    ASSUME IInv, NEW p \in Procs, RemovePart(p)
    PROVE  IInv'
<1> USE DEF IInv, TypeOK, RemovePart, optVars, deaths, past
<1>1. TypeOK'
  <2>1. PICK x \in pkgdir.parts, rc \in {pkgdir.receipt, FALSE},
             lg \in {pkgdir.log, FALSE} :
           pkgdir' = [pkgdir EXCEPT !.parts = @ \ {x}, !.receipt = rc,
                                    !.log = lg]
    OBVIOUS
  <2>2. pkgdir' \in Dir
    BY <2>1 DEF Dir
  <2> QED
    BY <2>2
<1>2. CwdOK'
  BY DEF CwdOK
<1>3. DirsOK'
  BY DEF DirsOK
<1>a. ~ lost' => Alone'
  BY DEF Alone, AtWork, Working, CwdOK, Holds, Overwrites, Steals
<1> SUFFICES ASSUME Undisturbed'
             PROVE  /\ Apart' /\ StagingOK' /\ PackageOK'
                    /\ Vouched' /\ Owned' /\ Linked'
                    /\ OnePath => Forced'
  BY <1>a, <1>1, <1>2, <1>3
<1>4. Undisturbed /\ Alone /\ Alone' /\ Apart
  BY <1>a DEF Undisturbed
<1>5. Apart'
  BY <1>4 DEF Apart, AtWork, Working, Uninstalls, CwdOK
<1>6. StagingOK'
  BY <1>4 DEF StagingOK
<1>7. PackageOK'
  <2>1. PICK x \in pkgdir.parts, rc \in {pkgdir.receipt, FALSE},
             lg \in {pkgdir.log, FALSE} :
           pkgdir' = [pkgdir EXCEPT !.parts = @ \ {x}, !.receipt = rc,
                                    !.log = lg]
    OBVIOUS
  <2>2. ~ pkgdir.receipt => ~ pkgdir'.receipt
    BY <2>1 DEF Dir
  <2>3. \A q \in Procs :
            AtWork(q) => q = p /\ pc[p] \in {"rmold", "cleanup"}
    BY <1>4 DEF Alone, Apart, AtWork, Uninstalls, Removing, Working
  <2> QED
    BY <1>4, <2>2, <2>3 DEF PackageOK, AtWork, Working
<1>8. Vouched'
  BY <1>4 DEF Vouched, Removing, Discards
<1>9. Owned'
  <2>1. crashes' = 0 => LockKept'
    BY <1>4 DEF Owned, LockKept, Working
  <2>2. crashes' = 0 => StagingKept'
    BY <1>4 DEF Owned, StagingKept, Stages, Working, CwdOK
  <2>3. crashes' = 0 => PackageKept'
    BY <1>4 DEF Owned, PackageKept, Finishes, Removing, Discards, LinkSeen,
                Executable, CwdOK
  <2> QED
    BY <2>1, <2>2, <2>3 DEF Owned
<1>10. Linked'
  BY <1>4 DEF Linked, LinkSeen, Executable, Removing, Discards
<1>11. OnePath => Forced'
  BY <1>4 DEF Forced
<1> QED
  BY <1>5, <1>6, <1>7, <1>8, <1>9, <1>10, <1>11

LEMMA MkdirKeeps ==
    ASSUME IInv, NEW p \in Procs, Mkdir(p)
    PROVE  IInv'
<1> USE DEF IInv, TypeOK, Mkdir, Goto, optVars, deaths, past
<1>1. TypeOK'
  BY DEF Pcs, Resting, Working, Dir, NoDir, EmptyDir
<1>2. CwdOK'
  BY DEF CwdOK
<1>3. DirsOK'
  BY DEF DirsOK, EmptyDir
<1>a. ~ lost' => Alone'
  BY DEF Alone, AtWork, Working, CwdOK, Holds, Overwrites, Steals
<1> SUFFICES ASSUME Undisturbed'
             PROVE  /\ Apart' /\ StagingOK' /\ PackageOK'
                    /\ Vouched' /\ Owned' /\ Linked'
                    /\ OnePath => Forced'
  BY <1>a, <1>1, <1>2, <1>3
<1>4. Undisturbed /\ Alone /\ Alone' /\ Apart
  BY <1>a DEF Undisturbed
<1>5. Apart'
  BY <1>4 DEF Apart, AtWork, Working, Uninstalls, CwdOK
<1>6. StagingOK'
  BY <1>4 DEF StagingOK
<1>7. PackageOK'
  BY <1>4 DEF Alone, Apart, PackageOK, Working, AtWork, NoDir
<1>8. Vouched'
  BY <1>4 DEF Vouched, Removing, Discards, NoDir, EmptyDir
<1>9. Owned'
  <2>1. crashes' = 0 => LockKept'
    BY <1>4 DEF Owned, LockKept, Working
  <2>2. crashes' = 0 => StagingKept'
    BY <1>4 DEF Owned, StagingKept, Stages, Working, CwdOK
  <2>3. crashes' = 0 => PackageKept'
    BY <1>4 DEF Owned, PackageKept, Finishes, Removing, Discards, LinkSeen,
                Executable, CwdOK
  <2> QED
    BY <2>1, <2>2, <2>3 DEF Owned
<1>10. Linked'
  BY <1>4 DEF Linked, LinkSeen, Executable, Removing, Discards, DirsOK,
              NoDir, EmptyDir
<1>11. OnePath => Forced'
  BY <1>4 DEF Forced
<1> QED
  BY <1>5, <1>6, <1>7, <1>8, <1>9, <1>10, <1>11

(* The staging directory is complete, and becomes the package's. *)
LEMMA RenameKeeps ==
    ASSUME IInv, NEW p \in Procs, Rename(p)
    PROVE  IInv'
<1> USE DEF IInv, TypeOK, Rename, Goto, optVars, deaths, past
<1>1. TypeOK'
  BY DEF Pcs, Resting, Working, Dir, NoDir
<1>2. CwdOK'
  BY DEF CwdOK
<1>3. DirsOK'
  BY DEF DirsOK, NoDir
<1>a. ~ lost' => Alone'
  BY DEF Alone, AtWork, Working, CwdOK, Holds, Overwrites, Steals
<1> SUFFICES ASSUME Undisturbed'
             PROVE  /\ Apart' /\ StagingOK' /\ PackageOK'
                    /\ Vouched' /\ Owned' /\ Linked'
                    /\ OnePath => Forced'
  BY <1>a, <1>1, <1>2, <1>3
<1>4. Undisturbed /\ Alone /\ Alone' /\ Apart
  BY <1>a DEF Undisturbed
<1>5. Apart'
  BY <1>4 DEF Apart, AtWork, Working, Uninstalls, CwdOK
<1>6. StagingOK'
  BY <1>4 DEF Alone, Apart, StagingOK, Working, AtWork
<1>7. PackageOK'
  BY <1>4 DEF Alone, Apart, StagingOK, PackageOK, DirsOK, Working, AtWork,
              NoDir,
         EmptyDir, CanRename
<1>8. Vouched'
  BY <1>4 DEF Vouched, DirsOK, Removing, Discards
<1>9. Owned'
  <2>1. crashes' = 0 => LockKept'
    BY <1>4 DEF Owned, LockKept, Working
  <2>2. crashes' = 0 => StagingKept'
    BY <1>4 DEF StagingKept, StagingOK, PackageOK, CanRename, NoDir
  <2>3. crashes' = 0 => PackageKept'
    BY <1>4 DEF Owned, PackageKept, Finishes, Removing, Discards, LinkSeen,
                Executable, CwdOK
  <2> QED
    BY <2>1, <2>2, <2>3 DEF Owned
<1>10. Linked'
  <2>1. ~ pkgdir.receipt
    BY <1>4 DEF PackageOK, EmptyDir, NoDir
  <2> QED
    BY <1>4, <2>1 DEF Linked
<1>11. OnePath => Forced'
  BY <1>4 DEF Forced
<1> QED
  BY <1>5, <1>6, <1>7, <1>8, <1>9, <1>10, <1>11

LEMMA LinkCheckKeeps ==
    ASSUME IInv, NEW p \in Procs, LinkCheck(p)
    PROVE  IInv'
<1> USE DEF IInv, TypeOK, LinkCheck, Goto, Fail, optVars, deaths, past
<1>1. TypeOK'
  BY DEF Pcs, Resting, Failures, Working
<1>2. CwdOK'
  BY DEF CwdOK
<1>3. DirsOK'
  BY DEF DirsOK
<1>a. ~ lost' => Alone'
  BY DEF Alone, AtWork, Working, CwdOK, Holds, Overwrites, Steals
<1> SUFFICES ASSUME Undisturbed'
             PROVE  /\ Apart' /\ StagingOK' /\ PackageOK'
                    /\ Vouched' /\ Owned' /\ Linked'
                    /\ OnePath => Forced'
  BY <1>a, <1>1, <1>2, <1>3
<1>4. Undisturbed /\ Alone /\ Alone' /\ Apart
  BY <1>a DEF Undisturbed
<1>5. Apart'
  BY <1>4 DEF Apart, AtWork, Working, Uninstalls, CwdOK
<1>6. StagingOK'
  BY <1>4 DEF StagingOK
<1>7. PackageOK'
  BY <1>4 DEF Alone, Apart, PackageOK, Working, AtWork
<1>8. Vouched'
  BY <1>4 DEF PackageOK, Vouched
<1>9. Owned'
  <2>1. crashes' = 0 => LockKept'
    BY <1>4 DEF Owned, LockKept, Working
  <2>2. crashes' = 0 => StagingKept'
    BY <1>4 DEF Owned, StagingKept, Stages, Working, CwdOK
  <2>3. crashes' = 0 => PackageKept'
    <3>1. pkgdir.there /\ pkgdir' = pkgdir /\ ~ pkgdir.receipt
      BY <1>4 DEF PackageOK
    <3>2. PackageKept => pkgdir.log \/ \E q \in Procs : Finishes(q)
      BY <3>1 DEF PackageKept
    <3>3. \A q \in Procs \ {p} : Finishes(q)' <=> Finishes(q)
      BY DEF Finishes, Removing, Discards
    <3>4. Finishes(p)'
      BY DEF Finishes, Removing, Discards, CwdOK
    <3> QED
      BY <1>4, <3>1, <3>2, <3>3, <3>4 DEF PackageKept
  <2> QED
    BY <2>1, <2>2, <2>3 DEF Owned
<1>10. Linked'
  <2>1. ~ pkgdir.receipt
    BY <1>4 DEF PackageOK
  <2> QED
    BY <1>4, <2>1 DEF Linked
<1>11. OnePath => Forced'
  BY <1>4 DEF PackageOK, Forced, OnePath, LinkSeen, Executable, CwdOK,
              EmptyDir,
         Complete
<1> QED
  BY <1>5, <1>6, <1>7, <1>8, <1>9, <1>10, <1>11

LEMMA SymlinkKeeps ==
    ASSUME IInv, NEW p \in Procs, Symlink(p)
    PROVE  IInv'
<1> USE DEF IInv, TypeOK, Symlink, Goto, Fail, optVars, deaths, past
<1>1. TypeOK'
  BY DEF Pcs, Resting, Failures, Working
<1>2. CwdOK'
  BY DEF CwdOK
<1>3. DirsOK'
  BY DEF DirsOK
<1>a. ~ lost' => Alone'
  BY DEF Alone, AtWork, Working, CwdOK, Holds, Overwrites, Steals
<1> SUFFICES ASSUME Undisturbed'
             PROVE  /\ Apart' /\ StagingOK' /\ PackageOK'
                    /\ Vouched' /\ Owned' /\ Linked'
                    /\ OnePath => Forced'
  BY <1>a, <1>1, <1>2, <1>3
<1>4. Undisturbed /\ Alone /\ Alone' /\ Apart
  BY <1>a DEF Undisturbed
<1>5. Apart'
  BY <1>4 DEF Apart, AtWork, Working, Uninstalls, CwdOK
<1>6. StagingOK'
  BY <1>4 DEF StagingOK
<1>7. PackageOK'
  BY <1>4 DEF PackageOK
<1>8. Vouched'
  BY <1>4 DEF PackageOK, Vouched
<1>9. Owned'
  <2>1. crashes' = 0 => LockKept'
    BY <1>4 DEF Owned, LockKept, Working
  <2>2. crashes' = 0 => StagingKept'
    BY <1>4 DEF Owned, StagingKept, Stages, Working, CwdOK
  <2>3. crashes' = 0 => PackageKept'
    BY <1>4 DEF Owned, PackageKept, Finishes, Removing, Discards, LinkSeen,
                Executable, CwdOK
  <2> QED
    BY <2>1, <2>2, <2>3 DEF Owned
<1>10. Linked'
  <2>1. ~ pkgdir.receipt
    BY <1>4 DEF PackageOK
  <2> QED
    BY <1>4, <2>1 DEF Linked
<1>11. OnePath => Forced'
  BY <1>4 DEF Alone, Apart, Forced, Working, AtWork
<1> QED
  BY <1>5, <1>6, <1>7, <1>8, <1>9, <1>10, <1>11

LEMMA WriteReceiptKeeps ==
    ASSUME IInv, NEW p \in Procs, WriteReceipt(p)
    PROVE  IInv'
<1> USE DEF IInv, TypeOK, WriteReceipt, Goto, Fail, optVars, deaths, past
<1>1. TypeOK'
  <2>1. pkgdir' \in Dir
    <3>1. CASE UNCHANGED pkgdir
      BY <3>1
    <3>2. CASE pkgdir' = [pkgdir EXCEPT !.receipt = TRUE]
      BY <3>2 DEF Dir
    <3> QED
      BY <3>1, <3>2
  <2>2. pc' \in [Procs -> Pcs] /\ failed' \in [Procs -> Failures]
    BY DEF Pcs, Failures
  <2> QED
    BY <2>1, <2>2
<1>2. CwdOK'
  BY DEF CwdOK
<1>3. DirsOK'
  BY DEF DirsOK, Dir
<1>a. ~ lost' => Alone'
  BY DEF Alone, AtWork, Working, CwdOK, Holds, Overwrites, Steals
<1> SUFFICES ASSUME Undisturbed'
             PROVE  /\ Apart' /\ StagingOK' /\ PackageOK'
                    /\ Vouched' /\ Owned' /\ Linked'
                    /\ OnePath => Forced'
  BY <1>a, <1>1, <1>2, <1>3
<1>4. Undisturbed /\ Alone /\ Alone' /\ Apart
  BY <1>a DEF Undisturbed
<1>5. Apart'
  BY <1>4 DEF Apart, AtWork, Working, Uninstalls, CwdOK
<1>6. StagingOK'
  BY <1>4 DEF StagingOK
<1>b. /\ pkgdir.there /\ Complete(pkgdir, ver[p])
      /\ link = Target[ver[p]]
  BY <1>4 DEF PackageOK
<1>c. /\ pkgdir' = [pkgdir EXCEPT !.receipt = TRUE]
      /\ pc' = [pc EXCEPT ![p] = "cleanup"]
      /\ UNCHANGED <<failed, stray, link>>
  BY <1>b
<1>d. pkgdir'.receipt /\ pkgdir'.parts = pkgdir.parts
  BY <1>c DEF Dir
<1>e. LinkSeen'
  <2>1. <<ver[p], 2>> \in pkgdir'.parts /\ ver[p] \in Versions
    BY <1>b, <1>d DEF Complete
  <2> QED
    BY <1>b, <1>c, <2>1 DEF LinkSeen, Executable
<1>f. \A q \in Procs : ~ Removing(q)'
  <2>1. \A q \in Procs : AtWork(q) => q = p
    BY <1>4 DEF Alone, AtWork, Working
  <2>2. \A q \in Procs : ~ Uninstalls(q)
    BY <1>4 DEF Apart, AtWork, Working
  <2>3. failed[p] = "none"
    BY DEF CwdOK
  <2> QED
    BY <1>c, <2>1, <2>2, <2>3 DEF Removing, Discards, AtWork, Working,
                                  Uninstalls
<1>7. PackageOK'
  <2>1. \A q \in Procs : AtWork(q) => q = p
    BY <1>4 DEF Alone, AtWork, Working
  <2>2. failed[p] = "none"
    BY DEF CwdOK
  <2> QED
    BY <1>4, <1>c, <2>1, <2>2 DEF PackageOK, AtWork, Working
<1>8. Vouched'
  BY <1>b, <1>d DEF Vouched, Complete
<1>9. Owned'
  <2>1. crashes' = 0 => LockKept'
    BY <1>4 DEF Owned, LockKept, Working
  <2>2. crashes' = 0 => StagingKept'
    BY <1>4 DEF Owned, StagingKept, Stages, Working, CwdOK
  <2>3. crashes' = 0 => PackageKept'
    BY <1>d, <1>e DEF PackageKept
  <2> QED
    BY <2>1, <2>2, <2>3 DEF Owned
<1>10. Linked'
  BY <1>d, <1>e, <1>f DEF Linked
<1>11. OnePath => Forced'
  BY <1>4 DEF PackageOK, Forced
<1> QED
  BY <1>5, <1>6, <1>7, <1>8, <1>9, <1>10, <1>11

(* The request fails where it is; the finalizer finds cwd. *)
LEMMA GiveUpKeeps ==
    ASSUME IInv, NEW p \in Procs, GiveUp(p)
    PROVE  IInv'
<1> USE DEF IInv, TypeOK, GiveUp, Fail, diskVars, optVars, deaths, Goto, past
<1>1. TypeOK'
  BY DEF Pcs, Resting, Failures
<1>2. CwdOK'
  BY DEF CwdOK
<1>3. DirsOK'
  BY DEF DirsOK
<1>a. ~ lost' => Alone'
  BY DEF Alone, AtWork, Working, CwdOK, Holds, Overwrites, Steals
<1> SUFFICES ASSUME Undisturbed'
             PROVE  /\ Apart' /\ StagingOK' /\ PackageOK'
                    /\ Vouched' /\ Owned' /\ Linked'
                    /\ OnePath => Forced'
  BY <1>a, <1>1, <1>2, <1>3
<1>4. Undisturbed /\ Alone /\ Alone' /\ Apart
  BY <1>a DEF Undisturbed
<1>5. Apart'
  BY <1>4 DEF Apart, AtWork, Working, Uninstalls, CwdOK
<1>6. StagingOK'
  BY <1>4 DEF StagingOK
<1>7. PackageOK'
  BY <1>4 DEF PackageOK, CwdOK
<1>8. Vouched'
  BY <1>4 DEF Vouched, Removing, Discards
<1>9. Owned'
  <2>1. crashes' = 0 => LockKept'
    BY <1>4 DEF Owned, LockKept, Working
  <2>2. crashes' = 0 => StagingKept'
    BY <1>4 DEF Owned, StagingKept, Stages, Working, CwdOK
  <2>3. crashes' = 0 => PackageKept'
    BY <1>4 DEF Owned, PackageKept, Finishes, Removing, Discards, LinkSeen,
                Executable, CwdOK
  <2> QED
    BY <2>1, <2>2, <2>3 DEF Owned
<1>10. Linked'
  <2>1. CASE pkgdir.receipt
    <3>1. pc[p] \notin {"link", "symlink", "receipt"}
      BY <1>4, <2>1 DEF PackageOK
    <3> QED
      BY <1>4, <2>1, <3>1 DEF Linked, LinkSeen, Executable, Removing,
                              Discards, CwdOK
  <2>2. CASE ~ pkgdir.receipt
    BY <1>4, <2>2 DEF Linked
  <2> QED
    BY <2>1, <2>2
<1>11. OnePath => Forced'
  BY <1>4 DEF Forced
<1> QED
  BY <1>5, <1>6, <1>7, <1>8, <1>9, <1>10, <1>11

LEMMA CleanUpKeeps ==
    ASSUME IInv, NEW p \in Procs, CleanUp(p)
    PROVE  IInv'
<1> USE DEF IInv, TypeOK, CleanUp, Goto, optVars, deaths, past
<1>1. TypeOK'
  BY DEF Pcs, Resting, Dir, NoDir
<1>2. CwdOK'
  BY DEF CwdOK
<1>3. DirsOK'
  BY DEF DirsOK, NoDir
<1>a. ~ lost' => Alone'
  BY DEF Alone, AtWork, Working, CwdOK, Holds, Overwrites, Steals
<1> SUFFICES ASSUME Undisturbed'
             PROVE  /\ Apart' /\ StagingOK' /\ PackageOK'
                    /\ Vouched' /\ Owned' /\ Linked'
                    /\ OnePath => Forced'
  BY <1>a, <1>1, <1>2, <1>3
<1>4. Undisturbed /\ Alone /\ Alone' /\ Apart
  BY <1>a DEF Undisturbed
<1>5. Apart'
  BY <1>4 DEF Apart, AtWork, Working, Uninstalls, CwdOK
<1>6. StagingOK'
  <2>1. CASE cwd[p] = "none"
    BY <1>4, <2>1 DEF StagingOK
  <2>2. CASE cwd[p] # "none"
    <3>1. \A q \in Procs : AtWork(q) => q = p
      BY <1>4, <2>2 DEF Alone, AtWork
    <3> QED
      BY <1>4, <3>1 DEF StagingOK, Working, AtWork
  <2> QED
    BY <1>4, <2>1, <2>2
<1>7. PackageOK'
  <2>1. CASE cwd[p] = "none"
    BY <1>4, <2>1 DEF PackageOK
  <2>2. CASE cwd[p] # "none"
    <3>1. \A q \in Procs : AtWork(q) => q = p
      BY <1>4, <2>2 DEF Alone, AtWork
    <3> QED
      BY <1>4, <3>1 DEF PackageOK, Working, AtWork
  <2> QED
    BY <1>4, <2>1, <2>2
<1>8. Vouched'
  BY <1>4 DEF Vouched, Removing, Discards, NoDir
<1>9. Owned'
  <2>1. crashes' = 0 => LockKept'
    BY <1>4 DEF Owned, LockKept, Working
  <2>2. crashes' = 0 => StagingKept'
    BY <1>4 DEF Owned, StagingKept, Stages, Working, Discards, CwdOK, NoDir
  <2>3. crashes' = 0 => PackageKept'
    <3>1. CASE cwd[p] = "package" /\ Discards(p)
      BY <3>1 DEF PackageKept, NoDir
    <3>2. CASE ~ (cwd[p] = "package" /\ Discards(p))
      BY <1>4, <3>2 DEF Owned, PackageKept, Finishes, Removing, Discards,
                        LinkSeen, Executable
    <3> QED
      BY <3>1, <3>2
  <2> QED
    BY <2>1, <2>2, <2>3 DEF Owned
<1>10. Linked'
  BY <1>4 DEF Linked, LinkSeen, Executable, Removing, Discards
<1>11. OnePath => Forced'
  BY <1>4 DEF Forced
<1> QED
  BY <1>5, <1>6, <1>7, <1>8, <1>9, <1>10, <1>11

(* The log is written to what is kept, or the lock file is, too. *)
LEMMA WriteLogKeeps ==
    ASSUME IInv, NEW p \in Procs, WriteLog(p)
    PROVE  IInv'
<1> USE DEF IInv, TypeOK, WriteLog, Goto, diskVars, optVars, past, deaths, End
<1>1. TypeOK'
  <2>1. staging' \in Dir /\ pkgdir' \in Dir
    <3>1. CASE UNCHANGED <<staging, pkgdir>>
      BY <3>1
    <3>2. CASE UNCHANGED pkgdir /\ staging' = [staging EXCEPT !.log = TRUE]
      BY <3>2 DEF Dir
    <3>3. CASE UNCHANGED staging /\ pkgdir' = [pkgdir EXCEPT !.log = TRUE]
      BY <3>3 DEF Dir
    <3> QED
      BY <3>1, <3>2, <3>3
  <2>2. pc' \in [Procs -> Pcs]
    BY DEF Pcs, Resting
  <2>3. failed' \in [Procs -> Failures]
    BY DEF Failures
  <2> QED
    BY <2>1, <2>2, <2>3
<1>2. CwdOK'
  BY DEF CwdOK
<1>3. DirsOK'
  BY DEF DirsOK, Dir
<1>a. ~ lost' => Alone'
  BY DEF Alone, AtWork, Working, CwdOK, Holds, Overwrites, Steals
<1> SUFFICES ASSUME Undisturbed'
             PROVE  /\ Apart' /\ StagingOK' /\ PackageOK'
                    /\ Vouched' /\ Owned' /\ Linked'
                    /\ OnePath => Forced'
  BY <1>a, <1>1, <1>2, <1>3
<1>4. Undisturbed /\ Alone /\ Alone' /\ Apart
  BY <1>a DEF Undisturbed
<1>5. Apart'
  BY <1>4 DEF Apart, AtWork, Working, Uninstalls, CwdOK
<1>b. /\ staging'.there <=> staging.there
      /\ staging'.parts = staging.parts
      /\ pkgdir'.there <=> pkgdir.there
      /\ pkgdir'.parts = pkgdir.parts
      /\ pkgdir'.receipt <=> pkgdir.receipt
  BY DEF Dir
<1>c. LinkSeen' <=> LinkSeen
  BY <1>b DEF LinkSeen, Executable
<1>d. \A q \in Procs : Removing(q)' <=> Removing(q)
  BY DEF Removing, Discards
<1>e. \A q \in Procs : pc'[q] # pc[q] => q = p
  OBVIOUS
<1>f. \/ staging' = staging /\ pkgdir' = pkgdir
      \/ \A q \in Procs : AtWork(q) => q = p
  BY <1>4 DEF Alone, AtWork
<1>6. StagingOK'
  BY <1>4, <1>f DEF StagingOK, AtWork, Working
<1>7. PackageOK'
  BY <1>4, <1>b, <1>f DEF PackageOK, AtWork, Working
<1>8. Vouched'
  BY <1>4, <1>b, <1>d DEF Vouched, Complete
<1>9. Owned'
  <2>1. crashes' = 0 => LockKept'
    BY <1>4 DEF Owned, LockKept, Working
  <2>2. crashes' = 0 => StagingKept'
    BY <1>4 DEF Owned, StagingKept, Stages, Working, Dir
  <2>3. crashes' = 0 => PackageKept'
    <3>1. CASE cwd[p] = "package" /\ pkgdir.there /\ failed[p] # "none"
      BY <1>4, <1>b, <3>1 DEF PackageKept, PackageOK, Dir
    <3>2. CASE ~ (cwd[p] = "package" /\ pkgdir.there /\ failed[p] # "none")
      <4>1. pkgdir.there => (Finishes(p) => Removing(p))
        BY <3>2 DEF Finishes
      <4>2. ~ Removing(p)
        BY DEF Removing, Discards
      <4>3. \A q \in Procs \ {p} : Finishes(q)' <=> Finishes(q)
        BY <1>d DEF Finishes
      <4>4. pkgdir.log => pkgdir'.log
        BY DEF Dir
      <4> QED
        BY <1>4, <1>b, <1>c, <4>1, <4>2, <4>3, <4>4 DEF Owned, PackageKept
    <3> QED
      BY <3>1, <3>2
  <2> QED
    BY <2>1, <2>2, <2>3 DEF Owned
<1>10. Linked'
  BY <1>4, <1>b, <1>c, <1>d, <1>e DEF Linked
<1>11. OnePath => Forced'
  BY <1>4 DEF Forced
<1> QED
  BY <1>5, <1>6, <1>7, <1>8, <1>9, <1>10, <1>11

(* What the process had is left, and nobody takes care of it. *)
LEMMA CrashKeeps ==
    ASSUME IInv, NEW p \in Procs, Crash(p)
    PROVE  IInv'
<1> USE DEF IInv, TypeOK, Crash, Goto, diskVars, optVars, past, deaths, End
<1>1. TypeOK'
  BY DEF Pcs, Resting, Failures
<1>2. CwdOK'
  BY DEF CwdOK
<1>3. DirsOK'
  BY DEF DirsOK
<1>a. ~ lost' => Alone'
  BY DEF Alone, AtWork, Working, CwdOK, Holds, Overwrites, Steals
<1> SUFFICES ASSUME Undisturbed'
             PROVE  /\ Apart' /\ StagingOK' /\ PackageOK'
                    /\ Vouched' /\ Owned' /\ Linked'
                    /\ OnePath => Forced'
  BY <1>a, <1>1, <1>2, <1>3
<1>4. Undisturbed /\ Alone /\ Alone' /\ Apart
  BY <1>a DEF Undisturbed
<1>5. Apart'
  BY <1>4 DEF Apart, AtWork, Working, Uninstalls, CwdOK
<1>6. StagingOK'
  BY <1>4 DEF StagingOK
<1>7. PackageOK'
  BY <1>4 DEF PackageOK
<1>8. Vouched'
  BY <1>4 DEF Vouched, Removing, Discards
<1>9. Owned'
  <2>1. crashes' = 0 => LockKept'
    BY <1>4 DEF Owned, LockKept, Working
  <2>2. crashes' = 0 => StagingKept'
    BY <1>4 DEF Owned, StagingKept, Stages, Working, CwdOK
  <2>3. crashes' = 0 => PackageKept'
    BY <1>4 DEF Owned, PackageKept, Finishes, Removing, Discards, LinkSeen,
                Executable, CwdOK
  <2> QED
    BY <2>1, <2>2, <2>3 DEF Owned
<1>10. Linked'
  BY <1>4 DEF Linked, LinkSeen, Executable, Removing, Discards
<1>11. OnePath => Forced'
  BY <1>4 DEF Forced
<1> QED
  BY <1>5, <1>6, <1>7, <1>8, <1>9, <1>10, <1>11

(* Whoever uninstalls meets nobody at work. *)
LEMMA UninstallKeeps ==
    ASSUME IInv, NEW p \in Procs, Uninstall(p)
    PROVE  IInv'
<1> USE DEF IInv, TypeOK, Uninstall, Goto, diskVars, optVars, deaths, past
<1>1. TypeOK'
  BY DEF Pcs, Resting, Failures
<1>2. CwdOK'
  BY DEF CwdOK
<1>3. DirsOK'
  BY DEF DirsOK
<1>a. ~ lost' => Alone'
  BY DEF Alone, AtWork, Working, CwdOK, Holds, Overwrites, Steals
<1> SUFFICES ASSUME Undisturbed'
             PROVE  /\ Apart' /\ StagingOK' /\ PackageOK'
                    /\ Vouched' /\ Owned' /\ Linked'
                    /\ OnePath => Forced'
  BY <1>a, <1>1, <1>2, <1>3
<1>4. Undisturbed /\ Alone /\ Alone' /\ Apart
  BY <1>a DEF Undisturbed
<1>5. Apart'
  BY <1>4 DEF Apart, AtWork, Working, Uninstalls, Undisturbed
<1>6. StagingOK'
  BY <1>4 DEF StagingOK
<1>7. PackageOK'
  BY <1>4 DEF PackageOK
<1>8. Vouched'
  BY <1>4 DEF Vouched, Removing, Discards
<1>9. Owned'
  <2>1. crashes' = 0 => LockKept'
    BY <1>4 DEF Owned, LockKept, Working
  <2>2. crashes' = 0 => StagingKept'
    BY <1>4 DEF Owned, StagingKept, Stages, Working, CwdOK
  <2>3. crashes' = 0 => PackageKept'
    BY <1>4 DEF Owned, PackageKept, Finishes, Removing, Discards, LinkSeen,
                Executable, CwdOK
  <2> QED
    BY <2>1, <2>2, <2>3 DEF Owned
<1>10. Linked'
  BY <1>4 DEF Linked, LinkSeen, Executable, Removing, Discards
<1>11. OnePath => Forced'
  BY <1>4 DEF Forced
<1> QED
  BY <1>5, <1>6, <1>7, <1>8, <1>9, <1>10, <1>11

LEMMA UnlinkKeeps ==
    ASSUME IInv, NEW p \in Procs, Unlink(p)
    PROVE  IInv'
<1> USE DEF IInv, TypeOK, Unlink, Goto, optVars, deaths, past
<1>1. TypeOK'
  BY DEF Pcs, Resting
<1>2. CwdOK'
  BY DEF CwdOK
<1>3. DirsOK'
  BY DEF DirsOK
<1>a. ~ lost' => Alone'
  BY DEF Alone, AtWork, Working, CwdOK, Holds, Overwrites, Steals
<1> SUFFICES ASSUME Undisturbed'
             PROVE  /\ Apart' /\ StagingOK' /\ PackageOK'
                    /\ Vouched' /\ Owned' /\ Linked'
                    /\ OnePath => Forced'
  BY <1>a, <1>1, <1>2, <1>3
<1>4. Undisturbed /\ Alone /\ Alone' /\ Apart
  BY <1>a DEF Undisturbed
<1>5. Apart'
  BY <1>4 DEF Apart, AtWork, Working, Uninstalls, CwdOK
<1>6. StagingOK'
  BY <1>4 DEF StagingOK
<1>7. PackageOK'
  BY <1>4 DEF PackageOK
<1>8. Vouched'
  BY <1>4 DEF Vouched, Removing, Discards
<1>9. Owned'
  <2>1. crashes' = 0 => LockKept'
    BY <1>4 DEF Owned, LockKept, Working
  <2>2. crashes' = 0 => StagingKept'
    BY <1>4 DEF Owned, StagingKept, Stages, Working, CwdOK
  <2>3. crashes' = 0 => PackageKept'
    BY <1>4 DEF Owned, PackageKept, Finishes, Removing, Discards, LinkSeen,
                Executable, CwdOK
  <2> QED
    BY <2>1, <2>2, <2>3 DEF Owned
<1>10. Linked'
  BY <1>4 DEF Linked, LinkSeen, Executable, Removing, Discards
<1>11. OnePath => Forced'
  BY <1>4 DEF Forced
<1> QED
  BY <1>5, <1>6, <1>7, <1>8, <1>9, <1>10, <1>11

LEMMA RemoveKeeps ==
    ASSUME IInv, NEW p \in Procs, Remove(p)
    PROVE  IInv'
<1> USE DEF IInv, TypeOK, Remove, Goto, optVars, deaths, past
<1>1. TypeOK'
  BY DEF Pcs, Resting, Dir, NoDir
<1>2. CwdOK'
  BY DEF CwdOK
<1>3. DirsOK'
  BY DEF DirsOK
<1>a. ~ lost' => Alone'
  BY DEF Alone, AtWork, Working, CwdOK, Holds, Overwrites, Steals
<1> SUFFICES ASSUME Undisturbed'
             PROVE  /\ Apart' /\ StagingOK' /\ PackageOK'
                    /\ Vouched' /\ Owned' /\ Linked'
                    /\ OnePath => Forced'
  BY <1>a, <1>1, <1>2, <1>3
<1>4. Undisturbed /\ Alone /\ Alone' /\ Apart
  BY <1>a DEF Undisturbed
<1>5. Apart'
  BY <1>4 DEF Apart, AtWork, Working, Uninstalls, CwdOK
<1>6. StagingOK'
  BY <1>4 DEF StagingOK
<1>7. PackageOK'
  BY <1>4 DEF Alone, Apart, PackageOK, Working, AtWork, Uninstalls
<1>8. Vouched'
  BY <1>4 DEF Vouched, NoDir
<1>9. Owned'
  <2>1. crashes' = 0 => LockKept'
    BY <1>4 DEF Owned, LockKept, Working
  <2>2. crashes' = 0 => StagingKept'
    BY <1>4 DEF Owned, StagingKept, Stages, Working, CwdOK
  <2>3. crashes' = 0 => PackageKept'
    BY DEF PackageKept, NoDir
  <2> QED
    BY <2>1, <2>2, <2>3 DEF Owned
<1>10. Linked'
  BY <1>4 DEF Linked, LinkSeen, Executable, Removing, Discards
<1>11. OnePath => Forced'
  BY <1>4 DEF Forced
<1> QED
  BY <1>5, <1>6, <1>7, <1>8, <1>9, <1>10, <1>11
-----------------------------------------------------------------------------
(* The invariant.                                                          *)

LEMMA InitInvariant ==
    ASSUME Init
    PROVE  IInv
<1>1. TypeOK
  <2>1. staging \in Dir /\ pkgdir \in Dir
    BY DEF Init, Dir, NoDir
  <2>2. /\ pc \in [Procs -> Pcs] /\ failed \in [Procs -> Failures]
        /\ force \in [Procs -> BOOLEAN] /\ debug \in [Procs -> BOOLEAN]
        /\ cwd \in [Procs -> {"none", "staging", "package"}]
    BY DEF Init, Pcs, Resting, Failures
  <2>3. crashes \in 0..MaxCrashes
    BY DEF Init
  <2> QED
    BY <2>1, <2>2, <2>3 DEF Init, TypeOK
<1>2. CwdOK /\ DirsOK
  BY DEF Init, CwdOK, DirsOK, NoDir
<1>3. Alone /\ Apart /\ StagingOK /\ PackageOK
  BY DEF Init, Alone, Apart, AtWork, Working, StagingOK, PackageOK
<1>4. Vouched /\ Owned /\ Linked
  BY DEF Init, Vouched, Owned, LockKept, StagingKept, PackageKept, Linked,
         NoDir
<1>5. Forced
  BY DEF Init, Forced
<1> QED
  BY <1>1, <1>2, <1>3, <1>4, <1>5 DEF IInv

LEMMA NextInvariant ==
    ASSUME IInv, [Next]_vars
    PROVE  IInv'
<1>1. ASSUME NEW p \in Procs, NEW v \in Versions,
             NEW opts \in Options, Start(p, v, opts)
      PROVE  IInv'
  BY <1>1, StartKeeps
<1>2. ASSUME NEW p \in Procs,
             CheckLock(p) \/ WriteLock(p) \/ Unlock(p) \/ Stage(p)
      PROVE  IInv'
  BY <1>2, CheckLockKeeps, WriteLockKeeps, UnlockKeeps, StageKeeps
<1>3. ASSUME NEW p \in Procs, Build(p, 1) \/ Build(p, 2)
      PROVE  IInv'
  BY <1>3, BuildKeeps
<1>4. ASSUME NEW p \in Procs, \/ UnlinkOld(p) \/ RemoveOld(p)
                              \/ RemovePart(p) \/ Mkdir(p) \/ Rename(p)
      PROVE  IInv'
  BY <1>4, UnlinkOldKeeps, RemoveOldKeeps, RemovePartKeeps, MkdirKeeps,
     RenameKeeps
<1>5. ASSUME NEW p \in Procs,
             LinkCheck(p) \/ Symlink(p) \/ WriteReceipt(p)
      PROVE  IInv'
  BY <1>5, LinkCheckKeeps, SymlinkKeeps, WriteReceiptKeeps
<1>6. ASSUME NEW p \in Procs,
             GiveUp(p) \/ CleanUp(p) \/ WriteLog(p) \/ Crash(p)
      PROVE  IInv'
  BY <1>6, GiveUpKeeps, CleanUpKeeps, WriteLogKeeps, CrashKeeps
<1>7. ASSUME NEW p \in Procs, Uninstall(p) \/ Unlink(p) \/ Remove(p)
      PROVE  IInv'
  BY <1>7, UninstallKeeps, UnlinkKeeps, RemoveKeeps
<1>8. CASE UNCHANGED vars
  <2> USE <1>8 DEF vars
  <2>1. TypeOK' /\ CwdOK' /\ DirsOK'
    BY DEF IInv, TypeOK, CwdOK, DirsOK
  <2>2. Alone' = Alone /\ Apart' = Apart /\ Undisturbed' = Undisturbed
    BY DEF Alone, Apart, AtWork, Uninstalls, Undisturbed
  <2>3. PackageOK' = PackageOK /\ StagingOK' = StagingOK
    BY DEF PackageOK, StagingOK, Complete
  <2>4. Vouched' = Vouched /\ Linked' = Linked
    BY DEF Vouched, Linked, Complete, Removing, Discards, LinkSeen, Executable
  <2>5. LockKept' = LockKept /\ StagingKept' = StagingKept
    BY DEF LockKept, StagingKept, Stages
  <2>6. PackageKept' = PackageKept
    BY DEF PackageKept, Finishes, Removing, Discards, LinkSeen, Executable
  <2>7. Owned' = Owned /\ Forced' = Forced
    BY <2>5, <2>6 DEF Owned, Forced
  <2> QED
    BY <2>1, <2>2, <2>3, <2>4, <2>7 DEF IInv
<1> QED
  BY <1>1, <1>2, <1>3, <1>4, <1>5, <1>6, <1>7, <1>8 DEF Next

(* The strengthening of the invariants below, as an invariant. *)
THEOREM Invariant == Spec => []IInv
BY InitInvariant, NextInvariant, PTL DEF Spec

(* The files and the processes stay within their types. *)
THEOREM TypeCorrect == Spec => []TypeOK
<1>1. IInv => TypeOK
  BY DEF IInv
<1> QED
  BY <1>1, Invariant, PTL

(* The lock file keeps processes apart, for any number of processes and of *)
(* crashes, but for a look that is overtaken by another's writing, --force *)
(* and the removal of a lock that is not one's own.                        *)
THEOREM LockIsEnough == Spec => []LockSuffices
<1>1. IInv => LockSuffices
  BY NobodyAssumption DEF IInv, Alone, LockSuffices
<1> QED
  BY <1>1, Invariant, PTL

(* A receipt vouches for one complete version, whatever processes died     *)
(* before and wherever they did, unless one died removing the directory.   *)
THEOREM ReceiptsVouch == Spec => []ReceiptVouches
<1>1. IInv => ReceiptVouches
  BY DEF IInv, Vouched, ReceiptVouches
<1> QED
  BY <1>1, Invariant, PTL

(* rename(), whose failure promote_cwd() would not see, does not fail.     *)
THEOREM RenameDoesNotFail == Spec => []RenameSucceeds
<1>1. IInv => RenameSucceeds
  BY DEF IInv, StagingOK, PackageOK, RenameSucceeds, CanRename, EmptyDir,
         NoDir
<1> QED
  BY <1>1, Invariant, PTL

(* Without crashes, whatever is there when every process is at rest, an    *)
(* installation or --debug has left, or else a request given up between    *)
(* its link and its receipt.                                               *)
THEOREM AllOrNothingIsLeft == Spec => []AllOrNothing
<1>1. ASSUME IInv PROVE AllOrNothing
  <2> SUFFICES ASSUME Quiet, crashes = 0, Undisturbed
               PROVE  /\ lock # Nobody => pc[lock] = "stuck"
                      /\ staging.there => staging.log
                      /\ pkgdir.there => IF pkgdir.receipt THEN LinkSeen
                                         ELSE pkgdir.log
                      /\ link # NoLink => LinkSeen \/ stray
    BY DEF AllOrNothing
  <2>1. \A p \in Procs : pc[p] \in {"idle", "stuck"}
    BY DEF Quiet, Resting
  <2>2. Owned /\ Linked /\ lock \in Procs \cup {Nobody}
    BY <1>1 DEF IInv, TypeOK
  <2>3. \A p \in Procs : /\ ~ Removing(p)
                         /\ pc[p] \notin Working \cup {"cleanup"}
    BY <2>1 DEF Removing, Discards, Working
  <2>4. lock # Nobody => pc[lock] = "stuck"
    BY <2>1, <2>2 DEF Owned, LockKept
  <2>5. staging.there => staging.log
    BY <2>2, <2>3 DEF Owned, StagingKept, Stages
  <2>6. pkgdir.there => IF pkgdir.receipt THEN LinkSeen ELSE pkgdir.log
    BY <2>2, <2>3 DEF Owned, PackageKept, Finishes, Working
  <2>7. link # NoLink => LinkSeen \/ stray
    BY <2>2, <2>3 DEF Linked, Working
  <2> QED
    BY <2>4, <2>5, <2>6, <2>7
<1> QED
  BY <1>1, Invariant, PTL

(* --force gets past whatever crashes have left, if all versions link one  *)
(* path, as they do unless a new version renames its executable.           *)
THEOREM ForceIsEnough ==
    ASSUME OnePath
    PROVE  Spec => []ForceRecovers
<1>1. ASSUME IInv PROVE ForceRecovers
  BY <1>1, OnePath DEF IInv, Forced, ForceRecovers
<1> QED
  BY <1>1, Invariant, PTL
=============================================================================

----------------------------- MODULE MasonDisk -----------------------------
(***************************************************************************)
(* What the installer of mason does to the install location, which all     *)
(* Neovim processes of the user share: the lock file, the staging          *)
(* directory, the promotion of the staging directory, the link in bin/ and *)
(* the receipt; for one package, as packages have separate files.  Within  *)
(* a process one request at a time is at work on a package                 *)
(* (MasonInstaller!OneAtWorkPerPackage), so a process is one sequence of   *)
(* requests here.  Processes interleave between system calls, a request    *)
(* can be given up at each of its awaits, and a process can die anywhere.  *)
(***************************************************************************)
EXTENDS Naturals, FiniteSets

CONSTANTS Procs,       \* the Neovim processes
          Versions,    \* the versions of the package
          Target,      \* the path that each version links in bin/
          Options,     \* the options of the installations
          Uninstalling,\* there are uninstallations, too
          MaxCrashes,  \* how many processes die
          Nobody,      \* no lock file
          NoLink       \* no link in bin/

ASSUME OptionsAssumption == Options \subseteq SUBSET {"force", "debug"}
ASSUME UninstallingAssumption == Uninstalling \in BOOLEAN
ASSUME NobodyAssumption == Nobody \notin Procs
ASSUME NoLinkAssumption == \A v \in Versions : Target[v] # NoLink
ASSUME MaxCrashesAssumption == MaxCrashes \in Nat

VARIABLES
    lock,      \* the process whose pid is in the lock file
    staging,   \* the staging directory
    pkgdir,    \* the package's directory
    link,      \* what the link in bin/ points to
    pc,        \* the next system call of each process
    ver,       \* the version it installs
    force,     \* opts.force
    debug,     \* opts.debug
    cwd,       \* context.cwd
    failed,    \* why its request failed
    crashes,   \* processes that died so far
    raced,     \* the processes since whose look at the lock file another
               \* has written it
    lost,      \* a lock was lost in one of the ways that the code leaves
    met,       \* the package was uninstalled while it was installed
    stray,     \* the link is one of a request that was given up before it
               \* wrote its receipt
    torn       \* a process died while it removed the package's directory

diskVars == <<lock, staging, pkgdir, link>>
optVars == <<ver, force, debug>>
deaths == <<crashes, torn>>
past == <<raced, lost, met>>
vars == <<lock, staging, pkgdir, link, pc, ver, force, debug, cwd, failed,
          crashes, raced, lost, met, stray, torn>>

-----------------------------------------------------------------------------
(* An installer puts two parts in the staging directory, the executable    *)
(* last: enough to tell a complete version from a partial or mixed one.    *)
Parts == Versions \X {1, 2}
(* --debug adds a log.                                                     *)
Dir == [there : BOOLEAN, parts : SUBSET Parts, receipt : BOOLEAN,
        log : BOOLEAN]
NoDir == [there |-> FALSE, parts |-> {}, receipt |-> FALSE, log |-> FALSE]
EmptyDir == [NoDir EXCEPT !.there = TRUE]

Working == {"stage", "part1", "part2", "unlinkold", "rmold", "mkdir", "rename",
            "link", "symlink", "receipt"}
Resting == {"idle", "stuck"}
Pcs == Working \cup Resting \cup {"check", "write", "cleanup", "unlock",
                                    "unlink", "remove"}
Failures == {"none", "gaveup", "locked", "stale", "linked", "exists",
             "missing"}

TypeOK ==
    /\ lock \in Procs \cup {Nobody}
    /\ staging \in Dir /\ pkgdir \in Dir
    /\ link \in {Target[v] : v \in Versions} \cup {NoLink}
    /\ pc \in [Procs -> Pcs]
    /\ ver \in [Procs -> Versions]
    /\ force \in [Procs -> BOOLEAN] /\ debug \in [Procs -> BOOLEAN]
    /\ cwd \in [Procs -> {"none", "staging", "package"}]
    /\ failed \in [Procs -> Failures]
    /\ crashes \in 0..MaxCrashes
    /\ raced \subseteq Procs
    /\ lost \in BOOLEAN /\ met \in BOOLEAN
    /\ stray \in BOOLEAN /\ torn \in BOOLEAN

Init ==
    /\ lock = Nobody /\ staging = NoDir /\ pkgdir = NoDir /\ link = NoLink
    /\ pc = [p \in Procs |-> "idle"]
    /\ ver \in [Procs -> Versions]
    /\ force = [p \in Procs |-> FALSE] /\ debug = [p \in Procs |-> FALSE]
    /\ cwd = [p \in Procs |-> "none"]
    /\ failed = [p \in Procs |-> "none"]
    /\ crashes = 0
    /\ raced = {} /\ lost = FALSE /\ met = FALSE
    /\ stray = FALSE /\ torn = FALSE

(* At work: from the lock on, until the finalizer has removed what is to   *)
(* be removed, or has written its log.                                     *)
AtWork(p) == pc[p] \in Working \/ (pc[p] = "cleanup" /\ cwd[p] # "none")

Goto(p, l) == pc' = [pc EXCEPT ![p] = l]

(* The request ends, and with it its options, its context and its error.   *)
End(p, l) ==
    /\ Goto(p, l)
    /\ force' = [force EXCEPT ![p] = FALSE]
    /\ debug' = [debug EXCEPT ![p] = FALSE]
    /\ cwd' = [cwd EXCEPT ![p] = "none"]
    /\ failed' = [failed EXCEPT ![p] = "none"]
    /\ UNCHANGED ver

Fail(p, why) == Goto(p, "cleanup") /\ failed' = [failed EXCEPT ![p] = why]

(* file_exists() follows the link: it sees the link only if its target is  *)
(* in the package's directory.                                             *)
Executable(path) ==
    \E v \in Versions : <<v, 2>> \in pkgdir.parts /\ Target[v] = path
LinkSeen == link # NoLink /\ Executable(link)

(* The request of q that wrote the lock file has not released it. *)
Holds(q) == lock = q /\ pc[q] \in Working \cup {"cleanup", "unlock"}

(* The lock of another request, which has not released it, is overwritten: *)
(* with --force, which does not look at it, or by a request that looked at *)
(* the lock file before that other request wrote it.                       *)
Overwrites(p) ==
    /\ force[p] \/ p \in raced
    /\ \E q \in Procs \ {p} : Holds(q)

(* The lock of another request, which has not released it, is removed: the *)
(* finalizer does not look at whose it is.                                 *)
Steals(p) == \E q \in Procs \ {p} : Holds(q)

(* p removes the package, and looks at no lock. *)
Uninstalls(p) == pc[p] \in {"unlink", "remove"}

-----------------------------------------------------------------------------
(* The lock file.                                                          *)

Start(p, v, opts) ==
    /\ pc[p] = "idle"
    /\ ver' = [ver EXCEPT ![p] = v]
    /\ force' = [force EXCEPT ![p] = "force" \in opts]
    /\ debug' = [debug EXCEPT ![p] = "debug" \in opts]
    /\ Goto(p, IF "force" \in opts THEN "write" ELSE "check")
    /\ UNCHANGED <<diskVars, cwd, failed, deaths, past, stray>>

(* Mutant: that the file is there is not looked at. *)
CheckLockBlind(p) ==
    /\ pc[p] = "check"
    /\ raced' = raced \ {p}
    /\ Goto(p, "write")
    /\ UNCHANGED <<diskVars, optVars, cwd, failed, deaths, lost, met, stray>>

(* acquire_lock(), before its second await. *)
CheckLock(p) ==
    /\ pc[p] = "check"
    /\ raced' = raced \ {p}
    /\ \/ /\ lock = Nobody
          /\ Goto(p, "write")
          /\ UNCHANGED failed
       \/ /\ lock # Nobody
          /\ Fail(p, IF lock # p /\ pc[lock] \notin Resting
                     THEN "locked" ELSE "stale")
    /\ UNCHANGED <<diskVars, optVars, cwd, deaths, lost, met, stray>>

(* acquire_lock(), the rest: the file is opened for writing, there or not. *)
WriteLock(p) ==
    /\ pc[p] = "write"
    /\ lost' = (lost \/ Overwrites(p))
    /\ met' = (met \/ \E q \in Procs : Uninstalls(q))
    /\ raced' = {q \in Procs \ {p} : pc[q] = "write"}
    /\ lock' = p
    /\ Goto(p, "stage")
    /\ UNCHANGED <<staging, pkgdir, link, optVars, cwd, failed, deaths, stray>>

(* release_lock(): whoever wrote the lock file, it is removed. *)
Unlock(p) ==
    /\ pc[p] = "unlock"
    /\ lost' = (lost \/ Steals(p))
    /\ lock' = Nobody
    /\ End(p, "idle")
    /\ UNCHANGED <<staging, pkgdir, link, deaths, raced, met, stray>>

-----------------------------------------------------------------------------
(* Staging.                                                                *)

(* Mutant: a staging directory left behind is used again. *)
StageAgain(p) ==
    /\ pc[p] = "stage"
    /\ staging' = [staging EXCEPT !.there = TRUE]
    /\ cwd' = [cwd EXCEPT ![p] = "staging"]
    /\ Goto(p, "part1")
    /\ UNCHANGED <<lock, pkgdir, link, optVars, failed, deaths, past, stray>>

(* cwd:initialize() removes what is left of an earlier attempt. *)
Stage(p) ==
    /\ pc[p] = "stage"
    /\ staging' = EmptyDir
    /\ cwd' = [cwd EXCEPT ![p] = "staging"]
    /\ Goto(p, "part1")
    /\ UNCHANGED <<lock, pkgdir, link, optVars, failed, deaths, past, stray>>

(* The installer works in the staging directory, and fails if it is gone.  *)
Build(p, part) ==
    /\ pc[p] = IF part = 1 THEN "part1" ELSE "part2"
    /\ \/ /\ staging.there
          /\ staging' = [staging EXCEPT !.parts = @ \cup {<<ver[p], part>>}]
          /\ Goto(p, IF part = 1 THEN "part2" ELSE "unlinkold")
          /\ UNCHANGED failed
       \/ /\ ~ staging.there
          /\ Fail(p, "missing")
          /\ UNCHANGED staging
    /\ UNCHANGED <<lock, pkgdir, link, optVars, cwd, deaths, past, stray>>

-----------------------------------------------------------------------------
(* promote_cwd().                                                          *)

(* The uninstallation of the old version: its receipt, if it has one,      *)
(* tells which link to remove.                                             *)
UnlinkOld(p) ==
    /\ pc[p] = "unlinkold"
    /\ Goto(p, IF pkgdir.there THEN "rmold" ELSE "mkdir")
    /\ link' = IF pkgdir.receipt THEN NoLink ELSE link
    /\ stray' = (stray /\ link' # NoLink)
    /\ UNCHANGED <<lock, staging, pkgdir, optVars, cwd, failed, deaths, past>>

(* Mutant: the old version is not removed before the new one is moved. *)
RemoveNothing(p) ==
    /\ pc[p] = "rmold"
    /\ Goto(p, "mkdir")
    /\ UNCHANGED <<diskVars, optVars, cwd, failed, deaths, past, stray>>

RemoveOld(p) ==
    /\ pc[p] = "rmold"
    /\ pkgdir' = NoDir
    /\ Goto(p, "mkdir")
    /\ UNCHANGED <<lock, staging, link, optVars, cwd, failed, deaths, past,
                   stray>>

(* The finalizer keeps nothing of a request that failed, but for --debug. *)
Discards(p) == failed[p] # "none" /\ ~ debug[p]

(* rmrf() is not atomic: a process that dies may leave part of it. *)
Removing(p) ==
    \/ pc[p] \in {"rmold", "remove"}
    \/ pc[p] = "cleanup" /\ cwd[p] = "package" /\ Discards(p)

RemovePart(p) ==
    /\ Removing(p) /\ pkgdir.there
    /\ \E x \in pkgdir.parts, rc \in {pkgdir.receipt, FALSE},
          lg \in {pkgdir.log, FALSE} :
          pkgdir' = [pkgdir EXCEPT !.parts = @ \ {x}, !.receipt = rc,
                                   !.log = lg]
    /\ UNCHANGED <<lock, staging, link, pc, optVars, cwd, failed, deaths, past,
                   stray>>

(* mkdir() says nothing if the directory exists. *)
Mkdir(p) ==
    /\ pc[p] = "mkdir"
    /\ pkgdir' = IF pkgdir.there THEN pkgdir ELSE EmptyDir
    /\ Goto(p, "rename")
    /\ UNCHANGED <<lock, staging, link, optVars, cwd, failed, deaths, past,
                   stray>>

CanRename ==
    /\ staging.there
    /\ pkgdir.there => pkgdir = EmptyDir

(* fs.sync.rename returns an error and does not raise it, so that          *)
(* promote_cwd() goes on as if it had succeeded.                           *)
Rename(p) ==
    /\ pc[p] = "rename"
    /\ pkgdir' = IF CanRename THEN staging ELSE pkgdir
    /\ staging' = IF CanRename THEN NoDir ELSE staging
    /\ cwd' = [cwd EXCEPT ![p] = "package"]
    /\ Goto(p, "link")
    /\ UNCHANGED <<lock, link, optVars, failed, deaths, past, stray>>

-----------------------------------------------------------------------------
(* Linking, and the receipt.                                               *)

(* Mutant: --force fails on a link that is there, like the rest. *)
LinkCheckUnforced(p) ==
    /\ pc[p] = "link"
    /\ \/ /\ LinkSeen
          /\ Fail(p, "linked")
       \/ /\ ~ LinkSeen
          /\ Goto(p, "symlink")
          /\ UNCHANGED failed
    /\ UNCHANGED <<diskVars, optVars, cwd, deaths, past, stray>>

(* link(): a link that is seen is removed with --force, and is an error    *)
(* without; then the target has to be there.                               *)
LinkCheck(p) ==
    /\ pc[p] = "link"
    /\ \/ /\ LinkSeen /\ ~ force[p]
          /\ Fail(p, "linked")
          /\ UNCHANGED link
       \/ /\ LinkSeen => force[p]
          /\ link' = IF LinkSeen THEN NoLink ELSE link
          /\ IF Executable(Target[ver[p]])
             THEN Goto(p, "symlink") /\ UNCHANGED failed
             ELSE Fail(p, "missing")
    /\ stray' = (stray /\ link' # NoLink)
    /\ UNCHANGED <<lock, staging, pkgdir, optVars, cwd, deaths, past>>

(* Mutant: the link points to the version, not to its path. *)
SymlinkVersion(p) ==
    /\ pc[p] = "symlink"
    /\ \/ /\ link = NoLink
          /\ link' = ver[p]
          /\ Goto(p, "receipt")
          /\ UNCHANGED failed
       \/ /\ link # NoLink
          /\ Fail(p, "exists")
          /\ UNCHANGED link
    /\ UNCHANGED <<lock, staging, pkgdir, optVars, cwd, deaths, past, stray>>

(* fs_symlink: EEXIST if there is a link of that name, dangling or not. *)
Symlink(p) ==
    /\ pc[p] = "symlink"
    /\ \/ /\ link = NoLink
          /\ link' = Target[ver[p]]
          /\ Goto(p, "receipt")
          /\ UNCHANGED failed
       \/ /\ link # NoLink
          /\ Fail(p, "exists")
          /\ UNCHANGED link
    /\ UNCHANGED <<lock, staging, pkgdir, optVars, cwd, deaths, past, stray>>

(* The receipt is the last file written.  If it cannot be, the link stays. *)
WriteReceipt(p) ==
    /\ pc[p] = "receipt"
    /\ \/ /\ pkgdir.there
          /\ pkgdir' = [pkgdir EXCEPT !.receipt = TRUE]
          /\ Goto(p, "cleanup")
          /\ UNCHANGED <<failed, stray>>
       \/ /\ ~ pkgdir.there
          /\ Fail(p, "missing")
          /\ stray' = TRUE
          /\ UNCHANGED pkgdir
    /\ UNCHANGED <<lock, staging, link, optVars, cwd, deaths, past>>

-----------------------------------------------------------------------------
(* Giving up.                                                              *)

(* The installer fails, or the request is cancelled at an await; a system  *)
(* call under way is still carried out.  promote_cwd() has no await.  A     *)
(* link that is there already is not removed.                              *)
GiveUp(p) ==
    /\ pc[p] \in {"check", "write", "stage", "part1", "part2", "link",
                  "symlink", "receipt"}
    /\ Fail(p, "gaveup")
    /\ stray' = (stray \/ pc[p] = "receipt")
    /\ UNCHANGED <<diskVars, optVars, cwd, deaths, past>>

(* Mutant: the finalizer removes the staging directory, wherever cwd is. *)
CleanUpStaging(p) ==
    /\ pc[p] = "cleanup"
    /\ staging' = IF cwd[p] # "none" /\ Discards(p) THEN NoDir ELSE staging
    /\ Goto(p, "unlock")
    /\ UNCHANGED <<lock, pkgdir, link, optVars, cwd, failed, deaths, past,
                   stray>>

(* Without --debug the finalizer of a request that failed removes          *)
(* context.cwd, which after the promotion is the package's directory.      *)
CleanUp(p) ==
    /\ pc[p] = "cleanup" /\ ~ debug[p]
    /\ staging' = IF cwd[p] = "staging" /\ Discards(p) THEN NoDir ELSE staging
    /\ pkgdir' = IF cwd[p] = "package" /\ Discards(p) THEN NoDir ELSE pkgdir
    /\ Goto(p, "unlock")
    /\ UNCHANGED <<lock, link, optVars, cwd, failed, deaths, past, stray>>

(* With --debug it adds its log to context.cwd, which it keeps.  If there  *)
(* is no such directory, writing the log raises, and the finalizer goes no *)
(* further: the lock file stays, as do the handle and the permits, so that *)
(* the process is done with the package.                                   *)
WriteLog(p) ==
    /\ pc[p] = "cleanup" /\ debug[p]
    /\ \/ /\ cwd[p] = "staging" /\ staging.there
          /\ staging' = [staging EXCEPT !.log = TRUE]
          /\ Goto(p, "unlock")
          /\ UNCHANGED <<pkgdir, optVars, cwd, failed>>
       \/ /\ cwd[p] = "package" /\ pkgdir.there
          /\ pkgdir' = [pkgdir EXCEPT !.log = TRUE]
          /\ Goto(p, "unlock")
          /\ UNCHANGED <<staging, optVars, cwd, failed>>
       \/ /\ cwd[p] = "staging" => ~ staging.there
          /\ cwd[p] = "package" => ~ pkgdir.there
          /\ End(p, "stuck")
          /\ UNCHANGED <<staging, pkgdir>>
    /\ UNCHANGED <<lock, link, deaths, past, stray>>

(* Neovim dies, or exits before the finalizer has run. *)
Crash(p) ==
    /\ pc[p] # "idle" /\ crashes < MaxCrashes
    /\ crashes' = crashes + 1
    /\ torn' = (torn \/ Removing(p))
    /\ End(p, "idle")
    /\ UNCHANGED <<diskVars, past, stray>>

-----------------------------------------------------------------------------
(* Uninstalling: no lock is looked at.                                     *)

Uninstall(p) ==
    /\ pc[p] = "idle" /\ Uninstalling
    /\ pkgdir.there
    /\ failed' = [failed EXCEPT ![p] = "none"]
    /\ Goto(p, "unlink")
    /\ met' = (met \/ \E q \in Procs : AtWork(q))
    /\ UNCHANGED <<diskVars, optVars, cwd, deaths, raced, lost, stray>>

Unlink(p) ==
    /\ pc[p] = "unlink"
    /\ link' = IF pkgdir.receipt THEN NoLink ELSE link
    /\ Goto(p, "remove")
    /\ stray' = (stray /\ link' # NoLink)
    /\ UNCHANGED <<lock, staging, pkgdir, optVars, cwd, failed, deaths, past>>

Remove(p) ==
    /\ pc[p] = "remove"
    /\ pkgdir' = NoDir
    /\ Goto(p, "idle")
    /\ UNCHANGED <<lock, staging, link, optVars, cwd, failed, deaths, past,
                   stray>>

-----------------------------------------------------------------------------
Next ==
    \E p \in Procs :
        \/ \E v \in Versions, opts \in Options : Start(p, v, opts)
        \/ CheckLock(p) \/ WriteLock(p) \/ Unlock(p)
        \/ Stage(p) \/ Build(p, 1) \/ Build(p, 2)
        \/ UnlinkOld(p) \/ RemoveOld(p) \/ RemovePart(p)
        \/ Mkdir(p) \/ Rename(p)
        \/ LinkCheck(p) \/ Symlink(p) \/ WriteReceipt(p)
        \/ GiveUp(p) \/ CleanUp(p) \/ WriteLog(p) \/ Crash(p)
        \/ Uninstall(p) \/ Unlink(p) \/ Remove(p)

Spec == Init /\ [][Next]_vars

-----------------------------------------------------------------------------
Quiet == \A p \in Procs : pc[p] \in Resting
Complete(dir, v) == dir.parts = {v} \X {1, 2}

(* Every process has kept the lock that it has written, and has not met an *)
(* uninstallation.                                                         *)
Undisturbed == ~ lost /\ ~ met

(* The lock file keeps two processes from being at work on the package at  *)
(* once, whatever died or was given up where, except in the ways that the  *)
(* code leaves: two requests look for the lock file before either writes   *)
(* it, --force overwrites a lock that is held, or the finalizer of a       *)
(* request that has not written the lock file removes it.  Uninstalling    *)
(* changes nothing about it.                                               *)
LockSuffices ==
    ~ lost => \A p, q \in Procs : AtWork(p) /\ AtWork(q) => p = q

(* As long as no process loses its lock, a directory with a receipt holds  *)
(* one complete version, neither partial nor mixed, whatever processes     *)
(* died before: at every instant but while it is removed, or after a       *)
(* process died removing it.                                               *)
ReceiptVouches ==
    /\ pkgdir.receipt
    /\ Undisturbed /\ ~ torn
    /\ \A p \in Procs : ~ Removing(p)
    => \E v \in Versions : Complete(pkgdir, v)

(* promote_cwd() cannot see that rename() failed, but it does not fail,    *)
(* whatever crashes and --debug have left, as long as no lock is lost.     *)
RenameSucceeds ==
    \A p \in Procs : pc[p] = "rename" /\ Undisturbed =>
        /\ CanRename
        /\ Complete(staging, ver[p])

(* Once every process is at rest and none has died, what is left is what   *)
(* an installation or --debug has left: no lock but that of a process      *)
(* where --debug has stopped the finalizer, no staging directory but one   *)
(* with such a log, a package directory only with its receipt and its      *)
(* link, or with a log, and a link without its executable only of a        *)
(* request that was given up between the link and the receipt, whose link  *)
(* nothing removes.                                                        *)
AllOrNothing ==
    Quiet /\ crashes = 0 /\ Undisturbed =>
        /\ lock # Nobody => pc[lock] = "stuck"
        /\ staging.there => staging.log
        /\ pkgdir.there => IF pkgdir.receipt THEN LinkSeen ELSE pkgdir.log
        /\ link # NoLink => LinkSeen \/ stray

(* An installation with --force fails only if the installer does or if it  *)
(* is cancelled: it gets past stale locks, staging directories, package    *)
(* directories and links, wherever earlier processes died, and whatever    *)
(* others do as long as no lock is lost.  (All versions link one path.)    *)
ForceRecovers ==
    Undisturbed =>
        \A p \in Procs : force[p] => failed[p] \in {"none", "gaveup"}

-----------------------------------------------------------------------------
(* What a message of the code says, and the code does not do.              *)

(* InstallRunner.lua: "Lockfile exists, installation is already running in *)
(* another process [...] Run with :MasonInstall --force to bypass": the    *)
(* request that is refused leaves the installation under way in the other  *)
(* process its lock.                                                       *)
RefusedKeepsLock ==
    [][\A p \in Procs :
        pc[p] = "unlock" /\ pc'[p] = "idle" /\ failed[p] = "locked" /\ lock # p
            => lock' = lock]_vars
=============================================================================

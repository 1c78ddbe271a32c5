--------------------------- MODULE MasonInstaller ---------------------------
(***************************************************************************)
(* The installer of the mason package manager inside one Neovim process:   *)
(* install and uninstall requests, their handles, the coroutines that      *)
(* serve them, the two semaphores they queue on, cancellation, the         *)
(* finalizers that clean up, and the termination of everything when Neovim *)
(* exits.  What the requests do on the disk, and to other processes, is in *)
(* MasonDisk; here an installation is only as long as its awaits.          *)
(*                                                                         *)
(* Lua code runs to completion: a callback, and everything it resumes      *)
(* synchronously, is never interrupted.  `stack` holds what the running    *)
(* callback still has to do, innermost call first, and every event waits   *)
(* until it is empty.  One forget() may thus resume a second runner, whose *)
(* callback may forget() in turn, before the first runner goes on.         *)
(*                                                                         *)
(* File operations of libuv, child processes and the user's requests are   *)
(* events of their own.  So is what vim.schedule queues (a.scheduler, and  *)
(* rmrf in a fast event) where a cancellation in between makes a           *)
(* difference, which is in the finalizer.  In the main coroutine it makes  *)
(* none: cancelled there, it is as if cancelled at the await before.       *)
(***************************************************************************)
EXTENDS Naturals, Sequences, FiniteSets

CONSTANTS Packages,       \* the packages of the registry
          Runners,        \* requests: each is one install() or uninstall()
          MaxConcurrent,  \* settings.max_concurrent_installers
          MaxTerminated,  \* how many requests are cancelled
          DebugOptions,   \* the values of opts.debug that are tried
          Global,         \* the name of AbstractPackage.SEMAPHORE
          NoPackage       \* the package of a request not made yet

ASSUME RunnersAssumption == IsFiniteSet(Runners)
ASSUME MaxConcurrentAssumption == MaxConcurrent \in Nat \ {0}
ASSUME MaxTerminatedAssumption == MaxTerminated \in Nat
ASSUME DebugOptionsAssumption == DebugOptions \subseteq BOOLEAN
ASSUME GlobalAssumption == Global \notin Packages
ASSUME NoPackageAssumption == NoPackage \notin Packages \cup {Global}

VARIABLES
    job,        \* what each runner was asked to do
    state,      \* its InstallHandle: the state
    terminated, \* and is_terminated
    main,       \* where its main coroutine is suspended
    cwd,        \* context.cwd: not set, the staging directory, or, after the
                \* promotion, the package's directory
    child,      \* the child process registered with the handle
    final,      \* its finalizers: the one of the main coroutine, and the
                \* one that terminate() runs once the handle is closed
    reports,    \* how often its callback was called
    permit,     \* its two permits, by level
    free,       \* permits left in each semaphore
    queue,      \* runners parked in acquire(), by semaphore
    installed,  \* the packages whose directory exists
    stack,      \* the calls the running callback has not finished
    exiting     \* VimLeavePre has fired

semVars == <<permit, free, queue>>
jobVars == <<job, cwd, child>>
handleVars == <<state, terminated>>
vars == <<job, state, terminated, main, cwd, child, final, reports, permit,
          free, queue, installed, stack, exiting>>

-----------------------------------------------------------------------------
Semaphores == Packages \cup {Global}
Levels == {"global", "package"}

(* Status of a permit.  "granted": acquire() has been given the permit but *)
(* its caller has not run yet; "forgotten": forget() was called but the    *)
(* field that holds the Permit object is not nil yet.                      *)
Statuses == {"none", "waiting", "granted", "held", "forgotten"}

HandleStates == {"NONE", "IDLE", "QUEUED", "ACTIVE", "CLOSED"}
MainStates == {"none", "queued", "locking", "installing", "linking",
               "removing", "hung", "cancelled", "done"}
Finalizers == {"own", "abort"}
FinalStates == {"none", "logging", "sweeping", "unlocking", "dead", "done"}
Ops == {"acquire", "granted", "release", "forgotten", "report"}

Frame == [op : Ops, r : Runners, l : Levels]

TypeOK ==
    /\ job \in [Runners -> [kind : {"none", "install", "uninstall"},
                            pkg : Packages \cup {NoPackage},
                            debug : BOOLEAN]]
    /\ state \in [Runners -> HandleStates]
    /\ terminated \in [Runners -> BOOLEAN]
    /\ main \in [Runners -> MainStates]
    /\ cwd \in [Runners -> {"none", "staging", "package"}]
    /\ child \in [Runners -> {"none", "running", "killed", "exited"}]
    /\ final \in [Runners -> [Finalizers -> FinalStates]]
    /\ reports \in [Runners -> Nat]
    /\ permit \in [Runners -> [Levels -> Statuses]]
    /\ free \in [Semaphores -> Nat]
    /\ queue \in [Semaphores -> Seq(Runners)]
    /\ installed \in SUBSET Packages
    /\ stack \in Seq(Frame)
    /\ exiting \in BOOLEAN

Capacity(s) == IF s = Global THEN MaxConcurrent ELSE 1

Init ==
    /\ job = [r \in Runners |-> [kind |-> "none", pkg |-> NoPackage,
                                 debug |-> FALSE]]
    /\ state = [r \in Runners |-> "NONE"]
    /\ terminated = [r \in Runners |-> FALSE]
    /\ main = [r \in Runners |-> "none"]
    /\ cwd = [r \in Runners |-> "none"]
    /\ child = [r \in Runners |-> "none"]
    /\ final = [r \in Runners |-> [a \in Finalizers |-> "none"]]
    /\ reports = [r \in Runners |-> 0]
    /\ permit = [r \in Runners |-> [l \in Levels |-> "none"]]
    /\ free = [s \in Semaphores |-> Capacity(s)]
    /\ queue = [s \in Semaphores |-> <<>>]
    /\ installed \in SUBSET Packages
    /\ stack = <<>>
    /\ exiting = FALSE

Idle == stack = <<>>
IsInstall(r) == job[r].kind = "install"
Open(r) == state[r] \in {"IDLE", "QUEUED", "ACTIVE"}
Closing(r) == state[r] = "CLOSED" \/ terminated[r]

(* pkg.install_handle is the newest one; it may only be replaced once it   *)
(* is closed, so looking at all the handles of the package is the same.    *)
Installing(p) == \E r \in Runners : job[r].pkg = p /\ IsInstall(r) /\ Open(r)
Uninstalling(p) ==
    \E r \in Runners : job[r].pkg = p /\ job[r].kind = "uninstall" /\ Open(r)

Sem(r, l) == IF l = "global" THEN Global ELSE job[r].pkg

-----------------------------------------------------------------------------
(* The running callback.                                                   *)

Running(op) == stack # <<>> /\ Head(stack).op = op
Top == Head(stack)
Call(op, r, l) == [op |-> op, r |-> r, l |-> l]
Continue(frames) == stack' = frames \o Tail(stack)

SetPermit(r, l, status) == permit' = [permit EXCEPT ![r][l] = status]

(* Mutant: acquire() does not look at the permits left. *)
AcquireUnchecked ==
    /\ Running("acquire")
    /\ free' = [free EXCEPT ![Sem(Top.r, Top.l)] = @ - 1]
    /\ SetPermit(Top.r, Top.l, "granted")
    /\ Continue(<<Call("granted", Top.r, Top.l)>>)
    /\ UNCHANGED <<jobVars, handleVars, main, final, reports, queue,
                   installed, exiting>>

(* Semaphore:acquire(): take a permit at once or park. *)
Acquire ==
    /\ Running("acquire")
    /\ LET r == Top.r
           l == Top.l
           s == Sem(r, l)
       IN \/ /\ free[s] > 0
             /\ free' = [free EXCEPT ![s] = @ - 1]
             /\ SetPermit(r, l, "granted")
             /\ Continue(<<Call("granted", r, l)>>)
             /\ UNCHANGED queue
          \/ /\ ~ (free[s] > 0)
             /\ queue' = [queue EXCEPT ![s] = Append(@, r)]
             /\ SetPermit(r, l, "waiting")
             /\ Continue(<<>>)
             /\ UNCHANGED free
    /\ UNCHANGED <<jobVars, handleVars, main, final, reports, installed,
                   exiting>>

(* Mutant: the callback of acquire_permit() does not look at the handle. *)
GrantedUnchecked ==
    /\ Running("granted")
    /\ SetPermit(Top.r, Top.l, "held")
    /\ \/ /\ Top.l = "global"
          /\ Continue(<<Call("acquire", Top.r, "package")>>)
          /\ UNCHANGED <<state, main>>
       \/ /\ Top.l = "package"
          /\ state' = [state EXCEPT ![Top.r] = "ACTIVE"]
          /\ main' = [main EXCEPT ![Top.r] =
                        IF IsInstall(Top.r) THEN "locking" ELSE "removing"]
          /\ Continue(<<>>)
    /\ UNCHANGED <<terminated, jobVars, final, reports, free, queue,
                   installed, exiting>>

(* acquire_permit(), once acquire() returns: keep the permit, ask for the  *)
(* package's; with both, activate the handle and resume the main coroutine *)
(* up to its first await, or give both back if the handle is closing.      *)
Granted ==
    /\ Running("granted")
    /\ SetPermit(Top.r, Top.l, "held")
    /\ \/ /\ Top.l = "global"
          /\ Continue(<<Call("acquire", Top.r, "package")>>)
          /\ UNCHANGED <<state, main>>
       \/ /\ Top.l = "package" /\ Closing(Top.r)
          /\ Continue(<<Call("release", Top.r, "global")>>)
          /\ UNCHANGED <<state, main>>
       \/ /\ Top.l = "package" /\ ~ Closing(Top.r)
          /\ state' = [state EXCEPT ![Top.r] = "ACTIVE"]
          /\ main' = [main EXCEPT ![Top.r] =
                        IF IsInstall(Top.r) THEN "locking" ELSE "removing"]
          /\ Continue(<<>>)
    /\ UNCHANGED <<terminated, jobVars, final, reports, free, queue,
                   installed, exiting>>

(* Mutant: release_permit() does not clear the field of the global permit. *)
ForgottenKept ==
    /\ Running("forgotten")
    /\ SetPermit(Top.r, Top.l, IF Top.l = "global" THEN "held" ELSE "none")
    /\ Continue(IF Top.l = "global"
                THEN <<Call("release", Top.r, "package")>> ELSE <<>>)
    /\ UNCHANGED <<jobVars, handleVars, main, final, reports, free, queue,
                   installed, exiting>>

(* What release_permit() does after forget() has returned: it clears the   *)
(* field, and goes on with the permit of the package.                      *)
Forgotten ==
    /\ Running("forgotten")
    /\ SetPermit(Top.r, Top.l, "none")
    /\ Continue(IF Top.l = "global"
                THEN <<Call("release", Top.r, "package")>> ELSE <<>>)
    /\ UNCHANGED <<jobVars, handleVars, main, final, reports, free, queue,
                   installed, exiting>>

(* release_permit(), for one of the two permits: if the field is set,      *)
(* forget() it, which runs the first waiter before this call goes on.      *)
Release ==
    /\ Running("release")
    /\ LET r == Top.r
           l == Top.l
           s == Sem(r, l)
           held == permit[r][l] \in {"held", "forgotten"}
           w == Head(queue[s])
       IN \/ /\ held /\ queue[s] # <<>>
             /\ queue' = [queue EXCEPT ![s] = Tail(@)]
             /\ permit' = [permit EXCEPT ![r][l] = "forgotten",
                                         ![w][l] = "granted"]
             /\ Continue(<<Call("granted", w, l), Call("forgotten", r, l)>>)
             /\ UNCHANGED free
          \/ /\ held /\ queue[s] = <<>>
             /\ free' = [free EXCEPT ![s] = @ + 1]
             /\ SetPermit(r, l, "forgotten")
             /\ Continue(<<Call("forgotten", r, l)>>)
             /\ UNCHANGED queue
          \/ /\ ~ held
             /\ Continue(IF l = "global"
                         THEN <<Call("release", r, "package")>> ELSE <<>>)
             /\ UNCHANGED semVars
    /\ UNCHANGED <<jobVars, handleVars, main, final, reports, installed,
                   exiting>>

(* The callback of the request, and the events that follow it. *)
Report ==
    /\ Running("report")
    /\ reports' = [reports EXCEPT ![Top.r] = @ + 1]
    /\ Continue(<<>>)
    /\ UNCHANGED <<semVars, jobVars, handleVars, main, final, installed,
                   exiting>>

Step == Acquire \/ Granted \/ Release \/ Forgotten \/ Report

ReleaseAndReport(r) ==
    stack' = <<Call("release", r, "global"), Call("report", r, "global")>>

-----------------------------------------------------------------------------
(* Requests.  Both runners queue their handle and ask for the global       *)
(* permit before they return to the caller.                                *)

Request(r, kind, p, d) ==
    /\ job' = [job EXCEPT ![r] = [kind |-> kind, pkg |-> p, debug |-> d]]
    /\ state' = [state EXCEPT ![r] = "QUEUED"]
    /\ main' = [main EXCEPT ![r] = "queued"]
    /\ stack' = <<Call("acquire", r, "global")>>
    /\ UNCHANGED <<terminated, cwd, child, final, reports, semVars,
                   installed, exiting>>

CanInstall(r, p) ==
    /\ Idle /\ ~ exiting /\ job[r].kind = "none"
    /\ ~ Installing(p) /\ ~ Uninstalling(p)

Install(r, p, d) == CanInstall(r, p) /\ Request(r, "install", p, d)

(* uninstall() does not look at the installation under way. *)
Uninstall(r, p) ==
    /\ Idle /\ ~ exiting /\ job[r].kind = "none"
    /\ p \in installed /\ ~ Uninstalling(p)
    /\ Request(r, "uninstall", p, FALSE)

-----------------------------------------------------------------------------
(* Finalizers.                                                             *)

SetFinal(r, a, status) == final' = [final EXCEPT ![r][a] = status]

CloseUnlessClosing(r) ==
    state' = IF Closing(r) THEN state ELSE [state EXCEPT ![r] = "CLOSED"]

(* Where the finalizer first waits.  With opts.debug it first writes the   *)
(* log into the working directory, which raises an error if that was never *)
(* set: the finalizer ends there.  Otherwise, of a failed request, it      *)
(* removes the working directory if there is one; then it closes the       *)
(* handle and begins to remove the lock file.                              *)
FirstAwait(r, success) ==
    CASE job[r].debug -> IF cwd[r] # "none" THEN "logging" ELSE "dead"
      [] OTHER -> IF ~ success /\ cwd[r] # "none" THEN "sweeping"
                  ELSE "unlocking"

FinalizeOwn(r, success) ==
    /\ SetFinal(r, "own", FirstAwait(r, success))
    /\ IF FirstAwait(r, success) = "unlocking" THEN CloseUnlessClosing(r)
       ELSE UNCHANGED state

FinalizeAbort(r) == SetFinal(r, "abort", FirstAwait(r, FALSE))

(* install(), if the directories of the install location cannot be made:   *)
(* the handle is never queued, and the finalizer runs at once.             *)
InitializeFails(r, p, d) ==
    /\ CanInstall(r, p)
    /\ job' = [job EXCEPT ![r] = [kind |-> "install", pkg |-> p, debug |-> d]]
    /\ main' = [main EXCEPT ![r] = "done"]
    /\ state' = [state EXCEPT ![r] = IF d THEN "IDLE" ELSE "CLOSED"]
    /\ SetFinal(r, "own", IF d THEN "dead" ELSE "unlocking")
    /\ UNCHANGED <<terminated, cwd, child, reports, semVars, installed, stack,
                   exiting>>

LogWritten(r, a) ==
    /\ Idle /\ final[r][a] = "logging"
    /\ SetFinal(r, a, "unlocking")
    /\ CloseUnlessClosing(r)
    /\ UNCHANGED <<terminated, jobVars, main, reports, semVars, installed,
                   stack, exiting>>

(* rmrf() has awaited the main loop, which may have cancelled the request  *)
(* meanwhile; it removes the working directory, which after the promotion  *)
(* is the package's.                                                       *)
Swept(r, a) ==
    /\ Idle /\ final[r][a] = "sweeping"
    /\ SetFinal(r, a, "unlocking")
    /\ installed' = IF cwd[r] = "package" THEN installed \ {job[r].pkg}
                    ELSE installed
    /\ CloseUnlessClosing(r)
    /\ UNCHANGED <<terminated, jobVars, main, reports, semVars, stack,
                   exiting>>

(* Mutant: the finalizer returns without release_permit(). *)
UnlockedWithoutRelease(r, a) ==
    /\ Idle /\ final[r][a] = "unlocking"
    /\ SetFinal(r, a, "done")
    /\ stack' = <<Call("report", r, "global")>>
    /\ UNCHANGED <<jobVars, handleVars, main, reports, semVars, installed,
                   exiting>>

(* The lock file is gone: give the permits back, then call the callback. *)
Unlocked(r, a) ==
    /\ Idle /\ final[r][a] = "unlocking"
    /\ SetFinal(r, a, "done")
    /\ ReleaseAndReport(r)
    /\ UNCHANGED <<jobVars, handleVars, main, reports, semVars, installed,
                   exiting>>

-----------------------------------------------------------------------------
(* The main coroutine of an installation.                                  *)

(* acquire_lock() has returned; the staging directory is made anew. *)
LockTaken(r) ==
    /\ Idle /\ main[r] = "locking"
    /\ main' = [main EXCEPT ![r] = "installing"]
    /\ cwd' = [cwd EXCEPT ![r] = "staging"]
    /\ UNCHANGED <<job, handleVars, child, final, reports, semVars,
                   installed, stack, exiting>>

(* The installer runs a command.  Installers run any number of them, one   *)
(* after the other; one is enough for what depends on it.                  *)
Spawn(r) ==
    /\ Idle /\ main[r] = "installing" /\ child[r] = "none"
    /\ child' = [child EXCEPT ![r] = "running"]
    /\ UNCHANGED <<job, handleVars, main, cwd, final, reports, semVars,
                   installed, stack, exiting>>

ChildAlive(r) == child[r] \in {"running", "killed"}

ChildExits(r) ==
    /\ Idle /\ ChildAlive(r)
    /\ child' = [child EXCEPT ![r] = "exited"]
    /\ UNCHANGED <<job, handleVars, main, cwd, final, reports, semVars,
                   installed, stack, exiting>>

(* promote_cwd(): remove the version installed before, with an uninstall   *)
(* request of its own, and move the staging directory to its place.  If    *)
(* another uninstall request is open, the assertion in uninstall() fails   *)
(* inside the resolver of a.wait, which nobody catches: the coroutine is   *)
(* never resumed.                                                          *)
Promote(r) ==
    /\ Idle /\ main[r] = "installing" /\ ~ ChildAlive(r)
    /\ LET p == job[r].pkg
       IN \/ /\ p \in installed /\ Uninstalling(p)
             /\ main' = [main EXCEPT ![r] = "hung"]
             /\ UNCHANGED <<cwd, installed>>
          \/ /\ ~ (p \in installed /\ Uninstalling(p))
             /\ main' = [main EXCEPT ![r] = "linking"]
             /\ cwd' = [cwd EXCEPT ![r] = "package"]
             /\ installed' = installed \cup {p}
    /\ UNCHANGED <<job, child, handleVars, final, reports, semVars, stack,
                   exiting>>

(* The main coroutine ends: with an error at any of its awaits, or having  *)
(* linked the package and written its receipt.                             *)
MainEnds(r) ==
    /\ Idle /\ ~ ChildAlive(r)
    /\ main[r] \in {"locking", "installing", "linking"}
    /\ main' = [main EXCEPT ![r] = "done"]
    /\ FinalizeOwn(r, FALSE) \/ (main[r] = "linking" /\ FinalizeOwn(r, TRUE))
    /\ UNCHANGED <<terminated, jobVars, reports, semVars, installed, stack,
                   exiting>>

(* The uninstaller: remove the package (or fail to), close the handle,     *)
(* give the permits back and call the callback.                            *)
Removed(r) ==
    /\ Idle /\ main[r] = "removing"
    /\ main' = [main EXCEPT ![r] = "done"]
    /\ installed' \in {installed, installed \ {job[r].pkg}}
    /\ CloseUnlessClosing(r)
    /\ ReleaseAndReport(r)
    /\ UNCHANGED <<terminated, jobVars, final, reports, semVars, exiting>>

-----------------------------------------------------------------------------
(* Cancellation.                                                           *)

(* Mutant: the handler of "terminate" does not cancel the coroutine. *)
TerminateUncancelled(R) ==
    /\ terminated' = [r \in Runners |-> r \in R \/ terminated[r]]
    /\ UNCHANGED main

(* terminate(), for a set of handles: the processes are signalled (they    *)
(* may take their time), and the "terminate" handler of an installation    *)
(* cancels its main coroutine.  An uninstallation has no such handler.     *)
TerminateAll(R) ==
    /\ terminated' = [r \in Runners |-> r \in R \/ terminated[r]]
    /\ main' = [r \in Runners |->
                    IF r \in R /\ IsInstall(r) /\ main[r] # "done"
                    THEN "cancelled" ELSE main[r]]

CanTerminate(R) ==
    Cardinality({r \in Runners : r \in R \/ terminated[r]}) <= MaxTerminated

Terminate(r) ==
    /\ Idle /\ Open(r) /\ ~ terminated[r]
    /\ CanTerminate({r})
    /\ TerminateAll({r})
    /\ UNCHANGED <<state, jobVars, final, reports, semVars, installed, stack,
                   exiting>>

(* Mutant: the check handle of terminate() does not look at the processes. *)
CheckCloseEarly(r) ==
    /\ Idle /\ Open(r) /\ terminated[r]
    /\ state' = [state EXCEPT ![r] = "CLOSED"]
    /\ IF IsInstall(r) THEN FinalizeAbort(r) ELSE UNCHANGED final
    /\ UNCHANGED <<terminated, jobVars, main, reports, semVars, installed,
                   stack, exiting>>

(* The check handle of terminate(): once no process is left it closes the  *)
(* handle, and the "closed" handler of an installation runs its finalizer. *)
CheckClose(r) ==
    /\ Idle /\ Open(r) /\ terminated[r] /\ ~ ChildAlive(r)
    /\ state' = [state EXCEPT ![r] = "CLOSED"]
    /\ IF IsInstall(r) THEN FinalizeAbort(r) ELSE UNCHANGED final
    /\ UNCHANGED <<terminated, jobVars, main, reports, semVars, installed,
                   stack, exiting>>

(* VimLeavePre: terminate every open handle and wait for them to close.    *)
(* No request is made any more: Neovim is blocked in vim.wait.             *)
Exit ==
    /\ Idle /\ ~ exiting
    /\ CanTerminate({r \in Runners : Open(r)})
    /\ exiting' = TRUE
    /\ TerminateAll({r \in Runners : Open(r)})
    /\ UNCHANGED <<state, jobVars, final, reports, semVars, installed,
                   stack>>

(* Mutant: the timer fires and no signal is sent. *)
GraceOverUnheeded(r) ==
    /\ Idle /\ exiting /\ Open(r) /\ child[r] = "running"
    /\ UNCHANGED vars

(* The grace period is over: SIGKILL. *)
GraceOver(r) ==
    /\ Idle /\ exiting /\ Open(r) /\ child[r] = "running"
    /\ child' = [child EXCEPT ![r] = "killed"]
    /\ UNCHANGED <<job, handleVars, main, cwd, final, reports, semVars,
                   installed, stack, exiting>>

-----------------------------------------------------------------------------
RunnerEvent(r) ==
    \/ LockTaken(r) \/ Promote(r) \/ MainEnds(r) \/ Removed(r)
    \/ CheckClose(r)
    \/ \E a \in Finalizers : LogWritten(r, a) \/ Swept(r, a) \/ Unlocked(r, a)

UserEvent(r) ==
    \/ \E p \in Packages, d \in DebugOptions :
          Install(r, p, d) \/ InitializeFails(r, p, d)
    \/ \E p \in Packages : Uninstall(r, p)
    \/ Terminate(r)

Next ==
    \/ Step
    \/ \E r \in Runners : \/ RunnerEvent(r) \/ UserEvent(r)
                          \/ Spawn(r) \/ ChildExits(r) \/ GraceOver(r)
    \/ Exit

Spec == Init /\ [][Next]_vars

(* The event loop: a callback runs to its end, an await that is over is    *)
(* resumed, the check handle is polled, and the timer of the grace period  *)
(* fires.  A process ends if it was sent SIGKILL, and may run for ever if  *)
(* it was not.                                                             *)
LoopFairness ==
    /\ WF_vars(Step)
    /\ \A r \in Runners :
        /\ WF_vars(RunnerEvent(r))
        /\ WF_vars(GraceOver(r))
        /\ WF_vars(child[r] = "killed" /\ ChildExits(r))

FairSpec == Spec /\ LoopFairness

-----------------------------------------------------------------------------
(* Safety.                                                                 *)

(* A runner is at work from the grant of both its permits until its main  *)
(* coroutine ends or is cancelled and the process it started is gone.      *)
AtWork(r) ==
    \/ main[r] \in {"locking", "installing", "linking", "removing", "hung"}
    \/ ChildAlive(r)

(* settings.lua: at most max_concurrent_installers packages are installed  *)
(* (or removed) at a time, and the processes of a cancelled installation   *)
(* still count until they are gone.                                        *)
LimitRespected == Cardinality({r \in Runners : AtWork(r)}) <= MaxConcurrent

(* The package's own semaphore: no two runners are at work on one package, *)
(* although uninstall() does not look at an installation under way and a   *)
(* cancelled request frees the package for a new one before its finalizer  *)
(* has run.                                                                *)
OneAtWorkPerPackage ==
    \A r, q \in Runners :
        r # q /\ AtWork(r) /\ AtWork(q) => job[r].pkg # job[q].pkg

(* A finalizer that died of reading cwd before it was set. *)
Dead(r) == final[r]["own"] = "dead" \/ final[r]["abort"] = "dead"

(* Nothing is left to be done for the runner. *)
Settled(r) ==
    /\ ~ Open(r)
    /\ \A s \in Semaphores : \A i \in DOMAIN queue[s] : queue[s][i] # r
    /\ main[r] # "removing"
    /\ final[r]["own"] \in {"none", "done"}
    /\ final[r]["abort"] \in {"none", "done"}

(* Once nothing is under way every permit is back in its semaphore: no     *)
(* interleaving of requests, grants, cancellations and failures loses a    *)
(* slot, except through a finalizer that died.                             *)
NoSlotLost ==
    Idle /\ (\A r \in Runners : Settled(r))
        => \A s \in Semaphores : free[s] = Capacity(s)

(* Permits are neither made nor lost while they change hands, though one   *)
(* release_permit() may run others before it clears its own fields.        *)
Owners(s) ==
    {r \in Runners : \E l \in Levels :
        Sem(r, l) = s /\ permit[r][l] \in {"granted", "held"}}

PermitsConserved ==
    \A s \in Semaphores : free[s] + Cardinality(Owners(s)) = Capacity(s)

(* close() asserts that no process of the handle is left: it is not. *)
NoOpenProcess == \A r \in Runners : state[r] = "CLOSED" => ~ ChildAlive(r)

(* The answers that a request gets: an installation one, none if its       *)
(* finalizer died, and two if it was terminated while the finalizer of its *)
(* main coroutine waited, with the handle still open: the finalizer runs   *)
(* once more when the handle closes.  An uninstallation one, and none if   *)
(* it was cancelled while it was queued.                                   *)
Answers(r) ==
    CASE Dead(r) -> 0
      [] ~ Dead(r) /\ IsInstall(r) ->
            IF terminated[r] /\ main[r] = "done" THEN 2 ELSE 1
      [] ~ Dead(r) /\ ~ IsInstall(r) -> IF main[r] = "done" THEN 1 ELSE 0

(* Each request that is over was answered just so often, however requests, *)
(* cancellations and the ends of installers race; and an installation that *)
(* was cancelled before its main coroutine ended is not finalized by that  *)
(* coroutine too.                                                          *)
AnsweredExactly ==
    /\ [](\A r \in Runners :
            Idle /\ job[r].kind # "none" /\ (Settled(r) \/ Dead(r))
                => reports[r] = Answers(r))
    /\ [][\A r \in Runners :
            final[r]["own"] = "none" /\ final'[r]["own"] # "none"
                => ~ terminated[r]]_vars

(* A request cancelled while it was queued is never started: the grant of  *)
(* its permits comes too late.                                             *)
CancelledStaysCancelled ==
    [][\A r \in Runners :
        terminated[r] => /\ state'[r] \in {state[r], "CLOSED"}
                         /\ main'[r] \in {main[r], "done"}]_vars

-----------------------------------------------------------------------------
(* What both kinds of semaphore promise (module Semaphore). *)

GlobalSemaphore ==
    INSTANCE Semaphore WITH
        Clients <- Runners, Permits <- MaxConcurrent,
        permits <- free[Global], handles <- queue[Global],
        holders <- Owners(Global)

PackageSemaphore(p) ==
    INSTANCE Semaphore WITH
        Clients <- Runners, Permits <- 1,
        permits <- free[p], handles <- queue[p], holders <- Owners(p)

(* The global semaphore, acquired and released from callbacks that nest,   *)
(* behaves as a semaphore whose operations are atomic.                     *)
GlobalSemaphoreRefined == GlobalSemaphore!Spec

(* So does the semaphore of each package. *)
PackageSemaphoreRefined ==
    /\ \A p \in Packages : PackageSemaphore(p)!Init
    /\ [][\A p \in Packages : \/ PackageSemaphore(p)!Next
                              \/ UNCHANGED PackageSemaphore(p)!vars]_vars

-----------------------------------------------------------------------------
(* Liveness.                                                               *)

(* Something that blocks others for good has happened: an installation     *)
(* hangs in promote_cwd(), or a finalizer died before it gave the permits  *)
(* back.                                                                   *)
Blocked == \E r \in Runners : main[r] = "hung" \/ Dead(r)

(* No command that an installer runs goes on for ever. *)
ProcessesEnd == \A r \in Runners : []<> ~ ChildAlive(r)

(* Every installation that is requested is answered, unless somebody is    *)
(* blocked, a process never ends or Neovim exits, which waits for handles  *)
(* and not for their finalizers.  Cancelling it is an answer too.          *)
InstallAnswered ==
    ProcessesEnd =>
        \A r \in Runners :
            IsInstall(r) ~> (reports[r] > 0 \/ Blocked \/ exiting)

(* So is every uninstallation, except one that is cancelled: nobody tells  *)
(* its caller.                                                             *)
UninstallAnswered ==
    ProcessesEnd =>
        \A r \in Runners :
            (job[r].kind = "uninstall")
                ~> (reports[r] > 0 \/ terminated[r] \/ Blocked \/ exiting)

(* Neovim can exit: all handles close, even of processes that ignore       *)
(* SIGTERM, of installations that hang, and of those whose finalizer died. *)
ExitReturns == exiting ~> (\A r \in Runners : ~ Open(r))

-----------------------------------------------------------------------------
(* What an assertion of the code says, and the code does not do.           *)

(* package/init.lua: the assertion "Package is already uninstalling." does *)
(* not fail when promote_cwd() removes the old version.                    *)
PromotionNeverBlocked == \A r \in Runners : main[r] # "hung"
=============================================================================

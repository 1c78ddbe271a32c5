# A TLA+ model of linux-set-up-docs

The repository sets up a Linux desktop: scripts that install applications and
copy their configuration, and the configuration itself, which carries the
plugins of Neovim and tmux with it.  Most of it is settings or code that runs to
its end at once.  Two parts keep
state, run many things at a time and answer for it to somebody:

* **mason**, the package manager inside Neovim
  (`src/apps/config/nvim/plugins/mason`), which the configuration sets up with
  two concurrent installers (`src/apps/config/nvim/config/mason.lua`).  It shares
  files between processes.
* **vscode-js-debug**, the debug adapter that the set-up builds for nvim-dap
  (`src/apps/config/nvim/plugins/vscode-js-debug`).  It stands between a client
  and the virtual machine V8, each of which may act at any time.

Paths of mason below are relative to
`src/apps/config/nvim/plugins/mason/lua/mason-core/` and those of the adapter
to `src/apps/config/nvim/plugins/vscode-js-debug/src/`, unless they start with
`src/`.

## 1. The system

### Components

| Component | State | Operations | Modelled in |
|---|---|---|---|
| Semaphore, Permit (`async/control.lua`) | permits left, parked coroutines | acquire, forget | `Semaphore` |
| Coroutines (`async/init.lua`) | the suspended coroutine, whether it was cancelled | run, wait, cancel | the `stack` and the guards of `MasonInstaller` |
| Package (`package/*.lua`) | newest install and uninstall handle, a semaphore of one permit | install, uninstall | `MasonInstaller` |
| InstallHandle (`installer/InstallHandle.lua`) | IDLE, QUEUED, ACTIVE, CLOSED; `is_terminated`; child processes | queued, active, kill, terminate, close | `MasonInstaller` |
| InstallRunner, UninstallRunner (`installer/*Runner.lua`) | two permits, the lock file, a main coroutine and its finalizer | execute | `MasonInstaller`, `MasonDisk` |
| InstallContext, linker (`installer/context`, `installer/linker.lua`) | `cwd`, directories, links, receipt | initialize, promote_cwd, link, unlink, write the receipt | `MasonDisk` |
| Terminator (`terminator.lua`) | the open handles | terminate | `MasonInstaller` |
| Binder, session manager, node launcher base and targets (`binder.ts`, `sessionManager.ts`, `targets/node`) | a tree of nodes with states, the list of targets, where each request is | launch, attach, terminate, disconnect, targets that come and go | `JsBinder`, `JsSessions` |
| Breakpoint manager, breakpoint (`adapter/breakpoints.ts`, `adapter/breakpoints/breakpointBase.ts`) | breakpoints by path and by id, a count, references in V8, a filter | setBreakpoints, applyEnabledFilter, new scripts, cleared contexts | `JsBreakpoints` |
| Thread, state queue (`adapter/threads.ts`, `adapter/smartStepping.ts`) | the details of the pause, a queue of operations, the step under way | resume, pause, step, pauses and resumes of V8, refresh of the stack | `JsThread` |
| Rest of the adapter: launchers, browser targets, source container, variables, console, extension | | | no |
| Registry (`src/.../mason-registry`) | sources, a channel for the refresh under way, two files | refresh, update | no |
| tmux-resurrect, tmux-named-snapshot (`src/apps/config/tmux`) | save files, the link `last` | save, restore, snapshot | no |
| nvim-nio, nvim-dap, conform, nvim-lint | futures, debug sessions, processes | | no |
| Set-up scripts (`src/apps/*.sh`, `src/desktop`, `src/login-screen`) | files and directories, the working directory | one long sequence | no |
| Other plugins, lambdock, configuration files | | | no |

`PROJECT.json` has the complete list with a note for each.

### How they interact

`Package:install` makes a handle and an `InstallRunner`.  The runner starts two
coroutines: the *main* one, which waits on a channel, and one that acquires the
permit of the **global** semaphore (`AbstractPackage.SEMAPHORE`, as many permits
as `max_concurrent_installers`) and then the permit of the **package's** own
(`local_semaphore`, one permit).  With both it activates the handle and sends on
the channel, which resumes the main coroutine: lock file, staging directory,
installer (child processes), promotion of the staging directory, links, receipt.
The *finalizer* cleans up, closes the handle, removes the lock file, gives the
permits back and calls the callback.

`handle:terminate()` sends SIGTERM to the child processes, cancels the main
coroutine and starts a libuv check handle, which closes the handle as soon as no
process is left; the "closed" event runs the finalizer a second way.  When Neovim
exits (`VimLeavePre`), the terminator does this for every open handle, follows up
with SIGKILL after 5 s, and blocks until all handles are closed.

`UninstallRunner` takes the same two permits, but no lock file, and has no
terminate handler.  `promote_cwd()` uninstalls the old version with an uninstall
request of its own that bypasses the permits.

Several Neovim processes share the install location: the lock file, the staging
directory, the package's directory and `bin/`.

In the adapter, the launcher base keeps the list of *targets* (processes, and
workers that a process reports).  When the list changes, the binder gives each
new target a node under its opener and a session of its own that the client has
to connect, and marks the targets that have left: their thread is disposed of, the
session is sent `terminated`, and the node waits for those below it.  The client
asks to `terminate` or `disconnect` any session; a request on the root, or on a
worker, ends the program.  Each session has a thread.  The thread turns the
pauses of V8 into `stopped` events, unless it decides to go on by itself, and
requests of the client into commands, one at a time through the state queue.
`setBreakpoints` goes to the breakpoint manager, which sets and removes breakpoint
*references* in V8, by path while no script of the source is known and in each
script after that.

### What is hard, and what makes each component correct

* **Resumption is synchronous.**  `forget()` runs the first waiter before it
  returns, so a runner may be granted permits, find itself cancelled and give
  them back while the first one is between `forget()` and clearing its field.
  Correct: permits are neither made nor lost, the limit and the mutual exclusion
  per package hold, waiters are served in order.
* **Cancellation at any await.**  Correct: a cancelled request does not go on;
  its permits come back, whether they were granted, being granted or still
  waited for; its caller hears of it, and it is known how often; no handle closes
  over a live process.
* **Exit.**  Correct: Neovim can exit, whatever its children do.
* **Several processes, and crashes.**  Correct: the lock file keeps two
  installations apart; a receipt is found only in a complete directory; after any
  crash there is a way to install the package again.

* **Sessions are a tree that changes while it is waited for.**  Correct: a session
  is closed after those below it and after its `terminated` event; the root is
  last; everything is closed once the program has ended.
* **Commands to V8 are answered later than they are decided on.**  Correct: what is
  removed while it is being set is removed after all; the last request wins; the
  filter is obeyed; the client is shown as stopped exactly when the machine is; a
  pause that was to be shown is not resumed by a decision about an earlier one.

The hazards, each at its line and with the properties about it, are in
`PROJECT.json`.

## 2. The modules

```
Semaphore  <--- INSTANCE (once global, once per package) ---  MasonInstaller
   ^                                                              ^      ^
MCSemaphore                                     MCMasonInstaller, |      |
   ^                                             MCInstallerLive -+      |
Semaphore_proofs -- QueueTheorems <-- MasonInstaller_proofs -------------+
                                            ^
                                   MasonInstallerPromises

MasonDisk <-- MCMasonDisk        (a process is a sequence of requests, justified
     ^                            by MasonInstaller!OneAtWorkPerPackage)
     +------- MasonDisk_proofs

JsSessions <-- INSTANCE -- JsBinder <-- MCJsBinder
                              ^
                       JsBinder_proofs

JsBreakpoints <-- MCJsBreakpoints          JsThread <-- MCJsThread
     ^                                          ^
     +------- JsBreakpoints_proofs              +------- JsThread_proofs
```

### Semaphore

What `Semaphore` and `Permit` of `async/control.lua` promise: `permits` and
`handles` are the fields of that name, `holders` the coroutines that own a
permit not forgotten.  `Acquire` and `Forget` are the two methods, each with both
its branches.  It is a component and at the same time the abstract specification
of the semaphores in `MasonInstaller`.

### MasonInstaller

One Neovim process.  A *runner* is one call of `install()` or `uninstall()`.

| Variable | In the code |
|---|---|
| `job` | the request: kind, package, `opts.debug` |
| `state`, `terminated` | `InstallHandle.state`, `is_terminated` |
| `main` | the await at which the main coroutine is suspended |
| `cwd` | `context.cwd`: not set, the staging directory, or (after the promotion) the package's directory |
| `child` | the process in `spawn_handles` |
| `final` | the two calls of `finalize`: as the callback of the main coroutine (`own`) and from the "closed" handler (`abort`) |
| `reports` | how often the request's callback ran |
| `permit` | the fields `global_permit` and `package_permit`, and the permits on their way to them |
| `free`, `queue` | `permits` and `handles` of each semaphore |
| `installed` | the package's directory exists |
| `stack` | what the running callback still has to do |
| `exiting` | `VimLeavePre` fired |

The atomicity is that of Lua in an event loop: a callback is never interrupted.
The calls that the correctness depends on, those of the semaphores, nest, and are
steps of their own: `stack` holds the calls not finished, innermost first, and
`Acquire`, `Granted`, `Release`, `Forgotten` and `Report` execute its head.  All
other actions are events and wait until the stack is empty (`Idle`):

| Action | In the code |
|---|---|
| `Install`, `Uninstall` | `Package:install`, `Package:uninstall` with their assertions, up to the first await |
| `InitializeFails` | `Package:install` when the directories of the install location cannot be made: the handle is never queued (it stays IDLE or is closed) and the finalizer runs at once |
| `LockTaken`, `Spawn`, `ChildExits`, `Promote`, `MainEnds` | the main coroutine from await to await; `MainEnds` is the end in success or by an error, and the finalizer up to its first await (`FirstAwait`) |
| `Removed` | the uninstaller |
| `LogWritten`, `Swept`, `Unlocked` | the finalizer after the log of `opts.debug`; after `rmrf` has awaited the main loop, when it removes the staging directory or, after the promotion, the package; and after the lock file |
| `Terminate`, `CheckClose` | `terminate()` and its check handle |
| `Exit`, `GraceOver` | the terminator and its timer |

Abstractions:

* A continuation queued with `vim.schedule` is a step of its own in the finalizer,
  where a cancellation in between makes a difference: the handle is not closed
  yet (`Swept`).  `a.scheduler` in the main coroutine belongs to the step that
  queues it: cancelled there, the request is as if cancelled one await earlier.
* An installer runs one child process at most; a sequence of them passes through
  the same states again.
* The uninstall request inside `promote_cwd()` takes no permit and has no await
  of its own on a Unix system, so it is part of `Promote`.  What remains of it is
  its assertion, which fails if another uninstall request is open.
* The handlers of the user interface and of the registry's events change nothing
  that the installer reads.
* A runner's number of processes, and a package's number of links, do not matter
  to the permits; file contents are in `MasonDisk`.
* An uninstallation that gets both permits at once, from a plain callback, removes
  the package before `uninstall()` returns; the model lets events happen between
  the two, which only adds behaviours.
* Requests are finitely many (`Runners`), so a run of the model ends; the
  configurations therefore say `CHECK_DEADLOCK FALSE`.

### MasonDisk

The install location for one package, and the Neovim processes that work on it.
Every action is one system call (or one await) of `InstallRunner`,
`promote_cwd()`, the linker or `UninstallRunner`; `pc` is the next one.  A
directory is the set of the parts an installer wrote into it and whether it has a
receipt, or the log of `opts.debug`: two parts per version, the executable last, are enough to tell complete,
partial and mixed versions apart.  `rmrf` takes the parts away one by one
(`RemovePart`).  `GiveUp` is a failure or a cancellation at an await, after which
the finalizer runs; `Crash` is a process that dies, or exits before the finalizer
ran: nothing runs.  `Target` gives the path in `bin/` that a version links: all
the same, or each its own.

`opts.debug` makes the finalizer write a log into `context.cwd` and keep it
(`WriteLog`); if that directory is not there, or was never set, writing the log
raises, and nothing after it happens: the lock file and the permits stay, and the
process is done with the package (`stuck`).

Five variables are history, and no guard looks at them.  `lost` records that a
request lost the lock it holds, in one of three ways that the code leaves: a
request that looked for the lock file before another wrote it (`raced`) writes its
own over it; a request with `--force`, which does not look, does; or the
finalizer of a request that does not hold the lock removes it.  Each is recorded
at the step that does it, by what that step does, and not by two processes being
at work, so that `LockSuffices` depends on what `CheckLock` looks at: without that
(`CheckLockBlind`) it fails.  `met` records that an uninstallation, which
looks at no lock, met a process at work; `stray` that the link in `bin/` is one of a
request that was given up before its receipt was written, which nothing removes;
`torn` that a process died while it removed the package's directory.

Abstractions: one link per package; the three file operations with which `link()`
looks at the old link, removes it and looks at the target are one step; the
reading of a receipt and the removal of its links are one step; the Windows
branches are left out.

### JsBinder and JsSessions

One debug session of Node programs, from the moment the launch has returned.

| Variable | In the code |
|---|---|
| `listed` | the targets of the launcher base (`targetList()`) |
| `seen`, `parent`, `kids` | the targets with a `TreeNode`, `target.parent()`, `_children` |
| `state` | `_state` of each node: `Running`, `Terminating`, `Terminated`, `Disconnected` |
| `at` | where `attach()` is for each target, up to `threadData` resolved ("started") |
| `program`, `ending` | the debuggee; `onTerminated` fired and not yet handled |
| `mark`, `markWait` | where `_markTargetAsTerminated()` is, and the children it waits for |
| `sent` | the sessions that were sent `terminated` |
| `detaching` | the targets that were asked to detach |
| `term`, `disc`, `discWait` | the `terminate` and `disconnect` request of each session |
| `close`, `closeWait` | each call of `_terminateRoot()` |

An action is what runs between two awaits.  Waiting for children is modelled as the
code does it: the set of children is taken when the wait begins, and what
appears or leaves afterwards does not change it.

| Action | In the code |
|---|---|
| `TargetAppears` | a process or a worker connects: `_startSession` and `_attachToNewTargets` |
| `TargetEnds`, `ProgramEnds`, `Detached` | what takes targets off the list, with `Leave`, the walk of `_terminateOrphanThreads` |
| `AttachReturns`, `DapAcquired`, `ThreadStarted` | the awaits of `attach()` |
| `MarkThread`, `MarkSend`, `MarkDone`, `MarkRoot` | `_markTargetAsTerminated()` |
| `TerminateRoot`, `LauncherTerminated`, `TerminateRootDone` | `_terminateRoot()` |
| `Terminate`, `TerminateReply`, `TerminateAll`, `TerminateAllReply` | the `terminate` requests |
| `Disconnect`, `DisconnectAll`, `DisconnectKids`, `DisconnectReply` | the `disconnect` requests |

The client is modelled from how `binder.ts` uses it: it connects the sessions it
is asked for and disconnects those that are over; ending a session that is not
over takes a user, who does so `MaxAsked` times.  `Openers` says, for each target,
which targets are above it: the launcher base looks for the nearest that still
lives (`IsParent`).

`JsSessions` is the abstract specification: a session is *absent*, *open* (its
target is there), *gone* (it is not), *told* (the client knows) or *closed*, opens
under an open one and closes after all below it.  `Phase` is the refinement
mapping, from the list, the events sent and the states of the nodes;
`SessionsRefined` says that the binder implements it.  Neither the state machine of
the nodes nor the awaits are visible there, so the refinement says that they
cannot be noticed by the client.

Abstractions: the launch, restarts and `launchBlocker` are over before the model
begins or are part of `ThreadStarted`; the VS Code extension's session manager is
only `acquireDap`; `ShortLived = FALSE` keeps processes from exiting while the
debugger attaches to them (see the findings for what happens then).

### JsBreakpoints

The `BreakpointManager` of one thread and the references its breakpoints have in V8.

| Variable | In the code |
|---|---|
| `ready` | `thread.debuggerReady` |
| `handler` | `_sourceMapHandlerInstalled` |
| `filter`, `filterWait` | `_enabledFilter`, and what `applyEnabledFilter()` waits for |
| `profile` | how far the profile is: V8 has started it (1), and stopped it (2) |
| `pc`, `args`, `queue`, `news`, `unbindWait`, `enableWait` | each `setBreakpoints` request: the await it is at, its parameters and its local variables |
| `byPath`, `byDapId`, `total` | `_byPath`, `_byDapId`, `_totalBreakpointsCount` |
| `enabled`, `placing` | `isEnabled`, and the calls that are looking for a place |
| `pending`, `applied` | the references in state `Pending` and `Applied` |
| `wire`, `v8` | commands not answered (with `dead`, the `deadletter` flag), and what V8 has |
| `alive`, `loaded`, `parsed`, `cleared` | scripts in V8, in the source container, ever parsed; a context was cleared and the manager is not told yet |
| `forgotten` | history: the references dropped although their script is there |

A breakpoint is named by the request that made it and its line; a request that asks
for a line that is set keeps the old one, as `mergeInto` does.  A reference is a
breakpoint and where it is set: by the regular expression of the path, by the URL of
a script, or by the id of a script that has a sourceURL or no URL (`Place`).  What is
set by path or URL survives a cleared context (`Lasting`), what is set by id does
not.  `Spot` is the position of each line in each place, as the source container
finds it: two lines may well be at one.  A script that *overlays* its source has
the path of the source as its own URL; where a line of it is where it was
(`InPlace`), the reference by path and the one by URL or id stand for each other,
and where it is not, the one by path is removed (`UpdateForScript`).  V8 answers
commands in order, refuses a second breakpoint at one location (`Accepts`: the
reference then stays `Pending`), and removes by location.  Continuations of
promises that are resolved run before the next answer, event or request (`Busy`).

A cleared context waits for the console (`ContextsCleared`, `ContextWasCleared`),
and anything may come in between, scripts of the next page included.  When it goes
on, it drops all that was set by id, also in those: `forgotten` records such
references, and a command to set one becomes "lost", as its answer finds nobody.

Assumed of the debuggee: scripts of one URL are alike, and scripts that overlay one
source agree on which lines are in place.  The next page is not left before the
console has let go of the last one.

A profile filters the breakpoints out, starts once that is done, stops, and lets them
pass again when V8 has answered (`FilterNone`, `ProfilerAsked`, `ProfilerAnswered`,
`FilterAll`): what was sent before it is answered by then.

Left out: predicted locations, entry breakpoints, conditions, the time limits with
which a launch stops waiting, breakpoints in sources without a path, scripts whose
embedder has another name for them, and a script with a sourceURL that is the URL
of another script.

### JsThread

| Variable | In the code |
|---|---|
| `vm`, `kind`, `wanted`, `planted` | the machine: the pause it is at, what each pause is for, whether it was asked to pause, the breakpoint of a step-in target |
| `cmds`, `inbox` | commands to it, answers and events from it, in order |
| `chain`, `head`, `flushing` | `stateQueue`: operations that are not over, the await of the first, callers that wait a timer before they look again |
| `expected`, `waiting` | `_expectedPauseReason`, `_waitingForStepIn` |
| `details`, `handler` | `_pausedDetails` and who made it, and where `_onPaused` is for each pause |
| `refresh` | where `refreshStackTrace()` is |
| `view` | the pause the client was last shown |

A pause is one of six kinds, enough to tell the branches of `_onPaused` apart: to be
shown; at a breakpoint that turns out not to want it (or the entry, where it goes
on); before a script with a source map; in code that smart stepping steps through;
at a step-in target; only because it was asked for.  A `pause` request may meet any
code, skipped code too, and any of these pauses may be the one that was asked for
as well, which uses the request up.  `_onPaused` looks at breakpoints, entry and
scripts before it looks at what was expected (`adapter/threads.ts:1053-1087`), so a
pause that was asked for and falls together with one that is not wanted is of that
other kind, and is resumed.  A client that is *rushed*
(asks again before it sees the thread stopped) is allowed, and the properties
that need a patient one say so.  Left out: restart of a frame, excluded callers,
steps into another thread, WebAssembly.

## 3. The runs

| Run | Instance | Shows |
|---|---|---|
| `MCSemaphore` | 5 coroutines, 2 permits | conservation, no idle permit, order of arrival, no starvation |
| `MCMasonInstaller` | 3 requests, 2 packages, 2 permits, no debug | limit, mutual exclusion per package, conservation while releases nest, no slot lost, closed handles have no process, cancelled stays cancelled, both kinds of semaphore implement `Semaphore` |
| `MCInstallerLive` | 2 requests, 1 package, 1 permit, both values of debug | every request is answered, and just as often as its cancellation says; Neovim exits |
| `MCDiskShared` | 2 processes, 2 versions, all requests (plain, `--force`, `--debug`, uninstall), 1 crash | in which ways alone a lock is lost, and what it guarantees until it is; `--force` recovers |
| `MCJsBinder` | a process, its worker, a second process; one request of the user | order of closing, events, the root last, `JsSessions` implemented, everything closed in the end |
| `MCJsBreakpoints` | 1 source with 2 scripts (one by id; one by URL that overlays the source, with both lines at one position), 2 lines, 2 requests, 1 cleared context | no breakpoint leaked or lost |
| `MCBreakpointsTwo` | 2 sources, one with a script, 1 line each, 3 requests, 2 filters | the count and the handler agree; no breakpoint left to stop a profiled program; every request is answered |
| `MCJsThread` | 3 pauses, 2 requests | the client sees what the machine does; no pause lost or left unseen |

Why the bounds are enough.  A grant that frees another permit
(nested `forget()`) needs a request that holds both permits, one cancelled while
it waits for the package, and one that waits for the permit this one gives back:
three requests, two permits.  With two packages, one request can wait for its
package while another passes it.  On the disk, the races of the lock are between
two processes; a third adds a second race of the same kind.  In the tree of
sessions, a process, what it opened and its worker give a node with two children, of
both kinds, and one that loses its parent; the user has to act once only, as every
other step is the debuggee's or the client's.  Breakpoints race between one that is
being set, one that removes it and one that looks again: three requests, or two and
a page that is left; the second source is there for a count that two share, the
second line for a position that two share, and the two scripts for one that is set
while another is loaded.  `MCDiskShared` does not go on once a lock is lost
(`CONSTRAINT Kept`), of which nothing is claimed, and its processes may end up stuck
(`CHECK_DEADLOCK FALSE`).  `MaxTerminated` bounds the requests that are cancelled,
those at the exit of Neovim included.  In the thread, one pause is decided on while
a second arrives and a third is asked for; more would wait behind these in the
queue.  The theorems below hold for every value of the constants.

`OneAtWorkPerPackage` and `LimitRespected` count a request from the moment its
permits make the handle active until its main coroutine has ended or was
cancelled *and* its process is gone: a cancelled installation whose child
ignores SIGTERM keeps its slot.

`AnsweredExactly` says how often a request that is over was answered: an
installation once, twice if it was terminated while the finalizer of its main
coroutine awaited the log or the main loop (the handle is open until then, so the
"closed" handler finalizes once more), never if a finalizer died; an uninstallation
once, never if it was cancelled in the queue.  Its second part is that a terminated
installation is not finalized by its main coroutine as well.  A handler that did
not cancel the coroutine (`TerminateUncancelled`) breaks it.

`AllOrNothing` is about what is left when no process has died, no lock was lost and
no uninstallation met an installation.  What it permits besides a complete
installation is what the code leaves: with `opts.debug`, directories that hold the
log and the lock of a process that is stuck, and the dangling link of a request that
was given up between its link and its receipt (`stray`; the code unlinks only when
linking itself fails, `installer/InstallRunner.lua:125-135`).

`ReceiptVouches` leaves out the instants at which the directory is being removed,
and directories whose removal was interrupted by a crash; `rmrf` gives no order.
`ForceRecovers` is for a package whose versions link the same path: when they do
not, `link()` does not see a link that dangles, and fails to replace it in spite of
`--force` (`linker.lua:98`).

`CurrentSet` is for clients that send a source no request before the last was
answered (`rushed`), for two reasons.  V8 refuses the breakpoint that is set again
while the old one is being removed, and then neither is there.  And the second
request takes away breakpoints that the first, which waits for V8 between its two
counts (`adapter/breakpoints.ts:626-634`), has not counted yet: the count may come to
zero, and the handler of new scripts be uninstalled, while *another* source has
breakpoints, and a script of that source that is parsed then never gets them.  So
one rushed source is enough to leave breakpoints of others unset.  It also leaves out
a breakpoint that is `Contested`: V8 had another at its location when it was to be
set, either of a line that was asked for of the same source and is at the same
position of the script, or one that was dropped with a cleared context.  Nobody sets
it again when the other is removed, so that a request for lines 1 and 2, and a later
one for 2 alone, may end with none.

`NoOrphan` and `Silenced` leave out the references that a slow console made the
debugger drop (`forgotten`, `adapter/threads.ts:973`): V8 keeps them, and they can
neither be removed nor disabled.  They are just those set by id in a script that
arrived while the console was drained; the properties say that there are no others,
and assume nothing of how long that takes.

`ShownIsKept` leaves out a step into a target that has not got there
(`waiting = "target"`), which is what `PauseHonoured` is about, and says nothing of a
pause that was asked for and that the debugger takes for an unwanted breakpoint or a
script: it resumes those, as described under `JsThread` above.

### Fairness

* `LoopFairness`: Neovim's event loop.  The running callback goes on, an await
  whose operation is over is resumed, the check handle is polled at every turn,
  the timer of the grace period fires, and a process that was sent SIGKILL ends.
  This is the whole of `FairSpec`, and all that `ExitReturns` needs: a child may
  ignore SIGTERM, an installation may hang, a finalizer may have died.
* `InstallAnswered` and `UninstallAnswered` are about the behaviours in which every
  process ends some day (`ProcessesEnd`).  Installers run downloads, compilers and
  unpackers, and have no time limit: one that never ends keeps its slot, and
  the requests that wait for it wait for ever.
* Nothing is assumed of the user: no request and no cancellation has to happen.
* `Semaphore!FairSpec` assumes that a permit taken is given back.

The liveness properties name their exceptions.  `InstallAnswered` and
`UninstallAnswered` hold, moreover, *unless* `Blocked`: an installation that hangs in
`promote_cwd()` or a finalizer that died keeps permits for ever (both are findings).
`UninstallAnswered` further excepts a cancelled request, since `UninstallRunner`
has no terminate handler and its callback is never called.  Both except an exit
of Neovim, which waits for the handles and not for their finalizers.

* `JsBinder!Fairness`: continuations of resolved promises run, a client connects
  and starts the sessions it is asked for and disconnects those that are
  terminated, a process that was asked to detach or was killed ends.  Nothing
  makes a debuggee end of its own accord, or a user act.
* `JsBreakpoints!Fairness`: V8 answers each command and a continuation runs.  No
  request, script or filter has to come.
* `JsThread!Fairness`: the machine obeys, what it sends arrives, timers end.
  Neither a pause nor a request has to come.

### Where the code and its text disagree

Each is a run that TLC ends with a counterexample.

| Run | Property | What happens |
|---|---|---|
| `MCInstallerHung` | `PromotionNeverBlocked` | `install`, then `uninstall` of the same installed package: the promotion runs into the assertion "Package is already uninstalling." inside a resolver, nobody catches it, and the installation hangs with its permits until it is cancelled. |
| `MCDiskRefused` | `RefusedKeepsLock` | The request that was refused because of the lock file removes the lock file of the other process. |
| `MCBinderShortLived` | `TerminateResolves` | A process exits while the debugger attaches to it: `attach()` returns without resolving `threadData`, on which the end of its session waits, and a request to terminate all is never answered. |
| `MCThreadPause` | `PauseHonoured` | The user pauses during a step into a target: `_onPaused` resumes every pause that is not the target, the one included that has no other reason than the request. |

More are visible in the models and have no run of their own.

* Two processes that look for the lock file before either writes it both install
  (`Overwrites` in `WriteLock`), although the message of the lock promises that only
  `--force` gets past it.
* With `opts.debug`, a request that fails before its staging directory is set
  runs into the assertion in `context.cwd` in its finalizer, which then releases
  nothing (`final = "dead"` in `MasonInstaller`).
* A comment (`src/apps/config/nvim/plugins/mason/lua/mason/ui/instance.lua:271-274`)
  says that a queued request that is aborted does not fail until it gets a permit;
  `CheckClose` and `Unlocked` report it while it is still in the queue.
* The lock file's message says "already running in another process" also of a
  process that is dead (`failed = "stale"` in `CheckLock`).
* An installation that is cancelled while its finalizer waits is reported twice
  (`Answers` in `MasonInstaller`).
* A pause that the user asks for is resumed also if it falls together with a
  breakpoint that does not want it or a script with a source map, against
  `adapter/smartStepping.ts:79`; the kinds of `JsThread` tell such a pause by its
  other reason.
* Of two lines at one position of a script the second is never set, not even when
  the first is removed (`Contested` in `JsBreakpoints`).
* Breakpoints set by id in a page whose scripts arrive while the console of the last
  one is drained can never be removed (`forgotten`).
* A root session that a worker's `terminate` or `disconnect` ends never gets a
  `terminated` event (`MarkRoot`).

## 4. The proofs

TLAPS checks them for every value of the constants, under the named assumptions
of the modules: finitely many requests, at least one permit, and names that do
not collide.

**Semaphore** (`Semaphore_proofs`).  The invariant is `TypeOK`, `Conservation`,
`WorkConserving` and `ParkedOnce`.  The last is needed since `Conservation`
counts a *set* of holders: handing a permit to a waiter keeps the count only if
the waiter did not hold one already.  From it follow `AtMostPermits` and
`NobodyBarges` (the action property).

**MasonInstaller** (`MasonInstaller_proofs`).  None of the properties is inductive: whether `free[s]` may drop depends on what the
frames of the stack will do, and whether a runner may become active on where its
permits are.  `IInv` adds to `TypeOK`

* `PairOK`: which statuses the two permits of a runner can have together: the
  package's permit is asked for only with the global one in hand, and they are
  given back in the order global, package;
* `RunnerOK`: how the handle, main coroutine, finalizers, child process and
  permits of one runner go together: a runner at work has both permits, a closed
  handle has no process, an installation that is closing has left its main
  coroutine, a finalizer runs only after that, a handle that was never queued has
  no permit;
* `StackOK`: what the stack can hold: below the innermost call only releases that
  wait for their `forget()` to return, at most one call per runner, each with the
  statuses of its permits that it relies on (`FrameOK`), and a runner without a
  call under way has no permit half granted or half forgotten (`Resting`);
* `QueueOK`: the queue of a semaphore holds exactly the runners whose permit is
  "waiting", once each, nobody waits while a permit is left, and the permits left
  and those owned add up.

The stack is why this is needed: between `forget()` and the assignment that clears
the field, a runner looks as if it still had a permit that already belongs to
another, and only the frame on the stack tells them apart.

TLC found `IInv` to hold on the instances above before it was proved.  The proof
that a step preserves it has one lemma per action and, under it, one step per
part of the invariant that the action can disturb; frame lemmas cover the parts
that an action leaves alone.  `QueueTheorems` has what the steps need of
`Append` and `Tail`.  From `IInv`:

| Theorem | Property |
|---|---|
| `TypeCorrect` | `TypeOK` |
| `PermitsAreConserved` | `PermitsConserved` |
| `LimitIsRespected` | `LimitRespected`: a runner at work owns a global permit, and the permits are conserved |
| `OnlyOneAtWorkPerPackage` | `OneAtWorkPerPackage`: two at work would own two permits of a semaphore of one |
| `NoProcessIsOpen` | `NoOpenProcess` |
| `CancelledIsNotStarted` | `CancelledStaysCancelled`, by cases over the actions |

**MasonInstallerPromises** stands on `IInv`.  *The semaphores implement
`Semaphore`*: a permit that `forget()` passes on is on its way ("granted") before
it is owned in the field ("held"), and owners are both.  Each action of the
installer is, for each semaphore, one `TakesOrParks`, one `GivesBack` or
`Stays` (`NextSimulated`); these are `Acquire`, `Forget` and a stutter of
`Semaphore` under the mapping.  *Answers and slots*: `AnswersInv` adds, for
each request, how many calls of its callback have been made, are under way or
are still to come (`AnswerOK`, by finalizer and by cancellation, so that a request that is
over has got its `Answers`), that a callback is the last thing on the stack
(`LastReport`), and that a request that has ended returns its permits or is
about to (`SlotOK`).

**MasonDisk** (`MasonDisk_proofs`).  `CwdOK` and `DirsOK` hold always.  As long as no
lock is lost, `Alone` does: whoever is at work has the lock, and whoever is about to
write it, after a look and with no write of another since, finds it free.  The second
part is what makes the first inductive, and is where `CheckLock` comes in.  As long
as nobody has met an uninstallation either, what is in the two directories is what
the process at work has put there (`Apart`, `StagingOK`, `PackageOK`), whatever the
dead have left; a receipt vouches (`Vouched`); without crashes whatever is there has
an owner, or was kept by `opts.debug` (`Owned`), and a link is the package's, on its
way to be, or stray (`Linked`); and `--force` meets no obstacle (`Forced`, for
versions that link one path).

**JsBinder** (`JsBinder_proofs`).  `IInv` is `TypeOK` and

* `Marks`: how the state of a node, the await of its mark, the events sent and
  the list of targets go together;
* `Family`: a child has been seen and has the node as its parent, and a node that has
  been seen is among its parent's children until it is disconnected;
* `Order`: what a node waits for contains every child that is not closed, and
  `DisconnectInOrder`;
* `RootOrder`: the root is marked, and its caller told, once the program has stopped
  and nothing is listed, and waits for what the nodes wait for.

Closing in order is not inductive, because a node waits for the children it *had*;
`Order` says that nothing that counts can have been added since, as a target opens
under one that is on the list only.  The refinement is proved in the usual way:
the initial states map to initial states, and every step maps to a step of
`JsSessions` or a stutter, by cases over the actions, with `Phase` of each target
before and after.

**JsBreakpoints** (`JsBreakpoints_proofs`).  `NoOrphan` speaks of quiet states, and
`HandlerMatches` of states without a request under way, so neither says anything in
between.  `RefsOK` does for the first: whatever V8 has is applied, forgotten, or has
its removal on the wire; what is being set is pending, or its answer finds nobody
since it is forgotten or V8 will refuse it in a dead script; nothing is being set
twice.  `CountOK` and `HandlerOK` do for
the second: the count is short by exactly the breakpoints of the requests between
their two counts, and while there is none such, a handler without breakpoints is
for a request that has come and asks for some.  Lemmas about the wire
(`CommandsSent`, `ReferencesRemoved`, `CommandAnswered`) say what each operation
does to the sets of references in it.

`CurrentSet` is the converse, that nothing is *missing*, and stands on a second
invariant, `SInv`, on top of the first.  `SetOK`: every enabled breakpoint is, for
each live script of its source (and by path, while there never was one), being placed,
noted by the debugger, or contested (`PlacedIn`, `PlacedByPath`); and what is noted is
on its way to V8 or in V8, unless it is contested (`Held`).  For a step to keep that,
nothing that is wanted may be removed or refused, and nobody who has to act may miss
it:

* `SourcesOK`: a source that is not rushed has one request at a time, and what that
  request removes is at no line that it keeps;
* `EnabledOK`: a breakpoint with a handler to look after it is what a new script
  finds, and only those of a request that still unbinds are not enabled yet;
* `DrainedOK`: when the profiler has stopped, the wire is empty of what was sent
  before it started;
* `ScriptsOK`: but for a cleared context that still waits for the console, the
  scripts known are those alive;
* `MentionedOK`: references are of lines that were asked for, in scripts of their
  source that were parsed, so that two at one location are contested;
* `RemovalsOK`: with all breakpoints let through, a removal that is under way where
  a breakpoint ought to be is one that its request waits for, or takes away what was
  set by path for a line that a script has elsewhere (`ByPath`).

The theorems assume of the constants that scripts of one URL are alike and that
scripts that overlay a source agree, and nothing of the console.

**JsThread** (`JsThread_proofs`).  `Truthful` speaks of quiet states and `ShownIsKept`
of one step; what both rest on is that nobody acts twice on one pause.  `Base` holds
always: `TypeOK`; `QueueOK`, that the operation at the head of the queue is at the
machine, as a command or as its answer, exactly while the queue says so; and
`KindOK`, that handlers and messages are of pauses there have been.  `Calm` holds
until the client is rushed:

* `PhaseOK` is the heart: at most one resume or step is under way, be it a command,
  the head of the queue, behind it, or waiting for the flush (`OneLeave`, `NoLeave`).
  It is for the pause the machine is at, and while there is one nobody handles,
  shows or refreshes that pause; otherwise the pause is coming, or handled, or
  shown;
* `AnswerOK`: no command fails; the machine has said that it went on before it says
  that it pauses again, and its answer came before that.  Hence no resume or step is
  swallowed as a duplicate of the one before it (`NotSwallowed`): when a pause is
  handled, what led to it has left the queue;
* `DetailsOK`, `ExpectedOK`, `WaitingOK`: whoever relies on `_pausedDetails`,
  `_expectedPauseReason` or `_waitingForStepIn` finds what was set for this pause
  (the last was asked for before the machine could pause for it, so that a pause
  with no reason but that it was asked for is never stepped through);
* `UnbreakOK`: the breakpoint of a target is being removed exactly while the
  handler waits for that;
* `LeaveOK`: what is under way from a pause to be shown was asked for by a client who
  saw it, or resumes on the way to a target.

In a quiet state the handler is done and nothing is under way, so `PhaseOK` leaves only
that the client shows the pause (`Truth`).  Only a command of the queue, or the one
around it, moves a machine that is paused, so `LeaveOK` is `ShownIsKept` (`Kept`).

| Theorem | Property |
|---|---|
| `MasonInstallerPromises!GlobalRefined`, `PackageRefined` | `GlobalSemaphoreRefined`, `PackageSemaphoreRefined` |
| `MasonInstallerPromises!IsAnsweredExactly`, `NoSlotIsLost` | `AnsweredExactly`, `NoSlotLost` |
| `MasonDisk_proofs!LockIsEnough`, `ReceiptsVouch`, `RenameDoesNotFail`, `AllOrNothingIsLeft`, `ForceIsEnough` | `LockSuffices`, `ReceiptVouches`, `RenameSucceeds`, `AllOrNothing`, `ForceRecovers` |
| `JsBinder_proofs!SessionsCloseInOrder`, `EventsInTime`, `RootIsLast`, `Refinement` | `DisconnectInOrder`, `EventBeforeClose`, `RootTerminatedLast`, `SessionsRefined` |
| `JsBreakpoints_proofs!HandlerIsRight`, `NoneIsLeaked`, `CurrentIsSet`, `ProfileIsSilent` | `HandlerMatches`, `NoOrphan`, `CurrentSet`, `Silenced` |
| `JsThread_proofs!Truth`, `Kept` | `Truthful`, `ShownIsKept` |

and `TypeCorrect` in each of them.

**Model-checked only.**

Only the liveness properties (`NoStarvation`, `InstallAnswered`,
`UninstallAnswered`, `ExitReturns`, `ShutDownCompletes`, `Answered`, `PausesSettle`):
the prover has no rules for fairness and ENABLED.  Every other property of a run
that passes is proved.

No module uses a RECURSIVE operator.

### Not modelled, and why

* Of mason: the registry and its sources, the compilers of installers and the user
  interface.  The first is in the plan; the others change none of the state above.
* Of vscode-js-debug: launchers (they start processes and read their output),
  browser targets, the source container, variables, the console, profiling beyond
  its filter, and the VS Code extension.  What they do to the three components
  modelled is in the actions of these: a script is known, a target appears, a filter
  is applied.
* tmux-resurrect (in the plan) and the other plugins of tmux, nvim-nio, nvim-dap,
  conform, nvim-lint: programs whose state is in tmux, in the editor or in a
  process.
* The set-up scripts and the configuration files: one sequence of commands, or
  none.

## 5. The plan

What is done: `Semaphore`, `MasonInstaller`, `MasonDisk`, `JsBinder` and
`JsSessions`, `JsBreakpoints`, `JsThread`, with the runs and proofs above.  What is
left, the most important first:

1. `JsThread` composed with `JsBreakpoints`: a breakpoint removed while the thread
   decides whether it is to stop there.
2. `MasonRegistry`: `OneShotChannel`, `Channel`, `Condvar`; the refresh that
   callers share; the two files of the GitHub source, written one after the
   other and read by another process.
3. `TmuxResurrect`: save, restore and named snapshots that share the link `last`
   and the files it points to.
4. `AppSetup`: the steps of `src/apps/installing-apps.sh` that depend on one
   another, with any command failing, since the script does not stop at an error.

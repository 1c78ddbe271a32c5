------------------------------ MODULE JsBinder ------------------------------
(***************************************************************************)
(* The Binder of vscode-js-debug: the tree of debug sessions under the     *)
(* root session, how targets (the processes of the debuggee and their      *)
(* workers) enter it and get a session of their own, and how sessions      *)
(* terminate and disconnect.  An action is what runs between two awaits.   *)
(* The program has been launched and the listener for its end is in place. *)
(***************************************************************************)
EXTENDS Naturals, Sequences, FiniteSets

CONSTANTS Targets,    \* the processes and workers that may appear
          Workers,    \* those that are workers of a process
          Openers,    \* for each target, the targets above it, nearest first
          Root,       \* the node of the root session
          ShortLived, \* a process may exit while the debugger attaches to it
          MaxAsked    \* how often the user ends a session that is not over

ASSUME WorkersAssumption == Workers \subseteq Targets
ASSUME OpenersAssumption ==
    /\ Openers \in [Targets -> Seq(Targets)]
    /\ \A t \in Targets : \A i \in DOMAIN Openers[t] : Openers[t][i] # t
    /\ \A w \in Workers : /\ Openers[w] # << >>
                          /\ Openers[w][1] \notin Workers
ASSUME RootAssumption == Root \notin Targets
ASSUME ShortLivedAssumption == ShortLived \in BOOLEAN
ASSUME MaxAskedAssumption == MaxAsked \in Nat

Nodes == Targets \cup {Root}

VARIABLES
    listed,      \* the targets in the launcher's list
    seen,        \* the targets that have a TreeNode
    parent,      \* target.parent() of each, or the root
    kids,        \* _children of each node
    state,       \* _state of each node
    at,          \* where attach() is for each target
    program,     \* the debuggee
    ending,      \* onTerminated was fired and the root is not yet marked
    mark,        \* where _markTargetAsTerminated() is for each node
    markWait,    \* the children it waits for
    sent,        \* the nodes whose `terminated` event was sent
    detaching,   \* the targets that are asked to let go of the debugger
    asked,       \* the requests of the user so far, up to MaxAsked
    term,        \* where the `terminate` request of each session is
    disc,        \* where the `disconnect` request of each session is
    discWait,    \* the children it waits for
    close,       \* where each call of _terminateRoot() is
    closeWait    \* the children it waits for

treeVars == <<listed, seen, parent, kids>>
launcherVars == <<program, ending>>
markVars == <<mark, markWait, sent>>
requestVars == <<asked, term, disc, discWait>>
closeVars == <<close, closeWait>>
vars == <<treeVars, state, at, launcherVars, markVars, detaching,
          requestVars, closeVars>>

-----------------------------------------------------------------------------
(* enum TargetState *)
Running == 0
Terminating == 1
Terminated == 2
Disconnected == 3

(* The calls of _terminateRoot(): one for each request that makes one. *)
Callers == (Workers \cup {Root}) \X {"terminate", "disconnect"}

(* The handlers of the session's requests are in place. *)
Bound == {"ready", "started"}

TreeTypes ==
    /\ listed \subseteq seen /\ seen \subseteq Targets
    /\ parent \in [Targets -> Nodes]
    /\ kids \in [Nodes -> SUBSET Targets]

SessionTypes ==
    /\ state \in [Nodes -> Running..Disconnected]
    /\ at \in [Targets -> {"none", "attach", "failed", "acquire"} \cup Bound]
    /\ mark \in [Nodes -> {"no", "thread", "dispose", "kids", "done"}]
    /\ markWait \in [Nodes -> SUBSET Targets]
    /\ sent \subseteq Nodes
    /\ \A t \in Targets \ seen :
          state[t] = Running /\ at[t] = "none" /\ mark[t] = "no"

LauncherTypes ==
    /\ program \in {"running", "stopping", "stopped"}
    /\ ending \in BOOLEAN
    /\ detaching \subseteq Targets

RequestTypes ==
    /\ asked \in 0..MaxAsked
    /\ term \in [Nodes -> {"no", "wait", "done"}]
    /\ disc \in [Nodes -> {"no", "wait", "kids", "done"}]
    /\ \A t \in Targets \ seen : disc[t] = "no"
    /\ discWait \in [Nodes -> SUBSET Targets]

CloseTypes ==
    /\ close \in [Callers -> {"no", "stop", "kids", "done"}]
    /\ closeWait \in [Callers -> SUBSET Targets]

TypeOK == TreeTypes /\ SessionTypes /\ LauncherTypes /\ RequestTypes
          /\ CloseTypes

Init ==
    /\ listed = {} /\ seen = {}
    /\ parent = [t \in Targets |-> Root]
    /\ kids = [n \in Nodes |-> {}]
    /\ state = [n \in Nodes |-> Running]
    /\ at = [t \in Targets |-> "none"]
    /\ program = "running"
    /\ ending = FALSE
    /\ mark = [n \in Nodes |-> "no"]
    /\ markWait = [n \in Nodes |-> {}]
    /\ sent = {}
    /\ detaching = {}
    /\ asked = 0
    /\ term = [n \in Nodes |-> "no"]
    /\ disc = [n \in Nodes |-> "no"]
    /\ discWait = [n \in Nodes |-> {}]
    /\ close = [c \in Callers |-> "no"]
    /\ closeWait = [c \in Callers |-> {}]

(* The setter of TreeNode.state: a node never goes back. *)
Reach(n, s) == IF state[n] < s THEN [state EXCEPT ![n] = s] ELSE state

AllAre(nodes, s) == \A n \in nodes : state[n] >= s

-----------------------------------------------------------------------------
(* Targets come and go.                                                    *)

(* Mutant: an opener that has ended is taken for one that lives. *)
IsFirstOpener(t, p) ==
    IF Openers[t] = << >> THEN p = Root ELSE p = Openers[t][1]

(* The parent of t: the nearest of its openers that still lives; a worker  *)
(* is reported by its process, which is its parent.                        *)
IsParent(t, p) ==
    \/ /\ p = Root /\ t \notin Workers
       /\ \A i \in DOMAIN Openers[t] : Openers[t][i] \notin listed
    \/ \E i \in DOMAIN Openers[t] :
          /\ p = Openers[t][i] /\ p \in listed
          /\ \A j \in 1..(i - 1) : Openers[t][j] \notin listed
          /\ t \in Workers => i = 1

(* t connects to the launcher's server: _startSession(), or the event      *)
(* attachedToWorker, and with it _attachToNewTargets().  A process waits   *)
(* for the debugger before it runs code that opens others.                 *)
TargetAppears(t, p) ==
    /\ program # "stopped"
    /\ t \notin seen
    /\ Openers[t] # << >> => at[Openers[t][1]] = "started"
    /\ IsParent(t, p)
    /\ listed' = listed \cup {t} /\ seen' = seen \cup {t}
    /\ parent' = [parent EXCEPT ![t] = p]
    /\ kids' = [kids EXCEPT ![p] = @ \cup {t}]
    /\ at' = [at EXCEPT ![t] = "attach"]
    /\ UNCHANGED <<state, launcherVars, markVars, detaching, requestVars,
                   closeVars>>

(* t leaves the launcher's list, with its workers. *)
Gone(t) == {t} \cup {w \in Workers : Openers[w][1] = t}

(* Mutant: a target is marked whether or not it is there. *)
LeaveAll(ts) ==
    /\ listed' = listed \ ts
    /\ state' = [n \in Nodes |-> IF n \in ts THEN Terminating ELSE state[n]]
    /\ mark' = [n \in Nodes |-> IF n \in ts THEN "thread" ELSE mark[n]]
    /\ UNCHANGED <<seen, parent, kids, markWait, sent>>

(* The list of the launcher loses the targets ts: _terminateOrphanThreads, *)
(* and _markTargetAsTerminated() of each up to its first await.  The nodes *)
(* of listed targets are all in the tree, Running (ListedRunning).         *)
Leave(ts) ==
    /\ listed' = listed \ ts
    /\ state' = [n \in Nodes |-> IF n \in ts \cap listed THEN Terminating
                                 ELSE state[n]]
    /\ mark' = [n \in Nodes |-> IF n \in ts \cap listed THEN "thread"
                                ELSE mark[n]]
    /\ UNCHANGED <<seen, parent, kids, markWait, sent>>

(* No process leaves while attachToTarget is on its way, unless ShortLived. *)
MayLeave(ts) ==
    ShortLived \/ \A t \in (ts \cap listed) \ Workers : at[t] # "attach"

(* A process or a worker ends of its own accord. *)
TargetEnds(t) ==
    /\ t \in listed /\ MayLeave(Gone(t))
    /\ Leave(Gone(t))
    /\ UNCHANGED <<at, launcherVars, detaching, requestVars, closeVars>>

(* The debuggee has ended, of its own accord or because it was stopped:    *)
(* onProgramTerminated() fires and closes all connections.                 *)
ProgramEnds ==
    /\ program # "stopped" /\ MayLeave(listed)
    /\ program' = "stopped" /\ ending' = TRUE
    /\ Leave(listed)
    /\ UNCHANGED <<at, detaching, requestVars, closeVars>>

(* A process has detached: _doDetach() closes its connection.  What the    *)
(* worker is sent names no session of its process and has no effect.       *)
Detached(t) ==
    /\ t \in detaching \ Workers
    /\ t \in listed => MayLeave(Gone(t))
    /\ detaching' = detaching \ {t}
    /\ IF t \in listed THEN Leave(Gone(t))
       ELSE UNCHANGED <<treeVars, state, markVars>>
    /\ UNCHANGED <<at, launcherVars, requestVars, closeVars>>

-----------------------------------------------------------------------------
(* attach(): a session for the target.                                     *)

(* target.attach() returns: undefined if the connection of a process was   *)
(* closed meanwhile; a worker does not look at what its requests return.   *)
AttachReturns(t) ==
    /\ at[t] = "attach"
    /\ at' = [at EXCEPT ![t] = IF t \in listed \cup Workers THEN "acquire"
                               ELSE "failed"]
    /\ UNCHANGED <<treeVars, state, launcherVars, markVars, detaching,
                   requestVars, closeVars>>

(* acquireDap() returns once the client has connected the session, and the *)
(* handlers of the session's requests are bound.                           *)
DapAcquired(t) ==
    /\ at[t] = "acquire"
    /\ at' = [at EXCEPT ![t] = "ready"]
    /\ UNCHANGED <<treeVars, state, launcherVars, markVars, detaching,
                   requestVars, closeVars>>

(* Mutant: a session whose target is gone is not started. *)
ThreadStartedIfThere(t) ==
    /\ at[t] = "ready" /\ t \in listed
    /\ at' = [at EXCEPT ![t] = "started"]
    /\ UNCHANGED <<treeVars, state, launcherVars, markVars, detaching,
                   requestVars, closeVars>>

(* startThread(), when initAdapter() returns or the client sends `launch`: *)
(* once launchBlocker() returns, the target runs and threadData is         *)
(* resolved.                                                               *)
ThreadStarted(t) ==
    /\ at[t] = "ready"
    /\ at' = [at EXCEPT ![t] = "started"]
    /\ UNCHANGED <<treeVars, state, launcherVars, markVars, detaching,
                   requestVars, closeVars>>

-----------------------------------------------------------------------------
(* _markTargetAsTerminated(), after its first await.                       *)

MarkThread(t) ==
    /\ mark[t] = "thread" /\ at[t] = "started"
    /\ mark' = [mark EXCEPT ![t] = "dispose"]
    /\ UNCHANGED <<treeVars, state, at, launcherVars, markWait, sent,
                   detaching, requestVars, closeVars>>

(* The thread is disposed of: `terminated` is sent, and the node waits for *)
(* the children it has now.                                                *)
MarkSend(t) ==
    /\ mark[t] = "dispose"
    /\ mark' = [mark EXCEPT ![t] = "kids"]
    /\ markWait' = [markWait EXCEPT ![t] = kids[t]]
    /\ sent' = sent \cup {t}
    /\ UNCHANGED <<treeVars, state, at, launcherVars, detaching,
                   requestVars, closeVars>>

(* The end of the program reaches the root; nothing is sent if it is being *)
(* terminated already.                                                     *)
MarkRoot ==
    /\ ending
    /\ ending' = FALSE
    /\ IF state[Root] >= Terminating THEN UNCHANGED <<state, markVars>>
       ELSE /\ state' = Reach(Root, Terminating)
            /\ mark' = [mark EXCEPT ![Root] = "kids"]
            /\ markWait' = [markWait EXCEPT ![Root] = kids[Root]]
            /\ sent' = sent \cup {Root}
    /\ UNCHANGED <<treeVars, at, program, detaching, requestVars, closeVars>>

MarkDone(n) ==
    /\ mark[n] = "kids" /\ AllAre(markWait[n], Terminated)
    /\ mark' = [mark EXCEPT ![n] = "done"]
    /\ markWait' = [markWait EXCEPT ![n] = {}]
    /\ state' = Reach(n, Terminated)
    /\ UNCHANGED <<treeVars, at, launcherVars, sent, detaching, requestVars,
                   closeVars>>

-----------------------------------------------------------------------------
(* _terminateRoot().                                                       *)

(* Up to its first await: the launcher stops the program. *)
TerminateRoot(c) ==
    /\ close' = [close EXCEPT ![c] = "stop"]
    /\ state' = Reach(Root, Terminating)
    /\ program' = IF program = "running" THEN "stopping" ELSE program
    /\ UNCHANGED <<ending, closeWait>>

(* The launcher's terminate() returns once the program has stopped. *)
LauncherTerminated(c) ==
    /\ close[c] = "stop" /\ program = "stopped"
    /\ close' = [close EXCEPT ![c] = "kids"]
    /\ closeWait' = [closeWait EXCEPT ![c] = kids[Root]]
    /\ UNCHANGED <<treeVars, state, at, launcherVars, markVars, detaching,
                   requestVars>>

(* Mutant: the root does not wait for its targets. *)
TerminateRootAlone(c) ==
    /\ close[c] = "kids"
    /\ close' = [close EXCEPT ![c] = "done"]
    /\ closeWait' = [closeWait EXCEPT ![c] = {}]
    /\ state' = Reach(Root, Terminated)
    /\ UNCHANGED <<treeVars, at, launcherVars, markVars, detaching,
                   requestVars>>

TerminateRootDone(c) ==
    /\ close[c] = "kids" /\ AllAre(closeWait[c], Terminated)
    /\ close' = [close EXCEPT ![c] = "done"]
    /\ closeWait' = [closeWait EXCEPT ![c] = {}]
    /\ state' = Reach(Root, Terminated)
    /\ UNCHANGED <<treeVars, at, launcherVars, markVars, detaching,
                   requestVars>>

-----------------------------------------------------------------------------
(* The requests of the client, each once on a session.  It disconnects a   *)
(* session that is over; others only the user ends, and disconnects when   *)
(* asked again.                                                            *)

Over(n) == n \in sent \/ term[n] = "done"

UserAsks == asked < MaxAsked /\ asked' = asked + 1
AsksAgain(n) == IF Over(n) \/ term[n] = "wait" THEN UNCHANGED asked
                ELSE UserAsks

(* `terminate` on a target: stop() closes the connection of a process; a   *)
(* worker cannot be stopped, and all targets are terminated for it.        *)
Terminate(t) ==
    /\ at[t] \in Bound /\ term[t] = "no" /\ disc[t] # "done"
    /\ t \in listed \ Workers => MayLeave(Gone(t))
    /\ term' = [term EXCEPT ![t] = "wait"] /\ UserAsks
    /\ \/ /\ t \in Workers
          /\ TerminateRoot(<<t, "terminate">>)
          /\ UNCHANGED <<treeVars, markVars>>
       \/ /\ t \notin Workers /\ t \in listed
          /\ Leave(Gone(t))
          /\ UNCHANGED <<launcherVars, closeVars>>
       \/ /\ t \notin Workers /\ t \notin listed
          /\ UNCHANGED <<treeVars, state, markVars, launcherVars, closeVars>>
    /\ UNCHANGED <<at, detaching, disc, discWait>>

TerminateReply(t) ==
    /\ term[t] = "wait" /\ state[t] >= Terminated
    /\ term' = [term EXCEPT ![t] = "done"]
    /\ UNCHANGED <<treeVars, state, at, launcherVars, markVars, detaching,
                   asked, disc, discWait, closeVars>>

(* `terminate` on the root session. *)
TerminateAll ==
    /\ term[Root] = "no" /\ disc[Root] # "done"
    /\ term' = [term EXCEPT ![Root] = "wait"] /\ UserAsks
    /\ TerminateRoot(<<Root, "terminate">>)
    /\ UNCHANGED <<treeVars, at, markVars, detaching, disc, discWait>>

TerminateAllReply ==
    /\ term[Root] = "wait" /\ close[<<Root, "terminate">>] = "done"
    /\ term' = [term EXCEPT ![Root] = "done"]
    /\ UNCHANGED <<treeVars, state, at, launcherVars, markVars, detaching,
                   asked, disc, discWait, closeVars>>

(* `disconnect` on a target, with or without terminateDebuggee. *)
Disconnect(t) ==
    /\ at[t] \in Bound /\ disc[t] = "no"
    /\ disc' = [disc EXCEPT ![t] = "wait"]
    /\ AsksAgain(t)
    /\ \/ /\ state[t] >= Terminating
          /\ UNCHANGED <<treeVars, state, launcherVars, markVars, detaching,
                         closeVars>>
       \/ /\ state[t] < Terminating
          /\ detaching' = detaching \cup {t}
          /\ UNCHANGED <<treeVars, state, launcherVars, markVars, closeVars>>
       \/ /\ state[t] < Terminating /\ t \notin Workers
          /\ MayLeave(Gone(t))
          /\ Leave(Gone(t))
          /\ UNCHANGED <<launcherVars, detaching, closeVars>>
       \/ /\ state[t] < Terminating /\ t \in Workers
          /\ TerminateRoot(<<t, "disconnect">>)
          /\ UNCHANGED <<treeVars, markVars, detaching>>
    /\ UNCHANGED <<at, term, discWait>>

(* `disconnect` on the root session: it is terminated first, unless that   *)
(* has begun.                                                              *)
DisconnectAll ==
    /\ disc[Root] = "no"
    /\ disc' = [disc EXCEPT ![Root] = "wait"]
    /\ AsksAgain(Root)
    /\ IF state[Root] < Terminating
       THEN TerminateRoot(<<Root, "disconnect">>)
       ELSE UNCHANGED <<state, launcherVars, closeVars>>
    /\ UNCHANGED <<treeVars, at, markVars, detaching, term, discWait>>

(* Mutant: the session is closed while its thread is being disposed of. *)
DisconnectKidsEarly(n) ==
    /\ disc[n] = "wait"
    /\ IF n = Root THEN close[<<Root, "disconnect">>] \in {"no", "done"}
       ELSE state[n] >= Terminating
    /\ disc' = [disc EXCEPT ![n] = "kids"]
    /\ discWait' = [discWait EXCEPT ![n] = kids[n]]
    /\ UNCHANGED <<treeVars, state, at, launcherVars, markVars, detaching,
                   asked, term, closeVars>>

(* Mutant: it does not wait for the targets below it. *)
DisconnectAlone(n) ==
    /\ disc[n] = "wait"
    /\ IF n = Root THEN close[<<Root, "disconnect">>] \in {"no", "done"}
       ELSE state[n] >= Terminated
    /\ disc' = [disc EXCEPT ![n] = "kids"]
    /\ discWait' = [discWait EXCEPT ![n] = {}]
    /\ UNCHANGED <<treeVars, state, at, launcherVars, markVars, detaching,
                   asked, term, closeVars>>

(* The wait for the node's own state is over, and the wait for the         *)
(* children it has now begins.                                             *)
DisconnectKids(n) ==
    /\ disc[n] = "wait"
    /\ IF n = Root THEN close[<<Root, "disconnect">>] \in {"no", "done"}
       ELSE state[n] >= Terminated
    /\ disc' = [disc EXCEPT ![n] = "kids"]
    /\ discWait' = [discWait EXCEPT ![n] = kids[n]]
    /\ UNCHANGED <<treeVars, state, at, launcherVars, markVars, detaching,
                   asked, term, closeVars>>

(* The response: the connection of the session is closed with it, and a    *)
(* target leaves the tree.                                                 *)
DisconnectReply(n) ==
    /\ disc[n] = "kids" /\ AllAre(discWait[n], Disconnected)
    /\ disc' = [disc EXCEPT ![n] = "done"]
    /\ discWait' = [discWait EXCEPT ![n] = {}]
    /\ state' = Reach(n, Disconnected)
    /\ kids' = IF n = Root THEN kids
               ELSE [kids EXCEPT ![parent[n]] = @ \ {n}]
    /\ UNCHANGED <<listed, seen, parent, at, launcherVars, markVars,
                   detaching, asked, term, closeVars>>

-----------------------------------------------------------------------------
Attaching(t) ==
    AttachReturns(t) \/ DapAcquired(t) \/ ThreadStarted(t)

Marking ==
    \/ MarkRoot
    \/ \E t \in Targets : MarkThread(t) \/ MarkSend(t)
    \/ \E n \in Nodes : MarkDone(n)

Replying ==
    \/ \E c \in Callers : LauncherTerminated(c) \/ TerminateRootDone(c)
    \/ \E t \in Targets : TerminateReply(t)
    \/ TerminateAllReply
    \/ \E n \in Nodes : DisconnectKids(n) \/ DisconnectReply(n)

Requests ==
    \/ TerminateAll \/ DisconnectAll
    \/ \E t \in Targets : Terminate(t) \/ Disconnect(t)

Debuggee ==
    \/ ProgramEnds
    \/ \E t \in Targets : \/ \E p \in Nodes : TargetAppears(t, p)
                          \/ TargetEnds(t) \/ Detached(t)

Next == Debuggee \/ Requests \/ Marking \/ Replying
        \/ \E t \in Targets : Attaching(t)

(* What the debugger waits for comes: promises that are resolved run their *)
(* continuations, the client connects and starts the sessions it is asked  *)
(* for and disconnects those that are terminated, and a debuggee that is   *)
(* killed ends.  Nothing makes a debuggee or a user act.                   *)
Fairness ==
    /\ WF_vars(program = "stopping" /\ ProgramEnds)
    /\ WF_vars(MarkRoot) /\ WF_vars(TerminateAllReply)
    /\ \A t \in Targets :
          /\ WF_vars(Attaching(t))
          /\ WF_vars(MarkThread(t)) /\ WF_vars(MarkSend(t))
          /\ WF_vars(Detached(t)) /\ WF_vars(TerminateReply(t))
          /\ WF_vars(Over(t) /\ Disconnect(t))
    /\ WF_vars(Over(Root) /\ DisconnectAll)
    /\ \A n \in Nodes : /\ WF_vars(MarkDone(n)) /\ WF_vars(DisconnectKids(n))
                        /\ WF_vars(DisconnectReply(n))
    /\ \A c \in Callers : /\ WF_vars(LauncherTerminated(c))
                          /\ WF_vars(TerminateRootDone(c))

Spec == Init /\ [][Next]_vars
LiveSpec == Spec /\ Fairness

-----------------------------------------------------------------------------
(* The listed targets are Running, and in the tree with all that is above  *)
(* them, which the walk of the tree in _terminateOrphanThreads() relies on *)
(* to mark exactly them: JsBinder_proofs has the proof.                    *)
ListedRunning ==
    \A t \in listed : /\ state[t] = Running
                      /\ t \in kids[parent[t]]
                      /\ parent[t] # Root => state[parent[t]] < Disconnected

(* A target answers `disconnect`, which closes its session, only after all *)
(* the targets below it have answered theirs, whatever appears, ends or is *)
(* asked for while it waits for those it knew of.                          *)
DisconnectInOrder ==
    \A t \in seen :
        (parent[t] # Root /\ state[parent[t]] = Disconnected)
            => state[t] = Disconnected

(* The `terminated` event of a target goes out before its session is       *)
(* closed, and after the target is gone: it is neither lost nor a lie.     *)
EventBeforeClose ==
    /\ \A t \in Targets : state[t] = Disconnected => t \in sent
    /\ \A t \in sent \ {Root} : t \notin listed

(* The root is Terminated, and a request to terminate it answered, only    *)
(* when no target is left and all the root's targets are Terminated.       *)
RootTerminatedLast ==
    state[Root] = Terminated \/ term[Root] = "done"
        => \A t \in seen : /\ t \notin listed
                           /\ parent[t] = Root => state[t] >= Terminated

(* The Binder keeps what JsSessions promises the client, whatever appears, *)
(* ends or is asked for while a session waits for those below it: a target *)
(* gone between two awaits is neither a parent nor left behind.            *)
Phase == [t \in Targets |->
             IF t \notin seen THEN "absent"
             ELSE IF t \in listed THEN "open"
             ELSE IF t \notin sent THEN "gone"
             ELSE IF state[t] < Disconnected THEN "told"
             ELSE "closed"]
Sessions == INSTANCE JsSessions WITH phase <- Phase
SessionsRefined == Sessions!Spec

(* Once the debuggee has ended every target's session is closed, and the   *)
(* root is terminated.                                                     *)
ShutDownCompletes ==
    (program = "stopped")
        ~> /\ \A t \in seen : state[t] = Disconnected
           /\ state[Root] >= Terminated

(* binder.ts:200: terminating all targets "resolves when all have          *)
(* terminated".                                                            *)
TerminateResolves ==
    (term[Root] = "wait" /\ listed = {} /\ program = "stopped")
        ~> (term[Root] = "done")
=============================================================================

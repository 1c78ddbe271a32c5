------------------------------ MODULE JsThread ------------------------------
(***************************************************************************)
(* A Thread of vscode-js-debug: how the pauses of the debuggee's virtual   *)
(* machine become `stopped` and `continued` events of the client, and how  *)
(* the requests of the client and the decisions of the debugger itself (a  *)
(* condition that is false, code to step through) become commands, through *)
(* the StateQueue.  An action is what runs between two awaits; answers and *)
(* events of the machine arrive in order, and several may arrive before    *)
(* what awaits the first goes on.                                          *)
(***************************************************************************)
EXTENDS Naturals, Sequences

CONSTANTS MaxPauses,  \* how many times the debuggee pauses
          MaxAsked    \* how many requests the client makes

ASSUME MaxPausesAssumption == MaxPauses \in Nat \ {0}
ASSUME MaxAskedAssumption == MaxAsked \in Nat

Pauses == 1..MaxPauses

VARIABLES
    vm,          \* the pause the machine is at; 0: it runs
    kind,        \* what each pause is for; "none": it has not been
    wanted,      \* the machine was asked to pause at the next statement
    planted,     \* the breakpoint on a step-in target is set
    cmds,        \* commands on their way to the machine
    inbox,       \* answers and events on their way from it
    chain,       \* the operations of stateQueue that are not over
    head,        \* where the first of them is
    flushing,    \* the calls of enqueue() that wait for the flush
    expected,    \* _expectedPauseReason
    waiting,     \* _waitingForStepIn: unset, set, set with a breakpoint
    details,     \* _pausedDetails
    handler,     \* where _onPaused() is for each pause
    refresh,     \* where refreshStackTrace() is
    view,        \* the pause the client shows; 0: it shows a running thread
    asked,       \* the requests of the client so far, up to MaxAsked
    dismissed,   \* the pauses the client saw and asked to leave
    rushed       \* it asked for something without an answer to the last

machineVars == <<vm, kind, wanted, planted>>
queueVars == <<chain, head, expected, waiting>>
clientVars == <<asked, dismissed, rushed>>
vars == <<machineVars, cmds, inbox, queueVars, flushing, details, handler,
          refresh, view, clientVars>>

-----------------------------------------------------------------------------
(* Why the machine pauses: at a place to show; at a breakpoint that turns  *)
(* out not to want it, or at the entry; before a script with a source map; *)
(* in code that is stepped through; at the target of a step; only because  *)
(* it was asked to, which may well be in code that is stepped through.  A  *)
(* pause that was asked for and has another of these reasons too is of     *)
(* that kind: _onPaused() looks at breakpoints, entry and scripts first.   *)
Kinds == {"show", "skip", "script", "smart", "target", "asked"}

Operations == {"resume", "pause", "over", "in"}
Entries == [op : Operations, target : BOOLEAN]
Entry(op) == [op |-> op, target |-> FALSE]

(* "raw": resume or step without the queue. *)
Commands == [do : {"resume", "step", "pause", "break", "unbreak", "raw"},
             pause : 0..MaxPauses]
Messages == [type : {"ok", "fail", "unbroken", "paused", "resumed"},
             pause : 0..MaxPauses]
Do(what) == [do |-> what, pause |-> 0]
Message(what) == [type |-> what, pause |-> 0]

(* _pausedDetails holds the pause, and who made the object. *)
None == [pause |-> 0, by |-> "none"]
OwnDetails(n) == [pause |-> n, by |-> "event"]

Callers == 1..(MaxPauses + MaxAsked)

TypeOK ==
    /\ vm \in 0..MaxPauses
    /\ kind \in [Pauses -> Kinds \cup {"none"}]
    /\ wanted \in BOOLEAN /\ planted \in BOOLEAN
    /\ cmds \in Seq(Commands) /\ inbox \in Seq(Messages)
    /\ chain \in Seq(Entries)
    /\ head \in {"idle", "prepare", "break", "sent", "answered"}
    /\ (head = "idle") <=> (chain = << >>)
    /\ flushing \subseteq [by : Callers, entry : Entries]
    /\ expected \in {"none", "pause", "over", "in"}
    /\ waiting \in {"no", "yes", "target"}
    /\ details \in [pause : 0..MaxPauses, by : {"none", "event", "refresh"}]
    /\ handler \in [Pauses -> {"none", "skip", "bypass", "want", "unbreak",
                               "create", "over", "in", "show", "tell",
                               "done"}]
    /\ refresh \in [pause : 0..MaxPauses, at : {"no", "create", "tell"}]
    /\ view \in 0..MaxPauses
    /\ asked \in 0..MaxAsked
    /\ dismissed \subseteq Pauses
    /\ rushed \in BOOLEAN

Init ==
    /\ vm = 0 /\ kind = [n \in Pauses |-> "none"]
    /\ wanted = FALSE /\ planted = FALSE
    /\ cmds = << >> /\ inbox = << >>
    /\ chain = << >> /\ head = "idle" /\ flushing = {}
    /\ expected = "none" /\ waiting = "no" /\ details = None
    /\ handler = [n \in Pauses |-> "none"]
    /\ refresh = [pause |-> 0, at |-> "no"]
    /\ view = 0 /\ asked = 0 /\ dismissed = {} /\ rushed = FALSE

-----------------------------------------------------------------------------
(* The virtual machine: commands are answered in order, and an answer goes *)
(* out before the event of what the command did.                           *)

NextPause == CHOOSE n \in Pauses : /\ kind[n] = "none"
                                   /\ \A i \in 1..(n - 1) : kind[i] # "none"

(* Any pause is the one that was asked for, if one was, and the debugger   *)
(* steps through none that is.                                             *)
MachinePauses(k) ==
    /\ vm = 0 /\ \E n \in Pauses : kind[n] = "none"
    /\ k = "asked" => wanted
    /\ k = "smart" => ~wanted
    /\ k = "target" => planted
    /\ vm' = NextPause /\ kind' = [kind EXCEPT ![NextPause] = k]
    /\ wanted' = FALSE
    /\ inbox' = Append(inbox, [type |-> "paused", pause |-> NextPause])
    /\ UNCHANGED <<planted, cmds, queueVars, flushing, details, handler,
                   refresh, view, clientVars>>

(* A machine that is paused goes on; one that runs refuses. *)
Leaves(c) ==
    /\ c.do \in {"resume", "step", "raw"}
    /\ vm' = 0
    /\ inbox' = inbox
          \o (IF c.do = "raw" THEN << >>
              ELSE <<Message(IF vm # 0 THEN "ok" ELSE "fail")>>)
          \o (IF vm # 0 THEN <<Message("resumed")>> ELSE << >>)
    /\ UNCHANGED <<kind, wanted, planted>>

(* A machine that is paused has nothing to do when asked to pause. *)
AsksToPause(c) ==
    /\ c.do = "pause"
    /\ wanted' = (wanted \/ vm = 0)
    /\ inbox' = Append(inbox, Message("ok"))
    /\ UNCHANGED <<vm, kind, planted>>

Plants(c) ==
    /\ c.do \in {"break", "unbreak"}
    /\ planted' = (c.do = "break")
    /\ inbox' = Append(inbox,
                       IF c.do = "break" THEN Message("ok")
                       ELSE [type |-> "unbroken", pause |-> c.pause])
    /\ UNCHANGED <<vm, kind, wanted>>

MachineObeys ==
    /\ cmds # << >>
    /\ cmds' = Tail(cmds)
    /\ \/ Leaves(Head(cmds)) \/ AsksToPause(Head(cmds)) \/ Plants(Head(cmds))
    /\ UNCHANGED <<queueVars, flushing, details, handler, refresh, view,
                   clientVars>>

-----------------------------------------------------------------------------
(* StateQueue, and the operations resume(), pause(), stepOver() and        *)
(* stepInto(); stepOut() is a stepOver() without a skip list.              *)

Latest(q) == q[Len(q)].op

(* The first operation of q starts, and runs up to its first await: the    *)
(* answer of the machine, or the frames for the skip list.                 *)
Run(q) ==
    LET e == Head(q)
        aim == e.op = "in" /\ e.target /\ details # None
    IN /\ chain' = q
       /\ head' = IF aim THEN "break"
                  ELSE IF e.op \in {"over", "in"} THEN "prepare" ELSE "sent"
       /\ cmds' = IF aim THEN Append(cmds, Do("break"))
                  ELSE IF e.op \in {"over", "in"} THEN cmds
                  ELSE Append(cmds, Do(e.op))
       /\ expected' = IF e.op = "resume" THEN expected ELSE e.op
       /\ waiting' = IF e.op = "in" THEN "yes" ELSE waiting

Added(e) ==
    IF chain = << >> THEN Run(<<e>>)
    ELSE /\ chain' = Append(chain, e)
         /\ UNCHANGED <<head, cmds, expected, waiting>>

(* Mutant: enqueue() does not wait for the operations that are over. *)
EnqueueAtOnce(c, e) ==
    /\ UNCHANGED flushing
    /\ IF chain # << >> /\ Latest(chain) = e.op
       THEN UNCHANGED <<queueVars, cmds>>
       ELSE Added(e)

(* enqueue(): an operation that is already the latest is waited for, once  *)
(* the operations that are over have left.                                 *)
Enqueue(c, e) ==
    IF chain # << >> /\ Latest(chain) = e.op
    THEN /\ flushing' = flushing \cup {[by |-> c, entry |-> e]}
         /\ UNCHANGED <<queueVars, cmds>>
    ELSE Added(e) /\ UNCHANGED flushing

(* Timers and requests of the client come after what was resolved. *)
Settled == head # "answered"

Flushed(f) ==
    /\ f \in flushing /\ Settled
    /\ flushing' = flushing \ {f}
    /\ IF chain # << >> /\ Latest(chain) = f.entry.op
       THEN UNCHANGED <<queueVars, cmds>>
       ELSE Added(f.entry)
    /\ UNCHANGED <<machineVars, inbox, details, handler, refresh, view,
                   clientVars>>

(* getCurrentSkipList() returns. *)
Prepared ==
    /\ head = "prepare"
    /\ head' = "sent"
    /\ cmds' = Append(cmds, Do("step"))
    /\ UNCHANGED <<machineVars, inbox, chain, expected, waiting, flushing,
                   details, handler, refresh, view, clientVars>>

(* The answer to the first operation.  A step into a target has set its    *)
(* breakpoint and resumes; it fails if _waitingForStepIn is unset by then. *)
AnswerArrives ==
    /\ inbox # << >> /\ Head(inbox).type \in {"ok", "fail"}
    /\ inbox' = Tail(inbox)
    /\ IF head = "break" /\ waiting # "no"
       THEN /\ head' = "sent" /\ waiting' = "target"
            /\ cmds' = Append(cmds, Do("resume"))
       ELSE /\ head' = "answered"
            /\ UNCHANGED <<waiting, cmds>>
    /\ UNCHANGED <<machineVars, chain, expected, flushing, details, handler,
                   refresh, view, clientVars>>

(* Mutant: the next operation is not started. *)
OperationStops ==
    /\ head = "answered"
    /\ chain' = Tail(chain) /\ head' = "idle"
    /\ UNCHANGED <<machineVars, cmds, inbox, expected, waiting, flushing,
                   details, handler, refresh, view, clientVars>>

OperationOver ==
    /\ head = "answered"
    /\ IF Len(chain) > 1 THEN Run(Tail(chain))
       ELSE /\ chain' = << >> /\ head' = "idle"
            /\ UNCHANGED <<cmds, expected, waiting>>
    /\ UNCHANGED <<machineVars, inbox, flushing, details, handler, refresh,
                   view, clientVars>>

-----------------------------------------------------------------------------
(* _onPaused().                                                            *)

(* What becomes of pause n, as far as it is known when the event arrives:  *)
(* a script pause in the middle of a step over it is left at once.         *)
Verdict(n) ==
    CASE kind[n] = "skip" -> "skip"
      [] kind[n] = "script" -> IF expected = "over" THEN "bypass"
                               ELSE IF expected = "in" THEN "want"
                               ELSE "skip"
      [] OTHER -> "want"

PausedArrives ==
    /\ inbox # << >> /\ Head(inbox).type = "paused"
    /\ LET n == Head(inbox).pause
       IN handler' = [handler EXCEPT ![n] = Verdict(n)]
    /\ inbox' = Tail(inbox)
    /\ UNCHANGED <<machineVars, cmds, queueVars, flushing, details, refresh,
                   view, clientVars>>

(* Mutant: a pause that is not wanted is resumed, and shown all the same. *)
DecidedFallsThrough(n) ==
    /\ handler[n] \in {"skip", "want"}
    /\ handler' = [handler EXCEPT ![n] = "create"]
    /\ IF handler[n] = "skip" THEN Enqueue(n, Entry("resume"))
       ELSE UNCHANGED <<queueVars, cmds, flushing>>
    /\ UNCHANGED <<machineVars, inbox, details, refresh, view, clientVars>>

(* The conditions of the breakpoints, the exception filters or the source  *)
(* map have been awaited.  While a step into a target has not reached it,  *)
(* every other pause is left.                                              *)
Decided(n) ==
    /\ \/ /\ \/ handler[n] = "skip"
             \/ handler[n] = "want" /\ waiting = "target" /\ kind[n] # "target"
          /\ handler' = [handler EXCEPT ![n] = "done"]
          /\ Enqueue(n, Entry("resume"))
       \/ /\ handler[n] = "bypass"
          /\ handler' = [handler EXCEPT ![n] = "done"]
          /\ cmds' = Append(cmds, Do("raw"))
          /\ UNCHANGED <<queueVars, flushing>>
       \/ /\ handler[n] = "want" /\ waiting = "target" /\ kind[n] = "target"
          /\ handler' = [handler EXCEPT ![n] = "unbreak"]
          /\ waiting' = "yes"
          /\ cmds' = Append(cmds, [do |-> "unbreak", pause |-> n])
          /\ UNCHANGED <<chain, head, expected, flushing>>
       \/ /\ handler[n] = "want" /\ waiting # "target"
          /\ handler' = [handler EXCEPT ![n] = "create"]
          /\ UNCHANGED <<queueVars, cmds, flushing>>
    /\ UNCHANGED <<machineVars, inbox, details, refresh, view, clientVars>>

(* The breakpoint of the target is removed: step into its function. *)
UnbrokenArrives ==
    /\ inbox # << >> /\ Head(inbox).type = "unbroken"
    /\ inbox' = Tail(inbox)
    /\ handler' = [handler EXCEPT ![Head(inbox).pause] = "done"]
    /\ cmds' = Append(cmds, Do("raw"))
    /\ UNCHANGED <<machineVars, queueVars, flushing, details, refresh, view,
                   clientVars>>

(* Mutant: the smart stepper does not look at why the machine paused. *)
CreatedAnyhow(n) ==
    /\ handler[n] = "create"
    /\ details' = OwnDetails(n)
    /\ handler' = [handler EXCEPT ![n] =
                      IF kind[n] \notin {"smart", "asked"} THEN "show"
                      ELSE IF expected = "over" THEN "over" ELSE "in"]
    /\ UNCHANGED <<machineVars, cmds, inbox, queueVars, flushing, refresh,
                   view, clientVars>>

(* _createPausedDetails() returns, and the smart stepper is asked for a    *)
(* direction, with the reason that is expected now.                        *)
Created(n) ==
    /\ handler[n] = "create"
    /\ details' = OwnDetails(n)
    /\ handler' = [handler EXCEPT ![n] =
                      IF \/ kind[n] \notin {"smart", "asked"}
                         \/ expected = "pause" THEN "show"
                      ELSE IF expected = "over" THEN "over" ELSE "in"]
    /\ UNCHANGED <<machineVars, cmds, inbox, queueVars, flushing, refresh,
                   view, clientVars>>

(* The direction is known, and the pause is left alone if it is no longer  *)
(* the current one; or code is stepped through; or _onThreadPaused()       *)
(* begins.                                                                 *)
Steered(n) ==
    /\ handler[n] \in {"over", "in", "show"}
    /\ handler' = [handler EXCEPT ![n] =
                      IF details = OwnDetails(n) /\ handler[n] = "show"
                      THEN "tell" ELSE "done"]
    /\ \/ /\ details # OwnDetails(n)
          /\ UNCHANGED <<queueVars, cmds, flushing>>
       \/ /\ details = OwnDetails(n) /\ handler[n] # "show"
          /\ Enqueue(n, Entry(handler[n]))
       \/ /\ details = OwnDetails(n) /\ handler[n] = "show"
          /\ waiting' = "no" /\ expected' = "none"
          /\ UNCHANGED <<chain, head, cmds, flushing>>
    /\ UNCHANGED <<machineVars, inbox, details, refresh, view, clientVars>>

(* _onThreadPaused(): the breakpoints are resolved, and the timer is over. *)
Told(n) ==
    /\ handler[n] = "tell" /\ Settled
    /\ handler' = [handler EXCEPT ![n] = "done"]
    /\ view' = n
    /\ UNCHANGED <<machineVars, cmds, inbox, queueVars, flushing, details,
                   refresh, clientVars>>

(* onResumed(). *)
ResumedArrives ==
    /\ inbox # << >> /\ Head(inbox).type = "resumed"
    /\ inbox' = Tail(inbox)
    /\ details' = None
    /\ view' = 0
    /\ UNCHANGED <<machineVars, cmds, queueVars, flushing, handler, refresh,
                   clientVars>>

-----------------------------------------------------------------------------
(* refreshStackTrace(): stepping with source maps was turned on or off.    *)

Refreshed ==
    /\ refresh.at = "create"
    /\ refresh' = [refresh EXCEPT !.at = "tell"]
    /\ details' = [pause |-> refresh.pause, by |-> "refresh"]
    /\ expected' = "none"
    /\ view' = 0
    /\ UNCHANGED <<machineVars, cmds, inbox, chain, head, waiting, flushing,
                   handler, clientVars>>

RefreshTold ==
    /\ refresh.at = "tell" /\ Settled
    /\ refresh' = [pause |-> 0, at |-> "no"]
    /\ view' = refresh.pause
    /\ UNCHANGED <<machineVars, cmds, inbox, queueVars, flushing, details,
                   handler, clientVars>>

-----------------------------------------------------------------------------
(* The client.  It asks to continue or step while it shows the thread as   *)
(* stopped, and to pause while it shows it as running; a rushed one does   *)
(* not wait to see the thread stopped again.                               *)

Asks(isRushed) ==
    /\ asked < MaxAsked /\ Settled
    /\ asked' = asked + 1
    /\ rushed' = (rushed \/ isRushed)

AsksToLeave(e) ==
    /\ e.op # "pause"
    /\ dismissed # {} \/ view # 0
    /\ Asks(view = 0 \/ refresh.at # "no")
    /\ dismissed' = IF view = 0 THEN dismissed ELSE dismissed \cup {view}
    /\ view' = 0
    /\ Enqueue(MaxPauses + asked', e)
    /\ UNCHANGED <<machineVars, inbox, details, handler, refresh>>

AsksForPause ==
    /\ view = 0
    /\ Asks(FALSE)
    /\ Enqueue(MaxPauses + asked', Entry("pause"))
    /\ UNCHANGED <<machineVars, inbox, details, handler, refresh, view,
                   dismissed>>

(* One refresh at a time. *)
AsksForRefresh ==
    /\ details # None /\ refresh.at = "no"
    /\ Asks(view = 0)
    /\ refresh' = [pause |-> details.pause, at |-> "create"]
    /\ UNCHANGED <<machineVars, cmds, inbox, queueVars, flushing, details,
                   handler, view, dismissed>>

-----------------------------------------------------------------------------
Arrives ==
    AnswerArrives \/ PausedArrives \/ UnbrokenArrives \/ ResumedArrives

Handles(n) == Decided(n) \/ Created(n) \/ Steered(n) \/ Told(n)

Client ==
    \/ \E e \in Entries : (e.target => e.op = "in") /\ AsksToLeave(e)
    \/ AsksForPause \/ AsksForRefresh

Next ==
    \/ \E k \in Kinds : MachinePauses(k)
    \/ MachineObeys \/ Arrives
    \/ Prepared \/ OperationOver \/ \E f \in flushing : Flushed(f)
    \/ \E n \in Pauses : Handles(n)
    \/ Refreshed \/ RefreshTold
    \/ Client

(* The machine obeys, what it sends arrives, timers end and what is        *)
(* awaited comes.  Nothing makes the debuggee pause or the client ask.     *)
Fairness ==
    /\ WF_vars(MachineObeys) /\ WF_vars(Arrives)
    /\ WF_vars(Prepared) /\ WF_vars(OperationOver)
    /\ WF_vars(\E f \in flushing : Flushed(f))
    /\ \A n \in Pauses : WF_vars(Handles(n))
    /\ WF_vars(Refreshed) /\ WF_vars(RefreshTold)

Spec == Init /\ [][Next]_vars
LiveSpec == Spec /\ Fairness

-----------------------------------------------------------------------------
(* Nothing is on its way. *)
Quiet ==
    /\ cmds = << >> /\ inbox = << >> /\ chain = << >> /\ flushing = {}
    /\ refresh.at = "no"
    /\ \A n \in Pauses : handler[n] \in {"none", "done"}

(* Once nothing is on its way, a client that waits to see the thread stop  *)
(* before it goes on shows exactly what the machine does, whatever the     *)
(* debugger resumed and stepped through by itself in between.              *)
Truthful == Quiet /\ ~rushed => view = vm

(* A pause to be shown, or that has no reason but that it was asked for,   *)
(* is left only when the client saw it and asked to leave it: no resume or *)
(* step the debugger or the client meant for an earlier pause reaches it.  *)
(* A step into a target that has not reached it is the exception           *)
(* (PauseHonoured).  (A pause that was asked for and falls together with a *)
(* breakpoint that does not want it, the entry or a script is resumed like *)
(* any of those, and is not one of these kinds.)                           *)
Left(kinds) == vm # 0 /\ vm' # vm /\ kind[vm] \in kinds
ShownIsKept ==
    [][Left({"show", "asked"}) /\ ~rushed /\ waiting # "target"
           => vm \in dismissed]_vars

(* Every pause of the machine is left, or the client is told that it is    *)
(* stopped: none is lost between two operations that are taken for one.    *)
PausesSettle ==
    \A n \in Pauses : (vm = n) ~> (vm # n \/ view # 0 \/ rushed)

(* smartStepping.ts:79: "An explicit pause must leave the debuggee         *)
(* stopped, even in skipped code."                                         *)
PauseHonoured ==
    [][Left({"asked"}) /\ ~rushed => vm \in dismissed]_vars
=============================================================================

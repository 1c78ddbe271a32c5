---------------------------- MODULE JsBreakpoints ----------------------------
(***************************************************************************)
(* The breakpoints of a thread of vscode-js-debug: what `setBreakpoints`   *)
(* requests, scripts that arrive and leave, and the filter of the profiler *)
(* do to the BreakpointManager and its breakpoints, and the commands they  *)
(* send to V8.  A breakpoint is set by a regular expression on the path of *)
(* its source, which is written in a language that is compiled, until the  *)
(* scripts compiled from the source are known, and after that by the URL   *)
(* of each script, or by its id if it has a sourceURL or no URL at all.    *)
(* What is set by path or URL outlives the page.  An action is what runs   *)
(* between two awaits.                                                     *)
(***************************************************************************)
EXTENDS Integers, Sequences, FiniteSets, SequencesExt

CONSTANTS Sources,      \* the sources of the user
          Lines,        \* where a breakpoint may be asked for in each
          Asked,        \* the sets of lines that the client asks for
          MaxRequests,  \* how many `setBreakpoints` requests it sends
          Scripts,      \* the scripts that V8 may parse
          Urls,         \* their URLs
          ScriptSource, \* the source each is compiled from
          Place,        \* where breakpoints are set for each: itself or a URL
          Spot,         \* at which position there each line is
          Overlaid,     \* the scripts whose own URL is the path of the source
          MaxFilters,   \* how many times a filter is applied
          MaxClears     \* how many times the execution contexts are cleared

(* Scripts of one URL are alike. *)
ASSUME ScriptsAssumption ==
    /\ ScriptSource \in [Scripts -> Sources] /\ Overlaid \subseteq Scripts
    /\ {"path", "scripts"} \cap (Scripts \cup Urls) = {}
    /\ Scripts \cap Urls = {}
    /\ \A s \in Scripts : Place[s] \in {s} \cup Urls
    /\ \A s, t \in Scripts : Place[s] = Place[t] =>
          /\ ScriptSource[s] = ScriptSource[t]
          /\ s \in Overlaid <=> t \in Overlaid
(* The scripts that overlay a source agree on which of its lines are where *)
(* they were.                                                              *)
ASSUME SpotAssumption ==
    \A s, t \in Overlaid, l \in Lines :
        ScriptSource[s] = ScriptSource[t] =>
            (Spot[Place[s]][l] = l <=> Spot[Place[t]][l] = l)
ASSUME AskedAssumption == Asked \subseteq SUBSET Lines
ASSUME FiniteAssumption ==
    /\ Sources # {} /\ IsFiniteSet(Lines)
    /\ IsFiniteSet(Scripts) /\ IsFiniteSet(Urls)
ASSUME BoundsAssumption ==
    MaxRequests \in Nat /\ MaxFilters \in Nat /\ MaxClears \in Nat

Requests == 1..MaxRequests

(* The breakpoint that a request creates at a line. *)
Breakpoints == Requests \X Lines

(* A breakpoint reference: where in the debuggee a breakpoint is set. *)
Lasting == Urls \cup {"path"}
Refs == Breakpoints \X (Scripts \cup Lasting)

VARIABLES
    ready,      \* debuggerReady: the debugger domain is enabled
    handler,    \* the source map handler is installed
    filter,     \* _enabledFilter, that lets "all" or "none" pass
    filterWait, \* the breakpoints it disabled, until all are removed
    profile,    \* the commands of the profiler that V8 has answered
    pc,         \* where each request is
    queue,      \* those that wait for debuggerReady, in order
    args,       \* the source and the lines of each request
    news,       \* the breakpoints that each request has created
    unbindWait, \* the references whose removal a request waits for
    enableWait, \* the breakpoints that a request waits to be enabled
    byPath,     \* _byPath: the breakpoints of each source
    byDapId,    \* _byDapId
    total,      \* _totalBreakpointsCount
    enabled,    \* the breakpoints with isEnabled
    placing,    \* the calls that look for the place to set a breakpoint at
    pending,    \* the references in state Pending
    applied,    \* the references in state Applied
    wire,       \* the commands that V8 has not answered
    v8,         \* the references that V8 has a breakpoint for
    forgotten,  \* the references that were dropped, though their scripts live
    alive,      \* the scripts of the debuggee
    loaded,     \* the scripts that the source container knows
    parsed,     \* the scripts that have been parsed so far
    cleared,    \* the end of _executionContextsCleared() is to come
    rushed,     \* a source was sent a request before its last was answered
    filters,    \* filters so far, up to MaxFilters
    clears      \* times the contexts were cleared so far, up to MaxClears

filterVars == <<filter, filterWait, profile, filters>>
requestVars == <<pc, queue, args, news, unbindWait, enableWait, rushed>>
managerVars == <<handler, byPath, byDapId, total>>
refVars == <<enabled, placing, pending, applied, wire>>
scriptVars == <<forgotten, alive, loaded, parsed, cleared, clears>>
vars == <<ready, filterVars, requestVars, managerVars, refVars, v8,
          scriptVars>>

-----------------------------------------------------------------------------
(* The profiler is started, or stopped. *)
ProfilerCommand == [kind |-> "profile", ref |-> <<<<0, 0>>, "none">>,
                    dead |-> FALSE]

(* "lost": a reference is being set that has been dropped since.           *)
Commands == [kind : {"set", "lost", "remove"}, ref : Refs, dead : BOOLEAN]
               \cup {ProfilerCommand}

TypeOK ==
    /\ ready \in BOOLEAN /\ handler \in BOOLEAN /\ cleared \in BOOLEAN
    /\ filter \in {"all", "none"} /\ filterWait \subseteq Breakpoints
    /\ profile \in 0..2
    /\ pc \in [Requests -> {"idle", "predict", "entry", "unbind", "enable",
                            "done"}]
    /\ queue \in Seq(Requests)
    /\ args \in [Requests -> [src : Sources, lines : SUBSET Lines]]
    /\ news \in [Requests -> SUBSET Breakpoints]
    /\ unbindWait \in [Requests -> SUBSET Refs]
    /\ enableWait \in [Requests -> SUBSET Breakpoints]
    /\ byPath \in [Sources -> SUBSET Breakpoints]
    /\ byDapId \subseteq Breakpoints
    /\ total \in Int
    /\ enabled \subseteq byDapId
    /\ placing \subseteq Breakpoints \X (Scripts \cup {"path", "scripts"})
    /\ pending \subseteq Refs /\ applied \subseteq Refs
    /\ pending \cap applied = {}
    /\ \A i \in DOMAIN wire : wire[i] \in Commands
    /\ v8 \subseteq Refs /\ forgotten \subseteq Refs
    /\ alive \subseteq loaded /\ loaded \subseteq parsed
    /\ parsed \subseteq Scripts
    /\ rushed \in BOOLEAN
    /\ filters \in 0..MaxFilters /\ clears \in 0..MaxClears

Init ==
    /\ ready = FALSE /\ handler = FALSE
    /\ filter = "all" /\ filterWait = {} /\ profile = 0 /\ filters = 0
    /\ pc = [r \in Requests |-> "idle"] /\ queue = << >>
    /\ args = [r \in Requests |->
                 [src |-> CHOOSE s \in Sources : TRUE, lines |-> {}]]
    /\ news = [r \in Requests |-> {}]
    /\ unbindWait = [r \in Requests |-> {}]
    /\ enableWait = [r \in Requests |-> {}]
    /\ byPath = [s \in Sources |-> {}] /\ byDapId = {} /\ total = 0
    /\ enabled = {} /\ placing = {} /\ pending = {} /\ applied = {}
    /\ wire = << >> /\ v8 = {} /\ forgotten = {}
    /\ alive = {} /\ loaded = {} /\ parsed = {}
    /\ cleared = FALSE /\ clears = 0
    /\ rushed = FALSE

-----------------------------------------------------------------------------
SourceOf(b) == args[b[1]].src
LineOf(b) == b[2]

(* The source container has the source once it has a script of it. *)
Known(src) == \E s \in loaded : ScriptSource[s] = src

(* What V8 names a breakpoint by: two of them cannot be at one location,   *)
(* and the lines of two may well be at one position of a script.           *)
Location(ref) ==
    <<SourceOf(ref[1]),
      IF ref[2] = "path" THEN LineOf(ref[1]) ELSE Spot[ref[2]][LineOf(ref[1])],
      ref[2]>>

OnWire(refs) == \E i \in DOMAIN wire : wire[i].ref \in refs

Commanded(kind, refs) ==
    SetToSeq({[kind |-> kind, ref |-> ref, dead |-> FALSE] : ref \in refs})

(* A call of enable() for b is not over: it looks for a place, or waits    *)
(* until the references it has set are answered.                           *)
Enabling(b) ==
    \/ \E where \in {"path", "scripts"} : <<b, where>> \in placing
    \/ \E i \in DOMAIN wire : /\ wire[i].kind \in {"set", "lost"}
                              /\ wire[i].ref[1] = b

-----------------------------------------------------------------------------
(* Operations of a Breakpoint.                                             *)

(* Mutant: the path is always used. *)
EnableByPath(bs) ==
    /\ enabled' = enabled \cup bs
    /\ placing' = placing \cup {<<b, "path">> : b \in bs \ enabled}
    /\ UNCHANGED <<pending, applied, wire>>

(* enable(), up to its first await: the path is used only as long as no    *)
(* script of the source is known. *)
Enable(bs) ==
    /\ enabled' = enabled \cup bs
    /\ placing' = placing \cup
          {<<b, IF Known(SourceOf(b)) THEN "scripts" ELSE "path">> :
              b \in bs \ enabled}
    /\ UNCHANGED <<pending, applied, wire>>

RefsOf(bs) == {ref \in pending \cup applied : ref[1] \in bs}

(* Mutant: a reference that is pending is only forgotten. *)
RemovedIfApplied(refs, commands) ==
    commands \o Commanded("remove", refs \cap applied)

(* removeCdpBreakpoint(): a reference that is pending is dead-lettered, so *)
(* that it is removed when V8 has answered; another is removed now.        *)
Removed(refs, commands) ==
    [i \in DOMAIN commands |->
        IF commands[i].kind = "set" /\ commands[i].ref \in refs \cap pending
        THEN [commands[i] EXCEPT !.dead = TRUE] ELSE commands[i]]
    \o Commanded("remove", refs \cap applied)

Disable(bs) ==
    /\ enabled' = enabled \ bs
    /\ pending' = pending \ RefsOf(bs) /\ applied' = applied \ RefsOf(bs)
    /\ wire' = Removed(RefsOf(bs), wire)
    /\ UNCHANGED placing

(* Mutant: whether the breakpoint is still enabled is not looked at. *)
NewAnyway(refs) == refs \ (pending \cup applied)

(* _setAny() for those of refs, of an enabled breakpoint, that are not     *)
(* there yet. *)
New(refs) == {ref \in refs \ (pending \cup applied) : ref[1] \in enabled}

(* The line of b in the script s is where it is in the source at its path. *)
InPlace(b, s) == s \in Overlaid /\ Spot[Place[s]][LineOf(b)] = LineOf(b)

(* _setForSpecific() for each of the scripts: nothing is set where what is *)
(* set by path does as well.                                               *)
ScriptRefs(b, scripts) ==
    {<<b, Place[s]>> : s \in
        {s \in scripts : ~ (/\ Place[s] \in Urls /\ InPlace(b, s)
                            /\ <<b, "path">> \in pending \cup applied)}}

(* _setByPath(), once the regular expression is known. *)
PathSet(b) ==
    LET refs == New(IF \E s \in loaded :
                           /\ Place[s] = s /\ InPlace(b, s)
                           /\ <<b, s>> \in pending \cup applied
                    THEN {} ELSE {<<b, "path">>})
    IN /\ <<b, "path">> \in placing
       /\ placing' = placing \ {<<b, "path">>}
       /\ pending' = pending \cup refs
       /\ wire' = wire \o Commanded("set", refs)
       /\ UNCHANGED <<ready, filterVars, requestVars, managerVars, enabled,
                      applied, v8, scriptVars>>

(* _setByUiLocation() for all scripts of the source there are now. *)
ScriptsSet(b) ==
    LET refs == New(ScriptRefs(b, {s \in loaded :
                                      ScriptSource[s] = SourceOf(b)}))
    IN /\ <<b, "scripts">> \in placing
       /\ placing' = placing \ {<<b, "scripts">>}
       /\ pending' = pending \cup refs
       /\ wire' = wire \o Commanded("set", refs)
       /\ UNCHANGED <<ready, filterVars, requestVars, managerVars, enabled,
                      applied, v8, scriptVars>>

(* updateForNewLocations(), once the locations in the script s are known:  *)
(* what was set by path is removed if the path is the script's, and the    *)
(* line is elsewhere in it.                                                *)
UpdateForScript(b, s) ==
    LET new == New(ScriptRefs(b, loaded \cap {s}))
        old == IF s \in loaded \cap Overlaid /\ ~ InPlace(b, s)
               THEN RefsOf({b}) \cap {<<b, "path">>} ELSE {}
    IN /\ <<b, s>> \in placing
       /\ placing' = placing \ {<<b, s>>}
       /\ pending' = (pending \cup new) \ old
       /\ applied' = applied \ old
       /\ wire' = Removed(old, wire \o Commanded("set", new))
       /\ UNCHANGED <<ready, filterVars, requestVars, managerVars, enabled,
                      v8, scriptVars>>

-----------------------------------------------------------------------------
(* setBreakpoints().                                                       *)

(* The debugger goes on with what it has to do before it takes the next    *)
(* answer, event or request: an await of a promise that is resolved.       *)
Unbindable(r) == pc[r] = "unbind" /\ ~OnWire(unbindWait[r])
Busy == \/ ready /\ queue # << >>
        \/ \E r \in Requests : Unbindable(r)

(* The client sends its next request: the handler is installed as soon as  *)
(* there is a breakpoint, and breakpoints of a source that is not known    *)
(* are predicted.                                                          *)
Receive(r, src, lines) ==
    /\ ~Busy
    /\ pc[r] = "idle" /\ \A q \in 1..(r - 1) : pc[q] # "idle"
    /\ args' = [args EXCEPT ![r] = [src |-> src, lines |-> lines]]
    /\ handler' = (handler \/ lines # {})
    /\ IF lines = {} \/ Known(src)
       THEN /\ pc' = [pc EXCEPT ![r] = "entry"]
            /\ queue' = Append(queue, r)
       ELSE /\ pc' = [pc EXCEPT ![r] = "predict"]
            /\ UNCHANGED queue
    /\ rushed' = (rushed \/ \E q \in 1..(r - 1) :
                                args[q].src = src /\ pc[q] # "done")
    /\ UNCHANGED <<ready, filterVars, news, unbindWait, enableWait, byPath,
                   byDapId, total, refVars, v8, scriptVars>>

(* predictBreakpoints() has read the source maps on disk. *)
Predicted(r) ==
    /\ ~Busy /\ pc[r] = "predict"
    /\ pc' = [pc EXCEPT ![r] = "entry"]
    /\ queue' = Append(queue, r)
    /\ UNCHANGED <<ready, filterVars, args, news, unbindWait, enableWait,
                   rushed, managerVars, refVars, v8, scriptVars>>

(* The breakpoints are predicted and the debugger is ready: mergeInto().   *)
(* A request that changes nothing is answered at once; otherwise those     *)
(* that are no longer asked for are disabled.                              *)
Merge(r) ==
    LET src == args[r].src
        kept == {b \in byPath[src] : LineOf(b) \in args[r].lines}
        unbound == byPath[src] \ kept
        new == {<<r, l>> : l \in args[r].lines \ {LineOf(b) : b \in kept}}
    IN /\ ready /\ queue # << >> /\ r = Head(queue)
       /\ queue' = Tail(queue)
       /\ byPath' = [byPath EXCEPT ![src] = kept \cup new]
       /\ byDapId' = (byDapId \ unbound) \cup new
       /\ news' = [news EXCEPT ![r] = new]
       /\ total' = total - Cardinality(unbound)
       /\ unbindWait' = [unbindWait EXCEPT ![r] = RefsOf(unbound)]
       /\ Disable(unbound)
       /\ pc' = [pc EXCEPT ![r] = IF unbound = {} /\ new = {} THEN "done"
                                  ELSE "unbind"]
       /\ UNCHANGED <<ready, filterVars, args, enableWait, handler, rushed,
                      v8, scriptVars>>

(* Mutant: whether they are still asked for is not looked at. *)
UnboundBlindly(r) ==
    LET count == total + Cardinality(news[r])
        now == IF filter = "all" THEN news[r] ELSE {}
    IN /\ Unbindable(r)
       /\ unbindWait' = [unbindWait EXCEPT ![r] = {}]
       /\ total' = count
       /\ handler' = IF count = 0 THEN FALSE ELSE handler \/ count > 0
       /\ Enable(now)
       /\ enableWait' = [enableWait EXCEPT ![r] = now \ enabled]
       /\ pc' = [pc EXCEPT ![r] = "enable"]
       /\ UNCHANGED <<ready, filterVars, queue, args, news, rushed, byPath,
                      byDapId, v8, scriptVars>>

(* Mutant: the handler is only installed with the first breakpoint. *)
UnboundKeepsHandler(r) ==
    LET count == total + Cardinality(news[r])
        now == IF filter = "all" THEN news[r] \cap byPath[args[r].src]
               ELSE {}
    IN /\ Unbindable(r)
       /\ unbindWait' = [unbindWait EXCEPT ![r] = {}]
       /\ total' = count
       /\ handler' = (handler /\ count # 0)
       /\ Enable(now)
       /\ enableWait' = [enableWait EXCEPT ![r] = now \ enabled]
       /\ pc' = [pc EXCEPT ![r] = "enable"]
       /\ UNCHANGED <<ready, filterVars, queue, args, news, rushed, byPath,
                      byDapId, v8, scriptVars>>

(* They are removed: the handler is installed or uninstalled by the count, *)
(* and the new breakpoints that are still asked for are enabled.           *)
Unbound(r) ==
    LET count == total + Cardinality(news[r])
        now == IF filter = "all" THEN news[r] \cap byPath[args[r].src]
               ELSE {}
    IN /\ Unbindable(r)
       /\ unbindWait' = [unbindWait EXCEPT ![r] = {}]
       /\ total' = count
       /\ handler' = IF count = 0 THEN FALSE ELSE handler \/ count > 0
       /\ Enable(now)
       /\ enableWait' = [enableWait EXCEPT ![r] = now \ enabled]
       /\ pc' = [pc EXCEPT ![r] = "enable"]
       /\ UNCHANGED <<ready, filterVars, queue, args, news, rushed, byPath,
                      byDapId, v8, scriptVars>>

(* They are enabled, and the request is answered. *)
Reply(r) ==
    /\ ~Busy /\ pc[r] = "enable"
    /\ \A b \in enableWait[r] : ~Enabling(b)
    /\ pc' = [pc EXCEPT ![r] = "done"]
    /\ enableWait' = [enableWait EXCEPT ![r] = {}]
    /\ UNCHANGED <<ready, filterVars, queue, args, news, unbindWait, rushed,
                   managerVars, refVars, v8, scriptVars>>

-----------------------------------------------------------------------------
(* applyEnabledFilter(): the profiler lets none pass and, when it is done, *)
(* all again.  One profile is over before the next is asked for.           *)

(* The first call has returned: all it disabled are removed. *)
FilterSettled ==
    \A b \in filterWait : \A i \in DOMAIN wire :
        wire[i].ref[1] = b =>
            wire[i].kind \in {"set", "lost"} /\ ~wire[i].dead

Filters == ~Busy /\ filters < MaxFilters /\ filters' = filters + 1

FilterNone ==
    /\ Filters /\ filter = "all"
    /\ filter' = "none" /\ filterWait' = byDapId \cap enabled
    /\ Disable(byDapId)
    /\ UNCHANGED <<ready, profile, requestVars, managerVars, v8, scriptVars>>

(* The profiler starts when the filter is applied, and stops at some time  *)
(* after that: one command for each, which V8 answers in its turn.         *)
ProfilerAsked ==
    /\ ~Busy /\ filter = "none" /\ FilterSettled /\ profile < 2
    /\ \A i \in DOMAIN wire : wire[i].kind # "profile"
    /\ wire' = Append(wire, ProfilerCommand)
    /\ UNCHANGED <<ready, filterVars, requestVars, managerVars, enabled,
                   placing, pending, applied, v8, scriptVars>>

ProfilerAnswered ==
    /\ ~Busy /\ wire # << >> /\ Head(wire).kind = "profile"
    /\ wire' = Tail(wire)
    /\ profile' = profile + 1
    /\ UNCHANGED <<ready, filter, filterWait, filters, requestVars,
                   managerVars, enabled, placing, pending, applied, v8,
                   scriptVars>>

FilterAll ==
    /\ Filters /\ filter = "none" /\ profile = 2
    /\ filter' = "all" /\ filterWait' = {} /\ profile' = 0
    /\ Enable(byDapId)
    /\ UNCHANGED <<ready, requestVars, managerVars, v8, scriptVars>>

-----------------------------------------------------------------------------
(* V8, and what its events do.                                             *)

(* Debugger.enable is answered. *)
DebuggerReady ==
    /\ ~Busy /\ ~ready /\ ready' = TRUE
    /\ UNCHANGED <<filterVars, requestVars, managerVars, refVars, v8,
                   scriptVars>>

(* V8 refuses a second breakpoint at a location, and one in a script that  *)
(* is no more. *)
Accepts(ref) ==
    /\ ref[2] \in alive \cup Lasting
    /\ \A other \in v8 : Location(other) # Location(ref)

(* The reference of the answer m, if the debugger still has it. *)
Recorded(m) ==
    IF m.kind = "lost" \/ m.dead THEN {} ELSE {m.ref} \cap pending

(* Mutant: nothing comes back when V8 refuses. *)
SetAnsweredIfAccepted ==
    LET m == Head(wire)
    IN /\ ~Busy /\ wire # << >> /\ m.kind \in {"set", "lost"}
       /\ Accepts(m.ref)
       /\ v8' = v8 \cup {m.ref}
       /\ pending' = pending \ Recorded(m)
       /\ applied' = applied \cup Recorded(m)
       /\ wire' = Tail(wire) \o Commanded("remove",
                     IF m.dead THEN {m.ref} ELSE {})
       /\ UNCHANGED <<ready, filterVars, requestVars, managerVars, enabled,
                      placing, scriptVars>>

(* Debugger.setBreakpoint or setBreakpointByUrl is answered.  A reference  *)
(* that was refused stays Pending.                                         *)
SetAnswered ==
    LET m == Head(wire)
    IN /\ ~Busy /\ wire # << >> /\ m.kind \in {"set", "lost"}
       /\ IF Accepts(m.ref)
          THEN /\ v8' = v8 \cup {m.ref}
               /\ pending' = pending \ Recorded(m)
               /\ applied' = applied \cup Recorded(m)
               /\ wire' = Tail(wire) \o Commanded("remove",
                             IF m.dead THEN {m.ref} ELSE {})
          ELSE /\ wire' = Tail(wire)
               /\ UNCHANGED <<v8, pending, applied>>
       /\ UNCHANGED <<ready, filterVars, requestVars, managerVars, enabled,
                      placing, scriptVars>>

(* Debugger.removeBreakpoint is answered. *)
RemoveAnswered ==
    /\ ~Busy /\ wire # << >> /\ Head(wire).kind = "remove"
    /\ v8' = {ref \in v8 : Location(ref) # Location(Head(wire).ref)}
    /\ wire' = Tail(wire)
    /\ UNCHANGED <<ready, filterVars, requestVars, managerVars, enabled,
                   placing, pending, applied, scriptVars>>

(* A script is parsed, and its source map loaded: the handler, if there is *)
(* one, calls updateForNewLocations() for the breakpoints of its source.   *)
ScriptParsed(s) ==
    /\ ~Busy /\ s \notin parsed
    /\ parsed' = parsed \cup {s}
    /\ alive' = alive \cup {s} /\ loaded' = loaded \cup {s}
    /\ placing' = placing \cup
          {<<b, s>> : b \in IF handler THEN byPath[ScriptSource[s]] ELSE {}}
    /\ UNCHANGED <<ready, filterVars, requestVars, managerVars, enabled,
                   pending, applied, wire, v8, forgotten, cleared, clears>>

(* The page is left: V8 drops the scripts and the breakpoints set in them, *)
(* and _executionContextsCleared() waits for the console to be drained.    *)
(* The next page is not left before that.                                  *)
ContextsCleared ==
    /\ ~Busy /\ ~cleared /\ alive # {}
    /\ clears < MaxClears /\ clears' = clears + 1
    /\ cleared' = TRUE
    /\ alive' = {}
    /\ v8' = {ref \in v8 : ref[2] \in Lasting}
    /\ UNCHANGED <<ready, filterVars, requestVars, managerVars, refVars,
                   forgotten, loaded, parsed>>

(* A set command whose reference is dropped is answered to nobody. *)
Dropped(commands) ==
    [i \in DOMAIN commands |->
        IF /\ commands[i].kind = "set" /\ ~commands[i].dead
           /\ commands[i].ref[2] \in Scripts
        THEN [commands[i] EXCEPT !.kind = "lost"] ELSE commands[i]]

(* It goes on: the old scripts are forgotten, and the references that were *)
(* set by the id of a script, though it may be one of the next page        *)
(* (executionContextWasCleared).                                           *)
ContextWasCleared ==
    /\ cleared /\ cleared' = FALSE
    /\ loaded' = alive
    /\ pending' = {ref \in pending : ref[2] \in Lasting}
    /\ applied' = {ref \in applied : ref[2] \in Lasting}
    /\ wire' = Dropped(wire)
    /\ forgotten' = forgotten \cup
          {ref \in pending \cup applied : ref[2] \in alive}
    /\ UNCHANGED <<ready, filterVars, requestVars, managerVars, enabled,
                   placing, v8, alive, parsed, clears>>

-----------------------------------------------------------------------------
Handling(r) == Predicted(r) \/ Merge(r) \/ Unbound(r) \/ Reply(r)

Placing(b) ==
    /\ ~Busy
    /\ PathSet(b) \/ ScriptsSet(b) \/ \E s \in Scripts : UpdateForScript(b, s)

Answering ==
    DebuggerReady \/ SetAnswered \/ RemoveAnswered \/ ProfilerAnswered

Next ==
    \/ \E r \in Requests : \/ \E src \in Sources, lines \in Asked :
                                 Receive(r, src, lines)
                           \/ Handling(r)
    \/ \E b \in Breakpoints : Placing(b)
    \/ FilterNone \/ ProfilerAsked \/ FilterAll \/ Answering
    \/ \E s \in Scripts : ScriptParsed(s)
    \/ ContextsCleared \/ ContextWasCleared

(* V8 answers each command, and promises that are resolved run their       *)
(* continuations.  Nothing makes the client ask or a script arrive.        *)
Fairness ==
    /\ WF_vars(Answering) /\ WF_vars(ContextWasCleared)
    /\ \A r \in Requests : WF_vars(Handling(r))
    /\ \A b \in Breakpoints : WF_vars(Placing(b))

Spec == Init /\ [][Next]_vars
LiveSpec == Spec /\ Fairness

-----------------------------------------------------------------------------
(* Nothing is under way. *)
Quiet ==
    /\ \A r \in Requests : pc[r] \in {"idle", "done"}
    /\ wire = << >> /\ placing = {} /\ ~cleared

(* When nothing is under way, every breakpoint V8 would stop at is one the *)
(* user still asks for, and that can still be removed: none is leaked by a *)
(* request, a filter or a new context that comes while it is being set.    *)
(* The exception is in executionContextWasCleared(): it drops what was set *)
(* by id in the scripts of the next page, if the console was slow.         *)
NoOrphan ==
    Quiet => \A ref \in v8 \ forgotten : ref[1] \in enabled /\ ref \in applied

(* V8 has it, and the debugger knows. *)
Is(ref) == ref \in applied \cap v8

(* V8 may have refused ref for a breakpoint that the debugger has dropped, *)
(* or for another line of the source that it was asked for and that is at  *)
(* the same position of the script.                                        *)
Contested(ref) ==
    \/ \E other \in forgotten : Location(other) = Location(ref)
    \/ \E r \in Requests, l \in Lines :
          /\ pc[r] # "idle" /\ args[r].src = SourceOf(ref[1])
          /\ l \in args[r].lines \ {LineOf(ref[1])}
          /\ Location(<<<<r, l>>, ref[2]>>) = Location(ref)

(* b is set where it can be: in each script of its source that is loaded,  *)
(* by URL, by id or by path, and by path if there never was one.           *)
Placed(b) ==
    /\ b \in enabled
    /\ \A s \in loaded : ScriptSource[s] = SourceOf(b) =>
          \/ Is(<<b, Place[s]>>)
          \/ Place[s] \in Urls /\ InPlace(b, s) /\ Is(<<b, "path">>)
          \/ Contested(<<b, Place[s]>>)
    /\ (\A s \in parsed : ScriptSource[s] # SourceOf(b)) => Is(<<b, "path">>)

(* When nothing is under way, the breakpoints that the client asked for    *)
(* last are set, in every script of their source, if each request for a    *)
(* source was answered before the next for that source.  (One source that  *)
(* is rushed may cost another its breakpoints: what it takes off the count *)
(* and has not added yet can uninstall the handler.)  V8 may refuse one    *)
(* that is Contested, and nobody sets it again when the other is removed.  *)
CurrentSet ==
    Quiet /\ filter = "all" /\ ~rushed =>
        \A src \in Sources : \A b \in byPath[src] : Placed(b)

(* The count of the breakpoints is right when no request is under way, and *)
(* the handler that sets breakpoints in new scripts is installed just as   *)
(* long as there is one, although requests count apart what they remove    *)
(* and what they add.                                                      *)
HandlerMatches ==
    (\A r \in Requests : pc[r] \in {"idle", "enable", "done"}) =>
        /\ total = Cardinality(byDapId)
        /\ handler <=> byDapId # {}

(* Once applyEnabledFilter() has returned, no breakpoint stops the program *)
(* that is profiled: those V8 still has are about to be removed, but for   *)
(* those that were dropped when the contexts were cleared.                 *)
Silenced ==
    filter = "none" /\ FilterSettled =>
        \A ref \in v8 \ forgotten : \E i \in DOMAIN wire :
            wire[i].kind = "remove" /\ Location(wire[i].ref) = Location(ref)

(* Every `setBreakpoints` request is answered. *)
Answered == \A r \in Requests : (pc[r] # "idle") ~> (pc[r] = "done")
=============================================================================

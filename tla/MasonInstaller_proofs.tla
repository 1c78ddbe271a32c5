----------------------- MODULE MasonInstaller_proofs -----------------------
(***************************************************************************)
(* Theorems about the installer (module MasonInstaller), for any finite    *)
(* set of requests, any packages, any limit of concurrent installers and   *)
(* every choice of opts.debug.  First an inductive invariant; then the     *)
(* events of its coroutines, processes and users, and the steps of the     *)
(* running callback, which all keep it; and last the safety properties     *)
(* that follow from it.                                                    *)
(*                                                                         *)
(* The count of permits (PermitsConserved) is not inductive by itself.     *)
(* forget() hands a permit to the first runner parked, so the queue must   *)
(* hold exactly the runners that wait (QueueOK); a nested release may run  *)
(* others before it clears its own field, so the calls that have not       *)
(* returned must be known (StackOK); and that a package's permit is never  *)
(* handed to a runner whose own release is under way needs the count of    *)
(* the other semaphore.  Their conjunction is inductive.                   *)
(***************************************************************************)
EXTENDS MasonInstaller, QueueTheorems, FiniteSetTheorems

(* The two permits of a runner. *)
G(r) == permit[r]["global"]
P(r) == permit[r]["package"]

(* The pairs of permits that a runner may have. *)
PairOK(r) ==
    \/ G(r) = "none"
    \/ G(r) \in {"waiting", "granted"} /\ P(r) = "none"
    \/ G(r) = "held" /\ P(r) # "forgotten"
    \/ G(r) = "forgotten" /\ P(r) \in {"waiting", "held"}

(* acquire_permit() has returned: the runner may work. *)
HasBoth(r) == G(r) = "held" /\ P(r) = "held"

(* What a runner's handle, coroutines, process and permits have to do with *)
(* each other. Only a runner with both permits works, an installation that *)
(* is closing has left its main coroutine, finalizers run once it has, and *)
(* a queued runner without both permits is on its way to them.             *)
RunnerOK(r) ==
    /\ job[r].kind = "none" => /\ G(r) = "none" /\ P(r) = "none"
                               /\ state[r] = "NONE" /\ ~ terminated[r]
    /\ (job[r].kind = "none") <=> (job[r].pkg = NoPackage)
    /\ job[r].kind = "none" => main[r] = "none"
    /\ job[r].kind = "uninstall" => main[r] \in {"queued", "removing", "done"}
    /\ IsInstall(r) /\ Closing(r) => main[r] \in {"cancelled", "done"}
    /\ AtWork(r) => HasBoth(r)
    /\ ChildAlive(r) => main[r] \in {"installing", "cancelled"}
    /\ state[r] = "CLOSED" => ~ ChildAlive(r)
    /\ \A a \in Finalizers :
          /\ final[r][a] # "none" => /\ main[r] \in {"cancelled", "done"}
                                     /\ ~ ChildAlive(r)
                                     /\ IsInstall(r)
          /\ final[r][a] \in {"unlocking", "done"} => Closing(r)
    /\ state[r] = "IDLE" => main[r] = "done" /\ G(r) = "none" /\ P(r) = "none"
    /\ ~ Closing(r) /\ ~ HasBoth(r) /\ state[r] # "IDLE"
          => /\ main[r] \in {"none", "queued"}
             /\ G(r) = "held" \/ P(r) = "none"

(* A call that the running callback has not finished finds the permits of  *)
(* its runner as the calls before it left them; and only a runner that is  *)
(* closing and no longer works gives permits back.                         *)
FrameOK(f) ==
    /\ job[f.r].kind # "none"
    /\ f.op = "acquire" =>
          /\ P(f.r) = "none" /\ state[f.r] # "IDLE"
          /\ G(f.r) = IF f.l = "global" THEN "none" ELSE "held"
    /\ f.op = "granted" => permit[f.r][f.l] = "granted"
    /\ f.op = "forgotten" => permit[f.r][f.l] = "forgotten"
    /\ f.op = "release" =>
          /\ G(f.r) \notin {"granted", "forgotten"}
          /\ P(f.r) \notin {"granted", "forgotten"}
          /\ G(f.r) = "held" => P(f.r) # "none" /\ f.l = "global"
    /\ f.op \in {"release", "forgotten"} => Closing(f.r) /\ ~ AtWork(f.r)

(* A call of the runner is under way; the calls that report do not count. *)
Busy(r) == \E i \in DOMAIN stack : stack[i].r = r /\ stack[i].op # "report"

(* The permits a runner can have while no call of its own is under way: no *)
(* grant has to be taken yet and no field has to be cleared.               *)
Resting(r) ==
    \/ G(r) = "none" /\ P(r) \in {"none", "waiting"}
    \/ G(r) = "waiting"
    \/ G(r) = "held" /\ P(r) \in {"waiting", "held"}

(* What the running callback still has to do: below the innermost call     *)
(* there are only releases that wait for their forget() to return, no      *)
(* runner has two of them, and while one returns its global permit but is  *)
(* parked at its package somebody else is at rest with both permits of     *)
(* that package.                                                           *)
StackOK ==
    /\ \A i \in DOMAIN stack :
          i # 1 => stack[i].op \in {"forgotten", "report"}
    /\ \A i, j \in DOMAIN stack :
          /\ stack[i].op # "report" /\ stack[j].op # "report"
          /\ stack[i].r = stack[j].r
          => i = j
    /\ \A i \in DOMAIN stack : FrameOK(stack[i])
    /\ \A r \in Runners : ~ Busy(r) => Resting(r)
    /\ \A i \in DOMAIN stack :
          /\ stack[i].op = "release" /\ stack[i].l = "global"
          /\ P(stack[i].r) = "waiting"
          => \A j \in DOMAIN stack : j # i => stack[j].op = "report"
    /\ \A i \in DOMAIN stack :
          /\ stack[i].op = "forgotten" /\ stack[i].l = "global"
          /\ P(stack[i].r) = "waiting"
          => \E x \in Runners : /\ job[x].pkg = job[stack[i].r].pkg
                                /\ HasBoth(x) /\ ~ Busy(x)

(* The runners with a permit of semaphore s in one of the statuses S. *)
With(s, S) ==
    {r \in Runners : \E l \in Levels : Sem(r, l) = s /\ permit[r][l] \in S}

(* A semaphore: nobody is parked while a permit is left, the queue holds   *)
(* exactly the runners that wait, each once, and no permit is made or      *)
(* lost.                                                                   *)
QueueOK(s) ==
    /\ free[s] > 0 => queue[s] = <<>>
    /\ Distinct(queue[s])
    /\ Elements(queue[s]) = With(s, {"waiting"})
    /\ free[s] + Cardinality(With(s, {"granted", "held"})) = Capacity(s)

(* The inductive invariant. *)
IInv ==
    /\ TypeOK
    /\ \A r \in Runners : PairOK(r) /\ RunnerOK(r)
    /\ StackOK
    /\ \A s \in Semaphores : QueueOK(s)

-----------------------------------------------------------------------------
USE DEF semVars, jobVars, handleVars

(* What the invariant says of a runner depends on its own fields only. *)
LEMMA RunnerFrame ==
    ASSUME NEW q \in Runners, RunnerOK(q), PairOK(q),
           job'[q] = job[q], state'[q] = state[q],
           terminated'[q] = terminated[q], main'[q] = main[q],
           child'[q] = child[q], final'[q] = final[q], permit'[q] = permit[q]
    PROVE  RunnerOK(q)' /\ PairOK(q)'
BY DEF RunnerOK, PairOK, G, P, HasBoth, AtWork, ChildAlive, Closing,
       IsInstall, Finalizers

(* What the invariant says of the semaphores depends on permits and        *)
(* queues.                                                                 *)
LEMMA QueuesFrame ==
    ASSUME \A s \in Semaphores : QueueOK(s),
           UNCHANGED <<job, permit, free, queue>>
    PROVE  \A s \in Semaphores : QueueOK(s)'
<1>1. ASSUME NEW s, NEW S PROVE With(s, S)' = With(s, S)
  BY DEF With, Sem
<1> QED BY <1>1 DEF QueueOK, Elements, Distinct, Capacity

(* An event that leaves the permits alone and calls nobody has only to     *)
(* keep what the invariant says of each runner.                            *)
LEMMA IdleFrame ==
    ASSUME IInv, Idle, UNCHANGED <<job, semVars, stack>>,
           TypeOK', \A r \in Runners : RunnerOK(r)'
    PROVE  IInv'
<1>1. \A r \in Runners : PairOK(r)'
  BY DEF IInv, PairOK, G, P, semVars
<1>2. StackOK'
  BY DEF IInv, StackOK, Idle, Busy, Resting, G, P, semVars
<1>3. \A s \in Semaphores : QueueOK(s)'
  BY QueuesFrame DEF IInv
<1> QED BY <1>1, <1>2, <1>3 DEF IInv


(* TypeOK for one runner. *)
LEMMA RunnerType ==
    ASSUME TypeOK, NEW r \in Runners
    PROVE  /\ job[r].kind \in {"none", "install", "uninstall"}
           /\ job[r].debug \in BOOLEAN
           /\ job[r].pkg \in Packages \cup {NoPackage}
           /\ state[r] \in HandleStates /\ terminated[r] \in BOOLEAN
           /\ main[r] \in MainStates
           /\ child[r] \in {"none", "running", "killed", "exited"}
           /\ \A a \in Finalizers : final[r][a] \in FinalStates
           /\ \A l \in Levels : permit[r][l] \in Statuses
           /\ DOMAIN main = Runners
BY DEF TypeOK

(* The main coroutine of an installation and its process keep IInv. *)
LEMMA LockTakenInvariant ==
    ASSUME IInv, NEW r \in Runners, LockTaken(r)
    PROVE  IInv'
<1>1. TypeOK'
  BY DEF IInv, TypeOK, LockTaken, MainStates
<1>2. ASSUME NEW q \in Runners, q # r PROVE RunnerOK(q)'
  BY <1>2, RunnerFrame DEF IInv, TypeOK, LockTaken, semVars
<1>3. RunnerOK(r)'
  <2>1. main[r] = "locking" /\ main'[r] = "installing"
    BY DEF IInv, TypeOK, LockTaken
  <2>2. RunnerOK(r) /\ job[r].kind \in {"none", "install", "uninstall"}
    BY RunnerType DEF IInv
  <2>3. ~ Closing(r) /\ HasBoth(r)
    BY <2>1, <2>2 DEF RunnerOK, AtWork, IsInstall
  <2>4. UNCHANGED <<job, state, terminated, child, final, permit>>
    BY DEF LockTaken
  <2> QED BY <2>1, <2>2, <2>3, <2>4 DEF RunnerOK, G, P, HasBoth, AtWork,
         ChildAlive, Closing, IsInstall
<1> QED BY <1>1, <1>2, <1>3, IdleFrame DEF LockTaken

LEMMA SpawnInvariant ==
    ASSUME IInv, NEW r \in Runners, Spawn(r)
    PROVE  IInv'
<1>1. TypeOK'
  BY DEF IInv, TypeOK, Spawn
<1>2. ASSUME NEW q \in Runners, q # r PROVE RunnerOK(q)'
  BY <1>2, RunnerFrame DEF IInv, TypeOK, Spawn
<1>3. RunnerOK(r)'
  <2>1. main[r] = "installing" /\ child'[r] = "running"
    BY DEF IInv, TypeOK, Spawn
  <2>2. RunnerOK(r) /\ job[r].kind \in {"none", "install", "uninstall"}
    BY RunnerType DEF IInv
  <2>3. ~ Closing(r) /\ HasBoth(r)
    BY <2>1, <2>2 DEF RunnerOK, AtWork, IsInstall
  <2>4. UNCHANGED <<job, state, terminated, main, final, permit>>
    BY DEF Spawn
  <2> QED BY <2>1, <2>2, <2>3, <2>4 DEF RunnerOK, G, P, HasBoth, AtWork,
         ChildAlive, Closing, IsInstall
<1> QED BY <1>1, <1>2, <1>3, IdleFrame DEF Spawn

LEMMA ChildExitsInvariant ==
    ASSUME IInv, NEW r \in Runners, ChildExits(r)
    PROVE  IInv'
<1>1. TypeOK'
  BY DEF IInv, TypeOK, ChildExits
<1>2. ASSUME NEW q \in Runners, q # r PROVE RunnerOK(q)'
  BY <1>2, RunnerFrame DEF IInv, TypeOK, ChildExits
<1>3. RunnerOK(r)'
  <2>1. child'[r] = "exited"
    BY DEF IInv, TypeOK, ChildExits
  <2>2. UNCHANGED <<job, state, terminated, main, final, permit>>
    BY DEF ChildExits
  <2>3. RunnerOK(r)
    BY DEF IInv
  <2> QED BY <2>1, <2>2, <2>3 DEF RunnerOK, G, P, HasBoth, AtWork,
         ChildAlive, Closing, IsInstall
<1> QED BY <1>1, <1>2, <1>3, IdleFrame DEF ChildExits

LEMMA GraceOverInvariant ==
    ASSUME IInv, NEW r \in Runners, GraceOver(r)
    PROVE  IInv'
<1>1. TypeOK'
  BY DEF IInv, TypeOK, GraceOver
<1>2. ASSUME NEW q \in Runners, q # r PROVE RunnerOK(q)'
  BY <1>2, RunnerFrame DEF IInv, TypeOK, GraceOver
<1>3. RunnerOK(r)'
  <2>1. child[r] = "running" /\ child'[r] = "killed"
    BY DEF IInv, TypeOK, GraceOver
  <2>2. UNCHANGED <<job, state, terminated, main, final, permit>>
    BY DEF GraceOver
  <2>3. RunnerOK(r)
    BY DEF IInv
  <2> QED BY <2>1, <2>2, <2>3 DEF RunnerOK, G, P, HasBoth, AtWork,
         ChildAlive, Closing, IsInstall
<1> QED BY <1>1, <1>2, <1>3, IdleFrame DEF GraceOver

LEMMA PromoteInvariant ==
    ASSUME IInv, NEW r \in Runners, Promote(r)
    PROVE  IInv'
<1>0. RunnerOK(r) /\ job[r].kind \in {"none", "install", "uninstall"}
  BY RunnerType DEF IInv
<1>1. main[r] = "installing" /\ job[r].kind = "install" /\ ~ ChildAlive(r)
  BY <1>0 DEF Promote, RunnerOK
<1>2. job[r].pkg \in Packages
  BY <1>0, <1>1, RunnerType DEF IInv, RunnerOK
<1>3. \/ main' = [main EXCEPT ![r] = "hung"]
      \/ main' = [main EXCEPT ![r] = "linking"]
  BY DEF Promote
<1>4. TypeOK'
  <2>1. main' \in [Runners -> MainStates]
    BY <1>3 DEF IInv, TypeOK, MainStates
  <2>2. installed' \in SUBSET Packages
    BY <1>2 DEF IInv, TypeOK, Promote
  <2>3. cwd' \in [Runners -> {"none", "staging", "package"}]
    BY DEF IInv, TypeOK, Promote
  <2> QED BY <2>1, <2>2, <2>3 DEF IInv, TypeOK, Promote
<1>5. UNCHANGED <<job, state, terminated, child, final, permit>>
  BY DEF Promote
<1>6. ASSUME NEW q \in Runners, q # r PROVE RunnerOK(q)'
  BY <1>3, <1>5, <1>6, RunnerFrame DEF IInv, TypeOK
<1>7. RunnerOK(r)'
  <2>1. main'[r] \in {"hung", "linking"}
    BY <1>3 DEF IInv, TypeOK
  <2>2. ~ Closing(r) /\ HasBoth(r)
    BY <1>0, <1>1 DEF RunnerOK, AtWork, IsInstall
  <2> QED BY <2>1, <2>2, <1>0, <1>1, <1>5 DEF RunnerOK, G, P, HasBoth, AtWork,
         ChildAlive, Closing, IsInstall
<1> QED BY <1>4, <1>6, <1>7, IdleFrame DEF Promote

(* So do its end and the finalizers. *)
LEMMA MainEndsInvariant ==
    ASSUME IInv, NEW r \in Runners, MainEnds(r)
    PROVE  IInv'
<1>0. RunnerOK(r) /\ job[r].kind \in {"none", "install", "uninstall"}
  BY RunnerType DEF IInv
<1>1. /\ main[r] \in {"locking", "installing", "linking"}
      /\ job[r].kind = "install"
      /\ ~ ChildAlive(r) /\ ~ Closing(r) /\ HasBoth(r)
  BY <1>0 DEF MainEnds, RunnerOK, AtWork, IsInstall
<1>2. /\ main' = [main EXCEPT ![r] = "done"]
      /\ UNCHANGED <<job, terminated, child, permit>>
      /\ \/ /\ \E f \in {"logging", "sweeping", "dead"} :
                  final' = [final EXCEPT ![r]["own"] = f]
            /\ state' = state
         \/ /\ final' = [final EXCEPT ![r]["own"] = "unlocking"]
            /\ state' = [state EXCEPT ![r] = "CLOSED"]
  <2>1. ASSUME NEW success \in BOOLEAN
        PROVE  FirstAwait(r, success)
                  \in {"logging", "sweeping", "dead", "unlocking"}
    BY DEF FirstAwait
  <2>2. PICK success \in BOOLEAN : FinalizeOwn(r, success)
    BY DEF MainEnds
  <2> QED BY <1>1, <2>1, <2>2
             DEF MainEnds, FinalizeOwn, SetFinal, CloseUnlessClosing
<1>3. TypeOK'
  <2>1. final' \in [Runners -> [Finalizers -> FinalStates]]
    <3>1. final \in [Runners -> [Finalizers -> FinalStates]]
      BY DEF IInv, TypeOK
    <3>2. PICK f \in FinalStates : final' = [final EXCEPT ![r]["own"] = f]
      BY <1>2 DEF FinalStates
    <3> QED BY <3>1, <3>2
  <2>2. state' \in [Runners -> HandleStates]
    BY <1>2 DEF IInv, TypeOK, HandleStates
  <2>3. main' \in [Runners -> MainStates]
    BY <1>2 DEF IInv, TypeOK, MainStates
  <2>4. installed' \in SUBSET Packages
    BY DEF IInv, TypeOK, MainEnds
  <2> QED BY <2>1, <2>2, <2>3, <2>4 DEF IInv, TypeOK, MainEnds
<1>4. ASSUME NEW q \in Runners, q # r PROVE RunnerOK(q)'
  BY <1>2, <1>4, RunnerFrame DEF IInv, TypeOK
<1>5. RunnerOK(r)'
  <2>1. /\ main'[r] = "done" /\ ~ ChildAlive(r)' /\ HasBoth(r)'
        /\ final'[r]["own"] = "unlocking" => Closing(r)'
        /\ final'[r]["own"] \in {"logging", "sweeping", "dead", "unlocking"}
        /\ final'[r]["abort"] = final[r]["abort"]
        /\ state'[r] \in {state[r], "CLOSED"}
    BY <1>1, <1>2 DEF IInv, TypeOK, Finalizers, ChildAlive, Closing,
                      HasBoth, G, P
  <2>2. final[r]["abort"] = "none"
    BY <1>0, <1>1 DEF RunnerOK, Finalizers
  <2> QED BY <1>0, <1>1, <1>2, <2>1, <2>2 DEF RunnerOK, G, P, HasBoth, AtWork,
         ChildAlive, Closing, IsInstall, Finalizers
<1> QED BY <1>3, <1>4, <1>5, IdleFrame DEF MainEnds

LEMMA PreparedInvariant ==
    ASSUME IInv, NEW r \in Runners, NEW a \in Finalizers,
           LogWritten(r, a) \/ Swept(r, a)
    PROVE  IInv'
<1>0. RunnerOK(r) /\ job[r].kind \in {"none", "install", "uninstall"}
  BY RunnerType DEF IInv
<1>1. /\ main[r] \in {"cancelled", "done"}
      /\ job[r].kind = "install"
      /\ ~ ChildAlive(r)
  BY <1>0 DEF LogWritten, Swept, RunnerOK, IsInstall
<1>2. /\ Idle
      /\ UNCHANGED <<job, terminated, child, permit, main, cwd,
                     reports, semVars, stack, exiting>>
      /\ final' = [final EXCEPT ![r][a] = "unlocking"]
      /\ \/ Closing(r) /\ state' = state
         \/ state' = [state EXCEPT ![r] = "CLOSED"]
      /\ installed' = installed \/ installed' = installed \ {job[r].pkg}
  BY DEF LogWritten, Swept, SetFinal, CloseUnlessClosing
<1>3. TypeOK'
  <2>1. final' \in [Runners -> [Finalizers -> FinalStates]]
    BY <1>2 DEF IInv, TypeOK, FinalStates
  <2>2. state' \in [Runners -> HandleStates]
    BY <1>2 DEF IInv, TypeOK, HandleStates
  <2> QED BY <1>2, <2>1, <2>2 DEF IInv, TypeOK
<1>4. ASSUME NEW q \in Runners, q # r PROVE RunnerOK(q)'
  BY <1>2, <1>4, RunnerFrame DEF IInv, TypeOK
<1>5. RunnerOK(r)'
  <2>1. /\ ~ ChildAlive(r)' /\ Closing(r)'
        /\ state'[r] \in {state[r], "CLOSED"}
        /\ \A b \in Finalizers : b # a => final'[r][b] = final[r][b]
    BY <1>1, <1>2 DEF IInv, TypeOK, ChildAlive, Closing
  <2> QED BY <1>0, <1>1, <1>2, <2>1 DEF RunnerOK, G, P, HasBoth, AtWork,
         ChildAlive, Closing, IsInstall
<1> QED BY <1>2, <1>3, <1>4, <1>5, IdleFrame

LEMMA CheckCloseInvariant ==
    ASSUME IInv, NEW r \in Runners, CheckClose(r)
    PROVE  IInv'
<1>0. RunnerOK(r) /\ job[r].kind \in {"none", "install", "uninstall"}
  BY RunnerType DEF IInv
<1>1. ~ ChildAlive(r) /\ Closing(r)
  BY DEF CheckClose, Closing
<1>2. /\ UNCHANGED <<job, terminated, child, permit, main>>
      /\ state' = [state EXCEPT ![r] = "CLOSED"]
      /\ \/ /\ IsInstall(r)
            /\ \E f \in FinalStates :
                  final' = [final EXCEPT ![r]["abort"] = f]
         \/ ~ IsInstall(r) /\ final' = final
  <2>1. CASE IsInstall(r)
    <3>1. /\ final' = [final EXCEPT ![r]["abort"] = FirstAwait(r, FALSE)]
          /\ FirstAwait(r, FALSE) \in FinalStates
      BY <2>1 DEF CheckClose, FinalizeAbort, SetFinal, FirstAwait, FinalStates
    <3> QED BY <2>1, <3>1 DEF CheckClose
  <2>2. CASE ~ IsInstall(r)
    BY <2>2 DEF CheckClose
  <2> QED BY <2>1, <2>2
<1>3. TypeOK'
  <2>1. state' \in [Runners -> HandleStates]
    BY <1>2 DEF IInv, TypeOK, HandleStates
  <2>2. final' \in [Runners -> [Finalizers -> FinalStates]]
    <3>1. final \in [Runners -> [Finalizers -> FinalStates]]
      BY DEF IInv, TypeOK
    <3>2. ASSUME NEW f \in FinalStates,
                 final' = [final EXCEPT ![r]["abort"] = f]
          PROVE  final' \in [Runners -> [Finalizers -> FinalStates]]
      BY <3>1, <3>2
    <3> QED BY <1>2, <3>1, <3>2
  <2>3. installed' \in SUBSET Packages
    BY DEF IInv, TypeOK, CheckClose
  <2> QED BY <2>1, <2>2, <2>3 DEF IInv, TypeOK, CheckClose
<1>4. ASSUME NEW q \in Runners, q # r PROVE RunnerOK(q)'
  BY <1>2, <1>4, RunnerFrame DEF IInv, TypeOK
<1>5. RunnerOK(r)'
  <2>1. ~ ChildAlive(r)' /\ Closing(r)' /\ state'[r] = "CLOSED"
    BY <1>1, <1>2 DEF IInv, TypeOK, ChildAlive, Closing
  <2>2. /\ final'[r]["own"] = final[r]["own"]
        /\ ~ IsInstall(r) => final'[r]["abort"] = final[r]["abort"]
    BY <1>2 DEF IInv, TypeOK, Finalizers
  <2> QED BY <1>0, <1>1, <1>2, <2>1, <2>2 DEF RunnerOK, G, P, HasBoth, AtWork,
         ChildAlive, Closing, IsInstall, Finalizers
<1> QED BY <1>3, <1>4, <1>5, IdleFrame DEF CheckClose

(* So does the termination of a set of handles, by the user or at exit. *)
LEMMA TerminateAllInvariant ==
    ASSUME IInv, Idle, NEW R \in SUBSET Runners, TerminateAll(R),
           \A r \in R : Open(r),
           UNCHANGED <<state, jobVars, final, reports, semVars, installed,
                       stack>>,
           exiting' \in BOOLEAN
    PROVE  IInv'
<1>1. /\ \A r \in Runners : terminated'[r] = (r \in R \/ terminated[r])
      /\ \A r \in Runners :
            main'[r] = IF r \in R /\ IsInstall(r) /\ main[r] # "done"
                       THEN "cancelled" ELSE main[r]
  BY DEF TerminateAll
<1>2. TypeOK'
  <2>1. terminated' \in [Runners -> BOOLEAN]
    BY <1>1 DEF IInv, TypeOK, TerminateAll
  <2>2. main' \in [Runners -> MainStates]
    BY DEF IInv, TypeOK, TerminateAll, MainStates
  <2> QED BY <2>1, <2>2 DEF IInv, TypeOK
<1>3. ASSUME NEW r \in Runners PROVE RunnerOK(r)'
  <2>0. RunnerOK(r) /\ job[r].kind \in {"none", "install", "uninstall"}
    BY RunnerType DEF IInv
  <2>1. CASE r \notin R
    <3>1. /\ terminated[r] \in BOOLEAN
          /\ main'[r] = main[r]
          /\ terminated'[r] = (FALSE \/ terminated[r])
      BY <1>1, <2>1 DEF IInv, TypeOK
    <3>2. terminated'[r] = terminated[r]
      BY <3>1
    <3> QED BY <2>0, <3>1, <3>2, RunnerFrame DEF IInv
  <2>2. CASE r \in R
    <3>1. terminated'[r] = TRUE
      BY <1>1, <2>2
    <3>2. /\ IsInstall(r) /\ main[r] # "done" => main'[r] = "cancelled"
          /\ ~ IsInstall(r) \/ main[r] = "done" => main'[r] = main[r]
      BY <1>1, <2>2
    <3>3. job[r].kind # "none"
      BY <2>0, <2>2 DEF RunnerOK, Open
    <3> QED BY <2>0, <3>1, <3>2, <3>3 DEF RunnerOK, G, P, HasBoth, AtWork,
         ChildAlive, Closing, IsInstall
  <2> QED BY <2>1, <2>2
<1> QED BY <1>2, <1>3, IdleFrame

-----------------------------------------------------------------------------
(* A finalizer that gives the permits back starts a callback: its first    *)
(* call is legal because the runner was at rest.                           *)
LEMMA RootRelease ==
    ASSUME IInv, Idle, NEW r \in Runners, ReleaseAndReport(r),
           UNCHANGED <<job, semVars>>,
           TypeOK', \A q \in Runners : RunnerOK(q)',
           job[r].kind # "none", Closing(r)', ~ AtWork(r)'
    PROVE  IInv'
<1>1. \A q \in Runners : PairOK(q)'
  BY DEF IInv, PairOK, G, P, semVars
<1>2. \A s \in Semaphores : QueueOK(s)'
  BY QueuesFrame DEF IInv
<1>3. \A q \in Runners : Resting(q) /\ Resting(q)'
  BY DEF IInv, StackOK, Idle, Busy, Resting, G, P, semVars
<1>4. /\ DOMAIN stack' = {1, 2}
      /\ stack'[1] = Call("release", r, "global")
      /\ stack'[2] = Call("report", r, "global")
  BY DEF ReleaseAndReport
<1>5. FrameOK(stack[1])'
  <2>1. /\ Resting(r)'
        /\ stack'[1].op = "release"
        /\ stack'[1].r = r
        /\ stack'[1].l = "global"
    BY <1>3, <1>4 DEF Call
  <2> QED BY <1>1, <2>1 DEF FrameOK, PairOK, Resting, G, P
<1>6. FrameOK(stack[2])'
  BY <1>4 DEF FrameOK, Call
<1>7. StackOK'
  BY <1>3, <1>4, <1>5, <1>6 DEF StackOK, Call
<1> QED BY <1>1, <1>2, <1>7 DEF IInv

LEMMA UnlockedInvariant ==
    ASSUME IInv, NEW r \in Runners, NEW a \in Finalizers, Unlocked(r, a)
    PROVE  IInv'
<1>0. RunnerOK(r) /\ job[r].kind \in {"none", "install", "uninstall"}
  BY RunnerType DEF IInv
<1>1. /\ main[r] \in {"cancelled", "done"}
      /\ job[r].kind = "install"
      /\ ~ ChildAlive(r) /\ Closing(r)
  BY <1>0 DEF Unlocked, RunnerOK, IsInstall
<1>2. /\ UNCHANGED <<job, state, terminated, child, permit, main>>
      /\ final' = [final EXCEPT ![r][a] = "done"]
  BY DEF Unlocked, SetFinal
<1>3. TypeOK'
  <2>1. stack' \in Seq(Frame)
    BY DEF Unlocked, ReleaseAndReport, Frame, Call, Ops, Levels
  <2>2. final' \in [Runners -> [Finalizers -> FinalStates]]
    BY <1>2 DEF IInv, TypeOK, FinalStates
  <2> QED BY <2>1, <2>2 DEF IInv, TypeOK, Unlocked
<1>4. ASSUME NEW q \in Runners, q # r PROVE RunnerOK(q)'
  BY <1>2, <1>4, RunnerFrame DEF IInv, TypeOK
<1>5. RunnerOK(r)'
  <2>1. \A b \in Finalizers : b # a => final'[r][b] = final[r][b]
    BY <1>2 DEF IInv, TypeOK
  <2> QED BY <1>0, <1>1, <1>2, <2>1 DEF RunnerOK, G, P, HasBoth, AtWork,
         ChildAlive, Closing, IsInstall
<1>6. Closing(r)' /\ ~ AtWork(r)'
  BY <1>1, <1>2 DEF Closing, AtWork, ChildAlive
<1> QED BY <1>1, <1>3, <1>4, <1>5, <1>6, RootRelease DEF Unlocked

LEMMA RemovedInvariant ==
    ASSUME IInv, NEW r \in Runners, Removed(r)
    PROVE  IInv'
<1>0. RunnerOK(r) /\ job[r].kind \in {"none", "install", "uninstall"}
  BY RunnerType DEF IInv
<1>1. job[r].kind # "none" /\ ~ ChildAlive(r) /\ HasBoth(r)
  BY <1>0 DEF Removed, RunnerOK, AtWork
<1>2. /\ UNCHANGED <<job, terminated, child, permit, final>>
      /\ main' = [main EXCEPT ![r] = "done"]
      /\ \/ Closing(r) /\ state' = state
         \/ state' = [state EXCEPT ![r] = "CLOSED"]
  BY DEF Removed, CloseUnlessClosing
<1>3. TypeOK'
  <2>1. stack' \in Seq(Frame)
    BY DEF Removed, ReleaseAndReport, Frame, Call, Ops, Levels
  <2>2. main' \in [Runners -> MainStates]
    BY <1>2 DEF IInv, TypeOK, MainStates
  <2>3. state' \in [Runners -> HandleStates]
    BY <1>2 DEF IInv, TypeOK, HandleStates
  <2>4. installed' \in SUBSET Packages
    BY DEF IInv, TypeOK, Removed
  <2> QED BY <2>1, <2>2, <2>3, <2>4 DEF IInv, TypeOK, Removed
<1>4. ASSUME NEW q \in Runners, q # r PROVE RunnerOK(q)'
  BY <1>2, <1>4, RunnerFrame DEF IInv, TypeOK
<1>5. main'[r] = "done" /\ Closing(r)' /\ state'[r] \in {state[r], "CLOSED"}
  BY <1>2 DEF IInv, TypeOK, Closing
<1>6. RunnerOK(r)'
  BY <1>0, <1>1, <1>2, <1>5 DEF RunnerOK, G, P, HasBoth, AtWork,
         ChildAlive, Closing, IsInstall
<1>7. ~ AtWork(r)'
  BY <1>1, <1>2, <1>5 DEF AtWork, ChildAlive
<1> QED BY <1>1, <1>3, <1>4, <1>5, <1>6, <1>7, RootRelease DEF Removed

(* A new request has no permit, so the semaphores do not know it. *)
LEMMA NewJob ==
    ASSUME IInv, NEW r \in Runners, job[r].kind = "none",
           NEW j, job' = [job EXCEPT ![r] = j], UNCHANGED semVars
    PROVE  /\ \A s \in Semaphores : QueueOK(s)'
           /\ \A q \in Runners : PairOK(q)'
<1>1. G(r) = "none" /\ P(r) = "none"
  BY DEF IInv, RunnerOK
<1>2. ASSUME NEW s \in Semaphores, NEW S, "none" \notin S
      PROVE  With(s, S)' = With(s, S)
  <2>1. ASSUME NEW q \in Runners, NEW l \in Levels, permit[q][l] \in S
        PROVE  Sem(q, l)' = Sem(q, l)
    <3>1. q # r
      BY <1>1, <1>2, <2>1 DEF G, P, Levels
    <3> QED BY <3>1 DEF Sem, IInv, TypeOK
  <2> QED BY <2>1 DEF With
<1>3. \A s \in Semaphores : QueueOK(s)'
  BY <1>2 DEF IInv, QueueOK, Elements, Distinct, Capacity
<1> QED BY <1>3 DEF IInv, PairOK, G, P

(* A request queues its handle and asks for the global permit. *)
LEMMA RequestInvariant ==
    ASSUME IInv, Idle, NEW r \in Runners, job[r].kind = "none",
           NEW kind \in {"install", "uninstall"}, NEW p \in Packages,
           NEW d \in BOOLEAN, Request(r, kind, p, d)
    PROVE  IInv'
<1>0. RunnerOK(r) /\ G(r) = "none" /\ P(r) = "none"
  BY DEF IInv, RunnerOK
<1>1. /\ job' = [job EXCEPT ![r] = [kind |-> kind, pkg |-> p, debug |-> d]]
      /\ state' = [state EXCEPT ![r] = "QUEUED"]
      /\ main' = [main EXCEPT ![r] = "queued"]
      /\ UNCHANGED <<terminated, child, final, semVars>>
      /\ stack' = <<Call("acquire", r, "global")>>
  BY DEF Request
<1>2. TypeOK'
  <2>1. job' \in [Runners -> [kind : {"none", "install", "uninstall"},
                              pkg : Packages \cup {NoPackage},
                              debug : BOOLEAN]]
    BY <1>1 DEF IInv, TypeOK
  <2>2. state' \in [Runners -> HandleStates]
    BY <1>1 DEF IInv, TypeOK, HandleStates
  <2>3. main' \in [Runners -> MainStates]
    BY <1>1 DEF IInv, TypeOK, MainStates
  <2>4. stack' \in Seq(Frame)
    BY <1>1 DEF Frame, Call, Ops, Levels
  <2> QED BY <2>1, <2>2, <2>3, <2>4 DEF IInv, TypeOK, Request
<1>3. ASSUME NEW q \in Runners, q # r PROVE RunnerOK(q)'
  BY <1>1, <1>3, RunnerFrame DEF IInv, TypeOK
<1>4. /\ job'[r].kind = kind /\ job'[r].pkg = p
      /\ state'[r] = "QUEUED" /\ main'[r] = "queued"
  BY <1>1 DEF IInv, TypeOK
<1>5. RunnerOK(r)'
  BY <1>0, <1>1, <1>4, NoPackageAssumption
     DEF RunnerOK, G, P, HasBoth, AtWork, ChildAlive, Closing, IsInstall
<1>6. (\A s \in Semaphores : QueueOK(s)') /\ \A q \in Runners : PairOK(q)'
  BY <1>1, NewJob
<1>7. StackOK'
  <2>1. DOMAIN stack' = {1} /\ stack'[1] = Call("acquire", r, "global")
    BY <1>1
  <2>2. FrameOK(stack[1])'
    BY <1>0, <1>1, <1>4, <2>1 DEF FrameOK, Call, G, P
  <2>3. \A q \in Runners : Resting(q)'
    BY <1>1 DEF IInv, StackOK, Idle, Busy, Resting, G, P
  <2> QED BY <2>1, <2>2, <2>3 DEF StackOK, Call
<1> QED BY <1>2, <1>3, <1>5, <1>6, <1>7 DEF IInv

LEMMA InstallInvariant ==
    ASSUME IInv, NEW r \in Runners, NEW p \in Packages,
           NEW d \in DebugOptions, Install(r, p, d)
    PROVE  IInv'
BY RequestInvariant, DebugOptionsAssumption DEF Install, CanInstall

(* Or its handle is never queued. *)
LEMMA InitializeFailsInvariant ==
    ASSUME IInv, NEW r \in Runners, NEW p \in Packages,
           NEW d \in DebugOptions, InitializeFails(r, p, d)
    PROVE  IInv'
<1>0. /\ Idle /\ job[r].kind = "none" /\ d \in BOOLEAN
      /\ RunnerOK(r) /\ G(r) = "none" /\ P(r) = "none"
      /\ main[r] = "none"
  BY DebugOptionsAssumption DEF InitializeFails, CanInstall, IInv, RunnerOK
<1>1. /\ job' = [job EXCEPT ![r] = [kind |-> "install", pkg |-> p,
                                    debug |-> d]]
      /\ main' = [main EXCEPT ![r] = "done"]
      /\ UNCHANGED <<terminated, child, semVars, stack>>
      /\ \/ /\ state' = [state EXCEPT ![r] = "IDLE"]
            /\ final' = [final EXCEPT ![r]["own"] = "dead"]
         \/ /\ state' = [state EXCEPT ![r] = "CLOSED"]
            /\ final' = [final EXCEPT ![r]["own"] = "unlocking"]
  BY DEF InitializeFails, SetFinal
<1>2. TypeOK'
  <2>1. job' \in [Runners -> [kind : {"none", "install", "uninstall"},
                              pkg : Packages \cup {NoPackage},
                              debug : BOOLEAN]]
    BY <1>0, <1>1 DEF IInv, TypeOK
  <2>2. state' \in [Runners -> HandleStates]
    BY <1>1 DEF IInv, TypeOK, HandleStates
  <2>3. main' \in [Runners -> MainStates]
    BY <1>1 DEF IInv, TypeOK, MainStates
  <2>4. final' \in [Runners -> [Finalizers -> FinalStates]]
    <3>1. final \in [Runners -> [Finalizers -> FinalStates]]
      BY DEF IInv, TypeOK
    <3>2. PICK f \in FinalStates : final' = [final EXCEPT ![r]["own"] = f]
      BY <1>1 DEF FinalStates
    <3> QED BY <3>1, <3>2
  <2> QED BY <2>1, <2>2, <2>3, <2>4 DEF IInv, TypeOK, InitializeFails
<1>3. ASSUME NEW q \in Runners, q # r PROVE RunnerOK(q)'
  BY <1>1, <1>3, RunnerFrame DEF IInv, TypeOK
<1>4. RunnerOK(r)'
  <2>1. /\ job'[r].kind = "install" /\ job'[r].pkg = p /\ main'[r] = "done"
        /\ ~ ChildAlive(r)'
        /\ \/ state'[r] = "IDLE" /\ final'[r]["own"] = "dead"
           \/ state'[r] = "CLOSED" /\ final'[r]["own"] = "unlocking"
        /\ final'[r]["abort"] = "none"
    <3>1. ~ ChildAlive(r) /\ final[r]["abort"] = "none"
      BY <1>0 DEF RunnerOK, Finalizers
    <3> QED BY <1>1, <3>1 DEF IInv, TypeOK, ChildAlive, Finalizers
  <2> QED BY <1>0, <1>1, <2>1, NoPackageAssumption
          DEF RunnerOK, G, P, HasBoth, AtWork, Closing, IsInstall, Finalizers
<1>5. (\A s \in Semaphores : QueueOK(s)') /\ \A q \in Runners : PairOK(q)'
  BY <1>0, <1>1, NewJob
<1>6. StackOK'
  BY <1>0, <1>1 DEF IInv, StackOK, Idle, Busy, Resting, G, P
<1> QED BY <1>2, <1>3, <1>4, <1>5, <1>6 DEF IInv

LEMMA UninstallInvariant ==
    ASSUME IInv, NEW r \in Runners, NEW p \in Packages, Uninstall(r, p)
    PROVE  IInv'
BY RequestInvariant DEF Uninstall

-----------------------------------------------------------------------------
(* The innermost call of the running callback. *)
LEMMA StackTop ==
    ASSUME TypeOK, stack # <<>>
    PROVE  /\ Len(stack) \in Nat \ {0}
           /\ DOMAIN stack = 1..Len(stack)
           /\ 1 \in DOMAIN stack /\ Top = stack[1]
           /\ \A i \in DOMAIN stack : stack[i] \in Frame
           /\ Top.r \in Runners /\ Top.l \in Levels /\ Top.op \in Ops
<1>1. stack \in Seq(Frame)
  BY DEF TypeOK
<1>2. /\ Len(stack) \in Nat \ {0}
      /\ DOMAIN stack = 1..Len(stack)
      /\ Top = stack[1]
      /\ \A i \in 1..Len(stack) : stack[i] \in Frame
  BY <1>1 DEF Top
<1>3. 1 \in DOMAIN stack /\ Top \in Frame
  BY <1>2
<1> QED BY <1>2, <1>3 DEF Frame

(* Where the calls are after the innermost one was replaced by fs: those   *)
(* of fs come first, the others keep their order.                          *)
LEMMA Continued ==
    ASSUME TypeOK, stack # <<>>, NEW fs \in Seq(Frame), Continue(fs)
    PROVE  /\ stack' \in Seq(Frame)
           /\ \A i \in DOMAIN fs : i \in DOMAIN stack' /\ stack'[i] = fs[i]
           /\ \A i \in DOMAIN stack' : i \notin DOMAIN fs =>
                 /\ i - Len(fs) + 1 \in DOMAIN stack
                 /\ i - Len(fs) + 1 # 1
                 /\ stack'[i] = stack[i - Len(fs) + 1]
           /\ \A j \in DOMAIN stack : j # 1 =>
                 /\ j + Len(fs) - 1 \in DOMAIN stack'
                 /\ stack'[j + Len(fs) - 1] = stack[j]
<1> DEFINE t == Tail(stack)
<1>1. stack \in Seq(Frame) /\ stack' = fs \o t
  BY DEF TypeOK, Continue
<1>2. /\ t \in Seq(Frame)
      /\ Len(stack) \in Nat \ {0}
      /\ Len(t) = Len(stack) - 1
      /\ \A i \in 1..Len(t) : t[i] = stack[i + 1]
  BY <1>1
<1> HIDE DEF t
<1>3. /\ stack' \in Seq(Frame)
      /\ Len(fs) \in Nat
      /\ Len(stack') = Len(fs) + Len(t)
      /\ \A i \in 1..Len(fs) : stack'[i] = fs[i]
      /\ \A i \in 1..Len(stack') : i > Len(fs) => stack'[i] = t[i - Len(fs)]
  BY <1>1, <1>2
<1>4. /\ DOMAIN fs = 1..Len(fs)
      /\ DOMAIN stack = 1..Len(stack)
      /\ DOMAIN stack' = 1..Len(stack')
  BY <1>1, <1>3
<1>5. ASSUME NEW i \in DOMAIN stack', i \notin DOMAIN fs
      PROVE  /\ i - Len(fs) + 1 \in DOMAIN stack
             /\ i - Len(fs) + 1 # 1
             /\ stack'[i] = stack[i - Len(fs) + 1]
  <2>1. /\ i \in 1..Len(stack') /\ i > Len(fs)
        /\ i - Len(fs) \in 1..Len(t)
        /\ i - Len(fs) + 1 \in 1..Len(stack)
        /\ i - Len(fs) + 1 # 1
    BY <1>2, <1>3, <1>4, <1>5
  <2>2. stack'[i] = t[i - Len(fs)]
    BY <1>3, <2>1
  <2>3. t[i - Len(fs)] = stack[i - Len(fs) + 1]
    BY <1>2, <2>1
  <2> QED BY <1>4, <2>1, <2>2, <2>3
<1>6. ASSUME NEW j \in DOMAIN stack, j # 1
      PROVE  /\ j + Len(fs) - 1 \in DOMAIN stack'
             /\ stack'[j + Len(fs) - 1] = stack[j]
  <2>1. /\ j + Len(fs) - 1 \in 1..Len(stack')
        /\ j + Len(fs) - 1 > Len(fs)
        /\ (j + Len(fs) - 1) - Len(fs) = j - 1
        /\ j - 1 \in 1..Len(t)
        /\ (j - 1) + 1 = j
    BY <1>2, <1>3, <1>4, <1>6
  <2> QED BY <1>2, <1>3, <1>4, <2>1
<1> QED BY <1>3, <1>4, <1>5, <1>6

(* What a step that pushes the frames fs in place of the top does to the   *)
(* runners: those outside T keep their permits; those in T have no frame   *)
(* below the top, and rest afterwards unless a frame of fs is theirs; and  *)
(* the frames of fs are legal.                                             *)
Untouched(T) ==
    /\ UNCHANGED job
    /\ \A q \in Runners \ T : /\ permit'[q] = permit[q]
                              /\ Closing(q) => Closing(q)'
                              /\ AtWork(q)' => AtWork(q)

Touched(fs, T) ==
    /\ Top.op = "report" \/ Top.r \in T
    /\ \A q \in T : Busy(q) \/ ~ HasBoth(q)
    /\ \A i \in DOMAIN stack :
          i # 1 /\ stack[i].op # "report" => stack[i].r \notin T
    /\ \A q \in T : Resting(q)' \/ \E i \in DOMAIN fs : fs[i].r = q

Pushed(fs, T) ==
    /\ \A i \in DOMAIN fs : /\ fs[i].r \in T
                            /\ fs[i].op # "report"
                            /\ i # 1 => fs[i].op = "forgotten"
    /\ \A i, j \in DOMAIN fs : fs[i].r = fs[j].r => i = j
    /\ \A i \in DOMAIN fs : FrameOK(fs[i])'
    /\ \A i \in DOMAIN fs :
          fs[i].op = "release" /\ fs[i].l = "global"
             => permit'[fs[i].r]["package"] # "waiting"
    /\ \A i \in DOMAIN fs :
          /\ fs[i].op = "forgotten" /\ fs[i].l = "global"
          /\ permit'[fs[i].r]["package"] = "waiting"
          => \E x \in Runners \ T : /\ job[x].pkg = job[fs[i].r].pkg
                                    /\ HasBoth(x) /\ ~ Busy(x)

(* A step of the running callback that replaces its innermost call by fs   *)
(* keeps StackOK, under conditions on the permits of the runners in T and  *)
(* on the calls in fs only.                                                *)
LEMMA StackStep ==
    ASSUME TypeOK, StackOK, stack # <<>>,
           NEW fs \in Seq(Frame), Continue(fs),
           NEW T \in SUBSET Runners,
           Untouched(T), Touched(fs, T), Pushed(fs, T)
    PROVE  StackOK' /\ stack' \in Seq(Frame)
<1>1. ASSUME NEW i \in DOMAIN stack', i \notin DOMAIN fs
      PROVE  /\ i - Len(fs) + 1 \in DOMAIN stack
             /\ i - Len(fs) + 1 # 1
             /\ stack'[i] = stack[i - Len(fs) + 1]
  BY <1>1, Continued
<1>2. \A i \in DOMAIN fs : i \in DOMAIN stack' /\ stack'[i] = fs[i]
  BY Continued
<1>3. ASSUME NEW i \in DOMAIN stack'
      PROVE  \/ i \in DOMAIN fs
             \/ \E j \in DOMAIN stack : j # 1 /\ stack'[i] = stack[j]
  BY <1>1
<1>4. \A j \in DOMAIN stack : stack[j].r \in Runners
  BY StackTop DEF Frame
<1>5. \A i \in DOMAIN fs : /\ fs[i].r \in T
                           /\ fs[i].op # "report"
                           /\ i # 1 => fs[i].op = "forgotten"
  BY DEF Pushed
<1>6. \A j \in DOMAIN stack :
         j # 1 /\ stack[j].op # "report" => stack[j].r \in Runners \ T
  BY <1>4 DEF Touched
<1>7. \A i \in DOMAIN stack : i # 1 => stack[i].op \in {"forgotten", "report"}
  BY DEF StackOK
<1>8. ASSUME NEW i \in DOMAIN stack', i # 1
      PROVE  stack'[i].op \in {"forgotten", "report"}
  <2>1. CASE i \in DOMAIN fs
    <3>1. stack'[i] = fs[i]
      BY <1>2, <2>1
    <3>2. fs[i].op = "forgotten"
      BY <1>5, <1>8, <2>1
    <3> QED BY <3>1, <3>2
  <2>2. CASE i \notin DOMAIN fs
    BY <1>3, <1>7, <2>2
  <2> QED BY <2>1, <2>2
<1>9. ASSUME NEW i \in DOMAIN stack', NEW j \in DOMAIN stack',
             stack'[i].op # "report", stack'[j].op # "report",
             stack'[i].r = stack'[j].r
      PROVE  i = j
  <2>1. CASE i \in DOMAIN fs /\ j \in DOMAIN fs
    BY <1>2, <1>9, <2>1 DEF Pushed
  <2>2. CASE i \in DOMAIN fs /\ j \notin DOMAIN fs
    BY <1>1, <1>2, <1>5, <1>6, <1>9, <2>2
  <2>3. CASE i \notin DOMAIN fs /\ j \in DOMAIN fs
    BY <1>1, <1>2, <1>5, <1>6, <1>9, <2>3
  <2>4. CASE i \notin DOMAIN fs /\ j \notin DOMAIN fs
    <3>1. i - Len(fs) + 1 = j - Len(fs) + 1
      BY <1>1, <1>9, <2>4 DEF StackOK
    <3>2. i \in Int /\ j \in Int /\ Len(fs) \in Int
      BY Continued
    <3> QED BY <3>1, <3>2
  <2> QED BY <2>1, <2>2, <2>3, <2>4
<1>10. ASSUME NEW i \in DOMAIN stack' PROVE FrameOK(stack[i])'
  <2>1. CASE i \in DOMAIN fs
    <3>1. FrameOK(fs[i])' /\ stack'[i] = fs[i]
      BY <1>2, <2>1 DEF Pushed
    <3> QED BY <3>1 DEF FrameOK, P, G, Closing, AtWork, ChildAlive
  <2>2. CASE i \notin DOMAIN fs
    <3>1. PICK j \in DOMAIN stack : j # 1 /\ stack'[i] = stack[j]
      BY <1>3, <2>2
    <3>2. FrameOK(stack[j]) /\ stack[j].op \in {"forgotten", "report"}
      BY <1>7, <3>1 DEF StackOK
    <3>3. UNCHANGED job
      BY DEF Untouched
    <3>4. CASE stack[j].op = "report"
      BY <3>1, <3>2, <3>3, <3>4 DEF FrameOK
    <3>5. CASE stack[j].op = "forgotten"
      <4>1. PICK q \in Runners \ T : q = stack[j].r
        BY <1>6, <3>1, <3>5
      <4>2. permit'[q] = permit[q] /\ Closing(q)' /\ ~ AtWork(q)'
        BY <3>2, <3>5, <4>1 DEF FrameOK, Untouched
      <4> QED BY <3>1, <3>2, <3>3, <3>5, <4>1, <4>2
              DEF FrameOK, Closing, AtWork, ChildAlive
    <3> QED BY <3>2, <3>4, <3>5
  <2> QED BY <2>1, <2>2
<1>11. ASSUME NEW q \in Runners \ T PROVE Busy(q)' <=> Busy(q)
  <2>1. ASSUME Busy(q)' PROVE Busy(q)
    <3>1. PICK i \in DOMAIN stack' :
             stack'[i].r = q /\ stack'[i].op # "report"
      BY <2>1 DEF Busy
    <3> QED BY <1>2, <1>3, <1>5, <3>1 DEF Busy
  <2>2. ASSUME Busy(q) PROVE Busy(q)'
    <3>1. PICK j \in DOMAIN stack : stack[j].r = q /\ stack[j].op # "report"
      BY <2>2 DEF Busy
    <3>2. j # 1
      BY <3>1, StackTop DEF Touched
    <3>3. PICK i \in DOMAIN stack' : stack'[i] = stack[j]
      BY <3>2, Continued
    <3> QED BY <3>1, <3>3 DEF Busy
  <2> QED BY <2>1, <2>2
<1>12. ASSUME NEW q \in Runners, ~ Busy(q)' PROVE Resting(q)'
  <2>1. CASE q \in T
    <3>1. ASSUME NEW i \in DOMAIN fs PROVE fs[i].r # q
      BY <1>2, <1>5, <1>12 DEF Busy
    <3> QED BY <2>1, <3>1 DEF Touched
  <2>2. CASE q \notin T
    <3>1. Resting(q) /\ permit'[q] = permit[q]
      BY <1>11, <1>12, <2>2 DEF StackOK, Untouched
    <3> QED BY <3>1 DEF Resting, G, P
  <2> QED BY <2>1, <2>2
<1>13. ASSUME NEW i \in DOMAIN stack',
              stack'[i].op = "release", stack'[i].l = "global"
       PROVE  permit'[stack'[i].r]["package"] # "waiting"
  <2>1. i \in DOMAIN fs /\ stack'[i] = fs[i]
    BY <1>2, <1>3, <1>7, <1>13
  <2> QED BY <1>13, <2>1 DEF Pushed
<1>14. ASSUME NEW i \in DOMAIN stack',
              stack'[i].op = "forgotten", stack'[i].l = "global",
              permit'[stack'[i].r]["package"] = "waiting"
       PROVE  \E x \in Runners : /\ job'[x].pkg = job'[stack'[i].r].pkg
                                 /\ HasBoth(x)' /\ ~ Busy(x)'
  <2>1. PICK x \in Runners \ T : /\ job[x].pkg = job[stack'[i].r].pkg
                                 /\ HasBoth(x) /\ ~ Busy(x)
    <3>1. CASE i \in DOMAIN fs
      <4>1. stack'[i] = fs[i]
        BY <1>2, <3>1
      <4> QED BY <1>14, <3>1, <4>1 DEF Pushed
    <3>2. CASE i \notin DOMAIN fs
      <4>1. PICK j \in DOMAIN stack : j # 1 /\ stack'[i] = stack[j]
        BY <1>3, <3>2
      <4>2. stack[j].r \in Runners \ T
        BY <1>6, <1>14, <4>1
      <4>3. P(stack[j].r) = "waiting"
        BY <1>14, <4>1, <4>2 DEF P, Untouched
      <4>4. PICK x \in Runners : /\ job[x].pkg = job[stack[j].r].pkg
                                 /\ HasBoth(x) /\ ~ Busy(x)
        BY <1>14, <4>1, <4>3 DEF StackOK
      <4>5. x \notin T
        BY <4>4 DEF Touched
      <4> QED BY <4>1, <4>4, <4>5
    <3> QED BY <3>1, <3>2
  <2>2. permit'[x] = permit[x] /\ job' = job
    BY DEF Untouched
  <2>3. HasBoth(x)' /\ ~ Busy(x)'
    BY <1>11, <2>1, <2>2 DEF HasBoth, G, P
  <2> QED BY <2>1, <2>2, <2>3
<1>15. stack' \in Seq(Frame)
  BY Continued
<1> QED
  BY <1>8, <1>9, <1>10, <1>12, <1>13, <1>14, <1>15 DEF StackOK, P

(* What the invariant says of the innermost call. *)
LEMMA TopFacts ==
    ASSUME IInv, stack # <<>>
    PROVE  /\ FrameOK(Top)
           /\ Top.r \in Runners /\ Top.l \in Levels
           /\ job[Top.r].kind # "none" /\ job[Top.r].pkg \in Packages
           /\ \A l \in Levels : Sem(Top.r, l) \in Semaphores
           /\ Top.op # "report" =>
                 /\ Busy(Top.r)
                 /\ \A i \in DOMAIN stack :
                       i # 1 /\ stack[i].op # "report" => stack[i].r # Top.r
<1>1. /\ 1 \in DOMAIN stack /\ Top = stack[1]
      /\ Top.r \in Runners /\ Top.l \in Levels
  BY StackTop DEF IInv
<1>2. FrameOK(Top)
  BY <1>1 DEF IInv, StackOK
<1>3. job[Top.r].kind # "none" /\ job[Top.r].pkg \in Packages
  BY <1>1, <1>2, RunnerType DEF FrameOK, IInv, RunnerOK
<1>4. \A l \in Levels : Sem(Top.r, l) \in Semaphores
  BY <1>3 DEF Sem, Semaphores
<1>5. ASSUME Top.op # "report" PROVE Busy(Top.r)
  BY <1>1, <1>5 DEF Busy
<1>6. ASSUME Top.op # "report", NEW i \in DOMAIN stack, i # 1,
             stack[i].op # "report"
      PROVE  stack[i].r # Top.r
  BY <1>1, <1>6 DEF IInv, StackOK
<1> QED BY <1>1, <1>2, <1>3, <1>4, <1>5, <1>6

(* The special cases: the call ends, or is replaced by one of the same     *)
(* runner.                                                                 *)
LEMMA StackPop ==
    ASSUME IInv, stack # <<>>, Top.op # "report", Continue(<<>>),
           NEW r, r = Top.r, Untouched({r}), Resting(r)'
    PROVE  StackOK' /\ stack' \in Seq(Frame)
<1> DEFINE fs == <<>>
<1>1. fs \in Seq(Frame) /\ DOMAIN fs = {} /\ Continue(fs)
  OBVIOUS
<1> HIDE DEF fs
<1>2. {r} \in SUBSET Runners
  BY TopFacts
<1>3. Touched(fs, {r})
  BY TopFacts DEF Touched
<1>4. Pushed(fs, {r})
  BY <1>1 DEF Pushed
<1> QED BY <1>1, <1>2, <1>3, <1>4, StackStep DEF IInv

LEMMA StackReplace ==
    ASSUME IInv, stack # <<>>, Top.op # "report",
           NEW f \in Frame, Continue(<<f>>), NEW r, r = Top.r,
           f.r = r, f.op # "report", Untouched({r}), FrameOK(f)',
           f.op = "release" /\ f.l = "global" => P(f.r)' # "waiting",
           f.op = "forgotten" /\ f.l = "global" /\ P(f.r)' = "waiting"
              => \E x \in Runners \ {r} : /\ job[x].pkg = job[f.r].pkg
                                          /\ HasBoth(x) /\ ~ Busy(x)
    PROVE  StackOK' /\ stack' \in Seq(Frame)
<1> DEFINE fs == <<f>>
<1>1. fs \in Seq(Frame) /\ DOMAIN fs = {1} /\ fs[1] = f /\ Continue(fs)
  OBVIOUS
<1> HIDE DEF fs
<1>2. {r} \in SUBSET Runners
  BY TopFacts
<1>3. Touched(fs, {r})
  BY <1>1, TopFacts DEF Touched
<1>4. Pushed(fs, {r})
  <2>1. \A i \in DOMAIN fs : fs[i] = f
    BY <1>1
  <2>2. \A i \in DOMAIN fs : FrameOK(fs[i])'
    BY <2>1 DEF FrameOK, P, G, Closing, AtWork, ChildAlive
  <2> QED BY <1>1, <2>1, <2>2 DEF Pushed, P
<1> QED BY <1>1, <1>2, <1>3, <1>4, StackStep DEF IInv

(* A package's semaphore is never the global one. *)
LEMMA SemLevel ==
    ASSUME TypeOK, NEW r \in Runners, NEW w \in Runners,
           NEW l \in Levels, NEW m \in Levels, Sem(r, l) = Sem(w, m)
    PROVE  l = m
<1>1. job[r].pkg # Global /\ job[w].pkg # Global
  BY RunnerType, GlobalAssumption, NoPackageAssumption
<1> QED BY <1>1 DEF Sem, Levels

(* How the set of runners with a permit changes when one permit does. *)
LEMMA InWith ==
    ASSUME TypeOK, NEW r \in Runners, NEW l \in Levels, NEW S
    PROVE  r \in With(Sem(r, l), S) <=> permit[r][l] \in S
BY SemLevel DEF With

(* Only the permit of r at level l changes, to v. *)
OnlyPermit(r, l, v) ==
    \A q \in Runners, m \in Levels :
        permit'[q][m] = IF q = r /\ m = l THEN v ELSE permit[q][m]

LEMMA WithOne ==
    ASSUME TypeOK, UNCHANGED job, NEW r \in Runners, NEW l \in Levels, NEW v,
           OnlyPermit(r, l, v), NEW s, NEW S
    PROVE  With(s, S)' = IF s = Sem(r, l)
                         THEN IF v \in S THEN With(s, S) \cup {r}
                                         ELSE With(s, S) \ {r}
                         ELSE With(s, S)
<1>1. ASSUME NEW q \in Runners, NEW m \in Levels
      PROVE  /\ Sem(q, m)' = Sem(q, m)
             /\ permit'[q][m] = IF q = r /\ m = l THEN v ELSE permit[q][m]
  BY DEF Sem, OnlyPermit
<1>2. ASSUME NEW q \in Runners, q # r
      PROVE  q \in With(s, S)' <=> q \in With(s, S)
  BY <1>1, <1>2 DEF With
<1>3. CASE s # Sem(r, l)
  <2>1. r \in With(s, S)' <=> r \in With(s, S)
    BY <1>1, <1>3 DEF With
  <2> QED BY <1>2, <1>3, <2>1 DEF With
<1>4. CASE s = Sem(r, l)
  <2>1. r \in With(s, S)' <=> v \in S
    BY <1>1, <1>4, SemLevel DEF With
  <2> QED BY <1>2, <1>4, <2>1 DEF With
<1> QED BY <1>3, <1>4

(* What the invariant says of a queue survives a step that neither parks a *)
(* runner nor takes or returns a permit.                                   *)
LEMMA QueuesKept ==
    ASSUME TypeOK, \A s \in Semaphores : QueueOK(s),
           UNCHANGED <<job, free, queue>>,
           NEW r \in Runners, NEW l \in Levels, NEW v, OnlyPermit(r, l, v),
           permit[r][l] # "waiting", v # "waiting",
           permit[r][l] \in {"granted", "held"} <=> v \in {"granted", "held"}
    PROVE  \A s \in Semaphores : QueueOK(s)'
<1>1. ASSUME NEW s, NEW S, permit[r][l] \in S <=> v \in S
      PROVE  With(s, S)' = With(s, S)
  <2>1. CASE s = Sem(r, l)
    <3>1. r \in With(s, S) <=> v \in S
      BY <1>1, <2>1, InWith
    <3>2. With(s, S)' = IF v \in S THEN With(s, S) \cup {r}
                                   ELSE With(s, S) \ {r}
      BY <2>1, WithOne
    <3> QED BY <3>1, <3>2
  <2>2. CASE s # Sem(r, l)
    BY <2>2, WithOne
  <2> QED BY <2>1, <2>2
<1>2. \A s : /\ With(s, {"waiting"})' = With(s, {"waiting"})
             /\ With(s, {"granted", "held"})' = With(s, {"granted", "held"})
  BY <1>1
<1> QED BY <1>2 DEF QueueOK, Elements, Distinct, Capacity

(* Every such set is finite. *)
LEMMA FiniteWith ==
    ASSUME NEW s, NEW S
    PROVE  IsFiniteSet(With(s, S)) /\ Cardinality(With(s, S)) \in Nat
BY RunnersAssumption, FS_Subset, FS_CardinalityType DEF With

-----------------------------------------------------------------------------
(* The callback of a request. *)
LEMMA ReportInvariant == ASSUME IInv, Report PROVE IInv'
<1> DEFINE fs == <<>>
<1>1. stack # <<>> /\ Top.op = "report" /\ Continue(<<>>)
  BY DEF Report, Running, Top
<1>2. fs \in Seq(Frame) /\ DOMAIN fs = {} /\ Continue(fs)
  BY <1>1
<1> HIDE DEF fs
<1>3. UNCHANGED <<job, permit, state, terminated, main, child, final, free,
                  queue>>
  BY DEF Report
<1>4. TypeOK'
  <2>1. stack' \in Seq(Frame)
    BY <1>1, <1>2, Continued DEF IInv
  <2>2. reports' \in [Runners -> Nat]
    <3>1. reports \in [Runners -> Nat]
      BY DEF IInv, TypeOK
    <3>2. PICK r \in Runners : r = Top.r
      BY <1>1, StackTop DEF IInv
    <3>3. reports' = [reports EXCEPT ![r] = reports[r] + 1]
      BY <3>2 DEF Report
    <3> QED BY <3>1, <3>3
  <2> QED BY <2>1, <2>2 DEF IInv, TypeOK, Report
<1>5. \A q \in Runners : RunnerOK(q)' /\ PairOK(q)'
  BY <1>3, RunnerFrame DEF IInv
<1>6. Untouched({})
  BY <1>3 DEF Untouched, Closing, AtWork, ChildAlive
<1>7. Touched(fs, {}) /\ Pushed(fs, {})
  BY <1>1, <1>2 DEF Touched, Pushed
<1>8. StackOK'
  BY <1>1, <1>2, <1>6, <1>7, StackStep DEF IInv
<1> QED BY <1>3, <1>4, <1>5, <1>8, QueuesFrame DEF IInv

(* release_permit() after forget(). *)
LEMMA ForgottenInvariant == ASSUME IInv, Forgotten PROVE IInv'
<1>1. stack # <<>> /\ Top.op = "forgotten"
  BY DEF Forgotten, Running, Top
<1>2. PICK r \in Runners, l \in Levels : r = Top.r /\ l = Top.l
  BY <1>1, TopFacts
<1>3. /\ permit' = [permit EXCEPT ![r][l] = "none"]
      /\ UNCHANGED <<job, state, terminated, main, child, final, free, queue>>
  BY <1>2 DEF Forgotten, SetPermit
<1>4. /\ permit[r][l] = "forgotten" /\ Closing(r) /\ ~ AtWork(r)
      /\ job[r].kind # "none" /\ RunnerOK(r) /\ PairOK(r)
  BY <1>1, <1>2, TopFacts DEF FrameOK, IInv
<1>5. /\ permit'[r][l] = "none"
      /\ \A m \in Levels : m # l => permit'[r][m] = permit[r][m]
      /\ \A q \in Runners : q # r => permit'[q] = permit[q]
  BY <1>3 DEF IInv, TypeOK
<1>6. PairOK(r)'
  BY <1>4, <1>5 DEF PairOK, G, P, Levels
<1>7. RunnerOK(r)'
  BY <1>3, <1>4, <1>5
     DEF RunnerOK, HasBoth, AtWork, ChildAlive, Closing, IsInstall, G, P
<1>8. ASSUME NEW q \in Runners, q # r PROVE RunnerOK(q)' /\ PairOK(q)'
  BY <1>3, <1>5, <1>8, RunnerFrame DEF IInv
<1>9. Untouched({r}) /\ Closing(r)' /\ ~ AtWork(r)'
  BY <1>3, <1>4, <1>5 DEF Untouched, Closing, AtWork, ChildAlive
<1>10. StackOK' /\ stack' \in Seq(Frame)
  <2>1. CASE l = "package"
    <3>1. Continue(<<>>)
      BY <1>2, <2>1 DEF Forgotten
    <3>2. Resting(r)'
      BY <1>4, <1>5, <2>1 DEF PairOK, Resting, G, P, Levels
    <3> QED BY <1>1, <1>2, <1>9, <3>1, <3>2, StackPop
  <2>2. CASE l = "global"
    <3> DEFINE f == Call("release", r, "package")
    <3>1. /\ f \in Frame /\ Continue(<<f>>) /\ f.r = r
          /\ f.op = "release" /\ f.l = "package"
      BY <1>2, <2>2 DEF Forgotten, Call, Frame, Ops, Levels
    <3>2. FrameOK(f)'
      <4>1. G(r)' = "none" /\ P(r)' \in {"waiting", "held"}
        BY <1>4, <1>5, <2>2 DEF PairOK, G, P, Levels
      <4> HIDE DEF f
      <4> QED BY <1>3, <1>4, <1>9, <3>1, <4>1
              DEF FrameOK, G, P, Closing, AtWork, ChildAlive
    <3> HIDE DEF f
    <3> QED BY <1>1, <1>2, <1>9, <3>1, <3>2, StackReplace
  <2> QED BY <2>1, <2>2 DEF Levels
<1>11. TypeOK'
  <2>1. permit' \in [Runners -> [Levels -> Statuses]]
    BY <1>3 DEF IInv, TypeOK, Statuses
  <2> QED BY <1>10, <2>1 DEF IInv, TypeOK, Forgotten
<1>12. OnlyPermit(r, l, "none")
  BY <1>5 DEF OnlyPermit
<1>13. \A s \in Semaphores : QueueOK(s)'
  BY <1>3, <1>4, <1>12, QueuesKept DEF IInv
<1> QED BY <1>6, <1>7, <1>8, <1>10, <1>11, <1>13 DEF IInv

(* acquire_permit() after acquire(): the three ways it goes on. *)
LEMMA GrantedInvariant == ASSUME IInv, Granted PROVE IInv'
<1>1. stack # <<>> /\ Top.op = "granted"
  BY DEF Granted, Running, Top
<1>2. PICK r \in Runners, l \in Levels : r = Top.r /\ l = Top.l
  BY <1>1, TopFacts
<1>3. /\ permit' = [permit EXCEPT ![r][l] = "held"]
      /\ UNCHANGED <<job, terminated, child, final, free, queue>>
  BY <1>2 DEF Granted, SetPermit
<1>4. /\ permit[r][l] = "granted"
      /\ job[r].kind # "none" /\ RunnerOK(r) /\ PairOK(r)
  BY <1>1, <1>2, TopFacts DEF FrameOK, IInv
<1>5. /\ permit'[r][l] = "held"
      /\ \A m \in Levels : m # l => permit'[r][m] = permit[r][m]
      /\ \A q \in Runners : q # r => permit'[q] = permit[q]
  BY <1>3 DEF IInv, TypeOK
<1>6. OnlyPermit(r, l, "held")
  BY <1>5 DEF OnlyPermit
<1>7. \A s \in Semaphores : QueueOK(s)'
  BY <1>3, <1>4, <1>6, QueuesKept DEF IInv
<1>8. ~ HasBoth(r) /\ ~ AtWork(r)
  BY <1>4 DEF HasBoth, G, P, Levels, RunnerOK
<1>9. permit' \in [Runners -> [Levels -> Statuses]]
  BY <1>3 DEF IInv, TypeOK, Statuses
<1>10. CASE l = "global" /\ UNCHANGED <<state, main>>
            /\ Continue(<<Call("acquire", r, "package")>>)
  <2>1. /\ G(r) = "granted" /\ P(r) = "none" /\ state[r] # "IDLE"
        /\ G(r)' = "held" /\ P(r)' = "none"
    BY <1>4, <1>5, <1>10 DEF PairOK, RunnerOK, G, P, Levels
  <2>2. PairOK(r)' /\ RunnerOK(r)'
    BY <1>3, <1>4, <1>8, <1>10, <2>1
       DEF PairOK, RunnerOK, HasBoth, AtWork, ChildAlive, Closing, IsInstall
  <2>3. ASSUME NEW q \in Runners, q # r PROVE RunnerOK(q)' /\ PairOK(q)'
    BY <1>3, <1>5, <1>10, <2>3, RunnerFrame DEF IInv
  <2>4. Untouched({r})
    BY <1>3, <1>5, <1>10 DEF Untouched, Closing, AtWork, ChildAlive
  <2> DEFINE f == Call("acquire", r, "package")
  <2>5. /\ f \in Frame /\ Continue(<<f>>) /\ f.r = r
        /\ f.op = "acquire" /\ f.l = "package"
    BY <1>10 DEF Call, Frame, Ops, Levels
  <2> HIDE DEF f
  <2>6. FrameOK(f)'
    BY <1>3, <1>4, <1>10, <2>1, <2>5 DEF FrameOK, G, P
  <2>7. StackOK' /\ stack' \in Seq(Frame)
    BY <1>1, <1>2, <2>4, <2>5, <2>6, StackReplace
  <2>8. TypeOK'
    BY <1>9, <1>10, <2>7 DEF IInv, TypeOK, Granted
  <2> QED BY <1>7, <2>2, <2>3, <2>7, <2>8 DEF IInv
<1>11. CASE l = "package" /\ Closing(r) /\ UNCHANGED <<state, main>>
            /\ Continue(<<Call("release", r, "global")>>)
  <2>1. /\ P(r) = "granted" /\ G(r) \in {"none", "held"}
        /\ G(r)' = G(r) /\ P(r)' = "held"
    BY <1>4, <1>5, <1>11 DEF PairOK, G, P, Levels
  <2>2. PairOK(r)' /\ RunnerOK(r)'
    BY <1>3, <1>4, <1>8, <1>11, <2>1
       DEF PairOK, RunnerOK, HasBoth, AtWork, ChildAlive, Closing, IsInstall
  <2>3. ASSUME NEW q \in Runners, q # r PROVE RunnerOK(q)' /\ PairOK(q)'
    BY <1>3, <1>5, <1>11, <2>3, RunnerFrame DEF IInv
  <2>4. Untouched({r}) /\ Closing(r)' /\ ~ AtWork(r)'
    BY <1>3, <1>5, <1>8, <1>11 DEF Untouched, Closing, AtWork, ChildAlive
  <2> DEFINE f == Call("release", r, "global")
  <2>5. /\ f \in Frame /\ Continue(<<f>>) /\ f.r = r
        /\ f.op = "release" /\ f.l = "global"
    BY <1>11 DEF Call, Frame, Ops, Levels
  <2> HIDE DEF f
  <2>6. FrameOK(f)'
    BY <1>3, <1>4, <2>1, <2>4, <2>5
       DEF FrameOK, G, P, Closing, AtWork, ChildAlive
  <2>7. P(f.r)' # "waiting"
    BY <2>1, <2>5 DEF P
  <2>8. StackOK' /\ stack' \in Seq(Frame)
    BY <1>1, <1>2, <2>4, <2>5, <2>6, <2>7, StackReplace
  <2>9. TypeOK'
    BY <1>9, <1>11, <2>8 DEF IInv, TypeOK, Granted
  <2> QED BY <1>7, <2>2, <2>3, <2>8, <2>9 DEF IInv
<1>12. CASE l = "package" /\ ~ Closing(r) /\ Continue(<<>>)
            /\ state' = [state EXCEPT ![r] = "ACTIVE"]
            /\ \/ main' = [main EXCEPT ![r] = "locking"] /\ IsInstall(r)
               \/ main' = [main EXCEPT ![r] = "removing"] /\ ~ IsInstall(r)
  <2>1. /\ P(r) = "granted" /\ G(r) = "held"
        /\ main[r] \in {"none", "queued"}
    BY <1>4, <1>8, <1>12 DEF RunnerOK, G, P, Levels
  <2>2. G(r)' = "held" /\ P(r)' = "held"
    BY <1>5, <1>12, <2>1 DEF G, P, Levels
  <2>3. /\ state'[r] = "ACTIVE"
        /\ IsInstall(r) => main'[r] = "locking"
        /\ ~ IsInstall(r) => main'[r] = "removing"
    BY <1>12 DEF IInv, TypeOK
  <2>4. PairOK(r)' /\ RunnerOK(r)'
    <3>1. PairOK(r)'
      BY <2>2 DEF PairOK
    <3>2. job[r].kind \in {"install", "uninstall"} /\ ~ terminated[r]
      BY <1>4, <1>12, RunnerType DEF IInv, Closing
    <3>3. ~ ChildAlive(r) /\ \A a \in Finalizers : final[r][a] = "none"
      BY <1>4, <2>1 DEF RunnerOK
    <3> QED BY <1>3, <1>4, <2>2, <2>3, <3>1, <3>2, <3>3
       DEF RunnerOK, HasBoth, AtWork, ChildAlive, Closing, IsInstall
  <2>5. /\ \A q \in Runners :
              q # r => state'[q] = state[q] /\ main'[q] = main[q]
        /\ state' \in [Runners -> HandleStates]
        /\ main' \in [Runners -> MainStates]
    BY <1>12 DEF IInv, TypeOK, HandleStates, MainStates
  <2>6. ASSUME NEW q \in Runners, q # r PROVE RunnerOK(q)' /\ PairOK(q)'
    BY <1>3, <1>5, <2>5, <2>6, RunnerFrame DEF IInv
  <2>7. Untouched({r})
    BY <1>3, <1>5, <2>5 DEF Untouched, Closing, AtWork, ChildAlive
  <2>8. Resting(r)'
    BY <2>2 DEF Resting
  <2>9. StackOK' /\ stack' \in Seq(Frame)
    BY <1>1, <1>2, <1>12, <2>7, <2>8, StackPop
  <2>10. TypeOK'
    BY <1>9, <2>5, <2>9 DEF IInv, TypeOK, Granted
  <2> QED BY <1>7, <2>4, <2>6, <2>9, <2>10 DEF IInv
<1> QED BY <1>2, <1>10, <1>11, <1>12 DEF Granted

(* acquire(): on its fast path, and when it parks. *)
LEMMA AcquireInvariant == ASSUME IInv, Acquire PROVE IInv'
<1>1. stack # <<>> /\ Top.op = "acquire"
  BY DEF Acquire, Running, Top
<1>2. PICK r \in Runners, l \in Levels : r = Top.r /\ l = Top.l
  BY <1>1, TopFacts
<1>3. PICK s \in Semaphores : s = Sem(r, l)
  BY <1>1, <1>2, TopFacts
<1>4. /\ P(r) = "none" /\ permit[r][l] = "none" /\ state[r] # "IDLE"
      /\ l = "package" => G(r) = "held"
      /\ job[r].kind # "none" /\ RunnerOK(r) /\ PairOK(r)
  BY <1>1, <1>2, TopFacts DEF FrameOK, IInv, Levels, G, P
<1>5. UNCHANGED <<job, state, terminated, main, child, final>>
  BY DEF Acquire
<1>6. ~ HasBoth(r) /\ ~ AtWork(r)
  BY <1>4 DEF HasBoth, RunnerOK
<1>7. /\ r \notin With(s, {"waiting"})
      /\ r \notin With(s, {"granted", "held"})
  BY <1>3, <1>4, InWith DEF IInv
<1>8. /\ QueueOK(s) /\ free[s] \in Nat /\ queue[s] \in Seq(Runners)
      /\ IsFiniteSet(With(s, {"granted", "held"}))
      /\ Cardinality(With(s, {"granted", "held"})) \in Nat
  BY <1>3, FiniteWith DEF IInv, TypeOK
<1>9. ASSUME NEW v \in {"granted", "waiting"},
             permit' = [permit EXCEPT ![r][l] = v]
      PROVE  /\ permit' \in [Runners -> [Levels -> Statuses]]
             /\ permit'[r][l] = v
             /\ \A q \in Runners : RunnerOK(q)' /\ PairOK(q)'
             /\ Untouched({r}) /\ OnlyPermit(r, l, v)
             /\ l = "global" => G(r)' = v /\ P(r)' = "none"
             /\ l = "package" => G(r)' = "held" /\ P(r)' = v
  <2>1. permit' \in [Runners -> [Levels -> Statuses]]
    BY <1>9 DEF IInv, TypeOK, Statuses
  <2>2. /\ permit'[r][l] = v
        /\ \A m \in Levels : m # l => permit'[r][m] = permit[r][m]
        /\ \A q \in Runners : q # r => permit'[q] = permit[q]
    BY <1>9 DEF IInv, TypeOK
  <2>3. /\ l = "global" => G(r)' = v /\ P(r)' = "none"
        /\ l = "package" => G(r)' = "held" /\ P(r)' = v
    BY <1>4, <2>2 DEF G, P, Levels
  <2>4. RunnerOK(r)' /\ PairOK(r)'
    <3>1. l \in {"global", "package"}
      BY DEF Levels
    <3>2. ~ Closing(r) => main[r] \in {"none", "queued"}
      BY <1>4, <1>6 DEF RunnerOK
    <3>3. CASE l = "global"
      BY <1>4, <1>5, <1>6, <2>3, <3>2, <3>3
         DEF PairOK, RunnerOK, HasBoth, AtWork, ChildAlive, Closing, IsInstall
    <3>4. CASE l = "package"
      BY <1>4, <1>5, <1>6, <2>3, <3>2, <3>4
         DEF PairOK, RunnerOK, HasBoth, AtWork, ChildAlive, Closing, IsInstall
    <3> QED BY <3>1, <3>3, <3>4
  <2>5. ASSUME NEW q \in Runners, q # r PROVE RunnerOK(q)' /\ PairOK(q)'
    BY <1>5, <2>2, <2>5, RunnerFrame DEF IInv
  <2>6. Untouched({r})
    BY <1>5, <2>2 DEF Untouched, Closing, AtWork, ChildAlive
  <2>7. OnlyPermit(r, l, v)
    BY <2>2 DEF OnlyPermit
  <2> QED BY <2>1, <2>2, <2>3, <2>4, <2>5, <2>6, <2>7
<1>10. CASE /\ free[s] > 0
            /\ free' = [free EXCEPT ![s] = @ - 1]
            /\ permit' = [permit EXCEPT ![r][l] = "granted"]
            /\ Continue(<<Call("granted", r, l)>>)
            /\ UNCHANGED queue
  <2>1. /\ permit' \in [Runners -> [Levels -> Statuses]]
        /\ permit'[r][l] = "granted"
        /\ \A q \in Runners : RunnerOK(q)' /\ PairOK(q)'
        /\ Untouched({r}) /\ OnlyPermit(r, l, "granted")
    BY <1>9, <1>10
  <2> DEFINE f == Call("granted", r, l)
  <2>2. /\ f \in Frame /\ Continue(<<f>>)
        /\ f.r = r /\ f.l = l /\ f.op = "granted"
    BY <1>10 DEF Call, Frame, Ops
  <2> HIDE DEF f
  <2>3. FrameOK(f)'
    BY <1>4, <1>5, <2>1, <2>2 DEF FrameOK
  <2>4. StackOK' /\ stack' \in Seq(Frame)
    BY <1>1, <1>2, <2>1, <2>2, <2>3, StackReplace
  <2>5. /\ free' \in [Semaphores -> Nat] /\ free'[s] = free[s] - 1
        /\ \A t \in Semaphores : t # s => free'[t] = free[t]
    BY <1>3, <1>8, <1>10 DEF IInv, TypeOK
  <2>6. TypeOK'
    BY <1>10, <2>1, <2>4, <2>5 DEF IInv, TypeOK, Acquire
  <2>7. ASSUME NEW t \in Semaphores, t # s PROVE QueueOK(t)'
    <3>1. \A S : With(t, S)' = With(t, S)
      BY <1>5, <2>1, <2>7, <1>3, WithOne DEF IInv
    <3> QED BY <1>10, <2>5, <2>7, <3>1
            DEF IInv, QueueOK, Elements, Distinct, Capacity
  <2>8. QueueOK(s)'
    <3>1. With(s, {"waiting"})' = With(s, {"waiting"}) \ {r}
      BY <1>5, <2>1, <1>3, WithOne DEF IInv
    <3>2. With(s, {"granted", "held"})'
             = With(s, {"granted", "held"}) \cup {r}
      BY <1>5, <2>1, <1>3, WithOne DEF IInv
    <3>3. Cardinality(With(s, {"granted", "held"})')
             = Cardinality(With(s, {"granted", "held"})) + 1
      BY <1>7, <1>8, <3>2, FS_AddElement
    <3>4. With(s, {"waiting"})' = With(s, {"waiting"})
      BY <1>7, <3>1
    <3> QED BY <1>8, <1>10, <2>5, <3>3, <3>4
            DEF QueueOK, Elements, Distinct, Capacity
  <2> QED BY <2>1, <2>4, <2>6, <2>7, <2>8 DEF IInv
<1>11. CASE /\ ~ (free[s] > 0)
            /\ queue' = [queue EXCEPT ![s] = Append(@, r)]
            /\ permit' = [permit EXCEPT ![r][l] = "waiting"]
            /\ Continue(<<>>)
            /\ UNCHANGED free
  <2>1. /\ permit' \in [Runners -> [Levels -> Statuses]]
        /\ permit'[r][l] = "waiting"
        /\ \A q \in Runners : RunnerOK(q)' /\ PairOK(q)'
        /\ Untouched({r}) /\ OnlyPermit(r, l, "waiting")
        /\ Resting(r)'
    BY <1>9, <1>11 DEF Resting, Levels
  <2>2. StackOK' /\ stack' \in Seq(Frame)
    BY <1>1, <1>2, <1>11, <2>1, StackPop
  <2>3. /\ queue'[s] = Append(queue[s], r)
        /\ \A t \in Semaphores : t # s => queue'[t] = queue[t]
        /\ queue' \in [Semaphores -> Seq(Runners)]
    BY <1>3, <1>8, <1>11, AppendQueue DEF IInv, TypeOK
  <2>4. TypeOK'
    BY <1>11, <2>1, <2>2, <2>3 DEF IInv, TypeOK, Acquire
  <2>5. ASSUME NEW t \in Semaphores, t # s PROVE QueueOK(t)'
    <3>1. \A S : With(t, S)' = With(t, S)
      BY <1>5, <2>1, <2>5, <1>3, WithOne DEF IInv
    <3> QED BY <1>11, <2>3, <2>5, <3>1
            DEF IInv, QueueOK, Elements, Distinct, Capacity
  <2>6. QueueOK(s)'
    <3>1. With(s, {"waiting"})' = With(s, {"waiting"}) \cup {r}
      BY <1>5, <2>1, <1>3, WithOne DEF IInv
    <3>2. With(s, {"granted", "held"})' = With(s, {"granted", "held"}) \ {r}
      BY <1>5, <2>1, <1>3, WithOne DEF IInv
    <3>3. With(s, {"granted", "held"})' = With(s, {"granted", "held"})
      BY <1>7, <3>2
    <3>4. /\ Elements(queue'[s]) = Elements(queue[s]) \cup {r}
          /\ Distinct(queue[s]) /\ r \notin Elements(queue[s])
                => Distinct(queue'[s])
      BY <1>8, <2>3, AppendQueue
    <3>5. Elements(queue[s]) = With(s, {"waiting"}) /\ Distinct(queue[s])
      BY <1>8 DEF QueueOK
    <3>6. Elements(queue'[s]) = With(s, {"waiting"})' /\ Distinct(queue'[s])
      BY <1>7, <3>1, <3>4, <3>5
    <3>7. free'[s] + Cardinality(With(s, {"granted", "held"})') = Capacity(s)
      BY <1>8, <1>11, <3>3 DEF QueueOK
    <3> QED BY <1>8, <1>11, <3>6, <3>7
            DEF QueueOK, Elements, Distinct, Capacity
  <2> QED BY <2>1, <2>2, <2>4, <2>5, <2>6 DEF IInv
<1> QED BY <1>2, <1>3, <1>10, <1>11 DEF Acquire, SetPermit

(* Two members of a set of at most one are the same. *)
LEMMA OnlyOne ==
    ASSUME NEW S, IsFiniteSet(S), Cardinality(S) <= 1,
           NEW x \in S, NEW y \in S
    PROVE  x = y
<1>1. /\ IsFiniteSet(S \ {x}) /\ Cardinality(S) \in Nat
      /\ Cardinality(S \ {x}) = Cardinality(S) - 1
      /\ Cardinality(S \ {x}) \in Nat
  BY FS_RemoveElement, FS_CardinalityType
<1>2. S \ {x} = {}
  BY <1>1, FS_EmptySet
<1> QED BY <1>2

(* At most one runner has the permit of a package. *)
LEMMA OneOwner ==
    ASSUME IInv, NEW x \in Runners, NEW y \in Runners,
           job[x].kind # "none", job[x].pkg = job[y].pkg,
           P(x) \in {"granted", "held"}, P(y) \in {"granted", "held"}
    PROVE  x = y
<1>1. PICK p \in Packages : p = job[x].pkg
  BY RunnerType DEF IInv, RunnerOK
<1>2. p \in Semaphores /\ p # Global /\ Capacity(p) = 1
  BY GlobalAssumption DEF Semaphores, Capacity
<1>3. /\ free[p] \in Nat
      /\ free[p] + Cardinality(With(p, {"granted", "held"})) = 1
  BY <1>2 DEF IInv, QueueOK, TypeOK
<1>4. Cardinality(With(p, {"granted", "held"})) <= 1
  BY <1>3, FiniteWith
<1>5. "package" \in Levels /\ Sem(x, "package") = p /\ Sem(y, "package") = p
  BY <1>1 DEF Levels, Sem
<1>6. x \in With(p, {"granted", "held"}) /\ y \in With(p, {"granted", "held"})
  BY <1>5 DEF With, P
<1> QED BY <1>4, <1>6, FiniteWith, OnlyOne

(* While a runner that returns its global permit is parked at the package, *)
(* somebody else works on the package.                                     *)
LEMMA Successor ==
    ASSUME IInv, stack # <<>>, Top.op = "release", Top.l = "global",
           NEW r, r = Top.r, P(r) = "waiting"
    PROVE  \E x \in Runners : /\ job[x].pkg = job[r].pkg /\ x # r
                              /\ HasBoth(x) /\ ~ Busy(x)
<1>1. /\ r \in Runners /\ job[r].kind # "none" /\ Busy(r)
      /\ 1 \in DOMAIN stack /\ Top = stack[1]
  BY TopFacts, StackTop DEF IInv
<1>2. PICK p \in Packages : p = job[r].pkg
  BY TopFacts
<1>3. p \in Semaphores /\ p # Global /\ Capacity(p) = 1
  BY <1>2, GlobalAssumption DEF Semaphores, Capacity
<1>4. r \in With(p, {"waiting"})
  BY <1>1, <1>2 DEF With, Sem, Levels, P
<1>5. free[p] = 0
  <2>1. Elements(queue[p]) # {}
    BY <1>3, <1>4 DEF IInv, QueueOK
  <2>2. queue[p] # <<>>
    BY <2>1 DEF Elements
  <2> QED BY <1>3, <2>2 DEF IInv, TypeOK, QueueOK
<1>6. With(p, {"granted", "held"}) # {}
  <2>1. Cardinality(With(p, {"granted", "held"})) = 1
    <3>1. free[p] + Cardinality(With(p, {"granted", "held"})) = 1
      BY <1>3 DEF IInv, QueueOK, TypeOK
    <3>2. Cardinality(With(p, {"granted", "held"})) \in Nat
      BY FiniteWith
    <3> QED BY <1>5, <3>1, <3>2
  <2> QED BY <2>1, FiniteWith, FS_EmptySet
<1>7. PICK x \in Runners : job[x].pkg = p /\ P(x) \in {"granted", "held"}
  BY <1>3, <1>6 DEF With, Sem, Levels, P
<1>8. x # r
  BY <1>7
<1>9. \A j \in DOMAIN stack : j # 1 => stack[j].op = "report"
  BY <1>1 DEF IInv, StackOK
<1>10. ~ Busy(x)
  BY <1>1, <1>8, <1>9 DEF Busy
<1>11. HasBoth(x)
  <2>1. Resting(x) /\ PairOK(x)
    BY <1>10 DEF IInv, StackOK
  <2> QED BY <1>7, <2>1 DEF Resting, PairOK, HasBoth
<1> QED BY <1>2, <1>7, <1>8, <1>10, <1>11

(* The first runner parked at a semaphore has no call under way while its  *)
(* permit is forgotten by another.                                         *)
LEMMA WaiterRests ==
    ASSUME IInv, stack # <<>>, Top.op = "release",
           NEW r, r = Top.r, NEW l \in Levels, permit[r][l] = "held",
           NEW w \in Runners, Sem(w, l) = Sem(r, l), permit[w][l] = "waiting"
    PROVE  w # r /\ ~ Busy(w) /\ Resting(w) /\ job[w].kind # "none"
<1>1. /\ r \in Runners /\ job[r].kind # "none" /\ Busy(r)
      /\ 1 \in DOMAIN stack /\ Top = stack[1]
  BY TopFacts, StackTop DEF IInv
<1>2. w # r
  OBVIOUS
<1>3. RunnerOK(w) /\ PairOK(w)
  BY DEF IInv
<1>4. job[w].kind # "none"
  BY <1>3 DEF RunnerOK, G, P, Levels
<1>5. ASSUME Busy(w) PROVE FALSE
  <2>1. PICK i \in DOMAIN stack : stack[i].r = w /\ stack[i].op # "report"
    BY <1>5 DEF Busy
  <2>2. i # 1
    BY <1>1, <1>2, <2>1
  <2>3. stack[i].op = "forgotten" /\ FrameOK(stack[i])
    BY <2>1, <2>2 DEF IInv, StackOK
  <2>4. permit[w][stack[i].l] = "forgotten" /\ stack[i].l \in Levels
    BY <2>1, <2>3, StackTop DEF FrameOK, IInv, Frame
  <2>5. l = "package" /\ stack[i].l = "global" /\ P(w) = "waiting"
    BY <1>3, <2>4 DEF PairOK, G, P, Levels
  <2>6. PICK x \in Runners : /\ job[x].pkg = job[w].pkg
                             /\ HasBoth(x) /\ ~ Busy(x)
    BY <2>1, <2>3, <2>5 DEF IInv, StackOK
  <2>7. job[w].pkg = job[r].pkg
    BY <2>5 DEF Sem
  <2>8. P(r) = "held" /\ P(x) = "held"
    BY <2>5, <2>6 DEF P, HasBoth
  <2>9. x = r
    BY <1>1, <2>6, <2>7, <2>8, OneOwner
  <2> QED BY <1>1, <2>6, <2>9
<1>6. Resting(w)
  BY <1>5 DEF IInv, StackOK
<1> QED BY <1>2, <1>4, <1>5, <1>6

(* The permit of r at level l changes to "forgotten", that of w to         *)
(* "granted".                                                              *)
HandsOver(r, w, l) ==
    \A q \in Runners, m \in Levels :
        permit'[q][m] = IF m # l THEN permit[q][m]
                        ELSE IF q = r THEN "forgotten"
                        ELSE IF q = w THEN "granted"
                        ELSE permit[q][m]

(* How the sets change when forget() hands a permit over. *)
LEMMA WithTwo ==
    ASSUME TypeOK, UNCHANGED job, NEW r \in Runners, NEW w \in Runners, w # r,
           NEW l \in Levels, HandsOver(r, w, l),
           NEW s, s = Sem(r, l), s = Sem(w, l)
    PROVE  /\ With(s, {"waiting"})' = With(s, {"waiting"}) \ {r, w}
           /\ With(s, {"granted", "held"})'
                 = (With(s, {"granted", "held"}) \ {r}) \cup {w}
           /\ \A t, S : t # s => With(t, S)' = With(t, S)
<1>1. ASSUME NEW q \in Runners, NEW m \in Levels
      PROVE  Sem(q, m)' = Sem(q, m)
  BY DEF Sem
<1>2. ASSUME NEW S, NEW t, NEW q \in Runners, q # r, q # w
      PROVE  q \in With(t, S)' <=> q \in With(t, S)
  BY <1>1, <1>2 DEF With, HandsOver
<1>3. ASSUME NEW S
      PROVE  /\ r \in With(s, S)' <=> "forgotten" \in S
             /\ w \in With(s, S)' <=> "granted" \in S
  <2>1. permit'[r][l] = "forgotten" /\ permit'[w][l] = "granted"
    BY DEF HandsOver
  <2>2. ASSUME NEW m \in Levels
        PROVE  /\ Sem(r, m)' = s <=> m = l
               /\ Sem(w, m)' = s <=> m = l
    <3>1. /\ Sem(r, m)' = Sem(r, m)
          /\ Sem(w, m)' = Sem(w, m)
      BY <1>1
    <3>2. Sem(r, m) = Sem(r, l) => m = l
      BY SemLevel
    <3>3. Sem(w, m) = Sem(w, l) => m = l
      BY SemLevel
    <3> QED BY <3>1, <3>2, <3>3
  <2> QED BY <2>1, <2>2 DEF With
<1>4. ASSUME NEW t, NEW S, t # s, NEW q \in {r, w}
      PROVE  q \in With(t, S)' <=> q \in With(t, S)
  <2>1. ASSUME NEW m \in Levels, Sem(q, m) = t
        PROVE  permit'[q][m] = permit[q][m]
    BY <1>4, <2>1 DEF HandsOver
  <2> QED BY <1>1, <2>1 DEF With
<1>5. \A t, S : With(t, S) \subseteq Runners /\ With(t, S)' \subseteq Runners
  BY DEF With
<1>6. ASSUME NEW t, NEW S, t # s PROVE With(t, S)' = With(t, S)
  BY <1>2, <1>4, <1>5, <1>6
<1>7. With(s, {"waiting"})' = With(s, {"waiting"}) \ {r, w}
  BY <1>2, <1>3, <1>5
<1>8. With(s, {"granted", "held"})'
         = (With(s, {"granted", "held"}) \ {r}) \cup {w}
  BY <1>2, <1>3, <1>5
<1> QED BY <1>6, <1>7, <1>8

(* forget() with a runner parked. *)
LEMMA HandOverInvariant ==
    ASSUME IInv, Release,
           NEW r, r = Top.r, NEW l \in Levels, l = Top.l,
           NEW s, s = Sem(r, l), queue[s] # <<>>,
           permit[r][l] = "held",
           NEW w, w = Head(queue[s]),
           queue' = [queue EXCEPT ![s] = Tail(@)],
           permit' = [permit EXCEPT ![r][l] = "forgotten",
                                    ![w][l] = "granted"],
           Continue(<<Call("granted", w, l), Call("forgotten", r, l)>>),
           UNCHANGED free
    PROVE  IInv'
<1>1. stack # <<>> /\ Top.op = "release"
  BY DEF Release, Running, Top
<1>2. r \in Runners /\ s \in Semaphores
  BY <1>1, TopFacts
<1>3. /\ RunnerOK(r) /\ PairOK(r) /\ FrameOK(Top)
      /\ job[r].kind # "none" /\ Busy(r)
      /\ G(r) \notin {"granted", "forgotten"}
      /\ P(r) \notin {"granted", "forgotten"}
      /\ G(r) = "held" => P(r) # "none" /\ l = "global"
      /\ Closing(r) /\ ~ AtWork(r)
  BY <1>1, TopFacts DEF FrameOK, IInv
<1>4. /\ QueueOK(s) /\ free[s] \in Nat /\ queue[s] \in Seq(Runners)
      /\ IsFiniteSet(With(s, {"granted", "held"}))
  BY <1>2, FiniteWith DEF IInv, TypeOK
<1>5. /\ w \in Runners /\ Tail(queue[s]) \in Seq(Runners)
      /\ Elements(queue[s]) = Elements(Tail(queue[s])) \cup {w}
      /\ Distinct(Tail(queue[s])) /\ w \notin Elements(Tail(queue[s]))
      /\ w \in With(s, {"waiting"})
  BY <1>4, TailQueue DEF QueueOK
<1>6. Sem(w, l) = s /\ permit[w][l] = "waiting"
  <2>1. PICK m \in Levels : Sem(w, m) = s /\ permit[w][m] = "waiting"
    BY <1>5 DEF With
  <2>2. m = l
    BY <1>2, <1>5, <2>1, SemLevel DEF IInv
  <2> QED BY <2>1, <2>2
<1>7. w # r /\ ~ Busy(w) /\ Resting(w) /\ job[w].kind # "none"
  BY <1>1, <1>5, <1>6, WaiterRests
<1>8. UNCHANGED <<job, state, terminated, main, child, final>>
  BY DEF Release
<1>9. /\ permit' \in [Runners -> [Levels -> Statuses]]
      /\ permit'[r][l] = "forgotten" /\ permit'[w][l] = "granted"
      /\ \A m \in Levels : m # l => /\ permit'[r][m] = permit[r][m]
                                    /\ permit'[w][m] = permit[w][m]
      /\ \A q \in Runners : q # r /\ q # w => permit'[q] = permit[q]
  <2>1. permit \in [Runners -> [Levels -> Statuses]]
    BY DEF IInv, TypeOK
  <2>2. "forgotten" \in Statuses /\ "granted" \in Statuses
    BY DEF Statuses
  <2> QED BY <1>2, <1>5, <1>7, <2>1, <2>2
<1>10. HandsOver(r, w, l)
  <2> SUFFICES ASSUME NEW q \in Runners, NEW m \in Levels
               PROVE  permit'[q][m] = IF m # l THEN permit[q][m]
                                      ELSE IF q = r THEN "forgotten"
                                      ELSE IF q = w THEN "granted"
                                      ELSE permit[q][m]
    BY DEF HandsOver
  <2>1. CASE q = r
    <3>1. m # l => permit'[r][m] = permit[r][m]
      BY <1>9
    <3>2. m = l => permit'[r][m] = "forgotten"
      BY <1>9
    <3> QED BY <2>1, <3>1, <3>2
  <2>2. CASE q = w
    <3>1. m # l => permit'[w][m] = permit[w][m]
      BY <1>9
    <3>2. m = l => permit'[w][m] = "granted"
      BY <1>9
    <3> QED BY <1>7, <2>2, <3>1, <3>2
  <2>3. CASE q # r /\ q # w
    BY <1>9, <2>3
  <2> QED BY <2>1, <2>2, <2>3
<1>11. RunnerOK(w) /\ PairOK(w) /\ ~ HasBoth(w) /\ ~ AtWork(w)
  <2>1. RunnerOK(w) /\ PairOK(w)
    BY <1>5 DEF IInv
  <2>2. ~ HasBoth(w)
    BY <1>6 DEF HasBoth, G, P, Levels
  <2> QED BY <2>1, <2>2 DEF RunnerOK
<1>12. PairOK(r)' /\ RunnerOK(r)'
  <2>1. CASE l = "global"
    <3>1. /\ G(r) = "held" /\ P(r) \in {"waiting", "held"}
          /\ G(r)' = "forgotten" /\ P(r)' = P(r)
      BY <1>2, <1>3, <1>9, <2>1, RunnerType DEF G, P, Levels, IInv, Statuses
    <3> QED BY <1>3, <1>8, <3>1
        DEF PairOK, RunnerOK, HasBoth, AtWork, ChildAlive, Closing, IsInstall
  <2>2. CASE l = "package"
    <3>1. G(r) = "none" /\ G(r)' = "none" /\ P(r) = "held"
      BY <1>3, <1>9, <2>2 DEF PairOK, G, P, Levels
    <3> QED BY <1>3, <1>8, <3>1
        DEF PairOK, RunnerOK, HasBoth, AtWork, ChildAlive, Closing, IsInstall
  <2> QED BY <2>1, <2>2 DEF Levels
<1>13. PairOK(w)' /\ RunnerOK(w)' /\ ~ HasBoth(w)'
  <2>1. CASE l = "global"
    <3>1. /\ G(w) = "waiting" /\ G(w)' = "granted"
          /\ P(w) = "none" /\ P(w)' = "none"
      BY <1>6, <1>9, <1>11, <2>1 DEF PairOK, G, P, Levels
    <3> QED BY <1>7, <1>8, <1>11, <3>1
        DEF PairOK, RunnerOK, HasBoth, AtWork, ChildAlive, Closing, IsInstall
  <2>2. CASE l = "package"
    <3>1. /\ G(w) \in {"none", "held"} /\ G(w)' = G(w)
          /\ P(w) = "waiting" /\ P(w)' = "granted"
      BY <1>6, <1>7, <1>9, <1>11, <2>2 DEF PairOK, Resting, G, P, Levels
    <3> QED BY <1>7, <1>8, <1>11, <3>1
        DEF PairOK, RunnerOK, HasBoth, AtWork, ChildAlive, Closing, IsInstall
  <2> QED BY <2>1, <2>2 DEF Levels
<1>14. ASSUME NEW q \in Runners, q # r, q # w PROVE RunnerOK(q)' /\ PairOK(q)'
  BY <1>8, <1>9, <1>14, RunnerFrame DEF IInv
<1> DEFINE fs == <<Call("granted", w, l), Call("forgotten", r, l)>>
<1>15. /\ fs \in Seq(Frame) /\ DOMAIN fs = {1, 2} /\ Continue(fs)
       /\ fs[1].op = "granted" /\ fs[1].r = w /\ fs[1].l = l
       /\ fs[2].op = "forgotten" /\ fs[2].r = r /\ fs[2].l = l
  BY <1>2, <1>5 DEF Call, Frame, Ops
<1> HIDE DEF fs
<1>16. Untouched({r, w})
  BY <1>8, <1>9 DEF Untouched, Closing, AtWork, ChildAlive
<1>17. Touched(fs, {r, w})
  <2>1. \A i \in DOMAIN stack :
           i # 1 /\ stack[i].op # "report" => stack[i].r \notin {r, w}
    BY <1>1, <1>7, TopFacts DEF Busy
  <2> QED BY <1>3, <1>11, <1>15, <2>1 DEF Touched
<1>18. Pushed(fs, {r, w})
  <2>1. FrameOK(fs[1])' /\ FrameOK(fs[2])'
    BY <1>3, <1>7, <1>8, <1>9, <1>15
       DEF FrameOK, Closing, AtWork, ChildAlive
  <2>2. ASSUME l = "global", permit'[r]["package"] = "waiting"
        PROVE  \E x \in Runners \ {r, w} : /\ job[x].pkg = job[r].pkg
                                           /\ HasBoth(x) /\ ~ Busy(x)
    <3>1. P(r) = "waiting"
      BY <1>9, <2>2 DEF P, Levels
    <3> QED BY <1>1, <1>11, <2>2, <3>1, Successor
  <2> QED BY <1>7, <1>15, <2>1, <2>2 DEF Pushed
<1>19. StackOK' /\ stack' \in Seq(Frame)
  BY <1>1, <1>2, <1>5, <1>15, <1>16, <1>17, <1>18, StackStep DEF IInv
<1>20. /\ queue'[s] = Tail(queue[s])
       /\ \A t \in Semaphores : t # s => queue'[t] = queue[t]
       /\ queue' \in [Semaphores -> Seq(Runners)]
  BY <1>2, <1>5 DEF IInv, TypeOK
<1>21. TypeOK'
  BY <1>9, <1>19, <1>20 DEF IInv, TypeOK, Release
<1>22. /\ With(s, {"waiting"})' = With(s, {"waiting"}) \ {r, w}
       /\ With(s, {"granted", "held"})'
             = (With(s, {"granted", "held"}) \ {r}) \cup {w}
       /\ \A t, S : t # s => With(t, S)' = With(t, S)
  BY <1>2, <1>5, <1>6, <1>7, <1>8, <1>10, WithTwo DEF IInv
<1>23. /\ r \notin With(s, {"waiting"}) /\ r \in With(s, {"granted", "held"})
       /\ w \notin With(s, {"granted", "held"})
  <2>1. /\ permit[r][l] \notin {"waiting"}
        /\ permit[r][l] \in {"granted", "held"}
        /\ permit[w][l] \notin {"granted", "held"}
    BY <1>6
  <2> QED BY <1>2, <1>5, <1>6, <2>1, InWith DEF IInv
<1>24. ASSUME NEW t \in Semaphores, t # s PROVE QueueOK(t)'
  BY <1>20, <1>22, <1>24 DEF IInv, QueueOK, Elements, Distinct, Capacity
<1>25. QueueOK(s)'
  <2>1. Cardinality(With(s, {"granted", "held"})')
           = Cardinality(With(s, {"granted", "held"}))
    <3> DEFINE A == With(s, {"granted", "held"})
               B == A \ {r}
    <3>1. IsFiniteSet(A) /\ Cardinality(A) \in Nat /\ r \in A /\ w \notin A
      BY <1>23, FiniteWith
    <3> HIDE DEF A
    <3>2. IsFiniteSet(B) /\ Cardinality(B) = Cardinality(A) - 1
      BY <3>1, FS_RemoveElement
    <3>3. w \notin B
      BY <3>1
    <3> HIDE DEF B
    <3>4. Cardinality(B \cup {w}) = Cardinality(B) + 1
      BY <3>2, <3>3, FS_AddElement
    <3>5. Cardinality(B \cup {w}) = Cardinality(A)
      BY <3>1, <3>2, <3>4
    <3> QED BY <1>22, <3>5 DEF A, B
  <2>2. Elements(queue'[s]) = With(s, {"waiting"})'
    <3>1. Elements(queue[s]) = With(s, {"waiting"})
      BY <1>4 DEF QueueOK
    <3>2. With(s, {"waiting"}) \ {r, w} = Elements(Tail(queue[s]))
      BY <1>5, <1>23, <3>1
    <3> QED BY <1>20, <1>22, <3>2
  <2>3. free'[s] = 0
    BY <1>4 DEF QueueOK
  <2> QED BY <1>4, <1>5, <1>20, <2>1, <2>2, <2>3
          DEF QueueOK, Elements, Distinct, Capacity
<1> QED BY <1>12, <1>13, <1>14, <1>19, <1>21, <1>24, <1>25 DEF IInv

(* forget() with nobody parked: the permit goes back to the semaphore. *)
LEMMA GiveBackInvariant ==
    ASSUME IInv, Release,
           NEW r, r = Top.r, NEW l \in Levels, l = Top.l,
           NEW s, s = Sem(r, l), queue[s] = <<>>,
           permit[r][l] = "held",
           free' = [free EXCEPT ![s] = @ + 1],
           permit' = [permit EXCEPT ![r][l] = "forgotten"],
           Continue(<<Call("forgotten", r, l)>>),
           UNCHANGED queue
    PROVE  IInv'
<1>1. stack # <<>> /\ Top.op = "release"
  BY DEF Release, Running, Top
<1>2. r \in Runners /\ s \in Semaphores
  BY <1>1, TopFacts
<1>3. /\ RunnerOK(r) /\ PairOK(r)
      /\ job[r].kind # "none"
      /\ P(r) \in Statuses
      /\ G(r) \notin {"granted", "forgotten"}
      /\ P(r) \notin {"granted", "forgotten"}
      /\ G(r) = "held" => P(r) # "none" /\ l = "global"
      /\ Closing(r) /\ ~ AtWork(r)
  <2>1. P(r) \in Statuses
    BY <1>2, RunnerType DEF IInv, P, Levels
  <2> QED BY <1>1, <2>1, TopFacts DEF FrameOK, IInv
<1>4. UNCHANGED <<job, state, terminated, main, child, final>>
  BY DEF Release
<1>5. /\ permit' \in [Runners -> [Levels -> Statuses]]
      /\ permit'[r][l] = "forgotten"
      /\ \A m \in Levels : m # l => permit'[r][m] = permit[r][m]
      /\ \A q \in Runners : q # r => permit'[q] = permit[q]
  BY <1>2 DEF IInv, TypeOK, Statuses
<1>6. OnlyPermit(r, l, "forgotten")
  BY <1>5 DEF OnlyPermit
<1>7. PairOK(r)' /\ RunnerOK(r)'
  <2>1. CASE l = "global"
    <3>1. /\ G(r) = "held" /\ P(r) \in {"waiting", "held"}
          /\ G(r)' = "forgotten" /\ P(r)' = P(r)
      BY <1>3, <1>5, <2>1 DEF G, P, Levels, Statuses
    <3> QED BY <1>3, <1>4, <3>1
        DEF PairOK, RunnerOK, HasBoth, AtWork, ChildAlive, Closing, IsInstall
  <2>2. CASE l = "package"
    <3>1. G(r) = "none" /\ G(r)' = "none" /\ P(r) = "held"
      BY <1>3, <1>5, <2>2 DEF PairOK, G, P, Levels
    <3> QED BY <1>3, <1>4, <3>1
        DEF PairOK, RunnerOK, HasBoth, AtWork, ChildAlive, Closing, IsInstall
  <2> QED BY <2>1, <2>2 DEF Levels
<1>8. ASSUME NEW q \in Runners, q # r PROVE RunnerOK(q)' /\ PairOK(q)'
  BY <1>4, <1>5, <1>8, RunnerFrame DEF IInv
<1>9. Untouched({r}) /\ Closing(r)' /\ ~ AtWork(r)'
  BY <1>3, <1>4, <1>5 DEF Untouched, Closing, AtWork, ChildAlive
<1> DEFINE f == Call("forgotten", r, l)
<1>10. /\ f \in Frame /\ Continue(<<f>>)
       /\ f.r = r /\ f.l = l /\ f.op = "forgotten"
  BY <1>2 DEF Call, Frame, Ops
<1> HIDE DEF f
<1>11. FrameOK(f)'
  BY <1>3, <1>4, <1>5, <1>9, <1>10 DEF FrameOK, Closing, AtWork, ChildAlive
<1>12. ASSUME l = "global", P(r)' = "waiting"
       PROVE  \E x \in Runners \ {r} : /\ job[x].pkg = job[r].pkg
                                       /\ HasBoth(x) /\ ~ Busy(x)
  <2>1. P(r) = "waiting"
    BY <1>5, <1>12 DEF P, Levels
  <2> QED BY <1>1, <1>12, <2>1, Successor
<1>13. StackOK' /\ stack' \in Seq(Frame)
  BY <1>1, <1>9, <1>10, <1>11, <1>12, StackReplace
<1>14. /\ QueueOK(s) /\ free[s] \in Nat
       /\ IsFiniteSet(With(s, {"granted", "held"}))
       /\ Cardinality(With(s, {"granted", "held"})) \in Nat
  BY <1>2, FiniteWith DEF IInv, TypeOK
<1>15. /\ free' \in [Semaphores -> Nat] /\ free'[s] = free[s] + 1
       /\ \A t \in Semaphores : t # s => free'[t] = free[t]
  BY <1>2, <1>14 DEF IInv, TypeOK
<1>16. TypeOK'
  BY <1>5, <1>13, <1>15 DEF IInv, TypeOK, Release
<1>17. /\ With(s, {"waiting"})' = With(s, {"waiting"}) \ {r}
       /\ With(s, {"granted", "held"})' = With(s, {"granted", "held"}) \ {r}
       /\ \A t, S : t # s => With(t, S)' = With(t, S)
  BY <1>2, <1>4, <1>6, WithOne DEF IInv
<1>18. /\ r \notin With(s, {"waiting"})
       /\ r \in With(s, {"granted", "held"})
  BY <1>2, InWith DEF IInv
<1>19. ASSUME NEW t \in Semaphores, t # s PROVE QueueOK(t)'
  BY <1>15, <1>17, <1>19 DEF IInv, QueueOK, Elements, Distinct, Capacity
<1>20. QueueOK(s)'
  <2>1. Cardinality(With(s, {"granted", "held"})')
           = Cardinality(With(s, {"granted", "held"})) - 1
    BY <1>14, <1>17, <1>18, FS_RemoveElement
  <2>2. With(s, {"waiting"})' = With(s, {"waiting"})
    <3>1. With(s, {"waiting"}) \ {r} = With(s, {"waiting"})
      BY <1>18
    <3> QED BY <1>17, <3>1
  <2> QED BY <1>14, <1>15, <2>1, <2>2
          DEF QueueOK, Elements, Distinct, Capacity
<1> QED BY <1>7, <1>8, <1>13, <1>16, <1>19, <1>20 DEF IInv

(* The field of the permit is nil: release_permit() goes on. *)
LEMMA NothingToReleaseInvariant ==
    ASSUME IInv, Release,
           NEW r, r = Top.r, NEW l \in Levels, l = Top.l,
           permit[r][l] # "held",
           Continue(IF l = "global"
                    THEN <<Call("release", r, "package")>> ELSE <<>>),
           UNCHANGED semVars
    PROVE  IInv'
<1>1. stack # <<>> /\ Top.op = "release"
  BY DEF Release, Running, Top
<1>2. r \in Runners /\ job[r].kind # "none" /\ FrameOK(Top)
  BY <1>1, TopFacts
<1>3. /\ PairOK(r) /\ P(r) \in Statuses
      /\ G(r) \notin {"granted", "forgotten"}
      /\ P(r) \notin {"granted", "forgotten"}
      /\ G(r) = "held" => P(r) # "none" /\ l = "global"
      /\ Closing(r) /\ ~ AtWork(r)
  <2>1. P(r) \in Statuses
    BY <1>2, RunnerType DEF IInv, P, Levels
  <2> QED BY <1>1, <1>2, <2>1 DEF FrameOK, IInv
<1>4. UNCHANGED <<job, state, terminated, main, child, final, permit, free,
                  queue>>
  BY DEF Release
<1>5. \A q \in Runners : RunnerOK(q)' /\ PairOK(q)'
  BY <1>4, RunnerFrame DEF IInv
<1>6. Untouched({r}) /\ Closing(r)' /\ ~ AtWork(r)'
  BY <1>3, <1>4 DEF Untouched, Closing, AtWork, ChildAlive
<1>7. StackOK' /\ stack' \in Seq(Frame)
  <2>1. CASE l = "package"
    <3>1. Continue(<<>>)
      BY <2>1
    <3>2. P(r) \in {"none", "waiting"}
      BY <1>3, <2>1 DEF P, Statuses
    <3>3. G(r) \in {"none", "waiting"}
      BY <1>3, <2>1, <3>2 DEF PairOK
    <3>4. Resting(r)'
      BY <1>4, <3>2, <3>3 DEF Resting, G, P
    <3> QED BY <1>1, <1>6, <3>1, <3>4, StackPop
  <2>2. CASE l = "global"
    <3> DEFINE f == Call("release", r, "package")
    <3>1. /\ f \in Frame /\ Continue(<<f>>) /\ f.r = r
          /\ f.op = "release" /\ f.l = "package"
      BY <1>2, <2>2 DEF Call, Frame, Ops, Levels
    <3> HIDE DEF f
    <3>2. FrameOK(f)'
      <4>1. G(r) # "held"
        BY <2>2 DEF G
      <4>2. G(r)' = G(r) /\ P(r)' = P(r)
        BY <1>4 DEF G, P
      <4> QED BY <1>2, <1>3, <1>4, <1>6, <3>1, <4>1, <4>2
              DEF FrameOK, Closing, AtWork, ChildAlive
    <3> QED BY <1>1, <1>6, <3>1, <3>2, StackReplace
  <2> QED BY <2>1, <2>2 DEF Levels
<1>8. TypeOK'
  BY <1>7 DEF IInv, TypeOK, Release
<1> QED BY <1>4, <1>5, <1>7, <1>8, QueuesFrame DEF IInv

(* release_permit(), for one of the permits. *)
LEMMA ReleaseInvariant == ASSUME IInv, Release PROVE IInv'
<1>1. stack # <<>> /\ Top.op = "release"
  BY DEF Release, Running, Top
<1>2. PICK r \in Runners, l \in Levels : r = Top.r /\ l = Top.l
  BY <1>1, TopFacts
<1>3. PICK s \in Semaphores : s = Sem(r, l)
  BY <1>1, <1>2, TopFacts
<1>4. permit[r][l] # "forgotten"
  BY <1>1, <1>2, TopFacts DEF FrameOK, G, P, Levels
<1>5. CASE permit[r][l] = "held" /\ queue[s] # <<>>
  <2>1. PICK w : w = Head(queue[s])
    OBVIOUS
  <2>2. /\ queue' = [queue EXCEPT ![s] = Tail(@)]
        /\ permit' = [permit EXCEPT ![r][l] = "forgotten",
                                    ![w][l] = "granted"]
        /\ Continue(<<Call("granted", w, l), Call("forgotten", r, l)>>)
        /\ UNCHANGED free
    BY <1>2, <1>3, <1>5, <2>1 DEF Release
  <2> QED BY <1>2, <1>3, <1>5, <2>1, <2>2, HandOverInvariant
<1>6. CASE permit[r][l] = "held" /\ queue[s] = <<>>
  <2>1. /\ free' = [free EXCEPT ![s] = @ + 1]
        /\ permit' = [permit EXCEPT ![r][l] = "forgotten"]
        /\ Continue(<<Call("forgotten", r, l)>>)
        /\ UNCHANGED queue
    BY <1>2, <1>3, <1>6 DEF Release, SetPermit
  <2> QED BY <1>2, <1>3, <1>6, <2>1, GiveBackInvariant
<1>7. CASE permit[r][l] # "held"
  <2>1. /\ Continue(IF l = "global"
                    THEN <<Call("release", r, "package")>> ELSE <<>>)
        /\ UNCHANGED semVars
    BY <1>2, <1>3, <1>4, <1>7 DEF Release
  <2> QED BY <1>2, <1>7, <2>1, NothingToReleaseInvariant
<1> QED BY <1>5, <1>6, <1>7

-----------------------------------------------------------------------------
(* Neovim starts with every semaphore full and nothing under way. *)
LEMMA InitInvariant == Init => IInv
<1> SUFFICES ASSUME Init PROVE IInv
  OBVIOUS
<1>1. /\ stack = <<>> /\ DOMAIN stack = {}
      /\ \A s \in Semaphores : Capacity(s) \in Nat
  BY MaxConcurrentAssumption DEF Init, Capacity
<1>2. TypeOK
  <2>1. job \in [Runners -> [kind : {"none", "install", "uninstall"},
                             pkg : Packages \cup {NoPackage},
                             debug : BOOLEAN]]
    BY DEF Init
  <2>2. /\ state \in [Runners -> HandleStates]
        /\ main \in [Runners -> MainStates]
        /\ terminated \in [Runners -> BOOLEAN]
        /\ cwd \in [Runners -> {"none", "staging", "package"}]
        /\ child \in [Runners -> {"none", "running", "killed", "exited"}]
        /\ reports \in [Runners -> Nat]
    BY DEF Init, HandleStates, MainStates
  <2>3. final \in [Runners -> [Finalizers -> FinalStates]]
    BY DEF Init, FinalStates
  <2>4. permit \in [Runners -> [Levels -> Statuses]]
    BY DEF Init, Statuses
  <2>5. /\ free \in [Semaphores -> Nat]
        /\ queue \in [Semaphores -> Seq(Runners)]
    BY <1>1 DEF Init
  <2>6. installed \in SUBSET Packages /\ exiting \in BOOLEAN
    BY DEF Init
  <2>7. stack \in Seq(Frame)
    BY <1>1
  <2> QED BY <2>1, <2>2, <2>3, <2>4, <2>5, <2>6, <2>7 DEF TypeOK
<1>3. ASSUME NEW r \in Runners PROVE RunnerOK(r) /\ PairOK(r) /\ Resting(r)
  BY DEF Init, RunnerOK, PairOK, Resting, G, P, HasBoth, AtWork, ChildAlive,
         Closing, IsInstall, Levels
<1>4. StackOK
  BY <1>1, <1>3 DEF StackOK
<1>5. ASSUME NEW s \in Semaphores PROVE QueueOK(s)
  <2>1. With(s, {"waiting"}) = {} /\ With(s, {"granted", "held"}) = {}
    BY DEF Init, With
  <2>2. queue[s] = <<>> /\ DOMAIN queue[s] = {} /\ free[s] = Capacity(s)
    BY <1>5 DEF Init
  <2>3. free[s] + Cardinality(With(s, {"granted", "held"})) = Capacity(s)
    <3>1. Cardinality(With(s, {"granted", "held"})) = 0
      BY <2>1, FS_EmptySet
    <3>2. Capacity(s) \in Nat
      BY <1>1
    <3> QED BY <2>2, <3>1, <3>2
  <2> QED BY <2>1, <2>2, <2>3 DEF QueueOK, Elements, Distinct
<1> QED BY <1>2, <1>3, <1>4, <1>5 DEF IInv

(* Every step keeps the invariant. *)
LEMMA NextInvariant == IInv /\ [Next]_vars => IInv'
<1> SUFFICES ASSUME IInv, [Next]_vars PROVE IInv'
  OBVIOUS
<1>1. CASE Step
  BY <1>1, AcquireInvariant, GrantedInvariant, ReleaseInvariant,
     ForgottenInvariant, ReportInvariant DEF Step
<1>2. ASSUME NEW r \in Runners, RunnerEvent(r) PROVE IInv'
  BY <1>2, LockTakenInvariant, PromoteInvariant, MainEndsInvariant,
     RemovedInvariant, CheckCloseInvariant, PreparedInvariant,
     UnlockedInvariant DEF RunnerEvent
<1>3. ASSUME NEW r \in Runners, Terminate(r) PROVE IInv'
  <2>1. exiting' \in BOOLEAN
    BY <1>3 DEF Terminate, IInv, TypeOK
  <2> QED BY <1>3, <2>1, TerminateAllInvariant DEF Terminate
<1>4. ASSUME NEW r \in Runners, UserEvent(r) PROVE IInv'
  BY <1>3, <1>4, InstallInvariant, InitializeFailsInvariant,
     UninstallInvariant DEF UserEvent
<1>5. ASSUME NEW r \in Runners, Spawn(r) \/ ChildExits(r) \/ GraceOver(r)
      PROVE  IInv'
  BY <1>5, SpawnInvariant, ChildExitsInvariant, GraceOverInvariant
<1>6. CASE Exit
  <2>1. PICK R \in SUBSET Runners : R = {r \in Runners : Open(r)}
    OBVIOUS
  <2>2. exiting' \in BOOLEAN
    BY <1>6 DEF Exit
  <2> QED BY <1>6, <2>1, <2>2, TerminateAllInvariant DEF Exit
<1>7. CASE UNCHANGED vars
  <2>1. UNCHANGED <<job, semVars, stack, state, terminated, main, child,
                    final>>
    BY <1>7 DEF vars
  <2>2. TypeOK'
    BY <1>7 DEF vars, IInv, TypeOK
  <2>3. \A r \in Runners : RunnerOK(r)' /\ PairOK(r)'
    BY <2>1, RunnerFrame DEF IInv
  <2>4. StackOK'
    BY <2>1 DEF IInv, StackOK, FrameOK, Busy, Resting, HasBoth, G, P,
                Closing, AtWork, ChildAlive
  <2> QED BY <2>1, <2>2, <2>3, <2>4, QueuesFrame DEF IInv
<1> QED BY <1>1, <1>2, <1>4, <1>5, <1>6, <1>7 DEF Next

(* The inductive invariant holds in every state the installer reaches, for *)
(* any number of requests, packages and permits.                           *)
THEOREM Invariant == Spec => []IInv
BY InitInvariant, NextInvariant, PTL DEF Spec

(* The fields of handles, runners and semaphores keep their types: in      *)
(* particular no count of permits becomes negative.                        *)
THEOREM TypeCorrect == Spec => []TypeOK
<1>1. IInv => TypeOK
  BY DEF IInv
<1> QED BY <1>1, Invariant, PTL

(* The owners of a permit are the runners of the count in QueueOK. *)
LEMMA OwnersWith == \A s : Owners(s) = With(s, {"granted", "held"})
BY DEF Owners, With

(* Semaphore:acquire(), Permit:forget() and release_permit() neither make  *)
(* nor lose a permit, in whatever order they nest.                         *)
THEOREM PermitsAreConserved == Spec => []PermitsConserved
<1>1. IInv => PermitsConserved
  BY OwnersWith DEF IInv, QueueOK, PermitsConserved
<1> QED BY <1>1, Invariant, PTL

(* Who works has both permits. *)
LEMMA AtWorkOwns ==
    ASSUME IInv, NEW r \in Runners, AtWork(r)
    PROVE  HasBoth(r) /\ job[r].kind # "none"
<1>1. RunnerOK(r) /\ HasBoth(r)
  BY DEF IInv, RunnerOK
<1> QED BY <1>1 DEF RunnerOK, HasBoth

(* settings.max_concurrent_installers is respected:                        *)
(* AbstractPackage.SEMAPHORE bounds the runners at work, cancelled ones    *)
(* whose process is not gone included.                                     *)
THEOREM LimitIsRespected == Spec => []LimitRespected
<1>1. ASSUME IInv PROVE LimitRespected
  <2> DEFINE A == {r \in Runners : AtWork(r)}
             H == With(Global, {"granted", "held"})
  <2>1. A \in SUBSET H
    BY <1>1, AtWorkOwns DEF With, Sem, Levels, HasBoth, G
  <2>2. /\ free[Global] \in Nat
        /\ free[Global] + Cardinality(H) = MaxConcurrent
    BY <1>1 DEF IInv, TypeOK, QueueOK, Semaphores, Capacity
  <2>3. IsFiniteSet(H) /\ Cardinality(H) \in Nat
    BY FiniteWith
  <2>4. Cardinality(A) \in Nat /\ Cardinality(A) <= Cardinality(H)
    BY <2>1, <2>3, FS_Subset, FS_CardinalityType
  <2>5. Cardinality(A) <= MaxConcurrent
    <3> HIDE DEF A, H
    <3> QED BY <2>2, <2>3, <2>4, MaxConcurrentAssumption
  <2> QED BY <2>5 DEF LimitRespected
<1> QED BY <1>1, Invariant, PTL

(* The semaphore of a package keeps two installations, two removals, or    *)
(* one of each from working on it at once.                                 *)
THEOREM OnlyOneAtWorkPerPackage == Spec => []OneAtWorkPerPackage
<1>1. ASSUME IInv PROVE OneAtWorkPerPackage
  <2>1. ASSUME NEW r \in Runners, NEW q \in Runners, AtWork(r), AtWork(q),
               job[r].pkg = job[q].pkg
        PROVE  r = q
    <3>1. job[r].kind # "none" /\ P(r) = "held" /\ P(q) = "held"
      BY <1>1, <2>1, AtWorkOwns DEF HasBoth
    <3> QED BY <1>1, <2>1, <3>1, OneOwner
  <2> QED BY <2>1 DEF OneAtWorkPerPackage
<1> QED BY <1>1, Invariant, PTL

(* The assertion of InstallHandle:close() never fails: no process is left  *)
(* when the handle closes.                                                 *)
THEOREM NoProcessIsOpen == Spec => []NoOpenProcess
<1>1. IInv => NoOpenProcess
  BY DEF IInv, RunnerOK, NoOpenProcess
<1> QED BY <1>1, Invariant, PTL

(* A step leaves a cancelled runner where it is, or closes it. *)
LEMMA CancelledStep ==
    ASSUME IInv, [Next]_vars, NEW r \in Runners, terminated[r]
    PROVE  /\ state'[r] \in {state[r], "CLOSED"}
           /\ main'[r] \in {main[r], "done"}
<1>1. /\ RunnerOK(r) /\ Closing(r)
      /\ DOMAIN state = Runners /\ DOMAIN main = Runners
  BY DEF IInv, TypeOK, Closing
<1>2. CASE Acquire \/ Release \/ Forgotten \/ Report \/ UNCHANGED vars
  BY <1>2 DEF Acquire, Release, Forgotten, Report, vars
<1>3. CASE Granted
  <2>1. \/ UNCHANGED <<state, main>>
        \/ \E q : /\ ~ Closing(q)
                  /\ state' = [state EXCEPT ![q] = "ACTIVE"]
                  /\ main' = [main EXCEPT
                                 ![q] = IF IsInstall(q) THEN "locking"
                                                        ELSE "removing"]
    BY <1>3 DEF Granted
  <2> QED BY <1>1, <2>1
<1>4. ASSUME NEW q \in Runners, RunnerEvent(q)
      PROVE  /\ state'[r] \in {state[r], "CLOSED"}
             /\ main'[r] \in {main[r], "done"}
  <2>1. CASE LockTaken(q) \/ Promote(q)
    <3>1. UNCHANGED state
      BY <2>1 DEF LockTaken, Promote
    <3>2. main[q] \in {"locking", "installing"}
      BY <2>1 DEF LockTaken, Promote
    <3>3. \E m : main' = [main EXCEPT ![q] = m]
      BY <2>1 DEF LockTaken, Promote
    <3>4. q # r
      <4>1. job[r].kind \in {"none", "install", "uninstall"}
        BY RunnerType DEF IInv
      <4> QED BY <1>1, <3>2, <4>1 DEF RunnerOK, IsInstall
    <3> QED BY <1>1, <3>1, <3>3, <3>4
  <2>2. CASE MainEnds(q) \/ Removed(q) \/ CheckClose(q)
             \/ \E a \in Finalizers :
                   LogWritten(q, a) \/ Swept(q, a) \/ Unlocked(q, a)
    <3>1. \/ UNCHANGED state
          \/ state' = [state EXCEPT ![q] = "CLOSED"]
      BY <2>2 DEF MainEnds, Removed, CheckClose, LogWritten, Swept,
                  Unlocked, FinalizeOwn, CloseUnlessClosing
    <3>2. \/ UNCHANGED main
          \/ main' = [main EXCEPT ![q] = "done"]
      BY <2>2 DEF MainEnds, Removed, CheckClose, LogWritten, Swept, Unlocked
    <3> QED BY <1>1, <3>1, <3>2
  <2> QED BY <1>4, <2>1, <2>2 DEF RunnerEvent
<1>5. ASSUME NEW q \in Runners, UserEvent(q)
      PROVE  /\ state'[r] \in {state[r], "CLOSED"}
             /\ main'[r] \in {main[r], "done"}
  <2>1. CASE Terminate(q)
    <3>1. UNCHANGED state /\ TerminateAll({q})
      BY <2>1 DEF Terminate
    <3>2. CASE q # r
      BY <3>1, <3>2 DEF TerminateAll
    <3>3. CASE q = r
      BY <2>1, <3>3 DEF Terminate
    <3> QED BY <3>2, <3>3
  <2>2. CASE \/ \E p \in Packages, d \in DebugOptions :
                    Install(q, p, d) \/ InitializeFails(q, p, d)
             \/ \E p \in Packages : Uninstall(q, p)
    <3>1. /\ job[q].kind = "none"
          /\ \E h : state' = [state EXCEPT ![q] = h]
          /\ \E m : main' = [main EXCEPT ![q] = m]
      BY <2>2 DEF Install, CanInstall, InitializeFails, Uninstall, Request
    <3>2. q # r
      BY <1>1, <3>1 DEF RunnerOK
    <3> QED BY <1>1, <3>1, <3>2
  <2> QED BY <1>5, <2>1, <2>2 DEF UserEvent
<1>6. ASSUME NEW q \in Runners, Spawn(q) \/ ChildExits(q) \/ GraceOver(q)
      PROVE  UNCHANGED <<state, main>>
  BY <1>6 DEF Spawn, ChildExits, GraceOver
<1>7. CASE Exit
  <2>1. /\ UNCHANGED state
        /\ main'[r] = IF Open(r) /\ IsInstall(r) /\ main[r] # "done"
                      THEN "cancelled" ELSE main[r]
    BY <1>7 DEF Exit, TerminateAll
  <2>2. IsInstall(r) => main[r] \in {"cancelled", "done"}
    BY <1>1 DEF RunnerOK
  <2> QED BY <2>1, <2>2
<1> QED BY <1>2, <1>3, <1>4, <1>5, <1>6, <1>7 DEF Next, Step

(* acquire_permit() never activates a handle that was terminated while it  *)
(* was queued, nor does its main coroutine go on.                          *)
THEOREM CancelledIsNotStarted == Spec => CancelledStaysCancelled
<1>1. IInv /\ [Next]_vars =>
         [\A r \in Runners :
             terminated[r] => /\ state'[r] \in {state[r], "CLOSED"}
                              /\ main'[r] \in {main[r], "done"}]_vars
  <2> SUFFICES ASSUME IInv, [Next]_vars
               PROVE  \A r \in Runners : terminated[r] =>
                         /\ state'[r] \in {state[r], "CLOSED"}
                         /\ main'[r] \in {main[r], "done"}
    OBVIOUS
  <2>1. ASSUME NEW r \in Runners, terminated[r]
        PROVE  /\ state'[r] \in {state[r], "CLOSED"}
               /\ main'[r] \in {main[r], "done"}
    BY <2>1, CancelledStep
  <2> QED BY <2>1
<1> QED BY <1>1, Invariant, PTL DEF Spec, CancelledStaysCancelled
=============================================================================

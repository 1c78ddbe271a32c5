----------------------- MODULE MasonInstallerPromises -----------------------
(***************************************************************************)
(* What the installer promises beyond its count of permits: its semaphores *)
(* implement module Semaphore, each request is answered just as often as   *)
(* its cancellation says, and no slot is lost.                             *)
(*                                                                         *)
(* acquire_permit() and release_permit() are several steps each, and run   *)
(* inside each other; still every step of the installer is, for each       *)
(* semaphore, one acquire(), one forget() or nothing (NextSimulated).      *)
(* AnswersInv adds to the inductive invariant who still has to call the    *)
(* callback of a request, and who still has to give its permits back.      *)
(***************************************************************************)
EXTENDS MasonInstaller_proofs

(* acquire() and forget() of Semaphore, for semaphore s of the installer. *)
TakesOrParks(s, c) ==
    /\ c \notin Owners(s) \cup Elements(queue[s])
    /\ \/ /\ free[s] > 0
          /\ free'[s] = free[s] - 1
          /\ Owners(s)' = Owners(s) \cup {c}
          /\ queue'[s] = queue[s]
       \/ /\ ~ (free[s] > 0)
          /\ queue'[s] = Append(queue[s], c)
          /\ free'[s] = free[s] /\ Owners(s)' = Owners(s)

GivesBack(s, c) ==
    /\ c \in Owners(s)
    /\ \/ /\ queue[s] # <<>>
          /\ free'[s] = free[s]
          /\ Owners(s)' = (Owners(s) \ {c}) \cup {Head(queue[s])}
          /\ queue'[s] = Tail(queue[s])
       \/ /\ queue[s] = <<>>
          /\ free'[s] = free[s] + 1
          /\ Owners(s)' = Owners(s) \ {c}
          /\ queue'[s] = queue[s]

Stays(s) ==
    /\ free'[s] = free[s] /\ queue'[s] = queue[s]
    /\ Owners(s)' = Owners(s)

Simulated(s) ==
    Stays(s) \/ \E c \in Runners : TakesOrParks(s, c) \/ GivesBack(s, c)

-----------------------------------------------------------------------------
USE DEF semVars, jobVars, handleVars

(* A step that leaves all permits alone. *)
LEMMA StaysFrame ==
    ASSUME UNCHANGED <<job, permit, free, queue>>, NEW s
    PROVE  Stays(s)
BY DEF Stays, Owners, Sem

(* A step that changes one permit without taking or returning it. *)
LEMMA StaysOwner ==
    ASSUME TypeOK, UNCHANGED <<job, free, queue>>,
           NEW r \in Runners, NEW l \in Levels, NEW v, OnlyPermit(r, l, v),
           permit[r][l] \in {"granted", "held"} <=> v \in {"granted", "held"},
           NEW s \in Semaphores
    PROVE  Stays(s)
<1>1. With(s, {"granted", "held"})' = With(s, {"granted", "held"})
  <2>1. CASE s = Sem(r, l)
    <3>1. r \in With(s, {"granted", "held"}) <=> v \in {"granted", "held"}
      BY <2>1, InWith
    <3>2. With(s, {"granted", "held"})' =
             IF v \in {"granted", "held"}
             THEN With(s, {"granted", "held"}) \cup {r}
             ELSE With(s, {"granted", "held"}) \ {r}
      BY <2>1, WithOne
    <3> QED BY <3>1, <3>2
  <2>2. CASE s # Sem(r, l)
    BY <2>2, WithOne
  <2> QED BY <2>1, <2>2
<1> QED BY <1>1, OwnersWith DEF Stays, Owners, With

(* The owners of the other semaphores, when one permit changes. *)
LEMMA OwnersOne ==
    ASSUME TypeOK, UNCHANGED job, NEW r \in Runners, NEW l \in Levels, NEW v,
           permit' = [permit EXCEPT ![r][l] = v], NEW s
    PROVE  Owners(s)' = IF s # Sem(r, l) THEN Owners(s)
                        ELSE IF v \in {"granted", "held"}
                             THEN Owners(s) \cup {r}
                             ELSE Owners(s) \ {r}
<1>1. OnlyPermit(r, l, v)
  BY DEF OnlyPermit, TypeOK
<1>2. Owners(s) = With(s, {"granted", "held"})
  BY OwnersWith
<1>3. Owners(s)' = With(s, {"granted", "held"})'
  BY DEF Owners, With
<1> QED BY <1>1, <1>2, <1>3, WithOne

LEMMA AcquireSimulated ==
    ASSUME IInv, Acquire, NEW s \in Semaphores
    PROVE  Simulated(s)
<1>1. stack # <<>> /\ Top.op = "acquire"
  BY DEF Acquire, Running, Top
<1>2. PICK r \in Runners, l \in Levels : r = Top.r /\ l = Top.l
  BY <1>1, TopFacts
<1>3. PICK t \in Semaphores : t = Sem(r, l)
  BY <1>1, <1>2, TopFacts
<1>4. permit[r][l] = "none"
  BY <1>1, <1>2, TopFacts DEF FrameOK, Levels, G, P
<1>5. r \notin Owners(t) \cup Elements(queue[t])
  <2>1. /\ r \notin With(t, {"waiting"})
        /\ r \notin With(t, {"granted", "held"})
    BY <1>3, <1>4, InWith DEF IInv
  <2> QED BY <2>1, OwnersWith DEF IInv, QueueOK
<1>6. UNCHANGED job /\ TypeOK
  BY DEF Acquire, IInv
<1>7. CASE free[t] > 0
  <2>1. /\ free' = [free EXCEPT ![t] = @ - 1] /\ queue' = queue
        /\ permit' = [permit EXCEPT ![r][l] = "granted"]
    BY <1>2, <1>3, <1>7 DEF Acquire, SetPermit
  <2>2. Owners(s)' = IF s = t THEN Owners(s) \cup {r} ELSE Owners(s)
    BY <1>3, <1>6, <2>1, OwnersOne
  <2>3. free'[s] = IF s = t THEN free[s] - 1 ELSE free[s]
    BY <1>6, <2>1 DEF TypeOK
  <2>4. CASE s = t
    BY <1>5, <1>7, <2>1, <2>2, <2>3, <2>4 DEF Simulated, TakesOrParks
  <2>5. CASE s # t
    BY <2>1, <2>2, <2>3, <2>5 DEF Simulated, Stays
  <2> QED BY <2>4, <2>5
<1>8. CASE ~ (free[t] > 0)
  <2>1. /\ queue' = [queue EXCEPT ![t] = Append(@, r)] /\ free' = free
        /\ permit' = [permit EXCEPT ![r][l] = "waiting"]
    BY <1>2, <1>3, <1>8 DEF Acquire, SetPermit
  <2>2. Owners(s)' = IF s = t THEN Owners(s) \ {r} ELSE Owners(s)
    BY <1>3, <1>6, <2>1, OwnersOne
  <2>3. queue'[s] = IF s = t THEN Append(queue[s], r) ELSE queue[s]
    BY <1>6, <2>1 DEF TypeOK
  <2>4. CASE s = t
    BY <1>5, <1>8, <2>1, <2>2, <2>3, <2>4 DEF Simulated, TakesOrParks
  <2>5. CASE s # t
    BY <2>1, <2>2, <2>3, <2>5 DEF Simulated, Stays
  <2> QED BY <2>4, <2>5
<1> QED BY <1>7, <1>8

(* Between "granted" and "held", and when it is cleared, a permit is as    *)
(* much the runner's as before.                                            *)
LEMMA GrantedSimulated ==
    ASSUME IInv, Granted \/ Forgotten, NEW s \in Semaphores
    PROVE  Simulated(s)
<1>1. stack # <<>> /\ Top.op \in {"granted", "forgotten"}
  BY DEF Granted, Forgotten, Running, Top
<1>2. PICK r \in Runners, l \in Levels : r = Top.r /\ l = Top.l
  BY <1>1, TopFacts
<1>3. permit[r][l] = Top.op
  BY <1>1, <1>2, TopFacts DEF FrameOK
<1>4. UNCHANGED <<job, free, queue>> /\ TypeOK
  BY DEF Granted, Forgotten, IInv
<1>5. PICK v \in {"held", "none"} :
         /\ permit' = [permit EXCEPT ![r][l] = v]
         /\ v = "held" <=> Top.op = "granted"
  BY <1>2 DEF Granted, Forgotten, Running, Top, SetPermit
<1>6. OnlyPermit(r, l, v)
  BY <1>4, <1>5 DEF OnlyPermit, TypeOK
<1>7. permit[r][l] \in {"granted", "held"} <=> v \in {"granted", "held"}
  BY <1>1, <1>3, <1>5
<1> QED BY <1>4, <1>6, <1>7, StaysOwner DEF Simulated

LEMMA ReleaseSimulated ==
    ASSUME IInv, Release, NEW s \in Semaphores
    PROVE  Simulated(s)
<1>1. stack # <<>> /\ Top.op = "release"
  BY DEF Release, Running, Top
<1>2. PICK r \in Runners, l \in Levels : r = Top.r /\ l = Top.l
  BY <1>1, TopFacts
<1>3. PICK t \in Semaphores : t = Sem(r, l)
  BY <1>1, <1>2, TopFacts
<1>4. permit[r][l] # "forgotten"
  BY <1>1, <1>2, TopFacts DEF FrameOK, G, P, Levels
<1>5. UNCHANGED job /\ TypeOK /\ QueueOK(t)
  BY DEF Release, IInv
<1>6. permit[r][l] = "held" => r \in Owners(t)
  BY <1>3 DEF Owners
<1>7. CASE permit[r][l] = "held" /\ queue[t] # <<>>
  <2>1. PICK w : w = Head(queue[t])
    OBVIOUS
  <2>2. /\ queue' = [queue EXCEPT ![t] = Tail(@)] /\ free' = free
        /\ permit' = [permit EXCEPT ![r][l] = "forgotten",
                                    ![w][l] = "granted"]
    BY <1>2, <1>3, <1>7, <2>1 DEF Release
  <2>3. w \in Elements(queue[t]) /\ w \in Runners
    BY <1>5, <1>7, <2>1 DEF TypeOK, Elements
  <2>4. /\ Sem(w, l) = t /\ permit[w][l] = "waiting"
    <3>1. PICK m \in Levels : Sem(w, m) = t /\ permit[w][m] = "waiting"
      BY <1>5, <2>3 DEF QueueOK, With
    <3>2. m = l
      BY <1>3, <1>5, <2>3, <3>1, SemLevel
    <3> QED BY <3>1, <3>2
  <2>5. w # r
    BY <1>1, <1>2, <1>3, <1>7, <2>3, <2>4, WaiterRests
  <2>6. HandsOver(r, w, l)
    BY <1>5, <2>2, <2>3, <2>5 DEF HandsOver, TypeOK
  <2>7. /\ With(t, {"granted", "held"})' =
              (With(t, {"granted", "held"}) \ {r}) \cup {w}
        /\ s # t => With(s, {"granted", "held"})'
                       = With(s, {"granted", "held"})
    BY <1>3, <1>5, <2>3, <2>4, <2>5, <2>6, WithTwo
  <2>8. /\ Owners(t)' = (Owners(t) \ {r}) \cup {w}
        /\ s # t => Owners(s)' = Owners(s)
    BY <2>7 DEF Owners, With
  <2>9. queue'[s] = IF s = t THEN Tail(queue[s]) ELSE queue[s]
    BY <1>5, <2>2 DEF TypeOK
  <2>10. CASE s = t
    BY <1>6, <1>7, <2>1, <2>2, <2>8, <2>9, <2>10 DEF Simulated, GivesBack
  <2>11. CASE s # t
    BY <2>2, <2>8, <2>9, <2>11 DEF Simulated, Stays
  <2> QED BY <2>10, <2>11
<1>8. CASE permit[r][l] = "held" /\ queue[t] = <<>>
  <2>1. /\ free' = [free EXCEPT ![t] = @ + 1] /\ queue' = queue
        /\ permit' = [permit EXCEPT ![r][l] = "forgotten"]
    BY <1>2, <1>3, <1>8 DEF Release, SetPermit
  <2>2. Owners(s)' = IF s = t THEN Owners(s) \ {r} ELSE Owners(s)
    BY <1>3, <1>5, <2>1, OwnersOne
  <2>3. free'[s] = IF s = t THEN free[s] + 1 ELSE free[s]
    BY <1>5, <2>1 DEF TypeOK
  <2>4. CASE s = t
    BY <1>6, <1>8, <2>1, <2>2, <2>3, <2>4 DEF Simulated, GivesBack
  <2>5. CASE s # t
    BY <2>1, <2>2, <2>3, <2>5 DEF Simulated, Stays
  <2> QED BY <2>4, <2>5
<1>9. CASE permit[r][l] # "held"
  <2>1. UNCHANGED semVars
    BY <1>2, <1>3, <1>4, <1>9 DEF Release
  <2> QED BY <1>5, <2>1, StaysFrame DEF Simulated
<1> QED BY <1>7, <1>8, <1>9

(* A new request owns nothing yet. *)
LEMMA NewJobSimulated ==
    ASSUME IInv, NEW r \in Runners, job[r].kind = "none",
           NEW j, job' = [job EXCEPT ![r] = j], UNCHANGED semVars,
           NEW s \in Semaphores
    PROVE  Simulated(s)
<1>1. G(r) = "none" /\ P(r) = "none"
  BY DEF IInv, RunnerOK
<1>2. ASSUME NEW q \in Runners, NEW l \in Levels,
             permit[q][l] \in {"granted", "held"}
      PROVE  Sem(q, l)' = Sem(q, l)
  <2>1. q # r
    BY <1>1, <1>2 DEF G, P, Levels
  <2> QED BY <2>1 DEF Sem, IInv, TypeOK
<1>3. Owners(s)' = Owners(s)
  BY <1>2 DEF Owners
<1> QED BY <1>3 DEF Simulated, Stays

(* Every step of the installer. *)
LEMMA NextSimulated ==
    ASSUME IInv, [Next]_vars, NEW s \in Semaphores
    PROVE  Simulated(s)
<1>1. CASE Step
  <2>1. CASE Report
    BY <2>1, StaysFrame DEF Report, Simulated
  <2> QED BY <1>1, <2>1, AcquireSimulated, GrantedSimulated,
             ReleaseSimulated DEF Step
<1>2. ASSUME NEW r \in Runners, RunnerEvent(r) PROVE Simulated(s)
  <2>1. UNCHANGED <<job, permit, free, queue>>
    BY <1>2 DEF RunnerEvent, LockTaken, Promote, MainEnds, Removed,
                CheckClose, LogWritten, Swept, Unlocked
  <2> QED BY <2>1, StaysFrame DEF Simulated
<1>3. ASSUME NEW r \in Runners, UserEvent(r) PROVE Simulated(s)
  <2>1. ASSUME NEW p \in Packages, NEW d \in DebugOptions,
               Install(r, p, d) \/ InitializeFails(r, p, d)
        PROVE  Simulated(s)
    BY <2>1, NewJobSimulated
       DEF Install, InitializeFails, CanInstall, Request
  <2>2. ASSUME NEW p \in Packages, Uninstall(r, p) PROVE Simulated(s)
    BY <2>2, NewJobSimulated DEF Uninstall, Request
  <2>3. ASSUME Terminate(r) PROVE Simulated(s)
    BY <2>3, StaysFrame DEF Terminate, Simulated
  <2> QED BY <1>3, <2>1, <2>2, <2>3 DEF UserEvent
<1>4. ASSUME NEW r \in Runners, Spawn(r) \/ ChildExits(r) \/ GraceOver(r)
      PROVE  Simulated(s)
  BY <1>4, StaysFrame DEF Spawn, ChildExits, GraceOver, Simulated
<1>5. CASE Exit
  BY <1>5, StaysFrame DEF Exit, Simulated
<1>6. CASE UNCHANGED vars
  BY <1>6, StaysFrame DEF vars, Simulated
<1> QED BY <1>1, <1>2, <1>3, <1>4, <1>5, <1>6 DEF Next

-----------------------------------------------------------------------------
(* At the start every semaphore is full. *)
LEMMA InitSimulated ==
    ASSUME Init, NEW s \in Semaphores
    PROVE  free[s] = Capacity(s) /\ queue[s] = <<>> /\ Owners(s) = {}
BY DEF Init, Owners

(* The global semaphore, taken and given back in several steps by          *)
(* callbacks that nest, behaves like a semaphore with MaxConcurrent        *)
(* permits whose operations are atomic, for any number of requests.        *)
THEOREM GlobalRefined == Spec => GlobalSemaphoreRefined
<1>1. Global \in Semaphores /\ Capacity(Global) = MaxConcurrent
  BY DEF Semaphores, Capacity
<1>2. Init => GlobalSemaphore!Init
  BY <1>1, InitSimulated DEF GlobalSemaphore!Init
<1>3. ASSUME IInv, [Next]_vars
      PROVE  [GlobalSemaphore!Next]_(GlobalSemaphore!vars)
  <2>1. Simulated(Global) /\ free[Global] \in Nat
    BY <1>1, <1>3, NextSimulated DEF IInv, TypeOK
  <2>2. CASE Stays(Global)
    BY <2>2 DEF Stays, GlobalSemaphore!vars
  <2>3. ASSUME NEW c \in Runners, TakesOrParks(Global, c)
        PROVE  GlobalSemaphore!Acquire(c)
    BY <2>3 DEF TakesOrParks, Elements, GlobalSemaphore!Acquire,
                GlobalSemaphore!Waiting
  <2>4. ASSUME NEW c \in Runners, GivesBack(Global, c)
        PROVE  GlobalSemaphore!Forget(c)
    BY <2>1, <2>4 DEF GivesBack, GlobalSemaphore!Forget
  <2> QED
    BY <2>1, <2>2, <2>3, <2>4 DEF Simulated, GlobalSemaphore!Next
<1> QED
  BY <1>2, <1>3, Invariant, PTL
     DEF Spec, GlobalSemaphoreRefined, GlobalSemaphore!Spec

(* So does the semaphore of each package, with one permit. *)
THEOREM PackageRefined == Spec => PackageSemaphoreRefined
<1>1. \A p \in Packages : p \in Semaphores /\ Capacity(p) = 1
  BY GlobalAssumption DEF Semaphores, Capacity
<1>2. ASSUME Init, NEW p \in Packages PROVE PackageSemaphore(p)!Init
  BY <1>1, <1>2, InitSimulated DEF PackageSemaphore!Init
<1>3. ASSUME IInv, [Next]_vars, NEW p \in Packages
      PROVE  \/ PackageSemaphore(p)!Next
             \/ UNCHANGED PackageSemaphore(p)!vars
  <2>1. Simulated(p) /\ free[p] \in Nat
    BY <1>1, <1>3, NextSimulated DEF IInv, TypeOK
  <2>2. CASE Stays(p)
    BY <2>2 DEF Stays, PackageSemaphore!vars
  <2>3. ASSUME NEW c \in Runners, TakesOrParks(p, c)
        PROVE  PackageSemaphore(p)!Acquire(c)
    BY <2>3 DEF TakesOrParks, Elements, PackageSemaphore!Acquire,
                PackageSemaphore!Waiting
  <2>4. ASSUME NEW c \in Runners, GivesBack(p, c)
        PROVE  PackageSemaphore(p)!Forget(c)
    BY <2>1, <2>4 DEF GivesBack, PackageSemaphore!Forget
  <2> QED
    BY <2>1, <2>2, <2>3, <2>4 DEF Simulated, PackageSemaphore!Next
<1>4. Init => \A p \in Packages : PackageSemaphore(p)!Init
  BY <1>2
<1>5. IInv /\ [Next]_vars
         => \A p \in Packages : \/ PackageSemaphore(p)!Next
                                \/ UNCHANGED PackageSemaphore(p)!vars
  BY <1>3
<1> QED
  BY <1>4, <1>5, Invariant, PTL DEF Spec, PackageSemaphoreRefined

-----------------------------------------------------------------------------
(* Who calls the callback of a request, and who returns its permits.       *)

(* To add up who has called, or has to. *)
One(b) == IF b THEN 1 ELSE 0

(* The call of the request's callback is under way. *)
Reporting(r) ==
    \E i \in DOMAIN stack : stack[i].r = r /\ stack[i].op = "report"

(* How many of the paths that end in that call the runner has gone to the  *)
(* end of.                                                                 *)
Ended(r) ==
    IF IsInstall(r) THEN One(final[r]["own"] = "done")
                         + One(final[r]["abort"] = "done")
                    ELSE One(main[r] = "done")

(* That call is the last thing a callback does. *)
LastReport ==
    \A i, j \in DOMAIN stack : stack[i].op = "report" => j <= i

(* A runner calls back once for each path that has ended.  An installation *)
(* is on the path of its main coroutine once that has ended by itself, and *)
(* on the path of terminate() once that has closed the handle; a finalizer *)
(* dies of opts.debug if there is no working directory, and only then.     *)
AnswerOK(r) ==
    /\ reports[r] + One(Reporting(r)) = Ended(r)
    /\ main[r] = "removing" => ~ IsInstall(r)
    /\ job[r].kind # "none" => state[r] # "NONE"
    /\ job[r].kind = "none" => cwd[r] = "none"
    /\ main[r] = "cancelled" => terminated[r]
    /\ final[r]["own"] # "none" <=> (IsInstall(r) /\ main[r] = "done")
    /\ final[r]["abort"] # "none"
          <=> (IsInstall(r) /\ terminated[r] /\ state[r] = "CLOSED")
    /\ \A a \in Finalizers :
          final[r][a] # "none" =>
             (final[r][a] = "dead" <=> (job[r].debug /\ cwd[r] = "none"))

(* Whoever has both permits still has something to do that gives them back *)
(* in the end, or a finalizer that died of it.                             *)
SlotOK(r) ==
    ~ Busy(r) /\ P(r) = "held" =>
        IF IsInstall(r)
        THEN \/ Open(r)
             \/ \E a \in Finalizers :
                   final[r][a] \in {"logging", "sweeping", "unlocking", "dead"}
        ELSE main[r] = "removing"

AnswersInv == LastReport /\ \A r \in Runners : AnswerOK(r) /\ SlotOK(r)

-----------------------------------------------------------------------------
(* What it says of a runner depends on its own fields and calls. *)
LEMMA AnswerFrame ==
    ASSUME NEW q \in Runners, AnswerOK(q), SlotOK(q),
           job'[q] = job[q], state'[q] = state[q], main'[q] = main[q],
           final'[q] = final[q], reports'[q] = reports[q],
           permit'[q] = permit[q], terminated'[q] = terminated[q],
           cwd'[q] = cwd[q],
           Reporting(q)' <=> Reporting(q), Busy(q) => Busy(q)'
    PROVE  AnswerOK(q)' /\ SlotOK(q)'
<1>1. AnswerOK(q)'
  BY DEF AnswerOK, Ended, One, IsInstall
<1>2. SlotOK(q)'
  BY DEF SlotOK, P, IsInstall, Open
<1> QED BY <1>1, <1>2

(* Between events there is no call. *)
LEMMA IdleCalls ==
    ASSUME Idle
    PROVE  LastReport /\ \A q \in Runners : ~ Busy(q) /\ ~ Reporting(q)
BY DEF Idle, LastReport, Busy, Reporting

LEMMA QuietAnswers ==
    ASSUME IInv, AnswersInv, Idle, NEW r \in Runners, UNCHANGED stack,
           \A q \in Runners \ {r} :
              /\ job'[q] = job[q] /\ state'[q] = state[q]
              /\ main'[q] = main[q] /\ final'[q] = final[q]
              /\ reports'[q] = reports[q] /\ permit'[q] = permit[q]
              /\ terminated'[q] = terminated[q] /\ cwd'[q] = cwd[q],
           AnswerOK(r)', SlotOK(r)'
    PROVE  AnswersInv'
<1>1. Idle'
  BY DEF Idle
<1>2. /\ \A q \in Runners : ~ Busy(q) /\ ~ Reporting(q)
      /\ LastReport' /\ \A q \in Runners : ~ Busy(q)' /\ ~ Reporting(q)'
  BY <1>1, IdleCalls DEF Idle, LastReport, Busy, Reporting
<1>3. ASSUME NEW q \in Runners \ {r} PROVE AnswerOK(q)' /\ SlotOK(q)'
  BY <1>2, AnswerFrame DEF AnswersInv
<1> QED BY <1>2, <1>3 DEF AnswersInv

(* An event that ends in release_permit() and the callback. *)
LEMMA ReportingAnswers ==
    ASSUME IInv, AnswersInv, Idle, NEW r \in Runners, ReleaseAndReport(r),
           \A q \in Runners \ {r} :
              /\ job'[q] = job[q] /\ state'[q] = state[q]
              /\ main'[q] = main[q] /\ final'[q] = final[q]
              /\ reports'[q] = reports[q] /\ permit'[q] = permit[q]
              /\ terminated'[q] = terminated[q] /\ cwd'[q] = cwd[q],
           Reporting(r)' => AnswerOK(r)'
    PROVE  AnswersInv'
<1>1. /\ DOMAIN stack' = {1, 2}
      /\ stack'[1] = Call("release", r, "global")
      /\ stack'[2] = Call("report", r, "global")
  BY DEF ReleaseAndReport
<1>2. \A q \in Runners : ~ Busy(q) /\ ~ Reporting(q)
  BY IdleCalls
<1>3. /\ LastReport' /\ Busy(r)' /\ Reporting(r)'
      /\ \A q \in Runners \ {r} : ~ Reporting(q)'
  BY <1>1 DEF LastReport, Busy, Reporting, Call
<1>4. ASSUME NEW q \in Runners \ {r} PROVE AnswerOK(q)' /\ SlotOK(q)'
  BY <1>2, <1>3, AnswerFrame DEF AnswersInv
<1>5. SlotOK(r)'
  BY <1>3 DEF SlotOK
<1> QED BY <1>3, <1>4, <1>5 DEF AnswersInv

(* A new request asks for the global permit, or is answered at once. *)
LEMMA RequestAnswers ==
    ASSUME IInv, AnswersInv, Idle, NEW r \in Runners, job[r].kind = "none",
           NEW kind \in {"install", "uninstall"}, NEW p \in Packages,
           NEW d \in BOOLEAN, Request(r, kind, p, d)
    PROVE  AnswersInv'
<1>1. /\ UNCHANGED <<final, reports, permit, terminated, cwd>>
      /\ job' = [job EXCEPT ![r] = [kind |-> kind, pkg |-> p, debug |-> d]]
      /\ state' = [state EXCEPT ![r] = "QUEUED"]
      /\ main' = [main EXCEPT ![r] = "queued"]
      /\ DOMAIN stack' = {1} /\ stack'[1] = Call("acquire", r, "global")
  BY DEF Request
<1>2. \A q \in Runners : ~ Busy(q) /\ ~ Reporting(q)
  BY IdleCalls
<1>3. /\ LastReport' /\ Busy(r)'
      /\ \A q \in Runners : ~ Reporting(q)'
  BY <1>1 DEF LastReport, Busy, Reporting, Call
<1>4. ASSUME NEW q \in Runners \ {r} PROVE AnswerOK(q)' /\ SlotOK(q)'
  BY <1>1, <1>2, <1>3, <1>4, AnswerFrame DEF AnswersInv, IInv, TypeOK
<1>5. AnswerOK(r)' /\ SlotOK(r)'
  <2>1. RunnerOK(r) /\ AnswerOK(r) /\ reports[r] \in Nat
    BY DEF IInv, TypeOK, AnswersInv
  <2>2. /\ \A a \in Finalizers : final[r][a] = "none"
        /\ main[r] = "none" /\ reports[r] = 0 /\ ~ terminated[r]
        /\ cwd[r] = "none"
    BY <1>1, <1>2, <2>1 DEF RunnerOK, AnswerOK, Ended, One, IsInstall
  <2>3. main'[r] = "queued" /\ state'[r] = "QUEUED"
    BY <1>1 DEF IInv, TypeOK
  <2>4. Ended(r)' = 0
    BY <1>1, <2>2, <2>3 DEF Ended, One, Finalizers
  <2> QED
    BY <1>1, <1>3, <2>2, <2>3, <2>4
       DEF AnswerOK, SlotOK, One, Finalizers
<1> QED BY <1>3, <1>4, <1>5 DEF AnswersInv

LEMMA InitializeFailsAnswers ==
    ASSUME IInv, AnswersInv, NEW r \in Runners, NEW p \in Packages,
           NEW d \in BOOLEAN, InitializeFails(r, p, d)
    PROVE  AnswersInv'
<1>1. /\ Idle /\ job[r].kind = "none"
      /\ UNCHANGED <<reports, permit, stack, terminated, cwd>>
      /\ job' = [job EXCEPT ![r] = [kind |-> "install", pkg |-> p,
                                    debug |-> d]]
      /\ state' = [state EXCEPT ![r] = IF d THEN "IDLE" ELSE "CLOSED"]
      /\ main' = [main EXCEPT ![r] = "done"]
      /\ final' = [final EXCEPT ![r]["own"] =
                      IF d THEN "dead" ELSE "unlocking"]
  BY DEF InitializeFails, CanInstall, SetFinal
<1>2. \A q \in Runners : ~ Busy(q) /\ ~ Reporting(q)
  BY <1>1, IdleCalls
<1>3. RunnerOK(r) /\ AnswerOK(r) /\ reports[r] \in Nat
  BY DEF IInv, TypeOK, AnswersInv
<1>4. /\ \A a \in Finalizers : final[r][a] = "none"
      /\ main[r] = "none" /\ reports[r] = 0 /\ P(r) = "none"
      /\ ~ terminated[r] /\ cwd[r] = "none"
  BY <1>1, <1>2, <1>3 DEF RunnerOK, AnswerOK, Ended, One, IsInstall
<1>5. /\ main'[r] = "done" /\ job'[r].debug = d /\ IsInstall(r)'
      /\ state'[r] = IF d THEN "IDLE" ELSE "CLOSED"
      /\ final'[r]["own"] = IF d THEN "dead" ELSE "unlocking"
      /\ final'[r]["abort"] = "none"
  BY <1>1, <1>4 DEF IInv, TypeOK, IsInstall, Finalizers
<1>6. ~ Reporting(r)' /\ P(r)' = "none"
  BY <1>1, <1>2, <1>4 DEF Reporting, P
<1>7. AnswerOK(r)' /\ SlotOK(r)'
  BY <1>1, <1>4, <1>5, <1>6 DEF AnswerOK, SlotOK, Ended, One, Finalizers
<1>8. \A q \in Runners \ {r} :
         /\ job'[q] = job[q] /\ state'[q] = state[q]
         /\ main'[q] = main[q] /\ final'[q] = final[q]
  BY <1>1 DEF IInv, TypeOK
<1> QED BY <1>1, <1>7, <1>8, QuietAnswers

(* The main coroutine of an installation. *)
LEMMA MainAnswers ==
    ASSUME IInv, AnswersInv, NEW r \in Runners,
           LockTaken(r) \/ Promote(r) \/ Spawn(r) \/ ChildExits(r)
              \/ GraceOver(r)
    PROVE  AnswersInv'
<1>1. /\ Idle
      /\ UNCHANGED <<job, state, terminated, final, reports, permit, stack>>
      /\ \/ cwd' = cwd
         \/ /\ main[r] \in {"locking", "installing"}
            /\ \E d : cwd' = [cwd EXCEPT ![r] = d]
      /\ \/ main' = main
         \/ /\ main[r] \in {"locking", "installing"}
            /\ main' = [main EXCEPT ![r] = "installing"]
         \/ /\ main[r] = "installing"
            /\ \/ main' = [main EXCEPT ![r] = "hung"]
               \/ main' = [main EXCEPT ![r] = "linking"]
  BY DEF LockTaken, Promote, Spawn, ChildExits, GraceOver
<1>2. AnswerOK(r) /\ SlotOK(r) /\ RunnerOK(r)
  BY DEF IInv, AnswersInv
<1>3. \/ main'[r] = main[r]
      \/ /\ main[r] \in {"locking", "installing"}
         /\ main'[r] \in {"installing", "hung", "linking"}
  BY <1>1 DEF IInv, TypeOK
<1>4. main'[r] # main[r] => job[r].kind # "uninstall"
                            /\ P(r) = "held" /\ job[r].kind # "none"
  BY <1>2, <1>3 DEF RunnerOK, AtWork, HasBoth
<1>5. main'[r] # main[r] => IsInstall(r)
  BY <1>4, RunnerType DEF IInv, IsInstall
<1>6. /\ Reporting(r)' <=> Reporting(r)
      /\ Busy(r)' <=> Busy(r)
  BY <1>1 DEF Reporting, Busy
<1>7. AnswerOK(r)'
  <2>1. cwd'[r] # cwd[r] => /\ job[r].kind # "none"
                            /\ \A a \in Finalizers : final[r][a] = "none"
    BY <1>1, <1>2 DEF RunnerOK
  <2>2. Ended(r)' = Ended(r)
    BY <1>1, <1>3, <1>5 DEF Ended, One, IsInstall
  <2> QED
    BY <1>1, <1>2, <1>3, <1>4, <1>5, <1>6, <2>1, <2>2
       DEF AnswerOK, One, IsInstall, Finalizers
<1>8. SlotOK(r)'
  BY <1>1, <1>2, <1>3, <1>5, <1>6 DEF SlotOK, P, Open, IsInstall
<1>9. \A q \in Runners \ {r} : main'[q] = main[q] /\ cwd'[q] = cwd[q]
  BY <1>1 DEF IInv, TypeOK
<1> QED BY <1>1, <1>7, <1>8, <1>9, QuietAnswers

LEMMA MainEndsAnswers ==
    ASSUME IInv, AnswersInv, NEW r \in Runners, MainEnds(r)
    PROVE  AnswersInv'
<1>0. RunnerOK(r) /\ AnswerOK(r)
      /\ job[r].kind \in {"none", "install", "uninstall"}
  BY RunnerType DEF IInv, AnswersInv
<1>1. /\ main[r] \in {"locking", "installing", "linking"}
      /\ IsInstall(r) /\ ~ Closing(r) /\ ~ ChildAlive(r) /\ Idle
  BY <1>0 DEF MainEnds, RunnerOK, AtWork, IsInstall
<1>2. /\ main' = [main EXCEPT ![r] = "done"]
      /\ UNCHANGED <<job, terminated, cwd, permit, reports, stack>>
      /\ \/ /\ \/ /\ final' = [final EXCEPT ![r]["own"] = "dead"]
                  /\ job[r].debug /\ cwd[r] = "none"
               \/ /\ \E f \in {"logging", "sweeping"} :
                        final' = [final EXCEPT ![r]["own"] = f]
                  /\ cwd[r] # "none"
            /\ state' = state
         \/ /\ final' = [final EXCEPT ![r]["own"] = "unlocking"]
            /\ state' = [state EXCEPT ![r] = "CLOSED"]
            /\ ~ job[r].debug
  <2>1. PICK success \in BOOLEAN : FinalizeOwn(r, success)
    BY DEF MainEnds
  <2> QED BY <1>1, <2>1 DEF MainEnds, FinalizeOwn, SetFinal,
                            CloseUnlessClosing, FirstAwait
<1>3. \A a \in Finalizers : final[r][a] = "none"
  BY <1>0, <1>1 DEF RunnerOK
<1>4. /\ final'[r]["own"] \in {"logging", "sweeping", "dead", "unlocking"}
      /\ final'[r]["own"] = "dead" <=> (job[r].debug /\ cwd[r] = "none")
      /\ final'[r]["abort"] = "none" /\ final[r]["own"] = "none"
      /\ state'[r] \in {state[r], "CLOSED"}
      /\ final'[r]["own"] # "unlocking" => state'[r] = state[r]
      /\ main'[r] = "done"
  BY <1>2, <1>3 DEF IInv, TypeOK, Finalizers
<1>5. ~ Reporting(r) /\ ~ Reporting(r)'
  BY <1>1, <1>2 DEF Reporting, Idle
<1>6. reports[r] = 0
  <2>1. reports[r] \in Nat
    BY DEF IInv, TypeOK
  <2> QED BY <1>0, <1>1, <1>3, <1>5, <2>1
          DEF AnswerOK, Ended, One, Finalizers
<1>7. AnswerOK(r)'
  <2>1. Ended(r)' = 0
    BY <1>1, <1>2, <1>4 DEF Ended, One, IsInstall
  <2> QED BY <1>0, <1>1, <1>2, <1>4, <1>5, <1>6, <2>1
          DEF AnswerOK, One, Finalizers, IsInstall, Closing
<1>8. SlotOK(r)'
  BY <1>1, <1>2, <1>4 DEF SlotOK, Finalizers, IsInstall
<1>9. \A q \in Runners \ {r} : /\ state'[q] = state[q]
                               /\ main'[q] = main[q] /\ final'[q] = final[q]
  BY <1>2 DEF IInv, TypeOK
<1> QED BY <1>1, <1>2, <1>7, <1>8, <1>9, QuietAnswers

(* Its finalizers. *)
LEMMA PreparedAnswers ==
    ASSUME IInv, AnswersInv, NEW r \in Runners, NEW a \in Finalizers,
           LogWritten(r, a) \/ Swept(r, a)
    PROVE  AnswersInv'
<1>0. /\ RunnerOK(r) /\ AnswerOK(r) /\ a \in {"own", "abort"}
      /\ final[r][a] \in {"logging", "sweeping"} /\ Idle
  BY DEF IInv, AnswersInv, LogWritten, Swept, Finalizers
<1>1. /\ final' = [final EXCEPT ![r][a] = "unlocking"]
      /\ \/ state' = state
         \/ ~ Closing(r) /\ state' = [state EXCEPT ![r] = "CLOSED"]
      /\ UNCHANGED <<job, main, terminated, cwd, permit, reports, stack>>
  BY DEF LogWritten, Swept, SetFinal, CloseUnlessClosing
<1>2. IsInstall(r)
  BY <1>0 DEF RunnerOK
<1>3. /\ final'[r][a] = "unlocking"
      /\ \A b \in Finalizers : b # a => final'[r][b] = final[r][b]
      /\ state'[r] # state[r] => ~ terminated[r] /\ state'[r] = "CLOSED"
  BY <1>1 DEF IInv, TypeOK, Closing
<1>4. ~ Reporting(r) /\ ~ Reporting(r)'
  BY <1>0, <1>1 DEF Reporting, Idle
<1>5. Ended(r)' = Ended(r)
  BY <1>0, <1>1, <1>2, <1>3 DEF Ended, One, IsInstall, Finalizers
<1>6. AnswerOK(r)'
  <2>1. \A b \in Finalizers :
           /\ final'[r][b] = "none" <=> final[r][b] = "none"
           /\ final'[r][b] = "dead" <=> final[r][b] = "dead"
    BY <1>0, <1>3
  <2> QED BY <1>0, <1>1, <1>2, <1>3, <1>4, <1>5, <2>1
          DEF AnswerOK, Finalizers, IsInstall, One
<1>7. SlotOK(r)'
  BY <1>1, <1>2, <1>3 DEF SlotOK, IsInstall
<1>8. \A q \in Runners \ {r} : /\ state'[q] = state[q]
                               /\ final'[q] = final[q]
  BY <1>1 DEF IInv, TypeOK
<1> QED BY <1>0, <1>1, <1>6, <1>7, <1>8, QuietAnswers

LEMMA UnlockedAnswers ==
    ASSUME IInv, AnswersInv, NEW r \in Runners, NEW a \in Finalizers,
           Unlocked(r, a)
    PROVE  AnswersInv'
<1>0. /\ RunnerOK(r) /\ AnswerOK(r) /\ a \in {"own", "abort"}
      /\ final[r][a] = "unlocking" /\ Idle /\ reports[r] \in Nat
  BY DEF IInv, TypeOK, AnswersInv, Unlocked, Finalizers
<1>1. /\ final' = [final EXCEPT ![r][a] = "done"]
      /\ ReleaseAndReport(r)
      /\ UNCHANGED <<job, main, state, terminated, cwd, permit, reports>>
  BY DEF Unlocked, SetFinal
<1>2. IsInstall(r)
  BY <1>0 DEF RunnerOK
<1>3. /\ final'[r][a] = "done"
      /\ \A b \in Finalizers : b # a => final'[r][b] = final[r][b]
  BY <1>1 DEF IInv, TypeOK
<1>4. ~ Reporting(r)
  BY <1>0 DEF Reporting, Idle
<1>5. Ended(r)' = Ended(r) + 1
  BY <1>0, <1>1, <1>2, <1>3 DEF Ended, One, IsInstall, Finalizers
<1>6. Reporting(r)' => AnswerOK(r)'
  <2>1. reports[r] = Ended(r)
    BY <1>0, <1>4 DEF AnswerOK, One
  <2>2. Reporting(r)' => reports'[r] + One(Reporting(r)') = Ended(r)'
    BY <1>0, <1>1, <1>5, <2>1 DEF One
  <2>3. \A b \in Finalizers :
           /\ final'[r][b] = "none" <=> final[r][b] = "none"
           /\ final'[r][b] = "dead" <=> final[r][b] = "dead"
    BY <1>0, <1>3
  <2> QED BY <1>0, <1>1, <1>2, <1>3, <2>2, <2>3
          DEF AnswerOK, Finalizers, IsInstall, One
<1>7. \A q \in Runners \ {r} : final'[q] = final[q]
  BY <1>1 DEF IInv, TypeOK
<1> QED BY <1>0, <1>1, <1>6, <1>7, ReportingAnswers

LEMMA RemovedAnswers ==
    ASSUME IInv, AnswersInv, NEW r \in Runners, Removed(r)
    PROVE  AnswersInv'
<1>0. /\ RunnerOK(r) /\ AnswerOK(r) /\ main[r] = "removing" /\ Idle
      /\ reports[r] \in Nat
  BY DEF IInv, TypeOK, AnswersInv, Removed
<1>1. /\ main' = [main EXCEPT ![r] = "done"]
      /\ \/ state' = state
         \/ state' = [state EXCEPT ![r] = "CLOSED"]
      /\ ReleaseAndReport(r)
      /\ UNCHANGED <<job, final, terminated, cwd, permit, reports>>
  BY DEF Removed, CloseUnlessClosing
<1>2. ~ IsInstall(r) /\ \A a \in Finalizers : final[r][a] = "none"
  BY <1>0 DEF AnswerOK, RunnerOK
<1>3. /\ main'[r] = "done"
      /\ \A q \in Runners \ {r} : /\ state'[q] = state[q]
                                  /\ main'[q] = main[q]
  BY <1>1 DEF IInv, TypeOK
<1>4. reports[r] = 0 /\ Ended(r)' = 1
  BY <1>0, <1>1, <1>2, <1>3 DEF AnswerOK, Ended, One, IsInstall, Reporting,
                                Idle
<1>5. Reporting(r)' => AnswerOK(r)'
  <2>1. state'[r] \in {state[r], "CLOSED"}
    BY <1>1 DEF IInv, TypeOK
  <2> QED BY <1>0, <1>1, <1>2, <1>3, <1>4, <2>1
          DEF AnswerOK, Finalizers, One, IsInstall
<1> QED BY <1>0, <1>1, <1>3, <1>5, ReportingAnswers

LEMMA CheckCloseAnswers ==
    ASSUME IInv, AnswersInv, NEW r \in Runners, CheckClose(r)
    PROVE  AnswersInv'
<1>0. /\ RunnerOK(r) /\ AnswerOK(r) /\ SlotOK(r) /\ Idle
      /\ state[r] # "CLOSED" /\ terminated[r]
  BY DEF IInv, AnswersInv, CheckClose, Open
<1>1. /\ state' = [state EXCEPT ![r] = "CLOSED"]
      /\ UNCHANGED <<job, main, terminated, cwd, permit, reports, stack>>
      /\ \/ /\ IsInstall(r)
            /\ final' = [final EXCEPT ![r]["abort"] = FirstAwait(r, FALSE)]
         \/ ~ IsInstall(r) /\ final' = final
  BY DEF CheckClose, FinalizeAbort, SetFinal
<1>2. /\ final[r]["abort"] = "none"
      /\ FirstAwait(r, FALSE) \in {"logging", "sweeping", "unlocking", "dead"}
      /\ FirstAwait(r, FALSE) = "dead" <=> (job[r].debug /\ cwd[r] = "none")
  BY <1>0 DEF AnswerOK, FirstAwait
<1>3. /\ state'[r] = "CLOSED" /\ final'[r]["own"] = final[r]["own"]
      /\ IsInstall(r) =>
            final'[r]["abort"] = FirstAwait(r, FALSE)
      /\ ~ IsInstall(r) => final'[r]["abort"] = "none"
      /\ \A q \in Runners \ {r} : /\ state'[q] = state[q]
                                  /\ final'[q] = final[q]
  BY <1>1, <1>2 DEF IInv, TypeOK, Finalizers
<1>4. ~ Reporting(r) /\ ~ Reporting(r)' /\ ~ Busy(r)
  BY <1>0, <1>1 DEF Reporting, Idle, Busy
<1>5. Ended(r)' = Ended(r)
  BY <1>1, <1>2, <1>3 DEF Ended, One, IsInstall
<1>6. AnswerOK(r)'
  BY <1>0, <1>1, <1>2, <1>3, <1>4, <1>5
     DEF AnswerOK, Finalizers, IsInstall, One
<1>7. SlotOK(r)'
  BY <1>0, <1>1, <1>2, <1>3, <1>4 DEF SlotOK, IsInstall, Finalizers, P
<1> QED BY <1>0, <1>1, <1>3, <1>6, <1>7, QuietAnswers

(* Cancellation only moves main coroutines of installations. *)
LEMMA TerminateAnswers ==
    ASSUME IInv, AnswersInv, Idle, NEW R \in SUBSET Runners, TerminateAll(R),
           \A r \in R : Open(r),
           UNCHANGED <<state, job, cwd, final, reports, permit, stack>>
    PROVE  AnswersInv'
<1>1. \A q \in Runners : ~ Busy(q) /\ ~ Reporting(q)
  BY IdleCalls
<1>2. LastReport' /\ \A q \in Runners : ~ Busy(q)' /\ ~ Reporting(q)'
  BY <1>1 DEF LastReport, Busy, Reporting, Idle
<1>3. ASSUME NEW q \in Runners PROVE AnswerOK(q)' /\ SlotOK(q)'
  <2>1. /\ AnswerOK(q) /\ SlotOK(q)
        /\ terminated'[q] <=> (q \in R \/ terminated[q])
        /\ \/ main'[q] = main[q]
           \/ /\ IsInstall(q) /\ main'[q] = "cancelled"
              /\ q \in R /\ main[q] # "done"
        /\ state[q] = "CLOSED" => q \notin R
    BY DEF AnswersInv, TerminateAll, Open
  <2>2. AnswerOK(q)'
    BY <1>1, <1>2, <2>1 DEF AnswerOK, Ended, One, IsInstall
  <2>3. SlotOK(q)'
    BY <1>1, <1>2, <2>1 DEF SlotOK, P, IsInstall, Open
  <2> QED BY <2>2, <2>3
<1> QED BY <1>2, <1>3 DEF AnswersInv

-----------------------------------------------------------------------------
(* The calls of the running callback. *)
LEMMA CallsBelow ==
    ASSUME TypeOK, LastReport, stack # <<>>, Top.op # "report",
           NEW fs \in Seq(Frame), Continue(fs),
           \A i \in DOMAIN fs : fs[i].op # "report"
    PROVE  /\ LastReport'
           /\ \A q \in Runners : Reporting(q)' <=> Reporting(q)
           /\ \A q \in Runners \ {Top.r} : Busy(q) => Busy(q)'
           /\ \A i \in DOMAIN fs : Busy(fs[i].r)'
<1>1. 1 \in DOMAIN stack /\ Top = stack[1] /\ DOMAIN stack = 1..Len(stack)
      /\ Len(stack) \in Nat
  BY StackTop
<1>2. /\ \A i \in DOMAIN fs : i \in DOMAIN stack' /\ stack'[i] = fs[i]
      /\ \A i \in DOMAIN stack' : i \notin DOMAIN fs =>
            /\ i - Len(fs) + 1 \in DOMAIN stack
            /\ i - Len(fs) + 1 # 1
            /\ stack'[i] = stack[i - Len(fs) + 1]
      /\ \A j \in DOMAIN stack : j # 1 =>
            /\ j + Len(fs) - 1 \in DOMAIN stack'
            /\ stack'[j + Len(fs) - 1] = stack[j]
      /\ stack' \in Seq(Frame)
  BY Continued
<1>3. /\ DOMAIN fs = 1..Len(fs) /\ Len(fs) \in Nat
      /\ DOMAIN stack' = 1..Len(stack') /\ Len(stack') \in Nat
  BY <1>2
<1>4. ASSUME NEW i \in DOMAIN stack', NEW j \in DOMAIN stack',
             stack'[i].op = "report"
      PROVE  j <= i
  <2>1. /\ i \notin DOMAIN fs /\ i - Len(fs) + 1 \in DOMAIN stack
        /\ stack[i - Len(fs) + 1].op = "report"
    BY <1>2, <1>4
  <2>2. CASE j \in DOMAIN fs
    BY <1>3, <2>1, <2>2
  <2>3. CASE j \notin DOMAIN fs
    <3>1. j - Len(fs) + 1 \in DOMAIN stack
      BY <1>2, <2>3
    <3>2. j - Len(fs) + 1 <= i - Len(fs) + 1
      BY <2>1, <3>1 DEF LastReport
    <3> QED BY <1>3, <3>2
  <2> QED BY <2>2, <2>3
<1>5. ASSUME NEW q \in Runners, Reporting(q)' PROVE Reporting(q)
  BY <1>2, <1>5 DEF Reporting
<1>6. ASSUME NEW q \in Runners, Reporting(q) PROVE Reporting(q)'
  BY <1>1, <1>2, <1>6 DEF Reporting
<1>7. ASSUME NEW q \in Runners \ {Top.r}, Busy(q) PROVE Busy(q)'
  BY <1>1, <1>2, <1>7 DEF Busy
<1>8. ASSUME NEW i \in DOMAIN fs PROVE Busy(fs[i].r)'
  BY <1>2, <1>8 DEF Busy
<1> QED BY <1>4, <1>5, <1>6, <1>7, <1>8 DEF LastReport

(* A call of r ends and calls fs: whoever's permits it changes has a call  *)
(* to make, or is not left with both.                                      *)
LEMMA CallAnswers ==
    ASSUME IInv, AnswersInv, stack # <<>>, Top.op # "report",
           NEW fs \in Seq(Frame), Continue(fs),
           \A i \in DOMAIN fs : fs[i].op # "report",
           UNCHANGED <<job, final, reports, terminated, cwd>>,
           \A q \in Runners \ {Top.r} : /\ state'[q] = state[q]
                                        /\ main'[q] = main[q],
           \A q \in Runners : \/ q # Top.r /\ permit'[q] = permit[q]
                              \/ \E i \in DOMAIN fs : fs[i].r = q
                              \/ q = Top.r /\ SlotOK(q)',
           \/ state'[Top.r] = state[Top.r] /\ main'[Top.r] = main[Top.r]
           \/ /\ main[Top.r] # "done" /\ state[Top.r] # "CLOSED"
              /\ main'[Top.r] \notin {"done", "cancelled"}
              /\ state'[Top.r] \notin {"NONE", "CLOSED"}
              /\ main'[Top.r] # "removing" \/ ~ IsInstall(Top.r)
    PROVE  AnswersInv'
<1>1. /\ LastReport'
      /\ \A q \in Runners : Reporting(q)' <=> Reporting(q)
      /\ \A q \in Runners \ {Top.r} : Busy(q) => Busy(q)'
      /\ \A i \in DOMAIN fs : Busy(fs[i].r)'
  BY CallsBelow DEF IInv, AnswersInv
<1>2. ASSUME NEW q \in Runners PROVE AnswerOK(q)'
  <2>1. AnswerOK(q) /\ reports[q] \in Nat
    BY DEF AnswersInv, IInv, TypeOK
  <2>2. CASE state'[q] = state[q] /\ main'[q] = main[q]
    BY <1>1, <2>1, <2>2 DEF AnswerOK, Ended, One, IsInstall
  <2>3. CASE /\ main[q] # "done" /\ state[q] # "CLOSED"
             /\ main'[q] \notin {"done", "cancelled"}
             /\ state'[q] \notin {"NONE", "CLOSED"}
             /\ main'[q] # "removing" \/ ~ IsInstall(q)
    <3>1. Ended(q)' = Ended(q)
      BY <2>3 DEF Ended, One, IsInstall
    <3>2. reports'[q] + One(Reporting(q)') = Ended(q)'
      BY <1>1, <2>1, <3>1 DEF AnswerOK, One
    <3> QED BY <1>1, <2>1, <2>3, <3>2 DEF AnswerOK, One, IsInstall
  <2> QED BY <2>2, <2>3
<1>3. ASSUME NEW q \in Runners PROVE SlotOK(q)'
  <2>1. SlotOK(q)
    BY DEF AnswersInv
  <2>2. CASE q # Top.r /\ permit'[q] = permit[q]
    BY <1>1, <2>1, <2>2 DEF SlotOK, P, IsInstall, Open
  <2>3. CASE \E i \in DOMAIN fs : fs[i].r = q
    BY <1>1, <2>3 DEF SlotOK
  <2> QED BY <2>2, <2>3
<1> QED BY <1>1, <1>2, <1>3 DEF AnswersInv

LEMMA AcquireAnswers ==
    ASSUME IInv, AnswersInv, Acquire PROVE AnswersInv'
<1>1. stack # <<>> /\ Top.op = "acquire"
  BY DEF Acquire, Running, Top
<1>2. PICK r \in Runners, l \in Levels : r = Top.r /\ l = Top.l
  BY <1>1, TopFacts
<1>3. P(r) = "none"
  BY <1>1, <1>2, TopFacts DEF FrameOK
<1>4. UNCHANGED <<job, final, reports, state, main, terminated, cwd>>
  BY DEF Acquire
<1>5. CASE free[Sem(r, l)] > 0
  <2>1. /\ permit' = [permit EXCEPT ![r][l] = "granted"]
        /\ Continue(<<Call("granted", r, l)>>)
    BY <1>2, <1>5 DEF Acquire, SetPermit
  <2> DEFINE fs == <<Call("granted", r, l)>>
  <2>2. /\ fs \in Seq(Frame) /\ DOMAIN fs = {1}
        /\ fs[1].r = r /\ fs[1].op = "granted"
    BY DEF Call, Frame, Ops
  <2>3. Continue(fs)
    BY <2>1
  <2> HIDE DEF fs
  <2>4. \A q \in Runners \ {r} : permit'[q] = permit[q]
    BY <2>1 DEF IInv, TypeOK
  <2> QED BY <1>1, <1>2, <1>4, <2>2, <2>3, <2>4, CallAnswers
<1>6. CASE ~ (free[Sem(r, l)] > 0)
  <2>1. /\ permit' = [permit EXCEPT ![r][l] = "waiting"]
        /\ Continue(<<>>)
    BY <1>2, <1>6 DEF Acquire, SetPermit
  <2> DEFINE fs == <<>>
  <2>2. fs \in Seq(Frame) /\ DOMAIN fs = {} /\ Continue(fs)
    BY <2>1
  <2> HIDE DEF fs
  <2>3. \A q \in Runners \ {r} : permit'[q] = permit[q]
    BY <2>1 DEF IInv, TypeOK
  <2>4. P(r)' # "held"
    BY <1>3, <2>1 DEF IInv, TypeOK, P, Levels
  <2>5. SlotOK(r)'
    BY <2>4 DEF SlotOK
  <2> QED BY <1>1, <1>2, <1>4, <2>2, <2>3, <2>5, CallAnswers
<1> QED BY <1>5, <1>6

LEMMA GrantedAnswers ==
    ASSUME IInv, AnswersInv, Granted PROVE AnswersInv'
<1>1. stack # <<>> /\ Top.op = "granted"
  BY DEF Granted, Running, Top
<1>2. PICK r \in Runners, l \in Levels : r = Top.r /\ l = Top.l
  BY <1>1, TopFacts
<1>3. permit[r][l] = "granted" /\ RunnerOK(r)
  BY <1>1, <1>2, TopFacts DEF FrameOK, IInv
<1>4. /\ UNCHANGED <<job, final, reports, terminated, cwd>>
      /\ permit' = [permit EXCEPT ![r][l] = "held"]
  BY <1>2 DEF Granted, SetPermit
<1>5. \A q \in Runners \ {r} : permit'[q] = permit[q]
  BY <1>4 DEF IInv, TypeOK
<1>6. ASSUME NEW f \in Frame, Continue(<<f>>), f.r = r, f.op # "report",
             UNCHANGED <<state, main>>
      PROVE  AnswersInv'
  <2> DEFINE fs == <<f>>
  <2>1. /\ fs \in Seq(Frame) /\ DOMAIN fs = {1} /\ fs[1] = f
        /\ Continue(fs)
    BY <1>6
  <2> HIDE DEF fs
  <2> QED BY <1>1, <1>2, <1>4, <1>5, <1>6, <2>1, CallAnswers
<1>7. CASE l = "global"
  <2>1. Call("acquire", r, "package") \in Frame
    BY DEF Call, Frame, Ops, Levels
  <2> QED BY <1>2, <1>6, <1>7, <2>1 DEF Granted, Call
<1>8. CASE l = "package" /\ Closing(r)
  <2>1. Call("release", r, "global") \in Frame
    BY DEF Call, Frame, Ops, Levels
  <2> QED BY <1>2, <1>6, <1>8, <2>1 DEF Granted, Call
<1>9. CASE l = "package" /\ ~ Closing(r)
  <2> DEFINE fs == <<>>
  <2>1. /\ state' = [state EXCEPT ![r] = "ACTIVE"]
        /\ main' = [main EXCEPT ![r] =
                      IF IsInstall(r) THEN "locking" ELSE "removing"]
        /\ fs \in Seq(Frame) /\ DOMAIN fs = {} /\ Continue(fs)
    BY <1>2, <1>9 DEF Granted
  <2> HIDE DEF fs
  <2>2. /\ state'[r] = "ACTIVE"
        /\ main'[r] = IF IsInstall(r) THEN "locking" ELSE "removing"
        /\ \A q \in Runners \ {r} : /\ state'[q] = state[q]
                                    /\ main'[q] = main[q]
    BY <2>1 DEF IInv, TypeOK
  <2>3. /\ state[r] # "CLOSED" /\ main[r] # "done"
    BY <1>3, <1>9 DEF RunnerOK, HasBoth, P, Closing
  <2>4. SlotOK(r)'
    BY <1>4, <2>2 DEF SlotOK, Open, IsInstall
  <2>5. /\ main'[r] # "removing" \/ ~ IsInstall(r)
        /\ main'[r] \notin {"done", "cancelled"}
        /\ state'[r] \notin {"NONE", "CLOSED"}
    BY <2>2
  <2>6. \A q \in Runners \ {r} : /\ permit'[q] = permit[q]
                                /\ state'[q] = state[q]
                                /\ main'[q] = main[q]
    BY <1>5, <2>2
  <2> HIDE <2>2
  <2> QED BY <1>1, <1>2, <1>4, <2>1, <2>3, <2>4, <2>5, <2>6, CallAnswers
<1> QED BY <1>7, <1>8, <1>9 DEF Levels

LEMMA ForgottenAnswers ==
    ASSUME IInv, AnswersInv, Forgotten PROVE AnswersInv'
<1>1. stack # <<>> /\ Top.op = "forgotten"
  BY DEF Forgotten, Running, Top
<1>2. PICK r \in Runners, l \in Levels : r = Top.r /\ l = Top.l
  BY <1>1, TopFacts
<1>3. /\ UNCHANGED <<job, final, reports, state, main, terminated, cwd>>
      /\ permit' = [permit EXCEPT ![r][l] = "none"]
  BY <1>2 DEF Forgotten, SetPermit
<1>4. /\ \A q \in Runners \ {r} : permit'[q] = permit[q]
      /\ permit'[r][l] = "none"
  BY <1>3 DEF IInv, TypeOK
<1>5. CASE l = "global"
  <2> DEFINE fs == <<Call("release", r, "package")>>
  <2>1. /\ fs \in Seq(Frame) /\ DOMAIN fs = {1}
        /\ fs[1].r = r /\ fs[1].op = "release" /\ Continue(fs)
    BY <1>2, <1>5 DEF Forgotten, Call, Frame, Ops, Levels
  <2> HIDE DEF fs
  <2> QED BY <1>1, <1>2, <1>3, <1>4, <2>1, CallAnswers
<1>6. CASE l = "package"
  <2> DEFINE fs == <<>>
  <2>1. fs \in Seq(Frame) /\ DOMAIN fs = {} /\ Continue(fs)
    BY <1>2, <1>6 DEF Forgotten
  <2> HIDE DEF fs
  <2>2. SlotOK(r)'
    BY <1>4, <1>6 DEF SlotOK, P
  <2> QED BY <1>1, <1>2, <1>3, <1>4, <2>1, <2>2, CallAnswers
<1> QED BY <1>5, <1>6 DEF Levels

LEMMA ReleaseAnswers ==
    ASSUME IInv, AnswersInv, Release PROVE AnswersInv'
<1>1. stack # <<>> /\ Top.op = "release"
  BY DEF Release, Running, Top
<1>2. PICK r \in Runners, l \in Levels : r = Top.r /\ l = Top.l
  BY <1>1, TopFacts
<1>3. PICK s \in Semaphores : s = Sem(r, l)
  BY <1>1, <1>2, TopFacts
<1>4. UNCHANGED <<job, final, reports, state, main, terminated, cwd>>
  BY DEF Release
<1>5. CASE permit[r][l] \in {"held", "forgotten"} /\ queue[s] # <<>>
  <2>1. PICK w : w = Head(queue[s])
    OBVIOUS
  <2>2. w \in Runners
    BY <1>5, <2>1 DEF IInv, TypeOK
  <2> DEFINE fs == <<Call("granted", w, l), Call("forgotten", r, l)>>
  <2>3. /\ permit' = [permit EXCEPT ![r][l] = "forgotten",
                                    ![w][l] = "granted"]
        /\ Continue(fs)
    BY <1>2, <1>3, <1>5, <2>1 DEF Release
  <2>4. /\ fs \in Seq(Frame) /\ DOMAIN fs = {1, 2}
        /\ fs[1].r = w /\ fs[1].op = "granted"
        /\ fs[2].r = r /\ fs[2].op = "forgotten"
    BY <2>2 DEF Call, Frame, Ops
  <2> HIDE DEF fs
  <2>5. \A q \in Runners : q \notin {r, w} => permit'[q] = permit[q]
    BY <2>2, <2>3 DEF IInv, TypeOK
  <2> QED BY <1>1, <1>2, <1>4, <2>3, <2>4, <2>5, CallAnswers
<1>6. CASE permit[r][l] \in {"held", "forgotten"} /\ queue[s] = <<>>
  <2> DEFINE fs == <<Call("forgotten", r, l)>>
  <2>1. /\ permit' = [permit EXCEPT ![r][l] = "forgotten"]
        /\ Continue(fs)
    BY <1>2, <1>3, <1>6 DEF Release, SetPermit
  <2>2. /\ fs \in Seq(Frame) /\ DOMAIN fs = {1}
        /\ fs[1].r = r /\ fs[1].op = "forgotten"
    BY DEF Call, Frame, Ops
  <2> HIDE DEF fs
  <2>3. \A q \in Runners \ {r} : permit'[q] = permit[q]
    BY <2>1 DEF IInv, TypeOK
  <2> QED BY <1>1, <1>2, <1>4, <2>1, <2>2, <2>3, CallAnswers
<1>7. CASE permit[r][l] \notin {"held", "forgotten"}
  <2>1. /\ Continue(IF l = "global"
                    THEN <<Call("release", r, "package")>> ELSE <<>>)
        /\ UNCHANGED permit
    BY <1>2, <1>3, <1>7 DEF Release
  <2>2. CASE l = "global"
    <3> DEFINE fs == <<Call("release", r, "package")>>
    <3>1. /\ fs \in Seq(Frame) /\ DOMAIN fs = {1}
          /\ fs[1].r = r /\ fs[1].op = "release" /\ Continue(fs)
      BY <2>1, <2>2 DEF Call, Frame, Ops, Levels
    <3> HIDE DEF fs
    <3> QED BY <1>1, <1>2, <1>4, <2>1, <3>1, CallAnswers
  <2>3. CASE l = "package"
    <3> DEFINE fs == <<>>
    <3>1. fs \in Seq(Frame) /\ DOMAIN fs = {} /\ Continue(fs)
      BY <2>1, <2>3
    <3> HIDE DEF fs
    <3>2. SlotOK(r)'
      BY <1>7, <2>1, <2>3 DEF SlotOK, P
    <3> QED BY <1>1, <1>2, <1>4, <2>1, <3>1, <3>2, CallAnswers
  <2> QED BY <2>2, <2>3 DEF Levels
<1> QED BY <1>5, <1>6, <1>7

(* The callback of the request is the last call there is. *)
LEMMA ReportAnswers ==
    ASSUME IInv, AnswersInv, Report PROVE AnswersInv'
<1>1. stack # <<>> /\ Top.op = "report"
  BY DEF Report, Running, Top
<1>2. PICK r \in Runners : r = Top.r
  BY <1>1, TopFacts
<1>3. /\ 1 \in DOMAIN stack /\ Top = stack[1] /\ stack \in Seq(Frame)
      /\ DOMAIN stack = 1..Len(stack) /\ Len(stack) \in Nat
  BY <1>1, StackTop DEF IInv, TypeOK
<1>4. Len(stack) = 1
  BY <1>1, <1>3 DEF AnswersInv, LastReport
<1>5. stack' = <<>>
  BY <1>3, <1>4 DEF Report, Continue
<1>6. /\ UNCHANGED <<job, final, state, main, permit, terminated, cwd>>
      /\ reports' = [reports EXCEPT ![r] = @ + 1]
  BY <1>2 DEF Report
<1>7. /\ LastReport' /\ \A q \in Runners : ~ Reporting(q)' /\ ~ Busy(q)'
  BY <1>5 DEF LastReport, Reporting, Busy
<1>8. \A q \in Runners : ~ Busy(q)
  BY <1>1, <1>3, <1>4 DEF Busy
<1>9. Reporting(r)
  BY <1>1, <1>2, <1>3 DEF Reporting
<1>10. ASSUME NEW q \in Runners PROVE AnswerOK(q)'
  <2>1. /\ AnswerOK(q) /\ reports[q] \in Nat /\ Ended(q)' = Ended(q)
        /\ Ended(q) \in Nat
    BY <1>6 DEF AnswersInv, IInv, TypeOK, Ended, One, IsInstall
  <2>2. Reporting(q) <=> q = r
    BY <1>2, <1>3, <1>4, <1>9 DEF Reporting
  <2>3. reports'[q] + One(Reporting(q)') = Ended(q)'
    <3>1. reports'[q] = reports[q] + One(Reporting(q))
      BY <1>6, <2>1, <2>2 DEF One, IInv, TypeOK
    <3> QED BY <1>7, <2>1, <3>1 DEF AnswerOK, One
  <2> QED BY <1>6, <2>1, <2>3 DEF AnswerOK, One, IsInstall
<1>11. ASSUME NEW q \in Runners PROVE SlotOK(q)'
  BY <1>6, <1>8 DEF AnswersInv, SlotOK, P, IsInstall, Open
<1> QED BY <1>7, <1>10, <1>11 DEF AnswersInv

-----------------------------------------------------------------------------
LEMMA InitAnswers == Init => AnswersInv
BY DEF Init, AnswersInv, LastReport, AnswerOK, SlotOK, Ended, One, IsInstall,
       Reporting, P, Finalizers, Levels

LEMMA NextAnswers == IInv /\ AnswersInv /\ [Next]_vars => AnswersInv'
<1> SUFFICES ASSUME IInv, AnswersInv, [Next]_vars PROVE AnswersInv'
  OBVIOUS
<1>1. CASE Step
  BY <1>1, AcquireAnswers, GrantedAnswers, ReleaseAnswers, ForgottenAnswers,
     ReportAnswers DEF Step
<1>2. ASSUME NEW r \in Runners, RunnerEvent(r) PROVE AnswersInv'
  BY <1>2, MainAnswers, MainEndsAnswers, RemovedAnswers, CheckCloseAnswers,
     PreparedAnswers, UnlockedAnswers DEF RunnerEvent
<1>3. ASSUME NEW r \in Runners, UserEvent(r) PROVE AnswersInv'
  <2>1. ASSUME NEW p \in Packages, NEW d \in DebugOptions, Install(r, p, d)
        PROVE  AnswersInv'
    BY <2>1, RequestAnswers, DebugOptionsAssumption DEF Install, CanInstall
  <2>2. ASSUME NEW p \in Packages, NEW d \in DebugOptions,
               InitializeFails(r, p, d)
        PROVE  AnswersInv'
    BY <2>2, InitializeFailsAnswers, DebugOptionsAssumption
  <2>3. ASSUME NEW p \in Packages, Uninstall(r, p) PROVE AnswersInv'
    BY <2>3, RequestAnswers DEF Uninstall
  <2>4. ASSUME Terminate(r) PROVE AnswersInv'
    <3>1. PICK R \in SUBSET Runners : R = {r}
      OBVIOUS
    <3> QED BY <2>4, <3>1, TerminateAnswers DEF Terminate
  <2> QED BY <1>3, <2>1, <2>2, <2>3, <2>4 DEF UserEvent
<1>4. ASSUME NEW r \in Runners, Spawn(r) \/ ChildExits(r) \/ GraceOver(r)
      PROVE  AnswersInv'
  BY <1>4, MainAnswers
<1>5. CASE Exit
  <2>1. PICK R \in SUBSET Runners : R = {r \in Runners : Open(r)}
    OBVIOUS
  <2> QED BY <1>5, <2>1, TerminateAnswers DEF Exit
<1>6. CASE UNCHANGED vars
  <2>1. UNCHANGED <<job, state, terminated, main, cwd, final, reports, permit,
                    stack>>
    BY <1>6 DEF vars
  <2>2. /\ LastReport'
        /\ \A q \in Runners : /\ Reporting(q)' <=> Reporting(q)
                              /\ Busy(q) => Busy(q)'
    BY <2>1 DEF LastReport, Reporting, Busy, AnswersInv
  <2> QED BY <2>1, <2>2, AnswerFrame DEF AnswersInv
<1> QED BY <1>1, <1>2, <1>3, <1>4, <1>5, <1>6 DEF Next

LEMMA AnswersHold == Spec => [](IInv /\ AnswersInv)
<1>1. IInv /\ AnswersInv /\ [Next]_vars => IInv' /\ AnswersInv'
  BY NextInvariant, NextAnswers
<1>2. Init => IInv /\ AnswersInv
  BY InitInvariant, InitAnswers
<1> QED BY <1>1, <1>2, PTL DEF Spec

(* A request that is over was answered exactly so often: an installation   *)
(* once, not at all if its finalizer died, twice if terminate() came while *)
(* that finalizer waited with the handle still open, and never by the main *)
(* coroutine after terminate(); however the two paths meet.                *)
THEOREM IsAnsweredExactly == Spec => AnsweredExactly
<1>1. ASSUME IInv, AnswersInv, NEW r \in Runners, Idle,
             job[r].kind # "none", Settled(r) \/ Dead(r)
      PROVE  reports[r] = Answers(r)
  <2>1. AnswerOK(r) /\ RunnerOK(r)
    BY <1>1 DEF AnswersInv, IInv
  <2>2. reports[r] = Ended(r)
    <3>1. ~ Reporting(r) /\ reports[r] \in Nat
      BY <1>1, IdleCalls DEF IInv, TypeOK
    <3> QED BY <2>1, <3>1 DEF AnswerOK, One
  <2>3. CASE Dead(r)
    <3>1. job[r].debug /\ cwd[r] = "none" /\ IsInstall(r)
      BY <2>1, <2>3 DEF Dead, AnswerOK, RunnerOK, Finalizers
    <3>2. final[r]["own"] # "done" /\ final[r]["abort"] # "done"
      BY <2>1, <3>1 DEF AnswerOK, Finalizers
    <3> QED BY <2>2, <2>3, <3>1, <3>2 DEF Ended, One, Answers
  <2>4. CASE ~ Dead(r) /\ IsInstall(r)
    <3>1. /\ state[r] = "CLOSED"
          /\ final[r]["own"] \in {"none", "done"}
          /\ final[r]["abort"] \in {"none", "done"}
          /\ main[r] \in {"cancelled", "done"}
      <4>1. state[r] \in HandleStates
        BY <1>1, RunnerType DEF IInv
      <4> QED BY <1>1, <2>1, <2>4, <4>1
              DEF Settled, Open, AnswerOK, RunnerOK, HandleStates, Closing
    <3>2. /\ final[r]["own"] = "done" <=> main[r] = "done"
          /\ final[r]["abort"] = "done" <=> terminated[r]
          /\ main[r] = "done" \/ terminated[r]
      BY <2>1, <2>4, <3>1 DEF AnswerOK
    <3> QED BY <2>2, <2>4, <3>2 DEF Ended, One, Answers
  <2>5. CASE ~ Dead(r) /\ ~ IsInstall(r)
    BY <2>2, <2>5 DEF Ended, One, Answers
  <2> QED BY <2>3, <2>4, <2>5
<1>2. ASSUME IInv, AnswersInv, [Next]_vars, NEW r \in Runners,
             final[r]["own"] = "none", final'[r]["own"] # "none"
      PROVE  ~ terminated[r]
  <2>1. RunnerOK(r) /\ final \in [Runners -> [Finalizers -> FinalStates]]
    BY <1>2 DEF IInv, TypeOK
  <2>2. CASE MainEnds(r)
    <3>1. main[r] \in {"locking", "installing", "linking"}
      BY <2>2 DEF MainEnds
    <3>2. IsInstall(r)
      <4>1. job[r].kind \in {"none", "install", "uninstall"}
        BY <1>2, RunnerType DEF IInv
      <4> QED BY <2>1, <3>1, <4>1 DEF RunnerOK, IsInstall
    <3> QED BY <2>1, <3>1, <3>2 DEF RunnerOK, Closing
  <2>3. CASE \E p \in Packages, d \in DebugOptions : InitializeFails(r, p, d)
    BY <2>1, <2>3 DEF InitializeFails, CanInstall, RunnerOK
  <2>4. ASSUME NEW q \in Runners, MainEnds(q) PROVE MainEnds(r)
    <3>1. \E f : final' = [final EXCEPT ![q]["own"] = f]
      BY <2>4 DEF MainEnds, FinalizeOwn, SetFinal
    <3>2. q = r
      BY <1>2, <2>1, <3>1
    <3> QED BY <2>4, <3>2
  <2>5. ASSUME NEW q \in Runners, NEW p \in Packages, NEW d \in DebugOptions,
               InitializeFails(q, p, d)
        PROVE  InitializeFails(r, p, d)
    <3>1. \E f : final' = [final EXCEPT ![q]["own"] = f]
      BY <2>5 DEF InitializeFails, SetFinal
    <3>2. q = r
      BY <1>2, <2>1, <3>1
    <3> QED BY <2>5, <3>2
  <2>6. ASSUME NEW q \in Runners, CheckClose(q) PROVE FALSE
    <3>1. \/ UNCHANGED final
          \/ \E f : final' = [final EXCEPT ![q]["abort"] = f]
      BY <2>6 DEF CheckClose, FinalizeAbort, SetFinal
    <3> QED BY <1>2, <2>1, <3>1 DEF Finalizers
  <2>7. ASSUME NEW q \in Runners, NEW a \in Finalizers,
               LogWritten(q, a) \/ Swept(q, a) \/ Unlocked(q, a)
        PROVE  FALSE
    <3>1. /\ final[q][a] # "none"
          /\ \E f : final' = [final EXCEPT ![q][a] = f]
      BY <2>7 DEF LogWritten, Swept, Unlocked, SetFinal
    <3> QED BY <1>2, <2>1, <3>1 DEF Finalizers
  <2>8. final' # final
    BY <1>2
  <2>9. ~ Step
    BY <2>8 DEF Step, Acquire, Granted, Release, Forgotten, Report
  <2>10. ~ Exit /\ ~ UNCHANGED vars
    BY <2>8 DEF Exit, vars
  <2>11. PICK q \in Runners :
            \/ RunnerEvent(q) \/ UserEvent(q)
            \/ Spawn(q) \/ ChildExits(q) \/ GraceOver(q)
    BY <1>2, <2>9, <2>10 DEF Next
  <2>12. /\ ~ LockTaken(q) /\ ~ Promote(q) /\ ~ Removed(q)
         /\ ~ Terminate(q) /\ ~ Spawn(q) /\ ~ ChildExits(q)
         /\ ~ GraceOver(q)
         /\ \A p \in Packages : /\ ~ Uninstall(q, p)
                               /\ \A d \in DebugOptions : ~ Install(q, p, d)
    BY <2>8 DEF LockTaken, Promote, Removed, Terminate, Spawn, ChildExits,
                GraceOver, Uninstall, Install, Request
  <2>13. MainEnds(r)
            \/ \E p \in Packages, d \in DebugOptions :
                  InitializeFails(r, p, d)
    BY <2>4, <2>5, <2>6, <2>7, <2>11, <2>12 DEF RunnerEvent, UserEvent
  <2> QED BY <2>2, <2>3, <2>13
<1>3. IInv /\ AnswersInv
         => \A r \in Runners :
               Idle /\ job[r].kind # "none" /\ (Settled(r) \/ Dead(r))
                  => reports[r] = Answers(r)
  BY <1>1
<1>4. IInv /\ AnswersInv /\ [Next]_vars
         => \A r \in Runners :
               final[r]["own"] = "none" /\ final'[r]["own"] # "none"
                  => ~ terminated[r]
  BY <1>2
<1> QED BY <1>3, <1>4, AnswersHold, PTL DEF Spec, AnsweredExactly

(* Once nothing is under way every slot of every semaphore is free again,  *)
(* unless a finalizer died: no order of requests, grants, cancellations    *)
(* and failures loses one.                                                 *)
THEOREM NoSlotIsLost == Spec => []NoSlotLost
<1>1. IInv /\ AnswersInv => NoSlotLost
  <2> SUFFICES ASSUME IInv, AnswersInv, Idle, \A r \in Runners : Settled(r),
                      NEW s \in Semaphores
               PROVE  free[s] = Capacity(s)
    BY DEF NoSlotLost
  <2>1. ASSUME NEW r \in Runners, NEW l \in Levels,
               permit[r][l] \in {"granted", "held"}
        PROVE  FALSE
    <3>1. /\ ~ Busy(r) /\ Resting(r) /\ PairOK(r) /\ RunnerOK(r)
          /\ SlotOK(r) /\ Settled(r)
      BY IdleCalls DEF IInv, StackOK, AnswersInv
    <3>2. G(r) = "held" /\ P(r) \in {"waiting", "held"}
      BY <2>1, <3>1 DEF Resting, PairOK, G, P, Levels
    <3>3. PICK p \in Semaphores : p = Sem(r, "package")
      BY <3>1, <3>2, RunnerType DEF RunnerOK, IInv, Sem, Semaphores
    <3>4. CASE P(r) = "waiting"
      <4>1. r \in Elements(queue[p])
        BY <3>3, <3>4 DEF IInv, QueueOK, With, P, Levels
      <4> QED BY <3>1, <4>1 DEF Elements, Settled
    <3>5. CASE P(r) = "held"
      BY <3>1, <3>5 DEF SlotOK, Settled, Finalizers
    <3> QED BY <3>2, <3>4, <3>5
  <2>2. With(s, {"granted", "held"}) = {}
    BY <2>1 DEF With
  <2>3. Cardinality(With(s, {"granted", "held"})) = 0
    BY <2>2, FS_EmptySet
  <2>4. /\ free[s] + Cardinality(With(s, {"granted", "held"})) = Capacity(s)
        /\ free[s] \in Nat
    BY DEF IInv, QueueOK, TypeOK
  <2> QED BY <2>3, <2>4
<1> QED BY <1>1, AnswersHold, PTL
=============================================================================

-------------------------- MODULE JsBinder_proofs --------------------------
(***************************************************************************)
(* The Binder for any family of targets: its types, and that the order of  *)
(* the sessions' ends is kept.                                             *)
(***************************************************************************)
EXTENDS JsBinder, TLAPS

USE MaxAskedAssumption, RootAssumption, WorkersAssumption
    DEF Nodes, Running, Terminating, Terminated, Disconnected, Bound

-----------------------------------------------------------------------------
(* The initial state has the types. *)
LEMMA InitTypes == Init => TypeOK
<1> SUFFICES ASSUME Init PROVE TypeOK
  OBVIOUS
<1>1. TreeTypes
  BY DEF Init, TreeTypes
<1>2. SessionTypes
  <2>1. /\ state \in [Nodes -> Running..Disconnected]
        /\ mark \in [Nodes -> {"no", "thread", "dispose", "kids", "done"}]
        /\ markWait \in [Nodes -> SUBSET Targets]
    BY DEF Init
  <2> QED BY <2>1 DEF Init, SessionTypes
<1>3. LauncherTypes /\ RequestTypes
  <2>1. /\ term \in [Nodes -> {"no", "wait", "done"}]
        /\ disc \in [Nodes -> {"no", "wait", "kids", "done"}]
        /\ discWait \in [Nodes -> SUBSET Targets]
    BY DEF Init
  <2>2. asked \in 0..MaxAsked
    BY DEF Init
  <2> QED BY <2>1, <2>2 DEF Init, LauncherTypes, RequestTypes
<1>4. CloseTypes
  <2>1. close \in [Callers -> {"no", "stop", "kids", "done"}]
    BY DEF Init
  <2> QED BY <2>1 DEF Init, CloseTypes
<1> QED BY <1>1, <1>2, <1>3, <1>4 DEF TypeOK

(* What leaves the list leaves the types as they are. *)
LEMMA LeaveTypes ==
    ASSUME TreeTypes, SessionTypes, NEW ts, Leave(ts), UNCHANGED at
    PROVE  TreeTypes' /\ SessionTypes'
<1>1. TreeTypes'
  BY DEF Leave, TreeTypes
<1>2. SessionTypes'
  BY DEF Leave, TreeTypes, SessionTypes
<1> QED BY <1>1, <1>2

(* So does a node that reaches a further state, if its target was seen. *)
LEMMA ReachTypes ==
    ASSUME SessionTypes, NEW n \in seen \cup {Root}, NEW s \in 0..3,
           state' = Reach(n, s), UNCHANGED <<seen, at, mark, markWait, sent>>
    PROVE  SessionTypes'
BY DEF SessionTypes, Reach

(* The debuggee. *)
LEMMA DebuggeeTypes == ASSUME TypeOK, Debuggee PROVE TypeOK'
<1> USE DEF TypeOK
<1>1. ASSUME NEW t \in Targets, NEW p \in Nodes, TargetAppears(t, p)
      PROVE  TypeOK'
  <2>1. TreeTypes' /\ SessionTypes'
    BY <1>1 DEF TargetAppears, TreeTypes, SessionTypes, markVars
  <2> QED BY <1>1, <2>1 DEF TargetAppears, LauncherTypes, RequestTypes,
             CloseTypes, launcherVars, requestVars, closeVars
<1>2. ASSUME NEW t \in Targets, TargetEnds(t)
      PROVE  TypeOK'
  BY <1>2, LeaveTypes DEF TargetEnds, LauncherTypes, RequestTypes,
     CloseTypes, Leave, launcherVars, requestVars, closeVars
<1>3. CASE ProgramEnds
  BY <1>3, LeaveTypes DEF ProgramEnds, LauncherTypes, RequestTypes,
     CloseTypes, Leave, requestVars, closeVars
<1>4. ASSUME NEW t \in Targets, Detached(t)
      PROVE  TypeOK'
  <2>1. TreeTypes' /\ SessionTypes'
    BY <1>4, LeaveTypes DEF Detached, TreeTypes, SessionTypes, treeVars,
       markVars
  <2>2. seen' = seen
    BY <1>4 DEF Detached, Leave, treeVars
  <2> QED BY <1>4, <2>1, <2>2 DEF Detached, LauncherTypes, RequestTypes,
             CloseTypes, launcherVars, requestVars, closeVars
<1> QED BY <1>1, <1>2, <1>3, <1>4 DEF Debuggee

(* attach(). *)
LEMMA AttachingTypes ==
    ASSUME TypeOK, NEW t \in Targets, Attaching(t) PROVE TypeOK'
BY DEF TypeOK, TreeTypes, SessionTypes, LauncherTypes, RequestTypes,
   CloseTypes, Attaching, AttachReturns, DapAcquired, ThreadStarted,
   treeVars, launcherVars, markVars, requestVars, closeVars

(* _markTargetAsTerminated(), after its first await. *)
LEMMA MarkingTypes == ASSUME TypeOK, Marking PROVE TypeOK'
<1> USE DEF TypeOK, treeVars, launcherVars, markVars, requestVars, closeVars
<1>1. CASE MarkRoot
  <2>1. TreeTypes' /\ LauncherTypes' /\ RequestTypes' /\ CloseTypes'
    BY <1>1 DEF MarkRoot, TreeTypes, LauncherTypes, RequestTypes, CloseTypes
  <2>2. SessionTypes'
    BY <1>1 DEF MarkRoot, Reach, TreeTypes, SessionTypes
  <2> QED BY <2>1, <2>2
<1>2. ASSUME NEW t \in Targets, MarkThread(t) \/ MarkSend(t)
      PROVE  TypeOK'
  <2>1. TreeTypes' /\ LauncherTypes' /\ RequestTypes' /\ CloseTypes'
    BY <1>2 DEF MarkThread, MarkSend, TreeTypes, LauncherTypes,
       RequestTypes, CloseTypes
  <2>2. SessionTypes'
    BY <1>2 DEF MarkThread, MarkSend, TreeTypes, SessionTypes
  <2> QED BY <2>1, <2>2
<1>3. ASSUME NEW n \in Nodes, MarkDone(n)
      PROVE  TypeOK'
  <2>1. TreeTypes' /\ LauncherTypes' /\ RequestTypes' /\ CloseTypes'
    BY <1>3 DEF MarkDone, TreeTypes, LauncherTypes, RequestTypes, CloseTypes
  <2>2. SessionTypes'
    BY <1>3 DEF MarkDone, Reach, TreeTypes, SessionTypes
  <2> QED BY <2>1, <2>2
<1> QED BY <1>1, <1>2, <1>3 DEF Marking

(* The answers to the requests. *)
LEMMA ReplyingTypes == ASSUME TypeOK, Replying PROVE TypeOK'
<1> USE DEF TypeOK, treeVars, launcherVars, markVars, requestVars, closeVars
<1>1. ASSUME NEW c \in Callers, LauncherTerminated(c)
      PROVE  TypeOK'
  BY <1>1 DEF LauncherTerminated, TreeTypes, SessionTypes, LauncherTypes,
     RequestTypes, CloseTypes
<1>2. ASSUME NEW c \in Callers, TerminateRootDone(c)
      PROVE  TypeOK'
  <2>1. TreeTypes' /\ LauncherTypes' /\ RequestTypes' /\ CloseTypes'
    BY <1>2 DEF TerminateRootDone, TreeTypes, LauncherTypes, RequestTypes,
       CloseTypes
  <2>2. SessionTypes'
    BY <1>2, ReachTypes DEF TerminateRootDone
  <2> QED BY <2>1, <2>2
<1>3. ASSUME NEW t \in Targets, TerminateReply(t)
      PROVE  TypeOK'
  BY <1>3 DEF TerminateReply, TreeTypes, SessionTypes, LauncherTypes,
     RequestTypes, CloseTypes
<1>4. CASE TerminateAllReply
  BY <1>4 DEF TerminateAllReply, TreeTypes, SessionTypes, LauncherTypes,
     RequestTypes, CloseTypes
<1>5. ASSUME NEW n \in Nodes, DisconnectKids(n)
      PROVE  TypeOK'
  <2>1. TreeTypes' /\ SessionTypes' /\ LauncherTypes' /\ CloseTypes'
    BY <1>5 DEF DisconnectKids, TreeTypes, SessionTypes, LauncherTypes,
       CloseTypes
  <2>2. RequestTypes'
    BY <1>5 DEF DisconnectKids, TreeTypes, RequestTypes
  <2> QED BY <2>1, <2>2
<1>6. ASSUME NEW n \in Nodes, DisconnectReply(n)
      PROVE  TypeOK'
  <2>1. TreeTypes' /\ LauncherTypes' /\ CloseTypes'
    BY <1>6 DEF DisconnectReply, TreeTypes, LauncherTypes, CloseTypes
  <2>2. RequestTypes' /\ n \in seen \cup {Root}
    BY <1>6 DEF DisconnectReply, TreeTypes, RequestTypes
  <2>3. SessionTypes'
    BY <1>6, <2>2, ReachTypes DEF DisconnectReply
  <2> QED BY <2>1, <2>2, <2>3
<1> QED BY <1>1, <1>2, <1>3, <1>4, <1>5, <1>6 DEF Replying

(* _terminateRoot(), up to its first await. *)
LEMMA TerminateRootTypes ==
    ASSUME TypeOK, NEW c \in Callers, TerminateRoot(c),
           UNCHANGED <<seen, at, markVars, detaching>>
    PROVE  SessionTypes' /\ LauncherTypes' /\ CloseTypes'
<1>1. SessionTypes'
  BY ReachTypes DEF TypeOK, TerminateRoot, markVars
<1>2. LauncherTypes' /\ CloseTypes'
  BY DEF TypeOK, TerminateRoot, LauncherTypes, CloseTypes
<1> QED BY <1>1, <1>2

(* The requests. *)
LEMMA RequestsTypes == ASSUME TypeOK, Requests PROVE TypeOK'
<1> USE DEF TypeOK, treeVars, launcherVars, markVars, closeVars
<1>1. CASE TerminateAll
  <2>1. TreeTypes' /\ RequestTypes'
    BY <1>1 DEF TerminateAll, UserAsks, TreeTypes, RequestTypes
  <2> QED BY <1>1, <2>1, TerminateRootTypes DEF TerminateAll, Callers
<1>2. CASE DisconnectAll
  <2>1. TreeTypes' /\ RequestTypes'
    BY <1>2 DEF DisconnectAll, AsksAgain, UserAsks, TreeTypes, RequestTypes
  <2>2. SessionTypes' /\ LauncherTypes' /\ CloseTypes'
    <3>1. CASE state[Root] < Terminating
      BY <1>2, <3>1, TerminateRootTypes DEF DisconnectAll, Callers
    <3>2. CASE ~(state[Root] < Terminating)
      BY <1>2, <3>2 DEF DisconnectAll, TreeTypes, SessionTypes,
         LauncherTypes, CloseTypes
    <3> QED BY <3>1, <3>2
  <2> QED BY <2>1, <2>2
<1>3. ASSUME NEW t \in Targets, Terminate(t)
      PROVE  TypeOK'
  <2>1. RequestTypes'
    <3>1. asked' \in 0..MaxAsked /\ term' \in [Nodes -> {"no", "wait", "done"}]
      BY <1>3 DEF Terminate, UserAsks, RequestTypes
    <3>2. seen' = seen
      BY <1>3 DEF Terminate, Leave
    <3> QED BY <1>3, <3>1, <3>2 DEF Terminate, RequestTypes
  <2>2. CASE TerminateRoot(<<t, "terminate">>) /\ t \in Workers
             /\ UNCHANGED <<treeVars, markVars>>
    <3>1. TreeTypes'
      BY <2>2 DEF TreeTypes
    <3> QED BY <1>3, <2>1, <2>2, <3>1, TerminateRootTypes
            DEF Terminate, Callers
  <2>3. CASE Leave(Gone(t)) /\ UNCHANGED <<launcherVars, closeVars>>
    BY <1>3, <2>1, <2>3, LeaveTypes DEF Terminate, LauncherTypes, CloseTypes
  <2>4. CASE UNCHANGED <<treeVars, state, markVars, launcherVars, closeVars>>
    BY <1>3, <2>1, <2>4 DEF Terminate, TreeTypes, SessionTypes,
       LauncherTypes, CloseTypes
  <2> QED BY <1>3, <2>2, <2>3, <2>4 DEF Terminate
<1>4. ASSUME NEW t \in Targets, Disconnect(t)
      PROVE  TypeOK'
  <2>1. RequestTypes'
    <3>1. asked' \in 0..MaxAsked
      BY <1>4 DEF Disconnect, AsksAgain, UserAsks, RequestTypes
    <3>2. seen' = seen /\ t \in seen
      BY <1>4 DEF Disconnect, Leave, SessionTypes
    <3> QED BY <1>4, <3>1, <3>2 DEF Disconnect, RequestTypes
  <2>2. CASE TerminateRoot(<<t, "disconnect">>) /\ t \in Workers
             /\ UNCHANGED <<treeVars, markVars, detaching>>
    <3>1. TreeTypes'
      BY <2>2 DEF TreeTypes
    <3> QED BY <1>4, <2>1, <2>2, <3>1, TerminateRootTypes
            DEF Disconnect, Callers
  <2>3. CASE Leave(Gone(t)) /\ UNCHANGED <<launcherVars, detaching, closeVars>>
    BY <1>4, <2>1, <2>3, LeaveTypes DEF Disconnect, LauncherTypes, CloseTypes
  <2>4. CASE /\ detaching' \in {detaching, detaching \cup {t}}
             /\ UNCHANGED <<treeVars, state, launcherVars, markVars,
                            closeVars>>
    BY <1>4, <2>1, <2>4 DEF Disconnect, TreeTypes, SessionTypes,
       LauncherTypes, CloseTypes
  <2> QED BY <1>4, <2>2, <2>3, <2>4 DEF Disconnect
<1> QED BY <1>1, <1>2, <1>3, <1>4 DEF Requests

(* Every step keeps the types. *)
LEMMA StepTypes == TypeOK /\ [Next]_vars => TypeOK'
<1> SUFFICES ASSUME TypeOK, [Next]_vars PROVE TypeOK'
  OBVIOUS
<1>1. CASE UNCHANGED vars
  BY <1>1 DEF TypeOK, TreeTypes, SessionTypes, LauncherTypes, RequestTypes,
     CloseTypes, vars, treeVars, launcherVars, markVars, requestVars,
     closeVars
<1> QED BY <1>1, DebuggeeTypes, AttachingTypes, MarkingTypes, ReplyingTypes,
           RequestsTypes DEF Next

(* Every variable has its type, for any family of targets. *)
THEOREM TypeCorrect == Spec => []TypeOK
BY InitTypes, StepTypes, PTL DEF Spec
-----------------------------------------------------------------------------
(* The invariant.                                                          *)

(* What _markTargetAsTerminated() has done of a target decides its state,  *)
(* whether it is listed, whether its event was sent; a session waits for   *)
(* those below it, and is closed, only after it is Terminated.             *)
Marks ==
    \A t \in Targets :
        /\ t \in listed <=> t \in seen /\ mark[t] = "no"
        /\ mark[t] = "no" <=> state[t] = Running
        /\ mark[t] \in {"thread", "dispose", "kids"}
              <=> state[t] = Terminating
        /\ t \in sent <=> mark[t] \in {"kids", "done"}
        /\ disc[t] = "kids" => state[t] = Terminated
        /\ disc[t] = "done" <=> state[t] = Disconnected

(* A node's children are those targets it is the parent of that are not    *)
(* Disconnected.                                                           *)
Family ==
    /\ \A n \in Nodes : \A t \in kids[n] : t \in seen /\ parent[t] = n
    /\ \A t \in seen : t \in kids[parent[t]] \/ state[t] = Disconnected

(* The children n waits for are all that matter. *)
Awaits(n, ts) ==
    \A t \in seen : parent[t] = n => t \in ts \/ state[t] = Disconnected

Order ==
    /\ \A t \in Targets : disc[t] = "kids" => Awaits(t, discWait[t])
    /\ DisconnectInOrder

(* The root's targets have all come, and are over. *)
AllOver == /\ program = "stopped"
           /\ \A t \in seen : parent[t] = Root => state[t] >= Terminated

RootOrder ==
    /\ program = "stopped" => listed = {}
    /\ ending => program = "stopped"
    /\ mark[Root] \in {"no", "kids", "done"}
    /\ mark[Root] = "kids" => /\ program = "stopped"
                              /\ Awaits(Root, markWait[Root])
    /\ \A c \in Callers : /\ close[c] = "kids" => /\ program = "stopped"
                                                  /\ Awaits(Root, closeWait[c])
                          /\ close[c] = "done" => AllOver
    /\ state[Root] = Terminated => AllOver
    /\ term[Root] = "done" => AllOver

IInv == TypeOK /\ Marks /\ Family /\ Order /\ RootOrder

(* The initial state satisfies the invariant. *)
LEMMA InitInvariant == Init => Marks /\ Family /\ Order /\ RootOrder
<1> SUFFICES ASSUME Init PROVE Marks /\ Family /\ Order /\ RootOrder
  OBVIOUS
<1>1. Marks
  BY DEF Init, Marks
<1>2. Family
  BY DEF Init, Family
<1>3. Order
  BY DEF Init, Order, DisconnectInOrder
<1>4. RootOrder
  BY DEF Init, RootOrder
<1> QED BY <1>1, <1>2, <1>3, <1>4

(* A target that comes is a child of a node that is not closed. *)
LEMMA AppearsInvariant ==
    ASSUME IInv, NEW t \in Targets, NEW p \in Nodes, TargetAppears(t, p)
    PROVE  Marks' /\ Family' /\ Order' /\ RootOrder'
<1> USE DEF IInv, TypeOK, TreeTypes, SessionTypes
<1>0. p # Root => p \in listed
  BY DEF TargetAppears, IsParent
<1>1. Marks'
  BY DEF TargetAppears, Marks, markVars, requestVars, RequestTypes
<1>2. Family'
  BY DEF TargetAppears, Family, Marks, RequestTypes
<1>3. Order'
  BY <1>0 DEF TargetAppears, Order, Awaits, DisconnectInOrder, Marks,
     requestVars, RequestTypes
<1>4. RootOrder'
  BY <1>0 DEF TargetAppears, RootOrder, Awaits, AllOver, launcherVars,
     markVars, requestVars, closeVars
<1> QED BY <1>1, <1>2, <1>3, <1>4

(* No session of a target is answered: at most some begin to wait. *)
NoReply ==
    \A t \in Targets :
        /\ discWait'[t] = discWait[t]
        /\ disc'[t] = disc[t] \/ (disc[t] = "no" /\ disc'[t] = "wait")

USE DEF NoReply

(* Leaving the list changes the states of listed targets only. *)
LEMMA LeaveInvariant ==
    ASSUME IInv, NEW ts, Leave(ts), NoReply, UNCHANGED <<close, closeWait>>,
           term'[Root] = term[Root]
    PROVE  /\ Marks' /\ Family' /\ Order'
           /\ UNCHANGED <<program, ending>> => RootOrder'
<1> USE DEF IInv, TypeOK, TreeTypes, SessionTypes
<1>0. \A t \in Targets :
         /\ state'[t] # state[t] => state[t] = Running
         /\ state'[t] # Disconnected \/ state[t] = Disconnected
  BY DEF Leave, Marks
<1>1. Marks'
  BY DEF Leave, Marks, RequestTypes
<1>2. Family'
  BY <1>0 DEF Leave, Family
<1>3. Order'
  BY <1>0 DEF Leave, Order, Awaits, DisconnectInOrder, RequestTypes
<1>4. ASSUME UNCHANGED <<program, ending>> PROVE RootOrder'
  BY <1>0, <1>4 DEF Leave, RootOrder, Awaits, AllOver
<1> QED BY <1>1, <1>2, <1>3, <1>4

(* What leaves the tree and the sessions of targets alone keeps most. *)
LEMMA FrameInvariant ==
    ASSUME Marks, Family, Order, UNCHANGED <<listed, seen, parent, kids>>,
           \A t \in Targets : /\ state'[t] = state[t] /\ mark'[t] = mark[t]
                              /\ t \in sent' <=> t \in sent,
           TypeOK, NoReply
    PROVE  Marks' /\ Family' /\ Order'
<1> USE DEF TypeOK, TreeTypes
<1>1. Marks'
  BY DEF Marks
<1>2. Family'
  BY DEF Family
<1>3. Order'
  BY DEF Order, Awaits, DisconnectInOrder
<1> QED BY <1>1, <1>2, <1>3

(* Processes and workers that come and go keep the invariant. *)
LEMMA DebuggeeInvariant ==
    ASSUME IInv, Debuggee PROVE Marks' /\ Family' /\ Order' /\ RootOrder'
<1>1. ASSUME NEW t \in Targets, TargetEnds(t)
      PROVE  Marks' /\ Family' /\ Order' /\ RootOrder'
  BY <1>1, LeaveInvariant DEF TargetEnds, launcherVars, requestVars,
                              closeVars
<1>2. CASE ProgramEnds
  <2>1. Marks' /\ Family' /\ Order'
    BY <1>2, LeaveInvariant DEF ProgramEnds, requestVars, closeVars
  <2>2. RootOrder'
    BY <1>2 DEF ProgramEnds, Leave, RootOrder, AllOver, IInv, TypeOK,
       TreeTypes, SessionTypes, requestVars, closeVars
  <2> QED BY <2>1, <2>2
<1>3. ASSUME NEW t \in Targets, Detached(t)
      PROVE  Marks' /\ Family' /\ Order' /\ RootOrder'
  <2>1. CASE t \in listed
    BY <1>3, <2>1, LeaveInvariant DEF Detached, launcherVars, requestVars,
                                      closeVars
  <2>2. CASE t \notin listed
    <3>1. Marks' /\ Family' /\ Order'
      BY <1>3, <2>2, FrameInvariant DEF Detached, treeVars, markVars,
         requestVars, IInv
    <3>2. RootOrder'
      BY <1>3, <2>2 DEF Detached, treeVars, markVars, launcherVars,
         requestVars, closeVars, RootOrder, AllOver, Awaits, IInv
    <3> QED BY <3>1, <3>2
  <2> QED BY <2>1, <2>2
<1> QED BY <1>1, <1>2, <1>3, AppearsInvariant DEF Debuggee

(* So do the sessions that are set up. *)
LEMMA AttachingInvariant ==
    ASSUME IInv, NEW t \in Targets, Attaching(t)
    PROVE  Marks' /\ Family' /\ Order' /\ RootOrder'
<1>1. UNCHANGED <<treeVars, state, launcherVars, markVars, requestVars,
                  closeVars>>
  BY DEF Attaching, AttachReturns, DapAcquired, ThreadStarted
<1>2. Marks' /\ Family' /\ Order'
  BY <1>1, FrameInvariant DEF treeVars, markVars, requestVars, IInv
<1>3. RootOrder'
  BY <1>1 DEF treeVars, markVars, launcherVars, requestVars, closeVars,
     RootOrder, AllOver, Awaits, IInv
<1> QED BY <1>2, <1>3

(* The end of the program reaches the root. *)
LEMMA MarkRootInvariant ==
    ASSUME IInv, MarkRoot PROVE Marks' /\ Family' /\ Order' /\ RootOrder'
<1> USE DEF IInv, TypeOK, SessionTypes, TreeTypes
<1>1. \A t \in Targets : /\ state'[t] = state[t] /\ mark'[t] = mark[t]
                         /\ t \in sent' <=> t \in sent
  BY DEF MarkRoot, Reach, markVars
<1>2. Marks' /\ Family' /\ Order'
  BY <1>1, FrameInvariant DEF MarkRoot, treeVars, requestVars
<1>3. RootOrder'
  <2>1. CASE state[Root] >= Terminating
    BY <1>1, <2>1 DEF MarkRoot, RootOrder, AllOver, Awaits, treeVars,
       markVars, requestVars, closeVars
  <2>2. CASE ~(state[Root] >= Terminating)
    <3>1. Awaits(Root, kids[Root])
      BY DEF Family, Awaits
    <3>2. state'[Root] = Terminating /\ program = "stopped"
      BY <2>2 DEF MarkRoot, Reach, RootOrder
    <3> QED BY <1>1, <2>2, <3>1, <3>2 DEF MarkRoot, RootOrder, AllOver,
            Awaits, treeVars, requestVars, closeVars
  <2> QED BY <2>1, <2>2
<1> QED BY <1>2, <1>3

(* A thread is disposed of, and `terminated` sent. *)
LEMMA MarkTargetInvariant ==
    ASSUME IInv, NEW t \in Targets, MarkThread(t) \/ MarkSend(t)
    PROVE  Marks' /\ Family' /\ Order' /\ RootOrder'
<1> USE DEF IInv, TypeOK, SessionTypes, TreeTypes, treeVars, requestVars
<1>1. Marks'
  BY DEF MarkThread, MarkSend, Marks
<1>2. Family' /\ Order'
  BY DEF MarkThread, MarkSend, Family, Order, Awaits, DisconnectInOrder
<1>3. RootOrder'
  BY DEF MarkThread, MarkSend, RootOrder, AllOver, Awaits, launcherVars,
     closeVars
<1> QED BY <1>1, <1>2, <1>3

(* A node that has waited for its children is Terminated. *)
LEMMA MarkDoneInvariant ==
    ASSUME IInv, NEW n \in Nodes, MarkDone(n)
    PROVE  Marks' /\ Family' /\ Order' /\ RootOrder'
<1> USE DEF IInv, TypeOK, SessionTypes, TreeTypes, treeVars, requestVars
<1>1. \A t \in Targets :
         /\ t # n => state'[t] = state[t]
         /\ t = n => state[t] = Terminating /\ state'[t] = Terminated
  BY DEF MarkDone, Marks, Reach
<1>2. Marks'
  BY <1>1 DEF MarkDone, Marks
<1>3. Family' /\ Order'
  BY <1>1 DEF MarkDone, Family, Order, Awaits, DisconnectInOrder
<1>4. RootOrder'
  <2>1. CASE n = Root
    <3>1. AllOver
      BY <2>1 DEF MarkDone, RootOrder, Awaits, AllOver, AllAre
    <3>2. AllOver'
      BY <1>1, <2>1, <3>1 DEF MarkDone, AllOver, launcherVars
    <3> QED BY <1>1, <2>1, <3>2 DEF MarkDone, RootOrder, Awaits,
            launcherVars, closeVars
  <2>2. CASE n # Root
    BY <1>1, <2>2 DEF MarkDone, Reach, RootOrder, AllOver, Awaits,
       launcherVars, closeVars
  <2> QED BY <2>1, <2>2
<1> QED BY <1>2, <1>3, <1>4

(* _terminateRoot() begins: it changes the state of the root only. *)
LEMMA TerminateRootInvariant ==
    ASSUME IInv, NEW c \in Callers, TerminateRoot(c),
           UNCHANGED <<treeVars, markVars>>, NoReply,
           term'[Root] = "done" => term[Root] = "done"
    PROVE  Marks' /\ Family' /\ Order' /\ RootOrder'
<1> USE DEF IInv, TypeOK, SessionTypes, TreeTypes, treeVars, markVars
<1>1. \A t \in Targets : state'[t] = state[t]
  BY DEF TerminateRoot, Reach
<1>2. Marks' /\ Family' /\ Order'
  BY <1>1, FrameInvariant
<1>3. RootOrder'
  BY <1>1 DEF TerminateRoot, Reach, RootOrder, AllOver, Awaits, CloseTypes,
     LauncherTypes
<1> QED BY <1>2, <1>3

(* The root knows all its targets once the program has stopped. *)
LEMMA LauncherTerminatedInvariant ==
    ASSUME IInv, NEW c \in Callers, LauncherTerminated(c)
    PROVE  Marks' /\ Family' /\ Order' /\ RootOrder'
<1> USE DEF IInv, TypeOK, TreeTypes, CloseTypes, treeVars, markVars,
    requestVars
<1>1. Marks' /\ Family' /\ Order'
  BY FrameInvariant DEF LauncherTerminated
<1>2. Awaits(Root, kids[Root])
  BY DEF Family, Awaits
<1>3. RootOrder'
  BY <1>2 DEF LauncherTerminated, RootOrder, AllOver, Awaits, launcherVars
<1> QED BY <1>1, <1>3

(* When those it has waited for are Terminated, all are. *)
LEMMA TerminateRootDoneInvariant ==
    ASSUME IInv, NEW c \in Callers, TerminateRootDone(c)
    PROVE  Marks' /\ Family' /\ Order' /\ RootOrder'
<1> USE DEF IInv, TypeOK, TreeTypes, SessionTypes, CloseTypes, treeVars,
    markVars, requestVars
<1>1. \A t \in Targets : state'[t] = state[t]
  BY DEF TerminateRootDone, Reach
<1>2. Marks' /\ Family' /\ Order'
  BY <1>1, FrameInvariant DEF TerminateRootDone
<1>3. AllOver
  BY DEF TerminateRootDone, RootOrder, Awaits, AllOver, AllAre
<1>4. AllOver'
  BY <1>1, <1>3 DEF TerminateRootDone, AllOver, launcherVars
<1>5. RootOrder'
  BY <1>1, <1>4 DEF TerminateRootDone, RootOrder, Awaits, launcherVars
<1> QED BY <1>2, <1>5

(* `terminate` is answered. *)
LEMMA TerminateReplyInvariant ==
    ASSUME IInv,
           TerminateAllReply \/ \E t \in Targets : TerminateReply(t)
    PROVE  Marks' /\ Family' /\ Order' /\ RootOrder'
<1> USE DEF IInv, TypeOK, TreeTypes, RequestTypes, treeVars, markVars,
    closeVars, launcherVars, TerminateAllReply, TerminateReply
<1>1. Marks' /\ Family' /\ Order'
  BY FrameInvariant
<1>2. term'[Root] = "done" => AllOver
  <2>1. CASE TerminateAllReply
    BY <2>1 DEF RootOrder, Callers
  <2>2. ASSUME NEW t \in Targets, TerminateReply(t)
        PROVE  term'[Root] = term[Root]
    BY <2>2
  <2> QED BY <2>1, <2>2 DEF RootOrder
<1>3. RootOrder'
  BY <1>2 DEF RootOrder, AllOver, Awaits
<1> QED BY <1>1, <1>3

(* A session to be closed knows all the targets below it. *)
LEMMA DisconnectKidsInvariant ==
    ASSUME IInv, NEW n \in Nodes, DisconnectKids(n)
    PROVE  Marks' /\ Family' /\ Order' /\ RootOrder'
<1> USE DEF IInv, TypeOK, TreeTypes, SessionTypes, RequestTypes, treeVars,
    markVars, closeVars, launcherVars, DisconnectKids
<1>1. Awaits(n, kids[n])
  BY DEF Family, Awaits
<1>2. n # Root => state[n] = Terminated
  BY DEF Marks
<1>3. Marks'
  BY <1>2 DEF Marks
<1>4. Family'
  BY DEF Family
<1>5. Order'
  BY <1>1 DEF Order, Awaits, DisconnectInOrder
<1>6. RootOrder'
  BY DEF RootOrder, AllOver, Awaits
<1> QED BY <1>3, <1>4, <1>5, <1>6

(* It is closed, and leaves the tree. *)
LEMMA DisconnectReplyInvariant ==
    ASSUME IInv, NEW n \in Nodes, DisconnectReply(n)
    PROVE  Marks' /\ Family' /\ Order' /\ RootOrder'
<1> USE DEF IInv, TypeOK, TreeTypes, SessionTypes, RequestTypes, markVars,
    closeVars, launcherVars, DisconnectReply
<1>1. /\ \A m \in Nodes : state'[m] = IF m = n THEN Disconnected ELSE state[m]
      /\ n # Root => state[n] = Terminated
  BY DEF Reach, Marks
<1>2. Marks'
  BY <1>1 DEF Marks
<1>3. Family'
  BY <1>1 DEF Family
<1>4. n # Root => \A t \in seen : parent[t] = n => state[t] = Disconnected
  BY DEF Order, Awaits, AllAre
<1>5. Order'
  BY <1>1, <1>4 DEF Order, Awaits, DisconnectInOrder
<1>6. RootOrder'
  BY <1>1 DEF RootOrder, AllOver, Awaits
<1> QED BY <1>2, <1>3, <1>5, <1>6

(* The requests, up to their first await. *)
LEMMA RequestsInvariant ==
    ASSUME IInv, Requests PROVE Marks' /\ Family' /\ Order' /\ RootOrder'
<1> USE DEF treeVars, markVars, launcherVars, requestVars, closeVars
<1>1. CASE TerminateAll
  <2>1. term'[Root] # "done"
    BY <1>1 DEF TerminateAll, IInv, TypeOK, RequestTypes
  <2> QED BY <1>1, <2>1, TerminateRootInvariant DEF TerminateAll, Callers
<1>2. CASE DisconnectAll
  <2>1. NoReply
    BY <1>2 DEF DisconnectAll, IInv, TypeOK, RequestTypes, NoReply
  <2>2. CASE state[Root] < Terminating
    BY <1>2, <2>1, <2>2, TerminateRootInvariant DEF DisconnectAll, Callers
  <2>3. CASE ~(state[Root] < Terminating)
    <3>1. Marks' /\ Family' /\ Order'
      BY <1>2, <2>1, <2>3, FrameInvariant DEF DisconnectAll, IInv
    <3>2. RootOrder'
      BY <1>2, <2>3 DEF DisconnectAll, IInv, RootOrder, AllOver, Awaits
    <3> QED BY <3>1, <3>2
  <2> QED BY <2>2, <2>3
<1>3. ASSUME NEW t \in Targets, Terminate(t)
      PROVE  Marks' /\ Family' /\ Order' /\ RootOrder'
  <2>1. term'[Root] = term[Root] /\ UNCHANGED <<disc, discWait>>
    BY <1>3 DEF Terminate, IInv, TypeOK, RequestTypes
  <2>2. CASE TerminateRoot(<<t, "terminate">>) /\ t \in Workers
             /\ UNCHANGED <<treeVars, markVars>>
    BY <2>1, <2>2, TerminateRootInvariant DEF Callers
  <2>3. CASE Leave(Gone(t)) /\ UNCHANGED <<launcherVars, closeVars>>
    BY <1>3, <2>1, <2>3, LeaveInvariant
  <2>4. CASE UNCHANGED <<treeVars, state, markVars, launcherVars, closeVars>>
    <3>1. Marks' /\ Family' /\ Order'
      BY <2>1, <2>4, FrameInvariant DEF IInv
    <3>2. RootOrder'
      BY <2>1, <2>4 DEF IInv, RootOrder, AllOver, Awaits
    <3> QED BY <3>1, <3>2
  <2> QED BY <1>3, <2>2, <2>3, <2>4 DEF Terminate
<1>4. ASSUME NEW t \in Targets, Disconnect(t)
      PROVE  Marks' /\ Family' /\ Order' /\ RootOrder'
  <2>1. NoReply /\ UNCHANGED term
    BY <1>4 DEF Disconnect, IInv, TypeOK, RequestTypes, NoReply
  <2>2. CASE TerminateRoot(<<t, "disconnect">>) /\ t \in Workers
             /\ UNCHANGED <<treeVars, markVars, detaching>>
    BY <2>1, <2>2, TerminateRootInvariant DEF Callers
  <2>3. CASE Leave(Gone(t)) /\ UNCHANGED <<launcherVars, detaching, closeVars>>
    BY <2>1, <2>3, LeaveInvariant
  <2>4. CASE UNCHANGED <<treeVars, state, launcherVars, markVars, closeVars>>
    <3>1. Marks' /\ Family' /\ Order'
      BY <2>1, <2>4, FrameInvariant DEF IInv
    <3>2. RootOrder'
      BY <2>1, <2>4 DEF IInv, RootOrder, AllOver, Awaits
    <3> QED BY <3>1, <3>2
  <2> QED BY <1>4, <2>2, <2>3, <2>4 DEF Disconnect
<1> QED BY <1>1, <1>2, <1>3, <1>4 DEF Requests

(* Every step keeps the invariant. *)
LEMMA StepInvariant == IInv /\ [Next]_vars => IInv'
<1> SUFFICES ASSUME IInv, [Next]_vars
             PROVE  Marks' /\ Family' /\ Order' /\ RootOrder'
  BY StepTypes DEF IInv
<1>1. CASE UNCHANGED vars
  BY <1>1 DEF IInv, Marks, Family, Order, Awaits, DisconnectInOrder,
     RootOrder, AllOver, vars, treeVars, launcherVars, markVars,
     requestVars, closeVars
<1>2. CASE Marking
  BY <1>2, MarkRootInvariant, MarkTargetInvariant, MarkDoneInvariant
     DEF Marking
<1>3. CASE Replying
  BY <1>3, LauncherTerminatedInvariant, TerminateRootDoneInvariant,
     TerminateReplyInvariant, DisconnectKidsInvariant,
     DisconnectReplyInvariant DEF Replying
<1> QED BY <1>1, <1>2, <1>3, DebuggeeInvariant, AttachingInvariant,
           RequestsInvariant DEF Next

(* The invariant holds in every state that can be reached. *)
THEOREM Invariant == Spec => []IInv
BY InitTypes, InitInvariant, StepInvariant, PTL DEF Spec, IInv

-----------------------------------------------------------------------------
(* What the Binder promises.                                               *)

(* The targets the launcher lists are Running, and in the tree under nodes *)
(* that are not closed.                                                    *)
THEOREM ListedAreRunning == Spec => []ListedRunning
<1>1. IInv => ListedRunning
  BY DEF IInv, TypeOK, TreeTypes, SessionTypes, Marks, Family, Order,
     DisconnectInOrder, ListedRunning
<1> QED BY <1>1, Invariant, PTL

(* A target's session is closed after those of the targets below it. *)
THEOREM SessionsCloseInOrder == Spec => []DisconnectInOrder
<1>1. IInv => DisconnectInOrder
  BY DEF IInv, Order
<1> QED BY <1>1, Invariant, PTL

(* The `terminated` event goes out before the session is closed, and after *)
(* the target is gone.                                                     *)
THEOREM EventsInTime == Spec => []EventBeforeClose
<1>1. IInv => EventBeforeClose
  BY DEF IInv, TypeOK, SessionTypes, Marks, EventBeforeClose
<1> QED BY <1>1, Invariant, PTL

(* The root is Terminated, and says so, after everything else. *)
THEOREM RootIsLast == Spec => []RootTerminatedLast
<1>1. IInv => RootTerminatedLast
  BY DEF IInv, RootOrder, AllOver, RootTerminatedLast
<1> QED BY <1>1, Invariant, PTL

-----------------------------------------------------------------------------
(* The Binder implements JsSessions.                                       *)

(* What no step is about does not change the phase of any session. *)
LEMMA SamePhase ==
    ASSUME UNCHANGED <<listed, seen, sent, parent>>, TypeOK, TypeOK',
           \A t \in Targets :
              (state'[t] = Disconnected) <=> (state[t] = Disconnected)
    PROVE  UNCHANGED Sessions!vars
<1>1. \A t \in Targets :
         (state'[t] < Disconnected) <=> (state[t] < Disconnected)
  BY DEF TypeOK, SessionTypes
<1> QED BY <1>1 DEF Phase, Sessions!vars

(* What leaves the list goes; it has not been told of. *)
LEMMA LeaveGoes ==
    ASSUME IInv, NEW ts, Leave(ts) PROVE Sessions!Go(ts \cap listed)
<1>1. \A t \in ts \cap listed : t \in Targets /\ t \notin sent /\ t \in seen
  BY DEF IInv, TypeOK, TreeTypes, Marks
<1>2. Phase' = [t \in Targets |-> IF t \in ts \cap listed THEN "gone"
                                 ELSE Phase[t]]
  <2>1. \A t \in Targets \ (ts \cap listed) : state'[t] = state[t]
    BY DEF Leave
  <2>2. UNCHANGED <<seen, sent>> /\ listed' = listed \ ts
    BY DEF Leave
  <2> QED BY <1>1, <2>1, <2>2 DEF Phase
<1>3. \A t \in ts \cap listed : Phase[t] = "open"
  BY <1>1 DEF Phase
<1> QED BY <1>2, <1>3 DEF Sessions!Go, Leave

(* A target that appears opens a session. *)
LEMMA AppearsOpens ==
    ASSUME IInv, IInv', NEW t \in Targets, NEW p \in Nodes,
           TargetAppears(t, p)
    PROVE  Sessions!Open(t, p)
<1> USE DEF IInv, TypeOK, TreeTypes, SessionTypes
<1>1. Phase[t] = "absent" /\ (p # Root => Phase[p] = "open")
  BY DEF TargetAppears, IsParent, Phase
<1>2. Phase' = [Phase EXCEPT ![t] = "open"]
  BY DEF TargetAppears, Phase, markVars
<1> QED BY <1>1, <1>2 DEF Sessions!Open, TargetAppears

(* `terminated` tells of a target that is gone. *)
LEMMA SendTells ==
    ASSUME IInv, IInv', NEW t \in Targets, MarkSend(t)
    PROVE  Sessions!Tell(t)
<1> USE DEF IInv, TypeOK, TreeTypes, SessionTypes, Marks, MarkSend, treeVars
<1>1. Phase[t] = "gone"
  BY DEF Phase
<1>2. state'[t] < Disconnected
  OBVIOUS
<1>3. Phase' = [Phase EXCEPT ![t] = "told"]
  BY <1>2 DEF Phase
<1> QED BY <1>1, <1>3 DEF Sessions!Tell

(* The answer to `disconnect` closes the session. *)
LEMMA ReplyCloses ==
    ASSUME IInv, IInv', NEW n \in Targets, DisconnectReply(n)
    PROVE  Sessions!Close(n)
<1> USE DEF IInv, TypeOK, TreeTypes, SessionTypes, DisconnectReply, markVars
<1>1. /\ n \in seen /\ n \notin listed /\ n \in sent
      /\ state[n] = Terminated /\ state'[n] = Disconnected
  BY DEF Marks, Reach, RequestTypes
<1>2. Phase[n] = "told"
  BY <1>1 DEF Phase
<1>3. \A k \in Targets : parent[k] = n => Phase[k] \in {"absent", "closed"}
  <2>1. \A k \in seen : parent[k] = n => state[k] = Disconnected
    BY DEF Order, Awaits, AllAre
  <2>2. \A k \in seen : state[k] = Disconnected => k \in sent \ listed
    BY DEF Marks
  <2> QED BY <2>1, <2>2 DEF Phase
<1>4. \A k \in Targets \ {n} : state'[k] = state[k]
  BY DEF Reach
<1>5. Phase' = [Phase EXCEPT ![n] = "closed"]
  <2>1. UNCHANGED <<seen, listed, sent>>
    OBVIOUS
  <2>2. Phase'[n] = "closed"
    BY <1>1, <2>1 DEF Phase
  <2>3. \A k \in Targets \ {n} : Phase'[k] = Phase[k]
    BY <1>4, <2>1 DEF Phase
  <2> HIDE DEF IInv, TypeOK, TreeTypes, SessionTypes, DisconnectReply
  <2> QED BY <2>2, <2>3 DEF Phase
<1> QED BY <1>2, <1>3, <1>5 DEF Sessions!Close

(* Every step is one of JsSessions, or none. *)
LEMMA StepRefines ==
    ASSUME IInv, IInv', [Next]_vars
    PROVE  [Sessions!Next]_(Sessions!vars)
<1> USE DEF treeVars, launcherVars, markVars, requestVars, closeVars
<1> DEFINE Same == \A t \in Targets :
               (state'[t] = Disconnected) <=> (state[t] = Disconnected)
<1>0. ASSUME UNCHANGED <<listed, seen, sent, parent>>, Same
      PROVE  UNCHANGED Sessions!vars
  BY <1>0, SamePhase DEF IInv
<1>1. ASSUME NEW ts \in SUBSET Targets, Leave(ts) PROVE Sessions!Next
  BY <1>1, LeaveGoes DEF Sessions!Next
<1>2. CASE Debuggee
  <2>1. ASSUME NEW t \in Targets, NEW p \in Nodes, TargetAppears(t, p)
        PROVE  Sessions!Next
    BY <2>1, AppearsOpens DEF Sessions!Next
  <2>2. ASSUME NEW t \in Targets, TargetEnds(t) PROVE Sessions!Next
    BY <2>2, <1>1 DEF TargetEnds, Gone
  <2>3. ASSUME ProgramEnds PROVE Sessions!Next
    BY <2>3, <1>1 DEF ProgramEnds, IInv, TypeOK, TreeTypes
  <2>4. ASSUME NEW t \in Targets, Detached(t)
        PROVE  Sessions!Next \/ UNCHANGED Sessions!vars
    BY <2>4, <1>0, <1>1 DEF Detached, Gone
  <2> QED BY <1>2, <2>1, <2>2, <2>3, <2>4 DEF Debuggee
<1>3. CASE \E t \in Targets : Attaching(t)
  BY <1>0, <1>3 DEF Attaching, AttachReturns, DapAcquired, ThreadStarted
<1>4. CASE Marking
  <2>1. CASE MarkRoot
    <3>0. state' = state \/ state' = Reach(Root, Terminating)
      BY <2>1 DEF MarkRoot
    <3>1. UNCHANGED <<listed, seen, parent>> /\ Same
      BY <2>1, <3>0 DEF MarkRoot, Reach, IInv, TypeOK, SessionTypes
    <3>2. \A t \in Targets : t \in sent' <=> t \in sent
      BY <2>1 DEF MarkRoot
    <3>3. \A t \in Targets :
             (state'[t] < Disconnected) <=> (state[t] < Disconnected)
      BY <3>1 DEF IInv, TypeOK, SessionTypes
    <3>4. \A t \in Targets : Phase'[t] = Phase[t]
      BY <3>1, <3>2, <3>3 DEF Phase
    <3>5. /\ Phase' = [t \in Targets |-> Phase'[t]]
          /\ Phase = [t \in Targets |-> Phase[t]]
      BY DEF Phase
    <3>6. Phase' = Phase
      BY <3>4, <3>5
    <3> QED BY <3>1, <3>6 DEF Sessions!vars
  <2>2. ASSUME NEW t \in Targets, MarkThread(t)
        PROVE  UNCHANGED Sessions!vars
    BY <2>2, <1>0 DEF MarkThread
  <2>3. ASSUME NEW t \in Targets, MarkSend(t) PROVE Sessions!Next
    BY <2>3, SendTells DEF Sessions!Next
  <2>4. ASSUME NEW n \in Nodes, MarkDone(n) PROVE UNCHANGED Sessions!vars
    BY <2>4, <1>0 DEF MarkDone, Reach, IInv, TypeOK, SessionTypes
  <2> QED BY <1>4, <2>1, <2>2, <2>3, <2>4 DEF Marking
<1>5. CASE Replying
  <2>1. ASSUME NEW n \in Targets, DisconnectReply(n) PROVE Sessions!Next
    BY <2>1, ReplyCloses DEF Sessions!Next
  <2>2. CASE DisconnectReply(Root)
    BY <2>2, <1>0 DEF DisconnectReply, Reach
  <2>3. ASSUME NEW n \in Nodes, DisconnectKids(n)
        PROVE  UNCHANGED Sessions!vars
    BY <2>3, <1>0 DEF DisconnectKids
  <2>4. ASSUME NEW c \in Callers, LauncherTerminated(c)
        PROVE  UNCHANGED Sessions!vars
    BY <2>4, <1>0 DEF LauncherTerminated
  <2>5. ASSUME NEW c \in Callers, TerminateRootDone(c)
        PROVE  UNCHANGED Sessions!vars
    BY <2>5, <1>0 DEF TerminateRootDone, Reach
  <2>6. CASE \E t \in Targets : TerminateReply(t)
    BY <2>6, <1>0 DEF TerminateReply
  <2>7. CASE TerminateAllReply
    BY <2>7, <1>0 DEF TerminateAllReply
  <2> QED BY <1>5, <2>1, <2>2, <2>3, <2>4, <2>5, <2>6, <2>7 DEF Replying
<1>6. CASE Requests
  <2>1. CASE TerminateAll
    BY <2>1, <1>0 DEF TerminateAll, TerminateRoot, Reach
  <2>2. CASE DisconnectAll
    <3>1. UNCHANGED <<treeVars, markVars>>
      BY <2>2 DEF DisconnectAll
    <3>2. state' = state \/ state' = Reach(Root, Terminating)
      BY <2>2 DEF DisconnectAll, TerminateRoot
    <3>3. Same
      BY <3>2 DEF Reach, IInv, TypeOK, SessionTypes
    <3> QED BY <3>1, <3>3, <1>0
  <2>3. ASSUME NEW t \in Targets, Terminate(t)
        PROVE  Sessions!Next \/ UNCHANGED Sessions!vars
    <3>1. CASE Leave(Gone(t))
      BY <3>1, <1>1 DEF Gone
    <3>2. CASE /\ TerminateRoot(<<t, "terminate">>)
               /\ UNCHANGED <<treeVars, markVars>>
      BY <3>2, <1>0 DEF TerminateRoot, Reach
    <3>3. CASE UNCHANGED <<treeVars, state, markVars>>
      BY <3>3, <1>0
    <3> QED BY <2>3, <3>1, <3>2, <3>3 DEF Terminate
  <2>4. ASSUME NEW t \in Targets, Disconnect(t)
        PROVE  Sessions!Next \/ UNCHANGED Sessions!vars
    <3>1. CASE Leave(Gone(t))
      BY <3>1, <1>1 DEF Gone
    <3>2. CASE /\ TerminateRoot(<<t, "disconnect">>)
               /\ UNCHANGED <<treeVars, markVars>>
      BY <3>2, <1>0 DEF TerminateRoot, Reach
    <3>3. CASE UNCHANGED <<treeVars, state, markVars>>
      BY <3>3, <1>0
    <3> QED BY <2>4, <3>1, <3>2, <3>3 DEF Disconnect
  <2> QED BY <1>6, <2>1, <2>2, <2>3, <2>4 DEF Requests
<1>7. CASE UNCHANGED vars
  BY <1>0, <1>7 DEF vars
<1> QED BY <1>2, <1>3, <1>4, <1>5, <1>6, <1>7 DEF Next

(* The sessions a client sees behave as JsSessions says, whatever the      *)
(* number of targets and the order in which they appear, end and are asked *)
(* to end.                                                                 *)
THEOREM Refinement == Spec => SessionsRefined
<1>1. Init => Sessions!Init
  BY DEF Init, Sessions!Init, Phase
<1>2. IInv /\ IInv' /\ [Next]_vars => [Sessions!Next]_(Sessions!vars)
  BY StepRefines
<1> QED BY <1>1, <1>2, Invariant, PTL
        DEF Spec, SessionsRefined, Sessions!Spec
=============================================================================

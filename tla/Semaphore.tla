----------------------------- MODULE Semaphore -----------------------------
(***************************************************************************)
(* The counting semaphore of mason-core/async/control.lua, as a caller     *)
(* sees it: a coroutine that calls acquire() either takes a permit at once *)
(* or parks its continuation in `handles`; a coroutine that owns a permit  *)
(* gives it back with forget(), which hands it straight to the coroutine   *)
(* that has waited longest.  MasonInstaller uses this module as what its   *)
(* global semaphore and the semaphore of each package promise.             *)
(***************************************************************************)
EXTENDS Naturals, Sequences, FiniteSets

CONSTANTS Clients,   \* the coroutines that may ever call acquire()
          Permits    \* the argument of Semaphore:new

ASSUME ClientsAssumption == IsFiniteSet(Clients)
ASSUME PermitsAssumption == Permits \in Nat

VARIABLES permits,   \* self.permits
          handles,   \* self.handles: the parked coroutines, oldest first
          holders    \* the coroutines that own a Permit object not forgotten

vars == <<permits, handles, holders>>

Waiting == {handles[i] : i \in DOMAIN handles}

TypeOK ==
    /\ permits \in Nat
    /\ handles \in Seq(Clients)
    /\ holders \in SUBSET Clients

Init ==
    /\ permits = Permits
    /\ handles = <<>>
    /\ holders = {}

-----------------------------------------------------------------------------
(* Mutant: acquire() does not look at the permits left. *)
AcquireUnchecked(c) ==
    /\ c \notin holders \cup Waiting
    /\ permits' = permits - 1
    /\ holders' = holders \cup {c}
    /\ UNCHANGED handles

(* acquire(): a coroutine owns at most one permit, and one that is parked  *)
(* does not run, so neither calls acquire() again.                         *)
Acquire(c) ==
    /\ c \notin holders \cup Waiting
    /\ \/ /\ permits > 0
          /\ permits' = permits - 1
          /\ holders' = holders \cup {c}
          /\ UNCHANGED handles
       \/ /\ ~ (permits > 0)
          /\ handles' = Append(handles, c)
          /\ UNCHANGED <<permits, holders>>

(* Mutant: forget() does not take back the permit it hands over. *)
ForgetTwice(c) ==
    /\ c \in holders
    /\ permits' = permits + 1
    /\ IF handles = <<>>
       THEN holders' = holders \ {c} /\ UNCHANGED handles
       ELSE /\ holders' = (holders \ {c}) \cup {Head(handles)}
            /\ handles' = Tail(handles)

(* Mutant: forget() wakes the newest waiter, as Condvar:notify does. *)
ForgetNewestFirst(c) ==
    /\ c \in holders
    /\ IF handles = <<>>
       THEN /\ permits' = permits + 1
            /\ holders' = holders \ {c}
            /\ UNCHANGED handles
       ELSE /\ holders' = (holders \ {c}) \cup {handles[Len(handles)]}
            /\ handles' = SubSeq(handles, 1, Len(handles) - 1)
            /\ UNCHANGED permits

(* Mutant: forget() wakes nobody. *)
ForgetSilently(c) ==
    /\ c \in holders
    /\ permits' = permits + 1
    /\ holders' = holders \ {c}
    /\ UNCHANGED handles

(* Permit:forget(): the permit goes back, and if somebody waits it is      *)
(* taken out again for the first of them, whose continuation runs at once. *)
Forget(c) ==
    /\ c \in holders
    /\ \/ /\ permits + 1 > 0 /\ handles # <<>>
          /\ permits' = (permits + 1) - 1
          /\ holders' = (holders \ {c}) \cup {Head(handles)}
          /\ handles' = Tail(handles)
       \/ /\ ~ (permits + 1 > 0 /\ handles # <<>>)
          /\ permits' = permits + 1
          /\ holders' = holders \ {c}
          /\ UNCHANGED handles

Next == \E c \in Clients : Acquire(c) \/ Forget(c)

Spec == Init /\ [][Next]_vars

(* Every owner gives its permit back in the end.  Nothing is assumed of    *)
(* acquire().                                                              *)
FairSpec == Spec /\ \A c \in Clients : WF_vars(Forget(c))

-----------------------------------------------------------------------------
(* No permit is made or lost: those left plus those owned are the permits  *)
(* the semaphore was created with, so at most Permits coroutines own one.  *)
Conservation == permits + Cardinality(holders) = Permits

(* A permit is never left unused while a coroutine waits for one, which is *)
(* what makes the fast path of acquire() safe to take.                     *)
WorkConserving == permits > 0 => handles = <<>>

(* A parked coroutine waits once, and owns no permit. *)
ParkedOnce ==
    /\ Waiting \cap holders = {}
    /\ \A i, j \in DOMAIN handles : handles[i] = handles[j] => i = j

(* While anybody waits, a coroutine that arrives does not get a permit     *)
(* before them: every new owner comes out of the queue.                    *)
NoBarging ==
    [][Waiting # {} => holders' \ holders \subseteq Waiting]_vars

(* Every parked coroutine runs again with a permit, however many keep      *)
(* coming: acquire() does not starve anybody.                              *)
NoStarvation ==
    \A c \in Clients : (c \in Waiting) ~> (c \in holders)
=============================================================================

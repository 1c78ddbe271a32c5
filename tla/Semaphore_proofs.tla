-------------------------- MODULE Semaphore_proofs --------------------------
(***************************************************************************)
(* Proofs about the semaphore of mason-core/async/control.lua, for any     *)
(* finite set of coroutines and any number of permits.                     *)
(*                                                                         *)
(* Conservation is not inductive by itself: forget() moves a permit from   *)
(* its owner to the first coroutine of the queue, and the count is kept    *)
(* only if that coroutine owns none, which ParkedOnce says; and that the   *)
(* queue stays empty while a permit is left needs the count of permits to  *)
(* be a natural number.  Their conjunction is inductive.                   *)
(***************************************************************************)
EXTENDS Semaphore, QueueTheorems, FiniteSetTheorems

-----------------------------------------------------------------------------
IInv == TypeOK /\ Conservation /\ WorkConserving /\ ParkedOnce

LEMMA FiniteHolders == TypeOK => IsFiniteSet(holders)
BY FS_Subset, ClientsAssumption DEF TypeOK

LEMMA InitInvariant == Init => IInv
<1> SUFFICES ASSUME Init PROVE IInv
  OBVIOUS
<1>1. TypeOK
  BY PermitsAssumption DEF Init, TypeOK
<1>2. Conservation
  BY FS_EmptySet, PermitsAssumption DEF Init, Conservation
<1>3. WorkConserving /\ ParkedOnce
  BY DEF Init, WorkConserving, ParkedOnce, Waiting
<1> QED BY <1>1, <1>2, <1>3 DEF IInv

(* acquire() keeps the invariant, on its fast path and when it parks. *)
LEMMA AcquireInvariant ==
    ASSUME IInv, NEW c \in Clients, Acquire(c)
    PROVE  IInv'
<1> USE DEF IInv
<1>1. CASE /\ permits > 0
           /\ permits' = permits - 1
           /\ holders' = holders \cup {c}
           /\ UNCHANGED handles
  <2>1. TypeOK'
    BY <1>1 DEF TypeOK
  <2>2. Cardinality(holders') = Cardinality(holders) + 1
    BY <1>1, FiniteHolders, FS_AddElement DEF Acquire
  <2>3. Conservation'
    <3>1. Cardinality(holders) \in Nat
      BY FiniteHolders, FS_CardinalityType
    <3> QED BY <1>1, <2>2, <3>1 DEF Conservation, TypeOK
  <2>4. handles' = <<>>
    BY <1>1 DEF WorkConserving
  <2>5. WorkConserving' /\ ParkedOnce'
    BY <2>4 DEF WorkConserving, ParkedOnce, Waiting
  <2> QED BY <2>1, <2>3, <2>5
<1>2. CASE /\ ~ (permits > 0)
           /\ handles' = Append(handles, c)
           /\ UNCHANGED <<permits, holders>>
  <2>1. /\ handles' \in Seq(Clients)
        /\ Waiting' = Waiting \cup {c}
        /\ Distinct(handles) /\ c \notin Waiting => Distinct(handles')
    BY <1>2, AppendQueue DEF TypeOK, Waiting, Elements
  <2>2. TypeOK' /\ Conservation' /\ WorkConserving'
    BY <1>2, <2>1 DEF TypeOK, Conservation, WorkConserving
  <2>3. c \notin holders /\ c \notin Waiting
    BY DEF Acquire
  <2>4. ParkedOnce'
    BY <1>2, <2>1, <2>3 DEF ParkedOnce, Distinct
  <2> QED BY <2>2, <2>4
<1> QED BY <1>1, <1>2 DEF Acquire

(* forget() keeps the invariant: with a coroutine parked the permit moves  *)
(* to it, and otherwise goes back into the semaphore.                      *)
LEMMA ForgetInvariant ==
    ASSUME IInv, NEW c \in Clients, Forget(c)
    PROVE  IInv'
<1> USE DEF IInv
<1>1. /\ c \in holders
      /\ IsFiniteSet(holders) /\ Cardinality(holders) \in Nat
      /\ IsFiniteSet(holders \ {c})
      /\ Cardinality(holders \ {c}) = Cardinality(holders) - 1
  BY FiniteHolders, FS_CardinalityType, FS_RemoveElement DEF Forget
<1>2. CASE /\ permits + 1 > 0 /\ handles # <<>>
           /\ permits' = (permits + 1) - 1
           /\ holders' = (holders \ {c}) \cup {Head(handles)}
           /\ handles' = Tail(handles)
  <2>1. /\ Head(handles) \in Waiting /\ Head(handles) \in Clients
        /\ handles' \in Seq(Clients)
        /\ Waiting = Waiting' \cup {Head(handles)}
        /\ Distinct(handles) =>
              Distinct(handles') /\ Head(handles) \notin Waiting'
    BY <1>2, TailQueue DEF TypeOK, Waiting, Elements
  <2>2. permits' = permits
    BY <1>2 DEF TypeOK
  <2>3. TypeOK'
    BY <1>2, <2>1, <2>2 DEF TypeOK
  <2>4. Head(handles) \notin holders
    BY <2>1 DEF ParkedOnce
  <2>5. Cardinality(holders') = Cardinality(holders)
    <3>1. Cardinality(holders') = Cardinality(holders \ {c}) + 1
      BY <1>1, <1>2, <2>4, FS_AddElement
    <3> QED BY <3>1, <1>1
  <2>6. Conservation'
    BY <2>2, <2>5 DEF Conservation
  <2>7. WorkConserving'
    BY <1>2, <2>2 DEF WorkConserving, TypeOK
  <2>8. ParkedOnce'
    BY <1>2, <2>1 DEF ParkedOnce, Distinct
  <2> QED BY <2>3, <2>6, <2>7, <2>8
<1>3. CASE /\ ~ (permits + 1 > 0 /\ handles # <<>>)
           /\ permits' = permits + 1
           /\ holders' = holders \ {c}
           /\ UNCHANGED handles
  <2>1. handles = <<>>
    BY <1>3 DEF TypeOK
  <2>2. TypeOK'
    BY <1>3 DEF TypeOK
  <2>3. Conservation'
    BY <1>1, <1>3 DEF Conservation, TypeOK
  <2>4. WorkConserving' /\ ParkedOnce'
    BY <1>3, <2>1 DEF WorkConserving, ParkedOnce, Waiting
  <2> QED BY <2>2, <2>3, <2>4
<1> QED BY <1>2, <1>3 DEF Forget

LEMMA NextInvariant == IInv /\ [Next]_vars => IInv'
<1> SUFFICES ASSUME IInv, [Next]_vars PROVE IInv'
  OBVIOUS
<1>1. ASSUME NEW c \in Clients, Acquire(c) PROVE IInv'
  BY <1>1, AcquireInvariant
<1>2. ASSUME NEW c \in Clients, Forget(c) PROVE IInv'
  BY <1>2, ForgetInvariant
<1>3. CASE UNCHANGED vars
  BY <1>3 DEF vars, IInv, TypeOK, Conservation, WorkConserving, ParkedOnce,
              Waiting
<1> QED BY <1>1, <1>2, <1>3 DEF Next

(* The conjunction of the safety properties of the semaphore holds in      *)
(* every state of acquire() and forget().                                  *)
THEOREM Invariant == Spec => []IInv
BY InitInvariant, NextInvariant, PTL DEF Spec

(* Acquiring and forgetting keep the fields of the semaphore well-typed:   *)
(* in particular self.permits never becomes negative.                      *)
THEOREM TypeCorrect == Spec => []TypeOK
<1>1. IInv => TypeOK
  BY DEF IInv
<1> QED BY <1>1, Invariant, PTL

(* acquire() and forget() neither make nor lose a permit. *)
THEOREM PermitsAreConserved == Spec => []Conservation
<1>1. IInv => Conservation
  BY DEF IInv
<1> QED BY <1>1, Invariant, PTL

(* No permit is left over while a coroutine is parked in acquire(). *)
THEOREM NoIdlePermit == Spec => []WorkConserving
<1>1. IInv => WorkConserving
  BY DEF IInv
<1> QED BY <1>1, Invariant, PTL

(* At most Permits coroutines run between acquire() and forget(). *)
THEOREM AtMostPermits == Spec => [](Cardinality(holders) <= Permits)
<1>1. IInv => Cardinality(holders) <= Permits
  BY FiniteHolders, FS_CardinalityType, PermitsAssumption
     DEF IInv, TypeOK, Conservation
<1> QED BY <1>1, Invariant, PTL

(* A coroutine that arrives never overtakes one that is parked. *)
THEOREM NobodyBarges == Spec => NoBarging
<1> DEFINE A == Waiting # {} => holders' \ holders \subseteq Waiting
<1>1. ASSUME IInv, [Next]_vars PROVE [A]_vars
  <2>1. ASSUME NEW c \in Clients, Acquire(c) PROVE A
    <3>1. CASE permits > 0
      BY <1>1, <3>1 DEF IInv, WorkConserving, Waiting
    <3>2. CASE ~ (permits > 0)
      BY <2>1, <3>2 DEF Acquire
    <3> QED BY <3>1, <3>2
  <2>2. ASSUME NEW c \in Clients, Forget(c) PROVE A
    <3>1. handles # <<>> => Head(handles) \in Waiting
      BY <1>1, TailQueue DEF IInv, TypeOK, Waiting, Elements
    <3> QED BY <2>2, <3>1 DEF Forget
  <2> QED BY <1>1, <2>1, <2>2 DEF Next
<1> QED BY <1>1, Invariant, PTL DEF Spec, NoBarging
=============================================================================

----------------------------- MODULE JsSessions -----------------------------
(***************************************************************************)
(* What the client of vscode-js-debug may rely on for the sessions under   *)
(* the root session: a session is opened under an open one, its target     *)
(* goes, then the session says so, and it is closed when all the sessions  *)
(* below it are.  JsBinder implements this.                                *)
(***************************************************************************)
CONSTANTS Targets,  \* the targets that may have a session
          Root      \* the root session

VARIABLES phase,    \* of each session: absent, open, gone, told or closed
          parent    \* the session above each

vars == <<phase, parent>>

Init ==
    /\ phase = [t \in Targets |-> "absent"]
    /\ parent = [t \in Targets |-> Root]

(* t gets a session under p. *)
Open(t, p) ==
    /\ phase[t] = "absent"
    /\ p # Root => phase[p] = "open"
    /\ phase' = [phase EXCEPT ![t] = "open"]
    /\ parent' = [parent EXCEPT ![t] = p]

(* The targets ts go, together. *)
Go(ts) ==
    /\ \A t \in ts : phase[t] = "open"
    /\ phase' = [t \in Targets |-> IF t \in ts THEN "gone" ELSE phase[t]]
    /\ UNCHANGED parent

(* The client is told that t is gone. *)
Tell(t) ==
    /\ phase[t] = "gone"
    /\ phase' = [phase EXCEPT ![t] = "told"]
    /\ UNCHANGED parent

(* The session of t is closed: none below it is left. *)
Close(t) ==
    /\ phase[t] = "told"
    /\ \A k \in Targets : parent[k] = t => phase[k] \in {"absent", "closed"}
    /\ phase' = [phase EXCEPT ![t] = "closed"]
    /\ UNCHANGED parent

Next ==
    \/ \E t \in Targets, p \in Targets \cup {Root} : Open(t, p)
    \/ \E ts \in SUBSET Targets : Go(ts)
    \/ \E t \in Targets : Tell(t) \/ Close(t)

Spec == Init /\ [][Next]_vars
=============================================================================

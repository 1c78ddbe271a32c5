----------------------------- MODULE MCJsBinder -----------------------------
(* JsBinder with a process, a worker of it, and a second process that the  *)
(* first or nobody opened.                                                 *)
EXTENDS JsBinder, TLC

CONSTANTS main, worker, child

TwoTargets == {main, worker}
ThreeTargets == {main, worker, child}
OneWorker == {worker}
Family == (main :> << >>) @@ (worker :> <<main>>) @@ (child :> <<main>>)
Pair == (main :> << >>) @@ (worker :> <<main>>)
=============================================================================

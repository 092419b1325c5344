---------------------------- MODULE LastingBroadcast ----------------------------
(***************************************************************************)
(* Broadcasts on one process that is stopped, dies and is started again,   *)
(* with queries that answer: Broadcast under the schedule of FairSpec, and *)
(* a history variable that tells the runs with a death from those with     *)
(* orderly shutdowns only.                                                 *)
(***************************************************************************)
EXTENDS Broadcast

VARIABLE died  \* a process has died with a worker on board

allVars == <<vars, died>>

Orderly(A) == A /\ UNCHANGED died

\* One instance is deployed, and none is left running when the next one starts.
OneProcess == \A p, q \in Process : p = q

LastingInit == OneProcess /\ Init /\ died = FALSE
LastingNext == LastingStep /\ died' = (died \/ Death)

LastingSpec ==
  /\ LastingInit /\ [][LastingNext]_allVars
  /\ \A w \in Worker : WF_allVars(Orderly(WorkerStep(w) \/ CancelledStep(w)))
  /\ \A p \in Process : WF_allVars(Orderly(Exits(p))) /\ WF_allVars(Orderly(BootStep(p)))

\* "No user is messaged twice" (broadcast_service.go:46) as long as no process
\* dies: a shutdown persists the cursor before the worker ends (183), and the
\* next process goes on behind the last user that was called.
OnceUntilDeath == ~ died => AttemptedOnce
=============================================================================

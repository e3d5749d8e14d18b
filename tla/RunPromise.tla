------------------------------ MODULE RunPromise ------------------------------
(***************************************************************************)
(* What the run store promises the rest of asAgent about a run, with none  *)
(* of the machinery that keeps the promise: a run appears together with    *)
(* its user message, is settled at most once, and the assistant's answer   *)
(* appears in the transcript in the same step that settles the run as      *)
(* completed, never otherwise.  Deleting a conversation removes its runs   *)
(* and its transcript together, so a run is deleted with its answer.       *)
(*                                                                         *)
(* RunLifecycle implements this module.                                    *)
(***************************************************************************)

CONSTANTS Runs

VARIABLES
    phase,    \* phase[r]: "absent", "created", a settled status, or "deleted"
    answered  \* the runs whose answer is in a stored transcript

promiseVars == <<phase, answered>>

Settled == {"completed", "failed", "cancelled", "limit_reached"}

Phases == {"absent", "created", "deleted"} \union Settled

PromiseInit ==
    /\ phase = [r \in Runs |-> "absent"]
    /\ answered = {}

(* The run row and its user message are committed together. *)
Begin(r) ==
    /\ phase[r] = "absent"
    /\ phase' = [phase EXCEPT ![r] = "created"]
    /\ UNCHANGED answered

(* The run's status and its answer are committed together, once. *)
Settle(r, s) ==
    /\ phase[r] = "created"
    /\ phase' = [phase EXCEPT ![r] = s]
    /\ answered' = IF s = "completed" THEN answered \union {r} ELSE answered

(* A conversation goes with all its runs. *)
Erase(R) ==
    /\ phase' = [r \in Runs |->
                    IF r \in R /\ phase[r] # "absent" THEN "deleted" ELSE phase[r]]
    /\ answered' = answered \ R

PromiseNext ==
    \/ \E r \in Runs : Begin(r) \/ \E s \in Settled : Settle(r, s)
    \/ \E R \in SUBSET Runs : Erase(R)

Promise == PromiseInit /\ [][PromiseNext]_promiseVars

===============================================================================

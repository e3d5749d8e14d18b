----------------------------- MODULE ToolApproval -----------------------------
(***************************************************************************)
(* PendingToolApprovalPolicy (tools/approval.py): the approvals that wait  *)
(* for the user, the grants that last for a conversation, and the races    *)
(* between the user's decision, the cancellation of the run, the           *)
(* cancellation of its task and the closing of the policy.                 *)
(*                                                                         *)
(* Approval ids are fresh, so approve meets an id once.  Nothing here is   *)
(* stored: a restart of the sidecar starts with an empty policy.           *)
(***************************************************************************)
CONSTANTS
    Requests,  \* the tool approval requests, by approval id
    RunOf,     \* RunOf[q]: the run that asks
    GrantKey,  \* GrantKey[q]: _grant_key, its conversation and tool or group
    Lasting    \* the requests whose definition allows_conversation_approval

ASSUME RequestsAssumption ==
    /\ DOMAIN RunOf = Requests
    /\ DOMAIN GrantKey = Requests
    /\ Lasting \subseteq Requests

VARIABLES
    place,     \* place[q]: where the call of approve(q) is
    decision,  \* decision[q]: its future, "none" while it is not done
    grants,    \* _conversation_grants
    closed,    \* _closed
    said       \* history: said[q] is what the user decided, if it was taken

policyVars == <<place, decision, grants, closed, said>>

Runs == {RunOf[q] : q \in Requests}

\* _pending
Pending == {q \in Requests : place[q] \in {"announcing", "waiting"}}
Open == {q \in Pending : decision[q] = "none"}

ToolApprovalDecision == {"deny", "allow_once", "allow_conversation"}

PolicyTypeOK ==
    /\ place \in [Requests -> {"unused", "announcing", "waiting",
                               "approved", "denied", "raised"}]
    /\ decision \in [Requests -> {"none", "allow", "deny"}]
    /\ grants \subseteq {GrantKey[q] : q \in Lasting}
    /\ closed \in BOOLEAN
    /\ said \in [Requests -> ToolApprovalDecision \union {"none"}]

PolicyInit ==
    /\ place = [q \in Requests |-> "unused"]
    /\ decision = [q \in Requests |-> "none"]
    /\ grants = {}
    /\ closed = FALSE
    /\ said = [q \in Requests |-> "none"]

Goto(q, p) == place' = [place EXCEPT ![q] = p]

\* deny the futures of R that are not done
Deny(R) == decision' = [q \in Requests |-> IF q \in R \intersect Open THEN "deny"
                                                               ELSE decision[q]]

-------------------------------------------------------------------------------
(* approve, called by the executor for a tool that needs approval *)

IsGrantedAnywhere(q) == q \in Lasting /\ grants # {}  \* mutant of IsGranted
IsGranted(q) == q \in Lasting /\ GrantKey[q] \in grants

(* Closed, granted before, or registered: the request is in _pending       *)
(* before on_requested publishes it.                                       *)
Approve(q) ==
    /\ place[q] = "unused"
    /\ \/ closed /\ Goto(q, "denied")
       \/ ~closed /\ IsGranted(q) /\ Goto(q, "approved")
       \/ ~closed /\ ~IsGranted(q) /\ Goto(q, "announcing")
    /\ UNCHANGED <<decision, grants, closed, said>>

Announced(q) ==
    /\ place[q] = "announcing"
    /\ Goto(q, "waiting")
    /\ UNCHANGED <<decision, grants, closed, said>>

(* on_requested raises; the finally takes the request out of _pending. *)
AnnouncingFails(q) ==
    /\ place[q] = "announcing"
    /\ Goto(q, "raised")
    /\ UNCHANGED <<decision, grants, closed, said>>

(* The task of the run is cancelled: CancelledError at either await. *)
CancelTask(q) ==
    /\ q \in Pending
    /\ Goto(q, "raised")
    /\ Deny({q})
    /\ UNCHANGED <<grants, closed, said>>

(* The future is done and approve returns it. *)
Return(q) ==
    /\ place[q] = "waiting"
    /\ decision[q] # "none"
    /\ Goto(q, IF decision[q] = "allow" THEN "approved" ELSE "denied")
    /\ UNCHANGED <<decision, grants, closed, said>>

-------------------------------------------------------------------------------
(* What happens to a request while approve waits *)

SetDecision(q, d) ==
    /\ decision' = [decision EXCEPT ![q] = IF d = "deny" THEN "deny" ELSE "allow"]
    /\ said' = [said EXCEPT ![q] = d]

NewGrants(q, d) == IF d = "allow_conversation" THEN {GrantKey[q]} ELSE {}

DecideTwice(q, d) ==  \* mutant of Decide: no test of decision.done()
    /\ q \in Pending
    /\ d = "allow_conversation" => q \in Lasting
    /\ SetDecision(q, d)
    /\ grants' = grants \union NewGrants(q, d)
    /\ UNCHANGED <<place, closed>>

GrantThenDecide(q, d) ==  \* mutant of Decide: the grant is added first
    /\ q \in Pending
    /\ d = "allow_conversation" => q \in Lasting
    /\ grants' = grants \union NewGrants(q, d)
    /\ IF q \in Open THEN SetDecision(q, d) ELSE UNCHANGED <<decision, said>>
    /\ UNCHANGED <<place, closed>>

(* decide: the first decision is taken, a later one is refused. *)
Decide(q, d) ==
    /\ q \in Open
    /\ d = "allow_conversation" => q \in Lasting
    /\ SetDecision(q, d)
    /\ grants' = grants \union NewGrants(q, d)
    /\ UNCHANGED <<place, closed>>

(* deny_run, when the run is cancelled. *)
DenyRun(r) ==
    /\ \E q \in Open : RunOf[q] = r
    /\ Deny({q \in Requests : RunOf[q] = r})
    /\ UNCHANGED <<place, grants, closed, said>>

CloseQuietly ==  \* mutant of Close: the pending ones are left to themselves
    /\ ~closed
    /\ closed' = TRUE
    /\ grants' = {}
    /\ UNCHANGED <<place, decision, said>>

(* aclose *)
Close ==
    /\ ~closed
    /\ closed' = TRUE
    /\ grants' = {}
    /\ Deny(Requests)
    /\ UNCHANGED <<place, said>>

-------------------------------------------------------------------------------

Proceed(q) == Announced(q) \/ AnnouncingFails(q) \/ Return(q)

PolicyNext ==
    \/ \E q \in Requests :
          \/ Approve(q) \/ Proceed(q) \/ CancelTask(q)
          \/ \E d \in ToolApprovalDecision : Decide(q, d)
    \/ \E r \in Runs : DenyRun(r)
    \/ Close

PolicySpec == PolicyInit /\ [][PolicyNext]_policyVars

(* The tasks go on: publishing ends, and a future that is done wakes up    *)
(* its waiter.  Nobody has to decide.                                      *)
PolicyFairSpec == PolicySpec /\ \A q \in Requests : WF_policyVars(Proceed(q))

-------------------------------------------------------------------------------

\* The user allowed q, or gave its conversation and tool a lasting permission.
Consented(q) ==
    \/ said[q] \in {"allow_once", "allow_conversation"}
    \/ \E p \in Requests :
          q \in Lasting /\ GrantKey[p] = GrantKey[q] /\ said[p] = "allow_conversation"

(* A tool runs only with the user's consent: to this call, or to its kind  *)
(* in this conversation, whatever is cancelled, denied or closed meanwhile *)
(* (approve, decide, _grant_key).                                          *)
OnlyWithConsent == \A q \in Requests : place[q] = "approved" => Consented(q)

(* A closed policy keeps no grant and leaves nobody without a decision,    *)
(* whether a request was published yet or not (aclose).                    *)
ClosedIsEmpty == closed => grants = {} /\ Open = {}

(* Once denied, by the user, by the cancellation of the run or by the end  *)
(* of the sidecar, a request is not approved by what comes later (decide   *)
(* refuses it).                                                            *)
DenialStands ==
    [][\A q \in Requests :
          decision[q] = "deny" => decision'[q] = "deny" /\ place'[q] # "approved"]_policyVars

(* After aclose every call of approve comes back, so that the dispatcher's *)
(* tasks can end.                                                          *)
EveryoneReturns == closed ~> Pending = {}

===============================================================================

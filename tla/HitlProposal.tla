----------------------------- MODULE HitlProposal -----------------------------
(***************************************************************************)
(* The persisted approval proposal: backend/app/crud/hitl_proposal.py.     *)
(*                                                                         *)
(* Every operation below is one committed row update.  The code guards     *)
(* each of them in the UPDATE's WHERE clause (or under SELECT FOR UPDATE), *)
(* so the guard and the assignment are one step; a caller whose guard does *)
(* not hold gets InvalidHitlTransitionError, which the modules above model *)
(* as a step of that caller.                                               *)
(***************************************************************************)
EXTENDS Naturals

CONSTANTS
    Proposals,      \* the proposals of the behaviour
    DeviceQuery,    \* proposals whose action_type is device_query (read only)
    DeviceControl   \* proposals whose action_type is device_control

\* device_query and device_control are disjoint kinds; the rest are notify.
ASSUME KindsAssumption ==
    /\ DeviceQuery \subseteq Proposals
    /\ DeviceControl \subseteq Proposals
    /\ DeviceQuery \cap DeviceControl = {}

Notify == Proposals \ (DeviceQuery \cup DeviceControl)
Device == DeviceQuery \cup DeviceControl

VARIABLES
    status,     \* status[p]: the row's status, "NONE" before it is inserted
    reason,     \* reason[p]: status_reason, "none" for NULL
    grants      \* history: how many times p has been authorised so far

proposalVars == <<status, reason, grants>>

Statuses == {"NONE", "PENDING", "APPROVED", "REJECTED",
             "EXECUTING", "EXECUTED", "UNKNOWN"}
UnexecutedReasons == {"dispatch_failed_before_send", "read_only_failed"}
Reasons == {"none", "policy_blacklisted", "withdrawn_on_archive",
            "dispatch_outcome_unknown", "executor_succeeded", "manual_confirmed",
            "retry_authorized"}
           \cup UnexecutedReasons

ProposalTypeOK ==
    /\ status \in [Proposals -> Statuses]
    /\ reason \in [Proposals -> Reasons]
    /\ grants \in [Proposals -> Nat]

ProposalInit ==
    /\ status = [p \in Proposals |-> "NONE"]
    /\ reason = [p \in Proposals |-> "none"]
    /\ grants = [p \in Proposals |-> 0]

-----------------------------------------------------------------------------
(* The compare-and-set that all transitions share. *)
Move(p, from, to, why) ==
    /\ status[p] = from
    /\ status' = [status EXCEPT ![p] = to]
    /\ reason' = [reason EXCEPT ![p] = why]

Create(p) ==
    /\ Move(p, "NONE", "PENDING", "none")
    /\ UNCHANGED grants

(* decide leaves status_reason as it was, which is still NULL. *)
Approve(p) ==
    /\ Move(p, "PENDING", "APPROVED", reason[p])
    /\ grants' = [grants EXCEPT ![p] = @ + 1]

(* gate_action: the row is inserted and decided in one transaction. *)
CreateApproved(p) ==
    /\ Move(p, "NONE", "APPROVED", "none")
    /\ grants' = [grants EXCEPT ![p] = @ + 1]

Reject(p) ==
    /\ Move(p, "PENDING", "REJECTED", reason[p])
    /\ UNCHANGED grants

(* archive: what still waits is withdrawn with its session. *)
Withdraw(p) ==
    /\ Move(p, "PENDING", "REJECTED", "withdrawn_on_archive")
    /\ UNCHANGED grants

RejectForPolicy(p) ==
    /\ Move(p, "APPROVED", "REJECTED", "policy_blacklisted")
    /\ UNCHANGED grants

\* A wrong ClaimExecution: an UPDATE that does not compare the status.
ClaimExecutionUnguarded(p) ==
    /\ Move(p, status[p], "EXECUTING", "none")
    /\ UNCHANGED grants

ClaimExecution(p) ==
    /\ Move(p, "APPROVED", "EXECUTING", "none")
    /\ UNCHANGED grants

RevertUnexecuted(p, why) ==
    /\ why \in UnexecutedReasons
    /\ Move(p, "EXECUTING", "APPROVED", why)
    /\ UNCHANGED grants

\* A wrong MarkUnknown: the row is put back for a retry.
MarkUnknownForRetry(p) ==
    /\ Move(p, "EXECUTING", "APPROVED", "dispatch_outcome_unknown")
    /\ UNCHANGED grants

MarkUnknown(p) ==
    /\ Move(p, "EXECUTING", "UNKNOWN", "dispatch_outcome_unknown")
    /\ UNCHANGED grants

MarkExecuted(p) ==
    /\ Move(p, "EXECUTING", "EXECUTED", "executor_succeeded")
    /\ UNCHANGED grants

ConfirmExecuted(p) ==
    /\ Move(p, "UNKNOWN", "EXECUTED", "manual_confirmed")
    /\ UNCHANGED grants

AllowRetry(p) ==
    /\ Move(p, "UNKNOWN", "APPROVED", "retry_authorized")
    /\ grants' = [grants EXCEPT ![p] = @ + 1]

\* A wrong RecoverExecuting: what was interrupted may be executed again.
RecoverExecutingForRetry ==
    /\ status' = [p \in Proposals |->
                    IF status[p] = "EXECUTING" THEN "APPROVED" ELSE status[p]]
    /\ UNCHANGED <<reason, grants>>

(* Startup: one UPDATE moves every EXECUTING row to UNKNOWN. *)
RecoverExecuting ==
    /\ status' = [p \in Proposals |->
                    IF status[p] = "EXECUTING" THEN "UNKNOWN" ELSE status[p]]
    /\ reason' = [p \in Proposals |->
                    IF status[p] = "EXECUTING" THEN "dispatch_outcome_unknown"
                    ELSE reason[p]]
    /\ UNCHANGED grants
=============================================================================

---------------------------- MODULE HitlExecution ----------------------------
(***************************************************************************)
(* execute_approved_proposal (backend/app/agent/hitl_execution.py), the    *)
(* one road by which an approved proposal reaches a device, together with  *)
(* the worker thread the executor leaves the device work to                *)
(* (backend/app/agent/executors.py).                                       *)
(*                                                                         *)
(* A run is one invocation of the coroutine and is used once.  This module *)
(* lets any caller start any run on any proposal at any time: the chat     *)
(* gate and the execution queue are two such callers, and nothing but the  *)
(* compare-and-sets on the proposal row keeps them apart.  Steps are split *)
(* where the code awaits, so other runs, requests and the device move in   *)
(* between.  A device thread cannot be cancelled: it outlives its run.     *)
(***************************************************************************)
EXTENDS HitlProposal

CONSTANTS
    Runs,       \* invocations of execute_approved_proposal
    None,       \* a run that has no proposal yet
    Faults      \* what may go wrong: a subset of FaultKinds

FaultKinds == {"cancel", "database", "crash"}

\* None is no proposal, and Faults names fault kinds.
ASSUME ExecutionAssumption ==
    /\ None \notin Proposals
    /\ Faults \subseteq FaultKinds

VARIABLES
    up,          \* the process serves requests
    pc,          \* pc[r]: where the coroutine stands
    job,         \* job[r]: the proposal it executes
    authority,   \* history: the authorisation (grants number) r claimed under
    thread,      \* thread[r]: the device worker thread of r
    touched,     \* history: r's command reached its target
    cancelled,   \* r is unwinding from CancelledError
    revoked,     \* proposals whose trigger has lost the permission to execute
    blacklisted  \* proposals whose command is blacklisted by now

runVars == <<pc, job, authority, thread, touched, cancelled>>
envVars == <<revoked, blacklisted>>
executionVars == <<proposalVars, up, runVars, envVars>>

(* Before the claim: preflight (and the wait for somebody else's run),     *)
(* check, rejecting, claiming, conflict, reclaiming, conflict2.            *)
(* Owning: claimed (committed, leaving the preflight session), executing   *)
(* (awaiting the executor), finishing, reverting, unknowing.               *)
(* Ended: returned, resume_error (HitlResumeError), error (any other       *)
(* exception), cancelled (CancelledError), dead (the process is gone).     *)
BeforeClaim == {"preflight", "check", "rejecting", "claiming",
                "conflict", "reclaiming", "conflict2"}
Owning == {"claimed", "executing", "finishing", "reverting", "unknowing"}
Ended == {"returned", "resume_error", "error", "cancelled", "dead"}
Live == BeforeClaim \cup Owning

\* none: no thread; open: may still send; sent: awaiting the device's answer;
\* ok, unsent, failed: the ExecutionResult (unsent is dispatched=False).
Threads == {"none", "open", "sent", "ok", "unsent", "failed"}

ExecutionTypeOK ==
    /\ ProposalTypeOK
    /\ up \in BOOLEAN
    /\ pc \in [Runs -> {"idle"} \cup Live \cup Ended]
    /\ job \in [Runs -> Proposals \cup {None}]
    /\ authority \in [Runs -> Nat]
    /\ thread \in [Runs -> Threads]
    /\ touched \in [Runs -> BOOLEAN]
    /\ cancelled \in [Runs -> BOOLEAN]
    /\ revoked \in SUBSET Proposals
    /\ blacklisted \in SUBSET Proposals

ExecutionInit ==
    /\ ProposalInit
    /\ up = TRUE
    /\ pc = [r \in Runs |-> "idle"]
    /\ job = [r \in Runs |-> None]
    /\ authority = [r \in Runs |-> 0]
    /\ thread = [r \in Runs |-> "none"]
    /\ touched = [r \in Runs |-> FALSE]
    /\ cancelled = [r \in Runs |-> FALSE]
    /\ revoked = {}
    /\ blacklisted = {}

Goto(r, to) == pc' = [pc EXCEPT ![r] = to]
Status(r) == status[job[r]]

-----------------------------------------------------------------------------
(* A caller enters execute_approved_proposal. *)
Start(r, p) ==
    /\ up
    /\ pc[r] = "idle"
    /\ status[p] # "NONE"
    /\ Goto(r, "preflight")
    /\ job' = [job EXCEPT ![r] = p]
    /\ UNCHANGED <<proposalVars, up, authority, thread, touched, cancelled, envVars>>

(* The first read, and every read of _poll_executing_terminal while        *)
(* another run holds the row.  The wait window may close on any of them.   *)
Preflight(r) ==
    /\ pc[r] = "preflight"
    /\ \/ Status(r) = "EXECUTED" /\ Goto(r, "returned")
       \/ Status(r) = "APPROVED" /\ Goto(r, "check")
       \/ Status(r) \notin {"EXECUTED", "APPROVED"} /\ Goto(r, "resume_error")
    /\ UNCHANGED <<proposalVars, up, job, authority, thread, touched, cancelled, envVars>>

(* The authorisation and policy reads.  The status read above, these two,  *)
(* and the claim are separate statements under READ COMMITTED; the two     *)
(* reads are one step because neither looks at anything a run writes.      *)
(* An unusable asset, command or password returns like a denial.           *)
Check(r) ==
    /\ pc[r] = "check"
    /\ \/ job[r] \in revoked /\ Goto(r, "returned")
       \/ job[r] \notin revoked /\ job[r] \in Device /\ Goto(r, "returned")
       \/ /\ job[r] \notin revoked
          /\ job[r] \in Device \cap blacklisted
          /\ Goto(r, "rejecting")
       \/ /\ job[r] \notin revoked
          /\ job[r] \notin Device \cap blacklisted
          /\ Goto(r, "claiming")
    /\ UNCHANGED <<proposalVars, up, job, authority, thread, touched, cancelled, envVars>>

PolicyReject(r) ==
    /\ pc[r] = "rejecting"
    /\ \/ RejectForPolicy(job[r]) /\ Goto(r, "returned")
       \/ Status(r) # "APPROVED" /\ Goto(r, "error") /\ UNCHANGED proposalVars
    /\ UNCHANGED <<up, job, authority, thread, touched, cancelled, envVars>>

(* claim_execution and its commit. *)
Claim(r) ==
    /\ pc[r] \in {"claiming", "reclaiming"}
    /\ ClaimExecution(job[r])
    /\ Goto(r, "claimed")
    /\ authority' = [authority EXCEPT ![r] = grants[job[r]]]
    /\ UNCHANGED <<up, job, thread, touched, cancelled, envVars>>

LoseClaim(r) ==
    /\ pc[r] \in {"claiming", "reclaiming"}
    /\ Status(r) # "APPROVED"
    /\ Goto(r, IF pc[r] = "claiming" THEN "conflict" ELSE "conflict2")
    /\ UNCHANGED <<proposalVars, up, job, authority, thread, touched, cancelled, envVars>>

(* _handle_claim_conflict and its polling.  Only the first conflict claims *)
(* again, and it does so without passing Check a second time.              *)
Conflict(r) ==
    /\ pc[r] \in {"conflict", "conflict2"}
    /\ \/ Status(r) = "EXECUTED" /\ Goto(r, "returned")
       \/ /\ Status(r) = "APPROVED"
          /\ Goto(r, IF pc[r] = "conflict" THEN "reclaiming" ELSE "resume_error")
       \/ Status(r) \notin {"EXECUTED", "APPROVED"} /\ Goto(r, "resume_error")
    /\ UNCHANGED <<proposalVars, up, job, authority, thread, touched, cancelled, envVars>>

-----------------------------------------------------------------------------
(* The try block: the executor hands a device command to its thread; the   *)
(* notification is an audit row in the execution transaction.              *)
Launch(r) ==
    /\ pc[r] = "claimed"
    /\ Goto(r, "executing")
    /\ thread' = [thread EXCEPT ![r] = "open"]
    /\ UNCHANGED <<proposalVars, up, job, authority, touched, cancelled, envVars>>

(* The thread works on whether or not anybody still awaits it. *)
ThreadSends(r) ==
    /\ up
    /\ job[r] \in Device
    /\ thread[r] = "open"
    /\ thread' = [thread EXCEPT ![r] = "sent"]
    /\ touched' = [touched EXCEPT ![r] = TRUE]
    /\ UNCHANGED <<proposalVars, up, pc, job, authority, cancelled, envVars>>

(* Before a command is out the result is not dispatched, or dispatched     *)
(* because the session was already open; afterwards it is always           *)
(* dispatched, and a device_control of the verify_manually kind fails.     *)
ThreadEnds(r) ==
    /\ up
    /\ job[r] \in Device
    /\ \E result \in {"ok", "unsent", "failed"} :
          /\ thread[r] = "open" => result \in {"unsent", "failed"}
          /\ thread[r] = "sent" => result \in {"ok", "failed"}
          /\ thread[r] \in {"open", "sent"}
          /\ thread' = [thread EXCEPT ![r] = result]
    /\ UNCHANGED <<proposalVars, up, pc, job, authority, touched, cancelled, envVars>>

(* NotifyExecutor.execute and the commit of the execution transaction. *)
RecordNotification(r) ==
    /\ pc[r] = "executing"
    /\ job[r] \in Notify
    /\ thread[r] = "open"
    /\ \/ /\ thread' = [thread EXCEPT ![r] = "ok"]
          /\ touched' = [touched EXCEPT ![r] = TRUE]
       \/ /\ thread' = [thread EXCEPT ![r] = "unsent"]
          /\ UNCHANGED touched
    /\ UNCHANGED <<proposalVars, up, pc, job, authority, cancelled, envVars>>

\* A wrong Settle: every failure is taken for one that may be repeated.
SettleRevertsFailures(r) ==
    /\ pc[r] = "executing"
    /\ \/ thread[r] = "ok" /\ Goto(r, "finishing")
       \/ thread[r] \in {"unsent", "failed"} /\ Goto(r, "reverting")
    /\ UNCHANGED <<proposalVars, up, job, authority, thread, touched, cancelled, envVars>>

\* A wrong Settle: a dispatched command is taken for a successful one.
SettleFinishesDispatched(r) ==
    /\ pc[r] = "executing"
    /\ \/ thread[r] \in {"ok", "failed"} /\ Goto(r, "finishing")
       \/ thread[r] = "unsent" /\ Goto(r, "reverting")
    /\ UNCHANGED <<proposalVars, up, job, authority, thread, touched, cancelled, envVars>>

(* The run receives the ExecutionResult and chooses how to settle the row. *)
Settle(r) ==
    /\ pc[r] = "executing"
    /\ \/ thread[r] = "ok" /\ Goto(r, "finishing")
       \/ thread[r] = "unsent" /\ Goto(r, "reverting")
       \/ thread[r] = "failed" /\ job[r] \in DeviceQuery /\ Goto(r, "reverting")
       \/ thread[r] = "failed" /\ job[r] \notin DeviceQuery /\ Goto(r, "unknowing")
    /\ UNCHANGED <<proposalVars, up, job, authority, thread, touched, cancelled, envVars>>

Finish(r) ==
    /\ pc[r] = "finishing"
    /\ MarkExecuted(job[r])
    /\ Goto(r, "returned")
    /\ UNCHANGED <<up, job, authority, thread, touched, cancelled, envVars>>

UnexecutedReason(r) ==
    IF thread[r] = "unsent" THEN "dispatch_failed_before_send" ELSE "read_only_failed"

Revert(r) ==
    /\ pc[r] = "reverting"
    /\ RevertUnexecuted(job[r], UnexecutedReason(r))
    /\ Goto(r, "returned")
    /\ UNCHANGED <<up, job, authority, thread, touched, cancelled, envVars>>

(* _mark_execution_unknown: it raises when the row has already left        *)
(* EXECUTING, and CancelledError goes on once it has succeeded.            *)
RecordUnknown(r) ==
    /\ pc[r] = "unknowing"
    /\ \/ /\ MarkUnknown(job[r])
          /\ Goto(r, IF cancelled[r] THEN "cancelled" ELSE "returned")
       \/ /\ Status(r) # "EXECUTING"
          /\ Goto(r, "error")
          /\ UNCHANGED proposalVars
    /\ UNCHANGED <<up, job, authority, thread, touched, cancelled, envVars>>

-----------------------------------------------------------------------------
(* Faults.  The row update of the interrupted step may or may not have    *)
(* been committed when the exception surfaces.  Only the try blocks around *)
(* the executor and around mark_executed turn an exception into UNKNOWN.   *)

Guarded == {"executing", "finishing"}

RowUpdate(r) ==
    \/ pc[r] = "rejecting" /\ RejectForPolicy(job[r])
    \/ pc[r] \in {"claiming", "reclaiming"} /\ ClaimExecution(job[r])
    \/ pc[r] = "finishing" /\ MarkExecuted(job[r])
    \/ pc[r] = "reverting" /\ RevertUnexecuted(job[r], UnexecutedReason(r))
    \/ pc[r] = "unknowing" /\ MarkUnknown(job[r])

\* A wrong Interrupt: an interrupted executor is taken for one that did nothing.
InterruptReverts(r, outcome) ==
    /\ pc[r] \in Live
    /\ UNCHANGED <<proposalVars, authority>>
    /\ Goto(r, IF pc[r] \in Guarded THEN "reverting" ELSE outcome)
    /\ UNCHANGED <<up, job, touched, envVars>>

Interrupt(r, outcome) ==
    /\ pc[r] \in Live
    /\ \/ UNCHANGED <<proposalVars, authority>>
       \/ /\ RowUpdate(r)
          /\ authority' = IF pc[r] \in {"claiming", "reclaiming"}
                          THEN [authority EXCEPT ![r] = grants[job[r]]]
                          ELSE authority
    /\ Goto(r, IF pc[r] \in Guarded THEN "unknowing" ELSE outcome)
    /\ UNCHANGED <<up, job, touched, envVars>>

(* A database call raises.  While the executor is awaited only the         *)
(* notification has one in flight, and its transaction rolls back.         *)
DatabaseFails(r) ==
    /\ "database" \in Faults
    /\ pc[r] = "executing" /\ job[r] \in Device => thread[r] \notin {"open", "sent"}
    /\ Interrupt(r, "error")
    /\ thread' = IF pc[r] = "executing" /\ thread[r] = "open"
                 THEN [thread EXCEPT ![r] = "none"] ELSE thread
    /\ UNCHANGED cancelled

(* The turn is cancelled by its user, or the queue is shut down; both      *)
(* cancel a run at most once.  The future of a thread that is still        *)
(* waiting for a pool worker is dropped, one that runs goes on.            *)
Cancel(r) ==
    /\ "cancel" \in Faults
    /\ ~cancelled[r]
    /\ Interrupt(r, "cancelled")
    /\ \/ thread' = thread /\ (pc[r] = "executing" /\ thread[r] = "open" => job[r] \in Device)
       \/ /\ pc[r] = "executing" /\ thread[r] = "open"
          /\ thread' = [thread EXCEPT ![r] = "none"]
    /\ cancelled' = [cancelled EXCEPT ![r] = TRUE]

(* The process dies with its coroutines and threads. *)
Crash ==
    /\ "crash" \in Faults
    /\ up
    /\ up' = FALSE
    /\ pc' = [r \in Runs |-> IF pc[r] \in Live THEN "dead" ELSE pc[r]]
    /\ thread' = [r \in Runs |->
                    IF thread[r] \in {"open", "sent"} THEN "none" ELSE thread[r]]
    /\ UNCHANGED <<proposalVars, job, authority, touched, cancelled, envVars>>

\* A wrong Restart: requests are served without reconciling the proposals.
RestartUnreconciled ==
    /\ ~up
    /\ up' = TRUE
    /\ UNCHANGED <<proposalVars, runVars, envVars>>

(* reconcile_executing_proposals, before requests are served again. *)
Restart ==
    /\ ~up
    /\ up' = TRUE
    /\ RecoverExecuting
    /\ UNCHANGED <<runVars, envVars>>

-----------------------------------------------------------------------------
(* What people and other requests do to a proposal. *)
Decide(p) ==
    /\ up
    /\ \/ Create(p) \/ CreateApproved(p)
       \/ Approve(p) \/ Reject(p) \/ Withdraw(p)
       \/ ConfirmExecuted(p) \/ AllowRetry(p)
    /\ UNCHANGED <<up, runVars, envVars>>

(* The permission of the account that triggered p is withdrawn. *)
Revoke(p) ==
    /\ p \notin revoked
    /\ revoked' = revoked \cup {p}
    /\ UNCHANGED <<proposalVars, up, runVars, blacklisted>>

Blacklist(p) ==
    /\ p \in Device \ blacklisted
    /\ blacklisted' = blacklisted \cup {p}
    /\ UNCHANGED <<proposalVars, up, runVars, revoked>>

-----------------------------------------------------------------------------
RunStep(r) ==
    \/ Preflight(r) \/ Check(r) \/ PolicyReject(r)
    \/ Claim(r) \/ LoseClaim(r) \/ Conflict(r)
    \/ Launch(r) \/ RecordNotification(r) \/ Settle(r)
    \/ Finish(r) \/ Revert(r) \/ RecordUnknown(r)

ThreadStep(r) == ThreadSends(r) \/ ThreadEnds(r)

ExecutionNext ==
    \/ \E r \in Runs :
          \/ \E p \in Proposals : Start(r, p)
          \/ RunStep(r) \/ ThreadStep(r)
          \/ DatabaseFails(r) \/ Cancel(r)
    \/ \E p \in Proposals : Decide(p) \/ Revoke(p) \/ Blacklist(p)
    \/ Crash \/ Restart

ExecutionSpec == ExecutionInit /\ [][ExecutionNext]_executionVars

(* The event loop resumes every runnable coroutine, a device thread ends   *)
(* at its read timeout, and the service is restarted when it dies.         *)
ExecutionFairness ==
    /\ \A r \in Runs : WF_executionVars(RunStep(r)) /\ WF_executionVars(ThreadStep(r))
    /\ WF_executionVars(Restart)

FairExecutionSpec == ExecutionSpec /\ ExecutionFairness

-----------------------------------------------------------------------------
(* Safety. *)

\* r can still bring its command to the target.
MaySend(r) == pc[r] = "claimed" \/ thread[r] = "open"

\* r's claim was made under the latest authorisation of its proposal.
Current(r) == job[r] # None /\ authority[r] > 0 /\ authority[r] = grants[job[r]]

(* At most one run at a time is responsible for a proposal between its     *)
(* claim and its settlement, whatever mix of callers, retries, conflicts   *)
(* and restarts started them, and the row says EXECUTING meanwhile (or     *)
(* EXECUTED, when the commit of mark_executed landed but was reported as   *)
(* failed).                                                                *)
OneOwner ==
    \A r \in Runs : pc[r] \in Owning =>
        /\ \/ Status(r) = "EXECUTING"
           \/ pc[r] = "unknowing" /\ Status(r) = "EXECUTED"
        /\ \A s \in Runs : pc[s] \in Owning /\ job[s] = job[r] => s = r

(* A device_control command reaches the device at most once for each time  *)
(* it was authorised (approved, auto approved or cleared for retry), even  *)
(* when runs are cancelled, threads outlive them and the process restarts. *)
OncePerAuthorisation ==
    \A r, s \in Runs :
        /\ touched[r] /\ touched[s]
        /\ job[r] = job[s] /\ job[r] \in DeviceControl
        /\ authority[r] = authority[s]
        => r = s

(* While a proposal is APPROVED (waiting, or given back for retry without  *)
(* anybody checking the device) or REJECTED, no thread can still send its  *)
(* command under the present authorisation, and a device_control has not   *)
(* reached the device under it.                                            *)
ApprovedIsUntouched ==
    \A r \in Runs :
        Current(r) /\ Status(r) \in {"APPROVED", "REJECTED"} =>
            /\ ~MaySend(r)
            /\ job[r] \in DeviceControl => ~touched[r]

(* A thread nobody awaits any more, still able to send, is never hidden    *)
(* behind a record that claims a known outcome: under the present          *)
(* authorisation the row says UNKNOWN, was confirmed by a person, or is    *)
(* left EXECUTING.                                                         *)
AbandonedThreadIsFlagged ==
    \A r \in Runs :
        Current(r) /\ thread[r] \in {"open", "sent"} /\ pc[r] \notin Owning =>
            \/ Status(r) \in {"UNKNOWN", "EXECUTING"}
            \/ Status(r) = "EXECUTED" /\ reason[job[r]] = "manual_confirmed"

(* EXECUTED(executor_succeeded) is backed by a run that reached its target *)
(* under the latest authorisation and got an answer.                       *)
ExecutedIsTrue ==
    \A p \in Proposals :
        status[p] = "EXECUTED" /\ reason[p] = "executor_succeeded" =>
            \E r \in Runs : job[r] = p /\ Current(r) /\ touched[r] /\ thread[r] = "ok"

-----------------------------------------------------------------------------
(* The inductive invariant behind the safety properties. *)

\* r can still act on its target, or a command that changes it has reached it.
Active(r) == pc[r] = "claimed" \/ thread[r] \in {"open", "sent"}
Spent(r) == Active(r) \/ (job[r] \in DeviceControl /\ touched[r])

\* What a run's own variables say at each point of the coroutine.
RunShape(r) ==
    /\ pc[r] = "idle" <=> job[r] = None
    /\ pc[r] \in BeforeClaim \cup {"idle"} => authority[r] = 0
    /\ authority[r] = 0 => thread[r] = "none" /\ ~touched[r]
    /\ pc[r] = "claimed" => thread[r] = "none" /\ ~touched[r]
    /\ pc[r] = "executing" => thread[r] # "none"
    /\ pc[r] = "finishing" => thread[r] = "ok"
    /\ pc[r] = "reverting" =>
          thread[r] = "unsent" \/ (thread[r] = "failed" /\ job[r] \in DeviceQuery)
    /\ thread[r] \in {"sent", "ok"} => touched[r]
    /\ thread[r] \in {"open", "unsent"} => ~touched[r]

\* How a run's claim relates to the row it claimed.
RunAndRow(r) ==
    job[r] # None =>
        /\ authority[r] <= grants[job[r]]
        /\ pc[r] \in Owning =>
              /\ authority[r] = grants[job[r]] /\ authority[r] > 0
              /\ \/ Status(r) = "EXECUTING"
                 \/ /\ pc[r] = "unknowing" /\ Status(r) = "EXECUTED"
                    /\ reason[job[r]] = "executor_succeeded" /\ thread[r] = "ok"
        /\ Current(r) /\ Status(r) \in {"APPROVED", "REJECTED"} => ~Spent(r)

\* How two claims of one proposal relate.
TwoRuns(r, s) ==
    r # s /\ job[r] = job[s] /\ job[r] # None =>
        /\ ~(pc[r] \in Owning /\ pc[s] \in Owning)
        /\ pc[r] \in Owning /\ authority[s] = authority[r] => ~Spent(s)
        /\ authority[r] = authority[s] => ~(Spent(r) /\ Spent(s))

\* A proposal has been authorised when, and only when, its status says so.
GrantsMatch(p) ==
    /\ status[p] \in {"NONE", "PENDING"} => grants[p] = 0
    /\ status[p] \notin {"NONE", "PENDING", "REJECTED"} => grants[p] > 0

\* A dead process runs nothing.
Stopped(r) == pc[r] \notin Live /\ thread[r] \notin {"open", "sent"}

ExecutionInv ==
    /\ ExecutionTypeOK
    /\ \A p \in Proposals : GrantsMatch(p)
    /\ \A r \in Runs : RunShape(r)
    /\ \A r \in Runs : RunAndRow(r)
    /\ \A r, s \in Runs : TwoRuns(r, s)
    /\ ~up => \A r \in Runs : Stopped(r)
    /\ AbandonedThreadIsFlagged
    /\ ExecutedIsTrue

-----------------------------------------------------------------------------
(* The workflow implements the contract for commands that change a device. *)
ContractState ==
    [NONE |-> "absent", PENDING |-> "waiting", APPROVED |-> "authorised",
     REJECTED |-> "refused", EXECUTING |-> "inflight",
     UNKNOWN |-> "doubtful", EXECUTED |-> "done"]

StateOf == [p \in DeviceControl |-> ContractState[status[p]]]
GrantOf == [p \in DeviceControl |-> grants[p]]
EffectsOf ==
    {<<job[r], authority[r]>> : r \in {x \in Runs : touched[x] /\ job[x] \in DeviceControl}}

Contract == INSTANCE HitlContract WITH
    Writes <- DeviceControl, state <- StateOf, grant <- GrantOf, effects <- EffectsOf

ImplementsContract == Contract!ContractSpec

-----------------------------------------------------------------------------
(* Liveness. *)

(* When no transaction fails and no run is cancelled, every execution that *)
(* was claimed is settled, across any number of crashes and restarts.      *)
ExecutionSettles ==
    \A p \in Proposals : status[p] = "EXECUTING" ~> status[p] # "EXECUTING"
=============================================================================

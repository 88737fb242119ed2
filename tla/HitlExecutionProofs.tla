------------------------- MODULE HitlExecutionProofs -------------------------
(* Theorems about HitlExecution, for every set of proposals and runs: its  *)
(* invariants, and that it implements HitlContract.                        *)
EXTENDS HitlExecution, TLAPS

-----------------------------------------------------------------------------
(* Type correctness. *)

\* The row operations keep the row well typed.
LEMMA RowTypes ==
    ASSUME ProposalTypeOK, NEW p \in Proposals,
           \/ Create(p) \/ CreateApproved(p) \/ Approve(p) \/ Reject(p)
           \/ Withdraw(p) \/ RejectForPolicy(p) \/ ClaimExecution(p) \/ MarkUnknown(p)
           \/ (\E why \in Reasons : RevertUnexecuted(p, why))
           \/ MarkExecuted(p) \/ ConfirmExecuted(p) \/ AllowRetry(p)
    PROVE  ProposalTypeOK'
<1> USE DEF ProposalTypeOK, Move, Statuses, Reasons, UnexecutedReasons
<1>1. CASE Create(p) \/ CreateApproved(p) \/ Approve(p) \/ Reject(p)
  BY <1>1 DEF Create, CreateApproved, Approve, Reject
<1>2. CASE Withdraw(p) \/ RejectForPolicy(p) \/ ClaimExecution(p) \/ MarkUnknown(p)
  BY <1>2 DEF Withdraw, RejectForPolicy, ClaimExecution, MarkUnknown
<1>3. CASE \E why \in Reasons : RevertUnexecuted(p, why)
  BY <1>3 DEF RevertUnexecuted
<1>4. CASE MarkExecuted(p) \/ ConfirmExecuted(p) \/ AllowRetry(p)
  BY <1>4 DEF MarkExecuted, ConfirmExecuted, AllowRetry
<1>. QED  BY <1>1, <1>2, <1>3, <1>4

\* A run that is past "idle" has a proposal.
LEMMA JobIsProposal ==
    ASSUME ExecutionTypeOK, NEW r \in Runs, RunShape(r), pc[r] # "idle"
    PROVE  job[r] \in Proposals
BY DEF ExecutionTypeOK, RunShape

\* One step keeps every variable well typed, given that runs have proposals.
LEMMA StepTypes ==
    ASSUME ExecutionTypeOK, \A r \in Runs : RunShape(r), ExecutionNext
    PROVE  ExecutionTypeOK'
<1> USE DEF ExecutionTypeOK, Goto, BeforeClaim, Owning, Ended, Live, Threads
<1>1. ASSUME NEW r \in Runs, NEW p \in Proposals, Start(r, p)
      PROVE  ExecutionTypeOK'
  BY <1>1 DEF Start, proposalVars, envVars, ProposalTypeOK
<1>2. ASSUME NEW r \in Runs,
             Preflight(r) \/ Check(r) \/ LoseClaim(r) \/ Conflict(r) \/ Settle(r)
      PROVE  ExecutionTypeOK'
  BY <1>2 DEF Preflight, Check, LoseClaim, Conflict, Settle,
              proposalVars, envVars, ProposalTypeOK
<1>3. ASSUME NEW r \in Runs, PolicyReject(r)
      PROVE  ExecutionTypeOK'
  <2>1. job[r] \in Proposals  BY <1>3, JobIsProposal DEF PolicyReject
  <2>2. ProposalTypeOK'
    BY <1>3, <2>1, RowTypes DEF PolicyReject, proposalVars, ProposalTypeOK
  <2>. QED  BY <1>3, <2>2 DEF PolicyReject, envVars
<1>4. ASSUME NEW r \in Runs, Claim(r)
      PROVE  ExecutionTypeOK'
  <2>1. job[r] \in Proposals  BY <1>4, JobIsProposal DEF Claim
  <2>2. ProposalTypeOK'  BY <1>4, <2>1, RowTypes DEF Claim
  <2>3. grants[job[r]] \in Nat  BY <2>1 DEF ProposalTypeOK
  <2>. QED  BY <1>4, <2>2, <2>3 DEF Claim, envVars
<1>5. ASSUME NEW r \in Runs, Launch(r) \/ RecordNotification(r) \/ ThreadStep(r)
      PROVE  ExecutionTypeOK'
  BY <1>5 DEF Launch, RecordNotification, ThreadStep, ThreadSends, ThreadEnds,
              proposalVars, envVars, ProposalTypeOK
<1>6. ASSUME NEW r \in Runs, Finish(r) \/ Revert(r) \/ RecordUnknown(r)
      PROVE  ExecutionTypeOK'
  <2>1. job[r] \in Proposals
    BY <1>6, JobIsProposal DEF Finish, Revert, RecordUnknown
  <2>2. ProposalTypeOK'
    <3>1. CASE Finish(r)  BY <3>1, <2>1, RowTypes DEF Finish
    <3>2. CASE Revert(r)
      <4>1. UnexecutedReason(r) \in Reasons
        BY DEF UnexecutedReason, Reasons, UnexecutedReasons
      <4>. QED  BY <3>2, <4>1, <2>1, RowTypes DEF Revert
    <3>3. CASE RecordUnknown(r)
      BY <3>3, <2>1, RowTypes DEF RecordUnknown, proposalVars, ProposalTypeOK
    <3>. QED  BY <1>6, <3>1, <3>2, <3>3
  <2>. QED  BY <1>6, <2>2 DEF Finish, Revert, RecordUnknown, envVars
<1>7. ASSUME NEW r \in Runs, DatabaseFails(r) \/ Cancel(r)
      PROVE  ExecutionTypeOK'
  <2>1. PICK outcome \in {"error", "cancelled"} : Interrupt(r, outcome)
    BY <1>7 DEF DatabaseFails, Cancel
  <2>2. job[r] \in Proposals  BY <2>1, JobIsProposal DEF Interrupt
  <2>3. ProposalTypeOK'
    <3>1. CASE UNCHANGED proposalVars  BY <3>1 DEF proposalVars, ProposalTypeOK
    <3>2. CASE RowUpdate(r)
      <4>1. UnexecutedReason(r) \in Reasons
        BY DEF UnexecutedReason, Reasons, UnexecutedReasons
      <4>. QED  BY <3>2, <4>1, <2>2, RowTypes DEF RowUpdate
    <3>. QED  BY <2>1, <3>1, <3>2 DEF Interrupt
  <2>4. authority' \in [Runs -> Nat]
    BY <2>1, <2>2 DEF Interrupt, ProposalTypeOK
  <2>5. pc' \in [Runs -> {"idle"} \cup Live \cup Ended]  BY <2>1 DEF Interrupt
  <2>6. thread' \in [Runs -> Threads] /\ cancelled' \in [Runs -> BOOLEAN]
    BY <1>7 DEF DatabaseFails, Cancel
  <2>. QED  BY <2>1, <2>3, <2>4, <2>5, <2>6 DEF Interrupt, envVars
<1>8. ASSUME NEW p \in Proposals, Decide(p) \/ Revoke(p) \/ Blacklist(p)
      PROVE  ExecutionTypeOK'
  <2>1. CASE Decide(p)
    <3>1. ProposalTypeOK'  BY <2>1, RowTypes DEF Decide
    <3>. QED  BY <2>1, <3>1 DEF Decide, runVars, envVars
  <2>2. CASE Revoke(p) \/ Blacklist(p)
    BY <2>2 DEF Revoke, Blacklist, proposalVars, runVars, ProposalTypeOK, Device
  <2>. QED  BY <1>8, <2>1, <2>2
<1>9. CASE Crash
  BY <1>9 DEF Crash, proposalVars, envVars, ProposalTypeOK
<1>10. CASE Restart
  <2>1. ProposalTypeOK'
    BY <1>10 DEF Restart, RecoverExecuting, ProposalTypeOK, Statuses, Reasons
  <2>. QED  BY <1>10, <2>1 DEF Restart, runVars, envVars
<1>. QED
  BY <1>1, <1>2, <1>3, <1>4, <1>5, <1>6, <1>7, <1>8, <1>9, <1>10
  DEF ExecutionNext, RunStep

-----------------------------------------------------------------------------
(* The inductive invariant, one lemma for each group of actions. *)

LEMMA InvInit == ExecutionInit => ExecutionInv
<1> SUFFICES ASSUME ExecutionInit PROVE ExecutionInv
  OBVIOUS
<1> USE DEF ExecutionInit, ProposalInit
<1>1. ExecutionTypeOK
  BY ExecutionAssumption DEF ExecutionTypeOK, ProposalTypeOK, Statuses, Reasons, Threads
<1>2. \A p \in Proposals : GrantsMatch(p)
  BY DEF GrantsMatch
<1>3. \A r \in Runs : RunShape(r)
  BY DEF RunShape, BeforeClaim
<1>4. \A r \in Runs : RunAndRow(r)
  BY DEF RunAndRow
<1>5. \A r, s \in Runs : TwoRuns(r, s)
  BY DEF TwoRuns
<1>6. AbandonedThreadIsFlagged
  BY DEF AbandonedThreadIsFlagged, Current
<1>7. ExecutedIsTrue
  BY DEF ExecutedIsTrue
<1>. QED  BY <1>1, <1>2, <1>3, <1>4, <1>5, <1>6, <1>7 DEF ExecutionInv

(* Steps that only move the coroutine, before it owns the row. *)
LEMMA InvBeforeClaim ==
    ASSUME ExecutionInv, ExecutionTypeOK', NEW r \in Runs,
           \/ \E p \in Proposals : Start(r, p)
           \/ Preflight(r) \/ Check(r) \/ LoseClaim(r) \/ Conflict(r)
    PROVE  ExecutionInv'
<1> USE DEF ExecutionInv, ExecutionTypeOK, ProposalTypeOK, Goto, BeforeClaim, Owning, Live,
            Start, Preflight, Check, LoseClaim, Conflict, proposalVars
<1>2. (\A p \in Proposals : GrantsMatch(p))'
  BY DEF GrantsMatch
<1>3. (\A s \in Runs : RunShape(s))'
  BY ExecutionAssumption DEF RunShape
<1>4. (\A s \in Runs : RunAndRow(s))'
  BY DEF RunAndRow, RunShape, Current, Spent, Active, Status
<1>5. (\A s, t \in Runs : TwoRuns(s, t))'
  BY DEF TwoRuns, RunShape, Spent, Active
<1>6. (~up => \A s \in Runs : Stopped(s))'
  BY DEF Stopped
<1>7. AbandonedThreadIsFlagged'
  BY DEF AbandonedThreadIsFlagged, RunShape, Current, Status
<1>8. ExecutedIsTrue'
  BY DEF ExecutedIsTrue, RunShape, Current
<1>. QED  BY <1>2, <1>3, <1>4, <1>5, <1>6, <1>7, <1>8

(* Rejecting a blacklisted command, or losing the row to someone else. *)
LEMMA InvPolicyReject ==
    ASSUME ExecutionInv, ExecutionTypeOK', NEW r \in Runs,
           PolicyReject(r)
    PROVE  ExecutionInv'
<1> USE DEF ExecutionInv, ExecutionTypeOK, ProposalTypeOK, Goto, BeforeClaim, Owning, Live,
            PolicyReject, RejectForPolicy, Move, proposalVars
<1>2. (\A p \in Proposals : GrantsMatch(p))'
  BY DEF GrantsMatch
<1>3. (\A s \in Runs : RunShape(s))'
  BY DEF RunShape
<1>4. (\A s \in Runs : RunAndRow(s))'
  BY DEF RunAndRow, Current, Spent, Active, Status
<1>5. (\A s, t \in Runs : TwoRuns(s, t))'
  BY DEF TwoRuns, Spent, Active
<1>6. (~up => \A s \in Runs : Stopped(s))'
  BY DEF Stopped
<1>7. AbandonedThreadIsFlagged'
  BY DEF AbandonedThreadIsFlagged, Current, Status
<1>8. ExecutedIsTrue'
  BY DEF ExecutedIsTrue, Current
<1>. QED  BY <1>2, <1>3, <1>4, <1>5, <1>6, <1>7, <1>8

(* The claim: only here does a run become an owner. *)
LEMMA InvClaim ==
    ASSUME ExecutionInv, ExecutionTypeOK', NEW r \in Runs,
           Claim(r)
    PROVE  ExecutionInv'
<1> USE DEF ExecutionInv, ExecutionTypeOK, ProposalTypeOK, Goto, BeforeClaim, Owning, Live,
            Claim, ClaimExecution, Move
<1>2. (\A p \in Proposals : GrantsMatch(p))'
  BY DEF GrantsMatch
<1>3. (\A s \in Runs : RunShape(s))'
  BY DEF RunShape
<1>4. (\A s \in Runs : RunAndRow(s))'
  BY DEF RunAndRow, GrantsMatch, Current, Spent, Active, Status
<1>5. (\A s, t \in Runs : TwoRuns(s, t))'
  BY DEF TwoRuns, RunShape, RunAndRow, Current, Spent, Active, Status
<1>6. (~up => \A s \in Runs : Stopped(s))'
  BY DEF Stopped
<1>7. AbandonedThreadIsFlagged'
  BY DEF AbandonedThreadIsFlagged, Current, Status
<1>8. ExecutedIsTrue'
  BY DEF ExecutedIsTrue, Current
<1>. QED  BY <1>2, <1>3, <1>4, <1>5, <1>6, <1>7, <1>8

(* Handing the command over. *)
LEMMA InvLaunch ==
    ASSUME ExecutionInv, ExecutionTypeOK', NEW r \in Runs,
           Launch(r)
    PROVE  ExecutionInv'
<1> USE DEF ExecutionInv, ExecutionTypeOK, Goto, BeforeClaim, Owning, Live, Launch, proposalVars
<1>2. (\A p \in Proposals : GrantsMatch(p))'
  BY DEF GrantsMatch
<1>3. (\A s \in Runs : RunShape(s))'
  BY DEF RunShape, RunAndRow
<1>4. (\A s \in Runs : RunAndRow(s))'
  BY DEF RunAndRow, Current, Spent, Active, Status
<1>5. (\A s, t \in Runs : TwoRuns(s, t))'
  BY DEF TwoRuns, Spent, Active
<1>6. (~up => \A s \in Runs : Stopped(s))'
  BY DEF Stopped
<1>7. AbandonedThreadIsFlagged'
  BY DEF AbandonedThreadIsFlagged, Current, Status
<1>8. ExecutedIsTrue'
  BY DEF ExecutedIsTrue, RunAndRow, Current, Status
<1>. QED  BY <1>2, <1>3, <1>4, <1>5, <1>6, <1>7, <1>8

(* What happens to the command while, or after, the run awaits it. *)
LEMMA InvThread ==
    ASSUME ExecutionInv, ExecutionTypeOK', NEW r \in Runs,
           ThreadStep(r) \/ RecordNotification(r)
    PROVE  ExecutionInv'
<1> USE DEF ExecutionInv, ExecutionTypeOK, ThreadStep, ThreadSends, ThreadEnds,
            RecordNotification, proposalVars
<1>2. (\A p \in Proposals : GrantsMatch(p))'
  BY DEF GrantsMatch
<1>3. (\A s \in Runs : RunShape(s))'
  BY DEF RunShape
<1>4. (\A s \in Runs : RunAndRow(s))'
  BY DEF RunAndRow, Current, Spent, Active, Status
<1>5. (\A s, t \in Runs : TwoRuns(s, t))'
  BY DEF TwoRuns, Spent, Active
<1>6. (~up => \A s \in Runs : Stopped(s))'
  BY DEF Stopped
<1>7. AbandonedThreadIsFlagged'
  BY DEF AbandonedThreadIsFlagged, Current, Status
<1>8. ExecutedIsTrue'
  BY DEF ExecutedIsTrue, Current
<1>. QED  BY <1>2, <1>3, <1>4, <1>5, <1>6, <1>7, <1>8

(* Choosing how to settle. *)
LEMMA InvSettle ==
    ASSUME ExecutionInv, ExecutionTypeOK', NEW r \in Runs,
           Settle(r)
    PROVE  ExecutionInv'
<1> USE DEF ExecutionInv, ExecutionTypeOK, Goto, BeforeClaim, Owning, Live, Settle, proposalVars
<1>2. (\A p \in Proposals : GrantsMatch(p))'
  BY DEF GrantsMatch
<1>3. (\A s \in Runs : RunShape(s))'
  BY DEF RunShape
<1>4. (\A s \in Runs : RunAndRow(s))'
  BY DEF RunAndRow, Current, Spent, Active, Status
<1>5. (\A s, t \in Runs : TwoRuns(s, t))'
  BY DEF TwoRuns, Spent, Active
<1>6. (~up => \A s \in Runs : Stopped(s))'
  BY DEF Stopped
<1>7. AbandonedThreadIsFlagged'
  BY DEF AbandonedThreadIsFlagged, Current, Status
<1>8. ExecutedIsTrue'
  BY DEF ExecutedIsTrue, Current
<1>. QED  BY <1>2, <1>3, <1>4, <1>5, <1>6, <1>7, <1>8

(* Settling as executed. *)
LEMMA InvFinish ==
    ASSUME ExecutionInv, ExecutionTypeOK', NEW r \in Runs,
           Finish(r)
    PROVE  ExecutionInv'
<1> USE DEF ExecutionInv, ExecutionTypeOK, Goto, BeforeClaim, Owning, Live, Finish,
            MarkExecuted, Move
<1>2. (\A p \in Proposals : GrantsMatch(p))'
  BY DEF GrantsMatch
<1>3. (\A s \in Runs : RunShape(s))'
  BY DEF RunShape
<1>4. (\A s \in Runs : RunAndRow(s))'
  BY DEF RunAndRow, TwoRuns, Current, Spent, Active, Status
<1>5. (\A s, t \in Runs : TwoRuns(s, t))'
  BY DEF TwoRuns, Spent, Active
<1>6. (~up => \A s \in Runs : Stopped(s))'
  BY DEF Stopped
<1>7. AbandonedThreadIsFlagged'
  BY DEF AbandonedThreadIsFlagged, RunShape, RunAndRow, TwoRuns, Current, Spent, Active, Status
<1>8. ExecutedIsTrue'
  BY DEF ExecutedIsTrue, RunShape, RunAndRow, Current
<1>. QED  BY <1>2, <1>3, <1>4, <1>5, <1>6, <1>7, <1>8

(* Giving the proposal back. *)
LEMMA InvRevert ==
    ASSUME ExecutionInv, ExecutionTypeOK', NEW r \in Runs,
           Revert(r)
    PROVE  ExecutionInv'
<1> USE DEF ExecutionInv, ExecutionTypeOK, Goto, BeforeClaim, Owning, Live, Revert,
            RevertUnexecuted, Move
<1>2. (\A p \in Proposals : GrantsMatch(p))'
  BY DEF GrantsMatch
<1>3. (\A s \in Runs : RunShape(s))'
  BY DEF RunShape
<1>4. (\A s \in Runs : RunAndRow(s))'
  BY KindsAssumption DEF RunAndRow, RunShape, TwoRuns, Current, Spent, Active, Status
<1>5. (\A s, t \in Runs : TwoRuns(s, t))'
  BY DEF TwoRuns, Spent, Active
<1>6. (~up => \A s \in Runs : Stopped(s))'
  BY DEF Stopped
<1>7. AbandonedThreadIsFlagged'
  BY DEF AbandonedThreadIsFlagged, RunShape, RunAndRow, TwoRuns, Current, Spent, Active, Status
<1>8. ExecutedIsTrue'
  BY DEF ExecutedIsTrue, Current
<1>. QED  BY <1>2, <1>3, <1>4, <1>5, <1>6, <1>7, <1>8

(* Recording that the outcome is unknown. *)
LEMMA InvRecordUnknown ==
    ASSUME ExecutionInv, ExecutionTypeOK', NEW r \in Runs,
           RecordUnknown(r)
    PROVE  ExecutionInv'
<1> USE DEF ExecutionInv, ExecutionTypeOK, ProposalTypeOK, Goto, BeforeClaim, Owning, Live,
            RecordUnknown, MarkUnknown, Move, proposalVars
<1>2. (\A p \in Proposals : GrantsMatch(p))'
  BY DEF GrantsMatch
<1>3. (\A s \in Runs : RunShape(s))'
  BY DEF RunShape
<1>4. (\A s \in Runs : RunAndRow(s))'
  BY DEF RunAndRow, TwoRuns, Current, Spent, Active, Status
<1>5. (\A s, t \in Runs : TwoRuns(s, t))'
  BY DEF TwoRuns, Spent, Active
<1>6. (~up => \A s \in Runs : Stopped(s))'
  BY DEF Stopped
<1>7. AbandonedThreadIsFlagged'
  BY DEF AbandonedThreadIsFlagged, RunAndRow, Current, Status
<1>8. ExecutedIsTrue'
  BY DEF ExecutedIsTrue, Current
<1>. QED  BY <1>2, <1>3, <1>4, <1>5, <1>6, <1>7, <1>8

(* An exception or a cancellation at any point of the coroutine. *)
LEMMA InvInterrupt ==
    ASSUME ExecutionInv, ExecutionTypeOK', NEW r \in Runs,
           DatabaseFails(r) \/ Cancel(r)
    PROVE  ExecutionInv'
<1> USE DEF ExecutionInv, ExecutionTypeOK, ProposalTypeOK, Goto, BeforeClaim, Owning, Live,
            DatabaseFails, Cancel, Interrupt, RowUpdate, Guarded, RejectForPolicy,
            ClaimExecution, MarkExecuted, RevertUnexecuted, MarkUnknown, Move, proposalVars
<1>2. (\A p \in Proposals : GrantsMatch(p))'
  BY DEF GrantsMatch
<1>3. (\A s \in Runs : RunShape(s))'
  BY DEF RunShape
<1>4. (\A s \in Runs : RunAndRow(s))'
  BY KindsAssumption DEF RunAndRow, RunShape, TwoRuns, Current, Spent, Active, Status
<1>5. (\A s, t \in Runs : TwoRuns(s, t))'
  BY DEF TwoRuns, RunAndRow, Current, Spent, Active, Status
<1>6. (~up => \A s \in Runs : Stopped(s))'
  BY DEF Stopped
<1>7. AbandonedThreadIsFlagged'
  BY DEF AbandonedThreadIsFlagged, RunShape, RunAndRow, TwoRuns, Current, Spent, Active, Status
<1>8. ExecutedIsTrue'
  BY DEF ExecutedIsTrue, RunShape, RunAndRow, Current
<1>. QED  BY <1>2, <1>3, <1>4, <1>5, <1>6, <1>7, <1>8

(* People. *)
LEMMA InvDecide ==
    ASSUME ExecutionInv, ExecutionTypeOK', 
           \E p \in Proposals : Decide(p) \/ Revoke(p) \/ Blacklist(p)
    PROVE  ExecutionInv'
<1> USE DEF ExecutionInv, ExecutionTypeOK, ProposalTypeOK, Decide, Revoke, Blacklist, Create,
            CreateApproved, Approve, Reject, Withdraw, ConfirmExecuted, AllowRetry, Move, proposalVars,
            runVars
<1>2. (\A p \in Proposals : GrantsMatch(p))'
  BY DEF GrantsMatch
<1>3. (\A s \in Runs : RunShape(s))'
  BY DEF RunShape
<1>4. (\A s \in Runs : RunAndRow(s))'
  BY DEF RunAndRow, GrantsMatch, Current, Spent, Active, Status
<1>5. (\A s, t \in Runs : TwoRuns(s, t))'
  BY DEF TwoRuns, Spent, Active
<1>6. (~up => \A s \in Runs : Stopped(s))'
  BY DEF Stopped
<1>7. AbandonedThreadIsFlagged'
  BY DEF AbandonedThreadIsFlagged, RunAndRow, Current, Status
<1>8. ExecutedIsTrue'
  BY DEF ExecutedIsTrue, Current
<1>. QED  BY <1>2, <1>3, <1>4, <1>5, <1>6, <1>7, <1>8

(* The process. *)
LEMMA InvProcess ==
    ASSUME ExecutionInv, ExecutionTypeOK', 
           Crash \/ Restart
    PROVE  ExecutionInv'
<1> USE DEF ExecutionInv, ExecutionTypeOK, BeforeClaim, Owning, Live, Crash, Restart,
            RecoverExecuting, proposalVars, runVars
<1>2. (\A p \in Proposals : GrantsMatch(p))'
  BY DEF GrantsMatch
<1>3. (\A s \in Runs : RunShape(s))'
  BY DEF RunShape
<1>4. (\A s \in Runs : RunAndRow(s))'
  BY DEF RunAndRow, Stopped, Current, Spent, Active, Status
<1>5. (\A s, t \in Runs : TwoRuns(s, t))'
  BY DEF TwoRuns, Spent, Active
<1>6. (~up => \A s \in Runs : Stopped(s))'
  BY DEF Stopped
<1>7. AbandonedThreadIsFlagged'
  BY DEF AbandonedThreadIsFlagged, Current, Status
<1>8. ExecutedIsTrue'
  BY DEF ExecutedIsTrue, Current
<1>. QED  BY <1>2, <1>3, <1>4, <1>5, <1>6, <1>7, <1>8

LEMMA InvStep ==
    ASSUME ExecutionInv, [ExecutionNext]_executionVars  PROVE ExecutionInv'
<1>1. CASE UNCHANGED executionVars
  <2> USE <1>1 DEF executionVars, proposalVars, runVars, envVars
  <2>1. ExecutionTypeOK' /\ (\A p \in Proposals : GrantsMatch(p))'
    BY DEF ExecutionInv, ExecutionTypeOK, ProposalTypeOK, GrantsMatch
  <2>2. (\A r \in Runs : RunShape(r) /\ RunAndRow(r))'
    BY DEF ExecutionInv, RunShape, RunAndRow, Current, Spent, Active, Status
  <2>3. (\A r, s \in Runs : TwoRuns(r, s))'
    BY DEF ExecutionInv, TwoRuns, Spent, Active
  <2>4. (~up => \A r \in Runs : Stopped(r))' /\ AbandonedThreadIsFlagged'
    BY DEF ExecutionInv, Stopped, AbandonedThreadIsFlagged, Current, Status
  <2>5. ExecutedIsTrue'
    BY DEF ExecutionInv, ExecutedIsTrue, Current
  <2>. QED  BY <2>1, <2>2, <2>3, <2>4, <2>5 DEF ExecutionInv
<1>2. CASE ExecutionNext
  <2>1. ExecutionTypeOK'
    BY <1>2, StepTypes DEF ExecutionInv
  <2>. QED
    BY <1>2, <2>1, InvBeforeClaim, InvPolicyReject, InvClaim, InvLaunch, InvThread,
       InvSettle, InvFinish, InvRevert, InvRecordUnknown, InvInterrupt,
       InvDecide, InvProcess
    DEF ExecutionNext, RunStep
<1>. QED  BY <1>1, <1>2

\* The invariant holds in every reachable state.
THEOREM ExecutionInvariant == ExecutionSpec => []ExecutionInv
BY InvInit, InvStep, PTL DEF ExecutionSpec

-----------------------------------------------------------------------------
(* What follows from it. *)

\* Every variable keeps its type.
THEOREM ExecutionTypes == ExecutionSpec => []ExecutionTypeOK
<1>1. ExecutionInv => ExecutionTypeOK
  BY DEF ExecutionInv
<1>. QED  BY <1>1, ExecutionInvariant, PTL

(* However many callers execute a proposal, one run owns it between claim   *)
(* and settlement, and the row says so.                                    *)
THEOREM OwnershipIsExclusive == ExecutionSpec => []OneOwner
<1>1. ExecutionInv => OneOwner
  BY DEF ExecutionInv, OneOwner, RunShape, RunAndRow, TwoRuns, Owning, BeforeClaim
<1>. QED  BY <1>1, ExecutionInvariant, PTL

(* No schedule of runs, cancellations, orphaned threads and restarts makes *)
(* one authorisation change a device twice.                                *)
THEOREM NoAuthorisationIsUsedTwice == ExecutionSpec => []OncePerAuthorisation
<1>1. ExecutionInv => OncePerAuthorisation
  BY DEF ExecutionInv, OncePerAuthorisation, RunShape, TwoRuns, Spent
<1>. QED  BY <1>1, ExecutionInvariant, PTL

(* A proposal offered for execution again, or refused, has nothing under   *)
(* way and no effect under its present authorisation.                      *)
THEOREM GivenBackMeansUnused == ExecutionSpec => []ApprovedIsUntouched
<1>1. ExecutionInv => ApprovedIsUntouched
  BY DEF ExecutionInv, ApprovedIsUntouched, RunAndRow, Current, Spent, Active, MaySend
<1>. QED  BY <1>1, ExecutionInvariant, PTL

\* A thread that outlives its run is never hidden behind a known outcome.
THEOREM OrphansAreFlagged == ExecutionSpec => []AbandonedThreadIsFlagged
<1>1. ExecutionInv => AbandonedThreadIsFlagged
  BY DEF ExecutionInv
<1>. QED  BY <1>1, ExecutionInvariant, PTL

\* EXECUTED is never written for a command that did not reach its target.
THEOREM SuccessIsReal == ExecutionSpec => []ExecutedIsTrue
<1>1. ExecutionInv => ExecutedIsTrue
  BY DEF ExecutionInv
<1>. QED  BY <1>1, ExecutionInvariant, PTL

-----------------------------------------------------------------------------
(* HitlExecution implements HitlContract: the row operations. *)

\* How the statuses read in the contract.
LEMMA StateNames ==
    /\ ContractState["NONE"] = "absent" /\ ContractState["PENDING"] = "waiting"
    /\ ContractState["APPROVED"] = "authorised" /\ ContractState["REJECTED"] = "refused"
    /\ ContractState["EXECUTING"] = "inflight" /\ ContractState["UNKNOWN"] = "doubtful"
    /\ ContractState["EXECUTED"] = "done"
BY DEF ContractState

\* A row that moves, moves its abstract state and nobody else's.
LEMMA MovedState ==
    ASSUME ProposalTypeOK, NEW p \in DeviceControl, NEW from, NEW to, NEW why,
           Move(p, from, to, why)
    PROVE  /\ StateOf[p] = ContractState[from]
           /\ StateOf' = [StateOf EXCEPT ![p] = ContractState[to]]
<1>1. p \in Proposals /\ DeviceControl \subseteq Proposals
  BY KindsAssumption
<1>2. status'[p] = to /\ \A w \in DeviceControl \ {p} : status'[w] = status[w]
  BY <1>1 DEF Move, ProposalTypeOK
<1>3. StateOf[p] = ContractState[from]
  BY DEF Move, StateOf
<1>4. StateOf' = [w \in DeviceControl |->
                    IF w = p THEN ContractState[to] ELSE ContractState[status[w]]]
  BY <1>2 DEF StateOf
<1>5. [StateOf EXCEPT ![p] = ContractState[to]] =
        [w \in DeviceControl |->
            IF w = p THEN ContractState[to] ELSE ContractState[status[w]]]
  BY DEF StateOf
<1>. QED  BY <1>3, <1>4, <1>5

\* A row operation on a device_control is a step of the contract.
LEMMA RowImplements ==
    ASSUME ProposalTypeOK, EffectsOf' = EffectsOf, NEW p \in DeviceControl,
           \/ Create(p) \/ CreateApproved(p) \/ Approve(p) \/ Reject(p)
           \/ Withdraw(p) \/ RejectForPolicy(p) \/ ClaimExecution(p) \/ MarkUnknown(p)
           \/ ConfirmExecuted(p) \/ AllowRetry(p)
    PROVE  Contract!ContractNext
<1>0. p \in Proposals /\ DeviceControl \subseteq Proposals
  BY KindsAssumption
<1>1. CASE Create(p)
  <2>1. Contract!Propose(p)
    BY <1>1, StateNames, MovedState DEF Create, GrantOf, Contract!Propose
  <2>. QED  BY <2>1 DEF Contract!ContractNext
<1>2. CASE CreateApproved(p) \/ Approve(p) \/ AllowRetry(p)
  <2>1. GrantOf' = [GrantOf EXCEPT ![p] = @ + 1]
    BY <1>0, <1>2 DEF CreateApproved, Approve, AllowRetry, GrantOf, ProposalTypeOK
  <2>2. Contract!Authorise(p)
    BY <1>2, <2>1, StateNames, MovedState
    DEF CreateApproved, Approve, AllowRetry, Contract!Authorise
  <2>. QED  BY <2>2 DEF Contract!ContractNext
<1>3. CASE Reject(p) \/ Withdraw(p) \/ RejectForPolicy(p)
  <2>1. Contract!Refuse(p)
    BY <1>3, StateNames, MovedState
    DEF Reject, Withdraw, RejectForPolicy, GrantOf, Contract!Refuse
  <2>. QED  BY <2>1 DEF Contract!ContractNext
<1>4. CASE ClaimExecution(p)
  <2>1. Contract!Begin(p)
    BY <1>4, StateNames, MovedState DEF ClaimExecution, GrantOf, Contract!Begin
  <2>. QED  BY <2>1 DEF Contract!ContractNext
<1>5. CASE MarkUnknown(p)
  <2>1. Contract!Doubt({p})
    BY <1>0, <1>5, StateNames
    DEF MarkUnknown, Move, StateOf, GrantOf, ProposalTypeOK, Contract!Doubt
  <2>. QED  BY <2>1 DEF Contract!ContractNext
<1>6. CASE ConfirmExecuted(p)
  <2>1. Contract!Confirm(p)
    BY <1>6, StateNames, MovedState DEF ConfirmExecuted, GrantOf, Contract!Confirm
  <2>. QED  BY <2>1 DEF Contract!ContractNext
<1>. QED  BY <1>1, <1>2, <1>3, <1>4, <1>5, <1>6

\* About any other proposal it is a stutter.
LEMMA RowStutters ==
    ASSUME ProposalTypeOK, EffectsOf' = EffectsOf, NEW p \in Proposals \ DeviceControl,
           \/ Create(p) \/ CreateApproved(p) \/ Approve(p) \/ Reject(p)
           \/ Withdraw(p) \/ RejectForPolicy(p) \/ ClaimExecution(p) \/ MarkUnknown(p)
           \/ (\E why \in Reasons : RevertUnexecuted(p, why))
           \/ MarkExecuted(p) \/ ConfirmExecuted(p) \/ AllowRetry(p)
    PROVE  UNCHANGED Contract!contractVars
<1>1. \A w \in DeviceControl : status'[w] = status[w] /\ grants'[w] = grants[w]
  BY KindsAssumption
  DEF ProposalTypeOK, Move, Create, CreateApproved, Approve, Reject, Withdraw,
      RejectForPolicy, ClaimExecution, MarkUnknown, RevertUnexecuted, MarkExecuted,
      ConfirmExecuted, AllowRetry
<1>. QED  BY <1>1 DEF StateOf, GrantOf, Contract!contractVars

-----------------------------------------------------------------------------
(* Effects. *)

\* Effects change only with runs that have reached their device.
LEMMA SameEffects ==
    ASSUME ExecutionTypeOK, ExecutionTypeOK',
           \A r \in Runs : /\ touched'[r] = touched[r]
                           /\ touched[r] => job'[r] = job[r] /\ authority'[r] = authority[r]
    PROVE  EffectsOf' = EffectsOf
BY DEF EffectsOf, ExecutionTypeOK

\* A run that has reached its target has claimed a proposal.
LEMMA TouchedIsClaimed ==
    ASSUME ExecutionInv, NEW r \in Runs, touched[r]
    PROVE  /\ pc[r] \notin BeforeClaim \cup {"idle"} /\ job[r] \in Proposals
           /\ authority[r] \in 1 .. grants[job[r]]
BY DEF ExecutionInv, ExecutionTypeOK, ProposalTypeOK, RunShape, RunAndRow

\* A command that reaches its device is an effect the contract allows.
LEMMA SendImplements ==
    ASSUME ExecutionInv, ExecutionInv', NEW r \in Runs, ThreadSends(r)
    PROVE  [Contract!ContractNext]_(Contract!contractVars)
<1>0. /\ job[r] \in Proposals /\ thread[r] = "open" /\ ~touched[r] /\ authority[r] > 0
      /\ authority[r] \in 1 .. grants[job[r]]
  BY DEF ThreadSends, ExecutionInv, ExecutionTypeOK, ProposalTypeOK, RunShape, RunAndRow
<1>1. StateOf' = StateOf /\ GrantOf' = GrantOf
  BY DEF ThreadSends, proposalVars, StateOf, GrantOf
<1>2. CASE job[r] \notin DeviceControl
  <2>1. EffectsOf' = EffectsOf
    BY <1>2 DEF ThreadSends, EffectsOf, ExecutionInv, ExecutionTypeOK
  <2>. QED  BY <1>1, <2>1 DEF Contract!contractVars
<1>3. CASE job[r] \in DeviceControl
  <2>1. EffectsOf' = EffectsOf \cup {<<job[r], authority[r]>>}
    BY <1>3 DEF ThreadSends, EffectsOf, ExecutionInv, ExecutionTypeOK
  <2>2. <<job[r], authority[r]>> \notin EffectsOf
    <3> SUFFICES ASSUME NEW s \in Runs, touched[s], job[s] = job[r],
                        authority[s] = authority[r]
                 PROVE FALSE
      BY <1>3 DEF EffectsOf
    <3>. QED  BY <1>0, <1>3, ExecutionAssumption DEF ExecutionInv, TwoRuns, Spent, Active
  <2>3. authority[r] = grants[job[r]] =>
            status[job[r]] \in {"EXECUTING", "UNKNOWN", "EXECUTED"}
    BY <1>0, ExecutionAssumption
    DEF ExecutionInv, ExecutionTypeOK, ProposalTypeOK, Statuses, GrantsMatch,
        RunAndRow, Current, Spent, Active, Status
  <2>4. Contract!Effect(job[r], authority[r])
    BY <1>0, <1>1, <1>3, <2>1, <2>2, <2>3, StateNames
    DEF Contract!Effect, StateOf, GrantOf
  <2>. QED  BY <1>0, <1>3, <2>4 DEF Contract!ContractNext, GrantOf
<1>. QED  BY <1>2, <1>3

\* Giving a device_control back is allowed: its grant is unused.
LEMMA RevertImplements ==
    ASSUME ExecutionInv, NEW r \in Runs, pc[r] = "reverting", EffectsOf' = EffectsOf,
           RevertUnexecuted(job[r], UnexecutedReason(r))
    PROVE  [Contract!ContractNext]_(Contract!contractVars)
<1>0. /\ job[r] \in Proposals /\ ProposalTypeOK /\ authority[r] = grants[job[r]]
      /\ DeviceControl \subseteq Proposals
  BY KindsAssumption DEF ExecutionInv, ExecutionTypeOK, RunShape, RunAndRow, Owning
<1>1. CASE job[r] \notin DeviceControl
  <2>1. UnexecutedReason(r) \in Reasons
    BY DEF UnexecutedReason, Reasons, UnexecutedReasons
  <2>. QED  BY <1>0, <1>1, <2>1, RowStutters
<1>2. CASE job[r] \in DeviceControl
  <2>1. ~touched[r]
    BY <1>2, KindsAssumption DEF ExecutionInv, RunShape
  <2>2. <<job[r], GrantOf[job[r]]>> \notin EffectsOf
    <3> SUFFICES ASSUME NEW s \in Runs, touched[s], job[s] = job[r],
                        authority[s] = grants[job[r]]
                 PROVE FALSE
      BY <1>2 DEF EffectsOf, GrantOf
    <3>. QED  BY <1>0, <1>2, <2>1, ExecutionAssumption DEF ExecutionInv, TwoRuns, Spent, Owning
  <2>3. Contract!GiveBack(job[r])
    BY <1>0, <1>2, <2>2, StateNames, MovedState
    DEF RevertUnexecuted, GrantOf, Contract!GiveBack, Contract!Used
  <2>. QED  BY <1>2, <2>3 DEF Contract!ContractNext
<1>. QED  BY <1>1, <1>2

\* A device_control is completed by a run whose command reached the device.
LEMMA FinishImplements ==
    ASSUME ExecutionInv, NEW r \in Runs, pc[r] = "finishing", EffectsOf' = EffectsOf,
           MarkExecuted(job[r])
    PROVE  [Contract!ContractNext]_(Contract!contractVars)
<1>0. /\ job[r] \in Proposals /\ ProposalTypeOK /\ authority[r] = grants[job[r]]
      /\ touched[r]
  BY DEF ExecutionInv, ExecutionTypeOK, RunShape, RunAndRow, Owning
<1>1. CASE job[r] \notin DeviceControl
  BY <1>0, <1>1, RowStutters
<1>2. CASE job[r] \in DeviceControl
  <2>1. <<job[r], GrantOf[job[r]]>> \in EffectsOf
    BY <1>0, <1>2 DEF EffectsOf, GrantOf
  <2>2. Contract!Complete(job[r])
    BY <1>0, <1>2, <2>1, StateNames, MovedState
    DEF MarkExecuted, GrantOf, Contract!Complete, Contract!Used
  <2>. QED  BY <1>2, <2>2 DEF Contract!ContractNext
<1>. QED  BY <1>1, <1>2

\* The startup recovery doubts every write that was in flight.
LEMMA RestartImplements ==
    ASSUME ExecutionInv, EffectsOf' = EffectsOf, RecoverExecuting
    PROVE  [Contract!ContractNext]_(Contract!contractVars)
<1> DEFINE W == {w \in DeviceControl : status[w] = "EXECUTING"}
<1>1. Contract!Doubt(W)
  BY KindsAssumption, StateNames
  DEF RecoverExecuting, StateOf, GrantOf, ExecutionInv, ExecutionTypeOK, ProposalTypeOK,
      Statuses, Contract!Doubt
<1>. QED  BY <1>1 DEF Contract!ContractNext

-----------------------------------------------------------------------------
(* Every step. *)

LEMMA StepImplements ==
    ASSUME ExecutionInv, ExecutionInv', ExecutionNext
    PROVE  [Contract!ContractNext]_(Contract!contractVars)
<1>0. ExecutionTypeOK /\ ExecutionTypeOK' /\ ProposalTypeOK
  BY DEF ExecutionInv, ExecutionTypeOK
<1>1. ASSUME NEW r \in Runs,
             \/ \E p \in Proposals : Start(r, p)
             \/ Preflight(r) \/ Check(r) \/ LoseClaim(r) \/ Conflict(r)
             \/ Launch(r) \/ Settle(r) \/ ThreadEnds(r) \/ RecordNotification(r)
      PROVE  UNCHANGED Contract!contractVars
  <2>1. UNCHANGED <<status, grants>>
    BY <1>1 DEF Start, Preflight, Check, LoseClaim, Conflict, Launch, Settle, ThreadEnds,
                RecordNotification, proposalVars
  <2>2. EffectsOf' = EffectsOf
    <3>1. CASE RecordNotification(r)
      BY <1>0, <3>1 DEF RecordNotification, EffectsOf, ExecutionTypeOK, Notify
    <3>2. CASE ~RecordNotification(r)
      BY <1>0, <1>1, <3>2, SameEffects, TouchedIsClaimed
      DEF Start, Preflight, Check, LoseClaim, Conflict, Launch, Settle, ThreadEnds,
          ExecutionTypeOK
    <3>. QED  BY <3>1, <3>2
  <2>. QED  BY <2>1, <2>2 DEF StateOf, GrantOf, Contract!contractVars
<1>2. ASSUME NEW r \in Runs,
             \/ PolicyReject(r) \/ Claim(r) \/ Finish(r) \/ Revert(r) \/ RecordUnknown(r)
             \/ DatabaseFails(r) \/ Cancel(r)
      PROVE  [Contract!ContractNext]_(Contract!contractVars)
  <2>1. job[r] \in Proposals
    BY <1>0, <1>2, JobIsProposal
    DEF PolicyReject, Claim, Finish, Revert, RecordUnknown, DatabaseFails, Cancel, Interrupt,
        Live, BeforeClaim, Owning, ExecutionInv
  <2>2. EffectsOf' = EffectsOf
    BY <1>0, <1>2, <2>1, SameEffects, TouchedIsClaimed
    DEF PolicyReject, Claim, Finish, Revert, RecordUnknown, DatabaseFails, Cancel, Interrupt,
        BeforeClaim, ExecutionTypeOK
  <2>3. \/ UNCHANGED proposalVars
        \/ RejectForPolicy(job[r]) \/ ClaimExecution(job[r]) \/ MarkUnknown(job[r])
        \/ pc[r] = "finishing" /\ MarkExecuted(job[r])
        \/ pc[r] = "reverting" /\ RevertUnexecuted(job[r], UnexecutedReason(r))
    BY <1>2 DEF PolicyReject, Claim, Finish, Revert, RecordUnknown, DatabaseFails, Cancel,
                Interrupt, RowUpdate
  <2>4. CASE UNCHANGED proposalVars
    BY <2>2, <2>4 DEF proposalVars, StateOf, GrantOf, Contract!contractVars
  <2>5. CASE RejectForPolicy(job[r]) \/ ClaimExecution(job[r]) \/ MarkUnknown(job[r])
    BY <1>0, <2>1, <2>2, <2>5, RowImplements, RowStutters
  <2>. QED  BY <2>2, <2>3, <2>4, <2>5, FinishImplements, RevertImplements
<1>3. ASSUME NEW p \in Proposals, Decide(p)
      PROVE  [Contract!ContractNext]_(Contract!contractVars)
  <2>1. EffectsOf' = EffectsOf
    BY <1>3 DEF Decide, runVars, EffectsOf
  <2>. QED  BY <1>0, <1>3, <2>1, RowImplements, RowStutters DEF Decide
<1>4. ASSUME NEW p \in Proposals, Revoke(p) \/ Blacklist(p)
      PROVE  UNCHANGED Contract!contractVars
  BY <1>4 DEF Revoke, Blacklist, proposalVars, runVars, StateOf, GrantOf, EffectsOf,
              Contract!contractVars
<1>5. CASE Crash
  BY <1>5 DEF Crash, proposalVars, StateOf, GrantOf, EffectsOf, Contract!contractVars
<1>6. CASE Restart
  <2>1. EffectsOf' = EffectsOf
    BY <1>6 DEF Restart, runVars, EffectsOf
  <2>. QED  BY <1>6, <2>1, RestartImplements DEF Restart
<1>. QED
  BY <1>1, <1>2, <1>3, <1>4, <1>5, <1>6, SendImplements
  DEF ExecutionNext, RunStep, ThreadStep

(* Runs, threads, faults and restarts together implement the contract: one *)
(* effect per authorisation, none while it is unused or refused, and no    *)
(* completion without it.                                                  *)
THEOREM ContractIsImplemented == ExecutionSpec => ImplementsContract
<1>1. ExecutionInit => Contract!ContractInit
  BY KindsAssumption, StateNames
  DEF ExecutionInit, ProposalInit, StateOf, GrantOf, EffectsOf, Contract!ContractInit
<1>2. UNCHANGED executionVars => UNCHANGED Contract!contractVars
  BY DEF executionVars, proposalVars, runVars, envVars, StateOf, GrantOf, EffectsOf,
         Contract!contractVars
<1>3. ExecutionInv /\ ExecutionInv' /\ [ExecutionNext]_executionVars
        => [Contract!ContractNext]_(Contract!contractVars)
  BY <1>2, StepImplements
<1>. QED
  BY <1>1, <1>3, ExecutionInvariant, PTL
  DEF ExecutionSpec, ImplementsContract, Contract!ContractSpec
=============================================================================

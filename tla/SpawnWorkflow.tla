---------------------------- MODULE SpawnWorkflow ----------------------------
(***************************************************************************)
(* The workflows that drive the SpawnManager (agent/orchestration.py):     *)
(* classify_documents and investigate_root_cause spawn their workers in    *)
(* waves of at most max_concurrent_children, wait for each wave, close it  *)
(* before the next, and may have a reviewer look at the answers, below a   *)
(* worker of the last wave that completed.  The turn they run in may be    *)
(* cancelled at any await.                                                 *)
(***************************************************************************)
EXTENDS SpawnManager

CONSTANTS
    Workflow,   \* the workflow as a caller of close_agent
    Requests,   \* documents or branches: at least two
    MaxTrouble  \* bound: failures of the database, cancellations, crashes

ASSUME WorkflowAssumption ==
    /\ Workflow \in Closer \ {Shutdown}
    /\ Requests \in Nat /\ Requests >= 2
    /\ MaxTrouble \in Nat

VARIABLES
    wf,      \* the workflow's locals
    trouble  \* failures, cancellations and crashes so far

workflowVars == <<spawnVars, wf, trouble>>

\* sent: requests spawned; wave: receipts of the wave still waited for;
\* unclosed, open, reviewers: the lists of that name (open_final_receipts);
\* good: receipts that came back COMPLETED; closing, begun: a _close_all and
\* the close_agent calls it has started; parent: the reviewer's parent;
\* stop: a CancelledError is on its way; ending: what leaves the workflow.
WfStart ==
    [at |-> "spawning", sent |-> 0, wave |-> {}, unclosed |-> {}, open |-> {},
     reviewers |-> {}, good |-> {}, closing |-> {}, begun |-> {}, parent |-> Root,
     stop |-> FALSE, ending |-> "none"]

WorkflowInit == SpawnInit /\ wf = WfStart /\ trouble = 0

Trouble == trouble < MaxTrouble /\ trouble' = trouble + 1

\* The next uuid: ids without a row are alike.
Fresh ==
    LET unused == {c \in Child : lifecycle[c] = "NONE"}
    IN  IF unused = {} THEN {} ELSE {CHOOSE c \in unused : TRUE}

\* A _close_all over the receipts ids, to be followed at the place next.
CloseAll(next, ids) ==
    [wf EXCEPT !.at = next, !.closing = ids, !.begun = {}]

Closing == {"closing", "siblings", "dismissing", "cleanup", "aborting", "shielded"}

-----------------------------------------------------------------------------
(* _run_wave                                                               *)

Spawning == wf.at \in {"spawning", "review"} /\ spawn.at = "idle" /\ ~wf.stop
SpawnTarget == IF wf.at = "review" THEN wf.parent ELSE Root

\* The receipt is filed before the next await.
Filed(c) ==
    IF wf.at = "review"
    THEN [wf EXCEPT !.at = "reviewing", !.reviewers = {c}]
    ELSE [wf EXCEPT !.sent = @ + 1, !.unclosed = @ \cup {c}, !.wave = @ \cup {c},
                    !.at = IF wf.sent + 1 = Requests \/ (wf.sent + 1) % MaxConcurrent = 0
                           THEN "waiting" ELSE "spawning"]

WfSpawns ==
    /\ Spawning
    /\ \E c \in Fresh :
          \/ SpawnStarts(c, SpawnTarget) /\ wf' = Filed(c) /\ UNCHANGED trouble
          \/ /\ SpawnInterrupted(c, SpawnTarget) \/ SpawnTaskless(c, SpawnTarget)
             /\ Trouble
             /\ UNCHANGED wf

\* A wrong handler: the children already spawned are forgotten.
RefusedForgets ==
    IF wf.at = "review" THEN CloseAll("cleanup", wf.open)
    ELSE [CloseAll("aborting", {}) EXCEPT !.unclosed = {}, !.wave = {}]

\* spawn_agent raised: _run_wave closes what it has, _run_reviewer gives up.
Refused ==
    IF wf.at = "review"
    THEN CloseAll("cleanup", wf.open)
    ELSE [CloseAll("aborting", wf.unclosed) EXCEPT !.unclosed = {}, !.wave = {}]

WfRefused ==
    /\ Alive /\ Spawning
    /\ IF Admitted(SpawnTarget) THEN Trouble ELSE UNCHANGED trouble
    /\ wf' = Refused
    /\ UNCHANGED spawnVars

WfSpawnRaised ==
    /\ wf.at \in {"spawning", "review"}
    /\ SpawnReturns
    /\ wf' = IF wf.stop THEN wf ELSE Refused
    /\ UNCHANGED trouble

\* wait_agent: a row no longer active, or no task left to wait for.
Answered(c) == lifecycle[c] \notin Active \/ coroutine[c] \in {"none", "done"}

WfWaits(c) ==
    /\ Alive /\ wf.at = "waiting" /\ ~wf.stop /\ c \in wf.wave
    /\ Answered(c)
    /\ wf' = [wf EXCEPT !.wave = @ \ {c},
                        !.good = IF lifecycle[c] = "COMPLETED" THEN @ \cup {c} ELSE @]
    /\ UNCHANGED <<spawnVars, trouble>>

WfWaveEnds ==
    /\ Alive /\ wf.at = "waiting" /\ ~wf.stop /\ wf.wave = {}
    /\ wf' = IF wf.sent < Requests
             THEN [CloseAll("closing", wf.unclosed) EXCEPT !.unclosed = {}]
             ELSE [wf EXCEPT !.at = "deciding", !.open = wf.unclosed, !.unclosed = {}]
    /\ UNCHANGED <<spawnVars, trouble>>

-----------------------------------------------------------------------------
(* The reviewer                                                            *)

\* No usable answer or no need of a review, or the choice of
\* _spawn_nested_or_root_reviewer; which completed worker is the last one is
\* left open.
WfDecides ==
    /\ Alive /\ wf.at = "deciding" /\ ~wf.stop
    /\ LET parents == wf.good \cap wf.open
       IN  wf' \in {CloseAll("cleanup", wf.open)}
               \cup (IF wf.good = {} THEN {}
                     ELSE IF parents # {} /\ MaxConcurrent >= 2
                     THEN {[CloseAll("siblings", wf.open \ {p}) EXCEPT !.parent = p] : p \in parents}
                     ELSE {CloseAll("siblings", wf.open)})
    /\ UNCHANGED <<spawnVars, trouble>>

\* _run_reviewer: wait_agent answered, or raised for a row it found active.
WfReviewed ==
    /\ Alive /\ wf.at = "reviewing" /\ ~wf.stop
    /\ \E c \in wf.reviewers :
          /\ Answered(c)
          /\ wf' = IF lifecycle[c] \in Active
                   THEN CloseAll("dismissing", wf.reviewers)
                   ELSE CloseAll("cleanup", wf.open \cup wf.reviewers)
    /\ UNCHANGED <<spawnVars, trouble>>

-----------------------------------------------------------------------------
(* _close_all                                                              *)

WfCloses(c) ==
    /\ wf.at \in Closing /\ c \in wf.closing \ wf.begun
    /\ ~wf.stop \/ wf.at = "shielded"
    /\ CloseBegins(Workflow, c)
    /\ wf' = [wf EXCEPT !.begun = @ \cup {c}]
    /\ UNCHANGED trouble

CallsOver == \A c \in wf.begun : call[Workflow][c].at = "none"
CallsFine == \A c \in wf.begun : call[Workflow][c].ok

Leaves(how) ==
    [wf EXCEPT !.at = "ended", !.closing = {}, !.begun = {}, !.stop = FALSE,
               !.ending = IF @ = "none" \/ how = "unclean" THEN how ELSE @]

\* What follows a _close_all that came to its end: WorkflowCleanupError if a
\* close raised.
WfClosed ==
    /\ Alive /\ wf.at \in Closing /\ CallsOver
    /\ wf.begun = wf.closing
    /\ ~wf.stop \/ wf.at = "shielded"
    /\ wf' = CASE wf.at = "closing" /\ CallsFine -> CloseAll("spawning", {})
               [] wf.at = "siblings" /\ CallsFine ->
                     [CloseAll("review", {}) EXCEPT !.open = @ \cap {wf.parent}]
               [] wf.at = "dismissing" \/ (wf.at = "siblings" /\ ~CallsFine) ->
                     [CloseAll("cleanup", wf.open \cup wf.reviewers) EXCEPT
                         !.ending = IF CallsFine THEN @ ELSE "unclean"]
               [] OTHER -> Leaves(IF CallsFine THEN "returned" ELSE "unclean")
    /\ UNCHANGED <<spawnVars, trouble>>

-----------------------------------------------------------------------------
(* Cancellation of the turn                                                *)

\* Task.cancel() reaches the workflow at an await that is not shielded.
WfStopped ==
    /\ Alive /\ wf.at \notin {"ended", "shielded", "deciding"} /\ ~wf.stop /\ wf.ending # "cancelled"
    /\ Trouble
    /\ wf' = [wf EXCEPT !.stop = TRUE]
    /\ UNCHANGED spawnVars

\* Inside spawn_agent, once the slot is taken; earlier WfUnwinds follows at once.
WfSpawnStopped ==
    /\ Spawning /\ wf.ending # "cancelled"
    /\ \E c \in Fresh : SpawnInterrupted(c, SpawnTarget)
    /\ Trouble
    /\ wf' = [wf EXCEPT !.stop = TRUE]

\* gather cancels the close_agent calls it awaits; a call that has not begun
\* never does.
WfCallStopped(c) ==
    /\ wf.at \in Closing \ {"shielded"} /\ wf.stop /\ c \in wf.begun
    /\ CloseFails(Workflow, c)
    /\ UNCHANGED <<wf, trouble>>

\* The handlers: _run_wave closes, under a shield, what it has not handed to a
\* _close_all; _run_reviewer closes the reviewer under a shield; the finally of
\* the workflow closes what it still lists, under a shield if it is interrupted
\* itself.
WfUnwinds ==
    /\ Alive /\ wf.stop /\ spawn.at = "idle" /\ CallsOver
    /\ LET go(next, ids) == [CloseAll(next, ids) EXCEPT !.stop = FALSE, !.wave = {},
                                                        !.unclosed = {}, !.ending = "cancelled"]
       IN  wf' = CASE wf.at \in {"spawning", "waiting"} -> go("shielded", wf.unclosed)
                   [] wf.at \in {"closing", "aborting"} -> Leaves("cancelled")
                   [] wf.at = "reviewing" -> go("dismissing", wf.reviewers)
                   [] wf.at = "cleanup" -> go("shielded", wf.closing)
                   [] OTHER -> go("cleanup", wf.open \cup wf.reviewers)
    /\ UNCHANGED <<spawnVars, trouble>>

-----------------------------------------------------------------------------
WfFails ==
    /\ \/ SpawnFailures
       \/ \E c \in Child : TaskFails(c) \/ CollectorCloseFails(c)
       \/ \E o \in Closer, c \in Child : \/ CloseFails(o, c)
                                          \/ \E d \in Child : CloseTimesOut(o, c, d)
    /\ Trouble
    /\ UNCHANGED wf

\* A reconciliation that fails is no trouble of its own: it belongs to the
\* failure it comes after.
WfRecheckFails ==
    /\ DiscardRecheckFails \/ \E o \in Closer, c, d \in Child : CloseRecheckFails(o, c, d)
    /\ UNCHANGED <<wf, trouble>>

ShutsDown == ShutdownBegins /\ Trouble /\ UNCHANGED wf

Ends ==
    /\ Dies
    /\ IF process.at \in {"up", "stopping", "booting"} THEN Trouble ELSE UNCHANGED trouble
    /\ wf' = [WfStart EXCEPT !.at = "ended", !.ending = "lost"]

Restarts == Boots /\ UNCHANGED <<wf, trouble>>

Runs ==
    /\ UNCHANGED <<wf, trouble>>
    /\ \/ SpawnProgress
       \/ \E c \in Child : TaskSteps(c) \/ CollectorCloses(c) \/ BootCancels(c) \/ BootCloses(c) \/ ShutdownCloses(c)
       \/ \E o \in Closer, c \in Child : CloseProgress(o, c)
       \/ ShutdownEnds \/ BootEnds

WfSteps ==
    \/ WfSpawns \/ WfRefused \/ WfSpawnRaised \/ WfWaveEnds \/ WfDecides \/ WfReviewed \/ WfClosed
    \/ \E c \in Child : WfWaits(c) \/ WfCloses(c)
    \/ WfStopped \/ WfSpawnStopped \/ WfUnwinds
    \/ \E c \in Child : WfCallStopped(c)

WorkflowNext == WfSteps \/ Runs \/ WfFails \/ WfRecheckFails \/ ShutsDown \/ Ends \/ Restarts

WorkflowSpec == WorkflowInit /\ [][WorkflowNext]_workflowVars

\* The event loop runs what is ready; a runner ends by itself or by its
\* wall-time budget (asyncio.timeout, manager.py:440), the collector loops for
\* ever and the service is started again.
WorkflowLiveSpec ==
    /\ WorkflowSpec
    /\ \A c \in Child :
          /\ WF_workflowVars(TaskSteps(c) /\ UNCHANGED <<wf, trouble>>)
          /\ WF_workflowVars(WfWaits(c)) /\ WF_workflowVars(WfCloses(c)) /\ WF_workflowVars(WfCallStopped(c))
          /\ WF_workflowVars(ShutdownCloses(c) /\ UNCHANGED <<wf, trouble>>)
          /\ WF_workflowVars(lifecycle[c] \in Terminal /\ CollectorCloses(c) /\ UNCHANGED <<wf, trouble>>)
          /\ \A o \in Closer : WF_workflowVars(CloseProgress(o, c) /\ UNCHANGED <<wf, trouble>>)
    /\ WF_workflowVars(WfSpawns) /\ WF_workflowVars(WfRefused) /\ WF_workflowVars(WfSpawnRaised) /\ WF_workflowVars(WfWaveEnds)
    /\ WF_workflowVars(WfDecides) /\ WF_workflowVars(WfReviewed) /\ WF_workflowVars(WfClosed) /\ WF_workflowVars(WfUnwinds)
    /\ WF_workflowVars(SpawnProgress /\ UNCHANGED <<wf, trouble>>)
    /\ WF_workflowVars((ShutdownEnds \/ BootEnds \/ \E c \in Child : BootCancels(c) \/ BootCloses(c))
               /\ UNCHANGED <<wf, trouble>>)
    /\ WF_workflowVars(Dies /\ process.at \in {"stopped", "failed", "asserted"} /\ Ends)
    /\ WF_workflowVars(Restarts)

-----------------------------------------------------------------------------
\* A workflow that ends with its result or with the error of a spawn has closed
\* every child it made (orchestration.py:298-365, 617-625); only a close that
\* raised, or a spawn that could not be compensated, leaves one behind.
WorkflowCleansUp ==
    wf.ending = "returned" =>
        \A c \in Child : Open(c) => c \in abandoned \/ lost > 0

\* shutdown asserts that it leaves neither a task nor a slot (manager.py:1044).
ShutdownAssertion == process.at # "asserted"

\* A workflow that has begun comes to its end (wait_agent, close_agent and the
\* reconciliation of a spawn all return), and no answered child keeps its row
\* open, and so its slot, for ever: its workflow, the collector, shutdown or the
\* next start closes it.
WorkflowEnds ==
    /\ wf # WfStart \/ spawn # NoSpawn ~> wf.at = "ended"
    /\ \A c \in Child : lifecycle[c] \in Terminal ~> lifecycle[c] = "CLOSED"
=============================================================================

----------------------------- MODULE SessionTurn -----------------------------
(***************************************************************************)
(* One round of a chat: post_session_message and _run_turn                 *)
(* (backend/app/api/v1/agent_sessions.py) around the turn task that runs   *)
(* run_chat_turn (agent/chat_turn.py), the lease on the session row that   *)
(* keeps rounds of a session apart (crud/agent_session.py), the registry   *)
(* behind the stop button (agent/turn_registry.py), the admission counters *)
(* (agent/turn_admission.py), and archiving, which must find the session   *)
(* at rest.                                                                *)
(*                                                                         *)
(* A turn is one request; its token is its identity.  Its steps are split  *)
(* at the awaits.  The lease expires by the clock alone, whatever its      *)
(* holder is doing, so a slow turn may be succeeded while it runs.         *)
(***************************************************************************)
EXTENDS Integers, FiniteSets, Sequences

CONSTANTS
    Sessions, Users, Turns,
    SessionOf,      \* SessionOf[t]: the session turn t is posted to
    OwnerOf,        \* OwnerOf[s]: the only user who may post to s
    Free,           \* no token
    Actors,         \* bound: the turns whose loop proposes and spawns
    MaxTotal,       \* AGENT_MAX_CONCURRENT_TURNS
    MaxPerUser,     \* AGENT_MAX_CONCURRENT_TURNS_PER_USER
    MaxElsewhere,   \* bound: requests in flight to chats not among Sessions
    MaxDisturbed,   \* bound: turns hit by a server-side cancel or a lost database
    MaxCrashes      \* bound: restarts of the process

\* Turns are finitely many requests, numbered in the order their tokens are
\* made, each posted to one session of one owner.
ASSUME SessionTurnAssumption ==
    /\ IsFiniteSet(Turns) /\ Turns \subseteq Nat
    /\ Actors \subseteq Turns
    /\ SessionOf \in [Turns -> Sessions]
    /\ OwnerOf \in [Sessions -> Users]
    /\ Free \notin Turns
    /\ {MaxTotal, MaxPerUser, MaxElsewhere, MaxDisturbed, MaxCrashes} \subseteq Nat

VARIABLES
    status,      \* AgentSession.status
    lease,       \* AgentSession.active_turn_token
    stale,       \* active_turn_started_at lies before the takeover threshold
    transcript,  \* committed messages of a session, <<kind, turn>>
    proposal,    \* the proposal a turn's gate raised
    child,       \* a sub-agent of the session is active
    registered,  \* TurnRegistry._running
    stopper,     \* turns with cancel_requested_by set in their registry entry
    total,       \* TurnAdmission._total
    perUser,     \* TurnAdmission._per_user
    elsewhere,   \* a user's requests in flight to chats not among Sessions
    pc,          \* where the request and its turn task stand
    cancelling,  \* turns whose task is about to be thrown a CancelledError
    answer,      \* how the task ended, then what the request answers
    overran,     \* history: turns whose lease grew stale
    disturbed,   \* history: turns cancelled by the server or not released
    crashes      \* restarts so far

rowVars == <<status, lease, stale, transcript, proposal, child>>
countVars == <<total, perUser, elsewhere>>
memoryVars == <<registered, stopper, countVars>>
turnVars == <<pc, cancelling, answer>>
historyVars == <<overran, disturbed, crashes>>
turnSpecVars == <<rowVars, memoryVars, turnVars, historyVars>>

(* idle; admitted (a place is taken); claimed (the lease is committed);    *)
(* asked (the user message is committed).  The task exists: running (the   *)
(* agent loop), returning (the round is committed, the session that wrote  *)
(* it is being closed), unwinding (its cleanup after a CancelledError).  done (the    *)
(* task is), closing (an except branch awaits), finalizing, over.          *)
TaskLive == {"running", "returning", "unwinding"}
Finishing == {"done", "closing", "finalizing"}
InFlight == {"admitted", "claimed", "asked"} \cup TaskLive \cup Finishing

Answers == {"none", "ok", "cancelled", "superseded", "failed",  \* the task
            "stopped", "raised",    \* 200 after a stop; CancelledError goes on
            "busy", "conflict",     \* 429 or 503; 409
            "lost"}                 \* the process died

\* unsettled: APPROVED, EXECUTING or UNKNOWN.
ProposalStates == {"none", "PENDING", "unsettled", "settled"}

SessionTurnTypeOK ==
    /\ status \in [Sessions -> {"active", "archived"}]
    /\ lease \in [Sessions -> Turns \cup {Free}]
    /\ stale \in [Sessions -> BOOLEAN]
    /\ transcript \in [Sessions -> Seq({"question", "reply"} \X Turns)]
    /\ proposal \in [Turns -> ProposalStates]
    /\ child \in [Sessions -> BOOLEAN]
    /\ registered \in [Sessions -> Turns \cup {Free}]
    /\ stopper \subseteq Turns
    /\ total \in Nat
    /\ perUser \in [Users -> Nat]
    /\ elsewhere \in [Users -> 0 .. MaxElsewhere]
    /\ pc \in [Turns -> {"idle", "over"} \cup InFlight]
    /\ cancelling \subseteq Turns
    /\ answer \in [Turns -> Answers]
    /\ overran \subseteq Turns
    /\ disturbed \subseteq Turns
    /\ crashes \in 0 .. MaxCrashes

SessionTurnInit ==
    /\ status = [s \in Sessions |-> "active"]
    /\ lease = [s \in Sessions |-> Free]
    /\ stale = [s \in Sessions |-> FALSE]
    /\ transcript = [s \in Sessions |-> <<>>]
    /\ proposal = [t \in Turns |-> "none"]
    /\ child = [s \in Sessions |-> FALSE]
    /\ registered = [s \in Sessions |-> Free]
    /\ stopper = {}
    /\ total = 0
    /\ perUser = [u \in Users |-> 0]
    /\ elsewhere = [u \in Users |-> 0]
    /\ pc = [t \in Turns |-> "idle"]
    /\ cancelling = {}
    /\ answer = [t \in Turns |-> "none"]
    /\ overran = {}
    /\ disturbed = {}
    /\ crashes = 0

Goto(t, here, there) == pc[t] = here /\ pc' = [pc EXCEPT ![t] = there]
Answer(t, a) == answer' = [answer EXCEPT ![t] = a]
UserOf(t) == OwnerOf[SessionOf[t]]

-----------------------------------------------------------------------------
(* Operations on the session row, the registry and the counters.           *)

\* A wrong Claimable: an archived session may still be claimed.
ClaimableArchived(s) == lease[s] = Free \/ stale[s]

\* A wrong Claimable: no takeover of a stale lease.
ClaimableWhenFree(s) == status[s] = "active" /\ lease[s] = Free

\* A wrong Claimable: any lease can be taken over.
ClaimableAlways(s) == status[s] = "active"

\* The WHERE clause of claim_turn: a stale lease may be taken over.
Claimable(s) ==
    /\ status[s] = "active"
    /\ lease[s] = Free \/ stale[s]

ClaimTurn(t) ==
    /\ lease' = [lease EXCEPT ![SessionOf[t]] = t]
    /\ stale' = [stale EXCEPT ![SessionOf[t]] = FALSE]

\* A wrong HoldsTurn: the round is written whether or not it was succeeded.
HoldsTurnUnchecked(t) == lease[SessionOf[t]] = t \/ pc[t] = "running"

\* The lease as read under the row lock, before the round is written.
HoldsTurn(t) == lease[SessionOf[t]] = t

\* A wrong ReleaseTurn: whoever ends clears the lease.
ReleaseTurnUnchecked(t) ==
    /\ lease' = [lease EXCEPT ![SessionOf[t]] = Free]
    /\ stale' = [stale EXCEPT ![SessionOf[t]] = FALSE]

\* A wrong ReleaseTurn: the token is emptied (0 for ""), not nulled.
ReleaseTurnEmpties(t) ==
    /\ lease' = [lease EXCEPT ![SessionOf[t]] = IF @ = t THEN 0 ELSE @]
    /\ stale' = [stale EXCEPT ![SessionOf[t]] = IF HoldsTurn(t) THEN FALSE ELSE @]

ReleaseTurn(t) ==
    /\ lease' = [lease EXCEPT ![SessionOf[t]] = IF @ = t THEN Free ELSE @]
    /\ stale' = [stale EXCEPT ![SessionOf[t]] = IF HoldsTurn(t) THEN FALSE ELSE @]

\* A leftover entry is overwritten; the new entry has no stop request yet.
Register(t) ==
    /\ registered' = [registered EXCEPT ![SessionOf[t]] = t]
    /\ stopper' = stopper \ {t}

Unregister(t) ==
    registered' = [registered EXCEPT ![SessionOf[t]] = IF @ = t THEN Free ELSE @]

\* A wrong WasCancelledByUser: asked after the entry was removed.
WasCancelledByUserTooLate(t) == registered[SessionOf[t]] = Free /\ t \in stopper

WasCancelledByUser(t) == registered[SessionOf[t]] = t /\ t \in stopper

MayAcquire(u) == perUser[u] < MaxPerUser /\ total < MaxTotal

AcquirePlace(u) ==
    /\ total' = total + 1
    /\ perUser' = [perUser EXCEPT ![u] = @ + 1]

ReleasePlace(u) ==
    /\ total' = IF total > 0 THEN total - 1 ELSE 0
    /\ perUser' = [perUser EXCEPT ![u] = IF @ > 1 THEN @ - 1 ELSE 0]

Write(t, kind) ==
    transcript' = [transcript EXCEPT ![SessionOf[t]] = Append(@, <<kind, t>>)]

-----------------------------------------------------------------------------
(* The request up to the start of its task.                                *)

\* The owner posts to an active session.
Post(t) ==
    /\ status[SessionOf[t]] = "active"
    /\ \A x \in Turns : x < t /\ SessionOf[x] = SessionOf[t] => pc[x] # "idle"
    /\ MayAcquire(UserOf(t))
    /\ Goto(t, "idle", "admitted")
    /\ AcquirePlace(UserOf(t))
    /\ UNCHANGED <<rowVars, registered, stopper, elsewhere, cancelling, answer,
                   historyVars>>

\* 429 or 503: a full house answers at once.
TurnAway(t) ==
    /\ status[SessionOf[t]] = "active"
    /\ ~MayAcquire(UserOf(t))
    /\ Goto(t, "idle", "over")
    /\ Answer(t, "busy")
    /\ UNCHANGED <<rowVars, memoryVars, cancelling, historyVars>>

\* claim_turn and its commit.
TakeLease(t) ==
    /\ Claimable(SessionOf[t])
    /\ Goto(t, "admitted", "claimed")
    /\ ClaimTurn(t)
    /\ UNCHANGED <<status, transcript, proposal, child, memoryVars, cancelling,
                   answer, historyVars>>

\* A wrong RefuseLease: 409 is answered without giving the place back.
RefuseLeaseKeepsPlace(t) ==
    /\ ~Claimable(SessionOf[t])
    /\ Goto(t, "admitted", "over")
    /\ Answer(t, "conflict")
    /\ UNCHANGED <<rowVars, memoryVars, cancelling, historyVars>>

\* 409: another turn holds the session (or it was archived meanwhile).
RefuseLease(t) ==
    /\ ~Claimable(SessionOf[t])
    /\ Goto(t, "admitted", "over")
    /\ Answer(t, "conflict")
    /\ ReleasePlace(UserOf(t))
    /\ UNCHANGED <<rowVars, registered, stopper, elsewhere, cancelling, historyVars>>

\* append_user_message and its commit; nothing checks the lease here.
Ask(t) ==
    /\ Goto(t, "claimed", "asked")
    /\ Write(t, "question")
    /\ UNCHANGED <<status, lease, stale, proposal, child, memoryVars, cancelling,
                   answer, historyVars>>

\* The message cannot be written: the request goes to its except branch.
AskFails(t) ==
    /\ Goto(t, "claimed", "closing")
    /\ Answer(t, "failed")
    /\ UNCHANGED <<rowVars, memoryVars, cancelling, historyVars>>

\* create_task and register, with no await between them.
StartTask(t) ==
    /\ Goto(t, "asked", "running")
    /\ Register(t)
    /\ UNCHANGED <<rowVars, countVars, cancelling, answer, historyVars>>

-----------------------------------------------------------------------------
(* The turn task.                                                          *)

\* The gate commits a proposal: for review, or approved by the tier and
\* executed by the gate itself.  It looks neither at the lease nor at status.
Propose(t) ==
    /\ t \in Actors /\ pc[t] = "running"
    /\ proposal[t] = "none"
    /\ \E p \in {"PENDING", "unsettled"} : proposal' = [proposal EXCEPT ![t] = p]
    /\ UNCHANGED <<status, lease, stale, transcript, child, memoryVars, turnVars,
                   historyVars>>

\* spawn_agent: the child outlives the turn.
SpawnChild(t) ==
    /\ t \in Actors /\ pc[t] = "running"
    /\ child' = [child EXCEPT ![SessionOf[t]] = TRUE]
    /\ UNCHANGED <<status, lease, stale, transcript, proposal, memoryVars, turnVars,
                   historyVars>>

\* persist_turn: lease check and messages in one transaction.  A cancellation
\* that arrives during the commit does not undo it.
PersistTurn(t) ==
    /\ HoldsTurn(t)
    /\ Goto(t, "running", "returning")
    /\ Write(t, "reply")
    /\ UNCHANGED <<status, lease, stale, proposal, child, memoryVars, cancelling,
                   answer, historyVars>>

\* The task ends: superseded at the lease check, failed anywhere in the loop,
\* with nothing to persist (and nothing checked), or after its commit.  A
\* cancellation on its way comes first.
EndTask(t) ==
    /\ t \notin cancelling
    /\ \/ ~HoldsTurn(t) /\ Goto(t, "running", "done") /\ Answer(t, "superseded")
       \/ Goto(t, "running", "done") /\ Answer(t, "failed")
       \/ Goto(t, "running", "done") /\ Answer(t, "ok")
       \/ Goto(t, "returning", "done") /\ Answer(t, "ok")
    /\ UNCHANGED <<rowVars, memoryVars, cancelling, historyVars>>

\* CancelledError surfaces at the task's next await; uncommitted messages go.
Interrupt(t) ==
    /\ t \in cancelling
    /\ pc[t] \in {"running", "returning"}
    /\ pc' = [pc EXCEPT ![t] = "unwinding"]
    /\ cancelling' = cancelling \ {t}
    /\ UNCHANGED <<rowVars, memoryVars, answer, historyVars>>

\* The cleanup is through, or a second CancelledError ends it.
Unwound(t) ==
    /\ Goto(t, "unwinding", "done")
    /\ Answer(t, "cancelled")
    /\ cancelling' = cancelling \ {t}
    /\ UNCHANGED <<rowVars, memoryVars, historyVars>>

-----------------------------------------------------------------------------
(* The request after its task.                                             *)

\* `await turn_task` ends.  Outcome and a server-side cancellation go straight
\* to the finally block; the other branches await before it.
Wake(t) ==
    /\ \/ /\ answer[t] = "cancelled" /\ WasCancelledByUser(t)
          /\ Goto(t, "done", "closing")
          /\ Answer(t, "stopped")
          /\ UNCHANGED registered
       \/ /\ answer[t] = "cancelled" /\ ~WasCancelledByUser(t)
          /\ Goto(t, "done", "finalizing")
          /\ Answer(t, "raised")
          /\ Unregister(t)
       \/ /\ answer[t] = "ok"
          /\ Goto(t, "done", "finalizing")
          /\ Unregister(t)
          /\ UNCHANGED answer
       \/ /\ answer[t] \in {"superseded", "failed"}
          /\ Goto(t, "done", "closing")
          /\ UNCHANGED <<answer, registered>>
    /\ UNCHANGED <<rowVars, stopper, countVars, cancelling, historyVars>>

\* A wrong Close: a request that failed returns outside the finally block.
CloseWithoutFinally(t) ==
    /\ Goto(t, "closing", "over")
    /\ Unregister(t)
    /\ ReleasePlace(UserOf(t))
    /\ UNCHANGED <<rowVars, stopper, elsewhere, cancelling, answer, historyVars>>

Close(t) ==
    /\ Goto(t, "closing", "finalizing")
    /\ Unregister(t)
    /\ UNCHANGED <<rowVars, stopper, countVars, cancelling, answer, historyVars>>

\* _finalize_turn, with its second attempt, then the admission's finally.
Finalize(t) ==
    /\ Goto(t, "finalizing", "over")
    /\ ReleaseTurn(t)
    /\ ReleasePlace(UserOf(t))
    /\ UNCHANGED <<status, transcript, proposal, child, registered, stopper,
                   elsewhere, cancelling, answer, historyVars>>

-----------------------------------------------------------------------------
(* What goes wrong around a turn.                                          *)

Disturb(t) ==
    /\ Cardinality(disturbed \cup {t}) <= MaxDisturbed
    /\ disturbed' = disturbed \cup {t}

\* Both attempts of _finalize_turn fail, or it is cancelled before it commits.
FinalizeFails(t) ==
    /\ Disturb(t)
    /\ Goto(t, "finalizing", "over")
    /\ ReleasePlace(UserOf(t))
    /\ UNCHANGED <<rowVars, registered, stopper, elsewhere, cancelling, answer,
                   overran, crashes>>

\* The server cancels the request.  Up to the commit of the claim nothing is
\* caught, and a lease already committed stays; afterwards the finally runs.
\* While the task lives the cancellation is passed on into it.
ServerCancel(t) ==
    /\ Disturb(t)
    /\ \/ /\ pc[t] \in {"admitted", "claimed"}
          /\ pc' = [pc EXCEPT ![t] = "over"]
          /\ Answer(t, "raised")
          /\ ReleasePlace(UserOf(t))
          /\ UNCHANGED <<registered, cancelling>>
       \/ /\ pc[t] \in {"claimed", "asked", "closing"}
          /\ pc' = [pc EXCEPT ![t] = "finalizing"]
          /\ Answer(t, "raised")
          /\ Unregister(t)
          /\ UNCHANGED <<total, perUser, cancelling>>
       \/ /\ pc[t] \in TaskLive
          /\ cancelling' = cancelling \cup {t}
          /\ UNCHANGED <<pc, answer, total, perUser, registered>>
       \/ /\ pc[t] = "done"
          /\ Answer(t, "cancelled")
          /\ UNCHANGED <<pc, cancelling, total, perUser, registered>>
    /\ UNCHANGED <<rowVars, stopper, elsewhere, overran, crashes>>

\* The process dies and starts again: requests, children and counters are
\* gone, recover_active_turns clears every lease, what was committed stays.
Restart ==
    /\ crashes < MaxCrashes
    /\ crashes' = crashes + 1
    /\ lease' = [s \in Sessions |-> Free]
    /\ stale' = [s \in Sessions |-> FALSE]
    /\ child' = [s \in Sessions |-> FALSE]
    /\ registered' = [s \in Sessions |-> Free]
    /\ stopper' = {}
    /\ total' = 0
    /\ perUser' = [u \in Users |-> 0]
    /\ elsewhere' = [u \in Users |-> 0]
    /\ pc' = [t \in Turns |-> IF pc[t] \in InFlight THEN "over" ELSE pc[t]]
    /\ answer' = [t \in Turns |-> IF pc[t] \in InFlight THEN "lost" ELSE answer[t]]
    /\ cancelling' = {}
    /\ UNCHANGED <<status, transcript, proposal, overran, disturbed>>

\* AGENT_TURN_LEASE_TIMEOUT_SECONDS have passed since the claim.
LeaseAges(s) ==
    /\ lease[s] # Free
    /\ ~stale[s]
    /\ stale' = [stale EXCEPT ![s] = TRUE]
    /\ overran' = overran \cup {lease[s]}
    /\ UNCHANGED <<status, lease, transcript, proposal, child, memoryVars, turnVars,
                   disturbed, crashes>>

-----------------------------------------------------------------------------
(* Other requests on the session.                                          *)

\* A wrong RequestCancel: the stop is noted but the task is not cancelled.
RequestCancelNoted(t) ==
    /\ registered[SessionOf[t]] = t
    /\ pc[t] \in TaskLive
    /\ t \notin stopper
    /\ stopper' = stopper \cup {t}
    /\ UNCHANGED <<rowVars, registered, countVars, turnVars, historyVars>>

\* The stop button: one cancellation per registered task, however often pressed.
RequestCancel(t) ==
    /\ status[SessionOf[t]] = "active"
    /\ registered[SessionOf[t]] = t
    /\ pc[t] \in TaskLive
    /\ t \notin stopper
    /\ stopper' = stopper \cup {t}
    /\ cancelling' = cancelling \cup {t}
    /\ UNCHANGED <<rowVars, registered, countVars, pc, answer, historyVars>>

\* Requests to chats not among Sessions share the admission counters.
ElsewhereArrives(u) ==
    /\ elsewhere[u] < MaxElsewhere
    /\ MayAcquire(u)
    /\ elsewhere' = [elsewhere EXCEPT ![u] = @ + 1]
    /\ AcquirePlace(u)
    /\ UNCHANGED <<rowVars, registered, stopper, turnVars, historyVars>>

ElsewhereLeaves(u) ==
    /\ elsewhere[u] > 0
    /\ elsewhere' = [elsewhere EXCEPT ![u] = @ - 1]
    /\ ReleasePlace(u)
    /\ UNCHANGED <<rowVars, registered, stopper, turnVars, historyVars>>

\* decide and the executions that follow it, as far as archiving can tell.
Review(t) ==
    /\ \/ proposal[t] = "PENDING" /\ proposal' = [proposal EXCEPT ![t] = "unsettled"]
       \/ /\ proposal[t] \in {"PENDING", "unsettled"}
          /\ proposal' = [proposal EXCEPT ![t] = "settled"]
    /\ UNCHANGED <<status, lease, stale, transcript, child, memoryVars, turnVars,
                   historyVars>>

ChildEnds(s) ==
    /\ child[s]
    /\ child' = [child EXCEPT ![s] = FALSE]
    /\ UNCHANGED <<status, lease, stale, transcript, proposal, memoryVars, turnVars,
                   historyVars>>

\* archive: refused while a lease is fresh, a child is active or a proposal is
\* unsettled; proposals still pending are withdrawn.
Archive(s) ==
    LET raised == {t \in Turns : SessionOf[t] = s}
    IN  /\ status[s] = "active"
        /\ lease[s] = Free \/ stale[s]
        /\ ~child[s]
        /\ \A t \in raised : proposal[t] # "unsettled"
        /\ proposal' = [t \in Turns |-> IF t \in raised /\ proposal[t] = "PENDING"
                                        THEN "settled" ELSE proposal[t]]
        /\ status' = [status EXCEPT ![s] = "archived"]
        /\ UNCHANGED <<lease, stale, transcript, child, memoryVars, turnVars,
                       historyVars>>

-----------------------------------------------------------------------------
\* The steps the event loop and the database bring about by themselves.
Progress(t) ==
    \/ TakeLease(t) \/ RefuseLease(t) \/ Ask(t) \/ StartTask(t)
    \/ Interrupt(t) \/ Unwound(t) \/ Wake(t) \/ Close(t)
    \/ Finalize(t)

\* What the agent loop does, for as long as the model and the devices take.
Loop(t) ==
    \/ Propose(t) \/ SpawnChild(t)
    \/ PersistTurn(t) \/ EndTask(t)

Environment(t) ==
    \/ Post(t) \/ TurnAway(t) \/ AskFails(t) \/ FinalizeFails(t) \/ ServerCancel(t)
    \/ RequestCancel(t) \/ Review(t)

SessionTurnNext ==
    \/ \E t \in Turns : Progress(t) \/ Loop(t) \/ Environment(t)
    \/ \E s \in Sessions : LeaseAges(s) \/ ChildEnds(s) \/ Archive(s)
    \/ \E u \in Users : ElsewhereArrives(u) \/ ElsewhereLeaves(u)
    \/ Restart

SessionTurnSpec == SessionTurnInit /\ [][SessionTurnNext]_turnSpecVars

\* The event loop runs what is ready and time passes; nothing is assumed of
\* the agent loop, the users or the faults.
FairSessionTurnSpec ==
    /\ SessionTurnSpec
    /\ \A t \in Turns : WF_turnSpecVars(Progress(t))
    /\ \A s \in Sessions : WF_turnSpecVars(LeaseAges(s))

-----------------------------------------------------------------------------
(* Properties.                                                             *)

PostedTo(s) == {t \in Turns : SessionOf[t] = s}

\* A turn of session s has outlived its lease at some time.
Overran(s) == overran \cap PostedTo(s) # {}

\* The requests in flight: of the turns, of one user's turns, and to other chats.
Flying == {t \in Turns : pc[t] \in InFlight}
FlyingFor(u) == {t \in Flying : UserOf(t) = u}
Elsewhere == {p \in Users \X (1 .. MaxElsewhere) : p[2] <= elsewhere[p[1]]}

\* The admission counters are exactly the requests in flight, globally and per
\* user, whichever of its many exits a request takes (the finally of
\* post_session_message), and stay within the limits.
AdmissionExact ==
    /\ total = Cardinality(Flying) + Cardinality(Elsewhere) /\ total <= MaxTotal
    /\ \A u \in Users : /\ perUser[u] = Cardinality(FlyingFor(u)) + elsewhere[u]
                        /\ perUser[u] <= MaxPerUser

\* A committed reply comes after its own question with no other reply in
\* between, however late a superseded turn wakes up: persist_turn checks the
\* lease in the transaction that writes.
RepliesInTurn ==
    \A s \in Sessions : \A i \in DOMAIN transcript[s] :
        LET t == transcript[s][i][2]
        IN  transcript[s][i][1] = "reply" =>
                \E j \in 1 .. i - 1 :
                    /\ transcript[s][j] = <<"question", t>>
                    /\ \A k \in j .. i - 1 : transcript[s][k][1] = "question"

\* An archived session keeps no open proposal and no active child, unless one of
\* its turns outlived its lease: archive takes a stale lease for a dead turn.
ArchivedIsQuiet ==
    \A s \in Sessions : status[s] = "archived" /\ ~Overran(s) =>
        /\ ~child[s]
        /\ \A t \in PostedTo(s) : proposal[t] \in {"none", "settled"}

\* A request that is over leaves its lease behind only if the server cancelled
\* it or the database failed it in _finalize_turn.
NoOrphanLease ==
    \A t \in Turns : HoldsTurn(t) /\ pc[t] = "over" => t \in disturbed

\* While a task holds its lease the stop button reaches it, unless a turn of
\* the session overran and overwrote its entry in the registry.
StoppableWhileHolding ==
    \A t \in Turns :
        HoldsTurn(t) /\ pc[t] \in TaskLive /\ ~Overran(SessionOf[t])
            => registered[SessionOf[t]] = t

\* A turn its user stopped is answered: its CancelledError is not passed on to
\* the server (was_cancelled_by_user still finds the entry), unless the server
\* cancelled as well or the entry was overwritten.
StopIsAnswered ==
    \A t \in stopper :
        answer[t] = "raised" => t \in disturbed \/ Overran(SessionOf[t])

\* A fresh lease changes only because its holder ends or the process restarts.
FreshLeaseIsKept ==
    [][\A s \in Sessions :
           lease[s] # Free /\ ~stale[s] /\ lease'[s] # lease[s]
               => \/ pc[lease[s]] = "finalizing" /\ pc'[lease[s]] = "over"
                  \/ crashes' > crashes]_turnSpecVars

\* Whatever happened to the holder, an active session comes to accept a message
\* again, and again (the takeover that claim_turn documents).
NeverLockedOut ==
    \A s \in Sessions : []<>(status[s] = "archived" \/ Claimable(s))

\* After a stop the lease comes free, however long the loop would have gone on:
\* the next question need not wait for the timeout (_finalize_turn).
StopFreesTheSession ==
    \A t \in Turns : t \in stopper ~> ~HoldsTurn(t) \/ t \in disturbed
==============================================================================

------------------------------- MODULE HitlQueue -------------------------------
(***************************************************************************)
(* The in-process execution queue (backend/app/agent/hitl_executor.py),    *)
(* the execution requests it persists (backend/app/crud/                   *)
(* hitl_execution_request.py) and the two HTTP handlers that feed it       *)
(* (backend/app/api/v1/hitl.py), composed with HitlExecution: the task of  *)
(* a ticket is a run of execute_approved_proposal.  Runs that are not      *)
(* tickets are those of the chat gate, which passes the queue by.          *)
(*                                                                         *)
(* Memory (the table of tickets and their tasks) and the database (rows)   *)
(* are written in separate steps, and a crash loses only the former.       *)
(***************************************************************************)
EXTENDS HitlExecution, FiniteSets

CONSTANTS
    Tickets,    \* ExecutionTicket objects, each used once
    Requests,   \* request ids, each given to one ticket by reserve
    Handlers,   \* HTTP requests to decide or to retry, each used once
    Dynamic,    \* proposals whose asset has a dynamic credential
    MaxRunning, \* slots of the running semaphore
    Capacity,   \* max_running + max_queued
    Mishaps     \* what may go wrong in the queue: a subset of MishapKinds

\* commit: a handler's transaction fails; status: a short transaction of the
\* queue fails; delivery: delivering the result of a run raises.
MishapKinds == {"commit", "status", "delivery"}

\* Tickets are runs, the slots fit the table, and the ids are apart.
ASSUME QueueAssumption ==
    /\ Tickets \subseteq Runs
    /\ None \notin Runs \cup Requests
    /\ Dynamic \subseteq Proposals
    /\ MaxRunning \in Nat \ {0} /\ Capacity \in Nat /\ MaxRunning <= Capacity
    /\ Mishaps \subseteq MishapKinds

VARIABLES
    table,      \* _tickets: proposal -> ticket, None where there is none
    ticket,     \* ticket[t]: its proposal, its request id, and its task's phase
    row,        \* row[q]: the execution request, as proposal and status
    handler,    \* handler[h]: where a handler stands and what it holds
    view,       \* view[t]: the rows t's pump has read
    boot        \* "serving", or the startup step that is due, or "stopping"

queueVars == <<table, ticket, row, handler, view, boot>>
allVars == <<executionVars, queueVars>>

(* held: no task yet; waiting: for a running slot; marking: writing        *)
(* "running"; executing; closing: writing "finished" inside the semaphore; *)
(* refusing, failing, cancelling: the except branches, outside of it;      *)
(* leaving, quitting: the finally block, with and without a pump; pumping, *)
(* starting: the pump before and after its read.                           *)
Phases == {"free", "held", "waiting", "marking", "executing", "closing", "refusing",
           "failing", "cancelling", "leaving", "quitting", "pumping", "starting", "done"}
HasTask == Phases \ {"free", "held", "done"}
InSlot == {"marking", "executing", "closing"}
OpenStatuses == {"queued", "running", "awaiting_credential"}
RowStatuses == {"none", "finished", "abandoned"} \cup OpenStatuses
HandlerSteps == {"idle", "deciding", "checked", "read", "retrying", "done"}

QueueTypeOK ==
    /\ table \in [Proposals -> Tickets \cup {None}]
    /\ ticket \in [Tickets -> [of : Proposals \cup {None}, id : Requests \cup {None},
                               phase : Phases]]
    /\ row \in [Requests -> [of : Proposals \cup {None}, st : RowStatuses]]
    /\ handler \in [Handlers -> [at : HandlerSteps, of : Proposals \cup {None},
                                 req : Requests \cup {None}, held : Tickets \cup {None},
                                 resumes : BOOLEAN]]
    /\ view \in [Tickets -> SUBSET Requests]
    /\ boot \in {"serving", "recover", "pump", "start", "stopping"}

QueueInit ==
    /\ ExecutionInit
    /\ table = [p \in Proposals |-> None]
    /\ ticket = [t \in Tickets |-> [of |-> None, id |-> None, phase |-> "free"]]
    /\ row = [q \in Requests |-> [of |-> None, st |-> "none"]]
    /\ handler = [h \in Handlers |-> [at |-> "idle", of |-> None, req |-> None,
                                      held |-> None, resumes |-> FALSE]]
    /\ view = [t \in Tickets |-> {}]
    /\ boot = "serving"

-----------------------------------------------------------------------------
(* The table. *)

Used == {p \in Proposals : table[p] # None}
Room == Capacity - Cardinality(Used)
Ticketed(p) == table[p] # None
Phase(t) == ticket[t].phase
Enter(t, ph) == ticket' = [ticket EXCEPT ![t].phase = ph]
FreshId(q) == row[q].st = "none" /\ \A t \in Tickets : ticket[t].id # q

\* A new ticket for p that carries the request id q.
NewTicket(p, t, q) ==
    /\ Phase(t) = "free" /\ pc[t] = "idle"
    /\ table' = [table EXCEPT ![p] = t]
    /\ ticket' = [ticket EXCEPT ![t] = [of |-> p, id |-> q, phase |-> "held"]]

\* Gives the entry back only if it is still this ticket's.
Release(t) ==
    table' = IF table[ticket[t].of] = t THEN [table EXCEPT ![ticket[t].of] = None] ELSE table

\* start does nothing to a ticket that has a task.
StartTask(t) == IF Phase(t) = "held" THEN Enter(t, "waiting") ELSE UNCHANGED ticket

-----------------------------------------------------------------------------
(* The rows. *)

Open(p) == {q \in Requests : row[q].of = p /\ row[q].st \in OpenStatuses}
OpenRow(p) == IF Open(p) = {} THEN None ELSE CHOOSE q \in Open(p) : TRUE
\* A retry that has flushed resume_awaiting_request holds the row's lock.
Locked(q) ==
    \E h \in Handlers :
        handler[h].at = "retrying" /\ handler[h].resumes /\ handler[h].req = q

(* _set_request_status: by id, whatever the row says.  The unique index    *)
(* refuses to reopen a row beside another open one of its proposal, and    *)
(* every failure is swallowed.                                             *)
SetRequestStatus(q, st) ==
    /\ ~Locked(q)
    /\ \/ /\ row[q].st # "none"
          /\ st \in OpenStatuses => Open(row[q].of) \subseteq {q}
          /\ row' = [row EXCEPT ![q].st = st]
       \/ /\ \/ "status" \in Mishaps \/ row[q].st = "none"
             \/ st \in OpenStatuses /\ ~(Open(row[q].of) \subseteq {q})
          /\ UNCHANGED row

-----------------------------------------------------------------------------
(* decide: the slot is reserved before the approval is submitted. *)
Serving == up /\ boot = "serving"
Moves(h, to) == handler' = [handler EXCEPT ![h].at = to]

DecideReserve(h, p, t, q) ==
    /\ Serving /\ handler[h].at = "idle"
    /\ status[p] # "NONE"
    /\ ~Ticketed(p) /\ Room > 0
    /\ FreshId(q) /\ NewTicket(p, t, q)
    /\ handler' = [handler EXCEPT ![h] = [@ EXCEPT !.at = "deciding", !.of = p, !.held = t]]
    /\ UNCHANGED <<executionVars, row, view, boot>>

\* A wrong commit: the approval does not look at what became of the proposal.
DecideCommitUnchecked(h) ==
    LET p == handler[h].of  t == handler[h].held IN
    /\ up /\ handler[h].at = "deciding"
    /\ Open(p) = {}
    /\ Move(p, status[p], "APPROVED", reason[p])
    /\ grants' = [grants EXCEPT ![p] = @ + 1]
    /\ row' = [row EXCEPT ![ticket[t].id] = [of |-> p, st |-> "queued"]]
    /\ StartTask(t)
    /\ Moves(h, "done")
    /\ UNCHANGED <<up, runVars, envVars, table, view, boot>>

(* The approval and its request are one transaction, and no await lies     *)
(* between its commit and the start of the task.                           *)
DecideCommit(h) ==
    LET p == handler[h].of  t == handler[h].held IN
    /\ up /\ handler[h].at = "deciding"
    /\ Approve(p) /\ Open(p) = {}
    /\ row' = [row EXCEPT ![ticket[t].id] = [of |-> p, st |-> "queued"]]
    /\ StartTask(t)
    /\ Moves(h, "done")
    /\ UNCHANGED <<up, runVars, envVars, table, view, boot>>

\* A wrong failure path: the reserved slot is kept.
DecideFailsKeepsTicket(h) ==
    LET p == handler[h].of IN
    /\ handler[h].at = "deciding"
    /\ status[p] # "PENDING" \/ Open(p) # {} \/ "commit" \in Mishaps
    /\ Moves(h, "done")
    /\ UNCHANGED <<executionVars, table, ticket, row, view, boot>>

DecideFails(h) ==
    LET p == handler[h].of IN
    /\ handler[h].at = "deciding"
    /\ status[p] # "PENDING" \/ Open(p) # {} \/ "commit" \in Mishaps
    /\ Release(handler[h].held)
    /\ Moves(h, "done")
    /\ UNCHANGED <<executionVars, ticket, row, view, boot>>

(* retry: the status and the table, then the open request, then the        *)
(* ticket, then the commit, each read before the next await.               *)
RetryCheck(h, p) ==
    /\ Serving /\ handler[h].at = "idle"
    /\ ~Ticketed(p) /\ status[p] = "APPROVED"
    /\ handler' = [handler EXCEPT ![h] = [@ EXCEPT !.at = "checked", !.of = p]]
    /\ UNCHANGED <<executionVars, table, ticket, row, view, boot>>

RetryRead(h) ==
    LET q == OpenRow(handler[h].of) IN
    /\ handler[h].at = "checked"
    /\ handler' = [handler EXCEPT ![h] = [@ EXCEPT !.at = "read", !.req = q,
                        !.resumes = q # None /\ row[q].st = "awaiting_credential"]]
    /\ UNCHANGED <<executionVars, table, ticket, row, view, boot>>

\* adopt an open request, or reserve for a new one.
RetryHold(h) ==
    LET p == handler[h].of  q == handler[h].req IN
    /\ handler[h].at = "read"
    /\ handler[h].resumes => ~Locked(q)
    /\ \/ /\ Ticketed(p) /\ q # None
          /\ handler' = [handler EXCEPT ![h] = [@ EXCEPT !.at = "retrying", !.held = table[p]]]
          /\ UNCHANGED <<table, ticket>>
       \/ /\ ~Ticketed(p) /\ Room > 0
          /\ \E t \in Tickets, id \in Requests :
                /\ IF q = None THEN FreshId(id) ELSE id = q
                /\ NewTicket(p, t, id)
                /\ handler' = [handler EXCEPT ![h] = [@ EXCEPT !.at = "retrying", !.held = t]]
       \/ /\ IF Ticketed(p) THEN q = None ELSE Room <= 0
          /\ Moves(h, "done")
          /\ UNCHANGED <<table, ticket>>
    /\ UNCHANGED <<executionVars, row, view, boot>>

\* A wrong retry: a request that waited for its password is not queued again.
RetryCommitKeepsRow(h) ==
    LET p == handler[h].of  q == handler[h].req  t == handler[h].held IN
    /\ handler[h].at = "retrying"
    /\ \/ /\ q = None /\ Open(p) = {}
          /\ row' = [row EXCEPT ![ticket[t].id] = [of |-> p, st |-> "queued"]]
       \/ q # None /\ UNCHANGED row
    /\ StartTask(t)
    /\ Moves(h, "done")
    /\ UNCHANGED <<executionVars, table, view, boot>>

RetryCommit(h) ==
    LET p == handler[h].of  q == handler[h].req  t == handler[h].held IN
    /\ handler[h].at = "retrying"
    /\ \/ /\ q = None /\ Open(p) = {}
          /\ row' = [row EXCEPT ![ticket[t].id] = [of |-> p, st |-> "queued"]]
       \/ /\ q # None /\ handler[h].resumes /\ Open(p) \subseteq {q}
          /\ row' = [row EXCEPT ![q].st = "queued"]
       \/ q # None /\ ~handler[h].resumes /\ UNCHANGED row
    /\ StartTask(t)
    /\ Moves(h, "done")
    /\ UNCHANGED <<executionVars, table, view, boot>>

\* A retry leaves a ticket alone whose task somebody else has started.
RetryFails(h) ==
    LET p == handler[h].of  q == handler[h].req  t == handler[h].held IN
    /\ handler[h].at = "retrying"
    /\ \/ "commit" \in Mishaps
       \/ (q = None \/ handler[h].resumes) /\ ~(Open(p) \subseteq {q})
    /\ IF Phase(t) = "held" THEN Release(t) ELSE UNCHANGED table
    /\ Moves(h, "done")
    /\ UNCHANGED <<executionVars, ticket, row, view, boot>>

-----------------------------------------------------------------------------
(* The task of a ticket: _run. *)
TaskOnly == UNCHANGED <<handler, view, boot>>

\* A wrong semaphore: one slot short.
AcquireOneShort(t) ==
    /\ Phase(t) = "waiting"
    /\ Cardinality({u \in Tickets : Phase(u) \in InSlot}) < MaxRunning - 1
    /\ Enter(t, "marking")
    /\ TaskOnly /\ UNCHANGED <<executionVars, table, row>>

Acquire(t) ==
    /\ Phase(t) = "waiting"
    /\ Cardinality({u \in Tickets : Phase(u) \in InSlot}) < MaxRunning
    /\ Enter(t, "marking")
    /\ TaskOnly /\ UNCHANGED <<executionVars, table, row>>

Mark(t) ==
    /\ Phase(t) = "marking"
    /\ SetRequestStatus(ticket[t].id, "running")
    /\ Start(t, ticket[t].of)
    /\ Enter(t, "executing")
    /\ TaskOnly /\ UNCHANGED table

\* The run has ended; its result is delivered to the session.
Deliver(t) ==
    /\ Phase(t) = "executing"
    /\ \/ pc[t] = "returned" /\ Enter(t, "closing")
       \/ pc[t] = "returned" /\ "delivery" \in Mishaps /\ Enter(t, "failing")
       \/ pc[t] = "resume_error" /\ Enter(t, "refusing")
       \/ pc[t] = "error" /\ Enter(t, "failing")
       \/ pc[t] = "cancelled" /\ Enter(t, "cancelling")
    /\ TaskOnly /\ UNCHANGED <<executionVars, table, row>>

Close(t) ==
    /\ \/ /\ Phase(t) \in {"closing", "refusing"}
          /\ SetRequestStatus(ticket[t].id, "finished")
          /\ Enter(t, "leaving")
       \/ /\ Phase(t) = "failing"
          /\ SetRequestStatus(ticket[t].id, "finished")
          /\ Enter(t, "quitting")
       \/ /\ Phase(t) = "cancelling"
          /\ SetRequestStatus(ticket[t].id, "abandoned")
          /\ Enter(t, "quitting")
    /\ TaskOnly /\ UNCHANGED <<executionVars, table>>

Leave(t) ==
    /\ Phase(t) \in {"leaving", "quitting"}
    /\ Release(t)
    /\ Enter(t, IF Phase(t) = "leaving" /\ boot # "stopping" THEN "pumping" ELSE "done")
    /\ TaskOnly /\ UNCHANGED <<executionVars, row>>

-----------------------------------------------------------------------------
(* The pump: one read of the open rows, then tickets and tasks for those   *)
(* that have none.                                                         *)
Startable == {q \in Requests : row[q].st = "queued" /\ row[q].of \notin Dynamic}

PumpRead(t) ==
    /\ Phase(t) = "pumping"
    /\ \/ view' = [view EXCEPT ![t] = Startable] /\ Enter(t, "starting")
       \/ "status" \in Mishaps /\ Enter(t, "done") /\ UNCHANGED view
    /\ UNCHANGED <<executionVars, table, row, handler, boot>>

\* The rows of S get the new tickets f, tickets of V that are held get tasks.
Adopt(S, f, V, by) ==
    /\ table' = [p \in Proposals |->
          IF \E q \in S : row[q].of = p
          THEN f[CHOOSE q \in S : row[q].of = p] ELSE table[p]]
    /\ ticket' = [t \in Tickets |->
          IF \E q \in S : f[q] = t
          THEN LET q == CHOOSE x \in S : f[x] = t
               IN  [of |-> row[q].of, id |-> q, phase |-> "waiting"]
          ELSE IF Phase(t) = "held" /\ \E q \in V : table[row[q].of] = t
          THEN [ticket[t] EXCEPT !.phase = "waiting"]
          ELSE IF t = by THEN [ticket[t] EXCEPT !.phase = "done"]
          ELSE ticket[t]]

\* Starts what V names as far as there is room, for the task of ticket by,
\* which ends with it.  The order of the rows is left open.
StartRows(V, by) ==
    LET new == {q \in V : ~Ticketed(row[q].of)}
        free == {t \in Tickets : Phase(t) = "free" /\ pc[t] = "idle"}
    IN  \E S \in SUBSET new :
          /\ Cardinality(S) = IF Room < Cardinality(new) THEN Room ELSE Cardinality(new)
          /\ \E f \in [S -> free] :
                /\ \A a, b \in S : f[a] = f[b] => a = b
                /\ Adopt(S, f, V, by)

PumpStart(t) ==
    /\ Phase(t) = "starting"
    /\ StartRows(view[t], t)
    /\ view' = [view EXCEPT ![t] = {}]
    /\ UNCHANGED <<executionVars, row, handler, boot>>

-----------------------------------------------------------------------------
(* The process. *)

(* Memory is gone: the table, the tasks, and the handlers with their       *)
(* uncommitted transactions.                                               *)
ProcessDies ==
    /\ Crash
    /\ table' = [p \in Proposals |-> None]
    /\ ticket' = [t \in Tickets |-> IF Phase(t) = "free" THEN ticket[t]
                                    ELSE [ticket[t] EXCEPT !.phase = "done"]]
    /\ handler' = [h \in Handlers |-> IF handler[h].at = "idle" THEN handler[h]
                                      ELSE [handler[h] EXCEPT !.at = "done"]]
    /\ view' = [t \in Tickets |-> {}]
    /\ boot' = "recover"
    /\ UNCHANGED row

\* A wrong recovery: what was running is left so.
RecoveredLeavesRunning == [q \in Requests |->
    IF row[q].st \notin OpenStatuses THEN row[q].st
    ELSE IF status[row[q].of] # "APPROVED" THEN "abandoned"
    ELSE IF row[q].of \in Dynamic THEN "awaiting_credential" ELSE row[q].st]

\* What recovery makes of the requests' statuses.
Recovered == [q \in Requests |->
    IF row[q].st \notin OpenStatuses THEN row[q].st
    ELSE IF status[row[q].of] # "APPROVED" THEN "abandoned"
    ELSE IF row[q].of \in Dynamic THEN "awaiting_credential"
    ELSE IF row[q].st = "running" THEN "queued" ELSE row[q].st]

\* recover_persisted_execution_requests, after EXECUTING has become UNKNOWN.
RecoverRequests ==
    /\ up /\ boot = "recover"
    /\ row' = [q \in Requests |-> [of |-> row[q].of, st |-> Recovered[q]]]
    /\ boot' = "pump"
    /\ UNCHANGED <<executionVars, table, ticket, handler, view>>

StartupPump ==
    /\ up /\ boot = "pump"
    /\ StartRows(Startable, None)
    /\ boot' = "serving"
    /\ UNCHANGED <<executionVars, row, handler, view>>

\* lifespan ends after the last request; then the process exits (ProcessDies).
Shutdown ==
    /\ Serving
    /\ \A h \in Handlers : handler[h].at \in {"idle", "done"}
    /\ boot' = "stopping"
    /\ UNCHANGED <<executionVars, table, ticket, row, handler, view>>

(* shutdown cancels every task.  One that waits for a slot leaves its row  *)
(* queued, or awaiting the password that dies with it; one that runs       *)
(* abandons its row; one that is already leaving has no handler left.      *)
StopTask(t) ==
    LET q == ticket[t].id IN
    /\ boot = "stopping" /\ ~cancelled[t]
    /\ \/ /\ Phase(t) = "waiting" /\ ticket[t].of \in Dynamic
          /\ SetRequestStatus(q, "awaiting_credential")
          /\ Enter(t, "quitting") /\ UNCHANGED executionVars
       \/ /\ \/ Phase(t) = "waiting" /\ ticket[t].of \notin Dynamic
             \/ Phase(t) \in {"refusing", "failing", "leaving", "pumping", "starting"}
          /\ Enter(t, IF Phase(t) \in {"pumping", "starting"} THEN "done" ELSE "quitting")
          /\ UNCHANGED <<executionVars, row>>
       \/ /\ Phase(t) \in {"marking", "closing"}
          /\ Enter(t, "cancelling") /\ UNCHANGED <<executionVars, row>>
       \/ /\ Phase(t) = "executing"
          /\ Cancel(t) /\ UNCHANGED <<ticket, row>>
    /\ TaskOnly /\ UNCHANGED table

-----------------------------------------------------------------------------
\* The chat gate's runs, and what people do besides deciding and retrying.
GateStep ==
    /\ Serving
    /\ \/ \E r \in Runs \ Tickets, p \in Proposals : Start(r, p)
       \/ \E r \in Runs \ Tickets : Cancel(r)
       \/ \E p \in Proposals : Decide(p) /\ (status[p] = "PENDING" => status'[p] = "REJECTED")
    /\ UNCHANGED queueVars

ExecutionStep(r) ==
    /\ RunStep(r) \/ ThreadStep(r) \/ DatabaseFails(r)
    /\ UNCHANGED queueVars

Environment ==
    /\ \/ \E p \in Proposals : Revoke(p) \/ Blacklist(p)
       \/ Restart
    /\ UNCHANGED queueVars

HandlerStep(h) ==
    \/ DecideCommit(h) \/ DecideFails(h)
    \/ RetryRead(h) \/ RetryHold(h) \/ RetryCommit(h) \/ RetryFails(h)

TaskStep(t) ==
    \/ Acquire(t) \/ Mark(t) \/ Deliver(t) \/ Close(t) \/ Leave(t)
    \/ PumpRead(t) \/ PumpStart(t)

QueueNext ==
    \/ GateStep \/ Environment
    \/ \E r \in Runs : ExecutionStep(r)
    \/ \E h \in Handlers, p \in Proposals :
          \/ \E t \in Tickets, q \in Requests : DecideReserve(h, p, t, q)
          \/ RetryCheck(h, p)
    \/ \E h \in Handlers : HandlerStep(h)
    \/ \E t \in Tickets : TaskStep(t) \/ StopTask(t)
    \/ ProcessDies \/ RecoverRequests \/ StartupPump \/ Shutdown

QueueSpec == QueueInit /\ [][QueueNext]_allVars

-----------------------------------------------------------------------------
(* Safety. *)

\* Tasks that still stand for their ticket.
Engaged(t) == Phase(t) \in HasTask \ {"pumping", "starting"}

(* A ticket in the table is on its way: it has a task that has yet to give *)
(* it back, or a handler holds it that will start or release it.  Nothing  *)
(* blocks a proposal, or eats capacity, for ever.                          *)
NoStrandedTicket ==
    \A p \in Proposals : Ticketed(p) =>
        \/ Engaged(table[p])
        \/ \E h \in Handlers : /\ handler[h].at \in {"deciding", "retrying"}
                               /\ handler[h].held = table[p]

(* While the server serves, a request that awaits its dynamic password has   *)
(* no task that might be sending it (resume_awaiting_request, recovery).     *)
PasswordsAreAwaited ==
    Serving => \A q \in Requests :
        row[q].st = "awaiting_credential" => ~\E t \in Tickets : ticket[t].id = q /\ Engaged(t)

(* While requests are served, the persisted state is not ahead of memory:  *)
(* a request recorded as running has a task that is past its slot, and one *)
(* recorded as awaiting its password has no task at all.                   *)
RowsTellTheTruth ==
    /\ PasswordsAreAwaited
    /\ Serving => \A q \in Requests :
           row[q].st = "running" =>
               \E t \in Tickets : /\ ticket[t].id = q
                                  /\ Engaged(t) /\ Phase(t) \notin {"waiting", "marking"}

(* Whatever the queue, its handlers and the gate do to proposals and runs, *)
(* and even if a proposal should get two tasks at once, the execution      *)
(* behind it is the one of HitlExecution: nothing here can take away what  *)
(* is established there.                                                   *)
ImplementsExecution == ExecutionSpec

-----------------------------------------------------------------------------
(* The inductive invariant behind NoStrandedTicket. *)

\* What a handler has read or holds at each of its steps.
HandlerShape(h) ==
    /\ handler[h].at \in {"deciding", "checked", "read", "retrying"} =>
          handler[h].of \in Proposals
    /\ handler[h].at \in {"deciding", "retrying"} =>
          /\ handler[h].held \in Tickets
          /\ Phase(handler[h].held) # "free"
          /\ ticket[handler[h].held].of = handler[h].of
    /\ handler[h].req # None => row[handler[h].req].st # "none"
    /\ handler[h].at = "idle" => handler[h].of = None

\* A ticket in use is for a proposal and carries a request id.
TicketShape(t) ==
    /\ Phase(t) # "free" => ticket[t].of \in Proposals /\ ticket[t].id \in Requests
    /\ \A q \in view[t] : row[q].st # "none"

RowShape(q) == row[q].st # "none" => row[q].of \in Proposals

\* The table names tickets of the right proposal, until their task gives them back.
TableShape(p) ==
    Ticketed(p) => /\ ticket[table[p]].of = p
                   /\ Phase(table[p]) = "held" \/ Engaged(table[p])

QueueInv ==
    /\ QueueTypeOK
    /\ \A h \in Handlers : HandlerShape(h)
    /\ \A t \in Tickets : TicketShape(t)
    /\ \A q \in Requests : RowShape(q)
    /\ \A p \in Proposals : TableShape(p)
    /\ NoStrandedTicket

-----------------------------------------------------------------------------
(* The inductive invariants behind PasswordsAreAwaited and RowsTellTheTruth. *)

Awaits(q) == row[q].st = "awaiting_credential"

\* The partial unique index: one open request for a proposal.
OneOpenRow ==
    \A a, b \in Requests :
        /\ row[a].st \in OpenStatuses /\ row[b].st \in OpenStatuses
        /\ row[a].of = row[b].of
        => a = b

\* Tickets, rows and handlers that share a request id are of one proposal.
IdsAgree ==
    /\ \A t, u \in Tickets :
          Phase(t) # "free" /\ Phase(u) # "free" /\ ticket[t].id = ticket[u].id
          => ticket[t].of = ticket[u].of
    /\ \A t \in Tickets :
          Phase(t) # "free" /\ row[ticket[t].id].st # "none"
          => row[ticket[t].id].of = ticket[t].of
    /\ \A h \in Handlers :
          handler[h].at \in {"read", "retrying"} /\ handler[h].req # None
          => row[handler[h].req].of = handler[h].of

\* Handlers work only while requests are served, and startup finds no task.
BootShape ==
    /\ \A h \in Handlers : handler[h].at \notin {"idle", "done"} => boot = "serving"
    /\ boot \in {"recover", "pump"} =>
          \A t \in Tickets : Phase(t) \in {"free", "done"} /\ view[t] = {}

(* While requests are served, nobody is about to start what awaits its     *)
(* password: no task stands for it, no pump has read another request of    *)
(* its proposal, and a retry of the proposal knows that it resumes it.     *)
AwaitShape ==
    boot = "serving" => \A q \in Requests : Awaits(q) =>
        /\ \A t \in Tickets : Engaged(t) => ticket[t].id # q
        /\ \A t \in Tickets : \A x \in view[t] : row[x].of # row[q].of
        /\ \A h \in Handlers :
              handler[h].at \in {"read", "retrying"} /\ handler[h].of = row[q].of
              => handler[h].resumes /\ handler[h].req = q

AwaitInv == OneOpenRow /\ IdsAgree /\ BootShape /\ AwaitShape

\* A request recorded as running has a task that will write its end.
WritesEnd == {"executing", "closing", "refusing", "failing", "cancelling"}
RunningInv ==
    boot \in {"pump", "serving"} => \A q \in Requests :
        row[q].st = "running" =>
            \E t \in Tickets : ticket[t].id = q /\ Phase(t) \in WritesEnd

-----------------------------------------------------------------------------
(* Liveness. *)

(* The event loop resumes tasks and handlers, as it does runs; startup     *)
(* goes through its steps.  Nobody has to decide, retry or crash.          *)
QueueFairness ==
    /\ \A r \in Runs : WF_allVars(RunStep(r) /\ UNCHANGED queueVars)
                      /\ WF_allVars(ThreadStep(r) /\ UNCHANGED queueVars)
    /\ \A t \in Tickets : WF_allVars(TaskStep(t)) /\ WF_allVars(StopTask(t))
    /\ \A h \in Handlers : WF_allVars(HandlerStep(h))
    /\ WF_allVars(Restart /\ UNCHANGED queueVars)
    /\ WF_allVars(RecoverRequests) /\ WF_allVars(StartupPump)

FairQueueSpec == QueueSpec /\ QueueFairness

(* No task keeps its slot, its ticket or its proposal for ever, whoever    *)
(* holds row locks, slots and tickets when it wants them.                  *)
TasksEnd == \A t \in Tickets : Engaged(t) ~> ~Engaged(t)

-----------------------------------------------------------------------------
(* What a comment of the code says of it. *)

(* hitl_executor.py, HitlExecutionQueue: a proposal has one task only.     *)
OneTaskPerProposal ==
    \A t, u \in Tickets :
        Engaged(t) /\ Engaged(u) /\ ticket[t].of = ticket[u].of => t = u
=============================================================================

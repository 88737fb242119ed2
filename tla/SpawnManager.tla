---------------------------- MODULE SpawnManager ----------------------------
(***************************************************************************)
(* SpawnManager (backend/app/agent/spawn/manager.py): the sub-agents of    *)
(* one session, their registry rows (crud/agent_registry.py), coroutines   *)
(* and concurrency slots, through spawning, closing, garbage collection,   *)
(* shutdown, crash and startup recovery.                                   *)
(*                                                                         *)
(* The session's asyncio.Lock makes each critical section one step.  What  *)
(* is read before the lock is taken, what is done after it is given back,  *)
(* and every await in between, is a step of its own.  A statement on the   *)
(* database may fail; a commit that fails may have taken effect.           *)
(***************************************************************************)
EXTENDS Integers, FiniteSets

CONSTANTS
    Child,          \* child_id
    Root,           \* no parent
    Closer,         \* the callers of close_agent
    Shutdown,       \* the caller that is shutdown() itself
    MaxConcurrent,  \* AGENT_MAX_CONCURRENT_CHILDREN
    MaxDepth,       \* AGENT_MAX_SPAWN_DEPTH
    MaxChildren     \* AGENT_MAX_CHILDREN_PER_SESSION

ASSUME SpawnAssumption ==
    /\ Root \notin Child
    /\ Shutdown \in Closer
    /\ MaxConcurrent \in Nat \ {0} /\ MaxDepth \in Nat \ {0} /\ MaxChildren \in Nat

VARIABLES
    lifecycle,  \* AgentRegistry.status, NONE where there is no row
    path,       \* AgentRegistry.agent_path, as the set of its ids
    detached,   \* rows with force_closed
    slots,      \* value of _SessionRuntime.slots
    held,       \* _SessionRuntime.held_child_ids
    closing,    \* _SessionRuntime.closing_child_counts
    coroutine,  \* where _execute_child stands
    asked,      \* children whose task has been cancelled and has not noticed
    tracked,    \* SpawnManager._tasks
    spawn,      \* the spawn_agent call of the session's workflow
    call,       \* the close_agent calls, one at a time per caller and child
    process,    \* the lifespan of the process
    lost,       \* history: slots taken by spawns nobody could reconcile
    abandoned,  \* history: children whose spawn could not be compensated
    unnoticed   \* history: children closed by a commit nobody could look for

registryVars == <<lifecycle, path, detached>>
slotVars == <<slots, held>>
histVars == <<lost, abandoned, unnoticed>>
taskVars == <<coroutine, asked, tracked>>
spawnVars == <<registryVars, slotVars, closing, taskVars, spawn, call, process, histVars>>

Active == {"SPAWNING", "RUNNING"}
Terminal == {"COMPLETED", "FAILED", "CANCELLED"}
Status == {"NONE", "CLOSED"} \cup Active \cup Terminal
Open(c) == lifecycle[c] \in Active \cup Terminal

NoSpawn == [at |-> "idle", child |-> Root]
NoCall == [at |-> "none", ids |-> {}, todo |-> {}, forced |-> FALSE, ok |-> TRUE]

Running == [at |-> "up", roots |-> {}, rest |-> {}]
Stopped == [at |-> "stopped", roots |-> {}, rest |-> {}]

SpawnInit ==
    /\ lifecycle = [c \in Child |-> "NONE"]
    /\ path = [c \in Child |-> {}]
    /\ detached = {}
    /\ slots = MaxConcurrent
    /\ held = {}
    /\ closing = [c \in Child |-> 0]
    /\ coroutine = [c \in Child |-> "none"]
    /\ asked = {}
    /\ tracked = {}
    /\ spawn = NoSpawn
    /\ call = [o \in Closer |-> [c \in Child |-> NoCall]]
    /\ process = Running
    /\ lost = 0
    /\ abandoned = {}
    /\ unnoticed = {}

Alive == process.at \in {"up", "stopping"}

-----------------------------------------------------------------------------
(* The critical sections.                                                  *)

PathOf(p) == IF p = Root THEN {} ELSE path[p]
Descendants(c) == {d \in Child \ {c} : c \in path[d]}

\* A wrong release: the slot is given back without asking who owns it.
ReleaseUnowned(c) == held' = held \ {c} /\ slots' = slots + 1

\* A BoundedSemaphore may be released only while a slot is out.
ReleaseOwned(c) ==
    IF c \in held
    THEN /\ held' = held \ {c}
         /\ slots' = slots + 1
    ELSE UNCHANGED slotVars

\* A wrong _persist_terminal: whatever the row says.
PersistTerminalAnyway(c, outcome) == lifecycle' = [lifecycle EXCEPT ![c] = outcome]

\* _persist_terminal: what is terminal or closed stays as it is.
PersistTerminal(c, outcome) ==
    lifecycle' = IF lifecycle[c] \in Active THEN [lifecycle EXCEPT ![c] = outcome] ELSE lifecycle

\* The row side of _persist_close; agent_registry_crud.close bypasses the
\* transition table.
CloseRow(c, force) ==
    /\ lifecycle' = [lifecycle EXCEPT ![c] = "CLOSED"]
    /\ detached' = IF force /\ lifecycle[c] # "CLOSED" THEN detached \cup {c} ELSE detached

\* A close that fails took effect or did not.
CloseRowUnsure(c, force) == CloseRow(c, force) \/ UNCHANGED <<lifecycle, detached>>

\* A wrong admission: a subtree that is being closed still takes children.
AdmittedWhileClosing(p) ==
    /\ p # Root => lifecycle[p] # "CLOSED"
    /\ Cardinality(PathOf(p)) < MaxDepth
    /\ Cardinality({c \in Child : lifecycle[c] # "NONE"}) < MaxChildren
    /\ Cardinality({c \in Child : Open(c)}) < MaxConcurrent
    /\ Cardinality(held) < MaxConcurrent
    /\ slots > 0

\* The checks of spawn_agent against parent and limits.  A budget out of range
\* and the reserved cost refuse a spawn too; a refused call changes nothing.
Admitted(p) ==
    /\ p # Root => /\ \A a \in PathOf(p) : closing[a] = 0
                   /\ lifecycle[p] # "CLOSED"
    /\ Cardinality(PathOf(p)) < MaxDepth
    /\ Cardinality({c \in Child : lifecycle[c] # "NONE"}) < MaxChildren
    /\ Cardinality({c \in Child : Open(c)}) < MaxConcurrent
    /\ Cardinality(held) < MaxConcurrent
    /\ slots > 0

-----------------------------------------------------------------------------
(* spawn_agent                                                             *)

CanSpawn(c, p) ==
    /\ Alive /\ spawn.at = "idle"
    /\ lifecycle[c] = "NONE"
    /\ p \in Child => lifecycle[p] # "NONE"
    /\ Admitted(p)

\* The row as create and transition_status leave it.
InsertRow(c, p) ==
    /\ lifecycle' = [lifecycle EXCEPT ![c] = "SPAWNING"]
    /\ path' = [path EXCEPT ![c] = PathOf(p) \cup {c}]

SpawnStarts(c, p) ==
    /\ CanSpawn(c, p)
    /\ InsertRow(c, p)
    /\ slots' = slots - 1
    /\ held' = held \cup {c}
    /\ coroutine' = [coroutine EXCEPT ![c] = "new"]
    /\ tracked' = tracked \cup {c}
    /\ UNCHANGED <<detached, closing, asked, spawn, call, process, histVars>>

\* The transaction, its commit or the event after it is interrupted once the
\* slot has been taken: the row may be there or not.
SpawnInterrupted(c, p) ==
    /\ CanSpawn(c, p)
    /\ InsertRow(c, p) \/ UNCHANGED <<lifecycle, path>>
    /\ slots' = slots - 1
    /\ spawn' = [at |-> "unsure", child |-> c]
    /\ UNCHANGED <<detached, held, closing, taskVars, call, process, histVars>>

\* create_task fails after the commit.
SpawnTaskless(c, p) ==
    /\ CanSpawn(c, p)
    /\ InsertRow(c, p)
    /\ slots' = slots - 1
    /\ held' = held \cup {c}
    /\ spawn' = [at |-> "compensate", child |-> c]
    /\ UNCHANGED <<detached, closing, taskVars, call, process, histVars>>

\* The call raises once it has reconciled.
SpawnRaises == spawn' = [at |-> "raised", child |-> Root]

\* A wrong reconciliation: no row, nothing to do.
ReconcileKeepsSlot ==
    /\ Alive /\ spawn.at = "unsure"
    /\ IF lifecycle[spawn.child] = "NONE"
       THEN UNCHANGED slotVars /\ SpawnRaises
       ELSE /\ held' = held \cup {spawn.child}
            /\ slots' = slots
            /\ spawn' = [spawn EXCEPT !.at = "compensate"]
    /\ UNCHANGED <<registryVars, closing, taskVars, call, process, histVars>>

\* _reconcile_spawn_persistence, shielded from cancellation.
Reconcile ==
    /\ Alive /\ spawn.at = "unsure"
    /\ IF lifecycle[spawn.child] = "NONE"
       THEN /\ slots' = slots + 1
            /\ held' = held
            /\ SpawnRaises
       ELSE /\ held' = held \cup {spawn.child}
            /\ slots' = slots
            /\ spawn' = [spawn EXCEPT !.at = "compensate"]
    /\ UNCHANGED <<registryVars, closing, taskVars, call, process, histVars>>

\* The row cannot be read: the call raises, and the slot has no owner.
ReconcileFails ==
    /\ Alive /\ spawn.at = "unsure"
    /\ lost' = lost + 1
    /\ SpawnRaises
    /\ UNCHANGED <<registryVars, slotVars, closing, taskVars, call, process, abandoned, unnoticed>>

\* _compensate_committed_spawn
Compensate ==
    /\ Alive /\ spawn.at = "compensate"
    /\ PersistTerminal(spawn.child, "FAILED")
    /\ spawn' = [spawn EXCEPT !.at = "discard"]
    /\ UNCHANGED <<path, detached, slotVars, closing, taskVars, call, process, histVars>>

Discard ==
    /\ Alive /\ spawn.at = "discard"
    /\ CloseRow(spawn.child, FALSE)
    /\ ReleaseOwned(spawn.child)
    /\ SpawnRaises
    /\ UNCHANGED <<path, closing, taskVars, call, process, histVars>>

CompensateFails ==
    /\ Alive /\ spawn.at = "compensate"
    /\ PersistTerminal(spawn.child, "FAILED") \/ UNCHANGED lifecycle
    /\ abandoned' = abandoned \cup {spawn.child}
    /\ SpawnRaises
    /\ UNCHANGED <<path, detached, slotVars, closing, taskVars, call, process, lost, unnoticed>>

DiscardFails ==
    /\ Alive /\ spawn.at = "discard"
    /\ CloseRowUnsure(spawn.child, FALSE)
    /\ spawn' = [spawn EXCEPT !.at = "recheck"]
    /\ UNCHANGED <<path, slotVars, closing, taskVars, call, process, histVars>>

\* _reconcile_close_persistence
DiscardRechecks ==
    /\ Alive /\ spawn.at = "recheck"
    /\ IF lifecycle[spawn.child] = "CLOSED"
       THEN ReleaseOwned(spawn.child) /\ UNCHANGED abandoned
       ELSE abandoned' = abandoned \cup {spawn.child} /\ UNCHANGED slotVars
    /\ SpawnRaises
    /\ UNCHANGED <<registryVars, closing, taskVars, call, process, lost, unnoticed>>

\* The row cannot be read: the call raises, and the slot stays with the child.
DiscardRecheckFails ==
    /\ Alive /\ spawn.at = "recheck"
    /\ abandoned' = abandoned \cup {spawn.child}
    /\ SpawnRaises
    /\ UNCHANGED <<registryVars, slotVars, closing, taskVars, call, process, lost, unnoticed>>

SpawnReturns ==
    /\ Alive /\ spawn.at = "raised"
    /\ spawn' = NoSpawn
    /\ UNCHANGED <<registryVars, slotVars, closing, taskVars, call, process, histVars>>

-----------------------------------------------------------------------------
(* _execute_child                                                          *)

\* The coroutine ends; its done callback drops it from _tasks.
End(c) ==
    /\ coroutine' = [coroutine EXCEPT ![c] = "done"]
    /\ asked' = asked \ {c}
    /\ tracked' = tracked \ {c}

\* _mark_running
TaskBegins(c) ==
    /\ Alive /\ coroutine[c] = "new"
    /\ IF lifecycle[c] = "SPAWNING"
       THEN /\ lifecycle' = [lifecycle EXCEPT ![c] = "RUNNING"]
            /\ coroutine' = [coroutine EXCEPT ![c] = "running"]
            /\ UNCHANGED <<asked, tracked>>
       ELSE End(c) /\ UNCHANGED lifecycle
    /\ UNCHANGED <<path, detached, slotVars, closing, spawn, call, process, histVars>>

Settling == [COMPLETED |-> "completing", FAILED |-> "failing", CANCELLED |-> "cancelling"]

\* The runner answers and its messages are committed, or it fails, times out
\* or exceeds its budget.
RunnerEnds(c, outcome) ==
    /\ Alive /\ coroutine[c] = "running"
    /\ coroutine' = [coroutine EXCEPT ![c] = Settling[outcome]]
    /\ UNCHANGED <<registryVars, slotVars, closing, asked, tracked, spawn, call, process, histVars>>

\* A cancellation reaches the coroutine: before it began nothing of it runs,
\* while it settles a failure or a cancellation the row is left alone.
TaskCancelled(c) ==
    /\ Alive /\ c \in asked
    /\ \/ coroutine[c] \in {"new", "failing", "cancelling"} /\ End(c)
       \/ /\ coroutine[c] \in {"new", "running", "completing"}
          /\ coroutine' = [coroutine EXCEPT ![c] = "cancelling"]
          /\ asked' = asked \ {c}
          /\ UNCHANGED tracked
    /\ UNCHANGED <<registryVars, slotVars, closing, spawn, call, process, histVars>>

TaskSettles(c) ==
    /\ Alive
    /\ \E outcome \in Terminal :
          coroutine[c] = Settling[outcome] /\ PersistTerminal(c, outcome)
    /\ End(c)
    /\ UNCHANGED <<path, detached, slotVars, closing, spawn, call, process, histVars>>

\* A failing statement turns a result into a failure, and a failure that
\* cannot be written ends the task with the row as it is.
TaskFails(c) ==
    /\ Alive
    /\ \/ /\ coroutine[c] \in {"new", "completing"}
          /\ coroutine' = [coroutine EXCEPT ![c] = "failing"]
          /\ UNCHANGED <<asked, tracked>>
       \/ coroutine[c] \in {"failing", "cancelling"} /\ End(c)
    /\ UNCHANGED <<registryVars, slotVars, closing, spawn, call, process, histVars>>

-----------------------------------------------------------------------------
(* close_agent(c) called by o                                              *)

Call(o, c, at) == call' = [call EXCEPT ![o][c].at = at]

Enter(o, c) ==
    /\ call[o][c].at = "none" /\ lifecycle[c] # "NONE"
    /\ LET ids == Descendants(c) \cup {c}
       IN  /\ closing' = [d \in Child |-> closing[d] + IF d \in ids THEN 1 ELSE 0]
           /\ call' = [call EXCEPT ![o][c] =
                  [at |-> "look", ids |-> ids, todo |-> ids, forced |-> FALSE, ok |-> TRUE]]
    /\ UNCHANGED <<registryVars, slotVars, taskVars, spawn, histVars>>

CloseBegins(o, c) == Alive /\ o # Shutdown /\ Enter(o, c) /\ UNCHANGED process

\* The next of a call's children, in a fixed order that has descendants before
\* their ancestors.
Deepest(todo) == {d \in todo : \A e \in todo \ {d} : d \notin path[e]}
IsNext(todo, d) == d \in Deepest(todo) /\ d = CHOOSE e \in Deepest(todo) : TRUE

\* One child is done; after the last one the call gives its closing counts back.
Advance(o, c, d) ==
    call' = [call EXCEPT ![o][c].at = IF call[o][c].todo = {d} THEN "end" ELSE "look",
                         ![o][c].todo = @ \ {d},
                         ![o][c].forced = FALSE]

\* _close_one: the first read, and the cancellation of a running task.
CloseLooks(o, c, d) ==
    /\ Alive /\ call[o][c].at = "look" /\ IsNext(call[o][c].todo, d)
    /\ \/ /\ lifecycle[d] = "CLOSED"
          /\ ReleaseOwned(d)
          /\ Advance(o, c, d)
          /\ UNCHANGED asked
       \/ /\ lifecycle[d] # "CLOSED"
          /\ UNCHANGED slotVars
          /\ IF d \in tracked
             THEN asked' = asked \cup {d} /\ Call(o, c, "wait")
             ELSE asked' = asked /\ Call(o, c, "settle")
    /\ UNCHANGED <<registryVars, closing, coroutine, tracked, spawn, process, histVars>>

\* The cancelled task has ended.
CloseWaits(o, c, d) ==
    /\ Alive /\ call[o][c].at = "wait" /\ IsNext(call[o][c].todo, d)
    /\ coroutine[d] = "done"
    /\ Call(o, c, "settle")
    /\ UNCHANGED <<registryVars, slotVars, closing, taskVars, spawn, process, histVars>>

\* It has not within AGENT_CLOSE_TIMEOUT_SECONDS.
CloseTimesOut(o, c, d) ==
    /\ Alive /\ call[o][c].at = "wait" /\ IsNext(call[o][c].todo, d)
    /\ coroutine[d] # "done"
    /\ call' = [call EXCEPT ![o][c].at = "settle", ![o][c].forced = TRUE]
    /\ UNCHANGED <<registryVars, slotVars, closing, taskVars, spawn, process, histVars>>

CloseSettles(o, c, d) ==
    /\ Alive /\ call[o][c].at = "settle" /\ IsNext(call[o][c].todo, d)
    /\ PersistTerminal(d, "CANCELLED")
    /\ IF lifecycle[d] = "CLOSED"
       THEN ReleaseOwned(d) /\ Advance(o, c, d)
       ELSE Call(o, c, "persist") /\ UNCHANGED slotVars
    /\ UNCHANGED <<path, detached, closing, taskVars, spawn, process, histVars>>

\* _persist_close
ClosePersists(o, c, d) ==
    /\ Alive /\ call[o][c].at = "persist" /\ IsNext(call[o][c].todo, d)
    /\ CloseRow(d, call[o][c].forced)
    /\ ReleaseOwned(d)
    /\ IF call[o][c].forced THEN Call(o, c, "detach") ELSE Advance(o, c, d)
    /\ UNCHANGED <<path, closing, taskVars, spawn, process, histVars>>

\* _release_force_detached_ownership
CloseDetaches(o, c, d) ==
    /\ Alive /\ call[o][c].at = "detach" /\ IsNext(call[o][c].todo, d)
    /\ tracked' = tracked \ {d}
    /\ Advance(o, c, d)
    /\ UNCHANGED <<registryVars, slotVars, closing, coroutine, asked, spawn, process, histVars>>

\* The call raises, from a failing statement or because its caller is
\* cancelled; a commit of the close is reconciled first.
CloseFails(o, c) ==
    /\ Alive
    /\ \/ /\ call[o][c].at \in {"look", "wait", "settle", "detach"}
          /\ call' = [call EXCEPT ![o][c].at = "end", ![o][c].ok = FALSE]
          /\ UNCHANGED <<lifecycle, detached>>
       \/ /\ call[o][c].at = "persist"
          /\ \E d \in call[o][c].todo :
                IsNext(call[o][c].todo, d) /\ CloseRowUnsure(d, call[o][c].forced)
          /\ Call(o, c, "recheck")
    /\ UNCHANGED <<path, slotVars, closing, taskVars, spawn, process, histVars>>

\* A wrong reconciliation: the exception goes on whatever the commit did.
CloseRechecksNothing(o, c, d) ==
    /\ Alive /\ call[o][c].at = "recheck" /\ IsNext(call[o][c].todo, d)
    /\ call' = [call EXCEPT ![o][c].at = "end", ![o][c].ok = FALSE]
    /\ UNCHANGED <<registryVars, slotVars, closing, taskVars, spawn, process, histVars>>

\* _reconcile_close_persistence, then the exception goes on.
CloseRechecks(o, c, d) ==
    /\ Alive /\ call[o][c].at = "recheck" /\ IsNext(call[o][c].todo, d)
    /\ IF lifecycle[d] = "CLOSED" THEN ReleaseOwned(d) ELSE UNCHANGED slotVars
    /\ tracked' = IF lifecycle[d] = "CLOSED" /\ d \in detached /\ call[o][c].forced
                  THEN tracked \ {d} ELSE tracked
    /\ call' = [call EXCEPT ![o][c].at = "end", ![o][c].ok = FALSE]
    /\ UNCHANGED <<registryVars, closing, coroutine, asked, spawn, process, histVars>>

\* The row cannot be read (manager.py:901): nothing is given back.
CloseRecheckFails(o, c, d) ==
    /\ Alive /\ call[o][c].at = "recheck" /\ IsNext(call[o][c].todo, d)
    /\ call' = [call EXCEPT ![o][c].at = "end", ![o][c].ok = FALSE]
    /\ unnoticed' = IF lifecycle[d] = "CLOSED" THEN unnoticed \cup {d} ELSE unnoticed
    /\ UNCHANGED <<registryVars, slotVars, closing, taskVars, spawn, process, lost, abandoned>>

\* _release_closing_admission
CloseEnds(o, c) ==
    /\ Alive /\ call[o][c].at = "end"
    /\ closing' = [d \in Child |-> closing[d] - IF d \in call[o][c].ids THEN 1 ELSE 0]
    /\ call' = [call EXCEPT ![o][c] = [NoCall EXCEPT !.ok = call[o][c].ok]]
    /\ UNCHANGED <<registryVars, slotVars, taskVars, spawn, process, histVars>>

-----------------------------------------------------------------------------
(* collect_expired_receipts, shutdown, crash and reconcile_startup         *)

\* A wrong collector: only answers are collected.
CollectorClosesAnswers(c) ==
    /\ process.at = "up" /\ lifecycle[c] \in {"COMPLETED", "CLOSED"}
    /\ CloseRow(c, FALSE)
    /\ ReleaseOwned(c)
    /\ UNCHANGED <<path, closing, taskVars, spawn, call, process, histVars>>

\* _recover_close_one of a row that was terminal, and older than
\* AGENT_TERMINAL_RECEIPT_TTL_SECONDS, when the round listed it; it can only
\* have been closed since.
CollectorCloses(c) ==
    /\ process.at = "up" /\ lifecycle[c] \in Terminal \cup {"CLOSED"}
    /\ CloseRow(c, FALSE)
    /\ ReleaseOwned(c)
    /\ UNCHANGED <<path, closing, taskVars, spawn, call, process, histVars>>

\* The round ends: the close did not commit, or it did and the row cannot be
\* read again.  With a row that can be read this is CollectorCloses.
CollectorCloseFails(c) ==
    /\ process.at = "up" /\ lifecycle[c] \in Terminal
    /\ CloseRow(c, FALSE)
    /\ unnoticed' = unnoticed \cup {c}
    /\ UNCHANGED <<path, slotVars, closing, taskVars, spawn, call, process, lost, abandoned>>

\* The loops are cancelled first; then what this process holds is listed.  A
\* root is a child whose parent this process does not hold.  With nothing to
\* close shutdown returns at once.
ShutdownBegins ==
    /\ process.at = "up"
    /\ LET ids == tracked \cup held
           roots == {c \in ids : (path[c] \cap ids) \subseteq {c}}
       IN  process' = IF ids = {} THEN Stopped
                      ELSE [at |-> "stopping", roots |-> roots, rest |-> ids \ roots]
    /\ UNCHANGED <<registryVars, slotVars, closing, taskVars, spawn, call, histVars>>

ShutdownIdle == \A c \in Child : call[Shutdown][c].at = "none"
ShutdownIsFine == \A c \in Child : call[Shutdown][c].ok

ShutdownCloses(c) ==
    /\ process.at = "stopping" /\ ShutdownIdle /\ ShutdownIsFine
    /\ IF process.roots # {} THEN c \in process.roots ELSE c \in process.rest
    /\ Enter(Shutdown, c)
    /\ process' = [process EXCEPT !.roots = @ \ {c}, !.rest = @ \ {c}]

\* A failed close ends the lifespan; so does either assertion at the end.
ShutdownEnds ==
    /\ process.at = "stopping" /\ ShutdownIdle
    /\ \/ ~ShutdownIsFine /\ process' = [Stopped EXCEPT !.at = "failed"]
       \/ /\ ShutdownIsFine /\ process.roots \cup process.rest = {}
          /\ process' = [Stopped EXCEPT !.at = IF tracked \cup held = {}
                                               THEN "stopped" ELSE "asserted"]
    /\ UNCHANGED <<registryVars, slotVars, closing, taskVars, spawn, call, histVars>>

\* The process is gone, and all it kept in memory.
Dies ==
    /\ process.at # "down"
    /\ process' = [Stopped EXCEPT !.at = "down"]
    /\ slots' = MaxConcurrent
    /\ held' = {}
    /\ closing' = [c \in Child |-> 0]
    /\ coroutine' = [c \in Child |-> "none"]
    /\ asked' = {}
    /\ tracked' = {}
    /\ spawn' = NoSpawn
    /\ call' = [o \in Closer |-> [c \in Child |-> NoCall]]
    /\ lost' = 0
    /\ abandoned' = {}
    /\ unnoticed' = {}
    /\ UNCHANGED registryVars

\* reconcile_startup lists what is not CLOSED and closes it deepest first.
Boots ==
    /\ process.at = "down"
    /\ process' = [at |-> "booting", roots |-> {}, rest |-> {c \in Child : Open(c)}]
    /\ UNCHANGED <<registryVars, slotVars, closing, taskVars, spawn, call, histVars>>

BootCancels(c) ==
    /\ process.at = "booting" /\ IsNext(process.rest, c) /\ lifecycle[c] \in Active
    /\ PersistTerminal(c, "CANCELLED")
    /\ UNCHANGED <<path, detached, slotVars, closing, taskVars, spawn, call, process, histVars>>

BootCloses(c) ==
    /\ process.at = "booting" /\ IsNext(process.rest, c) /\ lifecycle[c] \notin Active
    /\ CloseRow(c, FALSE)
    /\ process' = [process EXCEPT !.rest = @ \ {c}]
    /\ UNCHANGED <<path, slotVars, closing, taskVars, spawn, call, histVars>>

BootEnds ==
    /\ process.at = "booting" /\ process.rest = {}
    /\ process' = Running
    /\ UNCHANGED <<registryVars, slotVars, closing, taskVars, spawn, call, histVars>>

-----------------------------------------------------------------------------
TaskSteps(c) ==
    \/ TaskBegins(c) \/ TaskCancelled(c) \/ TaskSettles(c)
    \/ \E outcome \in {"COMPLETED", "FAILED"} : RunnerEnds(c, outcome)

CloseProgress(o, c) ==
    \/ CloseEnds(o, c)
    \/ \E d \in Child :
          /\ d \in call[o][c].todo
          /\ \/ CloseLooks(o, c, d) \/ CloseWaits(o, c, d) \/ CloseSettles(o, c, d)
             \/ ClosePersists(o, c, d) \/ CloseDetaches(o, c, d) \/ CloseRechecks(o, c, d)

SpawnProgress == Reconcile \/ Compensate \/ Discard \/ DiscardRechecks
SpawnFailures == ReconcileFails \/ CompensateFails \/ DiscardFails

Lifecycle ==
    \/ ShutdownBegins \/ ShutdownEnds \/ Dies \/ Boots \/ BootEnds
    \/ \E c \in Child : \/ CollectorCloses(c) \/ CollectorCloseFails(c)
                        \/ ShutdownCloses(c) \/ BootCancels(c) \/ BootCloses(c)

\* Any caller may spawn below any child and close any child at any time.
SpawnNext ==
    \/ \E c \in Child, p \in Child \cup {Root} :
          SpawnStarts(c, p) \/ SpawnInterrupted(c, p) \/ SpawnTaskless(c, p)
    \/ SpawnProgress \/ SpawnFailures \/ DiscardRecheckFails \/ SpawnReturns
    \/ \E c \in Child : TaskSteps(c) \/ TaskFails(c)
    \/ \E o \in Closer, c \in Child :
          \/ CloseBegins(o, c) \/ CloseProgress(o, c) \/ CloseFails(o, c)
          \/ \E d \in Child : CloseTimesOut(o, c, d) \/ CloseRecheckFails(o, c, d)
    \/ Lifecycle

SpawnSpec == SpawnInit /\ [][SpawnNext]_spawnVars

-----------------------------------------------------------------------------
SpawnTypeOK ==
    /\ lifecycle \in [Child -> Status]
    /\ path \in [Child -> SUBSET Child]
    /\ detached \subseteq Child
    /\ slots \in 0 .. MaxConcurrent
    /\ held \subseteq Child
    /\ closing \in [Child -> Int]
    /\ coroutine \in [Child -> {"none", "new", "running", "completing", "failing", "cancelling", "done"}]
    /\ asked \subseteq Child
    /\ tracked \subseteq Child
    /\ spawn \in [at : {"idle", "unsure", "compensate", "discard", "recheck", "raised"},
                  child : Child \cup {Root}]
    /\ call \in [Closer -> [Child ->
          [at : {"none", "look", "wait", "settle", "persist", "detach", "recheck", "end"},
           ids : SUBSET Child, todo : SUBSET Child, forced : BOOLEAN, ok : BOOLEAN]]]
    /\ process \in [at : {"up", "stopping", "stopped", "failed", "asserted", "down", "booting"},
                    roots : SUBSET Child, rest : SUBSET Child]
    /\ lost \in Nat
    /\ abandoned \subseteq Child
    /\ unnoticed \subseteq Child

\* Every concurrency slot is free, owned by a held child, in the hands of a
\* spawn that is being reconciled, or lost with one that could not be
\* (manager.py:335 and the places that release): none leaks and none is given
\* back twice, whatever spawns, closes and collections race.
SlotsAccounted ==
    slots + Cardinality(held) + lost + (IF spawn.at = "unsure" THEN 1 ELSE 0) = MaxConcurrent

\* Held slots and open rows agree (manager.py:880-928): a child whose coroutine
\* may still work holds a slot and can be cancelled unless its row was closed
\* over it, and a closed row holds no slot once whoever closed it, or whoever
\* is still compensating its spawn, is through.  A closed row keeps its slot
\* only when the commit that closed it, or that gave its spawn up, was answered
\* with an error and the row could not be read after it: the slot then comes
\* back with a later close_agent of that child, or at shutdown.
SlotsFollowRows ==
    \A c \in Child :
        /\ coroutine[c] \in {"new", "running"} =>
              lifecycle[c] = "CLOSED" \/ (c \in held /\ c \in tracked)
        /\ c \in held /\ lifecycle[c] = "CLOSED" =>
              \/ spawn.child = c \/ c \in abandoned \cup unnoticed
              \/ \E o \in Closer, d \in Child : call[o][d].at = "recheck" /\ c \in call[o][d].todo

\* close_agent answers for a whole subtree (manager.py:741-776): when it
\* returns no descendant is open, those that were being spawned included.
CloseIsDeep ==
    [][\A o \in Closer, c \in Child :
          CloseEnds(o, c) /\ call[o][c].ok =>
              \A d \in Descendants(c) \cup {c} : lifecycle[d] = "CLOSED"]_spawnVars

\* A row only moves on (crud/agent_registry.py:16-24): what a child answered is
\* not overwritten by a closer, a compensation or a coroutine that was closed
\* over and goes on, and a closed row stays closed, across restarts.
LifecycleOnlyAdvances ==
    [][\A c \in Child :
          /\ lifecycle[c] = "CLOSED" => lifecycle'[c] = "CLOSED"
          /\ lifecycle[c] \in Terminal => lifecycle'[c] \in {lifecycle[c], "CLOSED"}
          /\ lifecycle[c] = "RUNNING" => lifecycle'[c] # "SPAWNING"]_spawnVars
=============================================================================

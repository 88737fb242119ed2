----------------------------- MODULE SpawnProofs -----------------------------
(***************************************************************************)
(* The sub-agents of a session, for any number of children, callers and    *)
(* slots.  SpawnInv is inductive: a slot that is not free is held, being   *)
(* reconciled or lost (SlotLedger); a spawn knows its child and holds      *)
(* nothing before it is reconciled (SpawnOwns); and a close_agent call     *)
(* keeps its whole subtree from growing (Counted, Covers) and has closed   *)
(* what it is through with (Through).  RowsInv is inductive beside it:     *)
(* slots follow the rows of the children that hold them.                   *)
(***************************************************************************)
EXTENDS SpawnManager, TLAPS, FiniteSetTheorems

-----------------------------------------------------------------------------
(* The inductive invariant.                                                *)

SlotLedger == IsFiniteSet(held) /\ SlotsAccounted

SpawnOwns ==
    /\ \A c \in held : lifecycle[c] # "NONE"
    /\ spawn.at \in {"unsure", "compensate", "discard", "recheck"} => spawn.child \in Child
    /\ spawn.at = "unsure" => spawn.child \notin held

Busy(o, c) == call[o][c].at # "none"
\* The calls that keep d from taking children.
Closers(d) == {oc \in Closer \X Child : Busy(oc[1], oc[2]) /\ d \in call[oc[1]][oc[2]].ids}

Counted ==
    \A d \in Child : IsFiniteSet(Closers(d)) /\ closing[d] = Cardinality(Closers(d))

\* A row that is not there has no path; the subtree of a call is what it was
\* when the call began.
CoversCall(o, c) ==
    Busy(o, c) => /\ lifecycle[c] # "NONE"
                  /\ call[o][c].ids = Descendants(c) \cup {c}
                  /\ call[o][c].todo \subseteq call[o][c].ids

Covers ==
    /\ \A c \in Child : lifecycle[c] = "NONE" => path[c] = {}
    /\ \A o \in Closer, c \in Child : CoversCall(o, c)

\* What a call that has not failed is through with is closed.
ThroughCall(o, c) ==
    Busy(o, c) /\ call[o][c].ok =>
        /\ \A d \in call[o][c].ids \ call[o][c].todo : lifecycle[d] = "CLOSED"
        /\ call[o][c].at = "end" => call[o][c].todo = {}
        /\ call[o][c].at = "detach" =>
              \A d \in Child : IsNext(call[o][c].todo, d) => lifecycle[d] = "CLOSED"

Through == \A o \in Closer, c \in Child : ThroughCall(o, c)

SpawnInv == SpawnTypeOK /\ SlotLedger /\ SpawnOwns /\ Counted /\ Covers /\ Through

-----------------------------------------------------------------------------
(* Rows.                                                                   *)

\* What any step may do to the row of c.
RowAdvances(c) ==
    /\ lifecycle[c] = "CLOSED" => lifecycle'[c] = "CLOSED"
    /\ lifecycle[c] \in Terminal => lifecycle'[c] \in {lifecycle[c], "CLOSED"}
    /\ lifecycle[c] = "RUNNING" => lifecycle'[c] # "SPAWNING"
    /\ lifecycle[c] # "NONE" => lifecycle'[c] # "NONE" /\ path'[c] = path[c]

RowsAdvance ==
    /\ lifecycle' \in [Child -> Status] /\ path' \in [Child -> SUBSET Child] /\ detached' \subseteq Child
    /\ \A d \in Child : RowAdvances(d)

\* The actions that write no row.
QuietStep ==
    \/ Reconcile \/ ReconcileFails \/ DiscardRechecks \/ DiscardRecheckFails \/ SpawnReturns
    \/ \E c \in Child : \/ TaskCancelled(c) \/ TaskFails(c) \/ ShutdownCloses(c)
                        \/ \E outcome \in {"COMPLETED", "FAILED"} : RunnerEnds(c, outcome)
    \/ \E o \in Closer, c \in Child :
          \/ CloseBegins(o, c) \/ CloseEnds(o, c)
          \/ \E d \in Child : \/ CloseLooks(o, c, d) \/ CloseWaits(o, c, d) \/ CloseTimesOut(o, c, d)
                              \/ CloseDetaches(o, c, d) \/ CloseRechecks(o, c, d) \/ CloseRecheckFails(o, c, d)
    \/ ShutdownBegins \/ ShutdownEnds \/ Dies \/ Boots \/ BootEnds

LEMMA QuietRows == QuietStep => UNCHANGED registryVars
<1>1. ASSUME NEW c \in Child, NEW d \in Child, NEW o \in Closer
      PROVE  /\ CloseBegins(o, c) \/ CloseEnds(o, c) => UNCHANGED registryVars
             /\ CloseLooks(o, c, d) \/ CloseWaits(o, c, d) \/ CloseTimesOut(o, c, d)
                  => UNCHANGED registryVars
             /\ CloseDetaches(o, c, d) \/ CloseRechecks(o, c, d) \/ CloseRecheckFails(o, c, d) => UNCHANGED registryVars
  BY Zenon DEF CloseBegins, Enter, CloseEnds, CloseLooks, CloseWaits, CloseTimesOut, CloseDetaches,
         CloseRechecks, CloseRecheckFails
<1>2. ASSUME NEW c \in Child, NEW outcome \in {"COMPLETED", "FAILED"}
      PROVE  TaskCancelled(c) \/ TaskFails(c) \/ ShutdownCloses(c) \/ RunnerEnds(c, outcome)
               => UNCHANGED registryVars
  BY Zenon DEF TaskCancelled, TaskFails, ShutdownCloses, Enter, RunnerEnds
<1>3. Reconcile \/ ReconcileFails \/ DiscardRechecks \/ DiscardRecheckFails \/ SpawnReturns
        => UNCHANGED registryVars
  BY Zenon DEF Reconcile, ReconcileFails, DiscardRechecks, DiscardRecheckFails, SpawnReturns
<1>4. ShutdownBegins \/ ShutdownEnds \/ Dies \/ Boots \/ BootEnds => UNCHANGED registryVars
  BY Zenon DEF ShutdownBegins, ShutdownEnds, Dies, Boots, BootEnds
<1>5. QED
  BY <1>1, <1>2, <1>3, <1>4 DEF QuietStep

\* A row that is not there is inserted with its path.
LEMMA InsertedRow ==
    ASSUME SpawnTypeOK, SpawnAssumption, NEW c \in Child, NEW p \in Child \cup {Root}, CanSpawn(c, p),
           InsertRow(c, p) \/ UNCHANGED <<lifecycle, path>>, UNCHANGED detached
    PROVE  RowsAdvance
<1>1. PathOf(p) \cup {c} \in SUBSET Child
  BY DEF SpawnTypeOK, SpawnAssumption, PathOf
<1>2. lifecycle' = [lifecycle EXCEPT ![c] = "SPAWNING"] \/ lifecycle' = lifecycle
  BY DEF InsertRow
<1>3. path' = [path EXCEPT ![c] = PathOf(p) \cup {c}] \/ path' = path
  BY DEF InsertRow
<1>4. lifecycle[c] = "NONE"
  BY DEF CanSpawn
<1>5. lifecycle' \in [Child -> Status] /\ path' \in [Child -> SUBSET Child] /\ detached' \subseteq Child
  <2>1. "SPAWNING" \in Status
    BY DEF Status, Active
  <2>2. lifecycle' \in [Child -> Status]
    BY <1>2, <2>1 DEF SpawnTypeOK
  <2>3. path' \in [Child -> SUBSET Child]
    <3>1. CASE path' = path
      BY <3>1 DEF SpawnTypeOK
    <3>2. CASE path' = [path EXCEPT ![c] = PathOf(p) \cup {c}]
      <4> DEFINE S == PathOf(p) \cup {c}
      <4>1. S \in SUBSET Child /\ path' = [path EXCEPT ![c] = S]
        BY <1>1, <3>2
      <4> HIDE DEF S
      <4>2. QED
        BY <4>1 DEF SpawnTypeOK
    <3>3. QED
      BY <1>3, <3>1, <3>2
  <2>4. QED
    BY <2>2, <2>3 DEF SpawnTypeOK
<1>6. ASSUME NEW d \in Child
      PROVE  RowAdvances(d)
  BY <1>2, <1>3, <1>4 DEF SpawnTypeOK, RowAdvances, Terminal
<1>7. QED
  BY <1>5, <1>6 DEF RowsAdvance

LEMMA SettledRow ==
    ASSUME SpawnTypeOK, NEW c \in Child, NEW outcome \in Terminal, PersistTerminal(c, outcome),
           UNCHANGED <<path, detached>>
    PROVE  RowsAdvance
BY DEF SpawnTypeOK, PersistTerminal, RowsAdvance, RowAdvances, Status, Active, Terminal

LEMMA ClosedRow ==
    ASSUME SpawnTypeOK, NEW c \in Child, NEW force \in BOOLEAN,
           CloseRowUnsure(c, force), UNCHANGED path
    PROVE  RowsAdvance
BY DEF SpawnTypeOK, CloseRowUnsure, CloseRow, RowsAdvance, RowAdvances, Status, Active, Terminal

\* The actions that may write one.
WritingStep ==
    \/ \E c \in Child, p \in Child \cup {Root} :
          SpawnStarts(c, p) \/ SpawnInterrupted(c, p) \/ SpawnTaskless(c, p)
    \/ Compensate \/ Discard \/ CompensateFails \/ DiscardFails
    \/ \E c \in Child : \/ TaskBegins(c) \/ TaskSettles(c)
                        \/ CollectorCloses(c) \/ CollectorCloseFails(c) \/ BootCancels(c) \/ BootCloses(c)
    \/ \E o \in Closer, c \in Child :
          CloseFails(o, c) \/ \E d \in Child : CloseSettles(o, c, d) \/ ClosePersists(o, c, d)

LEMMA StepsSplit == SpawnNext => QuietStep \/ WritingStep
BY Zenon DEF SpawnNext, SpawnProgress, SpawnFailures, TaskSteps, CloseProgress, Lifecycle, QuietStep, WritingStep

LEMMA RowsMove ==
    ASSUME SpawnTypeOK, SpawnOwns, SpawnNext
    PROVE  RowsAdvance
<1>1. CASE QuietStep
  BY <1>1, QuietRows DEF registryVars, RowsAdvance, RowAdvances, SpawnTypeOK, Terminal
<1>2. CASE WritingStep
  <2>1. ASSUME NEW c \in Child, NEW p \in Child \cup {Root},
               SpawnStarts(c, p) \/ SpawnInterrupted(c, p) \/ SpawnTaskless(c, p)
        PROVE  RowsAdvance
    BY <2>1, InsertedRow, SpawnAssumption DEF SpawnStarts, SpawnInterrupted, SpawnTaskless
  <2>2. CASE Compensate \/ CompensateFails
    <3>1. spawn.child \in Child /\ UNCHANGED <<path, detached>>
      BY <2>2 DEF SpawnOwns, Compensate, CompensateFails
    <3>2. PersistTerminal(spawn.child, "FAILED") \/ UNCHANGED lifecycle
      BY <2>2 DEF Compensate, CompensateFails
    <3>3. CASE UNCHANGED lifecycle
      BY <3>1, <3>3 DEF RowsAdvance, RowAdvances, SpawnTypeOK, Terminal
    <3>4. QED
      BY <3>1, <3>2, <3>3, SettledRow DEF Terminal
  <2>3. CASE Discard \/ DiscardFails
    <3>1. spawn.child \in Child /\ UNCHANGED path /\ CloseRowUnsure(spawn.child, FALSE)
      BY <2>3 DEF SpawnOwns, Discard, DiscardFails, CloseRowUnsure
    <3>2. QED
      BY <3>1, ClosedRow
  <2>4. ASSUME NEW c \in Child, TaskBegins(c)
        PROVE  RowsAdvance
    BY <2>4 DEF TaskBegins, RowsAdvance, RowAdvances, SpawnTypeOK, Status, Active, Terminal
  <2>5. ASSUME NEW c \in Child, TaskSettles(c) \/ BootCancels(c)
        PROVE  RowsAdvance
    BY <2>5, SettledRow DEF TaskSettles, BootCancels, Terminal
  <2>6. ASSUME NEW c \in Child, CollectorCloses(c) \/ CollectorCloseFails(c) \/ BootCloses(c)
        PROVE  RowsAdvance
    BY <2>6, ClosedRow DEF CollectorCloses, CollectorCloseFails, BootCloses, CloseRowUnsure
  <2>7. ASSUME NEW o \in Closer, NEW c \in Child, CloseFails(o, c)
        PROVE  RowsAdvance
    <3>1. UNCHANGED path /\ call[o][c].forced \in BOOLEAN
      BY <2>7 DEF CloseFails, SpawnTypeOK
    <3>2. UNCHANGED <<lifecycle, detached>> \/ \E e \in Child : CloseRowUnsure(e, call[o][c].forced)
      BY <2>7 DEF CloseFails, IsNext, Deepest, SpawnTypeOK
    <3>3. CASE UNCHANGED <<lifecycle, detached>>
      BY <3>1, <3>3 DEF RowsAdvance, RowAdvances, SpawnTypeOK, Terminal
    <3>4. QED
      BY <3>1, <3>2, <3>3, ClosedRow
  <2>8. ASSUME NEW o \in Closer, NEW c \in Child, NEW e \in Child, CloseSettles(o, c, e)
        PROVE  RowsAdvance
    BY <2>8, SettledRow DEF CloseSettles, Terminal
  <2>9. ASSUME NEW o \in Closer, NEW c \in Child, NEW e \in Child, ClosePersists(o, c, e)
        PROVE  RowsAdvance
    <3>1. UNCHANGED path /\ call[o][c].forced \in BOOLEAN /\ CloseRowUnsure(e, call[o][c].forced)
      BY <2>9 DEF ClosePersists, SpawnTypeOK, CloseRowUnsure
    <3>2. QED
      BY <3>1, ClosedRow
  <2>10. QED
    BY <1>2, <2>1, <2>2, <2>3, <2>4, <2>5, <2>6, <2>7, <2>8, <2>9 DEF WritingStep
<1>3. QED
  BY <1>1, <1>2, StepsSplit

-----------------------------------------------------------------------------
(* Slots.                                                                  *)

LEMMA LedgerTypes ==
    ASSUME SpawnTypeOK, SlotLedger
    PROVE  /\ slots \in Nat /\ lost \in Nat /\ Cardinality(held) \in Nat /\ IsFiniteSet(held)
           /\ MaxConcurrent \in Nat
BY FS_CardinalityType, SpawnAssumption DEF SpawnTypeOK, SlotLedger

\* A slot given back is a slot that was held.
LEMMA SlotReleased ==
    ASSUME SpawnTypeOK, SlotLedger, NEW c \in Child, ReleaseOwned(c)
    PROVE  /\ held' \subseteq held /\ IsFiniteSet(held') /\ slots' \in Nat
           /\ slots' + Cardinality(held') = slots + Cardinality(held)
<1>1. CASE c \in held
  <2>1. held' = held \ {c} /\ slots' = slots + 1
    BY <1>1 DEF ReleaseOwned
  <2>2. IsFiniteSet(held \ {c}) /\ Cardinality(held \ {c}) = Cardinality(held) - 1
    BY <1>1, LedgerTypes, FS_RemoveElement
  <2>3. QED
    BY <2>1, <2>2, LedgerTypes
<1>2. CASE c \notin held
  BY <1>2, LedgerTypes DEF ReleaseOwned, slotVars
<1>3. QED
  BY <1>1, <1>2

\* A slot taken is one more that is held.
LEMMA SlotTaken ==
    ASSUME SpawnTypeOK, SlotLedger, NEW c \in Child \ held, held' = held \cup {c}
    PROVE  held' \subseteq Child /\ IsFiniteSet(held') /\ Cardinality(held') = Cardinality(held) + 1
BY LedgerTypes, FS_AddElement DEF SpawnTypeOK

\* The ledger's balance and what the spawn owns after a step.
Balanced ==
    /\ slots' \in 0 .. MaxConcurrent /\ held' \subseteq Child /\ lost' \in Nat
    /\ SlotLedger' /\ SpawnOwns'

\* Steps that leave the spawn alone and at most give slots back.
ReleasingStep ==
    UNCHANGED <<spawn, lost>> /\ (UNCHANGED <<slots, held>> \/ \E c \in Child : ReleaseOwned(c))

LEMMA ReleasingKeeps ==
    ASSUME SpawnTypeOK, SlotLedger, SpawnOwns, SpawnNext, ReleasingStep
    PROVE  Balanced
<1>1. /\ held' \subseteq held /\ IsFiniteSet(held') /\ slots' \in Nat
      /\ slots' + Cardinality(held') = slots + Cardinality(held)
  BY SlotReleased, LedgerTypes DEF ReleasingStep
<1>2. Cardinality(held') \in Nat
  BY <1>1, FS_CardinalityType
<1>3. \A c \in held' : lifecycle'[c] # "NONE"
  BY <1>1, RowsMove DEF RowsAdvance, RowAdvances, SpawnOwns, SpawnTypeOK
<1>4. QED
  BY <1>1, <1>2, <1>3, LedgerTypes
     DEF Balanced, SlotLedger, SlotsAccounted, SpawnOwns, SpawnTypeOK, ReleasingStep

LEMMA ReleasingSteps ==
    ASSUME SpawnTypeOK,
           \/ \E c \in Child : \/ TaskSteps(c) \/ TaskFails(c)
                               \/ CollectorCloses(c) \/ CollectorCloseFails(c) \/ ShutdownCloses(c) \/ BootCancels(c) \/ BootCloses(c)
           \/ \E o \in Closer, c \in Child :
                 \/ CloseBegins(o, c) \/ CloseProgress(o, c) \/ CloseFails(o, c)
                 \/ \E d \in Child : CloseTimesOut(o, c, d) \/ CloseRecheckFails(o, c, d)
           \/ ShutdownBegins \/ ShutdownEnds \/ Boots \/ BootEnds
    PROVE  ReleasingStep
<1>1. ASSUME NEW c \in Child, TaskSteps(c) \/ TaskFails(c)
      PROVE  ReleasingStep
  BY <1>1, Zenon DEF TaskSteps, TaskBegins, TaskCancelled, TaskSettles, RunnerEnds, TaskFails,
         ReleasingStep, slotVars, histVars
<1>2. ASSUME NEW c \in Child, CollectorCloses(c) \/ CollectorCloseFails(c) \/ ShutdownCloses(c) \/ BootCancels(c) \/ BootCloses(c)
      PROVE  ReleasingStep
  BY <1>2, Zenon DEF CollectorCloses, CollectorCloseFails, ShutdownCloses, Enter, BootCancels, BootCloses,
         ReleasingStep, slotVars, histVars
<1>3. ASSUME NEW o \in Closer, NEW c \in Child, CloseBegins(o, c) \/ CloseEnds(o, c) \/ CloseFails(o, c)
      PROVE  ReleasingStep
  BY <1>3, Zenon DEF CloseBegins, Enter, CloseEnds, CloseFails, ReleasingStep, slotVars, histVars
<1>4. ASSUME NEW o \in Closer, NEW c \in Child, NEW d \in Child,
             \/ CloseLooks(o, c, d) \/ CloseWaits(o, c, d) \/ CloseTimesOut(o, c, d)
             \/ CloseSettles(o, c, d) \/ ClosePersists(o, c, d)
             \/ CloseDetaches(o, c, d) \/ CloseRechecks(o, c, d) \/ CloseRecheckFails(o, c, d)
      PROVE  ReleasingStep
  BY <1>4, Zenon DEF CloseLooks, CloseWaits, CloseTimesOut, CloseSettles, ClosePersists, CloseDetaches,
         CloseRechecks, CloseRecheckFails, ReleasingStep, slotVars, histVars
<1>5. ASSUME ShutdownBegins \/ ShutdownEnds \/ Boots \/ BootEnds
      PROVE  ReleasingStep
  BY <1>5, Zenon DEF ShutdownBegins, ShutdownEnds, Boots, BootEnds, ReleasingStep, slotVars, histVars
<1>6. QED
  BY <1>1, <1>2, <1>3, <1>4, <1>5, Zenon DEF CloseProgress

LEMMA SpawnStepsBalance ==
    ASSUME SpawnTypeOK, SlotLedger, SpawnOwns, SpawnNext,
           NEW c \in Child, NEW p \in Child \cup {Root},
           SpawnStarts(c, p) \/ SpawnInterrupted(c, p) \/ SpawnTaskless(c, p)
    PROVE  Balanced
<1>1. c \notin held /\ slots > 0 /\ spawn.at = "idle" /\ slots' = slots - 1 /\ lost' = lost
  BY DEF SpawnStarts, SpawnInterrupted, SpawnTaskless, CanSpawn, Admitted, SpawnOwns, histVars
<1>2. \A d \in held : lifecycle'[d] # "NONE"
  BY RowsMove DEF RowsAdvance, RowAdvances, SpawnOwns, SpawnTypeOK
<1>3. CASE SpawnStarts(c, p) \/ SpawnTaskless(c, p)
  <2>1. held' = held \cup {c} /\ lifecycle'[c] = "SPAWNING"
    BY <1>3 DEF SpawnStarts, SpawnTaskless, InsertRow, SpawnTypeOK
  <2>2. spawn' = spawn \/ spawn' = [at |-> "compensate", child |-> c]
    BY <1>3 DEF SpawnStarts, SpawnTaskless
  <2>3. held' \subseteq Child /\ IsFiniteSet(held') /\ Cardinality(held') = Cardinality(held) + 1
    BY <1>1, <2>1, SlotTaken
  <2>4. spawn'.at # "unsure" /\ (spawn'.at \in {"compensate", "discard", "recheck"} => spawn'.child \in Child)
    BY <1>1, <2>2
  <2>5. slots' \in 0 .. MaxConcurrent /\ lost' \in Nat /\ SlotLedger'
    <3>1. slots + Cardinality(held) + lost = MaxConcurrent
      BY <1>1, LedgerTypes DEF SlotLedger, SlotsAccounted
    <3>2. slots' + Cardinality(held') + lost' = MaxConcurrent /\ slots' \in 0 .. MaxConcurrent
      BY <1>1, <2>3, <3>1, LedgerTypes
    <3>3. QED
      BY <1>1, <2>3, <2>4, <3>2, LedgerTypes DEF SlotLedger, SlotsAccounted
  <2>6. SpawnOwns'
    BY <1>2, <2>1, <2>4 DEF SpawnOwns
  <2>7. QED
    BY <2>3, <2>5, <2>6 DEF Balanced
<1>4. CASE SpawnInterrupted(c, p)
  <2>1. held' = held /\ spawn' = [at |-> "unsure", child |-> c]
    BY <1>4 DEF SpawnInterrupted
  <2>2. QED
    BY <1>1, <1>2, <2>1, LedgerTypes
       DEF Balanced, SlotLedger, SlotsAccounted, SpawnOwns, SpawnTypeOK
<1>5. QED
  BY <1>3, <1>4

LEMMA ReconcilingBalances ==
    ASSUME SpawnTypeOK, SlotLedger, SpawnOwns, SpawnNext, Reconcile \/ ReconcileFails
    PROVE  Balanced
<1>1. spawn.at = "unsure" /\ spawn.child \in Child \ held /\ UNCHANGED lifecycle
  BY DEF Reconcile, ReconcileFails, SpawnOwns, registryVars
<1>2. CASE Reconcile /\ lifecycle[spawn.child] = "NONE"
  <2>1. held' = held /\ slots' = slots + 1 /\ lost' = lost /\ spawn' = [at |-> "raised", child |-> Root]
    BY <1>2 DEF Reconcile, SpawnRaises, histVars
  <2>2. QED
    BY <1>1, <2>1, LedgerTypes DEF Balanced, SlotLedger, SlotsAccounted, SpawnOwns, SpawnTypeOK
<1>3. CASE Reconcile /\ lifecycle[spawn.child] # "NONE"
  <2>1. /\ held' = held \cup {spawn.child} /\ slots' = slots /\ lost' = lost
        /\ spawn' = [spawn EXCEPT !.at = "compensate"]
    BY <1>3 DEF Reconcile, histVars
  <2>2. held' \subseteq Child /\ IsFiniteSet(held') /\ Cardinality(held') = Cardinality(held) + 1
    BY <1>1, <2>1, SlotTaken
  <2>3. spawn'.at = "compensate" /\ spawn'.child = spawn.child
    BY <2>1 DEF SpawnTypeOK
  <2>4. \A d \in held' : lifecycle'[d] # "NONE"
    BY <1>1, <1>3, <2>1 DEF SpawnOwns
  <2>5. slots' \in 0 .. MaxConcurrent /\ lost' \in Nat /\ SlotLedger'
    BY <1>1, <2>1, <2>2, <2>3, LedgerTypes DEF SlotLedger, SlotsAccounted, SpawnTypeOK
  <2>6. SpawnOwns'
    BY <1>1, <2>3, <2>4 DEF SpawnOwns
  <2>7. QED
    BY <2>2, <2>5, <2>6 DEF Balanced
<1>4. CASE ReconcileFails
  <2>1. held' = held /\ slots' = slots /\ lost' = lost + 1 /\ spawn' = [at |-> "raised", child |-> Root]
    BY <1>4 DEF ReconcileFails, SpawnRaises, slotVars
  <2>2. QED
    BY <1>1, <2>1, LedgerTypes DEF Balanced, SlotLedger, SlotsAccounted, SpawnOwns, SpawnTypeOK
<1>5. QED
  BY <1>2, <1>3, <1>4

\* Compensating: the spawn ends or goes on to the next step with its child.
LEMMA CompensatingBalances ==
    ASSUME SpawnTypeOK, SlotLedger, SpawnOwns, SpawnNext,
           \/ Compensate \/ Discard \/ CompensateFails \/ DiscardFails
           \/ DiscardRechecks \/ DiscardRecheckFails \/ SpawnReturns
    PROVE  Balanced
<1>1. lost' = lost /\ (UNCHANGED <<slots, held>> \/ (spawn.child \in Child /\ ReleaseOwned(spawn.child)))
  BY DEF Compensate, Discard, CompensateFails, DiscardFails, DiscardRechecks, DiscardRecheckFails, SpawnReturns,
         SpawnOwns, slotVars, histVars
<1>2. /\ spawn.at # "unsure" /\ spawn'.at # "unsure"
      /\ spawn'.at \in {"compensate", "discard", "recheck"} => spawn'.child \in Child
  <2>1. CASE Discard \/ CompensateFails \/ DiscardRechecks \/ DiscardRecheckFails \/ SpawnReturns
    <3>1. /\ spawn.at \in {"compensate", "discard", "recheck", "raised"}
          /\ spawn' \in {[at |-> "raised", child |-> Root], [at |-> "idle", child |-> Root]}
      BY <2>1, Zenon DEF Discard, CompensateFails, DiscardRechecks, DiscardRecheckFails, SpawnReturns,
         SpawnRaises, NoSpawn
    <3>2. QED
      BY <3>1
  <2>2. CASE Compensate \/ DiscardFails
    <3>1. /\ spawn.at \in {"compensate", "discard"}
          /\ \/ spawn' = [spawn EXCEPT !.at = "discard"]
             \/ spawn' = [spawn EXCEPT !.at = "recheck"]
      BY <2>2 DEF Compensate, DiscardFails
    <3>2. spawn'.at \in {"discard", "recheck"} /\ spawn'.child = spawn.child /\ spawn.child \in Child
      BY <3>1 DEF SpawnOwns, SpawnTypeOK
    <3>3. QED
      BY <3>1, <3>2
  <2>3. QED
    BY <2>1, <2>2
<1>3. /\ held' \subseteq held /\ IsFiniteSet(held') /\ slots' \in Nat
      /\ slots' + Cardinality(held') = slots + Cardinality(held)
  BY <1>1, SlotReleased, LedgerTypes
<1>4. Cardinality(held') \in Nat
  BY <1>3, FS_CardinalityType
<1>5. \A c \in held' : lifecycle'[c] # "NONE"
  BY <1>3, RowsMove DEF RowsAdvance, RowAdvances, SpawnOwns, SpawnTypeOK
<1>6. QED
  BY <1>1, <1>2, <1>3, <1>4, <1>5, LedgerTypes
     DEF Balanced, SlotLedger, SlotsAccounted, SpawnOwns, SpawnTypeOK

LEMMA DyingBalances ==
    ASSUME SpawnTypeOK, Dies
    PROVE  Balanced
<1>1. /\ slots' = MaxConcurrent /\ held' = {} /\ lost' = 0
      /\ spawn' = [at |-> "idle", child |-> Root]
  BY DEF Dies, NoSpawn
<1>2. QED
  BY <1>1, FS_EmptySet, SpawnAssumption DEF Balanced, SlotLedger, SlotsAccounted, SpawnOwns

\* Every step balances.
LEMMA SlotsBalance ==
    ASSUME SpawnTypeOK, SlotLedger, SpawnOwns, SpawnNext
    PROVE  Balanced
<1>1. \/ \E c \in Child, p \in Child \cup {Root} :
            SpawnStarts(c, p) \/ SpawnInterrupted(c, p) \/ SpawnTaskless(c, p)
      \/ Reconcile \/ ReconcileFails
      \/ Compensate \/ Discard \/ CompensateFails \/ DiscardFails \/ DiscardRechecks
      \/ DiscardRecheckFails \/ SpawnReturns
      \/ Dies
      \/ ReleasingStep
  BY ReleasingSteps, Zenon DEF SpawnNext, SpawnProgress, SpawnFailures, Lifecycle
<1>2. QED
  BY <1>1, SpawnStepsBalance, ReconcilingBalances, CompensatingBalances, DyingBalances, ReleasingKeeps

-----------------------------------------------------------------------------
(* Types.                                                                  *)

Coroutines == {"none", "new", "running", "completing", "failing", "cancelling", "done"}
Calls ==
    [at : {"none", "look", "wait", "settle", "persist", "detach", "recheck", "end"},
     ids : SUBSET Child, todo : SUBSET Child, forced : BOOLEAN, ok : BOOLEAN]
Processes ==
    [at : {"up", "stopping", "stopped", "failed", "asserted", "down", "booting"},
     roots : SUBSET Child, rest : SUBSET Child]

TasksTyped ==
    /\ coroutine' \in [Child -> Coroutines]
    /\ asked' \subseteq Child /\ tracked' \subseteq Child /\ abandoned' \subseteq Child
    /\ unnoticed' \subseteq Child

LEMMA TasksKeepTypes ==
    ASSUME SpawnTypeOK, SpawnOwns, SpawnNext
    PROVE  TasksTyped
<1>1. coroutine \in [Child -> Coroutines] /\ asked \subseteq Child /\ tracked \subseteq Child
      /\ abandoned \subseteq Child /\ unnoticed \subseteq Child
  BY DEF SpawnTypeOK, Coroutines
<1>2. ASSUME NEW c \in Child, NEW p \in Child \cup {Root},
             SpawnStarts(c, p) \/ SpawnInterrupted(c, p) \/ SpawnTaskless(c, p)
      PROVE  TasksTyped
  BY <1>1, <1>2 DEF SpawnStarts, SpawnInterrupted, SpawnTaskless, taskVars, histVars, TasksTyped, Coroutines
<1>3. CASE Compensate \/ Discard \/ CompensateFails \/ DiscardFails \/ DiscardRechecks \/ DiscardRecheckFails
  BY <1>1, <1>3 DEF Compensate, Discard, CompensateFails, DiscardFails, DiscardRechecks, DiscardRecheckFails, taskVars,
     histVars, TasksTyped, SpawnOwns
<1>4. CASE Reconcile \/ ReconcileFails \/ SpawnReturns
  BY <1>1, <1>4 DEF Reconcile, ReconcileFails, SpawnReturns, taskVars, histVars, TasksTyped
<1>5. ASSUME NEW c \in Child, TaskSteps(c) \/ TaskFails(c)
      PROVE  TasksTyped
  <2>1. ASSUME NEW outcome \in {"COMPLETED", "FAILED"}
        PROVE  Settling[outcome] \in Coroutines
    BY DEF Settling, Coroutines
  <2>2. abandoned' = abandoned /\ unnoticed' = unnoticed /\ asked' \subseteq asked /\ tracked' \subseteq tracked
    BY <1>5 DEF TaskSteps, TaskBegins, TaskCancelled, TaskSettles, RunnerEnds, TaskFails, End, histVars
  <2>3. \E to \in Coroutines : coroutine' = [coroutine EXCEPT ![c] = to]
    BY <1>5, <2>1 DEF TaskSteps, TaskBegins, TaskCancelled, TaskSettles, RunnerEnds, TaskFails, End, Coroutines
  <2>4. QED
    BY <1>1, <2>2, <2>3 DEF TasksTyped
<1>6. ASSUME NEW c \in Child, CollectorCloses(c) \/ CollectorCloseFails(c) \/ ShutdownCloses(c) \/ BootCancels(c) \/ BootCloses(c)
      PROVE  TasksTyped
  BY <1>1, <1>6 DEF CollectorCloses, CollectorCloseFails, ShutdownCloses, Enter, BootCancels, BootCloses, taskVars, histVars,
     TasksTyped
<1>7. ASSUME NEW o \in Closer, NEW c \in Child, CloseBegins(o, c) \/ CloseEnds(o, c) \/ CloseFails(o, c)
      PROVE  TasksTyped
  BY <1>1, <1>7 DEF CloseBegins, Enter, CloseEnds, CloseFails, taskVars, histVars, TasksTyped
<1>8. ASSUME NEW o \in Closer, NEW c \in Child, NEW d \in Child,
             \/ CloseLooks(o, c, d) \/ CloseWaits(o, c, d) \/ CloseTimesOut(o, c, d)
             \/ CloseSettles(o, c, d) \/ ClosePersists(o, c, d)
             \/ CloseDetaches(o, c, d) \/ CloseRechecks(o, c, d) \/ CloseRecheckFails(o, c, d)
      PROVE  TasksTyped
  <2>1. /\ coroutine' = coroutine /\ abandoned' = abandoned
        /\ unnoticed' = unnoticed \/ unnoticed' = unnoticed \cup {d}
        /\ asked' = asked \/ asked' = asked \cup {d}
        /\ tracked' = tracked \/ tracked' = tracked \ {d}
    BY <1>8, Zenon DEF CloseLooks, CloseWaits, CloseTimesOut, CloseSettles, ClosePersists, CloseDetaches,
       CloseRechecks, CloseRecheckFails, taskVars, histVars
  <2>2. QED
    BY <1>1, <2>1 DEF TasksTyped
<1>9. CASE ShutdownBegins \/ ShutdownEnds \/ Dies \/ Boots \/ BootEnds
  BY <1>1, <1>9 DEF ShutdownBegins, ShutdownEnds, Dies, Boots, BootEnds, taskVars, histVars, TasksTyped,
     Coroutines
<1>10. QED
  BY <1>2, <1>3, <1>4, <1>5, <1>6, <1>7, <1>8, <1>9, Zenon
     DEF SpawnNext, SpawnProgress, SpawnFailures, CloseProgress, Lifecycle

SpawnPlaces == {"idle", "unsure", "compensate", "discard", "recheck", "raised"}

LEMMA SpawnKeepsType ==
    ASSUME SpawnTypeOK, SpawnNext
    PROVE  spawn' \in [at : SpawnPlaces, child : Child \cup {Root}]
<1> DEFINE Typed == spawn' \in [at : SpawnPlaces, child : Child \cup {Root}]
<1>1. ASSUME spawn' = spawn \/ (\E at \in SpawnPlaces : spawn' = [spawn EXCEPT !.at = at])
             \/ (\E at \in SpawnPlaces, c \in Child \cup {Root} : spawn' = [at |-> at, child |-> c])
      PROVE  Typed
  BY <1>1 DEF SpawnTypeOK, SpawnPlaces
<1>2. ASSUME NEW c \in Child, NEW p \in Child \cup {Root},
             SpawnStarts(c, p) \/ SpawnInterrupted(c, p) \/ SpawnTaskless(c, p)
      PROVE  Typed
  BY <1>1, <1>2 DEF SpawnStarts, SpawnInterrupted, SpawnTaskless, SpawnPlaces
<1>3. CASE SpawnProgress \/ SpawnFailures \/ DiscardRecheckFails \/ SpawnReturns
  BY <1>1, <1>3 DEF SpawnProgress, SpawnFailures, SpawnReturns, Reconcile, Compensate, Discard, DiscardRechecks,
     ReconcileFails, CompensateFails, DiscardFails, DiscardRecheckFails, SpawnRaises, NoSpawn, SpawnPlaces
<1>4. CASE ReleasingStep
  BY <1>1, <1>4 DEF ReleasingStep
<1>5. CASE Dies
  BY <1>1, <1>5 DEF Dies, NoSpawn, SpawnPlaces
<1>6. QED
  BY <1>2, <1>3, <1>4, <1>5, ReleasingSteps, Zenon DEF SpawnNext, Lifecycle

LEMMA ProcessKeepsType ==
    ASSUME SpawnTypeOK, SpawnNext
    PROVE  process' \in Processes
<1> DEFINE Typed == process' \in Processes
<1>1. process \in Processes
  BY DEF SpawnTypeOK, Processes
<1>2. CASE process' = process
  BY <1>1, <1>2
<1>3. CASE ShutdownBegins
  <2>1. tracked \cup held \in SUBSET Child
    BY DEF SpawnTypeOK
  <2>2. QED
    BY <1>3, <2>1 DEF ShutdownBegins, Stopped, Processes
<1>4. CASE ShutdownEnds \/ Dies
  BY <1>4 DEF ShutdownEnds, Dies, Stopped, Processes
<1>5. CASE Boots \/ BootEnds
  BY <1>5 DEF Boots, BootEnds, Running, Processes
<1>6. ASSUME NEW c \in Child, ShutdownCloses(c)
      PROVE  Typed
  <2>1. process' = [process EXCEPT !.roots = @ \ {c}, !.rest = @ \ {c}]
    BY <1>6 DEF ShutdownCloses
  <2>2. QED
    BY <1>1, <2>1 DEF Processes
<1>7. ASSUME NEW c \in Child, BootCloses(c)
      PROVE  Typed
  <2>1. process' = [process EXCEPT !.rest = @ \ {c}]
    BY <1>7 DEF BootCloses
  <2>2. QED
    BY <1>1, <2>1 DEF Processes
<1>8. ASSUME NEW c \in Child, NEW p \in Child \cup {Root},
             SpawnStarts(c, p) \/ SpawnInterrupted(c, p) \/ SpawnTaskless(c, p)
      PROVE  process' = process
  BY <1>8, Zenon DEF SpawnStarts, SpawnInterrupted, SpawnTaskless
<1>9. ASSUME SpawnProgress \/ SpawnFailures \/ DiscardRecheckFails \/ SpawnReturns
      PROVE  process' = process
  BY <1>9, Zenon DEF SpawnProgress, SpawnFailures, SpawnReturns, Reconcile, Compensate, Discard, DiscardRechecks,
     ReconcileFails, CompensateFails, DiscardFails, DiscardRecheckFails
<1>10. ASSUME NEW c \in Child, TaskSteps(c) \/ TaskFails(c) \/ CollectorCloses(c) \/ CollectorCloseFails(c) \/ BootCancels(c)
       PROVE  process' = process
  BY <1>10, Zenon DEF TaskSteps, TaskBegins, TaskCancelled, TaskSettles, RunnerEnds, TaskFails, CollectorCloses, CollectorCloseFails,
     BootCancels
<1>11. ASSUME NEW o \in Closer, NEW c \in Child, CloseBegins(o, c) \/ CloseEnds(o, c) \/ CloseFails(o, c)
       PROVE  process' = process
  BY <1>11, Zenon DEF CloseBegins, CloseEnds, CloseFails
<1>12. ASSUME NEW o \in Closer, NEW c \in Child, NEW d \in Child,
              \/ CloseLooks(o, c, d) \/ CloseWaits(o, c, d) \/ CloseTimesOut(o, c, d)
              \/ CloseSettles(o, c, d) \/ ClosePersists(o, c, d)
              \/ CloseDetaches(o, c, d) \/ CloseRechecks(o, c, d) \/ CloseRecheckFails(o, c, d)
       PROVE  process' = process
  BY <1>12, Zenon DEF CloseLooks, CloseWaits, CloseTimesOut, CloseSettles, ClosePersists, CloseDetaches,
     CloseRechecks, CloseRecheckFails
<1>13. QED
  BY <1>2, <1>3, <1>4, <1>5, <1>6, <1>7, <1>8, <1>9, <1>10, <1>11, <1>12, Zenon
     DEF SpawnNext, CloseProgress, Lifecycle

-----------------------------------------------------------------------------
(* Calls of close_agent.                                                   *)

CallsTyped == call \in [Closer -> [Child -> Calls]]
Overwritten(o, c, k) == [call EXCEPT ![o] = [call[o] EXCEPT ![c] = k]]

LEMMA CallWritten ==
    ASSUME CallsTyped, NEW o \in Closer, NEW c \in Child, NEW k \in Calls, call' = Overwritten(o, c, k)
    PROVE  /\ CallsTyped'
           /\ call'[o][c] = k
           /\ \A p \in Closer, d \in Child : p # o \/ d # c => call'[p][d] = call[p][d]
BY DEF CallsTyped, Overwritten

\* A step of one call: it stays a call on the same subtree, what it lists gets
\* less, and unless it has failed what it dropped is closed.
MovesTo(o, c, k) ==
    LET was == call[o][c]
    IN  /\ was.at # "none" /\ k.at # "none"
        /\ k.ids = was.ids /\ k.todo \subseteq was.todo
        /\ k.ok => /\ was.ok
                   /\ \A d \in was.todo \ k.todo : lifecycle'[d] = "CLOSED"
                   /\ k.at = "end" => k.todo = {}
                   /\ k.at = "detach" => \A d \in Child : IsNext(k.todo, d) => lifecycle'[d] = "CLOSED"

Moves(o, c) ==
    /\ UNCHANGED <<path, closing>>
    /\ \E k \in Calls : call' = Overwritten(o, c, k) /\ MovesTo(o, c, k)

\* One child is done, and closed if the call has not failed.
LEMMA Advances ==
    ASSUME CallsTyped, NEW o \in Closer, NEW c \in Child, NEW d \in Child,
           call[o][c].at # "none", Advance(o, c, d),
           call[o][c].ok => lifecycle'[d] = "CLOSED"
    PROVE  \E k \in Calls : call' = Overwritten(o, c, k) /\ MovesTo(o, c, k)
<1> DEFINE was == call[o][c]
           k == [was EXCEPT !.at = IF was.todo = {d} THEN "end" ELSE "look",
                            !.todo = was.todo \ {d}, !.forced = FALSE]
<1>1. call' = Overwritten(o, c, k)
  BY DEF Advance, Overwritten, CallsTyped, Calls
<1>2. was \in Calls
  BY DEF CallsTyped
<1>3. k \in Calls
  BY <1>2 DEF Calls
<1>4. MovesTo(o, c, k)
  BY <1>2 DEF MovesTo, Calls
<1>5. QED
  BY <1>1, <1>3, <1>4

\* A step from one place to another.
LEMMA Steps ==
    ASSUME CallsTyped, NEW o \in Closer, NEW c \in Child, call[o][c].at # "none",
           NEW at \in {"wait", "settle", "persist", "recheck"}, Call(o, c, at)
    PROVE  \E k \in Calls : call' = Overwritten(o, c, k) /\ MovesTo(o, c, k)
<1> DEFINE was == call[o][c]
           k == [was EXCEPT !.at = at]
<1>1. call' = Overwritten(o, c, k)
  BY DEF Call, Overwritten, CallsTyped, Calls
<1>2. was \in Calls
  BY DEF CallsTyped
<1>3. k \in Calls
  BY <1>2 DEF Calls
<1>4. MovesTo(o, c, k)
  BY <1>2 DEF MovesTo, Calls
<1>5. QED
  BY <1>1, <1>3, <1>4

\* A step that fails.
LEMMA FailsToEnd ==
    ASSUME CallsTyped, NEW o \in Closer, NEW c \in Child, call[o][c].at # "none",
           call' = [call EXCEPT ![o][c].at = "end", ![o][c].ok = FALSE]
    PROVE  \E k \in Calls : call' = Overwritten(o, c, k) /\ MovesTo(o, c, k)
<1> DEFINE was == call[o][c]
           k == [was EXCEPT !.at = "end", !.ok = FALSE]
<1>1. call' = Overwritten(o, c, k)
  BY DEF Overwritten, CallsTyped, Calls
<1>2. was \in Calls
  BY DEF CallsTyped
<1>3. k \in Calls
  BY <1>2 DEF Calls
<1>4. MovesTo(o, c, k)
  BY <1>2 DEF MovesTo, Calls
<1>5. QED
  BY <1>1, <1>3, <1>4

\* The steps within a call.
CallStep(o, c) ==
    \/ CloseFails(o, c)
    \/ \E d \in Child : \/ CloseLooks(o, c, d) \/ CloseWaits(o, c, d) \/ CloseTimesOut(o, c, d)
                        \/ CloseSettles(o, c, d) \/ ClosePersists(o, c, d)
                        \/ CloseDetaches(o, c, d) \/ CloseRechecks(o, c, d) \/ CloseRecheckFails(o, c, d)

LEMMA CallStepsMove ==
    ASSUME SpawnTypeOK, CallsTyped, Through, NEW o \in Closer, NEW c \in Child, CallStep(o, c)
    PROVE  Moves(o, c)
<1>1. ASSUME NEW d \in Child, CloseLooks(o, c, d)
      PROVE  Moves(o, c)
  <2>1. UNCHANGED <<path, closing, lifecycle>> /\ call[o][c].at # "none"
    BY <1>1 DEF CloseLooks, registryVars
  <2>2. \/ Advance(o, c, d) /\ lifecycle[d] = "CLOSED"
        \/ Call(o, c, "wait") \/ Call(o, c, "settle")
    BY <1>1 DEF CloseLooks
  <2>3. QED
    BY <2>1, <2>2, Advances, Steps DEF Moves
<1>2. ASSUME NEW d \in Child, CloseWaits(o, c, d)
      PROVE  Moves(o, c)
  BY <1>2, Steps DEF CloseWaits, registryVars, Moves
<1>3. ASSUME NEW d \in Child, CloseTimesOut(o, c, d)
      PROVE  Moves(o, c)
  <2> DEFINE was == call[o][c]
             k == [was EXCEPT !.at = "settle", !.forced = TRUE]
  <2>1. UNCHANGED <<path, closing>> /\ call[o][c].at # "none"
    BY <1>3 DEF CloseTimesOut, registryVars
  <2>2. call' = Overwritten(o, c, k)
    BY <1>3 DEF CloseTimesOut, Overwritten, CallsTyped, Calls
  <2>3. was \in Calls
    BY DEF CallsTyped
  <2>4. k \in Calls
    BY <2>3 DEF Calls
  <2>5. MovesTo(o, c, k)
    BY <2>1, <2>3 DEF MovesTo, Calls
  <2>6. QED
    BY <2>1, <2>2, <2>4, <2>5 DEF Moves
<1>4. ASSUME NEW d \in Child, CloseSettles(o, c, d)
      PROVE  Moves(o, c)
  <2>1. UNCHANGED <<path, closing>> /\ call[o][c].at # "none"
    BY <1>4 DEF CloseSettles
  <2>2. \/ Advance(o, c, d) /\ lifecycle'[d] = "CLOSED"
        \/ Call(o, c, "persist")
    BY <1>4 DEF CloseSettles, PersistTerminal, Active
  <2>3. QED
    BY <2>1, <2>2, Advances, Steps DEF Moves
<1>5. ASSUME NEW d \in Child, ClosePersists(o, c, d)
      PROVE  Moves(o, c)
  <2>1. UNCHANGED <<path, closing>> /\ call[o][c].at = "persist" /\ lifecycle'[d] = "CLOSED"
    BY <1>5 DEF ClosePersists, CloseRow, SpawnTypeOK
  <2>2. CASE Advance(o, c, d)
    BY <2>1, <2>2, Advances DEF Moves
  <2>3. CASE Call(o, c, "detach")
    <3> DEFINE was == call[o][c]
               k == [was EXCEPT !.at = "detach"]
    <3>1. call' = Overwritten(o, c, k)
      BY <2>3 DEF Call, Overwritten, CallsTyped, Calls
    <3>2. was \in Calls
      BY DEF CallsTyped
    <3>3. k \in Calls
      BY <3>2 DEF Calls
    <3>4. \A e \in Child : IsNext(was.todo, e) => lifecycle'[e] = "CLOSED"
      BY <1>5, <2>1 DEF ClosePersists, IsNext
    <3>5. MovesTo(o, c, k)
      BY <2>1, <3>2, <3>4 DEF MovesTo, Calls
    <3>6. QED
      BY <2>1, <3>1, <3>3, <3>5 DEF Moves
  <2>4. QED
    BY <1>5, <2>2, <2>3 DEF ClosePersists
<1>6. ASSUME NEW d \in Child, CloseDetaches(o, c, d)
      PROVE  Moves(o, c)
  <2>1. UNCHANGED <<path, closing, lifecycle>> /\ call[o][c].at = "detach" /\ Advance(o, c, d)
    BY <1>6 DEF CloseDetaches, registryVars
  <2>2. call[o][c].ok => lifecycle[d] = "CLOSED"
    BY <1>6, <2>1 DEF CloseDetaches, Through, ThroughCall, Busy
  <2>3. QED
    BY <2>1, <2>2, Advances DEF Moves
<1>7. ASSUME NEW d \in Child, CloseRechecks(o, c, d)
      PROVE  Moves(o, c)
  BY <1>7, FailsToEnd DEF CloseRechecks, registryVars, Moves
<1>8. ASSUME NEW d \in Child, CloseRecheckFails(o, c, d)
      PROVE  Moves(o, c)
  BY <1>8, FailsToEnd DEF CloseRecheckFails, registryVars, Moves
<1>9. ASSUME CloseFails(o, c)
      PROVE  Moves(o, c)
  BY <1>9, FailsToEnd, Steps DEF CloseFails, Moves
<1>10. QED
  BY <1>1, <1>2, <1>3, <1>4, <1>5, <1>6, <1>7, <1>8, <1>9 DEF CallStep

-----------------------------------------------------------------------------
(* Calls stay what they are while rows are added elsewhere.                *)

LEMMA SubtreeHasRows ==
    ASSUME SpawnTypeOK, Covers, NEW o \in Closer, NEW c \in Child, Busy(o, c), NEW d \in call[o][c].ids
    PROVE  d \in Child /\ lifecycle[d] # "NONE"
<1>1. call[o][c].ids = Descendants(c) \cup {c} /\ lifecycle[c] # "NONE"
  BY DEF Covers, CoversCall
<1>2. CASE d = c
  BY <1>1, <1>2
<1>3. CASE d \in Child /\ c \in path[d]
  BY <1>3 DEF Covers
<1>4. QED
  BY <1>1, <1>2, <1>3 DEF Descendants

\* Nothing joins the subtrees that are being closed.
SubtreesStand ==
    \A o \in Closer, c \in Child : Busy(o, c) => Descendants(c)' = Descendants(c)

LEMMA InsertingSparesSubtrees ==
    ASSUME SpawnTypeOK, SpawnAssumption, Counted, Covers, NEW x \in Child, NEW p \in Child \cup {Root},
           CanSpawn(x, p), InsertRow(x, p)
    PROVE  SubtreesStand
<1> SUFFICES ASSUME NEW o \in Closer, NEW c \in Child, Busy(o, c)
             PROVE  Descendants(c)' = Descendants(c)
  BY DEF SubtreesStand
<1>1. lifecycle[c] # "NONE" /\ lifecycle[x] = "NONE" /\ path[x] = {} /\ c # x
  BY DEF Covers, CoversCall, CanSpawn
<1>2. c \notin PathOf(p)
  <2>1. SUFFICES ASSUME p # Root, c \in PathOf(p)
                 PROVE  FALSE
    BY DEF PathOf
  <2>2. closing[c] = 0
    BY <2>1 DEF CanSpawn, Admitted
  <2>3. <<o, c>> \in Closers(c)
    BY DEF Closers, Covers, CoversCall
  <2>4. Cardinality(Closers(c)) = 0 /\ IsFiniteSet(Closers(c))
    BY <2>2 DEF Counted
  <2>5. QED
    BY <2>3, <2>4, FS_EmptySet
<1>3. \A d \in Child : c \in path'[d] <=> c \in path[d]
  BY <1>1, <1>2 DEF InsertRow, SpawnTypeOK
<1>4. QED
  BY <1>3 DEF Descendants

LEMMA StandingSubtrees ==
    ASSUME UNCHANGED path
    PROVE  SubtreesStand
BY DEF SubtreesStand, Descendants

\* A call nobody touches.
LEMMA CallStands ==
    ASSUME SpawnTypeOK, Covers, Through, RowsAdvance, SubtreesStand,
           NEW o \in Closer, NEW c \in Child, call'[o][c] = call[o][c]
    PROVE  CoversCall(o, c)' /\ ThroughCall(o, c)'
<1> SUFFICES ASSUME Busy(o, c)
             PROVE  CoversCall(o, c)' /\ ThroughCall(o, c)'
  BY DEF CoversCall, ThroughCall, Busy
<1> DEFINE k == call[o][c]
<1>1. k' = k
  OBVIOUS
<1>2. k.ids = Descendants(c) \cup {c} /\ k.todo \subseteq k.ids /\ lifecycle[c] # "NONE"
  BY DEF Covers, CoversCall
<1>3. \A d \in k.ids : d \in Child /\ lifecycle[d] # "NONE" /\ path'[d] = path[d]
  BY SubtreeHasRows DEF RowsAdvance, RowAdvances
<1>4. CoversCall(o, c)'
  BY <1>1, <1>2, <1>3 DEF CoversCall, SubtreesStand, RowsAdvance, RowAdvances
<1>5. ASSUME NEW d \in Child, IsNext(k.todo, d)'
      PROVE  IsNext(k.todo, d)
  <2>1. Deepest(k.todo)' = Deepest(k.todo)
    BY <1>1, <1>2, <1>3 DEF Deepest
  <2>2. QED
    BY <1>5, <2>1 DEF IsNext
<1>6. \A d \in Child : lifecycle[d] = "CLOSED" => lifecycle'[d] = "CLOSED"
  BY DEF RowsAdvance, RowAdvances
<1>7. ThroughCall(o, c)'
  BY <1>1, <1>3, <1>5, <1>6 DEF Through, ThroughCall, Busy
<1>8. QED
  BY <1>4, <1>7

-----------------------------------------------------------------------------
(* Every step keeps the calls.                                             *)

CallsKept ==
    CallsTyped' /\ closing' \in [Child -> Int] /\ Counted' /\ Covers' /\ Through'

CallsInv == SpawnTypeOK /\ CallsTyped /\ Counted /\ Covers /\ Through

LEMMA PathsOfRows ==
    ASSUME SpawnTypeOK, Covers, RowsAdvance, UNCHANGED path
    PROVE  (\A d \in Child : lifecycle[d] = "NONE" => path[d] = {})'
BY DEF Covers, RowsAdvance, RowAdvances

LEMMA NobodyTouches ==
    ASSUME CallsInv, RowsAdvance, SubtreesStand, UNCHANGED <<call, closing>>,
           (\A d \in Child : lifecycle[d] = "NONE" => path[d] = {})'
    PROVE  CallsKept
<1>1. \A d \in Child : Closers(d)' = Closers(d)
  BY DEF Closers, Busy
<1>2. Counted'
  BY <1>1 DEF CallsInv, Counted
<1>3. \A o \in Closer, c \in Child : CoversCall(o, c)' /\ ThroughCall(o, c)'
  BY CallStands DEF CallsInv
<1>4. QED
  BY <1>2, <1>3 DEF CallsKept, CallsInv, CallsTyped, SpawnTypeOK, Covers, Through

LEMMA MovingKeeps ==
    ASSUME CallsInv, RowsAdvance, NEW o \in Closer, NEW c \in Child, Moves(o, c)
    PROVE  CallsKept
<1>1. UNCHANGED <<path, closing>> /\ SubtreesStand
  BY StandingSubtrees DEF Moves
<1>2. PICK k \in Calls : call' = Overwritten(o, c, k) /\ MovesTo(o, c, k)
  BY DEF Moves
<1>3. /\ CallsTyped' /\ call'[o][c] = k
      /\ \A p \in Closer, d \in Child : p # o \/ d # c => call'[p][d] = call[p][d]
  BY <1>2, CallWritten DEF CallsInv
<1>4. \A p \in Closer, d \in Child : (Busy(p, d)' <=> Busy(p, d)) /\ call'[p][d].ids = call[p][d].ids
  BY <1>2, <1>3 DEF MovesTo, Busy
<1>5. \A d \in Child : Closers(d)' = Closers(d)
  BY <1>4 DEF Closers
<1>6. Counted'
  BY <1>1, <1>5 DEF CallsInv, Counted
<1>7. \A p \in Closer, d \in Child : p # o \/ d # c => CoversCall(p, d)' /\ ThroughCall(p, d)'
  BY <1>1, <1>3, CallStands DEF CallsInv
<1>8. Busy(o, c) /\ CoversCall(o, c) /\ ThroughCall(o, c)
  BY <1>2 DEF CallsInv, Covers, Through, MovesTo, Busy
<1>9. CoversCall(o, c)'
  <2>1. lifecycle'[c] # "NONE" /\ Descendants(c)' = Descendants(c)
    BY <1>1, <1>8 DEF CoversCall, SubtreesStand, RowsAdvance, RowAdvances
  <2>2. QED
    BY <1>2, <1>3, <1>8, <2>1 DEF CoversCall, MovesTo
<1>10. ThroughCall(o, c)'
  <2>1. SUFFICES ASSUME k.ok
                 PROVE  ThroughCall(o, c)'
    BY <1>3 DEF ThroughCall
  <2>2. \A d \in k.ids \ k.todo : lifecycle'[d] = "CLOSED"
    <3>1. SUFFICES ASSUME NEW d \in k.ids \ k.todo
                   PROVE  lifecycle'[d] = "CLOSED"
      OBVIOUS
    <3>2. d \in Child /\ k.ids = call[o][c].ids
      BY <1>2 DEF Calls, MovesTo
    <3>3. CASE d \in call[o][c].todo
      BY <1>2, <2>1, <3>3 DEF MovesTo
    <3>4. CASE d \notin call[o][c].todo
      BY <1>2, <1>8, <2>1, <3>2, <3>4 DEF MovesTo, ThroughCall, RowsAdvance, RowAdvances
    <3>5. QED
      BY <3>3, <3>4
  <2>3. k.at = "end" => k.todo = {}
    BY <1>2, <2>1 DEF MovesTo
  <2>4. ASSUME k.at = "detach", NEW d \in Child, IsNext(call[o][c].todo, d)'
        PROVE  lifecycle'[d] = "CLOSED"
    <3>1. Deepest(call[o][c].todo)' = Deepest(k.todo)
      BY <1>1, <1>3 DEF Deepest
    <3>2. IsNext(k.todo, d)
      BY <2>4, <3>1 DEF IsNext
    <3>3. QED
      BY <1>2, <2>1, <2>4, <3>2 DEF MovesTo
  <2>5. QED
    BY <1>3, <2>2, <2>3, <2>4 DEF ThroughCall
<1>11. QED
  BY <1>1, <1>3, <1>6, <1>7, <1>9, <1>10, PathsOfRows DEF CallsKept, CallsInv, SpawnTypeOK, Covers, Through

LEMMA EnteringKeeps ==
    ASSUME CallsInv, NEW o \in Closer, NEW c \in Child, Enter(o, c)
    PROVE  CallsKept
<1> DEFINE ids == Descendants(c) \cup {c}
           k == [at |-> "look", ids |-> ids, todo |-> ids, forced |-> FALSE, ok |-> TRUE]
<1>1. /\ UNCHANGED <<path, lifecycle>> /\ ~Busy(o, c) /\ lifecycle[c] # "NONE"
      /\ closing' = [d \in Child |-> closing[d] + IF d \in ids THEN 1 ELSE 0]
  BY DEF Enter, Busy, registryVars
<1>2. k \in Calls
  BY DEF Calls, Descendants
<1>3. call' = Overwritten(o, c, k)
  BY DEF Enter, Overwritten, CallsInv, CallsTyped
<1>4. /\ CallsTyped' /\ call'[o][c] = k
      /\ \A p \in Closer, d \in Child : p # o \/ d # c => call'[p][d] = call[p][d]
  BY <1>2, <1>3, CallWritten DEF CallsInv
<1>5. k.at = "look" /\ k.ids = ids /\ k.todo = ids
  OBVIOUS
<1> HIDE DEF k
<1>6. SubtreesStand /\ RowsAdvance
  BY <1>1, StandingSubtrees DEF Enter, registryVars, RowsAdvance, RowAdvances, CallsInv, SpawnTypeOK, Terminal
<1>7. ASSUME NEW d \in Child
      PROVE  IsFiniteSet(Closers(d)') /\ closing'[d] = Cardinality(Closers(d)')
  <2>1. IsFiniteSet(Closers(d)) /\ closing[d] = Cardinality(Closers(d)) /\ <<o, c>> \notin Closers(d)
    BY <1>1 DEF CallsInv, Counted, Closers
  <2>2. CASE d \in ids
    <3>1. Closers(d)' = Closers(d) \cup {<<o, c>>}
      BY <1>1, <1>4, <1>5, <2>2 DEF Closers, Busy
    <3>2. closing'[d] = closing[d] + 1
      BY <1>1, <2>2
    <3>3. QED
      BY <2>1, <3>1, <3>2, FS_AddElement
  <2>3. CASE d \notin ids
    <3>1. Closers(d)' = Closers(d)
      BY <1>1, <1>4, <1>5, <2>3 DEF Closers, Busy
    <3>2. closing'[d] = closing[d]
      BY <1>1, <2>3 DEF CallsInv, SpawnTypeOK
    <3>3. QED
      BY <2>1, <3>1, <3>2
  <2>4. QED
    BY <2>2, <2>3
<1>8. closing' \in [Child -> Int] /\ Counted'
  BY <1>1, <1>7 DEF CallsInv, SpawnTypeOK, Counted
<1>9. \A p \in Closer, d \in Child : p # o \/ d # c => CoversCall(p, d)' /\ ThroughCall(p, d)'
  BY <1>4, <1>6, CallStands DEF CallsInv
<1>10. CoversCall(o, c)' /\ ThroughCall(o, c)'
  BY <1>1, <1>4, <1>5 DEF CoversCall, ThroughCall, Descendants
<1>11. QED
  BY <1>1, <1>4, <1>6, <1>8, <1>9, <1>10, PathsOfRows DEF CallsKept, CallsInv, Covers, Through

LEMMA EndingKeeps ==
    ASSUME CallsInv, NEW o \in Closer, NEW c \in Child, CloseEnds(o, c)
    PROVE  CallsKept
<1> DEFINE k == [NoCall EXCEPT !.ok = call[o][c].ok]
<1>1. /\ UNCHANGED <<path, lifecycle>> /\ Busy(o, c)
      /\ closing' = [d \in Child |-> closing[d] - IF d \in call[o][c].ids THEN 1 ELSE 0]
  BY DEF CloseEnds, Busy, registryVars
<1>2. k \in Calls /\ k.at = "none"
  <2>1. NoCall \in Calls /\ NoCall.at = "none" /\ call[o][c] \in Calls
    BY DEF NoCall, Calls, CallsInv, CallsTyped
  <2>2. QED
    BY <2>1 DEF Calls
<1>3. call' = Overwritten(o, c, k)
  BY DEF CloseEnds, Overwritten
<1>4. /\ CallsTyped' /\ call'[o][c] = k
      /\ \A p \in Closer, d \in Child : p # o \/ d # c => call'[p][d] = call[p][d]
  BY <1>2, <1>3, CallWritten DEF CallsInv
<1>5. ~Busy(o, c)'
  BY <1>2, <1>4 DEF Busy
<1> HIDE DEF k
<1>6. SubtreesStand /\ RowsAdvance
  BY <1>1, StandingSubtrees DEF CloseEnds, registryVars, RowsAdvance, RowAdvances, CallsInv, SpawnTypeOK, Terminal
<1>7. ASSUME NEW d \in Child
      PROVE  IsFiniteSet(Closers(d)') /\ closing'[d] = Cardinality(Closers(d)')
  <2>1. IsFiniteSet(Closers(d)) /\ closing[d] = Cardinality(Closers(d))
    BY DEF CallsInv, Counted
  <2>2. CASE d \in call[o][c].ids
    <3>1. <<o, c>> \in Closers(d) /\ Closers(d)' = Closers(d) \ {<<o, c>>}
      BY <1>1, <1>4, <1>5, <2>2 DEF Closers, Busy
    <3>2. closing'[d] = closing[d] - 1
      BY <1>1, <2>2
    <3>3. QED
      BY <2>1, <3>1, <3>2, FS_RemoveElement
  <2>3. CASE d \notin call[o][c].ids
    <3>1. Closers(d)' = Closers(d)
      BY <1>1, <1>4, <1>5, <2>3 DEF Closers, Busy
    <3>2. closing'[d] = closing[d]
      BY <1>1, <2>3 DEF CallsInv, SpawnTypeOK
    <3>3. QED
      BY <2>1, <3>1, <3>2
  <2>4. QED
    BY <2>2, <2>3
<1>8. closing' \in [Child -> Int] /\ Counted'
  BY <1>1, <1>7 DEF CallsInv, SpawnTypeOK, Counted
<1>9. \A p \in Closer, d \in Child : p # o \/ d # c => CoversCall(p, d)' /\ ThroughCall(p, d)'
  BY <1>4, <1>6, CallStands DEF CallsInv
<1>10. CoversCall(o, c)' /\ ThroughCall(o, c)'
  BY <1>5 DEF CoversCall, ThroughCall
<1>11. QED
  BY <1>1, <1>4, <1>6, <1>8, <1>9, <1>10, PathsOfRows DEF CallsKept, CallsInv, Covers, Through

LEMMA DyingKeeps ==
    ASSUME CallsInv, Dies
    PROVE  CallsKept
<1>1. /\ UNCHANGED <<path, lifecycle>> /\ closing' = [d \in Child |-> 0]
      /\ call' = [o \in Closer |-> [c \in Child |-> NoCall]]
  BY DEF Dies, registryVars
<1>2. NoCall \in Calls /\ NoCall.at = "none"
  BY DEF NoCall, Calls
<1>3. CallsTyped' /\ \A o \in Closer, c \in Child : ~Busy(o, c)'
  BY <1>1, <1>2 DEF CallsTyped, Busy
<1>4. \A d \in Child : Closers(d)' = {}
  BY <1>3 DEF Closers
<1>5. closing' \in [Child -> Int] /\ Counted'
  BY <1>1, <1>4, FS_EmptySet DEF Counted
<1>6. QED
  BY <1>1, <1>3, <1>5 DEF CallsKept, CallsInv, Covers, CoversCall, Through, ThroughCall

\* Every step but those of spawn_agent that take a slot, and death.
Manages ==
    \/ SpawnProgress \/ SpawnFailures \/ DiscardRecheckFails \/ SpawnReturns
    \/ \E c \in Child : \/ TaskSteps(c) \/ TaskFails(c)
                        \/ CollectorCloses(c) \/ CollectorCloseFails(c) \/ ShutdownCloses(c) \/ BootCancels(c) \/ BootCloses(c)
    \/ \E o \in Closer, c \in Child :
          \/ CloseBegins(o, c) \/ CloseProgress(o, c) \/ CloseFails(o, c)
          \/ \E d \in Child : CloseTimesOut(o, c, d) \/ CloseRecheckFails(o, c, d)
    \/ ShutdownBegins \/ ShutdownEnds \/ Boots \/ BootEnds

\* What a step does to the calls.
CallsMove ==
    \/ UNCHANGED <<call, closing, path>>
    \/ \E o \in Closer, c \in Child : CallStep(o, c) \/ Enter(o, c) \/ CloseEnds(o, c)

CallsSplit ==
    \/ CallsMove
    \/ \E c \in Child, p \in Child \cup {Root} :
          SpawnStarts(c, p) \/ SpawnInterrupted(c, p) \/ SpawnTaskless(c, p)
    \/ Dies

LEMMA CallsWhenManaging == Manages => CallsMove
<1>1. ASSUME SpawnProgress \/ SpawnFailures \/ DiscardRecheckFails \/ SpawnReturns
      PROVE  CallsMove
  BY <1>1, Zenon DEF SpawnProgress, SpawnFailures, SpawnReturns, Reconcile, Compensate, Discard, DiscardRechecks,
     ReconcileFails, CompensateFails, DiscardFails, DiscardRecheckFails, registryVars, CallsMove
<1>2. ASSUME NEW c \in Child, TaskSteps(c) \/ TaskFails(c) \/ CollectorCloses(c) \/ CollectorCloseFails(c) \/ BootCancels(c) \/ BootCloses(c)
      PROVE  CallsMove
  BY <1>2, Zenon DEF TaskSteps, TaskBegins, TaskCancelled, TaskSettles, RunnerEnds, TaskFails, CollectorCloses, CollectorCloseFails,
     BootCancels, BootCloses, registryVars, CallsMove
<1>3. ASSUME ShutdownBegins \/ ShutdownEnds \/ Boots \/ BootEnds
      PROVE  CallsMove
  BY <1>3, Zenon DEF ShutdownBegins, ShutdownEnds, Boots, BootEnds, registryVars, CallsMove
<1>4. ASSUME NEW c \in Child, ShutdownCloses(c)
      PROVE  CallsMove
  BY <1>4, SpawnAssumption, Zenon DEF ShutdownCloses, CallsMove
<1>5. ASSUME NEW o \in Closer, NEW c \in Child,
             \/ CloseBegins(o, c) \/ CloseProgress(o, c) \/ CloseFails(o, c)
             \/ \E d \in Child : CloseTimesOut(o, c, d) \/ CloseRecheckFails(o, c, d)
      PROVE  CallsMove
  BY <1>5, Zenon DEF CloseBegins, CloseProgress, CallStep, CallsMove
<1>6. QED
  BY <1>1, <1>2, <1>3, <1>4, <1>5, Zenon DEF Manages

LEMMA StepsOfCalls == SpawnNext => CallsSplit
BY CallsWhenManaging, Zenon DEF SpawnNext, Lifecycle, Manages, CallsSplit

LEMMA TypedCalls == SpawnTypeOK => CallsTyped
BY DEF SpawnTypeOK, CallsTyped, Calls

LEMMA CallsKeep ==
    ASSUME SpawnInv, SpawnNext
    PROVE  CallsKept
<1>1. CallsInv /\ RowsAdvance
  BY TypedCalls, RowsMove DEF SpawnInv, CallsInv
<1>2. CASE UNCHANGED <<call, closing, path>>
  BY <1>1, <1>2, StandingSubtrees, NobodyTouches, PathsOfRows DEF CallsInv
<1>3. ASSUME NEW c \in Child, NEW p \in Child \cup {Root},
             SpawnStarts(c, p) \/ SpawnInterrupted(c, p) \/ SpawnTaskless(c, p)
      PROVE  CallsKept
  <2>1. CanSpawn(c, p) /\ UNCHANGED <<call, closing>>
    BY <1>3, Zenon DEF SpawnStarts, SpawnInterrupted, SpawnTaskless
  <2>2. CASE InsertRow(c, p)
    <3>1. SubtreesStand
      BY <1>1, <2>1, <2>2, SpawnAssumption, InsertingSparesSubtrees DEF CallsInv
    <3>2. lifecycle'[c] = "SPAWNING" /\ \A d \in Child \ {c} : lifecycle'[d] = lifecycle[d] /\ path'[d] = path[d]
      BY <1>1, <2>2 DEF InsertRow, CallsInv, SpawnTypeOK
    <3>3. (\A d \in Child : lifecycle[d] = "NONE" => path[d] = {})'
      BY <1>1, <3>2 DEF CallsInv, Covers
    <3>4. QED
      BY <1>1, <2>1, <3>1, <3>3, NobodyTouches
  <2>3. CASE UNCHANGED <<lifecycle, path>>
    BY <1>1, <2>1, <2>3, StandingSubtrees, NobodyTouches, PathsOfRows DEF CallsInv
  <2>4. QED
    BY <1>3, <2>2, <2>3, Zenon DEF SpawnStarts, SpawnInterrupted, SpawnTaskless
<1>4. ASSUME NEW o \in Closer, NEW c \in Child, CallStep(o, c) \/ Enter(o, c) \/ CloseEnds(o, c)
      PROVE  CallsKept
  BY <1>1, <1>4, CallStepsMove, MovingKeeps, EnteringKeeps, EndingKeeps DEF CallsInv
<1>5. CASE Dies
  BY <1>1, <1>5, DyingKeeps
<1>6. QED
  BY <1>2, <1>3, <1>4, <1>5, StepsOfCalls DEF CallsSplit, CallsMove

-----------------------------------------------------------------------------
(* The invariant.                                                          *)

LEMMA SpawnInvInit == SpawnInit => SpawnInv
<1> SUFFICES ASSUME SpawnInit
             PROVE  SpawnInv
  OBVIOUS
<1>1. Cardinality({}) = 0 /\ IsFiniteSet({})
  BY FS_EmptySet
<1>2. \A o \in Closer, c \in Child : ~Busy(o, c)
  BY DEF SpawnInit, NoCall, Busy
<1>3. \A d \in Child : Closers(d) = {}
  BY <1>2 DEF Closers
<1>4. SpawnTypeOK
  BY SpawnAssumption DEF SpawnInit, SpawnTypeOK, Status, Active, Terminal, NoSpawn, NoCall, Running
<1>5. SlotLedger /\ SpawnOwns
  BY <1>1, SpawnAssumption DEF SpawnInit, SlotLedger, SlotsAccounted, SpawnOwns, NoSpawn
<1>6. Counted
  BY <1>1, <1>3 DEF SpawnInit, Counted
<1>7. Covers /\ Through
  BY <1>2 DEF SpawnInit, Covers, CoversCall, Through, ThroughCall
<1>8. QED
  BY <1>4, <1>5, <1>6, <1>7 DEF SpawnInv

LEMMA SpawnInvStep == SpawnInv /\ [SpawnNext]_spawnVars => SpawnInv'
<1> SUFFICES ASSUME SpawnInv, [SpawnNext]_spawnVars
             PROVE  SpawnInv'
  OBVIOUS
<1>1. CASE SpawnNext
  <2>1. RowsAdvance /\ Balanced /\ TasksTyped /\ CallsKept
    BY <1>1, RowsMove, SlotsBalance, TasksKeepTypes, CallsKeep DEF SpawnInv
  <2>2. spawn' \in [at : SpawnPlaces, child : Child \cup {Root}] /\ process' \in Processes
    BY <1>1, SpawnKeepsType, ProcessKeepsType DEF SpawnInv
  <2>3. SpawnTypeOK'
    BY <2>1, <2>2 DEF SpawnTypeOK, RowsAdvance, Balanced, TasksTyped, CallsKept, CallsTyped, Calls, Processes,
       SpawnPlaces, Coroutines
  <2>4. QED
    BY <2>1, <2>3 DEF SpawnInv, Balanced, CallsKept
<1>2. CASE UNCHANGED spawnVars
  <2>1. SpawnTypeOK' /\ SlotLedger' /\ SpawnOwns'
    BY <1>2 DEF spawnVars, registryVars, slotVars, taskVars, histVars, SpawnInv, SpawnTypeOK, SlotLedger,
       SlotsAccounted, SpawnOwns
  <2>2. UNCHANGED <<call, closing, path, lifecycle, detached>>
    BY <1>2 DEF spawnVars, registryVars
  <2>3. RowsAdvance /\ CallsInv
    BY <2>2, TypedCalls DEF RowsAdvance, RowAdvances, SpawnInv, CallsInv, SpawnTypeOK, Terminal
  <2>4. CallsKept
    BY <2>2, <2>3, StandingSubtrees, NobodyTouches, PathsOfRows DEF CallsInv
  <2>5. QED
    BY <2>1, <2>4 DEF SpawnInv, CallsKept
<1>3. QED
  BY <1>1, <1>2

\* The invariant holds in every reachable state of the manager: it is what the
\* theorems below follow from.
THEOREM SpawnInvariant == SpawnSpec => []SpawnInv
<1>1. SpawnInit => SpawnInv
  BY SpawnInvInit
<1>2. SpawnInv /\ [SpawnNext]_spawnVars => SpawnInv'
  BY SpawnInvStep
<1>3. QED
  BY <1>1, <1>2, PTL DEF SpawnSpec

\* The manager's state has its types, for any number of children and callers.
THEOREM SpawnTypes == SpawnSpec => []SpawnTypeOK
<1>1. SpawnInv => SpawnTypeOK
  BY DEF SpawnInv
<1>2. QED
  BY <1>1, SpawnInvariant, PTL

\* No concurrency slot leaks and none is given back twice (manager.py:335 and
\* the places that release), whatever spawns, closes and collections race.
THEOREM SlotsAreAccounted == SpawnSpec => []SlotsAccounted
<1>1. SpawnInv => SlotsAccounted
  BY DEF SpawnInv, SlotLedger
<1>2. QED
  BY <1>1, SpawnInvariant, PTL

\* A row only moves on (crud/agent_registry.py:16-24), across restarts too.
THEOREM RowsOnlyAdvance == SpawnSpec => LifecycleOnlyAdvances
<1>1. SpawnInv /\ [SpawnNext]_spawnVars =>
        [\A c \in Child :
            /\ lifecycle[c] = "CLOSED" => lifecycle'[c] = "CLOSED"
            /\ lifecycle[c] \in Terminal => lifecycle'[c] \in {lifecycle[c], "CLOSED"}
            /\ lifecycle[c] = "RUNNING" => lifecycle'[c] # "SPAWNING"]_spawnVars
  BY RowsMove DEF SpawnInv, RowsAdvance, RowAdvances
<1>2. QED
  BY <1>1, SpawnInvariant, PTL DEF SpawnSpec, LifecycleOnlyAdvances

\* A close_agent that returns leaves no descendant open (manager.py:741-776),
\* however its subtree was spawning when it was called.
THEOREM ClosesAreDeep == SpawnSpec => CloseIsDeep
<1>1. SpawnInv /\ [SpawnNext]_spawnVars =>
        [\A o \in Closer, c \in Child :
            CloseEnds(o, c) /\ call[o][c].ok =>
                \A d \in Descendants(c) \cup {c} : lifecycle[d] = "CLOSED"]_spawnVars
  <2> SUFFICES ASSUME SpawnInv, NEW o \in Closer, NEW c \in Child, CloseEnds(o, c), call[o][c].ok
               PROVE  \A d \in Descendants(c) \cup {c} : lifecycle[d] = "CLOSED"
    OBVIOUS
  <2>1. Busy(o, c) /\ call[o][c].at = "end"
    BY DEF CloseEnds, Busy
  <2>2. CoversCall(o, c) /\ ThroughCall(o, c)
    BY DEF SpawnInv, Covers, Through
  <2>3. QED
    BY <2>1, <2>2 DEF CoversCall, ThroughCall
<1>2. QED
  BY <1>1, SpawnInvariant, PTL DEF SpawnSpec, CloseIsDeep

-----------------------------------------------------------------------------
(* Slots and rows.  RowsInv is inductive beside SpawnInv: a coroutine that *)
(* may work is covered by a slot unless its row was closed, and a closed   *)
(* row that still holds a slot has somebody who will give it back, whom    *)
(* Pending names exactly.                                                  *)

Works(c) == coroutine[c] \in {"new", "running"}
WorkersCovered ==
    \A c \in Child : Works(c) => lifecycle[c] = "CLOSED" \/ (c \in held /\ c \in tracked)

\* The call rechecks whether its close of c took effect.
Rechecks(o, d, c) == call[o][d].at = "recheck" /\ IsNext(call[o][d].todo, c)
Pending(c) ==
    \/ spawn.child = c \/ c \in abandoned \/ c \in unnoticed
    \/ \E o \in Closer, d \in Child : Rechecks(o, d, c)
ClosedPending == \A c \in held : lifecycle[c] = "CLOSED" => Pending(c)

Rests ==
    /\ spawn.at \in {"idle", "raised"} => spawn.child = Root
    /\ process.at \in {"down", "booting"} => held = {}
    /\ \A o \in Closer, c \in Child : call[o][c].at \notin {"none", "end"} => call[o][c].ok

RowsInv == WorkersCovered /\ ClosedPending /\ Rests

LEMMA RowsInvInit == SpawnInit => RowsInv
BY DEF SpawnInit, RowsInv, WorkersCovered, Works, ClosedPending, Rests, NoSpawn, NoCall

\* A call nobody touches rechecks the same child, whatever rows are added.
LEMMA RecheckStands ==
    ASSUME SpawnTypeOK, Covers, RowsAdvance, NEW o \in Closer, NEW d \in Child,
           call'[o][d] = call[o][d], NEW c \in Child, Rechecks(o, d, c)
    PROVE  Rechecks(o, d, c)'
<1> DEFINE k == call[o][d]
<1>1. Busy(o, d) /\ k' = k /\ k.todo \subseteq k.ids
  BY DEF Rechecks, Busy, Covers, CoversCall
<1>2. \A e \in k.ids : e \in Child /\ path'[e] = path[e]
  BY <1>1, SubtreeHasRows DEF RowsAdvance, RowAdvances
<1>3. Deepest(k.todo)' = Deepest(k.todo)
  BY <1>1, <1>2 DEF Deepest
<1>4. IsNext(k.todo, c)'
  BY <1>3 DEF Rechecks, IsNext
<1>5. QED
  BY <1>1, <1>4 DEF Rechecks

\* Steps that leave the calls, or all but calls that recheck nothing.
CallsStand ==
    \A o \in Closer, d \in Child : call[o][d].at = "recheck" => call'[o][d] = call[o][d]

LEMMA PendingStands ==
    ASSUME SpawnTypeOK, Covers, RowsAdvance, CallsStand, NEW c \in Child, Pending(c),
           spawn'.child = spawn.child \/ spawn.child # c, abandoned \subseteq abandoned',
           unnoticed \subseteq unnoticed'
    PROVE  Pending(c)'
BY RecheckStands DEF Pending, CallsStand, Rechecks

\* What a step must do for the invariant to stay.
WorkersKept ==
    \A c \in Child : Works(c)' =>
        \/ Works(c) /\ (c \in held => c \in held' \/ lifecycle'[c] = "CLOSED")
                    /\ (c \in tracked => c \in tracked' \/ lifecycle'[c] = "CLOSED")
        \/ c \in held' /\ c \in tracked'

LEMMA WorkersStayCovered ==
    ASSUME WorkersCovered, RowsAdvance, WorkersKept
    PROVE  WorkersCovered'
BY DEF WorkersCovered, WorkersKept, RowsAdvance, RowAdvances

CallsOk == \A o \in Closer, c \in Child : call[o][c].at \notin {"none", "end"} => call[o][c].ok

\* Steps that neither close rows nor take slots, and leave the others' witnesses.
LEMMA QuietRowsInv ==
    ASSUME SpawnInv, RowsInv, RowsAdvance, WorkersKept, CallsStand, CallsOk',
           UNCHANGED <<held, spawn, abandoned>>, unnoticed \subseteq unnoticed',
           \A c \in Child : lifecycle'[c] = "CLOSED" => lifecycle[c] = "CLOSED",
           process'.at \in {"down", "booting"} => process.at \in {"down", "booting"}
    PROVE  RowsInv'
<1>1. WorkersCovered'
  BY WorkersStayCovered DEF RowsInv
<1>2. ClosedPending'
  <2> SUFFICES ASSUME NEW c \in held, lifecycle'[c] = "CLOSED"
               PROVE  Pending(c)'
    BY DEF ClosedPending
  <2>1. c \in Child /\ Pending(c)
    BY DEF SpawnInv, SpawnTypeOK, RowsInv, ClosedPending
  <2>2. QED
    BY <2>1, PendingStands DEF SpawnInv
<1>3. Rests'
  BY DEF RowsInv, Rests, CallsOk
<1>4. QED
  BY <1>1, <1>2, <1>3 DEF RowsInv

\* A closed row that gives its slot back, in a step that closes no other.
LEMMA ReleasingRowsInv ==
    ASSUME SpawnInv, RowsInv, RowsAdvance, WorkersKept, CallsOk', NEW c \in Child,
           lifecycle'[c] = "CLOSED", ReleaseOwned(c),
           \A d \in Child \ {c} : /\ lifecycle'[d] = "CLOSED" => lifecycle[d] = "CLOSED"
                                  /\ Pending(d) => Pending(d)',
           spawn'.at \in {"idle", "raised"} => spawn'.child = Root,
           UNCHANGED process
    PROVE  RowsInv'
<1>1. WorkersCovered'
  BY WorkersStayCovered DEF RowsInv
<1>2. held' \subseteq held /\ c \notin held'
  BY DEF ReleaseOwned, slotVars
<1>3. ClosedPending'
  BY <1>2 DEF ClosedPending, RowsInv, SpawnInv, SpawnTypeOK
<1>4. Rests'
  BY <1>2 DEF RowsInv, Rests, CallsOk
<1>5. QED
  BY <1>1, <1>3, <1>4 DEF RowsInv

\* What ReleaseOwned does to those who work.
LEMMA ReleasingKeepsWorkers ==
    ASSUME NEW c \in Child, ReleaseOwned(c), lifecycle'[c] = "CLOSED",
           UNCHANGED <<coroutine, tracked>>
    PROVE  WorkersKept
BY DEF ReleaseOwned, slotVars, WorkersKept, Works


\* A spawn.
LEMMA SpawnsRowsInv ==
    ASSUME SpawnInv, RowsInv, RowsAdvance, NEW c \in Child, NEW p \in Child \cup {Root},
           SpawnStarts(c, p) \/ SpawnInterrupted(c, p) \/ SpawnTaskless(c, p)
    PROVE  RowsInv'
<1>1. /\ spawn.at = "idle" /\ lifecycle[c] = "NONE" /\ c \notin held /\ process.at \in {"up", "stopping"}
      /\ UNCHANGED <<call, process, histVars>> /\ UNCHANGED detached
      /\ held' \in {held, held \cup {c}}
      /\ \A d \in Child \ {c} : lifecycle'[d] = lifecycle[d]
  BY DEF SpawnStarts, SpawnInterrupted, SpawnTaskless, CanSpawn, Alive, InsertRow, SpawnInv,
     SpawnOwns, SpawnTypeOK
<1>2. lifecycle'[c] # "CLOSED"
  BY <1>1 DEF SpawnStarts, SpawnInterrupted, SpawnTaskless, InsertRow, SpawnInv, SpawnTypeOK
<1>3. spawn'.at \in {"idle", "raised"} => spawn'.child = Root
  BY <1>1 DEF SpawnStarts, SpawnInterrupted, SpawnTaskless, RowsInv, Rests
<1>4. WorkersKept
  <2>1. CASE SpawnStarts(c, p)
    BY <2>1 DEF SpawnStarts, WorkersKept, Works, SpawnInv, SpawnTypeOK
  <2>2. CASE SpawnInterrupted(c, p) \/ SpawnTaskless(c, p)
    BY <1>1, <2>2 DEF SpawnInterrupted, SpawnTaskless, WorkersKept, Works, taskVars
  <2>3. QED
    BY <2>1, <2>2
<1>5. WorkersCovered'
  BY <1>4, WorkersStayCovered DEF RowsInv
<1>6. ClosedPending'
  <2> SUFFICES ASSUME NEW d \in held', lifecycle'[d] = "CLOSED"
               PROVE  Pending(d)'
    BY DEF ClosedPending
  <2>1. d \in held /\ d \in Child /\ lifecycle[d] = "CLOSED" /\ Pending(d)
    BY <1>1, <1>2 DEF SpawnInv, SpawnTypeOK, RowsInv, ClosedPending
  <2>2. spawn.child # d
    BY <1>1, <2>1, SpawnAssumption DEF RowsInv, Rests
  <2>3. QED
    BY <1>1, <2>1, <2>2, PendingStands DEF CallsStand, SpawnInv, histVars
<1>7. Rests'
  BY <1>1, <1>3 DEF RowsInv, Rests
<1>8. QED
  BY <1>5, <1>6, <1>7 DEF RowsInv

\* Its reconciliation, compensation and end.
LEMMA SpawnEndsRowsInv ==
    ASSUME SpawnInv, RowsInv, RowsAdvance, SpawnProgress \/ SpawnFailures \/ DiscardRecheckFails \/ SpawnReturns
    PROVE  RowsInv'
<1>. PICK c : c = spawn.child
  OBVIOUS
<1>1. /\ UNCHANGED <<call, process, taskVars>> /\ abandoned \subseteq abandoned' /\ unnoticed' = unnoticed
      /\ process.at \in {"up", "stopping"}
  BY DEF SpawnProgress, SpawnFailures, SpawnReturns, Reconcile, Compensate, Discard, DiscardRechecks,
     ReconcileFails, CompensateFails, DiscardFails, DiscardRecheckFails, Alive, histVars
<1>2. /\ spawn.at \in {"unsure", "compensate", "discard", "recheck"} => c \in Child
      /\ spawn.at = "raised" => c = Root
  BY DEF SpawnInv, SpawnOwns, RowsInv, Rests
<1>3. spawn' = [at |-> "raised", child |-> Root] \/ spawn' = NoSpawn
      \/ (spawn'.child = c /\ spawn'.at \in {"compensate", "discard", "recheck"})
  BY DEF SpawnProgress, SpawnFailures, SpawnReturns, Reconcile, Compensate, Discard, DiscardRechecks,
     ReconcileFails, CompensateFails, DiscardFails, DiscardRecheckFails, SpawnRaises, SpawnInv, SpawnTypeOK
<1>4. \/ UNCHANGED held
      \/ Reconcile /\ held' = held \cup {c} /\ spawn'.child = c
      \/ ReleaseOwned(c) /\ c \in Child /\ lifecycle'[c] = "CLOSED"
  <2>1. CASE Reconcile
    BY <2>1 DEF Reconcile, SpawnInv, SpawnTypeOK
  <2>2. CASE Discard
    BY <1>2, <2>2 DEF Discard, CloseRow, SpawnInv, SpawnTypeOK
  <2>3. CASE DiscardRechecks
    BY <1>2, <2>3 DEF DiscardRechecks, slotVars, registryVars
  <2>4. CASE SpawnFailures \/ DiscardRecheckFails \/ SpawnReturns \/ Compensate
    BY <2>4 DEF SpawnFailures, SpawnReturns, Compensate, ReconcileFails, CompensateFails, DiscardFails, DiscardRecheckFails,
       slotVars
  <2>5. QED
    BY <2>1, <2>2, <2>3, <2>4 DEF SpawnProgress
<1>5. \A d \in Child \ {c} : lifecycle'[d] = "CLOSED" => lifecycle[d] = "CLOSED"
  BY DEF SpawnProgress, SpawnFailures, SpawnReturns, Reconcile, Compensate, Discard, DiscardRechecks,
     ReconcileFails, CompensateFails, DiscardFails, DiscardRecheckFails, registryVars, PersistTerminal, CloseRow,
     CloseRowUnsure, SpawnInv, SpawnTypeOK
<1>6. WorkersKept
  <2>1. CASE UNCHANGED held \/ held' = held \cup {c}
    BY <1>1, <2>1 DEF WorkersKept, Works, taskVars
  <2>2. CASE ReleaseOwned(c) /\ c \in Child /\ lifecycle'[c] = "CLOSED"
    BY <1>1, <2>2, ReleasingKeepsWorkers DEF taskVars
  <2>3. QED
    BY <1>4, <2>1, <2>2
<1>7. WorkersCovered'
  BY <1>6, WorkersStayCovered DEF RowsInv
<1>8. Rests'
  BY <1>1, <1>3 DEF RowsInv, Rests, NoSpawn
<1>9. \A d \in Child : d # c /\ Pending(d) => Pending(d)'
  BY <1>1, PendingStands DEF CallsStand, SpawnInv
<1>10. ASSUME c \in held', lifecycle'[c] = "CLOSED", c \in Child
       PROVE  Pending(c)'
  <2>1. CASE spawn'.child = c
    BY <2>1 DEF Pending
  <2>2. CASE spawn'.child = Root
    <3>1. c # Root
      BY <1>10, SpawnAssumption
    <3>2. spawn.at # "raised"
      BY <1>2, <3>1
    <3>3. CASE Reconcile \/ ReconcileFails
      BY <1>10, <2>2, <3>1, <3>3
      DEF Reconcile, ReconcileFails, registryVars, slotVars, SpawnInv, SpawnOwns, SpawnTypeOK
    <3>4. CASE Discard
      BY <1>10, <3>4 DEF Discard, ReleaseOwned, slotVars
    <3>5. CASE CompensateFails \/ DiscardRecheckFails
      BY <3>5 DEF CompensateFails, DiscardRecheckFails, Pending
    <3>6. CASE DiscardRechecks
      BY <1>10, <3>6 DEF DiscardRechecks, ReleaseOwned, slotVars, registryVars, Pending
    <3>7. CASE Compensate \/ DiscardFails
      BY <2>2, <3>1, <3>7 DEF Compensate, DiscardFails, SpawnInv, SpawnTypeOK
    <3>8. CASE SpawnReturns
      BY <3>2, <3>8 DEF SpawnReturns
    <3>9. QED
      BY <3>3, <3>4, <3>5, <3>6, <3>7, <3>8 DEF SpawnProgress, SpawnFailures
  <2>3. QED
    BY <1>3, <2>1, <2>2 DEF NoSpawn
<1>11. ClosedPending'
  <2> SUFFICES ASSUME NEW d \in held', lifecycle'[d] = "CLOSED"
               PROVE  Pending(d)'
    BY DEF ClosedPending
  <2>1. CASE d = c /\ c \in Child
    BY <1>10, <2>1
  <2>2. CASE d # c
    <3>1. d \in held /\ d \in Child
      BY <1>4, <2>2 DEF ReleaseOwned, slotVars, SpawnInv, SpawnTypeOK
    <3>2. QED
      BY <1>5, <1>9, <2>2, <3>1 DEF RowsInv, ClosedPending
  <2>3. d \in Child
    BY <1>2, <1>4 DEF ReleaseOwned, slotVars, SpawnInv, SpawnTypeOK, Reconcile
  <2>4. QED
    BY <2>1, <2>2, <2>3
<1>12. QED
  BY <1>7, <1>8, <1>11 DEF RowsInv

\* The coroutines.
LEMMA TasksRowsInv ==
    ASSUME SpawnInv, RowsInv, RowsAdvance, NEW c \in Child, TaskSteps(c) \/ TaskFails(c)
    PROVE  RowsInv'
<1>1. UNCHANGED <<slotVars, spawn, call, process, histVars>>
  BY Zenon DEF TaskSteps, TaskBegins, TaskCancelled, TaskSettles, RunnerEnds, TaskFails
<1>2. \A d \in Child : lifecycle'[d] = "CLOSED" => lifecycle[d] = "CLOSED"
  <2>1. CASE UNCHANGED lifecycle
    BY <2>1
  <2>2. CASE lifecycle' = [lifecycle EXCEPT ![c] = "RUNNING"]
    BY <2>2 DEF SpawnInv, SpawnTypeOK
  <2>3. ASSUME NEW outcome \in Terminal, PersistTerminal(c, outcome)
        PROVE  \A d \in Child : lifecycle'[d] = "CLOSED" => lifecycle[d] = "CLOSED"
    BY <2>3 DEF PersistTerminal, Terminal, SpawnInv, SpawnTypeOK
  <2>4. QED
    BY <2>1, <2>2, <2>3
    DEF TaskSteps, TaskBegins, TaskCancelled, TaskSettles, RunnerEnds, TaskFails, registryVars
<1>3. WorkersKept
  <2>1. \A d \in Child : d # c => /\ coroutine'[d] = coroutine[d]
                                  /\ d \in tracked => d \in tracked'
    BY DEF TaskSteps, TaskBegins, TaskCancelled, TaskSettles, RunnerEnds, TaskFails, End,
       SpawnInv, SpawnTypeOK
  <2>2. Works(c)' => Works(c) /\ tracked' = tracked
    BY DEF TaskSteps, TaskBegins, TaskCancelled, TaskSettles, RunnerEnds, TaskFails, End, Works,
       Settling, SpawnInv, SpawnTypeOK
  <2>3. QED
    BY <1>1, <2>1, <2>2 DEF WorkersKept, Works, slotVars
<1>4. QED
  BY <1>1, <1>2, <1>3, QuietRowsInv DEF CallsStand, CallsOk, RowsInv, Rests, slotVars, histVars

\* A call that begins or ends.
LEMMA EntersRowsInv ==
    ASSUME SpawnInv, RowsInv, RowsAdvance, NEW o \in Closer, NEW c \in Child,
           \/ Enter(o, c) /\ process'.at = process.at
           \/ CloseEnds(o, c)
    PROVE  RowsInv'
<1>1. UNCHANGED <<lifecycle, held, taskVars, spawn, abandoned, unnoticed>> /\ process'.at = process.at
  BY DEF Enter, CloseEnds, registryVars, slotVars, histVars
<1>2. call \in [Closer -> [Child -> Calls]]
  BY TypedCalls DEF SpawnInv, CallsTyped
<1>3. /\ \A p \in Closer, d \in Child : p # o \/ d # c => call'[p][d] = call[p][d]
      /\ call[o][c].at \in {"none", "end"}
      /\ call'[o][c].at = "none" \/ call'[o][c].ok
  BY <1>2 DEF Enter, CloseEnds, NoCall
<1>4. CallsStand /\ CallsOk'
  BY <1>3 DEF CallsStand, CallsOk, RowsInv, Rests
<1>5. WorkersKept
  BY <1>1 DEF WorkersKept, Works, taskVars
<1>6. QED
  BY <1>1, <1>4, <1>5, QuietRowsInv


\* A step within a call: the other calls stand, and a call that fails ends.
LEMMA CallStepShape ==
    ASSUME SpawnInv, RowsInv, NEW o \in Closer, NEW c \in Child, CallStep(o, c)
    PROVE  /\ \A p \in Closer, d \in Child : p # o \/ d # c => call'[p][d] = call[p][d]
           /\ call[o][c].at \notin {"none", "end"} /\ call[o][c].ok
           /\ CallsOk'
           /\ UNCHANGED <<path, coroutine, spawn, process, abandoned>> /\ unnoticed \subseteq unnoticed'
<1>1. CallsTyped /\ call[o][c] \in Calls
  BY TypedCalls DEF SpawnInv, CallsTyped
<1>2. \A p \in Closer, d \in Child : p # o \/ d # c => call'[p][d] = call[p][d]
  BY <1>1, CallStepsMove, CallWritten DEF SpawnInv, Moves
<1>3. call[o][c].at \notin {"none", "end"}
  BY DEF CallStep, CloseFails, CloseLooks, CloseWaits, CloseTimesOut, CloseSettles, ClosePersists,
     CloseDetaches, CloseRechecks, CloseRecheckFails
<1>4. call'[o][c].at = "end" \/ call'[o][c].ok = call[o][c].ok
  <2>1. ASSUME NEW at, Call(o, c, at)
        PROVE  call'[o][c].ok = call[o][c].ok
    BY <1>1, <2>1 DEF CallsTyped, Calls, Call
  <2>2. ASSUME NEW d, Advance(o, c, d)
        PROVE  call'[o][c].ok = call[o][c].ok
    BY <1>1, <2>2 DEF CallsTyped, Calls, Advance
  <2>3. ASSUME call' = [call EXCEPT ![o][c].at = "end", ![o][c].ok = FALSE]
        PROVE  call'[o][c].at = "end"
    BY <1>1, <2>3 DEF CallsTyped, Calls
  <2>4. ASSUME call' = [call EXCEPT ![o][c].at = "settle", ![o][c].forced = TRUE]
        PROVE  call'[o][c].ok = call[o][c].ok
    BY <1>1, <2>4 DEF CallsTyped, Calls
  <2>5. \/ \E at : Call(o, c, at)
        \/ \E d : Advance(o, c, d)
        \/ call' = [call EXCEPT ![o][c].at = "end", ![o][c].ok = FALSE]
        \/ call' = [call EXCEPT ![o][c].at = "settle", ![o][c].forced = TRUE]
    BY Zenon DEF CallStep, CloseFails, CloseLooks, CloseWaits, CloseTimesOut, CloseSettles,
       ClosePersists, CloseDetaches, CloseRechecks, CloseRecheckFails
  <2>6. QED
    BY <2>1, <2>2, <2>3, <2>4, <2>5
<1>5. UNCHANGED <<path, coroutine, spawn, process, abandoned>> /\ unnoticed \subseteq unnoticed'
  BY Zenon DEF CallStep, CloseFails, CloseLooks, CloseWaits, CloseTimesOut, CloseSettles, ClosePersists,
     CloseDetaches, CloseRechecks, CloseRecheckFails, registryVars, taskVars, histVars
<1>6. call[o][c].ok /\ CallsOk'
  BY <1>2, <1>3, <1>4 DEF CallsOk, RowsInv, Rests
<1>7. QED
  BY <1>2, <1>3, <1>5, <1>6

\* The child a call is at, once its row is closed, gives its slot back.
LEMMA CallReleases ==
    ASSUME SpawnInv, RowsInv, RowsAdvance, NEW o \in Closer, NEW c \in Child, CallStep(o, c),
           NEW d \in Child, ReleaseOwned(d), lifecycle'[d] = "CLOSED",
           \A e \in Child \ {d} : lifecycle'[e] = "CLOSED" => lifecycle[e] = "CLOSED",
           call[o][c].at = "recheck" => IsNext(call[o][c].todo, d),
           tracked' \in {tracked, tracked \ {d}}
    PROVE  RowsInv'
<1>1. /\ \A p \in Closer, e \in Child : p # o \/ e # c => call'[p][e] = call[p][e]
      /\ CallsOk' /\ UNCHANGED <<path, coroutine, spawn, process, abandoned>> /\ unnoticed \subseteq unnoticed'
  BY CallStepShape
<1>2. ASSUME NEW e \in Child \ {d}, Pending(e)
      PROVE  Pending(e)'
  <2>1. ~Rechecks(o, c, e)
    BY DEF Rechecks, IsNext
  <2>2. ASSUME NEW p \in Closer, NEW f \in Child, Rechecks(p, f, e)
        PROVE  Rechecks(p, f, e)'
    BY <1>1, <2>1, <2>2, RecheckStands DEF SpawnInv
  <2>3. QED
    BY <1>1, <1>2, <2>2 DEF Pending
<1>3. WorkersKept
  BY <1>1 DEF WorkersKept, Works, ReleaseOwned, slotVars
<1>4. spawn'.at \in {"idle", "raised"} => spawn'.child = Root
  BY <1>1 DEF RowsInv, Rests
<1>5. QED
  BY <1>1, <1>2, <1>3, <1>4, ReleasingRowsInv

\* A step within a call that releases nothing and closes nothing.
LEMMA CallGoesOn ==
    ASSUME SpawnInv, RowsInv, RowsAdvance, NEW o \in Closer, NEW c \in Child, CallStep(o, c),
           call[o][c].at # "recheck", UNCHANGED held,
           \A e \in Child : lifecycle'[e] = "CLOSED" => lifecycle[e] = "CLOSED",
           \A e \in tracked : e \in tracked' \/ lifecycle[e] = "CLOSED"
    PROVE  RowsInv'
<1>1. /\ \A p \in Closer, e \in Child : p # o \/ e # c => call'[p][e] = call[p][e]
      /\ CallsOk' /\ UNCHANGED <<path, coroutine, spawn, process, abandoned>> /\ unnoticed \subseteq unnoticed'
  BY CallStepShape
<1>2. CallsStand
  BY <1>1 DEF CallsStand
<1>3. WorkersKept
  BY <1>1 DEF WorkersKept, Works, RowsAdvance, RowAdvances
<1>4. QED
  BY <1>1, <1>2, <1>3, QuietRowsInv

\* The steps within a call.
LEMMA CallsRowsInv ==
    ASSUME SpawnInv, RowsInv, RowsAdvance, NEW o \in Closer, NEW c \in Child, CallStep(o, c)
    PROVE  RowsInv'
<1>1. /\ \A p \in Closer, e \in Child : p # o \/ e # c => call'[p][e] = call[p][e]
      /\ call[o][c].ok /\ CallsOk'
      /\ UNCHANGED <<path, coroutine, spawn, process, abandoned>> /\ unnoticed \subseteq unnoticed'
  BY CallStepShape
<1>2. ASSUME NEW d \in Child, CloseLooks(o, c, d)
      PROVE  RowsInv'
  <2>1. call[o][c].at = "look" /\ UNCHANGED <<lifecycle, tracked>>
    BY <1>2 DEF CloseLooks, registryVars
  <2>2. CASE lifecycle[d] = "CLOSED" /\ ReleaseOwned(d)
    BY <2>1, <2>2, CallReleases
  <2>3. CASE UNCHANGED slotVars
    BY <2>1, <2>3, CallGoesOn DEF slotVars
  <2>4. QED
    BY <1>2, <2>2, <2>3 DEF CloseLooks
<1>3. ASSUME NEW d \in Child, CloseWaits(o, c, d) \/ CloseTimesOut(o, c, d)
      PROVE  RowsInv'
  BY <1>3, CallGoesOn DEF CloseWaits, CloseTimesOut, registryVars, taskVars, slotVars
<1>4. ASSUME NEW d \in Child, CloseSettles(o, c, d)
      PROVE  RowsInv'
  <2>1. call[o][c].at = "settle" /\ UNCHANGED tracked
    BY <1>4 DEF CloseSettles, taskVars
  <2>2. \A e \in Child : lifecycle'[e] = "CLOSED" => lifecycle[e] = "CLOSED"
    BY <1>4 DEF CloseSettles, PersistTerminal, SpawnInv, SpawnTypeOK
  <2>3. CASE lifecycle[d] = "CLOSED" /\ ReleaseOwned(d)
    <3>1. lifecycle'[d] = "CLOSED"
      BY <2>3 DEF RowsAdvance, RowAdvances
    <3>2. QED
      BY <2>1, <2>2, <2>3, <3>1, CallReleases
  <2>4. CASE UNCHANGED slotVars
    BY <2>1, <2>2, <2>4, CallGoesOn DEF slotVars
  <2>5. QED
    BY <1>4, <2>3, <2>4 DEF CloseSettles
<1>5. ASSUME NEW d \in Child, ClosePersists(o, c, d)
      PROVE  RowsInv'
  <2>1. /\ call[o][c].at = "persist" /\ UNCHANGED tracked /\ ReleaseOwned(d)
        /\ lifecycle' = [lifecycle EXCEPT ![d] = "CLOSED"]
    BY <1>5 DEF ClosePersists, CloseRow, taskVars
  <2>2. QED
    BY <2>1, CallReleases DEF SpawnInv, SpawnTypeOK
<1>6. ASSUME NEW d \in Child, CloseDetaches(o, c, d)
      PROVE  RowsInv'
  <2>1. /\ call[o][c].at = "detach" /\ UNCHANGED <<lifecycle, held>> /\ tracked' = tracked \ {d}
        /\ IsNext(call[o][c].todo, d)
    BY <1>6 DEF CloseDetaches, registryVars, slotVars
  <2>2. lifecycle[d] = "CLOSED"
    BY <1>1, <2>1 DEF SpawnInv, Through, ThroughCall, Busy
  <2>3. QED
    BY <2>1, <2>2, CallGoesOn
<1>7. ASSUME NEW d \in Child, CloseRechecks(o, c, d)
      PROVE  RowsInv'
  <2>1. /\ call[o][c].at = "recheck" /\ IsNext(call[o][c].todo, d)
        /\ UNCHANGED lifecycle
        /\ IF lifecycle[d] = "CLOSED" THEN ReleaseOwned(d) ELSE UNCHANGED slotVars
        /\ tracked' \in {tracked, tracked \ {d}}
        /\ lifecycle[d] # "CLOSED" => tracked' = tracked
    BY <1>7 DEF CloseRechecks, registryVars
  <2>2. CASE lifecycle[d] = "CLOSED"
    BY <2>1, <2>2, CallReleases
  <2>3. CASE lifecycle[d] # "CLOSED"
    <3>1. held' = held /\ tracked' = tracked
      BY <2>1, <2>3 DEF slotVars
    <3>2. ASSUME NEW x \in held, lifecycle[x] = "CLOSED"
          PROVE  Pending(x)'
      <4>1. x \in Child /\ Pending(x) /\ x # d
        BY <2>3, <3>2 DEF RowsInv, ClosedPending, SpawnInv, SpawnTypeOK
      <4>2. ~Rechecks(o, c, x)
        BY <2>1, <4>1 DEF Rechecks, IsNext
      <4>3. ASSUME NEW p \in Closer, NEW f \in Child, Rechecks(p, f, x)
            PROVE  Rechecks(p, f, x)'
        BY <1>1, <4>1, <4>2, <4>3, RecheckStands DEF SpawnInv
      <4>4. QED
        BY <1>1, <4>1, <4>3 DEF Pending
    <3>3. ClosedPending' /\ WorkersKept
      BY <1>1, <2>1, <3>1, <3>2 DEF ClosedPending, WorkersKept, Works
    <3>4. WorkersCovered'
      BY <3>3, WorkersStayCovered DEF RowsInv
    <3>5. Rests'
      BY <1>1, <3>1 DEF RowsInv, Rests, CallsOk
    <3>6. QED
      BY <3>3, <3>4, <3>5 DEF RowsInv
  <2>4. QED
    BY <2>2, <2>3
<1>8. ASSUME NEW d \in Child, CloseRecheckFails(o, c, d)
      PROVE  RowsInv'
  <2>1. /\ call[o][c].at = "recheck" /\ IsNext(call[o][c].todo, d)
        /\ UNCHANGED <<lifecycle, held, tracked>>
        /\ lifecycle[d] = "CLOSED" => d \in unnoticed'
    BY <1>8 DEF CloseRecheckFails, registryVars, slotVars, taskVars
  <2>2. ASSUME NEW x \in held, lifecycle[x] = "CLOSED"
        PROVE  Pending(x)'
    <3>1. x \in Child /\ Pending(x)
      BY <2>2 DEF RowsInv, ClosedPending, SpawnInv, SpawnTypeOK
    <3>2. CASE x = d
      BY <2>1, <2>2, <3>2 DEF Pending
    <3>3. CASE x # d
      <4>1. ~Rechecks(o, c, x)
        BY <2>1, <3>3 DEF Rechecks, IsNext
      <4>2. ASSUME NEW p \in Closer, NEW f \in Child, Rechecks(p, f, x)
            PROVE  Rechecks(p, f, x)'
        BY <1>1, <3>1, <4>1, <4>2, RecheckStands DEF SpawnInv
      <4>3. QED
        BY <1>1, <3>1, <4>2 DEF Pending
    <3>4. QED
      BY <3>2, <3>3
  <2>3. ClosedPending' /\ WorkersKept
    BY <1>1, <2>1, <2>2 DEF ClosedPending, WorkersKept, Works
  <2>4. WorkersCovered'
    BY <2>3, WorkersStayCovered DEF RowsInv
  <2>5. Rests'
    BY <1>1, <2>1 DEF RowsInv, Rests, CallsOk
  <2>6. QED
    BY <2>3, <2>4, <2>5 DEF RowsInv
<1>9. CASE CloseFails(o, c)
  <2>1. UNCHANGED <<held, tracked>> /\ call[o][c].at # "recheck"
    BY <1>9 DEF CloseFails, slotVars, taskVars
  <2>2. CASE UNCHANGED lifecycle
    BY <2>1, <2>2, CallGoesOn
  <2>3. ASSUME NEW d \in Child, IsNext(call[o][c].todo, d), Call(o, c, "recheck"),
               lifecycle' = [lifecycle EXCEPT ![d] = "CLOSED"]
        PROVE  RowsInv'
    <3>1. call'[o][c].at = "recheck" /\ call'[o][c].todo = call[o][c].todo
      BY <2>3 DEF Call, SpawnInv, SpawnTypeOK
    <3>2. Deepest(call[o][c].todo)' = Deepest(call[o][c].todo)
      BY <1>1, <3>1 DEF Deepest
    <3>3. Pending(d)'
      BY <2>3, <3>1, <3>2 DEF Pending, Rechecks, IsNext
    <3>4. CallsStand
      BY <1>1, <2>1 DEF CallsStand
    <3>5. ClosedPending'
      <4> SUFFICES ASSUME NEW x \in held, lifecycle'[x] = "CLOSED", x # d
                   PROVE  Pending(x)'
        BY <2>1, <3>3 DEF ClosedPending
      <4>1. x \in Child /\ lifecycle[x] = "CLOSED" /\ Pending(x)
        BY <2>3 DEF RowsInv, ClosedPending, SpawnInv, SpawnTypeOK
      <4>2. QED
        BY <1>1, <3>4, <4>1, PendingStands DEF SpawnInv
    <3>6. WorkersCovered'
      BY <1>1, <2>1, WorkersStayCovered DEF RowsInv, WorkersKept, Works
    <3>7. Rests'
      BY <1>1, <2>1 DEF RowsInv, Rests, CallsOk
    <3>8. QED
      BY <3>5, <3>6, <3>7 DEF RowsInv
  <2>4. QED
    <3>1. \/ UNCHANGED lifecycle
          \/ /\ call[o][c].at = "persist" /\ Call(o, c, "recheck")
             /\ \E d \in call[o][c].todo :
                   /\ IsNext(call[o][c].todo, d)
                   /\ lifecycle' = [lifecycle EXCEPT ![d] = "CLOSED"]
      BY <1>9 DEF CloseFails, CloseRowUnsure, CloseRow
    <3>2. call[o][c].todo \subseteq Child
      BY DEF SpawnInv, SpawnTypeOK
    <3>3. QED
      BY <2>2, <2>3, <3>1, <3>2
<1>10. QED
  BY <1>2, <1>3, <1>4, <1>5, <1>6, <1>7, <1>8, <1>9 DEF CallStep

\* The collector, shutdown, crash and startup.
LEMMA LifecycleRowsInv ==
    ASSUME SpawnInv, RowsInv, RowsAdvance, Lifecycle
    PROVE  RowsInv'
<1>1. ASSUME NEW c \in Child, CollectorCloses(c)
      PROVE  RowsInv'
  <2>1. /\ ReleaseOwned(c) /\ lifecycle' = [lifecycle EXCEPT ![c] = "CLOSED"]
        /\ UNCHANGED <<coroutine, tracked, spawn, call, process, abandoned, unnoticed>>
    BY <1>1 DEF CollectorCloses, CloseRow, taskVars, histVars
  <2>2. lifecycle'[c] = "CLOSED" /\ \A d \in Child \ {c} : lifecycle'[d] = lifecycle[d]
    BY <2>1 DEF SpawnInv, SpawnTypeOK
  <2>3. WorkersKept
    BY <2>1, <2>2, ReleasingKeepsWorkers
  <2>4. \A d \in Child : Pending(d) => Pending(d)'
    BY <2>1, PendingStands DEF CallsStand, SpawnInv
  <2>5. CallsOk' /\ (spawn'.at \in {"idle", "raised"} => spawn'.child = Root)
    BY <2>1 DEF CallsOk, RowsInv, Rests
  <2>6. QED
    BY <2>1, <2>2, <2>3, <2>4, <2>5, ReleasingRowsInv
<1>2. ASSUME NEW c \in Child, ShutdownCloses(c)
      PROVE  RowsInv'
  <2>1. Enter(Shutdown, c) /\ process' = [process EXCEPT !.roots = @ \ {c}, !.rest = @ \ {c}]
    BY <1>2 DEF ShutdownCloses
  <2>2. process'.at = process.at
    BY <2>1 DEF SpawnInv, SpawnTypeOK
  <2>3. QED
    BY <2>1, <2>2, EntersRowsInv, SpawnAssumption
<1>3. CASE ShutdownBegins \/ ShutdownEnds \/ Boots \/ BootEnds
  <2>1. UNCHANGED <<lifecycle, held, coroutine, tracked, spawn, call, abandoned, unnoticed>>
    BY <1>3, Zenon DEF ShutdownBegins, ShutdownEnds, Boots, BootEnds, registryVars, slotVars, taskVars,
       histVars
  <2>2. process'.at \in {"down", "booting"} => process.at \in {"down", "booting"}
    BY <1>3 DEF ShutdownBegins, ShutdownEnds, Boots, BootEnds, Stopped, Running
  <2>3. WorkersKept /\ CallsStand /\ CallsOk'
    BY <2>1 DEF WorkersKept, Works, CallsStand, CallsOk, RowsInv, Rests
  <2>4. QED
    BY <2>1, <2>2, <2>3, QuietRowsInv
<1>4. CASE Dies
  BY <1>4 DEF Dies, NoSpawn, NoCall, RowsInv, WorkersCovered, Works, ClosedPending, Rests
<1>5. ASSUME NEW c \in Child, BootCancels(c) \/ BootCloses(c)
      PROVE  RowsInv'
  <2>1. /\ process.at = "booting" /\ UNCHANGED <<held, coroutine, tracked, spawn, call, abandoned, unnoticed>>
    BY <1>5, Zenon DEF BootCancels, BootCloses, slotVars, taskVars, histVars
  <2>2. held = {}
    BY <2>1 DEF RowsInv, Rests
  <2>3. WorkersCovered'
    BY <2>1, WorkersStayCovered DEF RowsInv, WorkersKept, Works
  <2>4. QED
    BY <2>1, <2>2, <2>3 DEF RowsInv, ClosedPending, Rests
<1>6. ASSUME NEW c \in Child, CollectorCloseFails(c)
      PROVE  RowsInv'
  <2>1. /\ lifecycle' = [lifecycle EXCEPT ![c] = "CLOSED"] /\ unnoticed' = unnoticed \cup {c}
        /\ UNCHANGED <<held, coroutine, tracked, spawn, call, process, abandoned>>
    BY <1>6 DEF CollectorCloseFails, CloseRow, slotVars, taskVars
  <2>2. \A d \in Child \ {c} : lifecycle'[d] = lifecycle[d]
    BY <2>1 DEF SpawnInv, SpawnTypeOK
  <2>3. \A d \in Child : Pending(d) => Pending(d)'
    BY <2>1, PendingStands DEF CallsStand, SpawnInv
  <2>4. ClosedPending'
    <3> SUFFICES ASSUME NEW d \in held, lifecycle'[d] = "CLOSED"
                 PROVE  Pending(d)'
      BY <2>1 DEF ClosedPending
    <3>1. CASE d = c
      BY <2>1, <3>1 DEF Pending
    <3>2. CASE d # c
      BY <2>2, <2>3, <3>2 DEF RowsInv, ClosedPending, SpawnInv, SpawnTypeOK
    <3>3. QED
      BY <3>1, <3>2
  <2>5. WorkersCovered'
    BY <2>1, WorkersStayCovered DEF RowsInv, WorkersKept, Works
  <2>6. Rests'
    BY <2>1 DEF RowsInv, Rests
  <2>7. QED
    BY <2>4, <2>5, <2>6 DEF RowsInv
<1>7. QED
  BY <1>1, <1>2, <1>3, <1>4, <1>5, <1>6 DEF Lifecycle

LEMMA RowsInvStep == SpawnInv /\ RowsInv /\ [SpawnNext]_spawnVars => RowsInv'
<1> SUFFICES ASSUME SpawnInv, RowsInv, [SpawnNext]_spawnVars
             PROVE  RowsInv'
  OBVIOUS
<1>1. CASE UNCHANGED spawnVars
  <2>1. UNCHANGED <<lifecycle, path, detached, held, tracked, coroutine, spawn, call, process, abandoned,
              unnoticed>>
    BY <1>1 DEF spawnVars, registryVars, slotVars, taskVars, histVars
  <2>2. QED
    BY <2>1 DEF RowsInv, WorkersCovered, Works, ClosedPending, Pending, Rechecks, IsNext, Deepest, Rests
<1>2. CASE SpawnNext
  <2>1. RowsAdvance
    BY <1>2, RowsMove DEF SpawnInv
  <2>2. ASSUME NEW c \in Child, NEW p \in Child \cup {Root},
               SpawnStarts(c, p) \/ SpawnInterrupted(c, p) \/ SpawnTaskless(c, p)
        PROVE  RowsInv'
    BY <2>1, <2>2, SpawnsRowsInv
  <2>3. CASE SpawnProgress \/ SpawnFailures \/ DiscardRecheckFails \/ SpawnReturns
    BY <2>1, <2>3, SpawnEndsRowsInv
  <2>4. ASSUME NEW c \in Child, TaskSteps(c) \/ TaskFails(c)
        PROVE  RowsInv'
    BY <2>1, <2>4, TasksRowsInv
  <2>5. ASSUME NEW o \in Closer, NEW c \in Child,
               \/ CloseBegins(o, c) \/ CloseProgress(o, c) \/ CloseFails(o, c)
               \/ \E d \in Child : CloseTimesOut(o, c, d) \/ CloseRecheckFails(o, c, d)
        PROVE  RowsInv'
    <3>1. (Enter(o, c) /\ UNCHANGED process) \/ CloseEnds(o, c) \/ CallStep(o, c)
      BY <2>5, Zenon DEF CloseBegins, CloseProgress, CallStep
    <3>2. QED
      BY <2>1, <3>1, EntersRowsInv, CallsRowsInv
  <2>6. CASE Lifecycle
    BY <2>1, <2>6, LifecycleRowsInv
  <2>7. QED
    BY <1>2, <2>2, <2>3, <2>4, <2>5, <2>6, Zenon DEF SpawnNext
<1>3. QED
  BY <1>1, <1>2

\* Held slots and open rows agree (manager.py:880-928): a coroutine that may
\* still work is covered by a slot, and a closed row holds none once those who
\* closed it are through, whatever races and whatever fails; the exceptions are
\* the children whose closing commit, or whose spawn's compensation, was
\* answered with an error and could not be looked for afterwards.
THEOREM SlotsStayWithRows == SpawnSpec => []SlotsFollowRows
<1>1. SpawnInit => SpawnInv /\ RowsInv
  BY SpawnInvInit, RowsInvInit
<1>2. SpawnInv /\ RowsInv /\ [SpawnNext]_spawnVars => SpawnInv' /\ RowsInv'
  BY SpawnInvStep, RowsInvStep
<1>3. SpawnInv /\ RowsInv => SlotsFollowRows
  BY DEF SpawnInv, SpawnTypeOK, RowsInv, WorkersCovered, Works, ClosedPending, Pending, Rechecks,
     IsNext, Deepest, SlotsFollowRows
<1>4. QED
  BY <1>1, <1>2, <1>3, PTL DEF SpawnSpec
=============================================================================

------------------------- MODULE SpawnWorkflowProofs -------------------------
(***************************************************************************)
(* The workflows of agent/orchestration.py use the SpawnManager only       *)
(* through its operations: whatever a workflow does, the manager under it  *)
(* behaves as SpawnSpec says, so what SpawnProofs proves of the manager    *)
(* holds with workflows, failures, cancellations and restarts.  With       *)
(* WorkflowInv, a workflow that returns has closed what it spawned.        *)
(***************************************************************************)
EXTENDS SpawnWorkflow, SpawnProofs

WfPlaces ==
    {"spawning", "waiting", "closing", "deciding", "siblings", "review", "reviewing",
     "dismissing", "cleanup", "aborting", "shielded", "ended"}
Endings == {"none", "returned", "unclean", "cancelled", "lost"}
Workflows ==
    [at : WfPlaces, sent : Nat, wave : SUBSET Child, unclosed : SUBSET Child, open : SUBSET Child,
     reviewers : SUBSET Child, good : SUBSET Child, closing : SUBSET Child, begun : SUBSET Child,
     parent : Child \cup {Root}, stop : BOOLEAN, ending : Endings]

\* The workflow's locals have their types: the parent of a reviewer is a child.
WfTyped == wf \in Workflows

-----------------------------------------------------------------------------
(* Its operations on the manager.                                          *)

LEMMA FreshIsChild == \A c \in Fresh : c \in Child
BY DEF Fresh

LEMMA TargetIsParent == WfTyped => SpawnTarget \in Child \cup {Root}
BY DEF WfTyped, Workflows, SpawnTarget

\* What a step of the workflow does to the manager.
ManagerStep == SpawnNext \/ UNCHANGED spawnVars

LEMMA WorkflowSpawns ==
    ASSUME WfTyped, NEW c \in Fresh,
           \/ SpawnStarts(c, SpawnTarget) \/ SpawnInterrupted(c, SpawnTarget)
           \/ SpawnTaskless(c, SpawnTarget)
    PROVE  SpawnNext
BY FreshIsChild, TargetIsParent DEF SpawnNext

LEMMA WorkflowMovesManager == WfTyped /\ [WorkflowNext]_workflowVars => ManagerStep
<1> SUFFICES ASSUME WfTyped, [WorkflowNext]_workflowVars
             PROVE  ManagerStep
  OBVIOUS
<1>1. CASE WfSpawns \/ WfSpawnStopped
  BY <1>1, WorkflowSpawns DEF WfSpawns, WfSpawnStopped, ManagerStep
<1>2. CASE WfRefused \/ WfWaveEnds \/ WfDecides \/ WfReviewed \/ WfClosed \/ WfStopped \/ WfUnwinds
  BY <1>2, Zenon DEF WfRefused, WfWaveEnds, WfDecides, WfReviewed, WfClosed, WfStopped, WfUnwinds, ManagerStep
<1>3. CASE WfSpawnRaised
  BY <1>3, Zenon DEF WfSpawnRaised, ManagerStep, SpawnNext
<1>4. ASSUME NEW c \in Child, WfWaits(c) \/ WfCloses(c) \/ WfCallStopped(c)
      PROVE  ManagerStep
  BY <1>4, WorkflowAssumption, Zenon DEF WfWaits, WfCloses, WfCallStopped, ManagerStep, SpawnNext
<1>5. CASE WfFails \/ WfRecheckFails
  BY <1>5, Zenon DEF WfFails, WfRecheckFails, ManagerStep, SpawnNext, Lifecycle
<1>6. CASE ShutsDown \/ Ends \/ Restarts
  BY <1>6, Zenon DEF ShutsDown, Ends, Restarts, ManagerStep, SpawnNext, Lifecycle
<1>7. CASE Runs
  BY <1>7, Zenon DEF Runs, ManagerStep, SpawnNext, Lifecycle
<1>8. CASE UNCHANGED workflowVars
  BY <1>8 DEF workflowVars, ManagerStep
<1>9. QED
  BY <1>1, <1>2, <1>3, <1>4, <1>5, <1>6, <1>7, <1>8, Zenon DEF WorkflowNext, WfSteps

-----------------------------------------------------------------------------
(* Its locals.                                                             *)

LEMMA ClosingTyped ==
    ASSUME WfTyped, NEW next \in WfPlaces, NEW ids \in SUBSET Child
    PROVE  CloseAll(next, ids) \in Workflows
BY DEF WfTyped, Workflows, CloseAll

LEMMA LeavingTyped ==
    ASSUME WfTyped, NEW how \in Endings
    PROVE  Leaves(how) \in Workflows
BY DEF WfTyped, Workflows, Leaves, WfPlaces

LEMMA RefusedTyped == WfTyped => Refused \in Workflows
<1> SUFFICES ASSUME WfTyped
             PROVE  Refused \in Workflows
  OBVIOUS
<1> DEFINE k == CloseAll("aborting", wf.unclosed)
<1>1. wf.open \in SUBSET Child /\ wf.unclosed \in SUBSET Child /\ {"cleanup", "aborting"} \subseteq WfPlaces
  BY DEF WfTyped, Workflows, WfPlaces
<1>2. CloseAll("cleanup", wf.open) \in Workflows /\ k \in Workflows
  BY <1>1, ClosingTyped
<1> HIDE DEF k
<1>3. [k EXCEPT !.unclosed = {}, !.wave = {}] \in Workflows
  BY <1>2 DEF Workflows
<1>4. QED
  BY <1>2, <1>3 DEF Refused, k

LEMMA FiledTyped ==
    ASSUME WfTyped, NEW c \in Child
    PROVE  Filed(c) \in Workflows
<1> DEFINE more == wf.sent + 1
           at == IF wf.sent + 1 = Requests \/ (wf.sent + 1) % MaxConcurrent = 0
                 THEN "waiting" ELSE "spawning"
           kept == [wf EXCEPT !.sent = more, !.unclosed = @ \cup {c}, !.wave = @ \cup {c}, !.at = at]
           sent == [wf EXCEPT !.at = "reviewing", !.reviewers = {c}]
<1>1. at \in WfPlaces
  BY Zenon DEF WfPlaces
<1>2. Filed(c) = kept \/ Filed(c) = sent
  BY Zenon DEF Filed
<1>0. more \in Nat
  BY DEF WfTyped, Workflows
<1> HIDE DEF at, more
<1>3. kept \in Workflows
  BY <1>0, <1>1 DEF WfTyped, Workflows
<1>4. sent \in Workflows
  BY DEF WfTyped, Workflows, WfPlaces
<1>5. QED
  BY <1>2, <1>3, <1>4, Zenon

LEMMA DecidesTyped ==
    ASSUME WfTyped, WfDecides
    PROVE  wf' \in Workflows
<1>1. /\ wf.open \in SUBSET Child /\ wf.good \in SUBSET Child
      /\ {"cleanup", "siblings"} \subseteq WfPlaces
  BY DEF WfTyped, Workflows, WfPlaces
<1>2. \/ wf' = CloseAll("cleanup", wf.open) \/ wf' = CloseAll("siblings", wf.open)
      \/ \E p \in wf.good \cap wf.open : wf' = [CloseAll("siblings", wf.open \ {p}) EXCEPT !.parent = p]
  BY DEF WfDecides
<1>3. ASSUME NEW p \in wf.good \cap wf.open
      PROVE  [CloseAll("siblings", wf.open \ {p}) EXCEPT !.parent = p] \in Workflows
  <2> DEFINE k == CloseAll("siblings", wf.open \ {p})
  <2>1. k \in Workflows /\ p \in Child
    BY <1>1, ClosingTyped
  <2> HIDE DEF k
  <2>2. [k EXCEPT !.parent = p] \in Workflows
    BY <2>1 DEF Workflows
  <2>3. QED
    BY <2>2 DEF k
<1>4. QED
  BY <1>1, <1>2, <1>3, ClosingTyped

LEMMA ClosedTyped ==
    ASSUME WfTyped, WfClosed
    PROVE  wf' \in Workflows
<1> DEFINE a == CloseAll("spawning", {})
           b == CloseAll("review", {})
           k == CloseAll("cleanup", wf.open \cup wf.reviewers)
<1>1. /\ wf.open \in SUBSET Child /\ wf.reviewers \in SUBSET Child /\ wf.ending \in Endings
      /\ {"spawning", "review", "cleanup"} \subseteq WfPlaces /\ {"returned", "unclean"} \subseteq Endings
  BY DEF WfTyped, Workflows, WfPlaces, Endings
<1>2. a \in Workflows /\ b \in Workflows /\ k \in Workflows
  BY <1>1, ClosingTyped
<1>3. \/ wf' = a
      \/ wf' = [b EXCEPT !.open = @ \cap {wf.parent}]
      \/ wf' = [k EXCEPT !.ending = IF CallsFine THEN @ ELSE "unclean"]
      \/ wf' = Leaves("returned") \/ wf' = Leaves("unclean")
  BY DEF WfClosed
<1> HIDE DEF a, b, k
<1>4. /\ [b EXCEPT !.open = @ \cap {wf.parent}] \in Workflows
      /\ [k EXCEPT !.ending = IF CallsFine THEN @ ELSE "unclean"] \in Workflows
  BY <1>1, <1>2 DEF Workflows
<1>5. QED
  BY <1>1, <1>2, <1>3, <1>4, LeavingTyped

LEMMA UnwindsTyped ==
    ASSUME WfTyped, WfUnwinds
    PROVE  wf' \in Workflows
<1> DEFINE go(k) == [k EXCEPT !.stop = FALSE, !.wave = {}, !.unclosed = {}, !.ending = "cancelled"]
<1>1. /\ wf.open \in SUBSET Child /\ wf.reviewers \in SUBSET Child
      /\ wf.unclosed \in SUBSET Child /\ wf.closing \in SUBSET Child
      /\ {"shielded", "dismissing", "cleanup"} \subseteq WfPlaces /\ "cancelled" \in Endings
  BY DEF WfTyped, Workflows, WfPlaces, Endings
<1>2. \/ wf' = Leaves("cancelled")
      \/ \E next \in {"shielded", "dismissing", "cleanup"}, ids \in SUBSET Child :
            wf' = go(CloseAll(next, ids))
  BY <1>1 DEF WfUnwinds
<1>3. ASSUME NEW k \in Workflows
      PROVE  go(k) \in Workflows
  BY <1>1 DEF Workflows
<1> HIDE DEF go
<1>4. QED
  BY <1>1, <1>2, <1>3, ClosingTyped, LeavingTyped

LEMMA EndsTyped ==
    ASSUME Ends
    PROVE  wf' \in Workflows
BY DEF Ends, WfStart, Workflows, WfPlaces, Endings

LEMMA WorkflowKeepsTypes == WfTyped /\ [WorkflowNext]_workflowVars => WfTyped'
<1> SUFFICES ASSUME WfTyped, [WorkflowNext]_workflowVars
             PROVE  wf' \in Workflows
  BY DEF WfTyped
<1>0. wf \in Workflows
  BY DEF WfTyped
<1>1. CASE WfSpawns
  BY <1>0, <1>1, FreshIsChild, FiledTyped DEF WfSpawns
<1>2. CASE WfRefused \/ WfSpawnRaised
  BY <1>0, <1>2, RefusedTyped DEF WfRefused, WfSpawnRaised
<1>3. CASE WfWaveEnds
  <2> DEFINE k == CloseAll("closing", wf.unclosed)
  <2>1. k \in Workflows
    BY <1>0, ClosingTyped DEF Workflows, WfPlaces
  <2>2. \/ wf' = [k EXCEPT !.unclosed = {}]
        \/ wf' = [wf EXCEPT !.at = "deciding", !.open = wf.unclosed, !.unclosed = {}]
    BY <1>3 DEF WfWaveEnds
  <2> HIDE DEF k
  <2>3. QED
    BY <1>0, <2>1, <2>2 DEF Workflows, WfPlaces
<1>4. CASE WfReviewed
  <2>1. wf.open \in SUBSET Child /\ wf.reviewers \in SUBSET Child /\ {"dismissing", "cleanup"} \subseteq WfPlaces
    BY <1>0 DEF Workflows, WfPlaces
  <2>2. wf' = CloseAll("dismissing", wf.reviewers) \/ wf' = CloseAll("cleanup", wf.open \cup wf.reviewers)
    BY <1>4 DEF WfReviewed
  <2>3. QED
    BY <2>1, <2>2, ClosingTyped
<1>5. ASSUME NEW c \in Child, WfWaits(c) \/ WfCloses(c) \/ WfCallStopped(c)
      PROVE  wf' \in Workflows
  <2>1. CASE WfWaits(c)
    <3> DEFINE good == IF lifecycle[c] = "COMPLETED" THEN wf.good \cup {c} ELSE wf.good
    <3>1. good \in SUBSET Child
      BY <1>0 DEF Workflows
    <3>2. wf' = [wf EXCEPT !.wave = @ \ {c}, !.good = good]
      BY <2>1 DEF WfWaits
    <3> HIDE DEF good
    <3>3. QED
      BY <1>0, <3>1, <3>2 DEF Workflows
  <2>2. CASE WfCloses(c)
    <3>1. wf' = [wf EXCEPT !.begun = @ \cup {c}]
      BY <2>2 DEF WfCloses
    <3>2. QED
      BY <1>0, <3>1 DEF Workflows
  <2>3. CASE WfCallStopped(c)
    BY <1>0, <2>3 DEF WfCallStopped
  <2>4. QED
    BY <1>5, <2>1, <2>2, <2>3
<1>6. CASE WfStopped \/ WfSpawnStopped
  BY <1>0, <1>6 DEF WfStopped, WfSpawnStopped, Workflows
<1>7. CASE WfFails \/ WfRecheckFails \/ ShutsDown \/ Restarts \/ Runs \/ UNCHANGED workflowVars
  BY <1>0, <1>7, Zenon DEF WfFails, WfRecheckFails, ShutsDown, Restarts, Runs, workflowVars
<1>8. QED
  BY <1>1, <1>2, <1>3, <1>4, <1>5, <1>6, <1>7, DecidesTyped, ClosedTyped, UnwindsTyped, EndsTyped, Zenon
     DEF WorkflowNext, WfSteps

-----------------------------------------------------------------------------
(* What the workflow still has to close.  WorkflowInv is inductive beside  *)
(* SpawnInv and RowsInv: until the workflow is left, a child whose row is  *)
(* open stands in one of its lists, or its spawn is being reconciled, or   *)
(* nobody could reconcile or compensate it.                                *)

Listed == wf.unclosed \cup wf.open \cup wf.reviewers \cup wf.closing
GivenUp(c) == c \in abandoned \/ lost > 0

\* Which lists are in use at which place.
ListsFit ==
    /\ wf.at \notin {"spawning", "waiting"} => wf.unclosed = {}
    /\ wf.at \in {"spawning", "waiting", "closing", "aborting"} => wf.open = {}
    /\ wf.at \in {"spawning", "waiting", "closing", "aborting", "deciding", "siblings", "review"} =>
          wf.reviewers = {}
    /\ wf.at \notin Closing => wf.closing = {}
    /\ wf.at = "siblings" => wf.open \ {wf.parent} \subseteq wf.closing
    /\ wf.at = "cleanup" => wf.open \cup wf.reviewers \subseteq wf.closing
    /\ wf.begun \subseteq wf.closing

\* A cancelled workflow never returns, one that returned is left.
EndsOnce ==
    /\ wf.at = "shielded" => wf.ending # "none"
    /\ wf.ending = "returned" => wf.at = "ended"
    /\ wf.at = "ended" => ~wf.stop /\ wf.ending # "none"

SpawnsInside == spawn.at # "idle" => wf.at \in {"spawning", "review"}

\* A close_agent that came back without an error closed its child.
ClosedAnswers ==
    \A c \in wf.begun :
        call[Workflow][c].at = "none" /\ call[Workflow][c].ok => lifecycle[c] = "CLOSED"

NothingForgotten ==
    wf.ending \in {"none", "returned"} =>
        \A c \in Child : Open(c) =>
            GivenUp(c) \/ (wf.ending = "none" /\ (c \in Listed \/ c = spawn.child))

WorkflowInv == WfTyped /\ ListsFit /\ EndsOnce /\ SpawnsInside /\ ClosedAnswers /\ NothingForgotten

\* What the manager does by itself opens no row, and whoever has a child in
\* hand closes it or gives it up.
ManagerForgets ==
    /\ spawn'.at # "idle" => spawn.at # "idle"
    /\ \A c \in Child : Open(c)' =>
          /\ Open(c)
          /\ GivenUp(c) => GivenUp(c)'
          /\ c = spawn.child => GivenUp(c)' \/ c = spawn'.child

LEMMA SettlingOpensNothing ==
    ASSUME SpawnTypeOK, NEW c \in Child, NEW outcome \in Terminal, PersistTerminal(c, outcome)
    PROVE  \A d \in Child : Open(d)' => Open(d)
BY DEF SpawnTypeOK, PersistTerminal, Open

LEMMA ClosingOpensNothing ==
    ASSUME SpawnTypeOK, NEW c \in Child, NEW force \in BOOLEAN, CloseRowUnsure(c, force)
    PROVE  \A d \in Child : Open(d)' => Open(d)
BY DEF SpawnTypeOK, CloseRowUnsure, CloseRow, Open, Active, Terminal

LEMMA SpawnForgetsNothing ==
    ASSUME SpawnInv, RowsInv, SpawnProgress \/ SpawnFailures \/ DiscardRecheckFails \/ SpawnReturns
    PROVE  ManagerForgets
<1>1. /\ SpawnTypeOK /\ lost \in Nat
      /\ spawn.at \in {"unsure", "compensate", "discard", "recheck"} => spawn.child \in Child
      /\ spawn.at = "raised" => spawn.child = Root
  BY DEF SpawnInv, SpawnTypeOK, SpawnOwns, RowsInv, Rests
<1>2. CASE Reconcile
  <2>1. spawn.child \in Child /\ UNCHANGED <<lifecycle, lost, abandoned>> /\ spawn.at = "unsure"
    BY <1>1, <1>2 DEF Reconcile, registryVars, histVars
  <2>2. lifecycle[spawn.child] = "NONE" \/ spawn'.child = spawn.child
    BY <1>1, <1>2 DEF Reconcile, SpawnTypeOK
  <2>3. QED
    BY <2>1, <2>2 DEF ManagerForgets, Open, GivenUp, Active, Terminal
<1>3. CASE ReconcileFails
  <2>1. UNCHANGED lifecycle /\ lost' = lost + 1 /\ spawn.at = "unsure"
    BY <1>3 DEF ReconcileFails, registryVars
  <2>2. QED
    BY <1>1, <2>1 DEF ManagerForgets, Open, GivenUp
<1>4. CASE Compensate \/ CompensateFails
  <2>1. spawn.child \in Child /\ UNCHANGED lost /\ spawn.at = "compensate"
    BY <1>1, <1>4 DEF Compensate, CompensateFails, histVars
  <2>2. \A c \in Child : Open(c)' => Open(c)
    <3>1. CASE UNCHANGED lifecycle
      BY <3>1 DEF Open
    <3>2. QED
      BY <1>1, <1>4, <2>1, <3>1, SettlingOpensNothing DEF Compensate, CompensateFails, Terminal
  <2>3. \/ spawn'.child = spawn.child /\ UNCHANGED abandoned
        \/ abandoned' = abandoned \cup {spawn.child}
    BY <1>1, <1>4 DEF Compensate, CompensateFails, SpawnTypeOK, histVars
  <2>4. QED
    BY <2>1, <2>2, <2>3 DEF ManagerForgets, GivenUp
<1>5. CASE Discard \/ DiscardFails
  <2>1. spawn.child \in Child /\ UNCHANGED <<lost, abandoned>> /\ spawn.at = "discard"
    BY <1>1, <1>5 DEF Discard, DiscardFails, histVars
  <2>2. CloseRowUnsure(spawn.child, FALSE)
    BY <1>5 DEF Discard, DiscardFails, CloseRowUnsure
  <2>3. \A c \in Child : Open(c)' => Open(c)
    BY <1>1, <2>1, <2>2, ClosingOpensNothing
  <2>4. spawn'.child = spawn.child \/ ~(\E c \in Child : c = spawn.child /\ Open(c)')
    BY <1>1, <1>5, <2>1
       DEF Discard, DiscardFails, SpawnTypeOK, CloseRow, Open, Active, Terminal
  <2>5. QED
    BY <2>1, <2>3, <2>4 DEF ManagerForgets, GivenUp
<1>6. CASE DiscardRechecks \/ DiscardRecheckFails
  <2>1. UNCHANGED <<lifecycle, lost>> /\ spawn.at = "recheck"
    BY <1>6 DEF DiscardRechecks, DiscardRecheckFails, registryVars
  <2>2. \/ lifecycle[spawn.child] = "CLOSED" /\ UNCHANGED abandoned
        \/ abandoned' = abandoned \cup {spawn.child}
    BY <1>6 DEF DiscardRechecks, DiscardRecheckFails
  <2>3. QED
    BY <2>1, <2>2 DEF ManagerForgets, Open, GivenUp, Active, Terminal
<1>7. CASE SpawnReturns
  <2>1. UNCHANGED <<lifecycle, lost, abandoned>> /\ spawn.child \notin Child /\ spawn'.at = "idle"
    BY <1>1, <1>7, SpawnAssumption DEF SpawnReturns, registryVars, histVars, NoSpawn
  <2>2. QED
    BY <2>1 DEF ManagerForgets, Open, GivenUp
<1>8. QED
  BY <1>2, <1>3, <1>4, <1>5, <1>6, <1>7 DEF SpawnProgress, SpawnFailures

LEMMA ManagerForgetsNothing ==
    ASSUME SpawnInv, RowsInv, Manages \/ UNCHANGED spawnVars
    PROVE  ManagerForgets
<1>1. SpawnTypeOK
  BY DEF SpawnInv
<1>2. ASSUME UNCHANGED <<spawn, lost, abandoned>>, \A c \in Child : Open(c)' => Open(c)
      PROVE  ManagerForgets
  BY <1>2 DEF ManagerForgets, GivenUp
<1>3. ASSUME UNCHANGED <<spawn, lost, abandoned, lifecycle>>
      PROVE  ManagerForgets
  BY <1>2, <1>3 DEF Open
<1>4. CASE UNCHANGED spawnVars
  BY <1>3, <1>4 DEF spawnVars, registryVars, histVars
<1>5. ASSUME NEW c \in Child, TaskSteps(c) \/ TaskFails(c)
      PROVE  ManagerForgets
  <2>1. CASE TaskBegins(c)
    <3>1. UNCHANGED <<spawn, lost, abandoned>> /\ \A d \in Child : Open(d)' => Open(d)
      BY <1>1, <2>1 DEF TaskBegins, histVars, SpawnTypeOK, Open, Active
    <3>2. QED
      BY <1>2, <3>1
  <2>2. CASE TaskSettles(c)
    <3>1. UNCHANGED <<spawn, lost, abandoned>> /\ \E outcome \in Terminal : PersistTerminal(c, outcome)
      BY <2>2 DEF TaskSettles, histVars
    <3>2. QED
      BY <1>1, <1>2, <3>1, SettlingOpensNothing
  <2>3. CASE TaskCancelled(c) \/ TaskFails(c) \/ \E outcome \in {"COMPLETED", "FAILED"} : RunnerEnds(c, outcome)
    BY <1>3, <2>3, Zenon DEF TaskCancelled, TaskFails, RunnerEnds, histVars, registryVars
  <2>4. QED
    BY <1>5, <2>1, <2>2, <2>3 DEF TaskSteps
<1>6. ASSUME NEW c \in Child, CollectorCloses(c) \/ CollectorCloseFails(c) \/ BootCloses(c)
      PROVE  ManagerForgets
  <2>1. UNCHANGED <<spawn, lost, abandoned>> /\ CloseRowUnsure(c, FALSE)
    BY <1>6 DEF CollectorCloses, CollectorCloseFails, BootCloses, histVars, CloseRowUnsure
  <2>2. QED
    BY <1>1, <1>2, <2>1, ClosingOpensNothing
<1>7. ASSUME NEW c \in Child, BootCancels(c)
      PROVE  ManagerForgets
  <2>1. UNCHANGED <<spawn, lost, abandoned>> /\ PersistTerminal(c, "CANCELLED")
    BY <1>7 DEF BootCancels, histVars
  <2>2. QED
    BY <1>1, <1>2, <2>1, SettlingOpensNothing DEF Terminal
<1>8. CASE ShutdownBegins \/ ShutdownEnds \/ Boots \/ BootEnds \/ \E c \in Child : ShutdownCloses(c)
  <2>1. UNCHANGED <<spawn, lost, abandoned, lifecycle>>
    BY <1>8, Zenon DEF ShutdownBegins, ShutdownEnds, Boots, BootEnds, ShutdownCloses, Enter, histVars, registryVars
  <2>2. QED
    BY <1>3, <2>1
<1>9. ASSUME NEW o \in Closer, NEW c \in Child, CloseBegins(o, c) \/ CloseEnds(o, c)
       PROVE  ManagerForgets
  BY <1>3, <1>9, Zenon DEF CloseBegins, Enter, CloseEnds, histVars, registryVars
<1>10. ASSUME NEW o \in Closer, NEW c \in Child, NEW d \in Child,
              \/ CloseLooks(o, c, d) \/ CloseWaits(o, c, d) \/ CloseTimesOut(o, c, d)
              \/ CloseDetaches(o, c, d) \/ CloseRechecks(o, c, d) \/ CloseRecheckFails(o, c, d)
       PROVE  ManagerForgets
  BY <1>3, <1>10, Zenon DEF CloseLooks, CloseWaits, CloseTimesOut, CloseDetaches, CloseRechecks,
     CloseRecheckFails, histVars, registryVars
<1>11. ASSUME NEW o \in Closer, NEW c \in Child, CloseFails(o, c)
      PROVE  ManagerForgets
  <2>1. UNCHANGED <<spawn, lost, abandoned>> /\ call[o][c].forced \in BOOLEAN
    BY <1>1, <1>11 DEF CloseFails, histVars, SpawnTypeOK
  <2>2. UNCHANGED lifecycle \/ \E e \in Child : CloseRowUnsure(e, call[o][c].forced)
    BY <1>1, <1>11 DEF CloseFails, IsNext, Deepest, SpawnTypeOK
  <2>3. QED
    BY <1>1, <1>2, <1>3, <2>1, <2>2, ClosingOpensNothing
<1>12. ASSUME NEW o \in Closer, NEW c \in Child, NEW e \in Child, CloseSettles(o, c, e)
       PROVE  ManagerForgets
  <2>1. UNCHANGED <<spawn, lost, abandoned>> /\ PersistTerminal(e, "CANCELLED")
    BY <1>12 DEF CloseSettles, histVars
  <2>2. QED
    BY <1>1, <1>2, <2>1, SettlingOpensNothing DEF Terminal
<1>13. ASSUME NEW o \in Closer, NEW c \in Child, NEW e \in Child, ClosePersists(o, c, e)
       PROVE  ManagerForgets
  <2>1. /\ UNCHANGED <<spawn, lost, abandoned>> /\ call[o][c].forced \in BOOLEAN
        /\ CloseRowUnsure(e, call[o][c].forced)
    BY <1>1, <1>13 DEF ClosePersists, histVars, SpawnTypeOK, CloseRowUnsure
  <2>2. QED
    BY <1>1, <1>2, <2>1, ClosingOpensNothing
<1>14. ASSUME NEW o \in Closer, NEW c \in Child,
              CloseProgress(o, c) \/ \E d \in Child : CloseTimesOut(o, c, d) \/ CloseRecheckFails(o, c, d)
       PROVE  ManagerForgets
  BY <1>12, <1>13, <1>14, <1>9, <1>10, Zenon DEF CloseProgress
<1>15. QED
  BY <1>4, <1>5, <1>6, <1>7, <1>8, <1>11, <1>14, <1>9, SpawnForgetsNothing, Zenon DEF Manages

\* A call that comes back without an error closed what it was called for, and
\* what is closed stays closed.
LEMMA CallsAnswer ==
    ASSUME SpawnInv, RowsAdvance, CallsMove, NEW o \in Closer, NEW c \in Child,
           call[o][c].at = "none" /\ call[o][c].ok => lifecycle[c] = "CLOSED"
    PROVE  call'[o][c].at = "none" /\ call'[o][c].ok => lifecycle'[c] = "CLOSED"
<1>1. CallsTyped /\ call[o][c] \in Calls
  BY TypedCalls DEF SpawnInv, CallsTyped
<1>2. CASE call'[o][c] = call[o][c]
  BY <1>2 DEF RowsAdvance, RowAdvances
<1>3. ASSUME NEW p \in Closer, NEW d \in Child, CallStep(p, d) \/ Enter(p, d) \/ CloseEnds(p, d)
      PROVE  call'[o][c].at = "none" /\ call'[o][c].ok => lifecycle'[c] = "CLOSED"
  <2>1. CASE CallStep(p, d)
    <3>1. PICK k \in Calls : call' = Overwritten(p, d, k) /\ MovesTo(p, d, k)
      BY <1>1, <2>1, CallStepsMove DEF SpawnInv, Moves
    <3>2. call'[p][d].at # "none" /\ (p # o \/ d # c => call'[o][c] = call[o][c])
      BY <1>1, <3>1, CallWritten DEF MovesTo
    <3>3. QED
      BY <1>2, <3>2
  <2>2. CASE Enter(p, d)
    <3>1. call'[p][d].at = "look" /\ (p # o \/ d # c => call'[o][c] = call[o][c])
      BY <1>1, <2>2 DEF Enter, CallsTyped
    <3>2. QED
      BY <1>2, <3>1
  <2>3. CASE CloseEnds(p, d)
    <3>1. /\ p # o \/ d # c => call'[o][c] = call[o][c]
          /\ call'[p][d].ok = call[p][d].ok
          /\ UNCHANGED lifecycle /\ Busy(p, d) /\ call[p][d].at = "end"
      BY <1>1, <2>3 DEF CloseEnds, CallsTyped, NoCall, registryVars, Busy
    <3>2. CoversCall(p, d) /\ ThroughCall(p, d)
      BY DEF SpawnInv, Covers, Through
    <3>3. call[p][d].ok => lifecycle'[d] = "CLOSED"
      BY <3>1, <3>2 DEF CoversCall, ThroughCall
    <3>4. QED
      BY <1>2, <3>1, <3>3
  <2>4. QED
    BY <1>3, <2>1, <2>2, <2>3
<1>4. QED
  BY <1>2, <1>3 DEF CallsMove

\* What follows a step of the manager, when the workflow drops from its lists
\* nothing but what is closed.
LEMMA StillListed ==
    ASSUME NothingForgotten, ManagerForgets,
           wf'.ending = "none" => /\ wf.ending = "none"
                                  /\ \A c \in Listed : c \in Listed' \/ lifecycle[c] = "CLOSED",
           wf'.ending = "returned" => wf.ending = "returned"
    PROVE  NothingForgotten'
BY DEF NothingForgotten, ManagerForgets, Open, Active, Terminal, GivenUp

LEMMA ListsStand == UNCHANGED wf => UNCHANGED Listed
BY DEF Listed

\* Its answers after a step that begins no close.
LEMMA AnswersStand ==
    ASSUME SpawnInv, WorkflowInv, Manages \/ UNCHANGED spawnVars, wf'.begun \in SUBSET wf.begun
    PROVE  ClosedAnswers'
<1>1. CASE UNCHANGED spawnVars
  BY <1>1 DEF spawnVars, registryVars, WorkflowInv, ClosedAnswers
<1>2. CASE Manages
  <2>1. SpawnNext /\ SpawnTypeOK /\ SpawnOwns
    BY <1>2, Zenon DEF Manages, SpawnNext, Lifecycle, SpawnInv
  <2>2. RowsAdvance /\ CallsMove
    BY <1>2, <2>1, RowsMove, CallsWhenManaging
  <2>3. wf.begun \subseteq Child /\ Workflow \in Closer
    BY WorkflowAssumption DEF WorkflowInv, WfTyped, Workflows
  <2>4. ASSUME NEW c \in wf'.begun
        PROVE  call'[Workflow][c].at = "none" /\ call'[Workflow][c].ok => lifecycle'[c] = "CLOSED"
    BY <2>2, <2>4, <2>3, CallsAnswer DEF WorkflowInv, ClosedAnswers
  <2>5. QED
    BY <2>4 DEF ClosedAnswers
<1>3. QED
  BY <1>1, <1>2

WorkflowKept == ListsFit' /\ EndsOnce' /\ SpawnsInside' /\ ClosedAnswers' /\ NothingForgotten'

\* The fields of a closing and of a leaving workflow.
LEMMA ClosingFields ==
    ASSUME WfTyped, NEW next, NEW ids
    PROVE  LET k == CloseAll(next, ids)
           IN  /\ k.at = next /\ k.closing = ids /\ k.begun = {}
               /\ k.unclosed = wf.unclosed /\ k.open = wf.open /\ k.reviewers = wf.reviewers
               /\ k.parent = wf.parent /\ k.stop = wf.stop /\ k.ending = wf.ending
BY DEF WfTyped, Workflows, CloseAll

LEMMA LeavingFields ==
    ASSUME WfTyped, NEW how
    PROVE  LET k == Leaves(how)
           IN  /\ k.at = "ended" /\ k.closing = {} /\ k.begun = {} /\ ~k.stop
               /\ k.unclosed = wf.unclosed /\ k.open = wf.open /\ k.reviewers = wf.reviewers
               /\ k.ending = IF wf.ending = "none" \/ how = "unclean" THEN how ELSE wf.ending
BY DEF WfTyped, Workflows, Leaves

\* The workflow stands while the manager goes on.
LEMMA ManagingKeepsWorkflow ==
    ASSUME SpawnInv, RowsInv, WorkflowInv, Manages \/ UNCHANGED spawnVars, UNCHANGED wf
    PROVE  WorkflowKept
<1>1. ManagerForgets /\ UNCHANGED Listed
  BY ManagerForgetsNothing, ListsStand
<1>2. ClosedAnswers'
  BY AnswersStand
<1>3. NothingForgotten'
  BY <1>1, StillListed DEF WorkflowInv
<1>4. ListsFit' /\ EndsOnce' /\ SpawnsInside'
  BY <1>1 DEF WorkflowInv, ListsFit, EndsOnce, SpawnsInside, ManagerForgets
<1>5. QED
  BY <1>2, <1>3, <1>4 DEF WorkflowKept

\* spawn_agent raised or refused; nothing is being spawned any more.
LEMMA RefusingKeepsWorkflow ==
    ASSUME SpawnInv, RowsInv, WorkflowInv, Manages \/ UNCHANGED spawnVars,
           wf.at \in {"spawning", "review"}, spawn'.at = "idle", wf' = Refused
    PROVE  WorkflowKept
<1>1. ManagerForgets /\ WfTyped /\ ListsFit /\ EndsOnce
  BY ManagerForgetsNothing DEF WorkflowInv
<1>2. /\ wf'.begun = {} /\ wf'.ending = wf.ending
      /\ wf'.open = wf.open /\ wf'.reviewers = wf.reviewers /\ wf'.unclosed = {}
  <2>1. CASE wf.at = "review"
    BY <1>1, <2>1, ClosingFields DEF Refused, ListsFit
  <2>2. CASE wf.at = "spawning"
    <3> DEFINE k == CloseAll("aborting", wf.unclosed)
    <3>1. k \in Workflows
      BY <1>1, ClosingTyped DEF WfTyped, Workflows, WfPlaces
    <3>2. k.begun = {} /\ k.ending = wf.ending /\ k.open = wf.open /\ k.reviewers = wf.reviewers
      BY <1>1, ClosingFields
    <3>3. wf' = [k EXCEPT !.unclosed = {}, !.wave = {}]
      BY <2>2 DEF Refused
    <3> HIDE DEF k
    <3>4. QED
      BY <3>1, <3>2, <3>3 DEF Workflows
  <2>3. QED
    BY <2>1, <2>2
<1>3. \/ wf.at = "review" /\ wf'.at = "cleanup" /\ wf'.closing = wf.open
      \/ wf.at = "spawning" /\ wf'.at = "aborting" /\ wf'.closing = wf.unclosed
  <2>1. CASE wf.at = "review"
    BY <1>1, <2>1, ClosingFields DEF Refused
  <2>2. CASE wf.at = "spawning"
    <3> DEFINE k == CloseAll("aborting", wf.unclosed)
    <3>1. k \in Workflows
      BY <1>1, ClosingTyped DEF WfTyped, Workflows, WfPlaces
    <3>2. k.at = "aborting" /\ k.closing = wf.unclosed
      BY <1>1, ClosingFields
    <3>3. wf' = [k EXCEPT !.unclosed = {}, !.wave = {}]
      BY <2>2 DEF Refused
    <3> HIDE DEF k
    <3>4. QED
      BY <2>2, <3>1, <3>2, <3>3 DEF Workflows
  <2>3. QED
    BY <2>1, <2>2
<1>4. ListsFit' /\ EndsOnce' /\ SpawnsInside'
  BY <1>1, <1>2, <1>3 DEF ListsFit, EndsOnce, SpawnsInside, Closing
<1>5. Listed \subseteq Listed'
  BY <1>1, <1>2, <1>3 DEF Listed, ListsFit, Closing
<1>6. NothingForgotten'
  BY <1>1, <1>2, <1>5, StillListed DEF WorkflowInv, EndsOnce
<1>7. ClosedAnswers'
  BY <1>2, AnswersStand
<1>8. QED
  BY <1>4, <1>6, <1>7 DEF WorkflowKept

LEMMA WaitingKeepsWorkflow ==
    ASSUME SpawnInv, RowsInv, WorkflowInv, WfWaveEnds \/ WfDecides \/ WfReviewed \/ \E c \in Child : WfWaits(c)
    PROVE  WorkflowKept
<1>1. UNCHANGED spawnVars /\ wf.at \in {"waiting", "deciding", "reviewing"}
  BY DEF WfWaveEnds, WfDecides, WfReviewed, WfWaits
<1>2. ManagerForgets /\ WfTyped /\ ListsFit /\ EndsOnce /\ SpawnsInside
  BY <1>1, ManagerForgetsNothing DEF WorkflowInv
<1>3. ASSUME ListsFit', wf'.begun \in SUBSET wf.begun, wf'.ending = wf.ending, wf'.stop = wf.stop,
             wf'.at \notin {"shielded", "ended"}, Listed \subseteq Listed'
      PROVE  WorkflowKept
  <2>1. EndsOnce' /\ SpawnsInside'
    BY <1>1, <1>2, <1>3 DEF EndsOnce, SpawnsInside, ManagerForgets
  <2>2. NothingForgotten'
    BY <1>2, <1>3, StillListed DEF WorkflowInv
  <2>3. ClosedAnswers'
    BY <1>1, <1>3, AnswersStand
  <2>4. QED
    BY <1>3, <2>1, <2>2, <2>3 DEF WorkflowKept
<1>4. ASSUME NEW next \in {"closing", "cleanup", "dismissing", "siblings"}, NEW ids \in SUBSET Child,
             NEW k \in Workflows, k = CloseAll(next, ids),
             \/ wf' = k
             \/ wf' = [k EXCEPT !.unclosed = {}]
             \/ \E p \in Child : wf' = [k EXCEPT !.parent = p]
      PROVE  /\ wf'.at = next /\ wf'.closing = ids /\ wf'.begun = {} /\ wf'.stop = wf.stop /\ wf'.ending = wf.ending
             /\ wf'.open = wf.open /\ wf'.reviewers = wf.reviewers
  <2>1. /\ k.at = next /\ k.closing = ids /\ k.begun = {} /\ k.stop = wf.stop /\ k.ending = wf.ending
        /\ k.open = wf.open /\ k.reviewers = wf.reviewers
    BY <1>2, <1>4, ClosingFields
  <2>2. QED
    BY <1>4, <2>1 DEF Workflows
<1>5. /\ wf.open \in SUBSET Child /\ wf.reviewers \in SUBSET Child /\ wf.unclosed \in SUBSET Child
      /\ wf \in Workflows /\ wf.good \in SUBSET Child
  BY <1>2 DEF WfTyped, Workflows
<1>6. CASE WfWaveEnds
  <2>1. CASE wf.sent < Requests
    <3>1. PICK k \in Workflows : k = CloseAll("closing", wf.unclosed)
      BY <1>2, <1>5, ClosingTyped DEF WfPlaces
    <3>2. wf' = [k EXCEPT !.unclosed = {}]
      BY <1>6, <2>1, <3>1 DEF WfWaveEnds
    <3>3. /\ wf'.at = "closing" /\ wf'.closing = wf.unclosed /\ wf'.begun = {}
          /\ wf'.stop = wf.stop /\ wf'.ending = wf.ending
          /\ wf'.open = wf.open /\ wf'.reviewers = wf.reviewers
      BY <1>4, <1>5, <3>1, <3>2
    <3>4. wf'.unclosed = {} /\ wf.at = "waiting"
      BY <1>6, <3>1, <3>2 DEF Workflows, WfWaveEnds
    <3>5. ListsFit' /\ Listed \subseteq Listed'
      BY <1>2, <3>3, <3>4 DEF ListsFit, Listed, Closing
    <3>6. QED
      BY <1>3, <3>3, <3>5
  <2>2. CASE ~(wf.sent < Requests)
    <3>1. wf.at = "waiting" /\ wf' = [wf EXCEPT !.at = "deciding", !.open = wf.unclosed, !.unclosed = {}]
      BY <1>6, <2>2 DEF WfWaveEnds
    <3>2. /\ wf'.at = "deciding" /\ wf'.closing = wf.closing /\ wf'.begun = wf.begun
          /\ wf'.stop = wf.stop /\ wf'.ending = wf.ending
          /\ wf'.open = wf.unclosed /\ wf'.unclosed = {} /\ wf'.reviewers = wf.reviewers
      BY <1>5, <3>1 DEF Workflows
    <3>3. ListsFit' /\ Listed \subseteq Listed'
      BY <1>2, <3>1, <3>2 DEF ListsFit, Listed, Closing
    <3>4. QED
      BY <1>3, <3>2, <3>3
  <2>3. QED
    BY <2>1, <2>2
<1>7. CASE WfDecides
  <2>1. PICK next \in {"cleanup", "siblings"}, ids \in SUBSET Child :
           \/ ids = wf.open /\ wf' = CloseAll(next, ids)
           \/ \E p \in Child : /\ next = "siblings" /\ ids = wf.open \ {p}
                               /\ wf' = [CloseAll(next, ids) EXCEPT !.parent = p]
    BY <1>5, <1>7 DEF WfDecides
  <2>2. PICK k \in Workflows : k = CloseAll(next, ids)
    BY <1>2, <2>1, ClosingTyped DEF WfPlaces
  <2>3. /\ wf'.at = next /\ wf'.closing = ids /\ wf'.begun = {}
        /\ wf'.stop = wf.stop /\ wf'.ending = wf.ending
        /\ wf'.open = wf.open /\ wf'.reviewers = wf.reviewers
    BY <1>4, <2>1, <2>2
  <2>4. /\ wf'.unclosed = wf.unclosed
        /\ ids = wf.open \/ (next = "siblings" /\ ids = wf.open \ {wf'.parent})
    <3>1. k.unclosed = wf.unclosed
      BY <1>2, <2>2, ClosingFields
    <3>2. QED
      BY <2>1, <2>2, <3>1 DEF Workflows
  <2>5. wf.at = "deciding"
    BY <1>7 DEF WfDecides
  <2>6. ListsFit' /\ Listed \subseteq Listed'
    BY <1>2, <2>3, <2>4, <2>5 DEF ListsFit, Listed, Closing
  <2>7. QED
    BY <1>3, <2>3, <2>6
<1>8. CASE WfReviewed
  <2>1. wf.at = "reviewing"
    BY <1>8 DEF WfReviewed
  <2>2. PICK next \in {"dismissing", "cleanup"}, ids \in SUBSET Child :
           /\ wf' = CloseAll(next, ids)
           /\ next = "cleanup" => ids = wf.open \cup wf.reviewers
    BY <1>5, <1>8 DEF WfReviewed
  <2>3. /\ wf'.at = next /\ wf'.closing = ids /\ wf'.begun = {}
        /\ wf'.stop = wf.stop /\ wf'.ending = wf.ending
        /\ wf'.open = wf.open /\ wf'.reviewers = wf.reviewers /\ wf'.unclosed = wf.unclosed
    BY <1>2, <2>2, ClosingFields
  <2>4. ListsFit' /\ Listed \subseteq Listed'
    BY <1>2, <2>1, <2>2, <2>3 DEF ListsFit, Listed, Closing
  <2>5. QED
    BY <1>3, <2>3, <2>4
<1>9. ASSUME NEW c \in Child, WfWaits(c)
      PROVE  WorkflowKept
  <2>1. /\ wf'.at = wf.at /\ wf'.closing = wf.closing /\ wf'.begun = wf.begun
        /\ wf'.stop = wf.stop /\ wf'.ending = wf.ending /\ wf'.parent = wf.parent
        /\ wf'.open = wf.open /\ wf'.reviewers = wf.reviewers /\ wf'.unclosed = wf.unclosed
    BY <1>5, <1>9 DEF WfWaits, Workflows
  <2>2. ListsFit' /\ Listed \subseteq Listed'
    BY <1>2, <2>1 DEF ListsFit, Listed
  <2>3. QED
    BY <1>1, <1>3, <2>1, <2>2
<1>10. QED
  BY <1>6, <1>7, <1>8, <1>9

LEMMA BeginningKeepsWorkflow ==
    ASSUME SpawnInv, RowsInv, WorkflowInv, NEW c \in Child, WfCloses(c)
    PROVE  WorkflowKept
<1>1. /\ Manages /\ Enter(Workflow, c) /\ Workflow \in Closer
      /\ c \in wf.closing /\ wf' = [wf EXCEPT !.begun = @ \cup {c}]
  BY WorkflowAssumption, Zenon DEF WfCloses, CloseBegins, Manages
<1>2. ManagerForgets /\ WfTyped /\ ListsFit /\ EndsOnce /\ SpawnsInside /\ wf \in Workflows
  BY <1>1, ManagerForgetsNothing DEF WorkflowInv, WfTyped
<1>3. /\ wf'.at = wf.at /\ wf'.closing = wf.closing /\ wf'.begun = wf.begun \cup {c}
      /\ wf'.stop = wf.stop /\ wf'.ending = wf.ending /\ wf'.parent = wf.parent
      /\ wf'.open = wf.open /\ wf'.reviewers = wf.reviewers /\ wf'.unclosed = wf.unclosed
  BY <1>1, <1>2 DEF Workflows
<1>4. ListsFit' /\ EndsOnce' /\ SpawnsInside' /\ Listed' = Listed
  BY <1>1, <1>2, <1>3 DEF ListsFit, EndsOnce, SpawnsInside, Listed, ManagerForgets
<1>5. NothingForgotten'
  BY <1>2, <1>3, <1>4, StillListed DEF WorkflowInv
<1>6. ClosedAnswers'
  <2>1. UNCHANGED lifecycle /\ call'[Workflow][c].at = "look"
    BY <1>1 DEF Enter, registryVars, SpawnInv, SpawnTypeOK
  <2>2. \A d \in Child \ {c} : call'[Workflow][d] = call[Workflow][d]
    BY <1>1 DEF Enter, SpawnInv, SpawnTypeOK
  <2>3. wf.begun \subseteq Child
    BY <1>2 DEF Workflows
  <2>4. QED
    BY <1>3, <2>1, <2>2, <2>3 DEF ClosedAnswers, WorkflowInv
<1>7. QED
  BY <1>4, <1>5, <1>6 DEF WorkflowKept

\* A _close_all is over; without an error all it was given is closed.
LEMMA ClosedKeepsWorkflow ==
    ASSUME SpawnInv, RowsInv, WorkflowInv, WfClosed
    PROVE  WorkflowKept
<1>1. UNCHANGED spawnVars /\ wf.at \in Closing /\ CallsOver /\ wf.begun = wf.closing
  BY DEF WfClosed
<1>2. ManagerForgets /\ WfTyped /\ ListsFit /\ EndsOnce /\ SpawnsInside /\ ClosedAnswers /\ wf \in Workflows
  BY <1>1, ManagerForgetsNothing DEF WorkflowInv, WfTyped
<1>3. CallsFine => \A c \in wf.closing : lifecycle[c] = "CLOSED"
  BY <1>1, <1>2 DEF CallsOver, CallsFine, ClosedAnswers
<1>4. spawn.at = "idle" /\ UNCHANGED <<spawn, lifecycle>>
  BY <1>1, <1>2 DEF SpawnsInside, Closing, spawnVars, registryVars
<1>5. wf.unclosed = {}
  BY <1>1, <1>2 DEF ListsFit, Closing
<1>6. ASSUME wf'.begun = {}, ListsFit', EndsOnce', NothingForgotten'
      PROVE  WorkflowKept
  <2>1. ClosedAnswers'
    BY <1>1, <1>6, AnswersStand
  <2>2. QED
    BY <1>4, <1>6, <2>1 DEF WorkflowKept, SpawnsInside
<1>7. CASE wf.at = "closing" /\ CallsFine
  <2>1. wf' = CloseAll("spawning", {})
    BY <1>7 DEF WfClosed
  <2>2. /\ wf'.at = "spawning" /\ wf'.closing = {} /\ wf'.begun = {} /\ wf'.ending = wf.ending
        /\ wf'.unclosed = wf.unclosed /\ wf'.open = wf.open /\ wf'.reviewers = wf.reviewers
    BY <1>2, <2>1, ClosingFields
  <2>3. ListsFit' /\ EndsOnce'
    BY <1>2, <1>7, <2>2 DEF ListsFit, EndsOnce, Closing
  <2>4. NothingForgotten'
    <3>1. \A c \in Listed : c \in Listed' \/ lifecycle[c] = "CLOSED"
      BY <1>3, <1>7, <2>2 DEF Listed
    <3>2. QED
      BY <1>2, <2>2, <3>1, StillListed DEF WorkflowInv
  <2>5. QED
    BY <1>6, <2>2, <2>3, <2>4
<1>8. CASE wf.at = "siblings" /\ CallsFine
  <2>1. wf' = [CloseAll("review", {}) EXCEPT !.open = @ \cap {wf.parent}]
    BY <1>8 DEF WfClosed
  <2>2. PICK k \in Workflows : k = CloseAll("review", {})
    BY <1>2, ClosingTyped DEF WfPlaces
  <2>3. /\ k.at = "review" /\ k.closing = {} /\ k.begun = {} /\ k.ending = wf.ending
        /\ k.unclosed = wf.unclosed /\ k.open = wf.open /\ k.reviewers = wf.reviewers
    BY <1>2, <2>2, ClosingFields
  <2>4. wf' = [k EXCEPT !.open = k.open \cap {wf.parent}]
    BY <2>1, <2>2
  <2>5. /\ wf'.at = "review" /\ wf'.closing = {} /\ wf'.begun = {} /\ wf'.ending = wf.ending
        /\ wf'.unclosed = wf.unclosed /\ wf'.open = wf.open \cap {wf.parent} /\ wf'.reviewers = wf.reviewers
    BY <2>2, <2>3, <2>4 DEF Workflows
  <2>6. ListsFit' /\ EndsOnce'
    BY <1>2, <1>5, <1>8, <2>5 DEF ListsFit, EndsOnce, Closing
  <2>7. NothingForgotten'
    <3>1. wf.open \ {wf.parent} \subseteq wf.closing
      BY <1>2, <1>8 DEF ListsFit
    <3>2. \A c \in Listed : c \in Listed' \/ lifecycle[c] = "CLOSED"
      BY <1>3, <1>8, <2>5, <3>1 DEF Listed
    <3>3. QED
      BY <1>2, <2>5, <3>2, StillListed DEF WorkflowInv
  <2>8. QED
    BY <1>6, <2>5, <2>6, <2>7
<1>9. CASE wf.at = "dismissing" \/ (wf.at = "siblings" /\ ~CallsFine)
  <2>1. wf' = [CloseAll("cleanup", wf.open \cup wf.reviewers) EXCEPT
                  !.ending = IF CallsFine THEN @ ELSE "unclean"]
    BY <1>9 DEF WfClosed
  <2>2. PICK k \in Workflows : k = CloseAll("cleanup", wf.open \cup wf.reviewers)
    <3>1. wf.open \cup wf.reviewers \in SUBSET Child
      BY <1>2 DEF Workflows
    <3>2. QED
      BY <1>2, <3>1, ClosingTyped DEF WfPlaces
  <2>3. /\ k.at = "cleanup" /\ k.closing = wf.open \cup wf.reviewers /\ k.begun = {} /\ k.ending = wf.ending
        /\ k.unclosed = wf.unclosed /\ k.open = wf.open /\ k.reviewers = wf.reviewers
    BY <1>2, <2>2, ClosingFields
  <2>4. wf' = [k EXCEPT !.ending = IF CallsFine THEN k.ending ELSE "unclean"]
    BY <2>1, <2>2
  <2>5. /\ wf'.at = "cleanup" /\ wf'.closing = wf.open \cup wf.reviewers /\ wf'.begun = {}
        /\ wf'.ending = IF CallsFine THEN wf.ending ELSE "unclean"
        /\ wf'.unclosed = wf.unclosed /\ wf'.open = wf.open /\ wf'.reviewers = wf.reviewers
    BY <2>2, <2>3, <2>4 DEF Workflows
  <2>6. ListsFit' /\ EndsOnce'
    BY <1>2, <1>5, <1>9, <2>5 DEF ListsFit, EndsOnce, Closing
  <2>7. NothingForgotten'
    <3>1. CallsFine => \A c \in Listed : c \in Listed' \/ lifecycle[c] = "CLOSED"
      BY <1>3, <2>5 DEF Listed
    <3>2. wf'.ending \in {"none", "returned"} => CallsFine /\ wf'.ending = wf.ending
      BY <2>5
    <3>3. QED
      BY <1>2, <3>1, <3>2, StillListed DEF WorkflowInv
  <2>8. QED
    BY <1>6, <2>5, <2>6, <2>7
<1>10. CASE wf.at \in {"cleanup", "aborting", "shielded"} \/ (wf.at = "closing" /\ ~CallsFine)
  <2>1. PICK how \in {"returned", "unclean"} : wf' = Leaves(how) /\ (how = "returned" => CallsFine)
    BY <1>10 DEF WfClosed
  <2>2. /\ wf'.at = "ended" /\ wf'.closing = {} /\ wf'.begun = {} /\ ~wf'.stop
        /\ wf'.ending = IF wf.ending = "none" \/ how = "unclean" THEN how ELSE wf.ending
        /\ wf'.unclosed = wf.unclosed /\ wf'.open = wf.open /\ wf'.reviewers = wf.reviewers
    BY <1>2, <2>1, LeavingFields
  <2>3. ListsFit' /\ EndsOnce'
    BY <1>5, <2>1, <2>2 DEF ListsFit, EndsOnce, Closing
  <2>4. ASSUME wf'.ending \in {"none", "returned"}, NEW c \in Child, Open(c)'
        PROVE  GivenUp(c)'
    <3>1. how = "returned" /\ CallsFine /\ wf.ending = "none" /\ wf.at \in {"cleanup", "aborting"}
      BY <1>2, <1>10, <2>1, <2>2, <2>4 DEF EndsOnce
    <3>2. Open(c) /\ UNCHANGED <<lost, abandoned>>
      BY <1>1, <1>2, <2>4 DEF ManagerForgets, spawnVars, histVars
    <3>3. GivenUp(c) \/ c \in Listed \/ c = spawn.child
      BY <3>1, <3>2 DEF WorkflowInv, NothingForgotten
    <3>4. c \notin wf.closing
      BY <1>3, <3>1, <3>2 DEF Open, Active, Terminal
    <3>5. c \notin Listed
      BY <1>2, <3>1, <3>4 DEF Listed, ListsFit
    <3>6. c # spawn.child
      BY <1>4, SpawnAssumption DEF RowsInv, Rests
    <3>7. QED
      BY <3>2, <3>3, <3>5, <3>6 DEF GivenUp
  <2>5. NothingForgotten'
    BY <2>4 DEF NothingForgotten
  <2>6. QED
    BY <1>6, <2>2, <2>3, <2>5
<1>11. QED
  BY <1>1, <1>7, <1>8, <1>9, <1>10 DEF Closing

\* The cancellation of the turn, and the handlers that clean up behind it.
LEMMA StoppingKeepsWorkflow ==
    ASSUME SpawnInv, RowsInv, WorkflowInv, WfStopped \/ \E c \in Child : WfCallStopped(c)
    PROVE  WorkflowKept
<1>1. CASE \E c \in Child : WfCallStopped(c)
  <2>1. Manages /\ UNCHANGED wf
    BY <1>1, WorkflowAssumption, Zenon DEF WfCallStopped, Manages
  <2>2. QED
    BY <2>1, ManagingKeepsWorkflow
<1>2. CASE WfStopped
  <2>1. UNCHANGED spawnVars /\ wf.at # "ended" /\ wf' = [wf EXCEPT !.stop = TRUE]
    BY <1>2 DEF WfStopped
  <2>2. ManagerForgets /\ WfTyped /\ ListsFit /\ EndsOnce /\ SpawnsInside
    BY <2>1, ManagerForgetsNothing DEF WorkflowInv, WfTyped
  <2>3. /\ wf'.at = wf.at /\ wf'.closing = wf.closing /\ wf'.begun = wf.begun
        /\ wf'.ending = wf.ending /\ wf'.parent = wf.parent
        /\ wf'.open = wf.open /\ wf'.reviewers = wf.reviewers /\ wf'.unclosed = wf.unclosed
    BY <2>1, <2>2 DEF WfTyped, Workflows
  <2>4. ListsFit' /\ EndsOnce' /\ SpawnsInside' /\ Listed' = Listed
    BY <2>1, <2>2, <2>3 DEF ListsFit, EndsOnce, SpawnsInside, Listed, ManagerForgets
  <2>5. NothingForgotten'
    BY <2>2, <2>3, <2>4, StillListed DEF WorkflowInv
  <2>6. ClosedAnswers'
    BY <2>1, <2>3, AnswersStand
  <2>7. QED
    BY <2>4, <2>5, <2>6 DEF WorkflowKept
<1>3. QED
  BY <1>1, <1>2

LEMMA UnwindingKeepsWorkflow ==
    ASSUME SpawnInv, RowsInv, WorkflowInv, WfUnwinds
    PROVE  WorkflowKept
<1>1. UNCHANGED spawnVars /\ spawn.at = "idle" /\ wf.stop
  BY DEF WfUnwinds
<1>2. WfTyped /\ ListsFit /\ EndsOnce /\ wf \in Workflows /\ UNCHANGED spawn
  BY <1>1 DEF WorkflowInv, WfTyped, spawnVars
<1>3. /\ wf.open \in SUBSET Child /\ wf.reviewers \in SUBSET Child
      /\ wf.unclosed \in SUBSET Child /\ wf.closing \in SUBSET Child
  BY <1>2 DEF Workflows
<1>4. ASSUME wf'.begun = {}, wf'.ending \notin {"none", "returned"}, ListsFit', wf'.at # "ended" \/ ~wf'.stop
      PROVE  WorkflowKept
  <2>1. ClosedAnswers'
    BY <1>1, <1>4, AnswersStand
  <2>2. QED
    BY <1>1, <1>2, <1>4, <2>1 DEF WorkflowKept, NothingForgotten, EndsOnce, SpawnsInside
<1>5. CASE wf.at \in {"closing", "aborting"}
  <2>1. wf' = Leaves("cancelled")
    BY <1>5 DEF WfUnwinds
  <2>2. /\ wf'.at = "ended" /\ wf'.closing = {} /\ wf'.begun = {} /\ ~wf'.stop
        /\ wf'.ending = IF wf.ending = "none" THEN "cancelled" ELSE wf.ending
        /\ wf'.unclosed = wf.unclosed /\ wf'.open = wf.open /\ wf'.reviewers = wf.reviewers
    BY <1>2, <2>1, LeavingFields
  <2>3. ListsFit' /\ wf.ending # "returned"
    BY <1>2, <1>5, <2>2 DEF ListsFit, EndsOnce, Closing
  <2>4. QED
    BY <1>4, <2>2, <2>3
<1>6. CASE wf.at \notin {"closing", "aborting"}
  <2>1. PICK next \in {"shielded", "dismissing", "cleanup"}, ids \in SUBSET Child :
           /\ wf' = [CloseAll(next, ids) EXCEPT !.stop = FALSE, !.wave = {}, !.unclosed = {},
                                                !.ending = "cancelled"]
           /\ next = "cleanup" => ids = wf.open \cup wf.reviewers
    BY <1>3, <1>6 DEF WfUnwinds
  <2>2. PICK k \in Workflows : k = CloseAll(next, ids)
    BY <1>2, <2>1, ClosingTyped DEF WfPlaces
  <2>3. /\ k.at = next /\ k.closing = ids /\ k.begun = {} /\ k.open = wf.open /\ k.reviewers = wf.reviewers
    BY <1>2, <2>2, ClosingFields
  <2>4. wf' = [k EXCEPT !.stop = FALSE, !.wave = {}, !.unclosed = {}, !.ending = "cancelled"]
    BY <2>1, <2>2
  <2>5. /\ wf'.at = next /\ wf'.closing = ids /\ wf'.begun = {} /\ wf'.ending = "cancelled"
        /\ wf'.unclosed = {} /\ wf'.open = wf.open /\ wf'.reviewers = wf.reviewers
    BY <2>2, <2>3, <2>4 DEF Workflows
  <2>6. ListsFit'
    BY <2>1, <2>5 DEF ListsFit, Closing
  <2>7. QED
    BY <1>4, <2>1, <2>5, <2>6
<1>7. QED
  BY <1>5, <1>6

\* A child that is being made is filed, or the spawn has it in hand.
LEMMA SpawningKeepsWorkflow ==
    ASSUME SpawnInv, RowsInv, WorkflowInv, WfSpawns \/ WfSpawnStopped
    PROVE  WorkflowKept
<1>1. /\ wf.at \in {"spawning", "review"} /\ spawn.at = "idle" /\ ~wf.stop
      /\ WfTyped /\ wf \in Workflows /\ ListsFit /\ EndsOnce /\ NothingForgotten
  BY DEF WfSpawns, WfSpawnStopped, Spawning, WorkflowInv, WfTyped
<1>2. wf.begun = {} /\ wf.ending # "returned"
  BY <1>1 DEF ListsFit, EndsOnce, Closing
<1>3. PICK c \in Child :
         \/ SpawnStarts(c, SpawnTarget) /\ wf' = Filed(c)
         \/ /\ SpawnInterrupted(c, SpawnTarget) \/ SpawnTaskless(c, SpawnTarget)
            /\ wf' = wf \/ wf' = [wf EXCEPT !.stop = TRUE]
  BY FreshIsChild DEF WfSpawns, WfSpawnStopped
<1>4. UNCHANGED <<lost, abandoned>> /\ \A d \in Child \ {c} : Open(d)' => Open(d)
  BY <1>3 DEF SpawnStarts, SpawnInterrupted, SpawnTaskless, InsertRow, histVars, SpawnInv, SpawnTypeOK, Open
<1>5. ASSUME NEW d \in Child \ {c}, Open(d)', wf'.ending \in {"none", "returned"}, wf'.ending = wf.ending
      PROVE  wf.ending = "none" /\ (GivenUp(d)' \/ d \in Listed)
  <2>1. wf.ending = "none" /\ Open(d)
    BY <1>2, <1>4, <1>5
  <2>2. GivenUp(d) \/ d \in Listed \/ d = spawn.child
    BY <1>1, <2>1 DEF NothingForgotten
  <2>3. d # spawn.child
    BY <1>1, SpawnAssumption DEF RowsInv, Rests
  <2>4. QED
    BY <1>4, <2>1, <2>2, <2>3 DEF GivenUp
<1>6. ASSUME SpawnStarts(c, SpawnTarget), wf' = Filed(c)
      PROVE  WorkflowKept
  <2>1. UNCHANGED spawn
    BY <1>6 DEF SpawnStarts
  <2>2. /\ wf'.closing = wf.closing /\ wf'.begun = wf.begun /\ wf'.stop = wf.stop
        /\ wf'.ending = wf.ending /\ wf'.open = wf.open
        /\ \/ /\ wf.at = "review" /\ wf'.at = "reviewing"
              /\ wf'.reviewers = {c} /\ wf'.unclosed = wf.unclosed
           \/ /\ wf.at = "spawning" /\ wf'.at \in {"waiting", "spawning"}
              /\ wf'.reviewers = wf.reviewers /\ wf'.unclosed = wf.unclosed \cup {c}
    <3>1. CASE wf.at = "review"
      <4>1. wf' = [wf EXCEPT !.at = "reviewing", !.reviewers = {c}]
        BY <1>6, <3>1 DEF Filed
      <4>2. QED
        BY <1>1, <3>1, <4>1 DEF Workflows
    <3>2. CASE wf.at = "spawning"
      <4>1. PICK at \in {"waiting", "spawning"} :
               wf' = [wf EXCEPT !.sent = @ + 1, !.unclosed = @ \cup {c}, !.wave = @ \cup {c}, !.at = at]
        BY <1>6, <3>2 DEF Filed
      <4>2. QED
        BY <1>1, <3>2, <4>1 DEF Workflows
    <3>3. QED
      BY <1>1, <3>1, <3>2
  <2>3. ListsFit' /\ EndsOnce' /\ SpawnsInside' /\ ClosedAnswers'
    BY <1>1, <1>2, <2>1, <2>2 DEF ListsFit, EndsOnce, SpawnsInside, ClosedAnswers, Closing
  <2>4. Listed \cup {c} \subseteq Listed'
    BY <1>1, <2>2 DEF Listed, ListsFit
  <2>5. NothingForgotten'
    BY <1>2, <1>5, <2>2, <2>4 DEF NothingForgotten
  <2>6. QED
    BY <2>3, <2>5 DEF WorkflowKept
<1>7. ASSUME SpawnInterrupted(c, SpawnTarget) \/ SpawnTaskless(c, SpawnTarget),
             wf' = wf \/ wf' = [wf EXCEPT !.stop = TRUE]
      PROVE  WorkflowKept
  <2>1. spawn'.child = c
    BY <1>7 DEF SpawnInterrupted, SpawnTaskless
  <2>2. /\ wf'.at = wf.at /\ wf'.closing = wf.closing /\ wf'.begun = wf.begun
        /\ wf'.ending = wf.ending /\ wf'.parent = wf.parent
        /\ wf'.open = wf.open /\ wf'.reviewers = wf.reviewers /\ wf'.unclosed = wf.unclosed
    BY <1>1, <1>7 DEF Workflows
  <2>3. ListsFit' /\ EndsOnce' /\ SpawnsInside' /\ ClosedAnswers'
    BY <1>1, <1>2, <2>2 DEF ListsFit, EndsOnce, SpawnsInside, ClosedAnswers
  <2>4. Listed' = Listed
    BY <2>2 DEF Listed
  <2>5. NothingForgotten'
    BY <1>2, <1>5, <2>1, <2>2, <2>4 DEF NothingForgotten
  <2>6. QED
    BY <2>3, <2>5 DEF WorkflowKept
<1>8. QED
  BY <1>3, <1>6, <1>7

LEMMA EndingKeepsWorkflow ==
    ASSUME Ends
    PROVE  WorkflowKept
<1>1. wf' = [WfStart EXCEPT !.at = "ended", !.ending = "lost"] /\ spawn' = NoSpawn
  BY DEF Ends, Dies
<1>2. /\ wf'.at = "ended" /\ wf'.ending = "lost" /\ ~wf'.stop /\ wf'.begun = {} /\ wf'.closing = {}
      /\ wf'.unclosed = {} /\ wf'.open = {} /\ wf'.reviewers = {} /\ spawn'.at = "idle"
  BY <1>1 DEF WfStart, NoSpawn
<1>3. QED
  BY <1>2 DEF WorkflowKept, ListsFit, EndsOnce, SpawnsInside, ClosedAnswers, NothingForgotten, Closing

LEMMA WorkflowInvInit == WorkflowInit => WorkflowInv
<1> SUFFICES ASSUME WorkflowInit
             PROVE  WorkflowInv
  OBVIOUS
<1>1. WfTyped
  BY DEF WorkflowInit, WfTyped, WfStart, Workflows, WfPlaces, Endings
<1>2. ListsFit /\ EndsOnce /\ SpawnsInside /\ ClosedAnswers
  BY DEF WorkflowInit, WfStart, SpawnInit, NoSpawn, ListsFit, EndsOnce, SpawnsInside, ClosedAnswers
<1>3. NothingForgotten
  BY DEF WorkflowInit, SpawnInit, NothingForgotten, Open, Active, Terminal
<1>4. QED
  BY <1>1, <1>2, <1>3 DEF WorkflowInv

LEMMA WorkflowInvStep ==
    SpawnInv /\ RowsInv /\ WorkflowInv /\ [WorkflowNext]_workflowVars => WorkflowInv'
<1> SUFFICES ASSUME SpawnInv, RowsInv, WorkflowInv, [WorkflowNext]_workflowVars
             PROVE  WorkflowInv'
  OBVIOUS
<1>1. WfTyped'
  BY WorkflowKeepsTypes DEF WorkflowInv
<1>2. CASE Runs \/ WfFails \/ WfRecheckFails \/ ShutsDown \/ Restarts \/ UNCHANGED workflowVars
  <2>1. UNCHANGED wf /\ (Manages \/ UNCHANGED spawnVars)
    BY <1>2, Zenon DEF Runs, WfFails, WfRecheckFails, ShutsDown, Restarts, Manages, workflowVars
  <2>2. QED
    BY <1>1, <2>1, ManagingKeepsWorkflow DEF WorkflowInv, WorkflowKept
<1>3. CASE WfRefused \/ WfSpawnRaised
  <2>1. wf.at \in {"spawning", "review"} /\ spawn'.at = "idle" /\ (Manages \/ UNCHANGED spawnVars)
    <3>1. CASE WfRefused
      BY <3>1 DEF WfRefused, Spawning, spawnVars
    <3>2. CASE WfSpawnRaised
      BY <3>2 DEF WfSpawnRaised, SpawnReturns, NoSpawn, Manages
    <3>3. QED
      BY <1>3, <3>1, <3>2
  <2>2. wf' = Refused \/ wf' = wf
    BY <1>3 DEF WfRefused, WfSpawnRaised
  <2>3. QED
    BY <1>1, <2>1, <2>2, RefusingKeepsWorkflow, ManagingKeepsWorkflow DEF WorkflowInv, WorkflowKept
<1>4. CASE WfWaveEnds \/ WfDecides \/ WfReviewed \/ \E c \in Child : WfWaits(c)
  BY <1>1, <1>4, WaitingKeepsWorkflow DEF WorkflowInv, WorkflowKept
<1>5. CASE WfClosed \/ WfUnwinds \/ Ends \/ \E c \in Child : WfCloses(c)
  BY <1>1, <1>5, ClosedKeepsWorkflow, UnwindingKeepsWorkflow, EndingKeepsWorkflow, BeginningKeepsWorkflow
     DEF WorkflowInv, WorkflowKept
<1>6. CASE WfStopped \/ WfSpawns \/ WfSpawnStopped \/ \E c \in Child : WfCallStopped(c)
  BY <1>1, <1>6, StoppingKeepsWorkflow, SpawningKeepsWorkflow DEF WorkflowInv, WorkflowKept
<1>7. QED
  BY <1>2, <1>3, <1>4, <1>5, <1>6, Zenon DEF WorkflowNext, WfSteps

-----------------------------------------------------------------------------
\* A workflow is a user of the manager: every behaviour of a workflow is, seen
\* at the manager, a behaviour of SpawnSpec.
THEOREM WorkflowUsesManager == WorkflowSpec => SpawnSpec
<1>1. WorkflowInit => SpawnInit /\ WfTyped
  BY DEF WorkflowInit, WfTyped, WfStart, Workflows, WfPlaces, Endings
<1>2. WfTyped /\ [WorkflowNext]_workflowVars => WfTyped'
  BY WorkflowKeepsTypes
<1>3. WfTyped /\ [WorkflowNext]_workflowVars => [SpawnNext]_spawnVars
  BY WorkflowMovesManager DEF ManagerStep
<1>4. QED
  BY <1>1, <1>2, <1>3, PTL DEF WorkflowSpec, SpawnSpec

\* With workflows, cancellations, failures and restarts no slot leaks, slots
\* follow rows, no row goes back and a close_agent that returns left nothing
\* open.
THEOREM WorkflowKeepsManager ==
    WorkflowSpec => []SlotsAccounted /\ []SlotsFollowRows /\ LifecycleOnlyAdvances /\ CloseIsDeep
BY WorkflowUsesManager, SlotsAreAccounted, SlotsStayWithRows, RowsOnlyAdvance, ClosesAreDeep, PTL

\* A workflow that returns has closed every child it made, but for those nobody
\* could reconcile or compensate (orchestration.py:298-365, 617-625).
THEOREM WorkflowsCleanUp == WorkflowSpec => []WorkflowCleansUp
<1>1. WorkflowInit => SpawnInv /\ RowsInv /\ WorkflowInv
  BY SpawnInvInit, RowsInvInit, WorkflowInvInit DEF WorkflowInit
<1>2. SpawnInv /\ RowsInv /\ WorkflowInv /\ [WorkflowNext]_workflowVars
        => SpawnInv' /\ RowsInv' /\ WorkflowInv'
  <2> SUFFICES ASSUME SpawnInv, RowsInv, WorkflowInv, [WorkflowNext]_workflowVars
               PROVE  SpawnInv' /\ RowsInv' /\ WorkflowInv'
    OBVIOUS
  <2>1. [SpawnNext]_spawnVars
    BY WorkflowMovesManager DEF WorkflowInv, ManagerStep
  <2>2. QED
    BY <2>1, SpawnInvStep, RowsInvStep, WorkflowInvStep
<1>3. WorkflowInv => WorkflowCleansUp
  BY DEF WorkflowInv, NothingForgotten, GivenUp, WorkflowCleansUp
<1>4. QED
  BY <1>1, <1>2, <1>3, PTL DEF WorkflowSpec
=============================================================================

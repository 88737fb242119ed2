-------------------------- MODULE SessionTurnProofs --------------------------
(***************************************************************************)
(* The safety of a chat round, for any number of sessions, users, turns,   *)
(* restarts and disturbances.  SessionTurnInv is inductive: a turn past    *)
(* its claim holds the lease unless its lease grew stale (LeaseInv), hence *)
(* the registry entry of a live task is its own (TaskInv) and an archived  *)
(* session has nobody left to act in it (ArchiveInv); the question of the  *)
(* holder is followed by questions only (QuestionInv), which is what makes *)
(* its reply fall in turn.  AdmissionInv, beside the types, is inductive   *)
(* too: the counters are the cardinalities of the requests in flight.      *)
(***************************************************************************)
EXTENDS SessionTurn, TLAPS, FiniteSetTheorems

-----------------------------------------------------------------------------
(* The inductive invariant.                                                *)

\* Past the claim and not over.
Engaged(t) == pc[t] \in {"claimed", "asked"} \cup TaskLive \cup Finishing

\* Lease and turn agree; only overrun leases are stale.
LeaseInv ==
    /\ \A s \in Sessions : lease[s] # Free => SessionOf[lease[s]] = s
    /\ \A s \in Sessions : stale[s] => lease[s] \in overran
    /\ \A t \in Turns : HoldsTurn(t) => Engaged(t) \/ (pc[t] = "over" /\ t \in disturbed)
    /\ \A t \in Turns : Engaged(t) /\ ~Overran(SessionOf[t]) => HoldsTurn(t)

\* Registry, answers and tasks agree while no turn overran.
TaskInv ==
    /\ \A t \in Turns : pc[t] \in TaskLive \cup {"done"} /\ ~Overran(SessionOf[t])
                            => registered[SessionOf[t]] = t
    /\ \A t \in Turns : answer[t] = "raised" => pc[t] \in {"finalizing", "over"}
    /\ StopIsAnswered

\* The question of t stands in log and only questions follow it.
Open(log, t) ==
    \E j \in 1 .. Len(log) :
        /\ log[j] = <<"question", t>>
        /\ \A k \in j .. Len(log) : log[k][1] = "question"

\* Nobody holds the lease of an archived session.
ArchiveInv ==
    \A s \in Sessions : status[s] = "archived" /\ ~Overran(s) =>
        /\ lease[s] = Free
        /\ ~child[s]
        /\ \A t \in PostedTo(s) : proposal[t] \in {"none", "settled"}

\* The holder's question is still unanswered.
QuestionInv ==
    \A t \in Turns : HoldsTurn(t) /\ pc[t] \in {"asked", "running"} =>
        Open(transcript[SessionOf[t]], t)

\* The order of RepliesInTurn, of one transcript.
InTurn(log) ==
    \A i \in DOMAIN log : log[i][1] = "reply" =>
        \E j \in 1 .. i - 1 :
            /\ log[j] = <<"question", log[i][2]>>
            /\ \A k \in j .. i - 1 : log[k][1] = "question"

\* Inductive; every theorem below follows from it.
SessionTurnInv ==
    /\ SessionTurnTypeOK /\ LeaseInv /\ TaskInv /\ ArchiveInv
    /\ QuestionInv /\ RepliesInTurn

-----------------------------------------------------------------------------
(* Types.                                                                  *)

\* A turn's session and its owner are among Sessions and Users.
LEMMA Addressed ==
    ASSUME NEW t \in Turns
    PROVE  SessionOf[t] \in Sessions /\ UserOf(t) \in Users /\ t # Free
BY SessionTurnAssumption DEF UserOf

\* Taking a place keeps the counters' types.
LEMMA PlaceTaken ==
    ASSUME SessionTurnTypeOK, NEW u \in Users, AcquirePlace(u)
    PROVE  total' \in Nat /\ perUser' \in [Users -> Nat]
BY DEF SessionTurnTypeOK, AcquirePlace

\* Giving a place back keeps the counters' types.
LEMMA PlaceReleased ==
    ASSUME SessionTurnTypeOK, NEW u \in Users, ReleasePlace(u)
    PROVE  total' \in Nat /\ perUser' \in [Users -> Nat]
<1>1. total \in Nat /\ perUser \in [Users -> Nat]
  BY DEF SessionTurnTypeOK
<1>2. total' \in Nat
  BY <1>1 DEF ReleasePlace
<1>3. (IF perUser[u] > 1 THEN perUser[u] - 1 ELSE 0) \in Nat
  BY <1>1
<1>. QED  BY <1>1, <1>2, <1>3 DEF ReleasePlace

\* Writing a message appends it to its own session's transcript.
LEMMA Written ==
    ASSUME SessionTurnTypeOK, NEW t \in Turns, NEW kind \in {"question", "reply"},
           Write(t, kind)
    PROVE  /\ transcript' \in [Sessions -> Seq({"question", "reply"} \X Turns)]
           /\ \A s \in Sessions : transcript'[s] =
                  IF s = SessionOf[t] THEN Append(transcript[s], <<kind, t>>)
                                      ELSE transcript[s]
<1>1. <<kind, t>> \in {"question", "reply"} \X Turns
  OBVIOUS
<1>2. Append(transcript[SessionOf[t]], <<kind, t>>) \in Seq({"question", "reply"} \X Turns)
  BY <1>1, Addressed DEF SessionTurnTypeOK
<1>. QED  BY <1>2, Addressed DEF SessionTurnTypeOK, Write

\* Every step preserves the types.
LEMMA TypeStep ==
    ASSUME SessionTurnTypeOK, [SessionTurnNext]_turnSpecVars
    PROVE  SessionTurnTypeOK'
<1>. USE DEF SessionTurnTypeOK, turnSpecVars, rowVars, memoryVars, countVars,
         turnVars, historyVars, Goto, Answer, InFlight, TaskLive, Finishing,
         Answers, ProposalStates, Disturb, Register, Unregister, ClaimTurn,
         ReleaseTurn
<1>1. ASSUME NEW t \in Turns, Post(t) PROVE SessionTurnTypeOK'
  BY <1>1, Addressed, PlaceTaken DEF Post
<1>2. ASSUME NEW t \in Turns, TurnAway(t) PROVE SessionTurnTypeOK'
  BY <1>2 DEF TurnAway
<1>3. ASSUME NEW t \in Turns, TakeLease(t) PROVE SessionTurnTypeOK'
  BY <1>3, Addressed DEF TakeLease
<1>4. ASSUME NEW t \in Turns, RefuseLease(t) PROVE SessionTurnTypeOK'
  BY <1>4, Addressed, PlaceReleased DEF RefuseLease
<1>5. ASSUME NEW t \in Turns, Ask(t) PROVE SessionTurnTypeOK'
  BY <1>5, Addressed, Written DEF Ask
<1>6. ASSUME NEW t \in Turns, AskFails(t) PROVE SessionTurnTypeOK'
  BY <1>6 DEF AskFails
<1>7. ASSUME NEW t \in Turns, StartTask(t) PROVE SessionTurnTypeOK'
  BY <1>7, Addressed DEF StartTask
<1>8. ASSUME NEW t \in Turns, Propose(t) PROVE SessionTurnTypeOK'
  BY <1>8 DEF Propose
<1>9. ASSUME NEW t \in Turns, SpawnChild(t) PROVE SessionTurnTypeOK'
  BY <1>9, Addressed DEF SpawnChild
<1>10. ASSUME NEW t \in Turns, PersistTurn(t) PROVE SessionTurnTypeOK'
  BY <1>10, Addressed, Written DEF PersistTurn
<1>11. ASSUME NEW t \in Turns, EndTask(t) PROVE SessionTurnTypeOK'
  BY <1>11 DEF EndTask
<1>12. ASSUME NEW t \in Turns, Interrupt(t) PROVE SessionTurnTypeOK'
  BY <1>12 DEF Interrupt
<1>13. ASSUME NEW t \in Turns, Unwound(t) PROVE SessionTurnTypeOK'
  BY <1>13 DEF Unwound
<1>14. ASSUME NEW t \in Turns, Wake(t) PROVE SessionTurnTypeOK'
  BY <1>14, Addressed DEF Wake
<1>15. ASSUME NEW t \in Turns, Close(t) PROVE SessionTurnTypeOK'
  BY <1>15, Addressed DEF Close
<1>16. ASSUME NEW t \in Turns, Finalize(t) PROVE SessionTurnTypeOK'
  BY <1>16, Addressed, PlaceReleased DEF Finalize
<1>17. ASSUME NEW t \in Turns, FinalizeFails(t) PROVE SessionTurnTypeOK'
  BY <1>17, Addressed, PlaceReleased DEF FinalizeFails
<1>18. ASSUME NEW t \in Turns, ServerCancel(t) PROVE SessionTurnTypeOK'
  <2>1. CASE pc[t] \in {"admitted", "claimed"} /\ pc' = [pc EXCEPT ![t] = "over"]
    BY <1>18, <2>1, Addressed, PlaceReleased DEF ServerCancel
  <2>2. CASE pc' = [pc EXCEPT ![t] = "finalizing"]
    BY <1>18, <2>2, Addressed DEF ServerCancel
  <2>3. CASE pc' = pc
    BY <1>18, <2>3 DEF ServerCancel
  <2>. QED  BY <1>18, <2>1, <2>2, <2>3 DEF ServerCancel
<1>19. ASSUME NEW t \in Turns, RequestCancel(t) PROVE SessionTurnTypeOK'
  BY <1>19 DEF RequestCancel
<1>20. ASSUME NEW t \in Turns, Review(t) PROVE SessionTurnTypeOK'
  BY <1>20 DEF Review
<1>21. ASSUME NEW s \in Sessions, LeaseAges(s) PROVE SessionTurnTypeOK'
  BY <1>21 DEF LeaseAges
<1>22. ASSUME NEW s \in Sessions, ChildEnds(s) PROVE SessionTurnTypeOK'
  BY <1>22 DEF ChildEnds
<1>23. ASSUME NEW s \in Sessions, Archive(s) PROVE SessionTurnTypeOK'
  BY <1>23 DEF Archive
<1>24. ASSUME NEW u \in Users, ElsewhereArrives(u) PROVE SessionTurnTypeOK'
  <2>1. elsewhere[u] \in 0 .. MaxElsewhere /\ elsewhere[u] + 1 \in 0 .. MaxElsewhere
    BY <1>24, SessionTurnAssumption DEF ElsewhereArrives
  <2>2. elsewhere' \in [Users -> 0 .. MaxElsewhere]
    BY <1>24, <2>1 DEF ElsewhereArrives
  <2>. QED  BY <1>24, <2>2, PlaceTaken DEF ElsewhereArrives
<1>25. ASSUME NEW u \in Users, ElsewhereLeaves(u) PROVE SessionTurnTypeOK'
  <2>1. elsewhere[u] \in 0 .. MaxElsewhere /\ elsewhere[u] - 1 \in 0 .. MaxElsewhere
    BY <1>25, SessionTurnAssumption DEF ElsewhereLeaves
  <2>2. elsewhere' \in [Users -> 0 .. MaxElsewhere]
    BY <1>25, <2>1 DEF ElsewhereLeaves
  <2>. QED  BY <1>25, <2>2, PlaceReleased DEF ElsewhereLeaves
<1>26. ASSUME Restart PROVE SessionTurnTypeOK'
  <2>1. MaxElsewhere \in Nat /\ MaxCrashes \in Nat
    BY SessionTurnAssumption
  <2>2. crashes' \in 0 .. MaxCrashes /\ elsewhere' \in [Users -> 0 .. MaxElsewhere]
    BY <1>26, <2>1 DEF Restart
  <2>. QED  BY <1>26, <2>2 DEF Restart
<1>27. ASSUME UNCHANGED turnSpecVars PROVE SessionTurnTypeOK'
  BY <1>27
<1>. QED
  BY <1>1, <1>2, <1>3, <1>4, <1>5, <1>6, <1>7, <1>8, <1>9, <1>10, <1>11, <1>12,
     <1>13, <1>14, <1>15, <1>16, <1>17, <1>18, <1>19, <1>20, <1>21, <1>22,
     <1>23, <1>24, <1>25, <1>26, <1>27
  DEF SessionTurnNext, Progress, Loop, Environment

-----------------------------------------------------------------------------
(* The lease.                                                              *)

\* A step that leaves the leases alone and moves no turn in or out of the
\* engaged states, but for ending it as disturbed, keeps LeaseInv.
LEMMA LeaseKept ==
    ASSUME LeaseInv, UNCHANGED <<lease, stale, overran>>, disturbed \subseteq disturbed',
           \A t \in Turns : HoldsTurn(t) /\ Engaged(t)
                                => Engaged(t)' \/ (pc'[t] = "over" /\ t \in disturbed'),
           \A t \in Turns : HoldsTurn(t) /\ pc[t] = "over" => pc'[t] = "over",
           \A t \in Turns : Engaged(t)' => Engaged(t)
    PROVE  LeaseInv'
BY DEF LeaseInv, HoldsTurn, Overran, PostedTo

\* Every step preserves LeaseInv: only TakeLease, on a free or stale lease, makes
\* a holder, and a turn leaves its lease behind only when it is disturbed.
LEMMA LeaseStep ==
    ASSUME SessionTurnTypeOK, LeaseInv, [SessionTurnNext]_turnSpecVars
    PROVE  LeaseInv'
<1>. USE DEF turnSpecVars, rowVars, memoryVars, countVars, turnVars,
         historyVars, Goto, Answer, Engaged, InFlight, TaskLive, Finishing,
         Disturb, SessionTurnTypeOK
<1>1. ASSUME NEW t \in Turns, Post(t) PROVE LeaseInv'
  BY <1>1, LeaseKept DEF Post
<1>2. ASSUME NEW t \in Turns, TurnAway(t) PROVE LeaseInv'
  BY <1>2, LeaseKept DEF TurnAway
<1>3. ASSUME NEW t \in Turns, TakeLease(t) PROVE LeaseInv'
  BY <1>3, Addressed DEF TakeLease, Claimable, ClaimTurn, LeaseInv, HoldsTurn,
     Overran, PostedTo
<1>4. ASSUME NEW t \in Turns, RefuseLease(t) PROVE LeaseInv'
  BY <1>4, LeaseKept DEF RefuseLease, LeaseInv, HoldsTurn
<1>5. ASSUME NEW t \in Turns, Ask(t) PROVE LeaseInv'
  BY <1>5, LeaseKept DEF Ask
<1>6. ASSUME NEW t \in Turns, AskFails(t) PROVE LeaseInv'
  BY <1>6, LeaseKept DEF AskFails
<1>7. ASSUME NEW t \in Turns, StartTask(t) PROVE LeaseInv'
  BY <1>7, LeaseKept DEF StartTask
<1>8. ASSUME NEW t \in Turns, Propose(t) PROVE LeaseInv'
  BY <1>8, LeaseKept DEF Propose
<1>9. ASSUME NEW t \in Turns, SpawnChild(t) PROVE LeaseInv'
  BY <1>9, LeaseKept DEF SpawnChild
<1>10. ASSUME NEW t \in Turns, PersistTurn(t) PROVE LeaseInv'
  BY <1>10, LeaseKept DEF PersistTurn
<1>11. ASSUME NEW t \in Turns, EndTask(t) PROVE LeaseInv'
  BY <1>11, LeaseKept DEF EndTask
<1>12. ASSUME NEW t \in Turns, Interrupt(t) PROVE LeaseInv'
  BY <1>12, LeaseKept DEF Interrupt
<1>13. ASSUME NEW t \in Turns, Unwound(t) PROVE LeaseInv'
  BY <1>13, LeaseKept DEF Unwound
<1>14. ASSUME NEW t \in Turns, Wake(t) PROVE LeaseInv'
  BY <1>14, LeaseKept DEF Wake
<1>15. ASSUME NEW t \in Turns, Close(t) PROVE LeaseInv'
  BY <1>15, LeaseKept DEF Close
<1>16. ASSUME NEW t \in Turns, Finalize(t) PROVE LeaseInv'
  BY <1>16, Addressed DEF Finalize, ReleaseTurn, LeaseInv, HoldsTurn, Overran,
     PostedTo
<1>17. ASSUME NEW t \in Turns, FinalizeFails(t) PROVE LeaseInv'
  BY <1>17, LeaseKept DEF FinalizeFails
<1>18. ASSUME NEW t \in Turns, ServerCancel(t) PROVE LeaseInv'
  BY <1>18, LeaseKept DEF ServerCancel
<1>19. ASSUME NEW t \in Turns, RequestCancel(t) PROVE LeaseInv'
  BY <1>19, LeaseKept DEF RequestCancel
<1>20. ASSUME NEW t \in Turns, Review(t) PROVE LeaseInv'
  BY <1>20, LeaseKept DEF Review
<1>21. ASSUME NEW s \in Sessions, LeaseAges(s) PROVE LeaseInv'
  BY <1>21 DEF LeaseAges, LeaseInv, HoldsTurn, Overran, PostedTo
<1>22. ASSUME NEW s \in Sessions, ChildEnds(s) PROVE LeaseInv'
  BY <1>22, LeaseKept DEF ChildEnds
<1>23. ASSUME NEW s \in Sessions, Archive(s) PROVE LeaseInv'
  BY <1>23, LeaseKept DEF Archive
<1>24. ASSUME NEW u \in Users, ElsewhereArrives(u) PROVE LeaseInv'
  BY <1>24, LeaseKept DEF ElsewhereArrives
<1>25. ASSUME NEW u \in Users, ElsewhereLeaves(u) PROVE LeaseInv'
  BY <1>25, LeaseKept DEF ElsewhereLeaves
<1>26. ASSUME Restart PROVE LeaseInv'
  BY <1>26, Addressed DEF Restart, LeaseInv, HoldsTurn, Overran, PostedTo
<1>27. ASSUME UNCHANGED turnSpecVars PROVE LeaseInv'
  BY <1>27, LeaseKept
<1>. QED
  BY <1>1, <1>2, <1>3, <1>4, <1>5, <1>6, <1>7, <1>8, <1>9, <1>10, <1>11, <1>12,
     <1>13, <1>14, <1>15, <1>16, <1>17, <1>18, <1>19, <1>20, <1>21, <1>22,
     <1>23, <1>24, <1>25, <1>26, <1>27
  DEF SessionTurnNext, Progress, Loop, Environment

-----------------------------------------------------------------------------
(* The task and its registry entry, and archiving.                         *)

\* Every step preserves TaskInv: a task is registered while it holds the lease.
LEMMA TaskStep ==
    ASSUME SessionTurnTypeOK, LeaseInv, TaskInv, [SessionTurnNext]_turnSpecVars
    PROVE  TaskInv'
<1>. USE DEF turnSpecVars, rowVars, memoryVars, countVars, turnVars,
         historyVars, Goto, Answer, InFlight, TaskLive, Finishing, Disturb,
         SessionTurnTypeOK, TaskInv, StopIsAnswered, Overran, PostedTo
<1>1. ASSUME NEW t \in Turns, Post(t) PROVE TaskInv'
  BY <1>1 DEF Post
<1>2. ASSUME NEW t \in Turns, TurnAway(t) PROVE TaskInv'
  BY <1>2 DEF TurnAway
<1>3. ASSUME NEW t \in Turns, TakeLease(t) PROVE TaskInv'
  BY <1>3 DEF TakeLease
<1>4. ASSUME NEW t \in Turns, RefuseLease(t) PROVE TaskInv'
  BY <1>4 DEF RefuseLease
<1>5. ASSUME NEW t \in Turns, Ask(t) PROVE TaskInv'
  BY <1>5 DEF Ask
<1>6. ASSUME NEW t \in Turns, AskFails(t) PROVE TaskInv'
  BY <1>6 DEF AskFails
<1>7. ASSUME NEW t \in Turns, StartTask(t) PROVE TaskInv'
  <2>1. \A x \in Turns : pc[x] \in TaskLive \cup {"done"} /\ ~Overran(SessionOf[x])
                            /\ SessionOf[x] = SessionOf[t] => x = t
    <3>1. \A x \in Turns : Engaged(x) /\ ~Overran(SessionOf[x]) => lease[SessionOf[x]] = x
      BY DEF LeaseInv, HoldsTurn
    <3>2. pc[t] = "asked"
      BY <1>7 DEF StartTask
    <3>3. \A x \in Turns : pc[x] \in TaskLive \cup {"done"} => Engaged(x)
      BY DEF Engaged
    <3>4. Engaged(t)
      BY <3>2 DEF Engaged
    <3>. HIDE DEF Overran, TaskInv, SessionTurnTypeOK
    <3>. QED  BY <3>1, <3>3, <3>4
  <2>. QED  BY <1>7, <2>1, Addressed DEF StartTask, Register
<1>8. ASSUME NEW t \in Turns, Propose(t) PROVE TaskInv'
  BY <1>8 DEF Propose
<1>9. ASSUME NEW t \in Turns, SpawnChild(t) PROVE TaskInv'
  BY <1>9 DEF SpawnChild
<1>10. ASSUME NEW t \in Turns, PersistTurn(t) PROVE TaskInv'
  BY <1>10 DEF PersistTurn
<1>11. ASSUME NEW t \in Turns, EndTask(t) PROVE TaskInv'
  <2>1. \A x \in Turns : pc'[x] = IF x = t THEN "done" ELSE pc[x]
    BY <1>11 DEF EndTask
  <2>2. \A x \in Turns : answer'[x] = "raised" => x # t /\ answer[x] = "raised"
    BY <1>11 DEF EndTask
  <2>3. pc[t] \in TaskLive
    BY <1>11 DEF EndTask
  <2>4. UNCHANGED <<registered, stopper, overran, disturbed>>
    BY <1>11 DEF EndTask
  <2>. QED  BY <2>1, <2>2, <2>3, <2>4
<1>12. ASSUME NEW t \in Turns, Interrupt(t) PROVE TaskInv'
  BY <1>12 DEF Interrupt
<1>13. ASSUME NEW t \in Turns, Unwound(t) PROVE TaskInv'
  BY <1>13 DEF Unwound
<1>14. ASSUME NEW t \in Turns, Wake(t) PROVE TaskInv'
  <2>. UNCHANGED <<stopper, overran, disturbed>> /\ pc[t] = "done"
    BY <1>14 DEF Wake
  <2>1. CASE UNCHANGED registered /\ pc' = [pc EXCEPT ![t] = "closing"]
               /\ \A x \in Turns : answer'[x] = "raised" => answer[x] = "raised"
    BY <2>1
  <2>2. CASE Unregister(t) /\ pc' = [pc EXCEPT ![t] = "finalizing"] /\ UNCHANGED answer
    BY <2>2, Addressed DEF Unregister
  <2>3. CASE /\ ~WasCancelledByUser(t) /\ Answer(t, "raised")
             /\ Unregister(t) /\ pc' = [pc EXCEPT ![t] = "finalizing"]
    <3>1. t \in stopper => Overran(SessionOf[t])
      BY <2>3 DEF WasCancelledByUser
    <3>. QED  BY <2>3, <3>1, Addressed DEF Unregister
  <2>. QED  BY <1>14, <2>1, <2>2, <2>3 DEF Wake
<1>15. ASSUME NEW t \in Turns, Close(t) PROVE TaskInv'
  BY <1>15, Addressed DEF Close, Unregister
<1>16. ASSUME NEW t \in Turns, Finalize(t) PROVE TaskInv'
  BY <1>16 DEF Finalize
<1>17. ASSUME NEW t \in Turns, FinalizeFails(t) PROVE TaskInv'
  BY <1>17 DEF FinalizeFails
<1>18. ASSUME NEW t \in Turns, ServerCancel(t) PROVE TaskInv'
  <2>1. CASE pc' = [pc EXCEPT ![t] = "over"] /\ UNCHANGED registered
    BY <1>18, <2>1, Addressed DEF ServerCancel
  <2>2. CASE pc' = [pc EXCEPT ![t] = "finalizing"] /\ Unregister(t)
    BY <1>18, <2>2, Addressed DEF ServerCancel, Unregister
  <2>3. CASE UNCHANGED <<pc, answer, registered>>
    BY <1>18, <2>3 DEF ServerCancel
  <2>4. CASE pc[t] = "done" /\ Answer(t, "cancelled") /\ UNCHANGED <<pc, registered>>
    BY <1>18, <2>4 DEF ServerCancel
  <2>. QED  BY <1>18, <2>1, <2>2, <2>3, <2>4 DEF ServerCancel
<1>19. ASSUME NEW t \in Turns, RequestCancel(t) PROVE TaskInv'
  BY <1>19 DEF RequestCancel
<1>20. ASSUME NEW t \in Turns, Review(t) PROVE TaskInv'
  BY <1>20 DEF Review
<1>21. ASSUME NEW s \in Sessions, LeaseAges(s) PROVE TaskInv'
  BY <1>21 DEF LeaseAges
<1>22. ASSUME NEW s \in Sessions, ChildEnds(s) PROVE TaskInv'
  BY <1>22 DEF ChildEnds
<1>23. ASSUME NEW s \in Sessions, Archive(s) PROVE TaskInv'
  BY <1>23 DEF Archive
<1>24. ASSUME NEW u \in Users, ElsewhereArrives(u) PROVE TaskInv'
  BY <1>24 DEF ElsewhereArrives
<1>25. ASSUME NEW u \in Users, ElsewhereLeaves(u) PROVE TaskInv'
  BY <1>25 DEF ElsewhereLeaves
<1>26. ASSUME Restart PROVE TaskInv'
  BY <1>26 DEF Restart
<1>27. ASSUME UNCHANGED turnSpecVars PROVE TaskInv'
  BY <1>27
<1>. QED
  BY <1>1, <1>2, <1>3, <1>4, <1>5, <1>6, <1>7, <1>8, <1>9, <1>10, <1>11, <1>12,
     <1>13, <1>14, <1>15, <1>16, <1>17, <1>18, <1>19, <1>20, <1>21, <1>22,
     <1>23, <1>24, <1>25, <1>26, <1>27
  DEF SessionTurnNext, Progress, Loop, Environment

\* Every step preserves ArchiveInv: an archived session grants no lease.
LEMMA ArchiveStep ==
    ASSUME SessionTurnTypeOK, LeaseInv, ArchiveInv, [SessionTurnNext]_turnSpecVars
    PROVE  ArchiveInv'
<1>. USE DEF turnSpecVars, rowVars, memoryVars, countVars, turnVars,
         historyVars, Goto, Answer, SessionTurnTypeOK, ArchiveInv, Overran,
         PostedTo
<1>1. ASSUME NEW t \in Turns, Post(t) PROVE ArchiveInv'
  BY <1>1 DEF Post
<1>2. ASSUME NEW t \in Turns, TurnAway(t) PROVE ArchiveInv'
  BY <1>2 DEF TurnAway
<1>3. ASSUME NEW t \in Turns, TakeLease(t) PROVE ArchiveInv'
  BY <1>3, Addressed DEF TakeLease, Claimable, ClaimTurn
<1>4. ASSUME NEW t \in Turns, RefuseLease(t) PROVE ArchiveInv'
  BY <1>4 DEF RefuseLease
<1>5. ASSUME NEW t \in Turns, Ask(t) PROVE ArchiveInv'
  BY <1>5 DEF Ask
<1>6. ASSUME NEW t \in Turns, AskFails(t) PROVE ArchiveInv'
  BY <1>6 DEF AskFails
<1>7. ASSUME NEW t \in Turns, StartTask(t) PROVE ArchiveInv'
  BY <1>7 DEF StartTask
<1>8. ASSUME NEW t \in Turns, Propose(t) PROVE ArchiveInv'
  <2>1. ~Overran(SessionOf[t]) => lease[SessionOf[t]] # Free
    BY <1>8, Addressed DEF Propose, LeaseInv, Engaged, HoldsTurn, TaskLive
  <2>. QED  BY <1>8, <2>1, Addressed DEF Propose
<1>9. ASSUME NEW t \in Turns, SpawnChild(t) PROVE ArchiveInv'
  <2>1. ~Overran(SessionOf[t]) => lease[SessionOf[t]] # Free
    BY <1>9, Addressed DEF SpawnChild, LeaseInv, Engaged, HoldsTurn, TaskLive
  <2>. QED  BY <1>9, <2>1, Addressed DEF SpawnChild
<1>10. ASSUME NEW t \in Turns, PersistTurn(t) PROVE ArchiveInv'
  BY <1>10 DEF PersistTurn
<1>11. ASSUME NEW t \in Turns, EndTask(t) PROVE ArchiveInv'
  BY <1>11 DEF EndTask
<1>12. ASSUME NEW t \in Turns, Interrupt(t) PROVE ArchiveInv'
  BY <1>12 DEF Interrupt
<1>13. ASSUME NEW t \in Turns, Unwound(t) PROVE ArchiveInv'
  BY <1>13 DEF Unwound
<1>14. ASSUME NEW t \in Turns, Wake(t) PROVE ArchiveInv'
  BY <1>14 DEF Wake
<1>15. ASSUME NEW t \in Turns, Close(t) PROVE ArchiveInv'
  BY <1>15 DEF Close
<1>16. ASSUME NEW t \in Turns, Finalize(t) PROVE ArchiveInv'
  BY <1>16 DEF Finalize, ReleaseTurn
<1>17. ASSUME NEW t \in Turns, FinalizeFails(t) PROVE ArchiveInv'
  BY <1>17 DEF FinalizeFails, Disturb
<1>18. ASSUME NEW t \in Turns, ServerCancel(t) PROVE ArchiveInv'
  BY <1>18 DEF ServerCancel, Disturb
<1>19. ASSUME NEW t \in Turns, RequestCancel(t) PROVE ArchiveInv'
  BY <1>19 DEF RequestCancel
<1>20. ASSUME NEW t \in Turns, Review(t) PROVE ArchiveInv'
  BY <1>20 DEF Review
<1>21. ASSUME NEW s \in Sessions, LeaseAges(s) PROVE ArchiveInv'
  BY <1>21 DEF LeaseAges, LeaseInv
<1>22. ASSUME NEW s \in Sessions, ChildEnds(s) PROVE ArchiveInv'
  BY <1>22 DEF ChildEnds
<1>23. ASSUME NEW s \in Sessions, Archive(s) PROVE ArchiveInv'
  <2>1. ~Overran(s) => lease[s] = Free /\ ~child[s]
    BY <1>23 DEF Archive, LeaseInv
  <2>2. \A t \in PostedTo(s) : proposal'[t] \in {"none", "settled"}
    BY <1>23 DEF Archive, ProposalStates
  <2>3. \A t \in Turns : proposal[t] \in {"none", "settled"} => proposal'[t] = proposal[t]
    BY <1>23 DEF Archive
  <2>. QED  BY <1>23, <2>1, <2>2, <2>3 DEF Archive
<1>24. ASSUME NEW u \in Users, ElsewhereArrives(u) PROVE ArchiveInv'
  BY <1>24 DEF ElsewhereArrives
<1>25. ASSUME NEW u \in Users, ElsewhereLeaves(u) PROVE ArchiveInv'
  BY <1>25 DEF ElsewhereLeaves
<1>26. ASSUME Restart PROVE ArchiveInv'
  BY <1>26 DEF Restart
<1>27. ASSUME UNCHANGED turnSpecVars PROVE ArchiveInv'
  BY <1>27
<1>. QED
  BY <1>1, <1>2, <1>3, <1>4, <1>5, <1>6, <1>7, <1>8, <1>9, <1>10, <1>11, <1>12,
     <1>13, <1>14, <1>15, <1>16, <1>17, <1>18, <1>19, <1>20, <1>21, <1>22,
     <1>23, <1>24, <1>25, <1>26, <1>27
  DEF SessionTurnNext, Progress, Loop, Environment

-----------------------------------------------------------------------------
(* The order of the transcript.                                            *)

\* Another question leaves a question open.
LEMMA StaysOpen ==
    ASSUME NEW log \in Seq({"question", "reply"} \X Turns),
           NEW t \in Turns, NEW x \in Turns, Open(log, t)
    PROVE  Open(Append(log, <<"question", x>>), t)
<1>. DEFINE new == Append(log, <<"question", x>>)
<1>1. /\ Len(new) = Len(log) + 1 /\ Len(log) \in Nat
      /\ new[Len(log) + 1] = <<"question", x>>
      /\ \A i \in 1 .. Len(log) : new[i] = log[i]
  OBVIOUS
<1>2. PICK j \in 1 .. Len(log) :
          /\ log[j] = <<"question", t>>
          /\ \A k \in j .. Len(log) : log[k][1] = "question"
  BY DEF Open
<1>. HIDE DEF new
<1>3. j \in 1 .. Len(new) /\ new[j] = <<"question", t>>
  BY <1>1, <1>2
<1>4. ASSUME NEW k \in j .. Len(new) PROVE new[k][1] = "question"
  <2>1. CASE k \in j .. Len(log)
    BY <1>1, <1>2, <2>1
  <2>2. CASE k = Len(log) + 1
    BY <1>1, <2>2
  <2>. QED  BY <1>1, <1>2, <2>1, <2>2
<1>. QED  BY <1>3, <1>4 DEF Open, new

\* A new question is open.
LEMMA Opens ==
    ASSUME NEW log \in Seq({"question", "reply"} \X Turns), NEW t \in Turns
    PROVE  Open(Append(log, <<"question", t>>), t)
<1>. DEFINE new == Append(log, <<"question", t>>)
<1>1. Len(new) \in Nat \ {0} /\ new[Len(new)] = <<"question", t>>
  OBVIOUS
<1>. HIDE DEF new
<1>. QED  BY <1>1 DEF Open, new

\* A question never disturbs the order of replies.
LEMMA QuestionKeepsOrder ==
    ASSUME NEW log \in Seq({"question", "reply"} \X Turns), NEW t \in Turns, InTurn(log)
    PROVE  InTurn(Append(log, <<"question", t>>))
<1>. DEFINE new == Append(log, <<"question", t>>)
<1>1. /\ DOMAIN new = 1 .. Len(log) + 1 /\ Len(log) \in Nat /\ DOMAIN log = 1 .. Len(log)
      /\ new[Len(log) + 1] = <<"question", t>>
      /\ \A i \in 1 .. Len(log) : new[i] = log[i]
  OBVIOUS
<1>. HIDE DEF new
<1>. SUFFICES ASSUME NEW i \in DOMAIN new, new[i][1] = "reply"
              PROVE  \E j \in 1 .. i - 1 :
                         /\ new[j] = <<"question", new[i][2]>>
                         /\ \A k \in j .. i - 1 : new[k][1] = "question"
  BY DEF InTurn, new
<1>2. i \in 1 .. Len(log) /\ log[i][1] = "reply"
  BY <1>1
<1>. QED
  <2>1. PICK j \in 1 .. i - 1 :
            /\ log[j] = <<"question", log[i][2]>>
            /\ \A k \in j .. i - 1 : log[k][1] = "question"
    BY <1>1, <1>2 DEF InTurn
  <2>2. new[i] = log[i] /\ new[j] = log[j] /\ \A k \in j .. i - 1 : new[k] = log[k]
    BY <1>1, <1>2
  <2>. QED  BY <2>1, <2>2

\* A reply to an open question keeps the order.
LEMMA ReplyKeepsOrder ==
    ASSUME NEW log \in Seq({"question", "reply"} \X Turns),
           NEW t \in Turns, InTurn(log), Open(log, t)
    PROVE  InTurn(Append(log, <<"reply", t>>))
<1>. DEFINE new == Append(log, <<"reply", t>>)
<1>1. /\ DOMAIN new = 1 .. Len(log) + 1 /\ Len(log) \in Nat /\ DOMAIN log = 1 .. Len(log)
      /\ new[Len(log) + 1] = <<"reply", t>>
      /\ \A i \in 1 .. Len(log) : new[i] = log[i]
  OBVIOUS
<1>. HIDE DEF new
<1>. SUFFICES ASSUME NEW i \in DOMAIN new, new[i][1] = "reply"
              PROVE  \E j \in 1 .. i - 1 :
                         /\ new[j] = <<"question", new[i][2]>>
                         /\ \A k \in j .. i - 1 : new[k][1] = "question"
  BY DEF InTurn, new
<1>2. CASE i \in 1 .. Len(log)
  <2>1. PICK j \in 1 .. i - 1 :
            /\ log[j] = <<"question", log[i][2]>>
            /\ \A k \in j .. i - 1 : log[k][1] = "question"
    <3>1. log[i][1] = "reply" /\ i \in DOMAIN log
      BY <1>1, <1>2
    <3>. QED  BY <3>1 DEF InTurn
  <2>2. new[i] = log[i] /\ new[j] = log[j] /\ \A k \in j .. i - 1 : new[k] = log[k]
    BY <1>1, <1>2
  <2>. QED  BY <2>1, <2>2
<1>3. CASE i = Len(log) + 1
  BY <1>1, <1>3 DEF Open
<1>. QED  BY <1>1, <1>2, <1>3

\* A step that writes nothing and makes nobody a holder in the loop keeps
\* QuestionInv.
LEMMA QuestionKept ==
    ASSUME QuestionInv, UNCHANGED transcript,
           \A t \in Turns : (HoldsTurn(t) /\ pc[t] \in {"asked", "running"})'
                                => HoldsTurn(t) /\ pc[t] \in {"asked", "running"}
    PROVE  QuestionInv'
BY DEF QuestionInv

\* RepliesInTurn is InTurn of every transcript.
LEMMA OrderIsInTurn == RepliesInTurn <=> \A s \in Sessions : InTurn(transcript[s])
BY DEF RepliesInTurn, InTurn

\* Every step preserves QuestionInv: only the holder replies.
LEMMA QuestionStep ==
    ASSUME SessionTurnTypeOK, QuestionInv, [SessionTurnNext]_turnSpecVars
    PROVE  QuestionInv'
<1>. USE DEF turnSpecVars, rowVars, memoryVars, countVars, turnVars,
         historyVars, Goto, Answer, TaskLive, HoldsTurn, SessionTurnTypeOK
<1>1. ASSUME NEW t \in Turns, Post(t) PROVE QuestionInv'
  BY <1>1, QuestionKept DEF Post
<1>2. ASSUME NEW t \in Turns, TurnAway(t) PROVE QuestionInv'
  BY <1>2, QuestionKept DEF TurnAway
<1>3. ASSUME NEW t \in Turns, TakeLease(t) PROVE QuestionInv'
  BY <1>3, Addressed, QuestionKept DEF TakeLease, ClaimTurn, ReleaseTurn
<1>4. ASSUME NEW t \in Turns, RefuseLease(t) PROVE QuestionInv'
  BY <1>4, QuestionKept DEF RefuseLease
<1>5. ASSUME NEW t \in Turns, Ask(t) PROVE QuestionInv'
  <2>1. Write(t, "question") /\ UNCHANGED lease
    BY <1>5 DEF Ask
  <2>. DEFINE log == transcript[SessionOf[t]]
  <2>3. /\ log \in Seq({"question", "reply"} \X Turns)
        /\ \A x \in Turns : transcript'[SessionOf[x]] =
               IF SessionOf[x] = SessionOf[t] THEN Append(log, <<"question", t>>)
                                              ELSE transcript[SessionOf[x]]
    <3>1. \A s \in Sessions : transcript'[s] =
              IF s = SessionOf[t] THEN Append(transcript[s], <<"question", t>>)
                                  ELSE transcript[s]
      BY <2>1, Written
    <3>. QED  BY <3>1, Addressed DEF SessionTurnTypeOK
  <2>. HIDE DEF log, SessionTurnTypeOK
  <2>2. ASSUME NEW x \in Turns, (HoldsTurn(x) /\ pc[x] \in {"asked", "running"})'
        PROVE  Open(transcript'[SessionOf[x]], x)
    <3>1. CASE x = t
      BY <2>3, <3>1, Opens
    <3>2. CASE x # t
      <4>1. Open(transcript[SessionOf[x]], x)
        <5>1. HoldsTurn(x) /\ pc[x] \in {"asked", "running"}
          BY <1>5, <2>2, <3>2 DEF Ask
        <5>. QED  BY <5>1 DEF QuestionInv
      <4>2. CASE SessionOf[x] = SessionOf[t]
        BY <2>3, <4>1, <4>2, StaysOpen DEF log
      <4>3. CASE SessionOf[x] # SessionOf[t]
        BY <2>3, <4>1, <4>3
      <4>. QED  BY <4>2, <4>3
    <3>. QED  BY <3>1, <3>2
  <2>. QED  BY <2>2 DEF QuestionInv
<1>6. ASSUME NEW t \in Turns, AskFails(t) PROVE QuestionInv'
  BY <1>6, QuestionKept DEF AskFails
<1>7. ASSUME NEW t \in Turns, StartTask(t) PROVE QuestionInv'
  BY <1>7, QuestionKept DEF StartTask
<1>8. ASSUME NEW t \in Turns, Propose(t) PROVE QuestionInv'
  BY <1>8, QuestionKept DEF Propose
<1>9. ASSUME NEW t \in Turns, SpawnChild(t) PROVE QuestionInv'
  BY <1>9, QuestionKept DEF SpawnChild
<1>10. ASSUME NEW t \in Turns, PersistTurn(t) PROVE QuestionInv'
  <2>1. Write(t, "reply") /\ UNCHANGED lease /\ HoldsTurn(t)
    BY <1>10 DEF PersistTurn
  <2>2. ASSUME NEW x \in Turns, (HoldsTurn(x) /\ pc[x] \in {"asked", "running"})'
        PROVE  Open(transcript'[SessionOf[x]], x)
    <3>1. x # t /\ SessionOf[x] # SessionOf[t] /\ pc[x] \in {"asked", "running"}
      BY <1>10, <2>1, <2>2 DEF PersistTurn
    <3>2. Open(transcript[SessionOf[x]], x)
      BY <2>1, <2>2, <3>1 DEF QuestionInv
    <3>. QED  BY <2>1, <3>1, <3>2, Addressed, Written
  <2>. QED  BY <2>2 DEF QuestionInv
<1>11. ASSUME NEW t \in Turns, EndTask(t) PROVE QuestionInv'
  BY <1>11, QuestionKept DEF EndTask
<1>12. ASSUME NEW t \in Turns, Interrupt(t) PROVE QuestionInv'
  BY <1>12, QuestionKept DEF Interrupt
<1>13. ASSUME NEW t \in Turns, Unwound(t) PROVE QuestionInv'
  BY <1>13, QuestionKept DEF Unwound
<1>14. ASSUME NEW t \in Turns, Wake(t) PROVE QuestionInv'
  BY <1>14, QuestionKept DEF Wake
<1>15. ASSUME NEW t \in Turns, Close(t) PROVE QuestionInv'
  BY <1>15, QuestionKept DEF Close
<1>16. ASSUME NEW t \in Turns, Finalize(t) PROVE QuestionInv'
  BY <1>16, Addressed, QuestionKept DEF Finalize, ClaimTurn, ReleaseTurn
<1>17. ASSUME NEW t \in Turns, FinalizeFails(t) PROVE QuestionInv'
  BY <1>17, QuestionKept DEF FinalizeFails
<1>18. ASSUME NEW t \in Turns, ServerCancel(t) PROVE QuestionInv'
  BY <1>18, QuestionKept DEF ServerCancel
<1>19. ASSUME NEW t \in Turns, RequestCancel(t) PROVE QuestionInv'
  BY <1>19, QuestionKept DEF RequestCancel
<1>20. ASSUME NEW t \in Turns, Review(t) PROVE QuestionInv'
  BY <1>20, QuestionKept DEF Review
<1>21. ASSUME NEW s \in Sessions, LeaseAges(s) PROVE QuestionInv'
  BY <1>21, QuestionKept DEF LeaseAges
<1>22. ASSUME NEW s \in Sessions, ChildEnds(s) PROVE QuestionInv'
  BY <1>22, QuestionKept DEF ChildEnds
<1>23. ASSUME NEW s \in Sessions, Archive(s) PROVE QuestionInv'
  BY <1>23, QuestionKept DEF Archive
<1>24. ASSUME NEW u \in Users, ElsewhereArrives(u) PROVE QuestionInv'
  BY <1>24, QuestionKept DEF ElsewhereArrives
<1>25. ASSUME NEW u \in Users, ElsewhereLeaves(u) PROVE QuestionInv'
  BY <1>25, QuestionKept DEF ElsewhereLeaves
<1>26. ASSUME Restart PROVE QuestionInv'
  BY <1>26, Addressed, QuestionKept DEF Restart, ClaimTurn, ReleaseTurn
<1>27. ASSUME UNCHANGED turnSpecVars PROVE QuestionInv'
  BY <1>27, QuestionKept
<1>. QED
  BY <1>1, <1>2, <1>3, <1>4, <1>5, <1>6, <1>7, <1>8, <1>9, <1>10, <1>11, <1>12,
     <1>13, <1>14, <1>15, <1>16, <1>17, <1>18, <1>19, <1>20, <1>21, <1>22,
     <1>23, <1>24, <1>25, <1>26, <1>27
  DEF SessionTurnNext, Progress, Loop, Environment

\* Every step preserves RepliesInTurn.
LEMMA OrderStep ==
    ASSUME SessionTurnTypeOK, QuestionInv, RepliesInTurn, [SessionTurnNext]_turnSpecVars
    PROVE  RepliesInTurn'
<1>. USE DEF turnSpecVars, rowVars, memoryVars, countVars, turnVars, historyVars
<1>1. ASSUME NEW t \in Turns, Post(t) PROVE RepliesInTurn'
  BY <1>1 DEF Post, RepliesInTurn
<1>2. ASSUME NEW t \in Turns, TurnAway(t) PROVE RepliesInTurn'
  BY <1>2 DEF TurnAway, RepliesInTurn
<1>3. ASSUME NEW t \in Turns, TakeLease(t) PROVE RepliesInTurn'
  BY <1>3 DEF TakeLease, RepliesInTurn
<1>4. ASSUME NEW t \in Turns, RefuseLease(t) PROVE RepliesInTurn'
  BY <1>4 DEF RefuseLease, RepliesInTurn
<1>5. ASSUME NEW t \in Turns, Ask(t) PROVE RepliesInTurn'
  <2>1. Write(t, "question")
    BY <1>5 DEF Ask
  <2>2. \A s \in Sessions : InTurn(transcript[s])
    BY OrderIsInTurn
  <2>4. ASSUME NEW s \in Sessions PROVE InTurn(transcript'[s])
    <3>1. /\ transcript[s] \in Seq({"question", "reply"} \X Turns)
          /\ transcript'[s] = IF s = SessionOf[t]
                             THEN Append(transcript[s], <<"question", t>>)
                             ELSE transcript[s]
      BY <2>1, Written DEF SessionTurnTypeOK
    <3>. QED  BY <2>2, <3>1, QuestionKeepsOrder
  <2>. QED  BY <2>4 DEF RepliesInTurn, InTurn
<1>6. ASSUME NEW t \in Turns, AskFails(t) PROVE RepliesInTurn'
  BY <1>6 DEF AskFails, RepliesInTurn
<1>7. ASSUME NEW t \in Turns, StartTask(t) PROVE RepliesInTurn'
  BY <1>7 DEF StartTask, RepliesInTurn
<1>8. ASSUME NEW t \in Turns, Propose(t) PROVE RepliesInTurn'
  BY <1>8 DEF Propose, RepliesInTurn
<1>9. ASSUME NEW t \in Turns, SpawnChild(t) PROVE RepliesInTurn'
  BY <1>9 DEF SpawnChild, RepliesInTurn
<1>10. ASSUME NEW t \in Turns, PersistTurn(t) PROVE RepliesInTurn'
  <2>1. Write(t, "reply")
    BY <1>10 DEF PersistTurn
  <2>2. \A s \in Sessions : InTurn(transcript[s])
    BY OrderIsInTurn
  <2>3. Open(transcript[SessionOf[t]], t)
    BY <1>10 DEF PersistTurn, Goto, QuestionInv
  <2>4. ASSUME NEW s \in Sessions PROVE InTurn(transcript'[s])
    <3>1. /\ transcript[s] \in Seq({"question", "reply"} \X Turns)
          /\ transcript'[s] = IF s = SessionOf[t]
                             THEN Append(transcript[s], <<"reply", t>>)
                             ELSE transcript[s]
      BY <2>1, Written DEF SessionTurnTypeOK
    <3>. QED  BY <2>2, <2>3, <3>1, ReplyKeepsOrder
  <2>. QED  BY <2>4 DEF RepliesInTurn, InTurn
<1>11. ASSUME NEW t \in Turns, EndTask(t) PROVE RepliesInTurn'
  BY <1>11 DEF EndTask, RepliesInTurn
<1>12. ASSUME NEW t \in Turns, Interrupt(t) PROVE RepliesInTurn'
  BY <1>12 DEF Interrupt, RepliesInTurn
<1>13. ASSUME NEW t \in Turns, Unwound(t) PROVE RepliesInTurn'
  BY <1>13 DEF Unwound, RepliesInTurn
<1>14. ASSUME NEW t \in Turns, Wake(t) PROVE RepliesInTurn'
  BY <1>14 DEF Wake, RepliesInTurn
<1>15. ASSUME NEW t \in Turns, Close(t) PROVE RepliesInTurn'
  BY <1>15 DEF Close, RepliesInTurn
<1>16. ASSUME NEW t \in Turns, Finalize(t) PROVE RepliesInTurn'
  BY <1>16 DEF Finalize, RepliesInTurn
<1>17. ASSUME NEW t \in Turns, FinalizeFails(t) PROVE RepliesInTurn'
  BY <1>17 DEF FinalizeFails, RepliesInTurn
<1>18. ASSUME NEW t \in Turns, ServerCancel(t) PROVE RepliesInTurn'
  BY <1>18 DEF ServerCancel, RepliesInTurn
<1>19. ASSUME NEW t \in Turns, RequestCancel(t) PROVE RepliesInTurn'
  BY <1>19 DEF RequestCancel, RepliesInTurn
<1>20. ASSUME NEW t \in Turns, Review(t) PROVE RepliesInTurn'
  BY <1>20 DEF Review, RepliesInTurn
<1>21. ASSUME NEW s \in Sessions, LeaseAges(s) PROVE RepliesInTurn'
  BY <1>21 DEF LeaseAges, RepliesInTurn
<1>22. ASSUME NEW s \in Sessions, ChildEnds(s) PROVE RepliesInTurn'
  BY <1>22 DEF ChildEnds, RepliesInTurn
<1>23. ASSUME NEW s \in Sessions, Archive(s) PROVE RepliesInTurn'
  BY <1>23 DEF Archive, RepliesInTurn
<1>24. ASSUME NEW u \in Users, ElsewhereArrives(u) PROVE RepliesInTurn'
  BY <1>24 DEF ElsewhereArrives, RepliesInTurn
<1>25. ASSUME NEW u \in Users, ElsewhereLeaves(u) PROVE RepliesInTurn'
  BY <1>25 DEF ElsewhereLeaves, RepliesInTurn
<1>26. ASSUME Restart PROVE RepliesInTurn'
  <2>1. UNCHANGED transcript
    BY <1>26 DEF Restart
  <2>. QED  BY <2>1 DEF RepliesInTurn
<1>27. ASSUME UNCHANGED turnSpecVars PROVE RepliesInTurn'
  BY <1>27 DEF RepliesInTurn
<1>. QED
  BY <1>1, <1>2, <1>3, <1>4, <1>5, <1>6, <1>7, <1>8, <1>9, <1>10, <1>11, <1>12,
     <1>13, <1>14, <1>15, <1>16, <1>17, <1>18, <1>19, <1>20, <1>21, <1>22,
     <1>23, <1>24, <1>25, <1>26, <1>27
  DEF SessionTurnNext, Progress, Loop, Environment

-----------------------------------------------------------------------------
(* The admission counters.                                                 *)

AdmissionInv == IsFiniteSet(Elsewhere) /\ AdmissionExact

\* The requests in flight are finitely many, and counted.
LEMMA FlightsCounted ==
    /\ IsFiniteSet(Flying) /\ Cardinality(Flying) \in Nat
    /\ \A u \in Users : IsFiniteSet(FlyingFor(u)) /\ Cardinality(FlyingFor(u)) \in Nat
<1>1. Flying \subseteq Turns /\ \A u \in Users : FlyingFor(u) \subseteq Turns
  BY DEF Flying, FlyingFor
<1>2. IsFiniteSet(Turns)
  BY SessionTurnAssumption
<1>3. IsFiniteSet(Flying) /\ \A u \in Users : IsFiniteSet(FlyingFor(u))
  BY <1>1, <1>2, FS_Subset
<1>. QED  BY <1>3, FS_CardinalityType

\* Nobody comes or goes.
LEMMA AdmissionStands ==
    ASSUME AdmissionInv, UNCHANGED countVars,
           \A t \in Turns : pc'[t] \in InFlight <=> pc[t] \in InFlight
    PROVE  AdmissionInv'
<1>1. Flying' = Flying /\ Elsewhere' = Elsewhere /\ UNCHANGED <<total, perUser, elsewhere>>
  BY DEF Flying, Elsewhere, countVars
<1>2. \A u \in Users : FlyingFor(u)' = FlyingFor(u)
  BY <1>1 DEF FlyingFor
<1>. QED  BY <1>1, <1>2 DEF AdmissionInv, AdmissionExact

\* A request takes its place, within the limits.
LEMMA FlightBegins ==
    ASSUME SessionTurnTypeOK, AdmissionInv, NEW t \in Turns, pc[t] \notin InFlight,
           NEW there \in InFlight, pc' = [pc EXCEPT ![t] = there],
           MayAcquire(UserOf(t)), AcquirePlace(UserOf(t)), UNCHANGED elsewhere
    PROVE  AdmissionInv'
<1>1. /\ UserOf(t) \in Users /\ t \notin Flying
      /\ Flying' = Flying \cup {t} /\ Elsewhere' = Elsewhere
  BY Addressed DEF SessionTurnTypeOK, Flying, Elsewhere
<1>2. /\ FlyingFor(UserOf(t))' = FlyingFor(UserOf(t)) \cup {t} /\ t \notin FlyingFor(UserOf(t))
      /\ \A u \in Users \ {UserOf(t)} : FlyingFor(u)' = FlyingFor(u)
  BY <1>1 DEF FlyingFor
<1>3. /\ Cardinality(Flying') = Cardinality(Flying) + 1
      /\ Cardinality(FlyingFor(UserOf(t))') = Cardinality(FlyingFor(UserOf(t))) + 1
  BY <1>1, <1>2, FlightsCounted, FS_AddElement
<1>4. IsFiniteSet(Elsewhere') /\ Cardinality(Elsewhere) \in Nat
  BY <1>1, FS_CardinalityType DEF AdmissionInv
<1>5. /\ total' = Cardinality(Flying') + Cardinality(Elsewhere') /\ total' <= MaxTotal
  BY <1>1, <1>3, <1>4, FlightsCounted, SessionTurnAssumption
     DEF AdmissionInv, AdmissionExact, MayAcquire, AcquirePlace
<1>6. ASSUME NEW u \in Users
      PROVE  perUser'[u] = Cardinality(FlyingFor(u)') + elsewhere'[u] /\ perUser'[u] <= MaxPerUser
  <2>1. /\ perUser[u] = Cardinality(FlyingFor(u)) + elsewhere[u] /\ perUser[u] <= MaxPerUser
        /\ elsewhere[u] \in Nat /\ Cardinality(FlyingFor(u)) \in Nat /\ MaxPerUser \in Nat
    BY FlightsCounted, SessionTurnAssumption DEF AdmissionInv, AdmissionExact, SessionTurnTypeOK
  <2>2. CASE u = UserOf(t)
    BY <1>3, <2>1, <2>2 DEF MayAcquire, AcquirePlace, SessionTurnTypeOK
  <2>3. CASE u # UserOf(t)
    BY <1>2, <2>1, <2>3 DEF AcquirePlace, SessionTurnTypeOK
  <2>. QED  BY <2>2, <2>3
<1>. QED  BY <1>4, <1>5, <1>6 DEF AdmissionInv, AdmissionExact

\* A request gives its place back.
LEMMA FlightEnds ==
    ASSUME SessionTurnTypeOK, AdmissionInv, NEW t \in Turns, pc[t] \in InFlight,
           pc' = [pc EXCEPT ![t] = "over"], ReleasePlace(UserOf(t)), UNCHANGED elsewhere
    PROVE  AdmissionInv'
<1>1. /\ UserOf(t) \in Users /\ t \in Flying
      /\ Flying' = Flying \ {t} /\ Elsewhere' = Elsewhere
  BY Addressed DEF SessionTurnTypeOK, Flying, Elsewhere, InFlight, TaskLive, Finishing
<1>2. /\ FlyingFor(UserOf(t))' = FlyingFor(UserOf(t)) \ {t} /\ t \in FlyingFor(UserOf(t))
      /\ \A u \in Users \ {UserOf(t)} : FlyingFor(u)' = FlyingFor(u)
  BY <1>1 DEF FlyingFor
<1>3. /\ Cardinality(Flying') = Cardinality(Flying) - 1
      /\ Cardinality(FlyingFor(UserOf(t))') = Cardinality(FlyingFor(UserOf(t))) - 1
      /\ Cardinality(Flying') \in Nat /\ Cardinality(FlyingFor(UserOf(t))') \in Nat
  <2>1. /\ Cardinality(Flying') = Cardinality(Flying) - 1 /\ IsFiniteSet(Flying')
        /\ Cardinality(FlyingFor(UserOf(t))') = Cardinality(FlyingFor(UserOf(t))) - 1
        /\ IsFiniteSet(FlyingFor(UserOf(t))')
    BY <1>1, <1>2, FlightsCounted, FS_RemoveElement
  <2>. QED  BY <2>1, FS_CardinalityType
<1>4. IsFiniteSet(Elsewhere') /\ Cardinality(Elsewhere) \in Nat
  BY <1>1, FS_CardinalityType DEF AdmissionInv
<1>5. /\ total' = Cardinality(Flying') + Cardinality(Elsewhere') /\ total' <= MaxTotal
  BY <1>1, <1>3, <1>4, FlightsCounted, SessionTurnAssumption
     DEF AdmissionInv, AdmissionExact, ReleasePlace
<1>6. ASSUME NEW u \in Users
      PROVE  perUser'[u] = Cardinality(FlyingFor(u)') + elsewhere'[u] /\ perUser'[u] <= MaxPerUser
  <2>1. /\ perUser[u] = Cardinality(FlyingFor(u)) + elsewhere[u] /\ perUser[u] <= MaxPerUser
        /\ elsewhere[u] \in Nat /\ Cardinality(FlyingFor(u)) \in Nat /\ MaxPerUser \in Nat
    BY FlightsCounted, SessionTurnAssumption DEF AdmissionInv, AdmissionExact, SessionTurnTypeOK
  <2>2. CASE u = UserOf(t)
    BY <1>3, <2>1, <2>2 DEF ReleasePlace, SessionTurnTypeOK
  <2>3. CASE u # UserOf(t)
    BY <1>2, <2>1, <2>3 DEF ReleasePlace, SessionTurnTypeOK
  <2>. QED  BY <2>2, <2>3
<1>. QED  BY <1>4, <1>5, <1>6 DEF AdmissionInv, AdmissionExact

\* Requests to other chats come and go.
LEMMA ElsewhereCounted ==
    ASSUME SessionTurnTypeOK, AdmissionInv, NEW u \in Users,
           ElsewhereArrives(u) \/ ElsewhereLeaves(u)
    PROVE  AdmissionInv'
<1>1. /\ elsewhere[u] \in 0 .. MaxElsewhere /\ MaxElsewhere \in Nat
      /\ MaxTotal \in Nat /\ MaxPerUser \in Nat /\ Cardinality(Elsewhere) \in Nat
  BY SessionTurnAssumption, FS_CardinalityType DEF SessionTurnTypeOK, AdmissionInv
<1>2. Flying' = Flying /\ \A x \in Users : FlyingFor(x)' = FlyingFor(x)
  BY DEF ElsewhereArrives, ElsewhereLeaves, turnVars, Flying, FlyingFor
<1>3. \A x \in Users : /\ perUser[x] = Cardinality(FlyingFor(x)) + elsewhere[x] /\ perUser[x] <= MaxPerUser
                       /\ elsewhere[x] \in Nat /\ Cardinality(FlyingFor(x)) \in Nat
  BY FlightsCounted, SessionTurnAssumption DEF AdmissionInv, AdmissionExact, SessionTurnTypeOK
<1>4. CASE ElsewhereArrives(u)
  <2> DEFINE last == <<u, elsewhere[u] + 1>>
  <2>1. last \notin Elsewhere /\ Elsewhere' = Elsewhere \cup {last}
    <3>1. elsewhere' = [elsewhere EXCEPT ![u] = elsewhere[u] + 1] /\ elsewhere[u] + 1 \in 1 .. MaxElsewhere
      BY <1>1, <1>4 DEF ElsewhereArrives
    <3>2. last \notin Elsewhere /\ last \in Elsewhere'
      BY <1>1, <3>1 DEF Elsewhere, SessionTurnTypeOK
    <3>3. ASSUME NEW p \in Users \X (1 .. MaxElsewhere), p # last
          PROVE  p \in Elsewhere' <=> p \in Elsewhere
      <4>1. p = <<p[1], p[2]>> /\ p[1] \in Users /\ p[2] \in 1 .. MaxElsewhere
        OBVIOUS
      <4>2. CASE p[1] = u
        BY <1>1, <3>1, <3>3, <4>1, <4>2 DEF Elsewhere, SessionTurnTypeOK
      <4>3. CASE p[1] # u
        BY <3>1, <4>1, <4>3 DEF Elsewhere, SessionTurnTypeOK
      <4>. QED  BY <4>2, <4>3
    <3>. QED  BY <3>2, <3>3 DEF Elsewhere
  <2>2. Cardinality(Elsewhere') = Cardinality(Elsewhere) + 1 /\ IsFiniteSet(Elsewhere')
    BY <2>1, FS_AddElement DEF AdmissionInv
  <2>3. total' = Cardinality(Flying') + Cardinality(Elsewhere') /\ total' <= MaxTotal
    BY <1>1, <1>2, <1>4, <2>2, FlightsCounted
       DEF AdmissionInv, AdmissionExact, ElsewhereArrives, MayAcquire, AcquirePlace
  <2>4. ASSUME NEW x \in Users
        PROVE  perUser'[x] = Cardinality(FlyingFor(x)') + elsewhere'[x] /\ perUser'[x] <= MaxPerUser
    <3>1. CASE x = u
      BY <1>1, <1>2, <1>3, <1>4, <3>1 DEF ElsewhereArrives, MayAcquire, AcquirePlace, SessionTurnTypeOK
    <3>2. CASE x # u
      BY <1>2, <1>3, <1>4, <3>2 DEF ElsewhereArrives, AcquirePlace, SessionTurnTypeOK
    <3>. QED  BY <3>1, <3>2
  <2>. QED  BY <2>2, <2>3, <2>4 DEF AdmissionInv, AdmissionExact
<1>5. CASE ElsewhereLeaves(u)
  <2> DEFINE last == <<u, elsewhere[u]>>
  <2>1. last \in Elsewhere /\ Elsewhere' = Elsewhere \ {last}
    <3>1. elsewhere' = [elsewhere EXCEPT ![u] = elsewhere[u] - 1] /\ elsewhere[u] \in 1 .. MaxElsewhere
      BY <1>1, <1>5 DEF ElsewhereLeaves
    <3>2. last \in Elsewhere /\ last \notin Elsewhere'
      BY <1>1, <3>1 DEF Elsewhere, SessionTurnTypeOK
    <3>3. ASSUME NEW p \in Users \X (1 .. MaxElsewhere), p # last
          PROVE  p \in Elsewhere' <=> p \in Elsewhere
      <4>1. p = <<p[1], p[2]>> /\ p[1] \in Users /\ p[2] \in 1 .. MaxElsewhere
        OBVIOUS
      <4>2. CASE p[1] = u
        BY <1>1, <3>1, <3>3, <4>1, <4>2 DEF Elsewhere, SessionTurnTypeOK
      <4>3. CASE p[1] # u
        BY <3>1, <4>1, <4>3 DEF Elsewhere, SessionTurnTypeOK
      <4>. QED  BY <4>2, <4>3
    <3>. QED  BY <3>2, <3>3 DEF Elsewhere
  <2>2. /\ Cardinality(Elsewhere') = Cardinality(Elsewhere) - 1 /\ IsFiniteSet(Elsewhere')
        /\ Cardinality(Elsewhere') \in Nat
    BY <2>1, FS_RemoveElement, FS_CardinalityType DEF AdmissionInv
  <2>3. total' = Cardinality(Flying') + Cardinality(Elsewhere') /\ total' <= MaxTotal
    BY <1>1, <1>2, <1>5, <2>2, FlightsCounted
       DEF AdmissionInv, AdmissionExact, ElsewhereLeaves, ReleasePlace
  <2>4. ASSUME NEW x \in Users
        PROVE  perUser'[x] = Cardinality(FlyingFor(x)') + elsewhere'[x] /\ perUser'[x] <= MaxPerUser
    <3>1. CASE x = u
      BY <1>1, <1>2, <1>3, <1>5, <3>1 DEF ElsewhereLeaves, ReleasePlace, SessionTurnTypeOK
    <3>2. CASE x # u
      BY <1>2, <1>3, <1>5, <3>2 DEF ElsewhereLeaves, ReleasePlace, SessionTurnTypeOK
    <3>. QED  BY <3>1, <3>2
  <2>. QED  BY <2>2, <2>3, <2>4 DEF AdmissionInv, AdmissionExact
<1>. QED  BY <1>4, <1>5

\* Nothing is in flight: initially, and when the process starts again.
Grounded ==
    /\ \A t \in Turns : pc[t] \notin InFlight
    /\ \A u \in Users : elsewhere[u] = 0 /\ perUser[u] = 0
    /\ total = 0

LEMMA NobodyFlies == (Grounded => AdmissionInv) /\ (Grounded' => AdmissionInv')
<1>1. IsFiniteSet({}) /\ Cardinality({}) = 0 /\ MaxTotal \in Nat /\ MaxPerUser \in Nat
  BY FS_EmptySet, SessionTurnAssumption
<1>2. ASSUME Grounded
      PROVE  AdmissionInv
  <2>1. Elsewhere = {} /\ Flying = {} /\ \A u \in Users : FlyingFor(u) = {}
    BY <1>2 DEF Grounded, Elsewhere, Flying, FlyingFor
  <2>. QED  BY <1>1, <1>2, <2>1 DEF Grounded, AdmissionInv, AdmissionExact
<1>3. ASSUME Grounded'
      PROVE  AdmissionInv'
  <2>1. Elsewhere' = {} /\ Flying' = {} /\ \A u \in Users : FlyingFor(u)' = {}
    BY <1>3 DEF Grounded, Elsewhere, Flying, FlyingFor
  <2>. QED  BY <1>1, <1>3, <2>1 DEF Grounded, AdmissionInv, AdmissionExact
<1>. QED  BY <1>2, <1>3

\* Every step keeps the counters exact.
LEMMA AdmissionStep ==
    ASSUME SessionTurnTypeOK, AdmissionInv, [SessionTurnNext]_turnSpecVars
    PROVE  AdmissionInv'
<1>. USE DEF Goto, InFlight, TaskLive, Finishing
<1>1. ASSUME NEW t \in Turns, Post(t) PROVE AdmissionInv'
  BY <1>1, FlightBegins DEF Post
<1>2. ASSUME NEW t \in Turns, RefuseLease(t) \/ Finalize(t) \/ FinalizeFails(t) PROVE AdmissionInv'
  BY <1>2, FlightEnds DEF RefuseLease, Finalize, FinalizeFails
<1>3. ASSUME NEW t \in Turns, ServerCancel(t) PROVE AdmissionInv'
  <2>1. CASE pc[t] \in {"admitted", "claimed"} /\ pc' = [pc EXCEPT ![t] = "over"] /\ ReleasePlace(UserOf(t))
    BY <1>3, <2>1, FlightEnds DEF ServerCancel
  <2>2. CASE /\ pc' = pc \/ (pc[t] \in {"claimed", "asked", "closing"} /\ pc' = [pc EXCEPT ![t] = "finalizing"])
             /\ UNCHANGED <<total, perUser>>
    BY <1>3, <2>2, AdmissionStands DEF ServerCancel, countVars, SessionTurnTypeOK
  <2>. QED  BY <1>3, <2>1, <2>2 DEF ServerCancel
<1>4. ASSUME NEW t \in Turns,
             \/ TurnAway(t) \/ TakeLease(t) \/ Ask(t) \/ AskFails(t) \/ StartTask(t)
             \/ PersistTurn(t) \/ Interrupt(t) \/ Unwound(t) \/ Close(t)
      PROVE AdmissionInv'
  <2>1. UNCHANGED countVars
    BY <1>4 DEF TurnAway, TakeLease, Ask, AskFails, StartTask, PersistTurn, Interrupt, Unwound, Close, memoryVars
  <2>2. \A x \in Turns : pc'[x] \in InFlight <=> pc[x] \in InFlight
    BY <1>4 DEF TurnAway, TakeLease, Ask, AskFails, StartTask, PersistTurn, Interrupt, Unwound, Close, SessionTurnTypeOK
  <2>. QED  BY <2>1, <2>2, AdmissionStands
<1>5. ASSUME NEW t \in Turns, EndTask(t) \/ Wake(t) PROVE AdmissionInv'
  BY <1>5, AdmissionStands DEF EndTask, Wake, memoryVars, SessionTurnTypeOK
<1>6. ASSUME NEW t \in Turns, Propose(t) \/ SpawnChild(t) \/ RequestCancel(t) \/ Review(t) PROVE AdmissionInv'
  BY <1>6, AdmissionStands DEF Propose, SpawnChild, RequestCancel, Review, memoryVars, turnVars
<1>7. ASSUME NEW s \in Sessions, LeaseAges(s) \/ ChildEnds(s) \/ Archive(s) PROVE AdmissionInv'
  BY <1>7, AdmissionStands DEF LeaseAges, ChildEnds, Archive, memoryVars, turnVars
<1>8. ASSUME NEW u \in Users, ElsewhereArrives(u) \/ ElsewhereLeaves(u) PROVE AdmissionInv'
  BY <1>8, ElsewhereCounted
<1>9. ASSUME Restart PROVE AdmissionInv'
  <2>1. Grounded'
    BY <1>9 DEF Restart, Grounded, SessionTurnTypeOK
  <2>. QED  BY <2>1, NobodyFlies
<1>10. ASSUME UNCHANGED turnSpecVars PROVE AdmissionInv'
  BY <1>10, AdmissionStands DEF turnSpecVars, memoryVars, turnVars
<1>. QED
  BY <1>1, <1>2, <1>3, <1>4, <1>5, <1>6, <1>7, <1>8, <1>9, <1>10
  DEF SessionTurnNext, Progress, Loop, Environment

-----------------------------------------------------------------------------
(* The specification.                                                      *)

\* The action of FreshLeaseIsKept.
KeepsFreshLeases ==
    \A s \in Sessions :
        lease[s] # Free /\ ~stale[s] /\ lease'[s] # lease[s]
            => \/ pc[lease[s]] = "finalizing" /\ pc'[lease[s]] = "over"
               \/ crashes' > crashes

\* No step takes a fresh lease from its holder.
LEMMA FreshStep ==
    ASSUME SessionTurnTypeOK, [SessionTurnNext]_turnSpecVars
    PROVE  KeepsFreshLeases
<1>. USE DEF KeepsFreshLeases, turnSpecVars, rowVars, memoryVars, countVars,
         turnVars, historyVars
<1>1. ASSUME NEW t \in Turns, Post(t) PROVE KeepsFreshLeases
  BY <1>1 DEF Post
<1>2. ASSUME NEW t \in Turns, TurnAway(t) PROVE KeepsFreshLeases
  BY <1>2 DEF TurnAway
<1>3. ASSUME NEW t \in Turns, TakeLease(t) PROVE KeepsFreshLeases
  BY <1>3 DEF TakeLease, Claimable, ClaimTurn, SessionTurnTypeOK
<1>4. ASSUME NEW t \in Turns, RefuseLease(t) PROVE KeepsFreshLeases
  BY <1>4 DEF RefuseLease
<1>5. ASSUME NEW t \in Turns, Ask(t) PROVE KeepsFreshLeases
  BY <1>5 DEF Ask
<1>6. ASSUME NEW t \in Turns, AskFails(t) PROVE KeepsFreshLeases
  BY <1>6 DEF AskFails
<1>7. ASSUME NEW t \in Turns, StartTask(t) PROVE KeepsFreshLeases
  BY <1>7 DEF StartTask
<1>8. ASSUME NEW t \in Turns, Propose(t) PROVE KeepsFreshLeases
  BY <1>8 DEF Propose
<1>9. ASSUME NEW t \in Turns, SpawnChild(t) PROVE KeepsFreshLeases
  BY <1>9 DEF SpawnChild
<1>10. ASSUME NEW t \in Turns, PersistTurn(t) PROVE KeepsFreshLeases
  BY <1>10 DEF PersistTurn
<1>11. ASSUME NEW t \in Turns, EndTask(t) PROVE KeepsFreshLeases
  BY <1>11 DEF EndTask
<1>12. ASSUME NEW t \in Turns, Interrupt(t) PROVE KeepsFreshLeases
  BY <1>12 DEF Interrupt
<1>13. ASSUME NEW t \in Turns, Unwound(t) PROVE KeepsFreshLeases
  BY <1>13 DEF Unwound
<1>14. ASSUME NEW t \in Turns, Wake(t) PROVE KeepsFreshLeases
  BY <1>14 DEF Wake
<1>15. ASSUME NEW t \in Turns, Close(t) PROVE KeepsFreshLeases
  BY <1>15 DEF Close
<1>16. ASSUME NEW t \in Turns, Finalize(t) PROVE KeepsFreshLeases
  BY <1>16 DEF Finalize, ReleaseTurn, Goto, SessionTurnTypeOK
<1>17. ASSUME NEW t \in Turns, FinalizeFails(t) PROVE KeepsFreshLeases
  BY <1>17 DEF FinalizeFails
<1>18. ASSUME NEW t \in Turns, ServerCancel(t) PROVE KeepsFreshLeases
  BY <1>18 DEF ServerCancel
<1>19. ASSUME NEW t \in Turns, RequestCancel(t) PROVE KeepsFreshLeases
  BY <1>19 DEF RequestCancel
<1>20. ASSUME NEW t \in Turns, Review(t) PROVE KeepsFreshLeases
  BY <1>20 DEF Review
<1>21. ASSUME NEW s \in Sessions, LeaseAges(s) PROVE KeepsFreshLeases
  BY <1>21 DEF LeaseAges
<1>22. ASSUME NEW s \in Sessions, ChildEnds(s) PROVE KeepsFreshLeases
  BY <1>22 DEF ChildEnds
<1>23. ASSUME NEW s \in Sessions, Archive(s) PROVE KeepsFreshLeases
  BY <1>23 DEF Archive
<1>24. ASSUME NEW u \in Users, ElsewhereArrives(u) PROVE KeepsFreshLeases
  BY <1>24 DEF ElsewhereArrives
<1>25. ASSUME NEW u \in Users, ElsewhereLeaves(u) PROVE KeepsFreshLeases
  BY <1>25 DEF ElsewhereLeaves
<1>26. ASSUME Restart PROVE KeepsFreshLeases
  BY <1>26 DEF Restart, SessionTurnTypeOK
<1>27. ASSUME UNCHANGED turnSpecVars PROVE KeepsFreshLeases
  BY <1>27
<1>. QED
  BY <1>1, <1>2, <1>3, <1>4, <1>5, <1>6, <1>7, <1>8, <1>9, <1>10, <1>11, <1>12,
     <1>13, <1>14, <1>15, <1>16, <1>17, <1>18, <1>19, <1>20, <1>21, <1>22,
     <1>23, <1>24, <1>25, <1>26, <1>27
  DEF SessionTurnNext, Progress, Loop, Environment

\* The initial states satisfy the invariant.
LEMMA InitInv ==
    ASSUME SessionTurnInit
    PROVE  SessionTurnInv
<1>. USE SessionTurnAssumption DEF SessionTurnInit
<1>1. SessionTurnTypeOK
  BY DEF SessionTurnTypeOK, InFlight, TaskLive, Finishing, Answers, ProposalStates
<1>2. LeaseInv
  BY DEF LeaseInv, HoldsTurn, Engaged, TaskLive, Finishing
<1>3. TaskInv
  BY DEF TaskInv, StopIsAnswered, TaskLive
<1>4. ArchiveInv
  BY DEF ArchiveInv
<1>5. QuestionInv
  BY DEF QuestionInv
<1>6. RepliesInTurn
  BY DEF RepliesInTurn
<1>. QED  BY <1>1, <1>2, <1>3, <1>4, <1>5, <1>6 DEF SessionTurnInv

\* The invariant holds of every state of every behaviour, for every value of the
\* constants.
THEOREM SessionTurnInvariant == SessionTurnSpec => []SessionTurnInv
<1>1. SessionTurnInit => SessionTurnInv
  BY InitInv
<1>2. SessionTurnInv /\ [SessionTurnNext]_turnSpecVars => SessionTurnInv'
  BY TypeStep, LeaseStep, TaskStep, ArchiveStep, QuestionStep, OrderStep
  DEF SessionTurnInv
<1>. QED  BY <1>1, <1>2, PTL DEF SessionTurnSpec

\* The variables of a chat round keep their types.
THEOREM SessionTurnTypes == SessionTurnSpec => []SessionTurnTypeOK
<1>1. SessionTurnInv => SessionTurnTypeOK
  BY DEF SessionTurnInv
<1>. QED  BY <1>1, SessionTurnInvariant, PTL

\* Replies fall in turn, whoever succeeded whom (persist_turn).
THEOREM RepliesFallInTurn == SessionTurnSpec => []RepliesInTurn
<1>1. SessionTurnInv => RepliesInTurn
  BY DEF SessionTurnInv
<1>. QED  BY <1>1, SessionTurnInvariant, PTL

\* Archiving finds the session at rest and it stays so (archive, claim_turn).
THEOREM ArchivedStaysQuiet == SessionTurnSpec => []ArchivedIsQuiet
<1>1. SessionTurnInv => ArchivedIsQuiet
  BY DEF SessionTurnInv, ArchiveInv, ArchivedIsQuiet
<1>. QED  BY <1>1, SessionTurnInvariant, PTL

\* No exit of an undisturbed request keeps its lease (_finalize_turn).
THEOREM LeasesAreReturned == SessionTurnSpec => []NoOrphanLease
<1>1. SessionTurnInv => NoOrphanLease
  BY DEF SessionTurnInv, LeaseInv, NoOrphanLease, Engaged, TaskLive, Finishing
<1>. QED  BY <1>1, SessionTurnInvariant, PTL

\* The stop button reaches the task that holds the lease (TurnRegistry).
THEOREM HoldersAreStoppable == SessionTurnSpec => []StoppableWhileHolding
<1>1. SessionTurnInv => StoppableWhileHolding
  BY DEF SessionTurnInv, TaskInv, StoppableWhileHolding
<1>. QED  BY <1>1, SessionTurnInvariant, PTL

\* A stop is answered, not raised (was_cancelled_by_user).
THEOREM StopsAreAnswered == SessionTurnSpec => []StopIsAnswered
<1>1. SessionTurnInv => StopIsAnswered
  BY DEF SessionTurnInv, TaskInv
<1>. QED  BY <1>1, SessionTurnInvariant, PTL

\* A fresh lease is lost by its holder's end or a restart only (claim_turn).
THEOREM FreshLeasesAreKept == SessionTurnSpec => FreshLeaseIsKept
<1>1. SessionTurnTypeOK /\ [SessionTurnNext]_turnSpecVars => [KeepsFreshLeases]_turnSpecVars
  BY FreshStep
<1>. QED
  BY <1>1, SessionTurnTypes, PTL DEF SessionTurnSpec, FreshLeaseIsKept,
     KeepsFreshLeases
\* The admission counters are exactly the requests in flight: whatever its exit,
\* a request gives its place back, once (the finally of post_session_message).
THEOREM CountersAreExact == SessionTurnSpec => []AdmissionExact
<1>1. SessionTurnInit => AdmissionInv
  BY NobodyFlies DEF SessionTurnInit, Grounded, InFlight, TaskLive, Finishing
<1>2. SessionTurnTypeOK /\ AdmissionInv /\ [SessionTurnNext]_turnSpecVars => AdmissionInv'
  BY AdmissionStep
<1>3. AdmissionInv => AdmissionExact
  BY DEF AdmissionInv
<1>. QED  BY <1>1, <1>2, <1>3, SessionTurnTypes, PTL DEF SessionTurnSpec
=============================================================================

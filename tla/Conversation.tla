----------------------------- MODULE Conversation -----------------------------
(***************************************************************************)
(* What the model is shown of a chat: the agent loop (agent/loop.py), its  *)
(* transcript (agent/session.py, crud/agent_message.py), and the summary   *)
(* that replaces old messages (agent/compaction.py).                       *)
(*                                                                         *)
(* A turn keeps its messages in memory and writes them at its end, in one  *)
(* transaction and one insert after the other, while others post to the    *)
(* chat (hitl_executor.py, device_result_summary.py).  A turn whose lease  *)
(* has been taken over may still be running.  Texts are left out; whether  *)
(* the token threshold is reached is the environment's choice.             *)
(***************************************************************************)
EXTENDS Integers, Sequences, FiniteSets

CONSTANTS
    Turn,           \* turns of the chat
    Recent,         \* COMPACT_RECENT_RAW_MESSAGES
    Fallback,       \* COMPACT_FALLBACK_MAX_MESSAGES
    Candidates,     \* COMPACT_MAX_CANDIDATES
    MaxSteps,       \* Budget.max_steps
    MaxFailed,      \* _MAX_CONSECUTIVE_FAILED_ROUNDS
    MaxCalls,       \* bound on the tool calls of one answer
    MaxPosts,       \* bound on the messages that others post
    NoTurn

ASSUME ConversationAssumption ==
    /\ {Recent, Fallback, Candidates, MaxSteps, MaxFailed} \subseteq Nat \ {0}
    /\ MaxCalls \in Nat /\ MaxPosts \in Nat /\ NoTurn \notin Turn

VARIABLES
    log,        \* root messages by id
    hidden,     \* ids whose transaction is open or was rolled back
    memory,     \* memory_summary (the ids it covers), compacted_through_message_id,
                \* and the ids at or below it that no reading has seen
    lease,      \* the turn agent_sessions.turn_token belongs to
    turn,       \* the turns: [at, pending, steps, failed, wrote, draft]
    posts       \* messages posted by others so far

conversationVars == <<log, hidden, memory, lease, turn, posts>>

\* A unit is an answer with n tool calls and their n results.
NoUnit == [turn |-> NoTurn, step |-> 0]
Entry == [kind : {"user", "text", "call", "result"},
          unit : [turn : Turn, step : 1 .. MaxSteps] \cup {NoUnit}, n : 0 .. MaxCalls]
Text(kind) == [kind |-> kind, unit |-> NoUnit, n |-> 0]
ResultOf(call, n) == [call EXCEPT !.kind = "result", !.n = n]
Unit(t, n) ==
    LET call == [kind |-> "call", unit |-> [turn |-> t, step |-> turn[t].steps], n |-> n] IN
    <<call>> \o [i \in 1 .. n |-> ResultOf(call, i)]

NoMemory == [covers |-> {}, unseen |-> {}, boundary |-> 0]
NoDraft == [of |-> {}, was |-> NoMemory]
Unused == [at |-> "unused", pending |-> <<>>, steps |-> 0, failed |-> 0, wrote |-> <<>>, draft |-> NoDraft]

Ids == DOMAIN log
Visible == Ids \ hidden

Memory == [covers : SUBSET Ids, unseen : SUBSET Ids, boundary : {0} \cup Ids]

ConversationTypeOK ==
    /\ log \in Seq(Entry) /\ hidden \subseteq Ids
    /\ memory \in Memory
    /\ lease \in Turn \cup {NoTurn}
    /\ turn \in [Turn ->
         [at : {"unused", "looping", "summarising", "asking", "saving", "ended"},
          pending : Seq(Entry), steps : 0 .. MaxSteps, failed : 0 .. MaxFailed,
          wrote : Seq(Ids), draft : [of : SUBSET Ids, was : Memory]]]
    /\ posts \in 0 .. MaxPosts

ConversationInit ==
    /\ log = <<>> /\ hidden = {}
    /\ memory = NoMemory
    /\ lease = NoTurn
    /\ turn = [t \in Turn |-> Unused]
    /\ posts = 0

\* Somebody has the chat's row locked and writes.
Writing == \E t \in Turn : turn[t].wrote # <<>>
Ended(t) == [turn EXCEPT ![t] = [Unused EXCEPT !.at = "ended"]]
Goes(t, at) == [turn EXCEPT ![t].at = at]

(***************************************************************************)
(* Units, windows and cuts                                                 *)
(***************************************************************************)
\* A turn's chat: the rows by their ids, and behind them what it has in memory.
Pending(t) == {Len(log) + k : k \in DOMAIN turn[t].pending}
MessageAt(t, p) == IF p \in Ids THEN log[p] ELSE turn[t].pending[p - Len(log)]

\* The rows a transaction may read: list_for_agent, list_for_agent_after_id.
RowsAfter(id) == {i \in Visible : i > id}
LastOf(places, n) == {p \in places : Cardinality({q \in places : q > p}) < n}
DropLeadingResults(t, places) ==
    {p \in places : \E q \in places : q <= p /\ MessageAt(t, q).kind # "result"}

\* How many of the places lie behind c, up to p.
Behind(places, c, p) == Cardinality({q \in places : c < q /\ q <= p})

\* The rows right behind a call, up to the row k, are its results.
Answered(t, rows, c, k) ==
    \A n \in 1 .. MessageAt(t, c).n : \E p \in rows :
        p <= k /\ Behind(rows, c, p) = n /\ MessageAt(t, p) = ResultOf(MessageAt(t, c), n)

\* _safe_compaction_cut_index: only whole units are cut off, and nothing behind
\* a unit that is not whole.
CutAnywhere(t, rows, keep) == {i \in rows : Cardinality({j \in rows : j > i}) >= keep}
SafeCut(t, rows, keep) ==
    {i \in rows : \E k \in rows :
        /\ i <= k /\ Cardinality({j \in rows : j > k}) >= keep
        /\ \A c \in rows : c <= k /\ MessageAt(t, c).kind = "call" => Answered(t, rows, c, k)}

\* build_model_history, without the instructions and the summary.
History(t) ==
    LET window == IF memory.boundary = 0 THEN Fallback ELSE Recent
        rows == LastOf(RowsAfter(memory.boundary), window)
    IN DropLeadingResults(t, LastOf(rows \cup Pending(t), window))

(***************************************************************************)
(* The loop                                                                *)
(***************************************************************************)
\* The lease is free, released or stale; the question is committed at once.
TurnStarts(t) ==
    /\ turn[t].at = "unused" /\ ~Writing
    /\ lease' = t
    /\ log' = Append(log, Text("user"))
    /\ turn' = Goes(t, "looping")
    /\ UNCHANGED <<hidden, memory, posts>>

\* reserve_step
OutOfSteps(t) ==
    /\ turn[t].at = "looping" /\ turn[t].steps = MaxSteps
    /\ turn' = Goes(t, "saving")
    /\ UNCHANGED <<log, hidden, memory, lease, posts>>

\* ensure_root_compaction: nothing to summarise, or the threshold not reached.
StepStarts(t) ==
    /\ turn[t].at = "looping" /\ turn[t].steps < MaxSteps
    /\ turn' = [turn EXCEPT ![t].at = "asking", ![t].steps = @ + 1]
    /\ UNCHANGED <<log, hidden, memory, lease, posts>>

\* ... or the rows that are summarised, read in a session of their own.
CompactionReads(t) ==
    /\ turn[t].at = "looping" /\ turn[t].steps < MaxSteps
    /\ LET rows == DropLeadingResults(t, LastOf(RowsAfter(0), Recent + Candidates))
           keep == IF Len(turn[t].pending) < Recent THEN Recent - Len(turn[t].pending) ELSE 0
           of == {i \in SafeCut(t, rows, keep) : i > memory.boundary}
       IN /\ of # {}
          /\ turn' = [turn EXCEPT ![t].at = "summarising", ![t].steps = @ + 1,
                                  ![t].draft = [of |-> of, was |-> [memory EXCEPT !.unseen = @ \cup hidden]]]
    /\ UNCHANGED <<log, hidden, memory, lease, posts>>

\* The boundary moves to the last row that is summarised.
Compacted(draft) ==
    LET last == CHOOSE i \in draft.of : \A j \in draft.of : j <= i IN
    [covers |-> draft.was.covers \cup draft.of,
     unseen |-> {i \in draft.was.unseen : i <= last}, boundary |-> last]

\* The summary is written if the boundary has not moved since it was read; the
\* update waits for a transaction that has the chat's row.
CompactionWrites(t) ==
    /\ turn[t].at = "summarising" /\ ~Writing
    /\ memory' = IF memory.boundary = turn[t].draft.was.boundary
                 THEN Compacted(turn[t].draft)
                 ELSE memory
    /\ turn' = [turn EXCEPT ![t].at = "asking", ![t].draft = NoDraft]
    /\ UNCHANGED <<log, hidden, lease, posts>>

\* No summary came back, or it cost too much.
CompactionFails(t) ==
    /\ turn[t].at = "summarising"
    /\ turn' = [turn EXCEPT ![t].at = "asking", ![t].draft = NoDraft]
    /\ UNCHANGED <<log, hidden, memory, lease, posts>>

\* A final answer.
GivesAnswer(t) ==
    /\ turn[t].at = "asking"
    /\ turn' = [turn EXCEPT ![t].at = "saving", ![t].pending = Append(@, Text("text"))]
    /\ UNCHANGED <<log, hidden, memory, lease, posts>>

\* An error of the model, or calls that come with the end of the money.
GivesUp(t) ==
    /\ turn[t].at = "asking"
    /\ turn' = Goes(t, "saving")
    /\ UNCHANGED <<log, hidden, memory, lease, posts>>

\* The calls are dispatched one by one.  Every call gets a result: those after
\* one that awaits approval are skipped, with a result that says so.
CallsTools(t, n, how) ==
    /\ turn[t].at = "asking"
    /\ LET failed == IF how = "failed" THEN turn[t].failed + 1 ELSE 0 IN
       turn' = [turn EXCEPT ![t].at = IF how = "approval" \/ failed = MaxFailed THEN "saving" ELSE "looping",
                            ![t].failed = failed,
                            ![t].pending = @ \o Unit(t, n)]
    /\ UNCHANGED <<log, hidden, memory, lease, posts>>

\* An exception or a stop: what is in memory is dropped, what is being written
\* is rolled back.
TurnFails(t) ==
    /\ turn[t].at \in {"looping", "summarising", "asking", "saving"}
    /\ turn' = Ended(t)
    /\ lease' = IF lease = t THEN NoTurn ELSE lease
    /\ UNCHANGED <<log, hidden, memory, posts>>

\* persist_turn locks the chat's row and looks at the lease before it writes:
\* a turn that has lost it writes nothing.
Refused(t) == turn[t].pending = <<>> \/ lease # t
SavesNothing(t) ==
    /\ turn[t].at = "saving" /\ ~Writing /\ Refused(t)
    /\ turn' = Ended(t)
    /\ lease' = IF lease = t THEN NoTurn ELSE lease
    /\ UNCHANGED <<log, hidden, memory, posts>>

\* append_transcript; the last insert stands for the commit as well.
Saves(t) ==
    LET k == Len(turn[t].wrote) + 1
        id == Len(log) + 1
    IN
    /\ turn[t].at = "saving" /\ ~Refused(t)
    /\ log' = Append(log, turn[t].pending[k])
    /\ IF k = Len(turn[t].pending)
       THEN /\ hidden' = {i \in hidden : \A j \in DOMAIN turn[t].wrote : turn[t].wrote[j] # i}
            /\ turn' = Ended(t) /\ lease' = NoTurn
       ELSE /\ hidden' = hidden \cup {id}
            /\ turn' = [turn EXCEPT ![t].wrote = Append(@, id)]
            /\ UNCHANGED lease
    /\ UNCHANGED <<memory, posts>>

\* The conclusion of an approved change, or the summary of a query.  While a
\* turn holds the chat's row for update the insert waits for it (its foreign
\* key takes a share lock); here it does not, so that the model has more
\* interleavings of posts with the rows of a turn than the code.
Post ==
    /\ posts < MaxPosts
    /\ posts' = posts + 1
    /\ log' = Append(log, Text("text"))
    /\ UNCHANGED <<hidden, memory, lease, turn>>

ConversationNext ==
    \/ \E t \in Turn : TurnStarts(t) \/ OutOfSteps(t) \/ StepStarts(t)
    \/ \E t \in Turn : CompactionReads(t) \/ CompactionWrites(t) \/ CompactionFails(t)
    \/ \E t \in Turn : GivesAnswer(t) \/ GivesUp(t) \/ TurnFails(t)
    \/ \E t \in Turn, n \in 1 .. MaxCalls, how \in {"ok", "failed", "approval"} : CallsTools(t, n, how)
    \/ \E t \in Turn : SavesNothing(t) \/ Saves(t)
    \/ Post

ConversationSpec == ConversationInit /\ [][ConversationNext]_conversationVars

(***************************************************************************)
(* Properties                                                              *)
(***************************************************************************)
\* The rows the summary stands for are all the rows up to the boundary, except
\* those whose transaction was open when a later row was read and summarised.
NothingSkipped ==
    memory.covers = {i \in Visible : i <= memory.boundary} \ memory.unseen

\* Somebody posted between a call and its results: nothing is known to keep
\* such a unit together.
Split(u) ==
    \E i, j \in Visible : /\ i < j /\ log[i].unit = u /\ log[j].unit = u
                          /\ \E k \in Visible : i < k /\ k < j /\ log[k].unit # u

\* Every call is followed by its results, and every result belongs to such a call.
Whole(t, places) ==
    \A p \in places : LET m == MessageAt(t, p) IN
        m.unit # NoUnit /\ ~Split(m.unit) =>
            \E c \in places :
                /\ c <= p /\ MessageAt(t, c).kind = "call" /\ MessageAt(t, c).unit = m.unit
                /\ Behind(places, c, p) = IF m.kind = "call" THEN 0 ELSE m.n
                /\ \A n \in 1 .. MessageAt(t, c).n : \E q \in places :
                       Behind(places, c, q) = n /\ MessageAt(t, q) = ResultOf(MessageAt(t, c), n)

\* What the model is sent is legal, that is, calls and results come together in
\* the history of a turn's next question and in the rows of a summary; and
\* nothing is missing from the summary, whichever turns summarise at the same
\* time, as long as the chat has no more rows than one reading returns
\* (_safe_compaction_cut_index, build_model_history, ensure_root_compaction).
ModelSeesWholeChat ==
    /\ \A t \in Turn :
         /\ turn[t].at = "asking" => Whole(t, History(t))
         /\ turn[t].at = "summarising" => Whole(t, turn[t].draft.of)
    /\ Len(log) <= Recent + Candidates => NothingSkipped
=============================================================================

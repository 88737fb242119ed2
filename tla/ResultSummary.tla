---------------------------- MODULE ResultSummary ----------------------------
(***************************************************************************)
(* The summary of one device query result (agent/device_result_summary.py, *)
(* crud/hitl_execution_result.py): the run that executed the query and     *)
(* anybody who asks for it again try to deliver it.  One claims the row,   *)
(* lets the model write with no transaction open, and posts a message; a   *)
(* claim older than the lease is taken over.                               *)
(***************************************************************************)
EXTENDS Integers

CONSTANTS
    Worker,         \* calls of deliver_device_query_summary
    Lease,          \* SUMMARY_STALE_AFTER
    MaxMinutes      \* bound on the clock

ASSUME SummaryAssumption == Lease \in Nat /\ MaxMinutes \in Nat

VARIABLES
    time,
    result,     \* the hitl_execution_results row: [status, started]
    messages,   \* summaries posted to the chat
    worker      \* the calls: [at, now]

summaryVars == <<time, result, messages, worker>>

Final == {"completed", "fallback"}

SummaryTypeOK ==
    /\ time \in 0 .. MaxMinutes
    /\ result \in [status : {"pending", "generating"} \cup Final, started : 0 .. MaxMinutes]
    /\ messages \in Nat
    /\ worker \in [Worker -> [at : {"idle", "called", "generating", "completed", "fallback",
                                    "created", "existing", "busy", "dead"},
                              now : 0 .. MaxMinutes]]

SummaryInit ==
    /\ time = 0
    /\ result = [status |-> "pending", started |-> 0]
    /\ messages = 0
    /\ worker = [w \in Worker |-> [at |-> "idle", now |-> 0]]

SummaryTick ==
    /\ time < MaxMinutes /\ time' = time + 1
    /\ UNCHANGED <<result, messages, worker>>

\* The clock is read once, before anything else.
SummaryCalled(w) ==
    /\ worker[w].at = "idle"
    /\ worker' = [worker EXCEPT ![w] = [at |-> "called", now |-> time]]
    /\ UNCHANGED <<time, result, messages>>

Claimable(w) ==
    \/ result.status = "pending"
    \/ result.status = "generating" /\ result.started < worker[w].now - Lease

\* claim_summary, committed; who comes too late answers with what there is.
SummaryClaims(w) ==
    /\ worker[w].at = "called"
    /\ IF Claimable(w)
       THEN /\ result' = [status |-> "generating", started |-> worker[w].now]
            /\ worker' = [worker EXCEPT ![w].at = "generating"]
       ELSE /\ worker' = [worker EXCEPT ![w].at =
                             IF result.status \in Final THEN "existing" ELSE "busy"]
            /\ UNCHANGED result
    /\ UNCHANGED <<time, messages>>

\* Any failure of the model gives the fallback text.
SummaryGenerated(w, how) ==
    /\ worker[w].at = "generating"
    /\ worker' = [worker EXCEPT ![w].at = how]
    /\ UNCHANGED <<time, result, messages>>

\* A wrong finish_summary: who has claimed once may finish.
OwnsAnyClaim(w) == worker[w].at \in Final
\* finish_summary updates the result only while it bears this very claim.
OwnsClaim(w) == result.status = "generating" /\ result.started = worker[w].now

\* The status and the message are one transaction.
SummaryFinishes(w) ==
    /\ worker[w].at \in Final
    /\ IF OwnsClaim(w)
       THEN /\ result' = [result EXCEPT !.status = worker[w].at]
            /\ messages' = messages + 1
            /\ worker' = [worker EXCEPT ![w].at = "created"]
       ELSE /\ worker' = [worker EXCEPT ![w].at =
                             IF result.status \in Final THEN "existing" ELSE "busy"]
            /\ UNCHANGED <<result, messages>>
    /\ UNCHANGED time

\* Cancelled, crashed, or a commit that fails: the claim is left to its lease.
SummaryDies(w) ==
    /\ worker[w].at \in {"called", "generating"} \cup Final
    /\ worker' = [worker EXCEPT ![w].at = "dead"]
    /\ UNCHANGED <<time, result, messages>>

SummaryNext ==
    \/ SummaryTick
    \/ \E w \in Worker : SummaryCalled(w) \/ SummaryClaims(w) \/ SummaryFinishes(w) \/ SummaryDies(w)
    \/ \E w \in Worker, how \in Final : SummaryGenerated(w, how)

SummarySpec == SummaryInit /\ [][SummaryNext]_summaryVars

(***************************************************************************)
(* Properties                                                              *)
(***************************************************************************)
\* The chat has one summary once the result is final and none before, whoever
\* takes over from whom; and at most one caller, who broadcasts it, is told
\* that it posted it (claim_summary, finish_summary, created_message).
SummaryDeliveredOnce ==
    /\ messages = IF result.status \in Final THEN 1 ELSE 0
    /\ \A v, w \in Worker : worker[v].at = "created" /\ worker[w].at = "created" => v = w
=============================================================================

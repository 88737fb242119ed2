------------------------------- MODULE Monitor -------------------------------
(***************************************************************************)
(* Monitoring: services/monitor_sweep.py probes the active targets round   *)
(* after round, crud/monitor_status_event.py keeps the changes of status,  *)
(* services/monitor_uptime.py draws the last hour from them, and           *)
(* api/v1/monitor.py creates, pauses and deletes targets meanwhile.        *)
(*                                                                         *)
(* Time is counted in ticks, at most one round to a tick; the tick x is    *)
(* the interval (x - 1, x].                                                *)
(***************************************************************************)
EXTENDS Integers, FiniteSets

CONSTANTS
    Target,         \* monitor_targets.id ever used
    Width,          \* BUCKET_SECONDS, in ticks
    Buckets,        \* BUCKET_COUNT
    Limit,          \* UPTIME_MAX_TRANSITIONS
    Retention,      \* monitor_event_retention_days, in ticks
    MaxTime         \* bound on the clock

ASSUME MonitorAssumption ==
    /\ {Width, Buckets, Limit, MaxTime} \subseteq Nat \ {0}
    /\ Retention \in Nat /\ Retention >= Width * Buckets

VARIABLES
    clock,
    target,     \* the table of targets: [state, since (created_at)]
    events,     \* monitor_status_events of a target: a set of [status, at (checked_at)]
    sweep,      \* the round in progress: [at, targets, latest, alerts]
    probes      \* history: the probes of a target that were committed

monitorVars == <<clock, target, events, sweep, probes>>

Status == {"up", "down"}
Observation == [status : Status, at : 0 .. MaxTime]
Resting == [at |-> "resting", targets |-> {}, latest |-> [t \in Target |-> {}], alerts |-> {}]

MonitorTypeOK ==
    /\ clock \in 0 .. MaxTime
    /\ target \in [Target -> [state : {"new", "active", "paused", "deleted"},
                              since : 0 .. MaxTime]]
    /\ events \in [Target -> SUBSET Observation]
    /\ sweep \in [at : {"resting", "probing", "publishing"}, targets : SUBSET Target,
                  latest : [Target -> SUBSET Observation], alerts : SUBSET Target]
    /\ probes \in [Target -> SUBSET Observation]

MonitorInit ==
    /\ clock = 0
    /\ target = [t \in Target |-> [state |-> "new", since |-> 0]]
    /\ events = [t \in Target |-> {}]
    /\ sweep = Resting
    /\ probes = [t \in Target |-> {}]

MonitorTick ==
    /\ clock < MaxTime /\ clock' = clock + 1
    /\ UNCHANGED <<target, events, sweep, probes>>

(***************************************************************************)
(* Targets                                                                 *)
(***************************************************************************)
CreateTarget(t) ==
    /\ target[t].state = "new"
    /\ \E how \in {"active", "paused"} :
         target' = [target EXCEPT ![t] = [state |-> how, since |-> clock]]
    /\ UNCHANGED <<clock, events, sweep, probes>>

UpdateTarget(t, how) ==
    /\ target[t].state \in {"active", "paused"} /\ how \in {"active", "paused"}
    /\ target' = [target EXCEPT ![t].state = how]
    /\ UNCHANGED <<clock, events, sweep, probes>>

\* hard_delete; the foreign key takes the events.
DeleteTarget(t) ==
    /\ target[t].state \in {"active", "paused"}
    /\ target' = [target EXCEPT ![t].state = "deleted"]
    /\ events' = [events EXCEPT ![t] = {}]
    /\ probes' = [probes EXCEPT ![t] = {}]
    /\ UNCHANGED <<clock, sweep>>

(***************************************************************************)
(* A round                                                                 *)
(***************************************************************************)
\* get_latest_status_for_targets: the row last checked, if there is one.
Newest(rows) == {e \in rows : \A f \in rows : f.at <= e.at}

\* The loop has slept; the targets and the last event of each are read once.
SweepReads ==
    /\ sweep.at = "resting"
    /\ \A t \in Target : \A p \in probes[t] : p.at < clock
    /\ LET active == {t \in Target : target[t].state = "active"} IN
       sweep' = [at |-> "probing", targets |-> active, alerts |-> {},
                 latest |-> [t \in Target |-> IF t \in active THEN Newest(events[t]) ELSE {}]]
    /\ UNCHANGED <<clock, target, events, probes>>

Seen(status) == [status |-> status, at |-> clock]

\* A wrong record_probe: an unchanged status leaves the row as it is.
RecordChange(rows, current, status) ==
    IF \E e \in current : e.status = status THEN rows ELSE rows \cup {Seen(status)}
\* record_probe: an unchanged status moves checked_at of the current row.
RecordProbe(rows, current, status) ==
    (rows \ {e \in current : e.status = status}) \cup {Seen(status)}

\* The row read before the probes, or if there was none the one found now.
Current(t) == IF sweep.latest[t] # {} THEN sweep.latest[t] ELSE Newest(events[t])

\* purge_older_than: every row but the newest that is older than the cutoff.
PurgeOlder(rows) == {e \in rows : e.at >= clock - Retention} \cup Newest(rows)

\* One transaction for all targets; a purge comes only now and then.
SweepCommits ==
    /\ sweep.at = "probing"
    /\ \A t \in sweep.targets : target[t].state # "deleted"
    /\ \E status \in [sweep.targets -> Status], purge \in BOOLEAN :
         LET recorded(t) == IF t \in sweep.targets
                            THEN RecordProbe(events[t], Current(t), status[t]) ELSE events[t]
         IN
         /\ events' = [t \in Target |-> IF purge THEN PurgeOlder(recorded(t)) ELSE recorded(t)]
         /\ probes' = [t \in Target |->
                IF t \in sweep.targets THEN probes[t] \cup {Seen(status[t])} ELSE probes[t]]
         /\ sweep' = [sweep EXCEPT !.at = "publishing",
                          !.alerts = {t \in sweep.targets :
                              \E e \in sweep.latest[t] : e.status # status[t]}]
    /\ UNCHANGED <<clock, target>>

\* The event of a target deleted meanwhile cannot be written, and with it goes
\* the round: the loop logs the error and sleeps.
SweepFails ==
    /\ sweep.at = "probing"
    /\ \E t \in sweep.targets : target[t].state = "deleted"
    /\ sweep' = Resting
    /\ UNCHANGED <<clock, target, events, probes>>

SweepPublishes ==
    /\ sweep.at = "publishing"
    /\ sweep' = Resting
    /\ UNCHANGED <<clock, target, events, probes>>

\* The process is stopped and started, or the database refuses the round.
SweepStops ==
    /\ sweep.at # "resting"
    /\ sweep' = Resting
    /\ UNCHANGED <<clock, target, events, probes>>

MonitorNext ==
    \/ MonitorTick
    \/ \E t \in Target : CreateTarget(t) \/ DeleteTarget(t)
    \/ \E t \in Target, how \in {"active", "paused"} : UpdateTarget(t, how)
    \/ SweepReads \/ SweepCommits \/ SweepFails \/ SweepPublishes \/ SweepStops

MonitorSpec == MonitorInit /\ [][MonitorNext]_monitorVars

(***************************************************************************)
(* The last hour (build_uptime_window, _uptime_map).  The window ends with *)
(* the minute in progress.                                                 *)
(***************************************************************************)
WindowStart == (clock \div Width - (Buckets - 1)) * Width
Ticks == WindowStart + 1 .. WindowStart + Width * Buckets

\* What a log says of a tick: the status of the first entry at or after it,
\* nothing before the target existed or after the last entry.
Said(log, t, x) ==
    LET later == {e \in log : e.at >= x} IN
    IF x <= target[t].since \/ later = {} THEN "unknown"
    ELSE (CHOOSE e \in later : \A f \in later : e.at <= f.at).status

\* list_recent_for_targets
NewestRows(rows) == {e \in rows : Cardinality({f \in rows : f.at > e.at}) < Limit}
Kept(t) == NewestRows(events[t])

\* A bucket with a failure in it is down, however short the failure.
Bucket(log, t, b) ==
    LET said == {Said(log, t, x) : x \in WindowStart + b * Width + 1 .. WindowStart + (b + 1) * Width} IN
    IF "down" \in said THEN "down" ELSE IF "up" \in said THEN "up" ELSE "unknown"

\* uptime_rate, as its two sums.
Rate(log, t) ==
    [up |-> Cardinality({x \in Ticks : Said(log, t, x) = "up"}),
     covered |-> Cardinality({x \in Ticks : Said(log, t, x) # "unknown"})]

(***************************************************************************)
(* Properties                                                              *)
(***************************************************************************)
\* The newest two probes disagree.
Flipped(t) ==
    \E p, q \in probes[t] :
        /\ q.at < p.at /\ q.status # p.status
        /\ \A r \in probes[t] \ {p} : r.at <= q.at

\* The bar and the rate drawn from the changes of status that were kept are
\* those that every single probe would give, as long as the log was not cut at
\* UPTIME_MAX_TRANSITIONS; and the alerts a round publishes are the flips it
\* committed (record_probe, purge_older_than, build_uptime_window,
\* run_monitor_sweep_once).
MonitorTellsTheTruth ==
    /\ \A t \in Target : Cardinality(events[t]) <= Limit =>
         /\ \A b \in 0 .. Buckets - 1 : Bucket(Kept(t), t, b) = Bucket(probes[t], t, b)
         /\ Rate(Kept(t), t) = Rate(probes[t], t)
    /\ sweep.at = "publishing" =>
         \A t \in sweep.targets : target[t].state # "deleted" =>
             (t \in sweep.alerts <=> Flipped(t))
=============================================================================

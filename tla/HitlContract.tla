----------------------------- MODULE HitlContract -----------------------------
(***************************************************************************)
(* What the approval workflow promises about commands that change a        *)
(* device, without runs, threads, queues or crashes: an authorisation is   *)
(* good for one effect on the device, nothing happens to the device under  *)
(* an authorisation that is unused or was refused, and a proposal is done  *)
(* only after its effect or because a person said so.                      *)
(***************************************************************************)
EXTENDS Naturals

CONSTANT Writes     \* the proposals that change a device

VARIABLES
    state,          \* state[w]: what the record says about w
    grant,          \* grant[w]: how often w has been authorised
    effects         \* pairs <<w, g>>: the device was changed by w under grant g

contractVars == <<state, grant, effects>>

Used(w) == <<w, grant[w]>> \in effects

ContractInit ==
    /\ state = [w \in Writes |-> "absent"]
    /\ grant = [w \in Writes |-> 0]
    /\ effects = {}

Propose(w) ==
    /\ state[w] = "absent"
    /\ state' = [state EXCEPT ![w] = "waiting"]
    /\ UNCHANGED <<grant, effects>>

\* By a person, by the session's approval mode, or to retry a doubtful one.
Authorise(w) ==
    /\ state[w] \in {"absent", "waiting", "doubtful"}
    /\ state' = [state EXCEPT ![w] = "authorised"]
    /\ grant' = [grant EXCEPT ![w] = @ + 1]
    /\ UNCHANGED effects

Refuse(w) ==
    /\ state[w] \in {"waiting", "authorised"}
    /\ state' = [state EXCEPT ![w] = "refused"]
    /\ UNCHANGED <<grant, effects>>

Begin(w) ==
    /\ state[w] = "authorised"
    /\ state' = [state EXCEPT ![w] = "inflight"]
    /\ UNCHANGED <<grant, effects>>

\* A device may still react to a grant that has been given up as doubtful.
Effect(w, g) ==
    /\ g \in 1 .. grant[w]
    /\ <<w, g>> \notin effects
    /\ g = grant[w] => state[w] \in {"inflight", "doubtful", "done"}
    /\ effects' = effects \cup {<<w, g>>}
    /\ UNCHANGED <<state, grant>>

GiveBack(w) ==
    /\ state[w] = "inflight"
    /\ ~Used(w)
    /\ state' = [state EXCEPT ![w] = "authorised"]
    /\ UNCHANGED <<grant, effects>>

Complete(w) ==
    /\ state[w] = "inflight"
    /\ Used(w)
    /\ state' = [state EXCEPT ![w] = "done"]
    /\ UNCHANGED <<grant, effects>>

\* One write, or at a restart every write that was in flight.
Doubt(W) ==
    /\ \A w \in W : state[w] = "inflight"
    /\ state' = [w \in Writes |-> IF w \in W THEN "doubtful" ELSE state[w]]
    /\ UNCHANGED <<grant, effects>>

Confirm(w) ==
    /\ state[w] = "doubtful"
    /\ state' = [state EXCEPT ![w] = "done"]
    /\ UNCHANGED <<grant, effects>>

ContractNext ==
    \/ \E w \in Writes :
          \/ Propose(w) \/ Authorise(w) \/ Refuse(w) \/ Begin(w)
          \/ \E g \in 1 .. grant[w] : Effect(w, g)
          \/ GiveBack(w) \/ Complete(w) \/ Confirm(w)
    \/ \E W \in SUBSET Writes : Doubt(W)

ContractSpec == ContractInit /\ [][ContractNext]_contractVars
=============================================================================

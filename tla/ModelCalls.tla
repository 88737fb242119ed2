------------------------------ MODULE ModelCalls ------------------------------
(***************************************************************************)
(* Calls to the chat models and the settings they run with: core/llm.py,   *)
(* services/system_config.py with crud/system_config.py, and the budget a  *)
(* call is charged to (agent/budget.py).                                   *)
(*                                                                         *)
(* The settings of a tier are rows of their own, saved while calls are in  *)
(* flight; HTTP clients are kept open and shared.  The strong tier falls   *)
(* back exactly as the fast one does and is left out, as are embeddings    *)
(* (no fallback, no price).  A row that is not stored counts as one that   *)
(* holds the default of .env.                                              *)
(***************************************************************************)
EXTENDS Integers

CONSTANTS
    Admin,          \* requests that save the settings
    Caller,         \* budgets: turns of a chat, and sub-agents
    Endpoint,       \* a base URL and the name of a model there
    Blank,          \* a tier whose base URL or model name is empty
    ApiKey,
    NoKey,
    Offer,          \* [model, price]: what administrators enter for a tier
    MaxCost,        \* Budget.max_cost_usd
    Rounds,         \* Budget.max_steps
    MaxSaves        \* bound on the times the settings are saved

ASSUME ModelCallsAssumption ==
    /\ Blank \notin Endpoint /\ NoKey \notin ApiKey
    /\ Offer \subseteq [model : Endpoint \cup {Blank}, price : Nat]
    /\ MaxCost \in Nat /\ Rounds \in Nat \ {0} /\ MaxSaves \in Nat

VARIABLES
    settings,   \* the rows of each tier: [model, price, key]
    save,       \* the rows a save has loaded, NotEditing otherwise
    saves,      \* times the settings were saved
    clients,    \* _CLIENT_CACHE: [id, model, key]
    call,       \* the call a budget has in flight: [at, purpose, asked, tier, with, client]
    spent,      \* the budgets: [cost, by, rounds]
    offered     \* history: every configuration a tier has had

modelVars == <<settings, save, saves, clients, call, spent, offered>>

Tier == {"fast", "balanced"}
Settings == [model : Endpoint \cup {Blank}, price : Nat, key : ApiKey \cup {NoKey}]
NotEditing == <<>>
NoSettings == [model |-> Blank, price |-> 0, key |-> NoKey]
NoClient == [id |-> <<>>, model |-> Blank, key |-> NoKey]
NoCall == [at |-> "none", purpose |-> "none", asked |-> "balanced", tier |-> "balanced",
           with |-> NoSettings, client |-> NoClient]
NothingSpent == [cost |-> 0, by |-> [t \in Tier |-> 0], rounds |-> 0]

ModelCallsTypeOK ==
    /\ settings \in [Tier -> Settings] /\ settings["balanced"].model # Blank
    /\ save \in [Admin -> {NotEditing} \cup [Tier -> Settings]]
    /\ saves \in 0 .. MaxSaves
    /\ \A c \in Caller :
         /\ call[c].at \in {"none", "between", "resolved", "sent", "ended"}
         /\ call[c].purpose \in {"none", "answer", "work", "summary"}
         /\ {call[c].asked, call[c].tier} \subseteq Tier
         /\ call[c].with \in Settings
         /\ spent[c] \in [cost : Nat, by : [Tier -> Nat], rounds : 0 .. Rounds]

ModelCallsInit ==
    /\ \E o \in Offer :
         /\ o.model # Blank
         /\ settings = [t \in Tier |->
                IF t = "balanced" THEN [model |-> o.model, price |-> o.price, key |-> NoKey]
                                  ELSE NoSettings]
    /\ save = [a \in Admin |-> NotEditing]
    /\ saves = 0
    /\ clients = {}
    /\ call = [c \in Caller |-> NoCall]
    /\ spent = [c \in Caller |-> NothingSpent]
    /\ offered = {settings[t] : t \in Tier}

(***************************************************************************)
(* Settings.  upsert_values loads the rows and then writes the columns     *)
(* whose value is no longer the one it loaded; two saves may overlap.      *)
(***************************************************************************)
SaveLoads(a) ==
    /\ save[a] = NotEditing /\ saves < MaxSaves
    /\ save' = [save EXCEPT ![a] = settings]
    /\ UNCHANGED <<settings, saves, clients, call, spent, offered>>

\* What a row holds after a save that loaded old and was given new.
Written(old, new, now) == IF new = old THEN now ELSE new

\* A key is replaced, cleared, or left as it is; the balanced tier may not be blank.
SaveCommits(a) ==
    \E enter \in [Tier -> Offer], keys \in [Tier -> ApiKey \cup {NoKey, "keep"}] :
        /\ save[a] # NotEditing /\ saves < MaxSaves
        /\ enter["balanced"].model # Blank
        /\ settings' = [t \in Tier |->
              [model |-> Written(save[a][t].model, enter[t].model, settings[t].model),
               price |-> Written(save[a][t].price, enter[t].price, settings[t].price),
               key |-> IF keys[t] = "keep" THEN settings[t].key
                       ELSE Written(save[a][t].key, keys[t], settings[t].key)]]
        /\ offered' = offered \cup {settings'[t] : t \in Tier}
        /\ save' = [save EXCEPT ![a] = NotEditing]
        /\ saves' = saves + 1
        /\ UNCHANGED <<clients, call, spent>>

\* No encryption key, a row that another save has inserted first, or a lost
\* connection: nothing of the save is kept.
SaveFails(a) ==
    /\ save[a] # NotEditing
    /\ save' = [save EXCEPT ![a] = NotEditing]
    /\ UNCHANGED <<settings, saves, clients, call, spent, offered>>

(***************************************************************************)
(* Calls.  A turn asks the balanced tier for an answer, after a summary by *)
(* the fast one where its history has grown; a sub-agent asks the tier of  *)
(* its role.                                                               *)
(***************************************************************************)
\* The tier whose settings a call for tier t runs with: a tier that is not
\* configured falls back as a whole.
Effective(t) == IF settings[t].model = Blank THEN "balanced" ELSE t
\* _resolve_model_config: one reading of all the rows.
Resolved(t) == [tier |-> Effective(t), with |-> settings[Effective(t)]]

Asks(c) ==
    CASE call[c].at = "none" ->
            {<<"answer", "balanced">>, <<"summary", "fast">>} \cup {<<"work", t>> : t \in Tier}
      [] call[c].at = "between" /\ call[c].purpose = "summary" -> {<<"answer", "balanced">>}
      [] call[c].at = "between" /\ call[c].purpose = "answer" ->
            {<<"answer", "balanced">>, <<"summary", "fast">>}
      [] call[c].at = "between" /\ call[c].purpose = "work" -> {<<"work", call[c].asked>>}
      [] OTHER -> {}

\* The settings are read once; the connection is given back before the call.
\* The answer that follows a summary belongs to the same step.
CallResolves(c) ==
    \E w \in Asks(c) :
        /\ LET same == call[c].purpose = "summary" IN
           /\ same \/ spent[c].rounds < Rounds
           /\ spent' = [spent EXCEPT ![c].rounds = IF same THEN @ ELSE @ + 1]
        /\ call' = [call EXCEPT ![c] = [NoCall EXCEPT !.at = "resolved", !.purpose = w[1],
                        !.asked = w[2], !.tier = Resolved(w[2]).tier, !.with = Resolved(w[2]).with]]
        /\ UNCHANGED <<settings, save, saves, clients, offered>>

\* A wrong key: one client for each tier, whatever it was opened for.
ClientOfTier(k) == <<k.tier, "client">>
\* A client is shared by the calls to one address with one API key.
ClientKey(k) == <<k.with.model, k.with.key>>
\* _shared_client: the one that is open, or a new one.
CallSends(c) ==
    LET id == ClientKey(call[c])
        new == [id |-> id, model |-> call[c].with.model, key |-> call[c].with.key]
        open == {k \in clients : k.id = id}
    IN \E client \in IF open = {} THEN {new} ELSE open :
        /\ call[c].at = "resolved"
        /\ clients' = clients \cup {client}
        /\ call' = [call EXCEPT ![c].at = "sent", ![c].client = client]
        /\ UNCHANGED <<settings, save, saves, spent, offered>>

\* An answer's price is added to what its tier has cost.
Booked(by, t, price) == [by EXCEPT ![t] = @ + price]
\* record_cost.  A streamed answer names the tier it came from; of any other
\* the caller knows the tier it asked for, and a summary names none.
Charge(c) ==
    LET price == call[c].with.price IN
    spent' = [spent EXCEPT ![c].cost = @ + price,
                           ![c].by = CASE call[c].purpose = "answer" -> Booked(@, call[c].tier, price)
                                       [] call[c].purpose = "work" -> Booked(@, call[c].asked, price)
                                       [] call[c].purpose = "summary" -> @]
Overspent(c) == spent'[c].cost > MaxCost

\* A summary that crosses the limit is dropped and the step goes on; any other
\* answer is the last one then, and may be the last one anyway.
CallAnswers(c) ==
    /\ call[c].at = "sent"
    /\ Charge(c)
    /\ \/ /\ call[c].purpose = "summary" \/ ~Overspent(c)
          /\ call' = [call EXCEPT ![c] = [NoCall EXCEPT !.at = "between",
                          !.purpose = call[c].purpose, !.asked = call[c].asked]]
       \/ /\ call[c].purpose # "summary"
          /\ call' = [call EXCEPT ![c] = [NoCall EXCEPT !.at = "ended"]]
    /\ UNCHANGED <<settings, save, saves, clients, offered>>

\* The address cannot be reached, answers with an error, or breaks off.
CallFails(c) ==
    /\ call[c].at \in {"resolved", "sent"}
    /\ call' = [call EXCEPT ![c] =
          IF call[c].purpose = "summary"
          THEN [NoCall EXCEPT !.at = "between", !.purpose = "summary", !.asked = "fast"]
          ELSE [NoCall EXCEPT !.at = "ended"]]
    /\ UNCHANGED <<settings, save, saves, clients, spent, offered>>

\* The next step is refused: the step budget is used up.
RoundsUsedUp(c) ==
    /\ call[c].at = "between" /\ call[c].purpose # "summary" /\ spent[c].rounds = Rounds
    /\ call' = [call EXCEPT ![c] = [NoCall EXCEPT !.at = "ended"]]
    /\ UNCHANGED <<settings, save, saves, clients, spent, offered>>

\* close_llm_clients
ClientsClose ==
    /\ clients # {}
    /\ clients' = {}
    /\ UNCHANGED <<settings, save, saves, call, spent, offered>>

ModelCallsNext ==
    \/ \E a \in Admin : SaveLoads(a) \/ SaveCommits(a) \/ SaveFails(a)
    \/ \E c \in Caller :
         \/ CallResolves(c) \/ CallSends(c) \/ CallAnswers(c) \/ CallFails(c)
         \/ RoundsUsedUp(c)
    \/ ClientsClose

ModelCallsSpec == ModelCallsInit /\ [][ModelCallsNext]_modelVars

(***************************************************************************)
(* Properties                                                              *)
(***************************************************************************)
\* What is charged for an answer is the price of the model that gave it: the
\* address that was reached, the key it was reached with and the price belong
\* to one configuration that a tier has had, however the settings change
\* while calls are in flight and clients stay open.
ChargedAsConfigured ==
    [][\A c \in Caller : spent'[c].cost # spent[c].cost =>
          [model |-> call[c].client.model, key |-> call[c].client.key,
           price |-> spent'[c].cost - spent[c].cost] \in offered]_modelVars
=============================================================================

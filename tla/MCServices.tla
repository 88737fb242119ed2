----------------------------- MODULE MCServices -----------------------------
(* One instance of each service that shares no state with the others.  TLC   *)
(* explores their disjoint sum: the first state chooses the service that     *)
(* runs, and the others stay as they are initially.  The model values are    *)
(* shared: a1 and a2 are what acts, o1 and o2 what is acted upon.            *)
EXTENDS Accounts, Roles, Knowledge, WsHub, ResultSummary, Monitor, Conversation, ModelCalls, TLC

CONSTANTS a1, a2, a3, o1, o2, k0, k1

VARIABLE service

SameContent(d) == 0
Offers == {[model |-> Blank, price |-> 2], [model |-> k1, price |-> 1]}
Interchangeable == Permutations({a1, a2}) \cup Permutations({o1, o2})

ServicesInit ==
    /\ service \in {"accounts", "roles", "knowledge", "hub", "summary", "monitor", "conversation",
                  "models"}
    /\ AccountsInit /\ RolesInit /\ KnowledgeInit /\ HubInit
    /\ SummaryInit /\ MonitorInit /\ ConversationInit /\ ModelCallsInit

OnlyAccounts ==
    /\ service = "accounts"
    /\ AccountsNext
    /\ UNCHANGED <<service, rolesVars, knowledgeVars, hubVars, summaryVars, monitorVars, conversationVars, modelVars>>
OnlyRoles ==
    /\ service = "roles"
    /\ RolesNext
    /\ UNCHANGED <<service, accountVars, knowledgeVars, hubVars, summaryVars, monitorVars, conversationVars, modelVars>>
OnlyKnowledge ==
    /\ service = "knowledge"
    /\ KnowledgeNext
    /\ UNCHANGED <<service, accountVars, rolesVars, hubVars, summaryVars, monitorVars, conversationVars, modelVars>>
OnlyHub ==
    /\ service = "hub"
    /\ HubNext
    /\ UNCHANGED <<service, accountVars, rolesVars, knowledgeVars, summaryVars, monitorVars, conversationVars, modelVars>>
OnlySummary ==
    /\ service = "summary"
    /\ SummaryNext
    /\ UNCHANGED <<service, accountVars, rolesVars, knowledgeVars, hubVars, monitorVars, conversationVars, modelVars>>
OnlyMonitor ==
    /\ service = "monitor"
    /\ MonitorNext
    /\ UNCHANGED <<service, accountVars, rolesVars, knowledgeVars, hubVars, summaryVars, conversationVars, modelVars>>
OnlyConversation ==
    /\ service = "conversation"
    /\ ConversationNext
    /\ UNCHANGED <<service, accountVars, rolesVars, knowledgeVars, hubVars, summaryVars, monitorVars, modelVars>>
OnlyModels ==
    /\ service = "models"
    /\ ModelCallsNext
    /\ UNCHANGED <<service, accountVars, rolesVars, knowledgeVars, hubVars, summaryVars, monitorVars,
                   conversationVars>>

ServicesNext ==
    \/ OnlyAccounts
    \/ OnlyRoles
    \/ OnlyKnowledge
    \/ OnlyHub
    \/ OnlySummary
    \/ OnlyMonitor
    \/ OnlyConversation
    \/ OnlyModels

ServicesSpec ==
    /\ ServicesInit
    /\ [][ServicesNext]_<<service, accountVars, rolesVars, knowledgeVars, hubVars,
                          summaryVars, monitorVars, conversationVars, modelVars>>

\* The variables of the service keep their types.
ServicesTypeOK ==
    CASE service = "accounts" -> AccountsTypeOK
      [] service = "roles" -> RolesTypeOK
      [] service = "knowledge" -> KnowledgeTypeOK
      [] service = "hub" -> HubTypeOK
      [] service = "summary" -> SummaryTypeOK
      [] service = "monitor" -> MonitorTypeOK
      [] service = "conversation" -> ConversationTypeOK
      [] service = "models" -> ModelCallsTypeOK
=============================================================================

-------------------------------- MODULE Roles --------------------------------
(***************************************************************************)
(* Roles and permissions (crud/role.py, crud/permission.py, the roles of   *)
(* crud/user.py, api/v1/roles.py and permissions.py): a user holds roles,  *)
(* a role grants permissions, and a grant counts while every row on its    *)
(* way is neither deleted nor inactive.                                    *)
(*                                                                         *)
(* Replacing an association locks its owner, then the rows it names in id  *)
(* order.  A role is deleted under its lock if no live user holds it.  The *)
(* other operations lock the one row they change.                          *)
(***************************************************************************)
EXTENDS Integers, FiniteSets

CONSTANTS
    Holder,         \* users.id
    Role,           \* roles.id
    Permission,     \* permissions.id
    Editor,         \* requests with a transaction of several steps
    Nobody

ASSUME RolesAssumption ==
    /\ Role \subseteq Nat /\ Permission \subseteq Nat /\ Role \cap Permission = {}
    /\ Holder \cap (Role \cup Permission) = {}
    /\ Nobody \notin Editor

VARIABLES
    row,        \* state of a user, role or permission row
    inactive,   \* roles and permissions with is_active FALSE
    link,       \* user_roles and role_permissions
    locked,     \* which request holds the lock on a row
    edit,       \* the requests in flight
    assigned    \* history: what the last assignment to a user or role named

rolesVars == <<row, inactive, link, locked, edit, assigned>>

Owner == Holder \cup Role
Row == Owner \cup Permission
\* The rows that may be linked to an owner.
Linkable(o) == IF o \in Holder THEN Role ELSE Permission

NoEdit == [at |-> "idle", owner |-> Nobody, rest |-> {}, names |-> {}]
There(x) == row[x] = "live"

RolesTypeOK ==
    /\ row \in [Row -> {"absent", "live", "deleted"}]
    /\ inactive \subseteq Role \cup Permission
    /\ link \in [Owner -> SUBSET (Role \cup Permission)]
    /\ locked \in [Row -> Editor \cup {Nobody}]
    /\ edit \in [Editor -> [at : {"idle", "assigning", "deleting"}, owner : Owner \cup {Nobody},
                            rest : SUBSET (Role \cup Permission),
                            names : SUBSET (Role \cup Permission)]]
    /\ assigned \in [Owner -> SUBSET (Role \cup Permission)]

RolesInit ==
    /\ row = [x \in Row |-> IF x \in Holder THEN "live" ELSE "absent"]
    /\ inactive = {}
    /\ link = [o \in Owner |-> {}]
    /\ locked = [x \in Row |-> Nobody]
    /\ edit = [e \in Editor |-> NoEdit]
    /\ assigned = [o \in Owner |-> {}]

Free(x) == locked[x] = Nobody
Release(e) ==
    /\ locked' = [x \in Row |-> IF locked[x] = e THEN Nobody ELSE locked[x]]
    /\ edit' = [edit EXCEPT ![e] = NoEdit]

(***************************************************************************)
(* assign_roles and assign_permissions                                     *)
(***************************************************************************)
AssignLocksOwner(e, o, names) ==
    /\ edit[e].at = "idle" /\ There(o) /\ Free(o)
    /\ locked' = [locked EXCEPT ![o] = e]
    /\ edit' = [edit EXCEPT ![e] = [at |-> "assigning", owner |-> o, rest |-> names, names |-> names]]
    /\ UNCHANGED <<row, inactive, link, assigned>>

\* A wrong _get_required_roles: the rows are read, not locked.
AssignReadsNext(e) ==
    /\ edit[e].at = "assigning"
    /\ \E x \in edit[e].rest :
          /\ \A y \in edit[e].rest : x <= y
          /\ IF There(x)
             THEN edit' = [edit EXCEPT ![e].rest = @ \ {x}] /\ UNCHANGED locked
             ELSE Release(e)
    /\ UNCHANGED <<row, inactive, link, assigned>>
\* _get_required_roles, _get_required_permissions: a row that is not there when
\* its lock comes is missing (RelatedObjectsNotFoundError).
AssignLocksNext(e) ==
    /\ edit[e].at = "assigning"
    /\ \E x \in edit[e].rest :
          /\ Free(x) /\ \A y \in edit[e].rest : x <= y
          /\ IF There(x)
             THEN /\ locked' = [locked EXCEPT ![x] = e]
                  /\ edit' = [edit EXCEPT ![e].rest = @ \ {x}]
             ELSE Release(e)
    /\ UNCHANGED <<row, inactive, link, assigned>>

\* A wrong replacement: links to deleted rows were not loaded and stay.
ReplaceLoaded(o, names) == names \cup {x \in link[o] : ~There(x)}
\* All links were loaded, those to deleted rows too.
Replace(o, names) == names

AssignCommits(e) ==
    LET o == edit[e].owner IN
    /\ edit[e].at = "assigning" /\ edit[e].rest = {}
    /\ link' = [link EXCEPT ![o] = Replace(o, edit[e].names)]
    /\ assigned' = [assigned EXCEPT ![o] = edit[e].names]
    /\ Release(e) /\ UNCHANGED <<row, inactive>>

(***************************************************************************)
(* soft_delete_if_unassigned: the count is read under the role's lock.     *)
(***************************************************************************)
Holders(x) == {u \in Holder : There(u) /\ x \in link[u]}

DeleteLocksRole(e, x) ==
    /\ edit[e].at = "idle" /\ There(x) /\ Free(x)
    /\ locked' = [locked EXCEPT ![x] = e]
    /\ edit' = [edit EXCEPT ![e] = [NoEdit EXCEPT !.at = "deleting", !.owner = x]]
    /\ UNCHANGED <<row, inactive, link, assigned>>

DeleteCommits(e) ==
    LET x == edit[e].owner IN
    /\ edit[e].at = "deleting"
    /\ row' = [row EXCEPT ![x] = IF Holders(x) = {} THEN "deleted" ELSE @]
    /\ Release(e) /\ UNCHANGED <<inactive, link, assigned>>

(***************************************************************************)
(* Operations on one row                                                   *)
(***************************************************************************)
OneRow(x) == Free(x) /\ UNCHANGED <<locked, edit>>

\* create of a role or permission: nothing is linked to it
CreateRow(x) ==
    /\ row[x] = "absent" /\ OneRow(x)
    /\ row' = [row EXCEPT ![x] = "live"]
    /\ UNCHANGED <<inactive, link, assigned>>

\* delete_permission and the deletion of a user look at no links.
DeleteRow(x) ==
    /\ There(x) /\ OneRow(x)
    /\ row' = [row EXCEPT ![x] = "deleted"]
    /\ UNCHANGED <<inactive, link, assigned>>

RestoreRow(x) ==
    /\ row[x] = "deleted" /\ OneRow(x)
    /\ row' = [row EXCEPT ![x] = "live"]
    /\ UNCHANGED <<inactive, link, assigned>>

\* hard_delete: the links go with the row; its id is not used again, so that
\* the row that may be created next is another one.
PurgeRow(x) ==
    /\ row[x] = "deleted" /\ OneRow(x)
    /\ row' = [row EXCEPT ![x] = "absent"]
    /\ link' = [o \in Owner |-> IF o = x THEN {} ELSE link[o] \ {x}]
    /\ assigned' = [o \in Owner |-> IF o = x THEN {} ELSE assigned[o] \ {x}]
    /\ inactive' = inactive \ {x}

\* update of is_active
Toggle(x) ==
    /\ There(x) /\ OneRow(x)
    /\ inactive' = IF x \in inactive THEN inactive \ {x} ELSE inactive \cup {x}
    /\ UNCHANGED <<row, link, assigned>>

RolesNext ==
    \/ \E e \in Editor, o \in Owner : \E names \in SUBSET Linkable(o) : AssignLocksOwner(e, o, names)
    \/ \E e \in Editor : AssignLocksNext(e) \/ AssignCommits(e) \/ DeleteCommits(e)
    \/ \E e \in Editor, x \in Role : DeleteLocksRole(e, x)
    \/ \E x \in Row : RestoreRow(x)
    \/ \E x \in Holder \cup Permission : DeleteRow(x)
    \/ \E x \in Role \cup Permission : CreateRow(x) \/ PurgeRow(x) \/ Toggle(x)

RolesSpec == RolesInit /\ [][RolesNext]_rolesVars

(***************************************************************************)
(* Properties                                                              *)
(***************************************************************************)
\* permission_exists and get_permission_codes
Counts(x) == There(x) /\ x \notin inactive
Granted(u) ==
    {p \in Permission : Counts(p) /\ \E x \in link[u] \cap Role : Counts(x) /\ p \in link[x]}

\* Whatever is deleted, disabled, restored and enabled, a user is granted only
\* what the last assignments to the user and to the roles named: an association
\* hidden by a deletion when it was replaced does not come back.
NothingReturns ==
    \A u \in Holder : Granted(u) \subseteq UNION {assigned[x] : x \in assigned[u]}

\* Live users who hold a deleted role.
HoldsDeleted ==
    {use \in Holder \X Role : There(use[1]) /\ use[2] \in link[use[1]] /\ row[use[2]] = "deleted"}

\* A role that is being assigned is not deleted, and a deleted one is not
\* assigned: nobody but a user who is restored comes to hold a deleted role
\* (soft_delete_if_unassigned, _get_required_roles).
RolesInUseStay ==
    [][\A use \in HoldsDeleted' \ HoldsDeleted : row[use[1]] = "deleted"]_rolesVars
=============================================================================

--------------------------- MODULE ServicesProofs ---------------------------
(***************************************************************************)
(* The services for any number of actors: roles, the summary of a result,  *)
(* the WebSocket hub, the calls to the models, the documents of the        *)
(* knowledge base, and monitoring; and all of them side by side, with the  *)
(* accounts and the conversation, which have modules of their own.         *)
(***************************************************************************)
EXTENDS MCServices, AccountsProofs, ConversationProofs

-----------------------------------------------------------------------------
(* Roles.  What an assignment has looked at under a lock stays there, and  *)
(* a deletion has the role's own lock.                                     *)

Edits == [at : {"idle", "assigning", "deleting"}, owner : Owner \cup {Nobody},
          rest : SUBSET (Role \cup Permission), names : SUBSET (Role \cup Permission)]

EditsHoldLocks ==
    \A e \in Editor :
        /\ edit[e].at = "assigning" =>
              /\ edit[e].owner \in Owner
              /\ \A x \in edit[e].names \ edit[e].rest : locked[x] = e /\ There(x)
        /\ edit[e].at = "deleting" => edit[e].owner \in Role /\ locked[edit[e].owner] = e

RolesInv == RolesTypeOK /\ EditsHoldLocks /\ link = assigned

LEMMA EditTypes == RolesTypeOK => edit \in [Editor -> Edits]
BY DEF RolesTypeOK, Edits

LEMMA RowsAre == Role \subseteq Row /\ Permission \subseteq Row /\ Owner \subseteq Row /\ Nobody \notin Editor
BY RolesAssumption DEF Row, Owner

\* The end of an edit gives back only its own locks.
LEMMA Releasing ==
    ASSUME RolesTypeOK, NEW e \in Editor, Release(e)
    PROVE  /\ locked' \in [Row -> Editor \cup {Nobody}] /\ edit' \in [Editor -> Edits]
           /\ edit'[e].at = "idle"
           /\ \A d \in Editor \ {e} : edit'[d] = edit[d]
           /\ \A x \in Row : locked[x] # e => locked'[x] = locked[x]
<1>1. NoEdit \in Edits /\ NoEdit.at = "idle"
  BY DEF NoEdit, Edits
<1>2. edit' \in [Editor -> Edits] /\ edit'[e] = NoEdit /\ \A d \in Editor \ {e} : edit'[d] = edit[d]
  BY <1>1, EditTypes DEF Release
<1>3. locked' \in [Row -> Editor \cup {Nobody}] /\ \A x \in Row : locked[x] # e => locked'[x] = locked[x]
  BY DEF Release, RolesTypeOK
<1>4. QED
  BY <1>1, <1>2, <1>3

\* The other edits keep what they have when an edit ends with no row gone.
LEMMA OthersHold ==
    ASSUME RolesTypeOK, EditsHoldLocks, NEW e \in Editor, Release(e),
           \A x \in Row : There(x) /\ locked[x] # e => There(x)'
    PROVE  EditsHoldLocks'
<1> SUFFICES ASSUME NEW d \in Editor
             PROVE  /\ edit'[d].at = "assigning" =>
                         /\ edit'[d].owner \in Owner
                         /\ \A x \in edit'[d].names \ edit'[d].rest : locked'[x] = d /\ There(x)'
                    /\ edit'[d].at = "deleting" => edit'[d].owner \in Role /\ locked'[edit'[d].owner] = d
  BY DEF EditsHoldLocks
<1>1. CASE d = e
  BY <1>1, Releasing
<1>2. CASE d # e
  <2>1. edit'[d] = edit[d] /\ edit[d] \in Edits
    BY <1>2, Releasing, EditTypes
  <2>2. \A x \in edit[d].names : x \in Row
    BY <2>1, RowsAre DEF Edits
  <2>3. QED
    BY <1>2, <2>1, <2>2, Releasing, RowsAre DEF EditsHoldLocks
<1>3. QED
  BY <1>1, <1>2

LEMMA LocksOwnerKeeps ==
    ASSUME RolesInv, NEW e \in Editor, NEW o \in Owner, NEW names \in SUBSET Linkable(o),
           AssignLocksOwner(e, o, names)
    PROVE  RolesInv'
<1> DEFINE k == [at |-> "assigning", owner |-> o, rest |-> names, names |-> names]
<1>1. names \in SUBSET (Role \cup Permission) /\ o \in Row
  BY RowsAre DEF Linkable
<1>2. /\ k \in Edits /\ k.at = "assigning" /\ k.owner = o /\ k.names \ k.rest = {}
  BY <1>1 DEF Edits
<1>3. /\ edit' = [edit EXCEPT ![e] = k] /\ locked' = [locked EXCEPT ![o] = e]
      /\ UNCHANGED <<row, inactive, link, assigned>> /\ locked[o] = Nobody
  BY DEF AssignLocksOwner, Free
<1> HIDE DEF k
<1>4. edit' \in [Editor -> Edits] /\ edit'[e] = k /\ \A d \in Editor \ {e} : edit'[d] = edit[d]
  BY <1>2, <1>3, EditTypes DEF RolesInv
<1>5. \A x \in Row : locked[x] # Nobody => locked'[x] = locked[x]
  BY <1>3 DEF RolesInv, RolesTypeOK
<1>6. RolesTypeOK'
  BY <1>1, <1>3, <1>4 DEF RolesInv, RolesTypeOK, Edits
<1>7. EditsHoldLocks'
  <2> SUFFICES ASSUME NEW d \in Editor
               PROVE  /\ edit'[d].at = "assigning" =>
                           /\ edit'[d].owner \in Owner
                           /\ \A x \in edit'[d].names \ edit'[d].rest : locked'[x] = d /\ There(x)
                      /\ edit'[d].at = "deleting" => edit'[d].owner \in Role /\ locked'[edit'[d].owner] = d
    BY <1>3 DEF EditsHoldLocks, There
  <2>1. CASE d = e
    BY <1>2, <1>4, <2>1
  <2>2. CASE d # e
    <3>1. edit'[d] = edit[d] /\ edit[d] \in Edits /\ d # Nobody
      BY <1>4, <2>2, EditTypes, RowsAre DEF RolesInv
    <3>2. \A x \in edit[d].names : x \in Row
      BY <3>1, RowsAre DEF Edits
    <3>3. QED
      BY <1>5, <3>1, <3>2, RowsAre DEF RolesInv, EditsHoldLocks
  <2>3. QED
    BY <2>1, <2>2
<1>8. QED
  BY <1>3, <1>6, <1>7 DEF RolesInv

LEMMA LocksNextKeeps ==
    ASSUME RolesInv, NEW e \in Editor, AssignLocksNext(e)
    PROVE  RolesInv'
<1>1. UNCHANGED <<row, inactive, link, assigned>> /\ edit[e].at = "assigning" /\ edit[e] \in Edits
  BY EditTypes DEF AssignLocksNext, RolesInv
<1>2. CASE Release(e)
  <2>1. EditsHoldLocks'
    BY <1>1, <1>2, OthersHold DEF RolesInv, There
  <2>2. QED
    BY <1>1, <1>2, <2>1, Releasing DEF RolesInv, RolesTypeOK, Edits
<1>3. ASSUME NEW x \in edit[e].rest, Free(x), There(x), locked' = [locked EXCEPT ![x] = e],
             edit' = [edit EXCEPT ![e].rest = @ \ {x}]
      PROVE  RolesInv'
  <2> DEFINE k == [edit[e] EXCEPT !.rest = @ \ {x}]
  <2>1. x \in Row /\ edit' = [edit EXCEPT ![e] = k]
    BY <1>1, <1>3, RowsAre, EditTypes DEF Edits, RolesInv
  <2>2. /\ k \in Edits /\ k.at = "assigning" /\ k.owner = edit[e].owner
        /\ k.names \ k.rest \subseteq (edit[e].names \ edit[e].rest) \cup {x}
        /\ k.names \in SUBSET (Role \cup Permission)
    BY <1>1 DEF Edits
  <2> HIDE DEF k
  <2>3. edit' \in [Editor -> Edits] /\ edit'[e] = k /\ \A d \in Editor \ {e} : edit'[d] = edit[d]
    BY <2>1, <2>2, EditTypes DEF RolesInv
  <2>4. \A y \in Row : locked[y] # Nobody => locked'[y] = locked[y]
    BY <1>3 DEF RolesInv, RolesTypeOK, Free
  <2>5. locked'[x] = e
    BY <1>3, <2>1 DEF RolesInv, RolesTypeOK
  <2>6. RolesTypeOK'
    BY <1>1, <1>3, <2>1, <2>3 DEF RolesInv, RolesTypeOK, Edits
  <2>7. EditsHoldLocks'
    <3> SUFFICES ASSUME NEW d \in Editor
                 PROVE  /\ edit'[d].at = "assigning" =>
                             /\ edit'[d].owner \in Owner
                             /\ \A y \in edit'[d].names \ edit'[d].rest : locked'[y] = d /\ There(y)
                        /\ edit'[d].at = "deleting" => edit'[d].owner \in Role /\ locked'[edit'[d].owner] = d
      BY <1>1 DEF EditsHoldLocks, There
    <3>1. CASE d = e
      <4>1. edit[e].owner \in Owner /\ \A y \in edit[e].names \ edit[e].rest : locked[y] = e /\ There(y)
        BY <1>1 DEF RolesInv, EditsHoldLocks
      <4>2. \A y \in k.names \ k.rest : locked'[y] = e /\ There(y)
        BY <1>3, <2>2, <2>4, <2>5, <4>1, RowsAre
      <4>3. QED
        BY <2>2, <2>3, <3>1, <4>1, <4>2
    <3>2. CASE d # e
      <4>1. edit'[d] = edit[d] /\ edit[d] \in Edits /\ d # Nobody
        BY <2>3, <3>2, EditTypes, RowsAre DEF RolesInv
      <4>2. \A y \in edit[d].names : y \in Row
        BY <4>1, RowsAre DEF Edits
      <4>3. QED
        BY <2>4, <4>1, <4>2, RowsAre DEF RolesInv, EditsHoldLocks
    <3>3. QED
      BY <3>1, <3>2
  <2>8. QED
    BY <1>1, <2>6, <2>7 DEF RolesInv
<1>4. QED
  BY <1>2, <1>3 DEF AssignLocksNext

LEMMA AssignCommitKeeps ==
    ASSUME RolesInv, NEW e \in Editor, AssignCommits(e)
    PROVE  RolesInv'
<1>1. edit[e] \in Edits /\ Release(e) /\ UNCHANGED <<row, inactive>>
  BY EditTypes DEF AssignCommits, RolesInv
<1>2. PICK o \in Owner, names \in SUBSET (Role \cup Permission) :
        link' = [link EXCEPT ![o] = names] /\ assigned' = [assigned EXCEPT ![o] = names]
  BY <1>1 DEF AssignCommits, RolesInv, EditsHoldLocks, Edits, Replace
<1>3. EditsHoldLocks'
  BY <1>1, OthersHold DEF RolesInv, There
<1>4. RolesTypeOK'
  BY <1>1, <1>2, Releasing DEF RolesInv, RolesTypeOK, Edits
<1>5. QED
  BY <1>2, <1>3, <1>4 DEF RolesInv

LEMMA LocksRoleKeeps ==
    ASSUME RolesInv, NEW e \in Editor, NEW x \in Role, DeleteLocksRole(e, x)
    PROVE  RolesInv'
<1> DEFINE k == [NoEdit EXCEPT !.at = "deleting", !.owner = x]
<1>1. x \in Row /\ x \in Owner
  BY RowsAre DEF Owner
<1>2. k \in Edits /\ k.at = "deleting" /\ k.owner = x
  <2>1. NoEdit \in Edits
    BY DEF NoEdit, Edits
  <2>2. QED
    BY <1>1, <2>1 DEF Edits
<1>3. /\ edit' = [edit EXCEPT ![e] = k] /\ locked' = [locked EXCEPT ![x] = e]
      /\ UNCHANGED <<row, inactive, link, assigned>> /\ locked[x] = Nobody
  BY DEF DeleteLocksRole, Free
<1> HIDE DEF k
<1>4. edit' \in [Editor -> Edits] /\ edit'[e] = k /\ \A d \in Editor \ {e} : edit'[d] = edit[d]
  BY <1>2, <1>3, EditTypes DEF RolesInv
<1>5. locked'[x] = e /\ \A y \in Row : locked[y] # Nobody => locked'[y] = locked[y]
  BY <1>1, <1>3 DEF RolesInv, RolesTypeOK
<1>6. RolesTypeOK'
  BY <1>1, <1>3, <1>4 DEF RolesInv, RolesTypeOK, Edits
<1>7. EditsHoldLocks'
  <2> SUFFICES ASSUME NEW d \in Editor
               PROVE  /\ edit'[d].at = "assigning" =>
                           /\ edit'[d].owner \in Owner
                           /\ \A y \in edit'[d].names \ edit'[d].rest : locked'[y] = d /\ There(y)
                      /\ edit'[d].at = "deleting" => edit'[d].owner \in Role /\ locked'[edit'[d].owner] = d
    BY <1>3 DEF EditsHoldLocks, There
  <2>1. CASE d = e
    BY <1>2, <1>4, <1>5, <2>1
  <2>2. CASE d # e
    <3>1. edit'[d] = edit[d] /\ edit[d] \in Edits /\ d # Nobody
      BY <1>4, <2>2, EditTypes, RowsAre DEF RolesInv
    <3>2. \A y \in edit[d].names : y \in Row
      BY <3>1, RowsAre DEF Edits
    <3>3. QED
      BY <1>5, <3>1, <3>2, RowsAre DEF RolesInv, EditsHoldLocks
  <2>3. QED
    BY <2>1, <2>2
<1>8. QED
  BY <1>3, <1>6, <1>7 DEF RolesInv

LEMMA DeleteCommitKeeps ==
    ASSUME RolesInv, NEW e \in Editor, DeleteCommits(e)
    PROVE  RolesInv'
<1>1. PICK x \in Role : locked[x] = e /\ row' = [row EXCEPT ![x] = IF Holders(x) = {} THEN "deleted" ELSE @]
  BY DEF DeleteCommits, RolesInv, EditsHoldLocks
<1>2. Release(e) /\ UNCHANGED <<inactive, link, assigned>>
  BY DEF DeleteCommits
<1>3. \A y \in Row : locked[y] # e => row'[y] = row[y]
  BY <1>1 DEF RolesInv, RolesTypeOK
<1>4. EditsHoldLocks'
  BY <1>2, <1>3, OthersHold DEF RolesInv, There
<1>5. RolesTypeOK'
  BY <1>1, <1>2, RowsAre, Releasing DEF RolesInv, RolesTypeOK, Edits
<1>6. QED
  BY <1>2, <1>4, <1>5 DEF RolesInv

LEMMA OneRowKeeps ==
    ASSUME RolesInv, NEW x \in Row,
           \/ RestoreRow(x) \/ DeleteRow(x)
           \/ x \in Role \cup Permission /\ (CreateRow(x) \/ PurgeRow(x) \/ Toggle(x))
    PROVE  RolesInv'
<1>1. locked[x] = Nobody /\ UNCHANGED <<locked, edit>>
  BY DEF RestoreRow, DeleteRow, CreateRow, PurgeRow, Toggle, OneRow, Free
<1>2. \A y \in Row \ {x} : row'[y] = row[y]
  BY DEF RestoreRow, DeleteRow, CreateRow, PurgeRow, Toggle, RolesInv, RolesTypeOK
<1>3. RolesTypeOK' /\ link' = assigned'
  <2>1. CASE PurgeRow(x)
    <3>1. row' \in [Row -> {"absent", "live", "deleted"}] /\ inactive' \subseteq Role \cup Permission
      BY <2>1 DEF PurgeRow, RolesInv, RolesTypeOK
    <3>2. link' \in [Owner -> SUBSET (Role \cup Permission)] /\ link' = assigned'
      BY <2>1 DEF PurgeRow, RolesInv, RolesTypeOK
    <3>3. QED
      BY <1>1, <3>1, <3>2 DEF RolesInv, RolesTypeOK
  <2>2. CASE RestoreRow(x) \/ DeleteRow(x) \/ CreateRow(x)
    BY <1>1, <2>2 DEF RestoreRow, DeleteRow, CreateRow, RolesInv, RolesTypeOK
  <2>3. CASE x \in Role \cup Permission /\ Toggle(x)
    BY <1>1, <2>3 DEF Toggle, RolesInv, RolesTypeOK
  <2>4. QED
    BY <2>1, <2>2, <2>3
<1>4. EditsHoldLocks'
  <2> SUFFICES ASSUME NEW d \in Editor
               PROVE  /\ edit[d].at = "assigning" =>
                           /\ edit[d].owner \in Owner
                           /\ \A y \in edit[d].names \ edit[d].rest : locked[y] = d /\ There(y)'
                      /\ edit[d].at = "deleting" => edit[d].owner \in Role /\ locked[edit[d].owner] = d
    BY <1>1 DEF EditsHoldLocks
  <2>1. edit[d] \in Edits /\ d # Nobody
    BY EditTypes, RowsAre DEF RolesInv
  <2>2. \A y \in edit[d].names : y \in Row
    BY <2>1, RowsAre DEF Edits
  <2>3. QED
    BY <1>1, <1>2, <2>1, <2>2 DEF RolesInv, EditsHoldLocks, There
<1>5. QED
  BY <1>3, <1>4 DEF RolesInv

LEMMA RolesInvInit == RolesInit => RolesInv
BY DEF RolesInit, RolesInv, RolesTypeOK, EditsHoldLocks, NoEdit, Row, Owner

LEMMA RolesInvStep == RolesInv /\ [RolesNext]_rolesVars => RolesInv'
<1> SUFFICES ASSUME RolesInv, [RolesNext]_rolesVars
             PROVE  RolesInv'
  OBVIOUS
<1>1. CASE RolesNext
  <2>1. ASSUME NEW x \in Row, RestoreRow(x)
        PROVE  RolesInv'
    BY <2>1, OneRowKeeps
  <2>2. ASSUME NEW x \in Holder \cup Permission, DeleteRow(x)
        PROVE  RolesInv'
    BY <2>2, OneRowKeeps, RowsAre DEF Owner
  <2>3. ASSUME NEW x \in Role \cup Permission, CreateRow(x) \/ PurgeRow(x) \/ Toggle(x)
        PROVE  RolesInv'
    BY <2>3, OneRowKeeps, RowsAre
  <2>4. QED
    BY <1>1, <2>1, <2>2, <2>3, LocksOwnerKeeps, LocksNextKeeps, AssignCommitKeeps, DeleteCommitKeeps, LocksRoleKeeps
       DEF RolesNext
<1>2. CASE UNCHANGED rolesVars
  BY <1>2 DEF rolesVars, RolesInv, RolesTypeOK, EditsHoldLocks, There
<1>3. QED
  BY <1>1, <1>2

\* The invariant of roles and permissions: what an edit has looked at it has
\* locked, and the associations are those last assigned.
THEOREM RolesInvariant == RolesSpec => []RolesInv
<1>1. RolesInit => RolesInv
  BY RolesInvInit
<1>2. RolesInv /\ [RolesNext]_rolesVars => RolesInv'
  BY RolesInvStep
<1>3. QED
  BY <1>1, <1>2, PTL DEF RolesSpec

\* A user is granted only what the last assignments named, whatever was deleted,
\* disabled and restored in between (crud/user.py, crud/role.py assign_*).
THEOREM GrantsAreAssigned == RolesSpec => []NothingReturns
<1>1. RolesInv => NothingReturns
  BY DEF RolesInv, NothingReturns, Granted, Owner
<1>2. QED
  BY <1>1, RolesInvariant, PTL

\* A role somebody holds is not deleted and a deleted one is not assigned
\* (crud/role.py:163, crud/user.py _get_required_roles).
THEOREM HeldRolesStay == RolesSpec => RolesInUseStay
<1>1. RolesInv /\ [RolesNext]_rolesVars =>
        [\A use \in HoldsDeleted' \ HoldsDeleted : row[use[1]] = "deleted"]_rolesVars
  <2> SUFFICES ASSUME RolesInv, RolesNext, NEW u \in Holder, NEW x \in Role,
                      There(u)', x \in link'[u], row'[x] = "deleted",
                      ~(There(u) /\ x \in link[u] /\ row[x] = "deleted")
               PROVE  row[u] = "deleted"
    BY DEF HoldsDeleted
  <2>1. u \in Owner /\ u \in Row /\ x \in Row /\ x \in Owner
    BY RowsAre DEF Owner
  <2>2. ASSUME NEW e \in Editor, \/ \E o \in Owner : \E names \in SUBSET Linkable(o) : AssignLocksOwner(e, o, names)
                                \/ AssignLocksNext(e) \/ \E y \in Role : DeleteLocksRole(e, y)
        PROVE  FALSE
    BY <2>2 DEF AssignLocksOwner, AssignLocksNext, DeleteLocksRole, There
  <2>3. ASSUME NEW e \in Editor, AssignCommits(e)
        PROVE  FALSE
    <3>1. row' = row /\ row[u] = "live" /\ x \notin link[u]
      BY <2>3 DEF AssignCommits, There
    <3>2. edit[e].owner = u /\ x \in edit[e].names /\ edit[e].rest = {}
      BY <2>1, <2>3, <3>1 DEF AssignCommits, Replace, RolesInv, RolesTypeOK
    <3>3. row[x] = "live"
      BY <2>3, <3>2 DEF AssignCommits, RolesInv, EditsHoldLocks, There
    <3>4. QED
      BY <3>1, <3>3
  <2>4. ASSUME NEW e \in Editor, DeleteCommits(e)
        PROVE  row[u] = "deleted"
    <3>1. PICK y \in Role : row' = [row EXCEPT ![y] = IF Holders(y) = {} THEN "deleted" ELSE @]
      BY <2>4 DEF DeleteCommits, RolesInv, EditsHoldLocks
    <3>2. link' = link
      BY <2>4 DEF DeleteCommits
    <3>3. CASE There(u)
      <4>1. row[x] # "deleted" /\ x = y /\ Holders(x) = {}
        BY <2>1, <3>1, <3>2, <3>3 DEF RolesInv, RolesTypeOK
      <4>2. u \in Holders(x)
        BY <3>2, <3>3 DEF Holders
      <4>3. QED
        BY <4>1, <4>2
    <3>4. CASE ~There(u)
      BY <2>1, <3>1, <3>4 DEF RolesInv, RolesTypeOK, There
    <3>5. QED
      BY <3>3, <3>4
  <2>5. ASSUME NEW y \in Row, RestoreRow(y)
        PROVE  row[u] = "deleted"
    BY <2>1, <2>5 DEF RestoreRow, RolesInv, RolesTypeOK, There
  <2>6. ASSUME NEW y \in Holder \cup Permission, DeleteRow(y)
        PROVE  row[u] = "deleted"
    <3>1. y # x /\ y \in Row
      BY <2>6, RolesAssumption DEF Row, Owner
    <3>2. row' = [row EXCEPT ![y] = "deleted"] /\ link' = link
      BY <2>6 DEF DeleteRow
    <3>3. row'[x] = row[x]
      BY <2>1, <3>1, <3>2 DEF RolesInv, RolesTypeOK
    <3>4. row'[u] = "live"
      BY DEF There
    <3>5. u # y /\ row[u] = "live"
      BY <2>1, <3>1, <3>2, <3>4 DEF RolesInv, RolesTypeOK
    <3>6. QED
      BY <3>2, <3>3, <3>5 DEF There
  <2>7. ASSUME NEW y \in Role \cup Permission, CreateRow(y) \/ PurgeRow(y) \/ Toggle(y)
        PROVE  row[u] = "deleted"
    <3>1. u # y /\ y \in Row
      BY <2>7, RowsAre, RolesAssumption
    <3>2. row' = row \/ row' = [row EXCEPT ![y] = "live"] \/ row' = [row EXCEPT ![y] = "absent"]
      BY <2>7 DEF CreateRow, PurgeRow, Toggle
    <3>3. row[u] = row'[u] /\ row[x] = "deleted"
      BY <2>1, <3>1, <3>2 DEF RolesInv, RolesTypeOK
    <3>4. link'[u] \subseteq link[u]
      <4>1. CASE link' = link
        BY <4>1
      <4>2. CASE PurgeRow(y)
        BY <2>1, <4>2, <3>1 DEF PurgeRow
      <4>3. QED
        BY <2>7, <4>1, <4>2 DEF CreateRow, Toggle
    <3>5. QED
      BY <3>3, <3>4 DEF There
  <2>8. QED
    BY <2>2, <2>3, <2>4, <2>5, <2>6, <2>7 DEF RolesNext
<1>2. QED
  BY <1>1, RolesInvariant, PTL DEF RolesSpec, RolesInUseStay

-----------------------------------------------------------------------------
(* The summary of a result.  The message and the final status are one      *)
(* transaction, so that no second claim finds anything left to finish.     *)

SummaryInv ==
    /\ SummaryTypeOK
    /\ SummaryDeliveredOnce
    /\ \A w \in Worker : worker[w].at = "created" => result.status \in Final

LEMMA SummaryInvInit == SummaryInit => SummaryInv
BY SummaryAssumption DEF SummaryInit, SummaryInv, SummaryTypeOK, SummaryDeliveredOnce, Final

LEMMA SummaryInvStep == SummaryInv /\ [SummaryNext]_summaryVars => SummaryInv'
<1> USE DEF SummaryInv, SummaryTypeOK, SummaryDeliveredOnce, Final
<1>1. ASSUME SummaryInv, SummaryTick
      PROVE  SummaryInv'
  BY <1>1, SummaryAssumption DEF SummaryTick
<1>2. ASSUME SummaryInv, NEW w \in Worker, SummaryCalled(w) \/ SummaryDies(w)
      PROVE  SummaryInv'
  BY <1>2 DEF SummaryCalled, SummaryDies
<1>3. ASSUME SummaryInv, NEW w \in Worker, NEW how \in Final, SummaryGenerated(w, how)
      PROVE  SummaryInv'
  BY <1>3 DEF SummaryGenerated
<1>4. ASSUME SummaryInv, NEW w \in Worker, SummaryClaims(w)
      PROVE  SummaryInv'
  BY <1>4 DEF SummaryClaims, Claimable
<1>5. ASSUME SummaryInv, NEW w \in Worker, SummaryFinishes(w)
      PROVE  SummaryInv'
  <2>1. CASE OwnsClaim(w)
    <3>1. /\ result.status = "generating" /\ messages = 0
          /\ \A v \in Worker : worker[v].at # "created"
      BY <1>5, <2>1 DEF OwnsClaim
    <3>2. QED
      BY <1>5, <2>1, <3>1 DEF SummaryFinishes
  <2>2. CASE ~OwnsClaim(w)
    BY <1>5, <2>2 DEF SummaryFinishes
  <2>3. QED
    BY <2>1, <2>2
<1>6. ASSUME SummaryInv, UNCHANGED summaryVars
      PROVE  SummaryInv'
  BY <1>6 DEF summaryVars
<1>7. QED
  BY <1>1, <1>2, <1>3, <1>4, <1>5, <1>6 DEF SummaryNext

\* The chat gets the summary of a result once, and one caller at most is told
\* that it posted it, whatever claims expire (crud/hitl_execution_result.py
\* claim_summary and finish_summary).
THEOREM SummariesArePostedOnce == SummarySpec => []SummaryDeliveredOnce
<1>1. SummaryInv => SummaryDeliveredOnce
  BY DEF SummaryInv
<1>2. QED
  BY <1>1, SummaryInvInit, SummaryInvStep, PTL DEF SummarySpec

-----------------------------------------------------------------------------
(* The WebSocket hub.  Sent, in hand and queued are one sequence that every  *)
(* step of the writer cuts elsewhere.                                        *)

LEMMA MessagesAssociate ==
    ASSUME NEW s \in Seq(Nat), NEW h \in Seq(Nat), NEW q \in Seq(Nat)
    PROVE  (s \o h) \o q = s \o (h \o q)
BY SMTT(30)

LEMMA QueueGrows ==
    ASSUME NEW s \in Seq(Nat), NEW h \in Seq(Nat), NEW q \in Seq(Nat), NEW m \in Nat
    PROVE  s \o h \o Append(q, m) = Append(s \o h \o q, m)
<1>1. \A r \in Seq(Nat) : r \o Append(q, m) = Append(r \o q, m)
  BY SMTT(30)
<1>2. s \o h \in Seq(Nat)
  OBVIOUS
<1>3. QED
  BY <1>1, <1>2

LEMMA HeadIsTaken ==
    ASSUME NEW s \in Seq(Nat), NEW q \in Seq(Nat), q # <<>>
    PROVE  /\ s \o <<>> \o q = s \o <<Head(q)>> \o Tail(q)
           /\ Head(q) \in Nat /\ Tail(q) \in Seq(Nat)
<1>1. Head(q) \in Nat /\ Tail(q) \in Seq(Nat) /\ <<Head(q)>> \in Seq(Nat)
  BY HeadTailProperties
<1>2. q = <<Head(q)>> \o Tail(q)
  BY <1>1
<1>3. s \o <<>> = s
  BY ConcatEmptySeq
<1>4. s \o (<<Head(q)>> \o Tail(q)) = (s \o <<Head(q)>>) \o Tail(q)
  BY <1>1, MessagesAssociate, SMTT(30)
<1>5. QED
  BY <1>1, <1>2, <1>3, <1>4

HubShape ==
    /\ endpoint \in [Socket -> {"new", "waiting", "leaving", "gone"}]
    /\ line \in [Socket -> {"open", "closed", "disconnected"}]
    /\ peer \in [Socket -> [listed : BOOLEAN, session : Session \cup {NoSession},
                            monitor : BOOLEAN, queue : Seq(Nat)]]
    /\ writer \in [Socket -> [at : {"none", "idle", "sending", "done"}, message : Nat]]
    /\ count \in Nat
    /\ due \in [Socket -> Seq(Nat)] /\ sent \in [Socket -> Seq(Nat)]

Untouched ==
    \A k \in Socket : endpoint[k] = "new" =>
        ~peer[k].listed /\ writer[k].at = "none" /\ due[k] = <<>> /\ sent[k] = <<>>

HubInv == HubShape /\ Untouched /\ PeersGetEverything

Complete(k) == peer[k].listed =>
    /\ endpoint[k] \in {"waiting", "leaving"}
    /\ k \notin cleanup =>
         /\ writer[k].at \in {"idle", "sending"}
         /\ sent[k] \o InHand(k) \o peer[k].queue = due[k]

\* What touches neither the peer nor its history leaves it complete.
LEMMA OthersStayComplete ==
    ASSUME PeersGetEverything, NEW j \in Socket, peer'[j] = peer[j], writer'[j] = writer[j],
           endpoint'[j] = endpoint[j], sent'[j] = sent[j], due'[j] = due[j],
           j \in cleanup => j \in cleanup'
    PROVE  Complete(j)'
<1>1. InHand(j)' = InHand(j)
  BY DEF InHand
<1>2. QED
  BY <1>1 DEF PeersGetEverything, Complete

LEMMA EachComplete == (\A k \in Socket : Complete(k)') => PeersGetEverything'
BY DEF PeersGetEverything, Complete

LEMMA HubInvStep == HubInv /\ [HubNext]_hubVars => HubInv'
<1> USE DEF HubInv
<1>1. ASSUME HubInv, NEW k \in Socket, Reject(k) \/ HandlerHears(k) \/ ReauthFails(k)
      PROVE  HubInv'
  <2>1. UNCHANGED <<peer, writer, cleanup, count, due, sent>>
    BY <1>1 DEF Reject, HandlerHears, ReauthFails
  <2>2. PICK e \in {"gone", "leaving"} :
            endpoint' = [endpoint EXCEPT ![k] = e] /\ (e = "gone" => endpoint[k] = "new")
    BY <1>1 DEF Reject, HandlerHears, ReauthFails
  <2>3. line' \in [Socket -> {"open", "closed", "disconnected"}]
    BY <1>1, ZenonT(60) DEF Reject, HandlerHears, ReauthFails, Hangs, HubShape
  <2>4. HubShape' /\ Untouched'
    BY <1>1, <2>1, <2>2, <2>3 DEF HubShape, Untouched
  <2>5. InHand(k)' = InHand(k)
    BY <2>1 DEF InHand
  <2>6. Complete(k)'
    BY <1>1, <2>1, <2>2, <2>5 DEF PeersGetEverything, Complete, HubShape, Untouched
  <2>7. \A j \in Socket \ {k} : endpoint'[j] = endpoint[j]
    BY <1>1, <2>2 DEF HubShape
  <2>8. QED
    BY <1>1, <2>1, <2>4, <2>6, <2>7, OthersStayComplete, EachComplete
<1>11. ASSUME HubInv, NEW k \in Socket, ClientGoes(k)
       PROVE  HubInv'
  <2>1. UNCHANGED <<endpoint, peer, writer, cleanup, count, due, sent>>
    BY <1>11 DEF ClientGoes
  <2>2. HubShape' /\ Untouched'
    BY <1>11, <2>1 DEF ClientGoes, HubShape, Untouched
  <2>3. QED
    BY <1>11, <2>1, <2>2, OthersStayComplete, EachComplete
<1>2. ASSUME HubInv, NEW k \in Socket, NEW s \in Session, NEW monitor \in BOOLEAN, Connect(k, s, monitor)
      PROVE  HubInv'
  <2>1. <<>> \in Seq(Nat) /\ <<>> \o <<>> \o <<>> = <<>>
    BY ConcatEmptySeq
  <2>2. HubShape' /\ Untouched'
    BY <1>2, <2>1 DEF Connect, HubShape, Untouched
  <2>3. \A j \in Socket \ {k} : peer'[j] = peer[j] /\ writer'[j] = writer[j] /\ endpoint'[j] = endpoint[j]
    BY <1>2 DEF Connect, HubShape
  <2>4. /\ peer'[k].queue = <<>> /\ writer'[k].at = "idle" /\ endpoint'[k] = "waiting"
        /\ sent'[k] = <<>> /\ due'[k] = <<>>
    BY <1>2 DEF Connect, HubShape, Untouched
  <2>5. sent' = sent /\ due' = due /\ cleanup' = cleanup
    BY <1>2 DEF Connect
  <2>6. QED
    <3>1. InHand(k)' = <<>>
      BY <2>4 DEF InHand
    <3>2. Complete(k)'
      BY <2>1, <2>4, <3>1 DEF Complete
    <3>3. QED
      BY <1>2, <2>2, <2>3, <2>5, <3>2, OthersStayComplete, EachComplete
<1>3. ASSUME HubInv, NEW K \in SUBSET Socket, SendTo(K), \A k \in K : peer[k].listed
      PROVE  HubInv'
  <2>0. HubShape /\ Untouched /\ PeersGetEverything
    BY <1>3
  <2>1. count + 1 \in Nat /\ \A s \in Seq(Nat) : Append(s, count + 1) \in Seq(Nat)
    BY <2>0, AppendProperties DEF HubShape
  <2>2. /\ endpoint' = endpoint /\ line' = line /\ writer' = writer /\ sent' = sent /\ count' = count + 1
        /\ due' = [k \in Socket |-> IF k \in K THEN Append(due[k], count + 1) ELSE due[k]]
        /\ peer' = [k \in Socket |-> IF k \in K /\ Reachable(k)
                                     THEN [peer[k] EXCEPT !.queue = Append(@, count + 1)]
                                     ELSE peer[k]]
        /\ cleanup' = cleanup \cup {k \in K : ~Reachable(k)}
    BY <1>3 DEF SendTo, Enqueue
  <2>3. HubShape'
    BY <2>0, <2>1, <2>2, ZenonT(60) DEF HubShape
  <2>4. \A k \in Socket : peer'[k].listed = peer[k].listed
    BY <2>0, <2>1, <2>2 DEF HubShape
  <2>5. Untouched'
    BY <1>3, <2>2, <2>4 DEF Untouched
  <2>6. ASSUME NEW k \in Socket, peer[k].listed, k \notin cleanup'
        PROVE  sent'[k] \o InHand(k)' \o peer'[k].queue = due'[k]
    <3>1. InHand(k)' = InHand(k) /\ sent' = sent /\ k \notin cleanup
      BY <2>2, <2>6 DEF InHand
    <3>2. sent[k] \o InHand(k) \o peer[k].queue = due[k]
      BY <2>0, <2>6, <3>1 DEF PeersGetEverything
    <3>3. CASE k \in K
      <4>1. peer'[k].queue = Append(peer[k].queue, count + 1) /\ due'[k] = Append(due[k], count + 1)
        BY <2>0, <2>2, <2>6, <3>3 DEF HubShape
      <4>2. InHand(k) \in Seq(Nat)
        BY <2>0 DEF InHand, HubShape
      <4>3. QED
        <5>1. sent[k] \in Seq(Nat) /\ peer[k].queue \in Seq(Nat) /\ count + 1 \in Nat
          BY <2>0, <2>1 DEF HubShape
        <5>2. sent[k] \o InHand(k) \o Append(peer[k].queue, count + 1)
                = Append(sent[k] \o InHand(k) \o peer[k].queue, count + 1)
          BY <4>2, <5>1, QueueGrows
        <5>3. QED
          BY <3>1, <3>2, <4>1, <5>2
    <3>4. CASE k \notin K
      BY <2>2, <3>1, <3>2, <3>4
    <3>5. QED
      BY <3>3, <3>4
  <2>7. QED
    BY <2>0, <2>2, <2>3, <2>4, <2>5, <2>6 DEF PeersGetEverything
<1>4. ASSUME HubInv, NEW k \in Socket, WriterTakes(k)
      PROVE  HubInv'
  <2>1. /\ writer[k].at = "idle" /\ peer[k].queue # <<>> /\ peer[k].queue \in Seq(Nat) /\ sent[k] \in Seq(Nat)
    BY <1>4 DEF WriterTakes, HubShape
  <2>2. Head(peer[k].queue) \in Nat /\ Tail(peer[k].queue) \in Seq(Nat)
    BY <2>1, HeadTailProperties
  <2>3. HubShape' /\ Untouched'
    BY <1>4, <2>2, ZenonT(60) DEF WriterTakes, HubShape, Untouched
  <2>4. /\ \A j \in Socket \ {k} : peer'[j] = peer[j] /\ writer'[j] = writer[j]
        /\ writer'[k].at = "sending" /\ writer'[k].message = Head(peer[k].queue)
        /\ peer'[k].queue = Tail(peer[k].queue) /\ peer'[k].listed = peer[k].listed
        /\ endpoint' = endpoint /\ sent' = sent /\ due' = due /\ cleanup' = cleanup
    BY <1>4 DEF WriterTakes, HubShape
  <2>5. InHand(k) = <<>> /\ InHand(k)' = <<Head(peer[k].queue)>>
    BY <2>1, <2>4 DEF InHand
  <2>6. sent[k] \o InHand(k) \o peer[k].queue = sent'[k] \o InHand(k)' \o peer'[k].queue
    BY <2>1, <2>4, <2>5, HeadIsTaken
  <2>7. QED
    <3>1. Complete(k)'
      BY <1>4, <2>1, <2>4, <2>6 DEF PeersGetEverything, Complete
    <3>2. QED
      BY <1>4, <2>3, <2>4, <3>1, OthersStayComplete, EachComplete
<1>5. ASSUME HubInv, NEW k \in Socket, WriterSends(k)
      PROVE  HubInv'
  <2>1. /\ writer[k].at = "sending" /\ writer[k].message \in Nat /\ peer[k].queue \in Seq(Nat) /\ sent[k] \in Seq(Nat)
    BY <1>5 DEF WriterSends, HubShape
  <2>2. Append(sent[k], writer[k].message) \in Seq(Nat)
    BY <2>1, AppendProperties
  <2>3. /\ \A j \in Socket \ {k} : sent'[j] = sent[j] /\ writer'[j] = writer[j]
        /\ writer'[k].at = "idle" /\ sent'[k] = Append(sent[k], writer[k].message)
        /\ peer' = peer /\ endpoint' = endpoint /\ due' = due /\ cleanup' = cleanup
    BY <1>5 DEF WriterSends, HubShape
  <2>4. InHand(k) = <<writer[k].message>> /\ InHand(k)' = <<>>
    BY <2>1, <2>3 DEF InHand
  <2>5. sent'[k] \o InHand(k)' = sent[k] \o InHand(k)
    BY <2>1, <2>2, <2>3, <2>4, AppendIsConcat, ConcatEmptySeq
  <2>6. HubShape'
    BY <1>5, <2>2 DEF WriterSends, HubShape
  <2>7. CASE endpoint[k] # "new"
    <3>1. Complete(k)'
      BY <1>5, <2>1, <2>3, <2>5 DEF PeersGetEverything, Complete
    <3>2. Untouched'
      BY <1>5, <2>3, <2>7 DEF Untouched
    <3>3. QED
      BY <1>5, <2>3, <2>6, <3>1, <3>2, OthersStayComplete, EachComplete
  <2>8. CASE endpoint[k] = "new"
    BY <1>5, <2>1, <2>8 DEF Untouched
  <2>9. QED
    BY <2>7, <2>8
<1>6. ASSUME HubInv, NEW k \in Socket, WriterFails(k) \/ CleanupRuns(k) \/ HandlerLeaves(k)
      PROVE  HubInv'
  <2>1. ASSUME NEW j \in Socket, j # k
        PROVE  /\ peer'[j] = peer[j] /\ writer'[j] = writer[j] /\ endpoint'[j] = endpoint[j]
               /\ j \in cleanup <=> j \in cleanup'
    BY <1>6, <2>1 DEF WriterFails, CleanupRuns, HandlerLeaves, Disconnect, HubShape
  <2>2. ~peer'[k].listed
    BY <1>6 DEF WriterFails, CleanupRuns, HandlerLeaves, Disconnect, HubShape
  <2>3. sent' = sent /\ due' = due /\ (endpoint'[k] = "new" => endpoint[k] = "new")
    BY <1>6 DEF WriterFails, CleanupRuns, HandlerLeaves, HubShape
  <2>4. HubShape'
    <3>1. /\ endpoint' \in [Socket -> {"new", "waiting", "leaving", "gone"}]
          /\ line' \in [Socket -> {"open", "closed", "disconnected"}]
      BY <1>6 DEF WriterFails, CleanupRuns, HandlerLeaves, Disconnect, Hangs, HubShape
    <3>2. peer' = peer \/ peer' = [peer EXCEPT ![k] = [@ EXCEPT !.listed = FALSE]]
      BY <1>6 DEF WriterFails, CleanupRuns, HandlerLeaves, Disconnect
    <3>3. peer' \in [Socket -> [listed : BOOLEAN, session : Session \cup {NoSession},
                                monitor : BOOLEAN, queue : Seq(Nat)]]
      <4>1. CASE peer' = peer
        BY <1>6, <4>1 DEF HubShape
      <4>2. CASE peer' = [peer EXCEPT ![k] = [@ EXCEPT !.listed = FALSE]]
        <5>1. [peer[k] EXCEPT !.listed = FALSE] \in [listed : BOOLEAN, session : Session \cup {NoSession},
                                                    monitor : BOOLEAN, queue : Seq(Nat)]
          BY <1>6, ZenonT(60) DEF HubShape
        <5>2. QED
          BY <1>6, <4>2, <5>1 DEF HubShape
      <4>3. QED
        BY <3>2, <4>1, <4>2
    <3>4. writer' = writer \/ writer' = [writer EXCEPT ![k] = [at |-> "done", message |-> 0]]
      BY <1>6 DEF WriterFails, CleanupRuns, HandlerLeaves, Disconnect
    <3>5. count' = count
      BY <1>6 DEF WriterFails, CleanupRuns, HandlerLeaves
    <3>6. QED
      <4>1. writer' \in [Socket -> [at : {"none", "idle", "sending", "done"}, message : Nat]]
        <5>1. [at |-> "done", message |-> 0] \in [at : {"none", "idle", "sending", "done"}, message : Nat]
          OBVIOUS
        <5>2. QED
          BY <1>6, <3>4, <5>1 DEF HubShape
      <4>2. QED
        BY <1>6, <2>3, <3>1, <3>3, <3>5, <4>1 DEF HubShape
  <2>5. QED
    <3>1. endpoint'[k] = "new" => writer' = writer
      BY <1>6, <2>3 DEF WriterFails, CleanupRuns, HandlerLeaves, Disconnect, Untouched
    <3>2. Untouched'
      BY <1>6, <2>1, <2>2, <2>3, <3>1 DEF Untouched
    <3>3. Complete(k)'
      BY <2>2 DEF Complete
    <3>4. QED
      BY <1>6, <2>1, <2>3, <2>4, <3>2, <3>3, OthersStayComplete, EachComplete
<1>7. ASSUME HubInv, NEW k \in Socket, NEW monitor \in BOOLEAN, ReauthPasses(k, monitor)
      PROVE  HubInv'
  <2>1. UNCHANGED <<endpoint, line, writer, cleanup, count, due, sent>> /\ endpoint[k] = "waiting"
    BY <1>7 DEF ReauthPasses
  <2>2. /\ \A j \in Socket \ {k} : peer'[j] = peer[j]
        /\ peer'[k].listed = peer[k].listed /\ peer'[k].queue = peer[k].queue
    BY <1>7 DEF ReauthPasses, HubShape
  <2>3. [peer[k] EXCEPT !.monitor = monitor] \in [listed : BOOLEAN, session : Session \cup {NoSession},
                                                monitor : BOOLEAN, queue : Seq(Nat)]
    BY <1>7, ZenonT(60) DEF HubShape
  <2>4. HubShape'
    BY <1>7, <2>1, <2>3 DEF ReauthPasses, HubShape
  <2>5. InHand(k)' = InHand(k)
    BY <2>1 DEF InHand
  <2>6. Complete(k)'
    BY <1>7, <2>1, <2>2, <2>5 DEF PeersGetEverything, Complete
  <2>7. Untouched'
    BY <1>7, <2>1, <2>2 DEF Untouched
  <2>8. QED
    BY <1>7, <2>1, <2>2, <2>4, <2>6, <2>7, OthersStayComplete, EachComplete
<1>8. ASSUME HubInv, UNCHANGED hubVars
      PROVE  HubInv'
  BY <1>8 DEF hubVars, HubShape, Untouched, PeersGetEverything, InHand
<1>9. ASSUME HubInv, BroadcastMonitorAlert \/ \E s \in Session : Broadcast(s)
      PROVE  HubInv'
  BY <1>3, <1>9 DEF BroadcastMonitorAlert, Broadcast
<1>10. QED
  BY <1>1, <1>11, <1>2, <1>4, <1>5, <1>6, <1>7, <1>8, <1>9 DEF HubNext

\* A client the hub still lists has missed nothing, or a cleanup task is about
\* to take it out (ws_hub.py _enqueue, _writer, disconnect).
THEOREM ListedPeersMissNothing == HubSpec => []PeersGetEverything
<1>1. HubInit => HubInv
  <2>1. <<>> \in Seq(Nat)
    BY EmptySeq
  <2>2. QED
    BY <2>1 DEF HubInit, HubInv, HubShape, Untouched, PeersGetEverything, NoPeer
<1>2. HubInv => PeersGetEverything
  BY DEF HubInv
<1>3. QED
  BY <1>1, <1>2, HubInvStep, PTL DEF HubSpec

Peers == [listed : BOOLEAN, session : Session \cup {NoSession}, monitor : BOOLEAN, queue : Seq(Message)]
Writers == [at : {"none", "idle", "sending", "done"}, message : Message \cup {0}]

\* A writer that sends has a message.
HubTypes == HubTypeOK /\ \A k \in Socket : writer[k].at = "sending" => writer[k].message \in Message

\* A step of one peer that adds no message.
LEMMA PeerSteps ==
    ASSUME HubTypes, NEW k \in Socket, NEW p \in Peers, NEW w \in Writers,
           peer' = [peer EXCEPT ![k] = p], writer' = [writer EXCEPT ![k] = w],
           Len(p.queue) <= QueueSize, w.at = "sending" => w.message \in Message,
           endpoint' \in [Socket -> {"new", "waiting", "leaving", "gone"}],
           line' \in [Socket -> {"open", "closed", "disconnected"}],
           cleanup' \subseteq Socket, UNCHANGED <<count, due>>, sent' \in [Socket -> Seq(Message)]
    PROVE  HubTypes'
<1>1. /\ peer \in [Socket -> Peers] /\ writer \in [Socket -> Writers]
      /\ \A j \in Socket : Len(peer[j].queue) <= QueueSize
      /\ \A j \in Socket : writer[j].at = "sending" => writer[j].message \in Message
      /\ count \in 0 .. MaxMessages /\ due \in [Socket -> Seq(Message)]
  BY DEF HubTypes, HubTypeOK, Peers, Writers
<1>2. peer' \in [Socket -> Peers] /\ writer' \in [Socket -> Writers]
  BY <1>1
<1>3. ASSUME NEW j \in Socket
      PROVE  Len(peer'[j].queue) <= QueueSize /\ (writer'[j].at = "sending" => writer'[j].message \in Message)
  <2>1. CASE j = k
    BY <1>1, <2>1
  <2>2. CASE j # k
    BY <1>1, <2>2
  <2>3. QED
    BY <2>1, <2>2
<1>4. QED
  BY <1>1, <1>2, <1>3 DEF HubTypes, HubTypeOK, Peers, Writers

LEMMA HubTypesStep == HubTypes /\ [HubNext]_hubVars => HubTypes'
<1> SUFFICES ASSUME HubTypes, [HubNext]_hubVars
             PROVE  HubTypes'
  OBVIOUS
<1>0. /\ peer \in [Socket -> Peers] /\ writer \in [Socket -> Writers]
      /\ \A j \in Socket : Len(peer[j].queue) <= QueueSize
      /\ \A j \in Socket : writer[j].at = "sending" => writer[j].message \in Message
      /\ count \in 0 .. MaxMessages /\ due \in [Socket -> Seq(Message)] /\ sent \in [Socket -> Seq(Message)]
      /\ endpoint \in [Socket -> {"new", "waiting", "leaving", "gone"}]
      /\ line \in [Socket -> {"open", "closed", "disconnected"}] /\ cleanup \subseteq Socket
      /\ MaxMessages \in Nat /\ QueueSize \in Nat /\ QueueSize > 0
  BY WsHubAssumption DEF HubTypes, HubTypeOK, Peers, Writers
<1>s. \A k \in Socket : peer[k] \in Peers /\ writer[k] \in Writers /\ peer[k].queue \in Seq(Message)
                        /\ sent[k] \in Seq(Message)
  BY <1>0 DEF Peers
<1>e. \A k \in Socket : peer = [peer EXCEPT ![k] = peer[k]] /\ writer = [writer EXCEPT ![k] = writer[k]]
  BY <1>0
<1>h. \A k \in Socket : Hangs(k) \in [Socket -> {"open", "closed", "disconnected"}]
  BY <1>0 DEF Hangs
<1>1. ASSUME NEW k \in Socket, Reject(k) \/ HandlerHears(k) \/ ReauthFails(k) \/ ClientGoes(k)
      PROVE  HubTypes'
  <2>1. UNCHANGED <<peer, writer, cleanup, count, due, sent>>
    BY <1>1 DEF Reject, HandlerHears, ReauthFails, ClientGoes
  <2>2. endpoint' \in [Socket -> {"new", "waiting", "leaving", "gone"}]
    BY <1>0, <1>1 DEF Reject, HandlerHears, ReauthFails, ClientGoes
  <2>3. line' \in [Socket -> {"open", "closed", "disconnected"}]
    BY <1>0, <1>1, <1>h DEF Reject, HandlerHears, ReauthFails, ClientGoes
  <2>4. QED
    BY <1>0, <2>1, <2>2, <2>3 DEF HubTypes, HubTypeOK, Peers, Writers
<1>2. ASSUME NEW k \in Socket, NEW s \in Session, NEW monitor \in BOOLEAN, Connect(k, s, monitor)
      PROVE  HubTypes'
  <2>a. [listed |-> TRUE, session |-> s, monitor |-> monitor, queue |-> <<>>] \in Peers
    <3>1. <<>> \in Seq(Message)
      BY EmptySeq
    <3>2. QED
      BY <3>1 DEF Peers
  <2>1. PICK p \in Peers : p = [listed |-> TRUE, session |-> s, monitor |-> monitor, queue |-> <<>>]
    BY <2>a
  <2>2. PICK w \in Writers : w = [writer[k] EXCEPT !.at = "idle"]
    BY <1>s DEF Writers
  <2>3. peer' = [peer EXCEPT ![k] = p] /\ writer' = [writer EXCEPT ![k] = w]
        /\ UNCHANGED <<line, cleanup, count, due, sent>>
    BY <1>2, <2>1, <2>2 DEF Connect
  <2>4. Len(p.queue) <= QueueSize /\ w.at = "idle"
    BY <1>0, <1>s, <2>1, <2>2 DEF Writers
  <2>5. endpoint' \in [Socket -> {"new", "waiting", "leaving", "gone"}]
    BY <1>0, <1>2 DEF Connect
  <2>6. QED
    BY <1>0, <2>3, <2>4, <2>5, PeerSteps
<1>3. ASSUME NEW K \in SUBSET Socket, SendTo(K)
      PROVE  HubTypes'
  <2>1. count + 1 \in Message /\ count + 1 \in 0 .. MaxMessages
    BY <1>0, <1>3 DEF SendTo, Message
  <2>2. ASSUME NEW k \in Socket, k \in K, Reachable(k)
        PROVE  /\ [peer[k] EXCEPT !.queue = Append(peer[k].queue, count + 1)] \in Peers
               /\ Len(Append(peer[k].queue, count + 1)) <= QueueSize
    <3>1. Append(peer[k].queue, count + 1) \in Seq(Message)
          /\ Len(Append(peer[k].queue, count + 1)) = Len(peer[k].queue) + 1 /\ Len(peer[k].queue) \in Nat
      BY <1>s, <2>1, AppendProperties, LenProperties
    <3>2. Len(peer[k].queue) < QueueSize
      BY <2>2 DEF Reachable
    <3>3. [peer[k] EXCEPT !.queue = Append(peer[k].queue, count + 1)] \in Peers
      BY <1>s, <3>1 DEF Peers
    <3>4. QED
      BY <1>0, <3>1, <3>2, <3>3
  <2>3. peer' = [k \in Socket |-> IF k \in K /\ Reachable(k)
                                  THEN [peer[k] EXCEPT !.queue = Append(peer[k].queue, count + 1)]
                                  ELSE peer[k]]
    BY <1>3 DEF SendTo, Enqueue
  <2>4. peer' \in [Socket -> Peers]
    BY <1>s, <2>2, <2>3
  <2>5. ASSUME NEW k \in Socket
        PROVE  Len(peer'[k].queue) <= QueueSize
    <3>1. CASE k \in K /\ Reachable(k)
      <4>1. peer'[k].queue = Append(peer[k].queue, count + 1)
        BY <1>s, <2>3, <3>1 DEF Peers
      <4>2. QED
        BY <2>2, <3>1, <4>1
    <3>2. CASE ~(k \in K /\ Reachable(k))
      BY <1>0, <2>3, <3>2
    <3>3. QED
      BY <3>1, <3>2
  <2>6. due' \in [Socket -> Seq(Message)]
    <3>1. \A k \in Socket : due[k] \in Seq(Message) /\ Append(due[k], count + 1) \in Seq(Message)
      BY <1>0, <2>1, AppendProperties
    <3>2. QED
      BY <1>3, <3>1 DEF SendTo
  <2>7. cleanup' \subseteq Socket /\ UNCHANGED <<endpoint, line, writer, sent>> /\ count' \in 0 .. MaxMessages
    BY <1>0, <1>3, <2>1 DEF SendTo, Enqueue
  <2>8. QED
    BY <1>0, <2>4, <2>5, <2>6, <2>7 DEF HubTypes, HubTypeOK, Peers, Writers
<1>4. ASSUME NEW k \in Socket, WriterTakes(k)
      PROVE  HubTypes'
  <2>1. peer[k].queue \in Seq(Message) /\ peer[k].queue # <<>>
    BY <1>4, <1>s DEF WriterTakes
  <2>2. Head(peer[k].queue) \in Message /\ Tail(peer[k].queue) \in Seq(Message)
        /\ Len(Tail(peer[k].queue)) = Len(peer[k].queue) - 1 /\ Len(peer[k].queue) \in Nat
    BY <2>1, HeadTailProperties, LenProperties
  <2>3. PICK p \in Peers : p = [peer[k] EXCEPT !.queue = Tail(peer[k].queue)]
    BY <1>s, <2>2 DEF Peers
  <2>4. PICK w \in Writers : w = [at |-> "sending", message |-> Head(peer[k].queue)]
    BY <2>2 DEF Writers
  <2>5. peer' = [peer EXCEPT ![k] = p] /\ writer' = [writer EXCEPT ![k] = w]
        /\ UNCHANGED <<endpoint, line, cleanup, count, due, sent>>
    BY <1>0, <1>4, <2>3, <2>4 DEF WriterTakes, Peers
  <2>6. Len(p.queue) <= QueueSize /\ w.message \in Message
    <3>1. p.queue = Tail(peer[k].queue) /\ Len(peer[k].queue) <= QueueSize
      BY <1>0, <1>s, <2>3 DEF Peers
    <3>2. QED
      BY <1>0, <2>2, <2>4, <3>1
  <2>7. QED
    BY <1>0, <2>5, <2>6, PeerSteps
<1>5. ASSUME NEW k \in Socket, WriterSends(k)
      PROVE  HubTypes'
  <2>1. writer[k].message \in Message
    BY <1>0, <1>5 DEF WriterSends
  <2>2. Append(sent[k], writer[k].message) \in Seq(Message)
    BY <1>s, <2>1, AppendProperties
  <2>3. PICK w \in Writers : w = [at |-> "idle", message |-> 0]
    BY DEF Writers
  <2>4. PICK p \in Peers : p = peer[k]
    BY <1>s
  <2>5. peer' = [peer EXCEPT ![k] = p] /\ writer' = [writer EXCEPT ![k] = w]
        /\ UNCHANGED <<endpoint, line, cleanup, count, due>> /\ sent' \in [Socket -> Seq(Message)]
    BY <1>0, <1>5, <1>e, <2>2, <2>3, <2>4 DEF WriterSends
  <2>6. Len(p.queue) <= QueueSize /\ w.at = "idle"
    BY <1>0, <2>3, <2>4
  <2>7. QED
    BY <1>0, <2>5, <2>6, PeerSteps
<1>6. ASSUME NEW k \in Socket, WriterFails(k) \/ CleanupRuns(k) \/ HandlerLeaves(k)
      PROVE  HubTypes'
  <2>a. [peer[k] EXCEPT !.listed = FALSE] \in Peers
    BY <1>s, ZenonT(60) DEF Peers
  <2>b. [peer[k] EXCEPT !.listed = FALSE].queue = peer[k].queue
    BY <1>s DEF Peers
  <2>1. PICK p \in Peers : p = [peer[k] EXCEPT !.listed = FALSE] /\ p.queue = peer[k].queue
    BY <2>a, <2>b
  <2>2. PICK w \in Writers : w = [at |-> "done", message |-> 0]
    BY DEF Writers
  <2>3. /\ UNCHANGED <<count, due, sent>> /\ cleanup' \subseteq Socket
        /\ endpoint' \in [Socket -> {"new", "waiting", "leaving", "gone"}]
    BY <1>0, <1>6 DEF WriterFails, CleanupRuns, HandlerLeaves
  <2>4. line' \in [Socket -> {"open", "closed", "disconnected"}]
    BY <1>0, <1>6, <1>h DEF WriterFails, CleanupRuns, HandlerLeaves, Disconnect
  <2>5. CASE UNCHANGED <<peer, writer>>
    BY <1>0, <2>3, <2>4, <2>5 DEF HubTypes, HubTypeOK, Peers, Writers
  <2>6. CASE ~UNCHANGED <<peer, writer>>
    <3>1. peer' = [peer EXCEPT ![k] = p] /\ writer' = [writer EXCEPT ![k] = w]
      BY <1>0, <1>6, <2>1, <2>2, <2>6 DEF WriterFails, CleanupRuns, HandlerLeaves, Disconnect, Peers
    <3>2. Len(p.queue) <= QueueSize /\ w.at = "done"
      BY <1>0, <2>1, <2>2
    <3>3. QED
      BY <1>0, <2>3, <2>4, <3>1, <3>2, PeerSteps
  <2>7. QED
    BY <2>5, <2>6
<1>7. ASSUME NEW k \in Socket, NEW monitor \in BOOLEAN, ReauthPasses(k, monitor)
      PROVE  HubTypes'
  <2>a. [peer[k] EXCEPT !.monitor = monitor] \in Peers
    BY <1>s, ZenonT(60) DEF Peers
  <2>b. [peer[k] EXCEPT !.monitor = monitor].queue = peer[k].queue
    BY <1>s DEF Peers
  <2>1. PICK p \in Peers : p = [peer[k] EXCEPT !.monitor = monitor] /\ p.queue = peer[k].queue
    BY <2>a, <2>b
  <2>2. PICK w \in Writers : w = writer[k]
    BY <1>s
  <2>3. peer' = [peer EXCEPT ![k] = p] /\ writer' = [writer EXCEPT ![k] = w]
        /\ UNCHANGED <<endpoint, line, cleanup, count, due, sent>>
    BY <1>0, <1>7, <1>e, <2>1, <2>2 DEF ReauthPasses, Peers
  <2>4. Len(p.queue) <= QueueSize /\ (w.at = "sending" => w.message \in Message)
    BY <1>0, <2>1, <2>2
  <2>5. QED
    BY <1>0, <2>3, <2>4, PeerSteps
<1>8. CASE UNCHANGED hubVars
  BY <1>0, <1>8 DEF hubVars, HubTypes, HubTypeOK, Peers, Writers
<1>9. CASE BroadcastMonitorAlert \/ \E s \in Session : Broadcast(s)
  BY <1>3, <1>9 DEF BroadcastMonitorAlert, Broadcast
<1>10. QED
  BY <1>1, <1>2, <1>4, <1>5, <1>6, <1>7, <1>8, <1>9 DEF HubNext

\* The hub's variables keep their types; in particular no queue of a client
\* grows beyond its bound, however slowly the client reads.
THEOREM QueuesAreBounded == HubSpec => []HubTypeOK
<1>1. HubInit => HubTypes
  BY WsHubAssumption, EmptySeq DEF HubInit, HubTypes, HubTypeOK, NoPeer, Message
<1>2. HubTypes => HubTypeOK
  BY DEF HubTypes
<1>3. QED
  BY <1>1, <1>2, HubTypesStep, PTL DEF HubSpec

-----------------------------------------------------------------------------
(* Model calls.  The settings a call has read are a configuration a tier   *)
(* has had, and the client it goes through was opened for them.            *)

Addresses == Endpoint \cup {Blank}
Keys == ApiKey \cup {NoKey}
Clients == [id : (Addresses \X Keys) \cup {<<>>}, model : Addresses, key : Keys]
CallRecords == [at : {"none", "between", "resolved", "sent", "ended"},
                purpose : {"none", "answer", "work", "summary"},
                asked : Tier, tier : Tier, with : Settings, client : Clients]
Books == [Tier -> Nat]
Budgets == [cost : Nat, by : Books, rounds : Nat]
ModelCallsShape ==
    /\ settings \in [Tier -> Settings]
    /\ save \in [Admin -> {NotEditing} \cup [Tier -> Settings]]
    /\ clients \subseteq Clients
    /\ call \in [Caller -> CallRecords]
    /\ spent \in [Caller -> Budgets]

OfferedAndOpened ==
    /\ \A t \in Tier : settings[t] \in offered
    /\ \A k \in clients : k.id = <<k.model, k.key>>
    /\ \A c \in Caller :
          /\ call[c].at \in {"resolved", "sent"} => call[c].with \in offered /\ call[c].purpose # "none"
          /\ call[c].at = "sent" => /\ call[c].client.model = call[c].with.model
                                    /\ call[c].client.key = call[c].with.key

ModelCallsInv == ModelCallsShape /\ OfferedAndOpened

LEMMA ModelRecords ==
    /\ NoSettings \in Settings /\ NoClient \in Clients
    /\ NoCall \in CallRecords
    /\ NothingSpent \in Budgets
    /\ NoCall.at = "none"
<1>1. NoSettings \in Settings
  BY DEF NoSettings, Settings
<1>2. NoClient \in Clients
  BY DEF NoClient, Clients, Addresses, Keys
<1>3. QED
  BY <1>1, <1>2 DEF NoCall, NothingSpent, Tier, CallRecords, Budgets, Books

LEMMA ChargedBudget ==
    ASSUME NEW s \in Budgets, NEW x \in Nat, NEW y \in Books
    PROVE  [s EXCEPT !.cost = x, !.by = y] \in Budgets
BY DEF Budgets

LEMMA ModelCallsInvInit == ModelCallsInit => ModelCallsInv
<1> SUFFICES ASSUME ModelCallsInit
             PROVE  ModelCallsInv
  OBVIOUS
<1>1. PICK o \in Offer : settings = [t \in Tier |->
          IF t = "balanced" THEN [model |-> o.model, price |-> o.price, key |-> NoKey] ELSE NoSettings]
  BY DEF ModelCallsInit
<1>2. [model |-> o.model, price |-> o.price, key |-> NoKey] \in Settings
  BY ModelCallsAssumption DEF Settings
<1>3. settings \in [Tier -> Settings]
  BY <1>1, <1>2, ModelRecords
<1>4. QED
  BY <1>3, ModelRecords DEF ModelCallsInit, ModelCallsInv, ModelCallsShape, OfferedAndOpened

LEMMA ModelCallsInvStep == ModelCallsInv /\ [ModelCallsNext]_modelVars => ModelCallsInv'
<1> SUFFICES ASSUME ModelCallsShape, OfferedAndOpened, [ModelCallsNext]_modelVars
             PROVE  ModelCallsShape' /\ OfferedAndOpened'
  BY DEF ModelCallsInv
<1>1. ASSUME NEW a \in Admin, SaveLoads(a) \/ SaveFails(a)
      PROVE  ModelCallsShape' /\ OfferedAndOpened'
  BY <1>1 DEF SaveLoads, SaveFails, ModelCallsShape, OfferedAndOpened
<1>2. ASSUME NEW a \in Admin, SaveCommits(a)
      PROVE  ModelCallsShape' /\ OfferedAndOpened'
  <2>1. PICK enter \in [Tier -> Offer], keys \in [Tier -> ApiKey \cup {NoKey, "keep"}] :
          settings' = [t \in Tier |->
              [model |-> Written(save[a][t].model, enter[t].model, settings[t].model),
               price |-> Written(save[a][t].price, enter[t].price, settings[t].price),
               key |-> IF keys[t] = "keep" THEN settings[t].key
                       ELSE Written(save[a][t].key, keys[t], settings[t].key)]]
    BY <1>2 DEF SaveCommits
  <2>2. ASSUME NEW t \in Tier
        PROVE  settings'[t] \in Settings
    <3>1. /\ settings[t].model \in Endpoint \cup {Blank} /\ settings[t].price \in Nat
          /\ settings[t].key \in ApiKey \cup {NoKey}
      BY DEF ModelCallsShape, Settings
    <3>2. enter[t].model \in Endpoint \cup {Blank} /\ enter[t].price \in Nat
      BY ModelCallsAssumption
    <3>3. keys[t] # "keep" => keys[t] \in ApiKey \cup {NoKey}
      OBVIOUS
    <3>4. QED
      BY <2>1, <3>1, <3>2, <3>3 DEF Written, Settings
  <2>3. settings' \in [Tier -> Settings]
    BY <2>1, <2>2
  <2>4. /\ offered' = offered \cup {settings'[t] : t \in Tier}
        /\ save' = [save EXCEPT ![a] = NotEditing] /\ UNCHANGED <<clients, call, spent>>
    BY <1>2 DEF SaveCommits
  <2>5. QED
    BY <2>3, <2>4 DEF ModelCallsShape, OfferedAndOpened
<1>3. ASSUME NEW c \in Caller, CallResolves(c)
      PROVE  ModelCallsShape' /\ OfferedAndOpened'
  <2>1. PICK w \in Asks(c) :
          call' = [call EXCEPT ![c] = [NoCall EXCEPT !.at = "resolved", !.purpose = w[1],
                        !.asked = w[2], !.tier = Resolved(w[2]).tier, !.with = Resolved(w[2]).with]]
    BY <1>3 DEF CallResolves
  <2>2. w[1] \in {"answer", "work", "summary"} /\ w[2] \in Tier
    BY <2>1 DEF Asks, ModelCallsShape, CallRecords, Tier
  <2>3. /\ Resolved(w[2]).tier \in Tier /\ Resolved(w[2]).with \in Settings
        /\ Resolved(w[2]).with \in offered
    BY <2>2 DEF Resolved, Effective, ModelCallsShape, OfferedAndOpened, Tier
  <2> DEFINE next == [NoCall EXCEPT !.at = "resolved", !.purpose = w[1],
                        !.asked = w[2], !.tier = Resolved(w[2]).tier, !.with = Resolved(w[2]).with]
  <2>4. /\ next \in CallRecords
        /\ next.at = "resolved" /\ next.with \in offered /\ next.purpose # "none"
    BY <2>2, <2>3, ModelRecords DEF NoCall, CallRecords
  <2>5. /\ call' = [call EXCEPT ![c] = next] /\ UNCHANGED <<settings, save, saves, clients, offered>>
        /\ spent' = [spent EXCEPT ![c].rounds = IF call[c].purpose = "summary" THEN @ ELSE @ + 1]
    BY <1>3, <2>1 DEF CallResolves
  <2> HIDE DEF next
  <2>6. QED
    <3>1. /\ call' \in [Caller -> CallRecords] /\ call'[c] = next
          /\ \A d \in Caller \ {c} : call'[d] = call[d]
      BY <2>4, <2>5 DEF ModelCallsShape
    <3>2. [spent[c] EXCEPT !.rounds = IF call[c].purpose = "summary" THEN @ ELSE @ + 1] \in Budgets
      BY DEF ModelCallsShape, Budgets
    <3>3. spent' \in [Caller -> Budgets]
      BY <2>5, <3>2 DEF ModelCallsShape
    <3>4. QED
      BY <2>4, <2>5, <3>1, <3>3 DEF ModelCallsShape, OfferedAndOpened
<1>4. ASSUME NEW c \in Caller, CallSends(c)
      PROVE  ModelCallsShape' /\ OfferedAndOpened'
  <2> DEFINE id == ClientKey(call[c])
             new == [id |-> id, model |-> call[c].with.model, key |-> call[c].with.key]
             open == {k \in clients : k.id = id}
  <2>1. PICK client \in IF open = {} THEN {new} ELSE open :
          /\ call[c].at = "resolved"
          /\ clients' = clients \cup {client}
          /\ call' = [call EXCEPT ![c].at = "sent", ![c].client = client]
          /\ UNCHANGED <<settings, save, saves, spent, offered>>
    BY <1>4 DEF CallSends
  <2>2. id = <<call[c].with.model, call[c].with.key>> /\ call[c].with.model \in Addresses /\ call[c].with.key \in Keys
    BY DEF ClientKey, ModelCallsShape, CallRecords, Settings, Addresses, Keys
  <2>3. new \in Clients /\ new.id = <<new.model, new.key>>
    BY <2>2 DEF Clients
  <2>4. client \in Clients /\ client.id = id /\ client.id = <<client.model, client.key>>
    BY <2>1, <2>3 DEF ModelCallsShape, OfferedAndOpened
  <2>5. client.model = call[c].with.model /\ client.key = call[c].with.key
    BY <2>2, <2>4
  <2> HIDE DEF id, new, open
  <2>6. ModelCallsShape'
    <3>1. [call[c] EXCEPT !.at = "sent", !.client = client] \in CallRecords
      BY <2>4 DEF ModelCallsShape, CallRecords
    <3>2. QED
      BY <2>1, <2>4, <3>1 DEF ModelCallsShape
  <2>7. /\ call'[c].at = "sent" /\ call'[c].with = call[c].with /\ call'[c].purpose = call[c].purpose /\ call'[c].client = client
        /\ \A d \in Caller \ {c} : call'[d] = call[d]
    BY <2>1 DEF ModelCallsShape, CallRecords
  <2>8. QED
    <3>1. \A k \in clients' : k.id = <<k.model, k.key>>
      BY <2>1, <2>4 DEF OfferedAndOpened
    <3>2. call[c].with \in offered /\ call[c].purpose # "none" /\ settings' = settings /\ offered' = offered
      BY <2>1 DEF OfferedAndOpened
    <3>3. QED
      BY <2>5, <2>6, <2>7, <3>1, <3>2 DEF OfferedAndOpened
<1>5. ASSUME NEW c \in Caller, CallAnswers(c) \/ CallFails(c) \/ RoundsUsedUp(c)
      PROVE  ModelCallsShape' /\ OfferedAndOpened'
  <2>1. PICK next : /\ call' = [call EXCEPT ![c] = next]
                    /\ next \in CallRecords
                    /\ next.at \in {"between", "ended"}
    <3>1. /\ call[c].purpose \in {"none", "answer", "work", "summary"} /\ call[c].asked \in Tier /\ "fast" \in Tier
      BY DEF ModelCallsShape, CallRecords, Tier
    <3>2. /\ [NoCall EXCEPT !.at = "ended"] \in CallRecords
          /\ [NoCall EXCEPT !.at = "ended"].at = "ended"
      BY ModelRecords DEF CallRecords
    <3>3. ASSUME NEW p \in {"none", "answer", "work", "summary"}, NEW t \in Tier
          PROVE  /\ [NoCall EXCEPT !.at = "between", !.purpose = p, !.asked = t] \in
                                CallRecords
                 /\ [NoCall EXCEPT !.at = "between", !.purpose = p, !.asked = t].at = "between"
      BY ModelRecords DEF NoCall, CallRecords
    <3>4. \/ call' = [call EXCEPT ![c] = [NoCall EXCEPT !.at = "ended"]]
          \/ \E p \in {"none", "answer", "work", "summary"}, t \in Tier :
                call' = [call EXCEPT ![c] = [NoCall EXCEPT !.at = "between", !.purpose = p, !.asked = t]]
      BY <1>5, <3>1 DEF CallAnswers, CallFails, RoundsUsedUp
    <3>5. CASE call' = [call EXCEPT ![c] = [NoCall EXCEPT !.at = "ended"]]
      BY <3>2, <3>5
    <3>6. ASSUME NEW p \in {"none", "answer", "work", "summary"}, NEW t \in Tier,
                 call' = [call EXCEPT ![c] = [NoCall EXCEPT !.at = "between", !.purpose = p, !.asked = t]]
          PROVE  \E next : call' = [call EXCEPT ![c] = next] /\ next \in CallRecords
                            /\ next.at \in {"between", "ended"}
      BY <3>3, <3>6
    <3>7. QED
      BY <3>4, <3>5, <3>6
  <2>2. spent' \in [Caller -> Budgets]
    <3>1. CASE CallAnswers(c)
      <4>1. /\ call[c].with.price \in Nat /\ call[c].tier \in Tier /\ call[c].asked \in Tier
            /\ spent[c] \in Budgets
        BY DEF ModelCallsShape, CallRecords, Settings
      <4>2. Booked(spent[c].by, call[c].tier, call[c].with.price) \in Books
        BY <4>1 DEF Budgets, Books, Booked
      <4>3. Booked(spent[c].by, call[c].asked, call[c].with.price) \in Books
        BY <4>1 DEF Budgets, Books, Booked
      <4>4. spent[c].by \in Books /\ call[c].purpose \in {"answer", "work", "summary"}
        BY <3>1, <4>1 DEF CallAnswers, Budgets, OfferedAndOpened, ModelCallsShape, CallRecords
      <4> DEFINE charged == spent[c].cost + call[c].with.price
      <4>5. \E by \in Books : spent' = [spent EXCEPT ![c].cost = charged, ![c].by = by]
        <5>1. CASE call[c].purpose = "answer"
          BY <3>1, <4>2, <5>1 DEF CallAnswers, Charge
        <5>2. CASE call[c].purpose = "work"
          BY <3>1, <4>3, <5>2 DEF CallAnswers, Charge
        <5>3. CASE call[c].purpose = "summary"
          BY <3>1, <4>4, <5>3 DEF CallAnswers, Charge
        <5>4. QED
          BY <4>4, <5>1, <5>2, <5>3
      <4>6. charged \in Nat
        BY <4>1 DEF Budgets
      <4> HIDE DEF charged
      <4>7. PICK by \in Books : spent' = [spent EXCEPT ![c].cost = charged, ![c].by = by]
        BY <4>5
      <4>8. [spent[c] EXCEPT !.cost = charged, !.by = by] \in Budgets
        BY <4>1, <4>6, ChargedBudget
      <4>9. spent' = [spent EXCEPT ![c] = [spent[c] EXCEPT !.cost = charged, !.by = by]]
        BY <4>7
      <4>10. QED
        BY <4>8, <4>9 DEF ModelCallsShape
    <3>2. CASE ~CallAnswers(c)
      BY <1>5, <3>2 DEF CallFails, RoundsUsedUp, ModelCallsShape
    <3>3. QED
      BY <3>1, <3>2
  <2>3. UNCHANGED <<settings, save, clients, offered>>
    BY <1>5 DEF CallAnswers, CallFails, RoundsUsedUp
  <2>4. QED
    BY <2>1, <2>2, <2>3 DEF ModelCallsShape, OfferedAndOpened
<1>6. CASE ClientsClose
  BY <1>6 DEF ClientsClose, ModelCallsShape, OfferedAndOpened
<1>7. CASE UNCHANGED modelVars
  BY <1>7 DEF modelVars, ModelCallsShape, OfferedAndOpened
<1>8. QED
  BY <1>1, <1>2, <1>3, <1>4, <1>5, <1>6, <1>7 DEF ModelCallsNext

\* Whatever settings are saved while calls are in flight and clients stay open,
\* an answer is charged at the price of the model that gave it (core/llm.py
\* _resolve_model_config and _shared_client, agent/budget.py record_cost).
THEOREM AnswersAreChargedAsConfigured == ModelCallsSpec => ChargedAsConfigured
<1>1. ModelCallsInv /\ [ModelCallsNext]_modelVars =>
        [\A c \in Caller : spent'[c].cost # spent[c].cost =>
          [model |-> call[c].client.model, key |-> call[c].client.key,
           price |-> spent'[c].cost - spent[c].cost] \in offered]_modelVars
  <2> SUFFICES ASSUME ModelCallsShape, OfferedAndOpened, ModelCallsNext, NEW c \in Caller,
                      spent'[c].cost # spent[c].cost
               PROVE  [model |-> call[c].client.model, key |-> call[c].client.key,
                       price |-> spent'[c].cost - spent[c].cost] \in offered
    BY DEF ModelCallsInv
  <2>1. CallAnswers(c)
    <3>1. ASSUME NEW d \in Caller, CallResolves(d)
          PROVE  FALSE
      BY <3>1 DEF CallResolves, ModelCallsShape
    <3>2. ASSUME NEW d \in Caller, CallAnswers(d), d # c
          PROVE  FALSE
      BY <3>2 DEF CallAnswers, Charge, ModelCallsShape
    <3>3. ASSUME spent' = spent
          PROVE  FALSE
      BY <3>3
    <3>4. QED
      BY <3>1, <3>2, <3>3 DEF ModelCallsNext, SaveLoads, SaveCommits, SaveFails, CallSends, CallFails,
                              RoundsUsedUp, ClientsClose
  <2>2. /\ call[c].with \in Settings /\ call[c].with \in offered /\ spent[c].cost \in Nat
        /\ call[c].client.model = call[c].with.model /\ call[c].client.key = call[c].with.key
    BY <2>1 DEF CallAnswers, ModelCallsShape, CallRecords, Budgets, OfferedAndOpened
  <2>3. spent'[c].cost = spent[c].cost + call[c].with.price
    BY <2>1 DEF CallAnswers, Charge, ModelCallsShape
  <2>4. spent'[c].cost - spent[c].cost = call[c].with.price
    BY <2>2, <2>3 DEF Settings
  <2>5. call[c].with = [model |-> call[c].with.model, price |-> call[c].with.price, key |-> call[c].with.key]
    BY <2>2 DEF Settings
  <2>6. QED
    BY <2>2, <2>4, <2>5
<1>2. QED
  BY <1>1, ModelCallsInvInit, ModelCallsInvStep, PTL DEF ModelCallsSpec, ChargedAsConfigured

\* The balanced tier is always configured, and no budget has more steps than it may.
ModelCounts ==
    /\ settings["balanced"].model # Blank
    /\ saves \in 0 .. MaxSaves
    /\ \A c \in Caller : spent[c].rounds <= Rounds

LEMMA ModelCountsStep == ModelCallsInv /\ ModelCounts /\ [ModelCallsNext]_modelVars => ModelCounts'
<1> SUFFICES ASSUME ModelCallsShape, ModelCounts, [ModelCallsNext]_modelVars
             PROVE  ModelCounts'
  BY DEF ModelCallsInv
<1>0. /\ MaxSaves \in Nat /\ Rounds \in Nat /\ saves \in 0 .. MaxSaves /\ "balanced" \in Tier
      /\ spent \in [Caller -> Budgets] /\ settings \in [Tier -> Settings]
      /\ \A c \in Caller : spent[c].rounds \in Nat /\ spent[c].rounds <= Rounds
  BY ModelCallsAssumption DEF ModelCallsShape, ModelCounts, Tier, Budgets
<1>1. ASSUME NEW a \in Admin, SaveCommits(a)
      PROVE  ModelCounts'
  <2>1. PICK enter \in [Tier -> Offer], keys \in [Tier -> ApiKey \cup {NoKey, "keep"}] :
          /\ saves < MaxSaves /\ saves' = saves + 1 /\ spent' = spent
          /\ enter["balanced"].model # Blank
          /\ settings' = [t \in Tier |->
              [model |-> Written(save[a][t].model, enter[t].model, settings[t].model),
               price |-> Written(save[a][t].price, enter[t].price, settings[t].price),
               key |-> IF keys[t] = "keep" THEN settings[t].key
                       ELSE Written(save[a][t].key, keys[t], settings[t].key)]]
    BY <1>1 DEF SaveCommits
  <2>2. settings'["balanced"].model = Written(save[a]["balanced"].model, enter["balanced"].model, settings["balanced"].model)
    BY <1>0, <2>1
  <2>3. settings'["balanced"].model # Blank
    BY <2>1, <2>2 DEF Written, ModelCounts
  <2>4. QED
    BY <1>0, <2>1, <2>3 DEF ModelCounts
<1>2. ASSUME NEW c \in Caller, CallResolves(c)
      PROVE  ModelCounts'
  <2>1. /\ UNCHANGED <<settings, saves>> /\ (call[c].purpose = "summary" \/ spent[c].rounds < Rounds)
        /\ spent' = [spent EXCEPT ![c].rounds = IF call[c].purpose = "summary" THEN @ ELSE @ + 1]
    BY <1>2 DEF CallResolves
  <2>2. \A d \in Caller : spent'[d].rounds <= Rounds
    BY <1>0, <2>1 DEF Budgets
  <2>3. QED
    BY <2>1, <2>2 DEF ModelCounts
<1>3. ASSUME NEW c \in Caller, CallAnswers(c)
      PROVE  ModelCounts'
  <2>1. UNCHANGED <<settings, saves>>
    BY <1>3 DEF CallAnswers
  <2>2. \A d \in Caller : spent'[d].rounds = spent[d].rounds
    BY <1>0, <1>3 DEF CallAnswers, Charge, Budgets
  <2>3. QED
    BY <2>1, <2>2 DEF ModelCounts
<1>4. CASE UNCHANGED <<settings, saves, spent>>
  BY <1>4 DEF ModelCounts
<1>5. QED
  <2>1. ASSUME NEW a \in Admin, SaveLoads(a) \/ SaveFails(a)
        PROVE  UNCHANGED <<settings, saves, spent>>
    BY <2>1 DEF SaveLoads, SaveFails
  <2>2. ASSUME NEW c \in Caller, CallSends(c) \/ CallFails(c) \/ RoundsUsedUp(c)
        PROVE  UNCHANGED <<settings, saves, spent>>
    BY <2>2 DEF CallSends, CallFails, RoundsUsedUp
  <2>3. QED
    BY <1>1, <1>2, <1>3, <1>4, <2>1, <2>2 DEF ModelCallsNext, ClientsClose, modelVars

\* Settings, calls and budgets keep their types; in particular the tier every
\* other falls back to is never blank, and no budget is asked for more steps than
\* it has (services/system_config.py, agent/budget.py).
THEOREM FallbackIsConfigured == ModelCallsSpec => []ModelCallsTypeOK
<1>1. ModelCallsInit => ModelCounts
  <2> SUFFICES ASSUME ModelCallsInit
               PROVE  ModelCounts
    OBVIOUS
  <2>1. PICK o \in Offer : o.model # Blank /\ settings = [t \in Tier |->
          IF t = "balanced" THEN [model |-> o.model, price |-> o.price, key |-> NoKey] ELSE NoSettings]
    BY DEF ModelCallsInit
  <2>2. settings["balanced"].model # Blank
    BY <2>1 DEF Tier
  <2>3. QED
    BY <2>2, ModelCallsAssumption DEF ModelCallsInit, ModelCounts, NothingSpent
<1>2. ModelCallsInv /\ ModelCounts => ModelCallsTypeOK
  <2> SUFFICES ASSUME ModelCallsShape, ModelCounts, NEW c \in Caller
               PROVE  ModelCallsTypeOK
    BY DEF ModelCallsInv, ModelCallsShape, ModelCounts, ModelCallsTypeOK
  <2>1. QED
    BY ModelCallsAssumption DEF ModelCallsShape, CallRecords, Budgets, Books, ModelCounts, ModelCallsTypeOK
<1>3. QED
  BY <1>1, <1>2, ModelCallsInvInit, ModelCallsInvStep, ModelCountsStep, PTL DEF ModelCallsSpec

-----------------------------------------------------------------------------
(* The knowledge base.  A document that only one request is about, as far  *)
(* as its text goes, is where that request has read it or has moved it to, *)
(* unless an earlier request on it was cut off.                            *)

Places == Category \cup {NoOne}
InFlight == [at : {"idle", "read", "moved"},
             op : {"none", "upload", "delete", "restore", "purge", "categorise"},
             doc : Document \cup {NoOne}, read : Record, to : Places]
KnowledgeShape ==
    /\ doc \in [Document -> Record]
    /\ root \in [Document -> SUBSET Places] /\ trash \in [Document -> SUBSET Places]
    /\ handler \in [Handler -> InFlight]
    /\ overlapped \subseteq Document /\ cut \subseteq Document
    /\ \A h \in Handler :
          IF handler[h].at = "idle" THEN handler[h].doc = NoOne
                                    ELSE handler[h].doc \in Document /\ handler[h].op # "none"

\* Requests about one text have been noticed, for every document with it.
OverlapsAreKnown ==
    /\ \A g, h \in Handler :
          g # h /\ handler[g].at # "idle" /\ handler[h].at # "idle"
            /\ Content(handler[g].doc) = Content(handler[h].doc) => handler[h].doc \in overlapped
    /\ \A d \in overlapped, e \in Document : Content(e) = Content(d) => e \in overlapped

NoTwin(d) == ~\E e \in Document : Twin(d, e)
Placed(d, there, bin) == d \in cut \/ (root[d] = there /\ trash[d] = bin)
Agrees(d) ==
    /\ HasState(d, "live") => Placed(d, {doc[d].path}, {}) /\ NoTwin(d)
    /\ HasState(d, "deleted") => Placed(d, {}, {doc[d].path})
    /\ HasState(d, "purged") => Placed(d, {}, {})
    /\ HasState(d, "absent") => d \in cut \/ trash[d] = {}
    /\ doc[d].state \in {"live", "deleted"} => doc[d].path = doc[d].category

\* What a request that is alone has made of document d.
Begun(h, d) ==
    LET r == handler[h].read
        moved == handler[h].at = "moved"
        op == handler[h].op IN
    /\ doc[d].state = r.state /\ doc[d].path = r.path /\ doc[d].category = r.category
    /\ r.state \in {"live", "deleted"} => r.path = r.category
    /\ op = "upload" => r.state = "absent" /\ Placed(d, IF moved THEN {handler[h].to} ELSE {}, {})
    /\ op = "delete" => r.state = "live" /\ IF moved THEN Placed(d, {}, {r.path}) ELSE Placed(d, {r.path}, {})
    /\ op = "restore" => r.state = "deleted" /\ IF moved THEN Placed(d, {r.path}, {}) ELSE Placed(d, {}, {r.path})
    /\ op = "purge" => r.state = "deleted" /\ Placed(d, {}, {r.path})
    /\ op = "categorise" => r.state = "live" /\ Placed(d, {IF moved THEN handler[h].to ELSE r.path}, {})
    /\ op # "purge" => NoTwin(d)

Tidy(d) ==
    /\ Quiet(d) => Agrees(d)
    /\ \A h \in Handler : handler[h].doc = d => Begun(h, d)

KnowledgeInv ==
    KnowledgeShape /\ OverlapsAreKnown /\ \A d \in Document \ overlapped : Tidy(d)

LEMMA Answering ==
    ASSUME KnowledgeShape, NEW h \in Handler, Answers(h)
    PROVE  /\ handler' \in [Handler -> InFlight] /\ handler'[h].at = "idle" /\ handler'[h].doc = NoOne
           /\ \A g \in Handler \ {h} : handler'[g] = handler[g]
<1>1. Waiting \in InFlight /\ Waiting.at = "idle" /\ Waiting.doc = NoOne
  BY DEF Waiting, InFlight, NoDoc, Record, States, Places
<1>2. QED
  BY <1>1 DEF Answers, KnowledgeShape

\* Documents of another text, and with nobody about them, stay as they are.
LEMMA OtherDocumentsStayTidy ==
    ASSUME KnowledgeInv, NEW h \in Handler, handler[h].at # "idle", NEW x \in Document, x = handler[h].doc,
           \A d \in Document \ {x} : doc'[d] = doc[d] /\ root'[d] = root[d] /\ trash'[d] = trash[d],
           \A g \in Handler \ {h} : handler'[g] = handler[g],
           handler'[h].doc \in {x, NoOne}, overlapped' = overlapped,
           cut \subseteq cut', cut' \subseteq cut \cup {x},
           doc'[x].state = "live" => doc[x].state = "live" \/ x \in overlapped \/ NoTwin(x),
           NEW d \in Document \ overlapped, d # x
    PROVE  Tidy(d)'
<1>1. Tidy(d) /\ d # NoOne
  BY KnowledgeAssumption DEF KnowledgeInv
<1>2. \A g \in Handler : handler'[g].doc = d <=> handler[g].doc = d
  BY <1>1
<1>3. /\ root'[d] = root[d] /\ trash'[d] = trash[d] /\ doc'[d] = doc[d]
      /\ d \in cut' <=> d \in cut
  OBVIOUS
<1>4. CASE Content(d) # Content(x)
  <2>1. NoTwin(d)' <=> NoTwin(d)
    BY <1>4 DEF NoTwin, Twin, HasState
  <2>2. Agrees(d) => Agrees(d)'
    BY <2>1, <1>3 DEF Agrees, HasState, Placed
  <2>3. ASSUME NEW g \in Handler, handler[g].doc = d, Begun(g, d)
        PROVE  Begun(g, d)'
    <3>1. handler'[g] = handler[g] /\ root'[d] = root[d] /\ trash'[d] = trash[d]
      BY <2>3
    <3>2. QED
      BY <2>1, <2>3, <3>1, <1>3 DEF Begun, Placed
  <2>4. QED
    BY <1>1, <1>2, <2>2, <2>3 DEF Tidy, Quiet
<1>5. CASE Content(d) = Content(x)
  <2>1. x \notin overlapped
    BY <1>5 DEF KnowledgeInv, OverlapsAreKnown
  <2>2. Quiet(d) /\ Agrees(d)
    <3>1. \A g \in Handler : handler[g].doc = d => handler[g].at # "idle" /\ g # h
      BY <1>1 DEF KnowledgeInv, KnowledgeShape
    <3>2. QED
      BY <1>1, <1>5, <2>1, <3>1 DEF KnowledgeInv, OverlapsAreKnown, Tidy, Quiet
  <2>3. NoTwin(d) /\ HasState(d, "live") => NoTwin(d)'
    BY <1>3, <1>5, <2>1 DEF NoTwin, Twin, HasState
  <2>4. Agrees(d)'
    BY <1>3, <2>2, <2>3 DEF Agrees, HasState, Placed
  <2>5. QED
    BY <1>2, <2>2, <2>4 DEF Tidy, Quiet
<1>6. QED
  BY <1>4, <1>5

\* A request that goes on, or answers, meets no other.
LEMMA KnowledgeGoesOn ==
    ASSUME KnowledgeInv, NEW h \in Handler, handler[h].at # "idle", NEW x \in Document, x = handler[h].doc,
           doc' \in [Document -> Record], root' \in [Document -> SUBSET Places],
           trash' \in [Document -> SUBSET Places], handler' \in [Handler -> InFlight],
           \A d \in Document \ {x} : doc'[d] = doc[d] /\ root'[d] = root[d] /\ trash'[d] = trash[d],
           \A g \in Handler \ {h} : handler'[g] = handler[g],
           \/ handler'[h].at = "idle" /\ handler'[h].doc = NoOne
           \/ handler'[h].at # "idle" /\ handler'[h].doc = x /\ handler'[h].op = handler[h].op,
           overlapped' = overlapped,
           cut \subseteq cut', cut' \subseteq cut \cup {x},
           x \notin overlapped =>
               /\ doc'[x].state = "live" => doc[x].state = "live" \/ NoTwin(x)
               /\ handler'[h].doc = NoOne => Agrees(x)'
               /\ handler'[h].doc # NoOne => Begun(h, x)'
    PROVE  KnowledgeInv'
<1>1. handler[h].op # "none" /\ x # NoOne
  BY KnowledgeAssumption DEF KnowledgeInv, KnowledgeShape
<1>2. KnowledgeShape'
  BY <1>1 DEF KnowledgeInv, KnowledgeShape
<1>3. OverlapsAreKnown'
  BY DEF KnowledgeInv, OverlapsAreKnown
<1>4. ASSUME NEW d \in Document \ overlapped, d # x
      PROVE  Tidy(d)'
  <2>1. handler'[h].doc \in {x, NoOne}
    OBVIOUS
  <2>2. doc'[x].state = "live" => doc[x].state = "live" \/ x \in overlapped \/ NoTwin(x)
    OBVIOUS
  <2>3. QED
    BY <1>4, <2>1, <2>2, OtherDocumentsStayTidy
<1>5. ASSUME x \notin overlapped
      PROVE  Tidy(x)'
  <2>1. \A g \in Handler \ {h} : handler'[g].doc # x
    BY <1>1, <1>5 DEF KnowledgeInv, KnowledgeShape, OverlapsAreKnown
  <2>2. CASE handler'[h].doc = NoOne
    BY <1>1, <1>5, <2>1, <2>2 DEF Tidy, Quiet
  <2>3. CASE handler'[h].doc = x
    BY <1>1, <1>5, <2>1, <2>3 DEF Tidy, Quiet
  <2>4. QED
    BY <2>2, <2>3
<1>6. QED
  BY <1>2, <1>3, <1>4, <1>5 DEF KnowledgeInv

\* What a request that is alone finds, and what it leaves if it gives up before
\* the move.
LEMMA AloneOnText ==
    ASSUME KnowledgeInv, NEW h \in Handler, handler[h].at # "idle", handler[h].doc \notin overlapped
    PROVE  Begun(h, handler[h].doc)
BY DEF KnowledgeInv, KnowledgeShape, Tidy

LEMMA BegunAgrees ==
    ASSUME NEW h \in Handler, NEW d \in Document, Begun(h, d), handler[h].at = "read", handler[h].op # "none",
           handler[h].op \in {"none", "upload", "delete", "restore", "purge", "categorise"}
    PROVE  Agrees(d)
BY DEF Begun, Agrees, HasState, Placed

\* Only the states and places of documents count: a suggestion changes neither.
LEMMA SuggestionsKeep ==
    ASSUME KnowledgeInv, UNCHANGED <<root, trash, handler, overlapped, cut>>, doc' \in [Document -> Record],
           \A d \in Document : /\ doc'[d].state = doc[d].state /\ doc'[d].path = doc[d].path
                               /\ doc'[d].category = doc[d].category
    PROVE  KnowledgeInv'
<1>1. KnowledgeShape' /\ OverlapsAreKnown'
  BY DEF KnowledgeInv, KnowledgeShape, OverlapsAreKnown
<1>2. \A d \in Document : NoTwin(d)' <=> NoTwin(d)
  BY DEF NoTwin, Twin, HasState
<1>3. ASSUME NEW d \in Document
      PROVE  Agrees(d) => Agrees(d)'
  BY <1>2 DEF Agrees, HasState, Placed
<1>4. ASSUME NEW d \in Document, NEW h \in Handler
      PROVE  Begun(h, d) => Begun(h, d)'
  BY <1>2 DEF Begun, Placed
<1>5. QED
  BY <1>1, <1>3, <1>4 DEF KnowledgeInv, Tidy, Quiet

LEMMA KnowledgeStarts ==
    ASSUME KnowledgeInv, NEW h \in Handler, NEW x \in Document, NEW c \in Places,
           NEW op \in {"upload", "delete", "restore", "purge", "categorise"},
           Starts(h, op, x, c),
           op = "upload" => HasState(x, "absent") /\ root[x] = {} /\ NoTwin(x),
           op \in {"delete", "categorise"} => HasState(x, "live"),
           op = "restore" => HasState(x, "deleted") /\ NoTwin(x),
           op = "purge" => HasState(x, "deleted")
    PROVE  KnowledgeInv'
<1> DEFINE started == [at |-> "read", op |-> op, doc |-> x, read |-> doc[x], to |-> c]
<1>1. /\ handler[h].at = "idle" /\ x \notin overlapped /\ UNCHANGED <<doc, root, trash, cut>>
      /\ handler' = [handler EXCEPT ![h] = started]
      /\ overlapped' = IF \E g \in Handler \ {h} : InFlightOn(g, Content(x))
                       THEN overlapped \cup {e \in Document : Content(e) = Content(x)} ELSE overlapped
  BY DEF Starts
<1>2. started \in InFlight /\ started.at = "read" /\ started.doc = x /\ started.op = op /\ started.read = doc[x]
  BY DEF InFlight, KnowledgeInv, KnowledgeShape
<1> HIDE DEF started
<1>3. /\ handler' \in [Handler -> InFlight] /\ handler'[h] = started
      /\ \A g \in Handler \ {h} : handler'[g] = handler[g]
  BY <1>1, <1>2 DEF KnowledgeInv, KnowledgeShape
<1>4. KnowledgeShape'
  BY <1>1, <1>2, <1>3 DEF KnowledgeInv, KnowledgeShape
<1>5. \A d \in overlapped', e \in Document : Content(e) = Content(d) => e \in overlapped'
  BY <1>1 DEF KnowledgeInv, OverlapsAreKnown
<1>6. OverlapsAreKnown'
  <2>1. ASSUME NEW f \in Handler, NEW g \in Handler, f # g, handler'[f].at # "idle", handler'[g].at # "idle",
               Content(handler'[f].doc) = Content(handler'[g].doc)
        PROVE  handler'[g].doc \in overlapped'
    <3>1. handler'[f].doc \in Document /\ handler'[g].doc \in Document
      BY <1>4, <2>1 DEF KnowledgeShape
    <3>2. CASE f # h /\ g # h
      BY <1>1, <1>3, <2>1, <3>2 DEF KnowledgeInv, OverlapsAreKnown
    <3>3. CASE f = h \/ g = h
      BY <1>1, <1>2, <1>3, <2>1, <3>1, <3>3 DEF InFlightOn
    <3>4. QED
      BY <3>2, <3>3
  <2>2. QED
    BY <1>5, <2>1 DEF OverlapsAreKnown
<1>7. ASSUME NEW d \in Document \ overlapped', d # x
      PROVE  Tidy(d)'
  <2>1. Tidy(d)
    BY <1>1, <1>7 DEF KnowledgeInv
  <2>2. \A g \in Handler : /\ handler'[g].doc = d => handler'[g] = handler[g]
                           /\ handler[g].doc = d => handler'[g] = handler[g]
    BY <1>1, <1>2, <1>3, <1>7, KnowledgeAssumption DEF KnowledgeInv, KnowledgeShape
  <2>3. Agrees(d)' <=> Agrees(d)
    BY <1>1 DEF Agrees, HasState, Placed, NoTwin, Twin
  <2>4. ASSUME NEW g \in Handler, handler'[g] = handler[g], Begun(g, d)
        PROVE  Begun(g, d)'
    BY <1>1, <2>4 DEF Begun, HasState, Placed, NoTwin, Twin
  <2>5. Quiet(d)' <=> Quiet(d)
    BY <2>2 DEF Quiet
  <2>6. ASSUME NEW g \in Handler, handler'[g].doc = d
        PROVE  Begun(g, d)'
    BY <2>1, <2>2, <2>4, <2>6 DEF Tidy
  <2>7. QED
    BY <2>1, <2>3, <2>5, <2>6 DEF Tidy
<1>8. ASSUME x \notin overlapped'
      PROVE  Tidy(x)'
  <2>1. \A g \in Handler \ {h} : handler[g].at = "idle" \/ handler[g].doc # x
    BY <1>1, <1>8 DEF InFlightOn
  <2>2. Quiet(x)
    BY <1>1, <2>1, KnowledgeAssumption DEF Quiet, KnowledgeInv, KnowledgeShape
  <2>3. Agrees(x)
    BY <1>1, <2>2 DEF KnowledgeInv, Tidy
  <2>4. Begun(h, x)'
    <3>1. NoTwin(x) => NoTwin(x)'
      BY <1>1 DEF NoTwin, Twin, HasState
    <3>2. handler'[h].read = doc[x] /\ handler'[h].at = "read" /\ handler'[h].op = op
      BY <1>2, <1>3
    <3>3. QED
      BY <1>1, <2>3, <3>1, <3>2 DEF Agrees, Begun, HasState, Placed
  <2>5. \A g \in Handler \ {h} : handler'[g].doc # x
    BY <1>3, <2>2 DEF Quiet
  <2>6. QED
    BY <1>2, <1>3, <2>4, <2>5 DEF Tidy, Quiet
<1>9. QED
  BY <1>4, <1>6, <1>7, <1>8 DEF KnowledgeInv

LEMMA KnowledgeInvInit == KnowledgeInit => KnowledgeInv
<1>1. NoDoc \in Record /\ NoDoc.state = "absent" /\ Waiting \in InFlight /\ Waiting.at = "idle" /\ Waiting.doc = NoOne
  BY DEF NoDoc, Record, States, Waiting, InFlight, Places
<1>2. QED
  BY <1>1, KnowledgeAssumption DEF KnowledgeInit, KnowledgeInv, KnowledgeShape, OverlapsAreKnown, Tidy, Quiet, Agrees, HasState

LEMMA KnowledgeInvStep == KnowledgeInv /\ [KnowledgeNext]_knowledgeVars => KnowledgeInv'
<1> SUFFICES ASSUME KnowledgeInv, [KnowledgeNext]_knowledgeVars
             PROVE  KnowledgeInv'
  OBVIOUS
<1>1. ASSUME NEW h \in Handler, NEW d \in Document, NEW c \in Category,
             \/ UploadStarts(h, d, c) \/ CategoriseStarts(h, d, c)
             \/ DeleteStarts(h, d) \/ RestoreStarts(h, d) \/ PurgeStarts(h, d)
      PROVE  KnowledgeInv'
  <2>1. c \in Places /\ NoOne \in Places
    BY DEF Places
  <2>2. CASE UploadStarts(h, d, c)
    BY <2>1, <2>2, KnowledgeStarts DEF UploadStarts, NoTwin
  <2>3. CASE CategoriseStarts(h, d, c)
    BY <2>1, <2>3, KnowledgeStarts DEF CategoriseStarts
  <2>4. CASE DeleteStarts(h, d)
    BY <2>1, <2>4, KnowledgeStarts DEF DeleteStarts
  <2>5. CASE RestoreStarts(h, d)
    BY <2>1, <2>5, KnowledgeStarts DEF RestoreStarts, NoTwin
  <2>6. CASE PurgeStarts(h, d)
    BY <2>1, <2>6, KnowledgeStarts DEF PurgeStarts
  <2>7. QED
    BY <1>1, <2>2, <2>3, <2>4, <2>5, <2>6
<1>2. ASSUME NEW h \in Handler, \/ UploadMoves(h) \/ DeleteMoves(h) \/ RestoreMoves(h) \/ PurgeMoves(h)
                               \/ CategoriseMoves(h)
      PROVE  KnowledgeInv'
  <2> DEFINE r == handler[h].read
  <2>1. PICK x \in Document : x = handler[h].doc
    BY <1>2 DEF UploadMoves, DeleteMoves, RestoreMoves, PurgeMoves, CategoriseMoves, Moves,
                KnowledgeInv, KnowledgeShape
  <2>2. /\ handler[h].at = "read" /\ handler' = [handler EXCEPT ![h].at = "moved"]
        /\ UNCHANGED <<doc, overlapped, cut>>
    BY <1>2 DEF UploadMoves, DeleteMoves, RestoreMoves, PurgeMoves, CategoriseMoves, Moves
  <2>3. /\ handler' \in [Handler -> InFlight] /\ handler'[h].at = "moved" /\ handler'[h].doc = x
        /\ handler'[h].op = handler[h].op /\ handler'[h].read = r /\ handler'[h].to = handler[h].to
        /\ \A g \in Handler \ {h} : handler'[g] = handler[g]
    BY <2>1, <2>2 DEF KnowledgeInv, KnowledgeShape, InFlight
  <2>4. /\ \A d \in Document \ {x} : root'[d] = root[d] /\ trash'[d] = trash[d]
        /\ root' \in [Document -> SUBSET Places] /\ trash' \in [Document -> SUBSET Places]
    BY <1>2, <2>1 DEF UploadMoves, DeleteMoves, RestoreMoves, PurgeMoves, CategoriseMoves, ToTrash,
                      FromTrash, ToCategory, KnowledgeInv, KnowledgeShape, InFlight
  <2>5. ASSUME x \notin overlapped
        PROVE  Begun(h, x)'
    <3>1. Begun(h, x)
      BY <2>1, <2>2, <2>5, AloneOnText
    <3>2. NoTwin(x)' <=> NoTwin(x)
      BY <2>2 DEF NoTwin, Twin, HasState
    <3>3. CASE UploadMoves(h)
      BY <2>1, <2>2, <2>3, <3>1, <3>2, <3>3 DEF UploadMoves, Moves, Begun, Placed, KnowledgeInv, KnowledgeShape
    <3>4. CASE DeleteMoves(h)
      BY <2>1, <2>2, <2>3, <3>1, <3>2, <3>4 DEF DeleteMoves, Moves, ToTrash, Begun, Placed, KnowledgeInv, KnowledgeShape
    <3>5. CASE RestoreMoves(h)
      BY <2>1, <2>2, <2>3, <3>1, <3>2, <3>5 DEF RestoreMoves, Moves, FromTrash, Begun, Placed, KnowledgeInv, KnowledgeShape
    <3>6. CASE PurgeMoves(h)
      BY <2>1, <2>2, <2>3, <3>1, <3>2, <3>6 DEF PurgeMoves, Moves, Begun, Placed
    <3>7. CASE CategoriseMoves(h)
      BY <2>1, <2>2, <2>3, <3>1, <3>2, <3>7 DEF CategoriseMoves, Moves, ToCategory, Begun, Placed, KnowledgeInv, KnowledgeShape
    <3>8. QED
      BY <1>2, <3>3, <3>4, <3>5, <3>6, <3>7
  <2>6. doc' \in [Document -> Record] /\ x # NoOne
    BY <2>2, KnowledgeAssumption DEF KnowledgeInv, KnowledgeShape
  <2>7. QED
    BY <2>1, <2>2, <2>3, <2>4, <2>5, <2>6, KnowledgeGoesOn
<1>3. ASSUME NEW h \in Handler, \/ EndsEarly(h) \/ Commits(h) \/ UploadFails(h)
                               \/ CommitFails(h) \/ CommitLost(h) \/ CutOff(h)
      PROVE  KnowledgeInv'
  <2> DEFINE r == handler[h].read
  <2>1. PICK x \in Document : x = handler[h].doc
    BY <1>3 DEF EndsEarly, Commits, UploadFails, CommitFails, CommitLost, CutOff, KnowledgeInv, KnowledgeShape
  <2>2. /\ Answers(h) /\ handler[h].at # "idle" /\ overlapped' = overlapped
        /\ cut \subseteq cut' /\ cut' \subseteq cut \cup {x}
    BY <1>3, <2>1 DEF EndsEarly, Commits, UploadFails, CommitFails, CommitLost, CutOff
  <2>3. /\ handler' \in [Handler -> InFlight] /\ handler'[h].at = "idle" /\ handler'[h].doc = NoOne
        /\ \A g \in Handler \ {h} : handler'[g] = handler[g]
    BY <2>2, Answering DEF KnowledgeInv
  <2>4. handler[h] \in InFlight /\ doc[x] \in Record /\ r \in Record
    BY <2>1 DEF KnowledgeInv, KnowledgeShape, InFlight
  <2>a. handler[h].op \in {"upload", "delete", "restore", "purge", "categorise"}
    BY <2>1, <2>2, <2>4 DEF KnowledgeInv, KnowledgeShape, InFlight
  <2>b. r.category \in Places /\ r.path \in Places /\ handler[h].to \in Places
    BY <2>4 DEF Record, Places, InFlight
  <2>w. RowAfter(h) \in Record
    <3> DEFINE op == handler[h].op
    <3>1. \A s \in States : [doc[x] EXCEPT !.state = s] \in Record
      BY <2>4 DEF Record
    <3>2. Categorised(x, r, handler[h].to) \in Record
      BY <2>4, <2>b DEF Categorised, Record, Places
    <3>3. CASE op = "upload"
      <4>1. RowAfter(h) = [state |-> "live", category |-> handler[h].to, path |-> handler[h].to, suggested |-> NoOne]
        BY <3>3 DEF RowAfter
      <4>2. QED
        BY <2>b, <4>1 DEF Record, States, Places
    <3>4. CASE op \in {"delete", "restore", "purge"}
      <4>1. \E s \in States : RowAfter(h) = [doc[x] EXCEPT !.state = s]
        BY <2>1, <3>4 DEF RowAfter, States
      <4>2. QED
        BY <3>1, <4>1
    <3>5. CASE op = "categorise"
      <4>1. RowAfter(h) = Categorised(x, r, handler[h].to)
        BY <2>1, <3>5 DEF RowAfter
      <4>2. QED
        BY <3>2, <4>1
    <3>6. QED
      BY <2>a, <3>3, <3>4, <3>5
  <2>m. ASSUME MovesBack(h)
        PROVE  /\ \A d \in Document \ {x} : root'[d] = root[d] /\ trash'[d] = trash[d]
               /\ root' \in [Document -> SUBSET Places] /\ trash' \in [Document -> SUBSET Places]
    BY <2>1, <2>b, <2>m DEF MovesBack, FromTrash, ToTrash, ToCategory, KnowledgeInv, KnowledgeShape
  <2>5. /\ \A d \in Document \ {x} : doc'[d] = doc[d] /\ root'[d] = root[d] /\ trash'[d] = trash[d]
        /\ root' \in [Document -> SUBSET Places] /\ trash' \in [Document -> SUBSET Places]
        /\ doc' \in [Document -> Record]
    <3>1. CASE EndsEarly(h) \/ CutOff(h)
      BY <3>1 DEF EndsEarly, CutOff, KnowledgeInv, KnowledgeShape
    <3>2. CASE Commits(h)
      <4>1. /\ root' = root /\ doc' = [doc EXCEPT ![x] = RowAfter(h)]
            /\ trash' = trash \/ trash' = [trash EXCEPT ![x] = @ \ {r.path}]
        BY <2>1, <3>2 DEF Commits
      <4>2. QED
        BY <2>w, <4>1 DEF KnowledgeInv, KnowledgeShape
    <3>3. CASE UploadFails(h)
      BY <2>1, <3>3 DEF UploadFails, KnowledgeInv, KnowledgeShape
    <3>4. CASE CommitFails(h)
      BY <2>m, <3>4 DEF CommitFails, KnowledgeInv, KnowledgeShape
    <3>5. CASE CommitLost(h)
      BY <2>1, <2>m, <2>w, <3>5 DEF CommitLost, KnowledgeInv, KnowledgeShape
    <3>6. QED
      BY <1>3, <3>1, <3>2, <3>3, <3>4, <3>5
  <2>6. ASSUME x \notin overlapped
        PROVE  Agrees(x)' /\ (doc'[x].state = "live" => doc[x].state = "live" \/ NoTwin(x))
    <3>1. Begun(h, x)
      BY <2>1, <2>2, <2>6, AloneOnText
    <3>2. NoTwin(x) => NoTwin(x)'
      BY <2>5 DEF NoTwin, Twin, HasState
    <3>3. CASE EndsEarly(h)
      <4>1. Agrees(x) /\ UNCHANGED <<doc, root, trash, cut>>
        BY <2>1, <2>a, <3>1, <3>3, BegunAgrees DEF EndsEarly
      <4>2. QED
        BY <4>1, <3>2 DEF Agrees, HasState, Placed
    <3>w. ASSUME doc' = [doc EXCEPT ![x] = RowAfter(h)]
          PROVE  /\ handler[h].op = "upload" => /\ doc'[x].state = "live" /\ doc'[x].path = handler[h].to
                                                /\ doc'[x].category = handler[h].to
                 /\ handler[h].op \in {"delete", "restore", "purge"} =>
                       /\ doc'[x].path = doc[x].path /\ doc'[x].category = doc[x].category
                       /\ doc'[x].state = CASE handler[h].op = "delete" -> "deleted"
                                            [] handler[h].op = "restore" -> "live"
                                            [] handler[h].op = "purge" -> "purged"
                 /\ handler[h].op = "categorise" => /\ doc'[x].path = handler[h].to /\ doc'[x].category = handler[h].to
                                                    /\ doc'[x].state = doc[x].state
      <4>1. doc'[x] = RowAfter(h)
        BY <3>w DEF KnowledgeInv, KnowledgeShape
      <4>2. QED
        BY <2>1, <2>4, <4>1 DEF RowAfter, Categorised, Record
    <3>4. CASE Commits(h)
      <4>1. /\ handler[h].at = "moved" /\ root' = root /\ doc' = [doc EXCEPT ![x] = RowAfter(h)]
            /\ trash' = IF handler[h].op = "purge" THEN [trash EXCEPT ![x] = @ \ {r.path}] ELSE trash
            /\ cut' = cut
        BY <2>1, <3>4 DEF Commits
      <4>2. CASE handler[h].op = "upload"
        BY <3>1, <3>2, <3>w, <4>1, <4>2 DEF Begun, Agrees, HasState, Placed
      <4>3. CASE handler[h].op \in {"delete", "restore", "purge"}
        <5>1. trash'[x] = IF handler[h].op = "purge" THEN trash[x] \ {r.path} ELSE trash[x]
          BY <4>1 DEF KnowledgeInv, KnowledgeShape
        <5>2. QED
          BY <3>1, <3>2, <3>w, <4>1, <4>3, <5>1 DEF Begun, Agrees, HasState, Placed
      <4>4. CASE handler[h].op = "categorise"
        BY <3>1, <3>2, <3>w, <4>1, <4>4 DEF Begun, Agrees, HasState, Placed
      <4>5. QED
        BY <2>a, <4>2, <4>3, <4>4
    <3>5. CASE UploadFails(h)
      BY <2>1, <3>1, <3>2, <3>5 DEF UploadFails, Begun, Agrees, HasState, Placed, KnowledgeInv, KnowledgeShape
    <3>6. CASE CommitFails(h)
      <4>1. handler[h].at = "moved" /\ doc' = doc /\ cut' = cut
        BY <3>6 DEF CommitFails
      <4>2. CASE handler[h].op \in {"upload", "purge"}
        <5>1. UNCHANGED <<root, trash>>
          BY <3>6, <4>2 DEF CommitFails, MovesBack
        <5>2. QED
          BY <3>1, <3>2, <4>1, <4>2, <5>1 DEF Begun, Agrees, HasState, Placed
      <4>3. CASE handler[h].op = "delete"
        <5>1. x \in cut \/ (root'[x] = {r.path} /\ trash'[x] = {})
          BY <2>1, <3>1, <3>6, <4>1, <4>3 DEF CommitFails, MovesBack, FromTrash, Begun, Placed, KnowledgeInv, KnowledgeShape
        <5>2. QED
          BY <3>1, <3>2, <4>1, <4>3, <5>1 DEF Begun, Agrees, HasState, Placed
      <4>4. CASE handler[h].op = "restore"
        <5>1. x \in cut \/ (root'[x] = {} /\ trash'[x] = {r.path})
          BY <2>1, <3>1, <3>6, <4>1, <4>4 DEF CommitFails, MovesBack, ToTrash, Begun, Placed, KnowledgeInv, KnowledgeShape
        <5>2. QED
          BY <3>1, <3>2, <4>1, <4>4, <5>1 DEF Begun, Agrees, HasState, Placed
      <4>5. CASE handler[h].op = "categorise"
        <5>1. x \in cut \/ (root'[x] = {r.category} /\ trash'[x] = {})
          BY <2>1, <3>1, <3>6, <4>1, <4>5 DEF CommitFails, MovesBack, ToCategory, Begun, Placed, KnowledgeInv, KnowledgeShape
        <5>2. QED
          BY <3>1, <3>2, <4>1, <4>5, <5>1 DEF Begun, Agrees, HasState, Placed
      <4>6. QED
        BY <2>a, <4>2, <4>3, <4>4, <4>5
    <3>7. CASE CommitLost(h)
      <4>1. x \in cut' /\ doc' = [doc EXCEPT ![x] = RowAfter(h)] /\ handler[h].at = "moved"
        BY <2>1, <3>7 DEF CommitLost
      <4>2. QED
        BY <2>a, <3>1, <3>2, <3>w, <4>1 DEF Begun, Agrees, HasState, Placed
    <3>8. CASE CutOff(h)
      <4>1. x \in cut' /\ doc' = doc /\ handler[h].at = "moved"
        BY <2>1, <3>8 DEF CutOff
      <4>2. QED
        BY <2>a, <3>1, <3>2, <4>1 DEF Begun, Agrees, HasState, Placed
    <3>9. QED
      BY <1>3, <3>3, <3>4, <3>5, <3>6, <3>7, <3>8
  <2>7. QED
    BY <2>1, <2>2, <2>3, <2>5, <2>6, KnowledgeGoesOn
<1>4. ASSUME NEW d \in Document, NEW c \in Category, SuggestStarts(d) \/ SuggestNothing(d) \/ SuggestSaves(d, c)
      PROVE  KnowledgeInv'
  <2>1. UNCHANGED <<root, trash, handler, overlapped, cut>>
    BY <1>4 DEF SuggestStarts, SuggestNothing, SuggestSaves
  <2>2. doc' = doc \/ doc' = [doc EXCEPT ![d].suggested = c]
    BY <1>4 DEF SuggestStarts, SuggestNothing, SuggestSaves
  <2>3. doc \in [Document -> Record] /\ [doc[d] EXCEPT !.suggested = c] \in Record
    BY DEF KnowledgeInv, KnowledgeShape, Record
  <2>4. doc' \in [Document -> Record]
    BY <2>2, <2>3
  <2>5. \A e \in Document : /\ doc'[e].state = doc[e].state /\ doc'[e].path = doc[e].path
                            /\ doc'[e].category = doc[e].category
    BY <2>2, <2>3 DEF Record
  <2>6. QED
    BY <2>1, <2>4, <2>5, SuggestionsKeep
<1>5. CASE UNCHANGED knowledgeVars
  <2>1. UNCHANGED <<doc, root, trash, handler, overlapped, cut>>
    BY <1>5 DEF knowledgeVars
  <2>2. QED
    BY <2>1, SuggestionsKeep DEF KnowledgeInv, KnowledgeShape
<1>6. CASE KnowledgeNext
  BY <1>6, <1>1, <1>2, <1>3, <1>4, KnowledgeAssumption DEF KnowledgeNext
<1>7. QED
  BY <1>5, <1>6

\* Files lie under categories: a document with a row has a place in one, and a
\* request has read or been given the places it moves files between.
PlacesAreCategories ==
    /\ root \in [Document -> SUBSET Category] /\ trash \in [Document -> SUBSET Category]
    /\ \A d \in Document : doc[d].state # "absent" => doc[d].path \in Category /\ doc[d].category \in Category
    /\ \A h \in Handler : handler[h].at # "idle" =>
          /\ handler[h].op \in {"upload", "categorise"} => handler[h].to \in Category
          /\ handler[h].op # "upload" => /\ doc[handler[h].doc].state # "absent"
                                         /\ handler[h].read.path \in Category
                                         /\ handler[h].read.category \in Category
KnowledgeCounts == advice \in [Document -> Category \cup {NoOne}] /\ failures \in 0 .. MaxFailures
KnowledgeTypes == PlacesAreCategories /\ KnowledgeCounts

LEMMA KnowledgeTypesFollow == KnowledgeInv /\ KnowledgeTypes => KnowledgeTypeOK
BY DEF KnowledgeInv, KnowledgeShape, KnowledgeTypes, PlacesAreCategories, KnowledgeCounts, KnowledgeTypeOK, InFlight, Places

\* A request that has moved or answered keeps what it knows.
LEMMA PlacesStay ==
    ASSUME KnowledgeShape, PlacesAreCategories, NEW h \in Handler, handler[h].at # "idle",
           root' \in [Document -> SUBSET Category], trash' \in [Document -> SUBSET Category],
           doc' = doc, handler'[h].at = "idle" \/ handler' = [handler EXCEPT ![h].at = "moved"],
           \A g \in Handler \ {h} : handler'[g] = handler[g]
    PROVE  PlacesAreCategories'
<1>1. ASSUME NEW g \in Handler, handler'[g].at # "idle"
      PROVE  /\ handler'[g].op \in {"upload", "categorise"} => handler'[g].to \in Category
             /\ handler'[g].op # "upload" => /\ doc'[handler'[g].doc].state # "absent"
                                             /\ handler'[g].read.path \in Category
                                             /\ handler'[g].read.category \in Category
  <2>1. /\ handler[g].at # "idle"
        /\ handler'[g].op = handler[g].op /\ handler'[g].to = handler[g].to
        /\ handler'[g].doc = handler[g].doc /\ handler'[g].read = handler[g].read
    BY <1>1 DEF KnowledgeShape, InFlight
  <2>2. QED
    BY <2>1 DEF PlacesAreCategories
<1>2. QED
  BY <1>1 DEF PlacesAreCategories

LEMMA PlacesStep == KnowledgeInv /\ PlacesAreCategories /\ [KnowledgeNext]_knowledgeVars => PlacesAreCategories'
<1> SUFFICES ASSUME KnowledgeInv, PlacesAreCategories, [KnowledgeNext]_knowledgeVars
             PROVE  PlacesAreCategories'
  OBVIOUS
<1>s. KnowledgeShape
  BY DEF KnowledgeInv
<1>1. ASSUME NEW h \in Handler, NEW d \in Document, NEW c \in Category,
             \/ UploadStarts(h, d, c) \/ CategoriseStarts(h, d, c)
             \/ DeleteStarts(h, d) \/ RestoreStarts(h, d) \/ PurgeStarts(h, d)
      PROVE  PlacesAreCategories'
  <2>1. PICK op \in {"upload", "delete", "restore", "purge", "categorise"}, to \in Places :
          /\ handler' = [handler EXCEPT ![h] = [at |-> "read", op |-> op, doc |-> d, read |-> doc[d], to |-> to]]
          /\ op \in {"upload", "categorise"} => to \in Category
          /\ op # "upload" => doc[d].state # "absent"
    <3>1. c \in Places /\ NoOne \in Places
      BY DEF Places
    <3>2. CASE UploadStarts(h, d, c)
      BY <3>1, <3>2 DEF UploadStarts, Starts
    <3>3. CASE CategoriseStarts(h, d, c)
      BY <3>1, <3>3 DEF CategoriseStarts, Starts, HasState
    <3>4. CASE DeleteStarts(h, d)
      BY <3>1, <3>4 DEF DeleteStarts, Starts, HasState
    <3>5. CASE RestoreStarts(h, d)
      BY <3>1, <3>5 DEF RestoreStarts, Starts, HasState
    <3>6. CASE PurgeStarts(h, d)
      BY <3>1, <3>6 DEF PurgeStarts, Starts, HasState
    <3>7. QED
      BY <1>1, <3>2, <3>3, <3>4, <3>5, <3>6
  <2>2. UNCHANGED <<doc, root, trash>>
    BY <1>1 DEF UploadStarts, CategoriseStarts, DeleteStarts, RestoreStarts, PurgeStarts, Starts
  <2>3. ASSUME NEW g \in Handler, handler'[g].at # "idle"
        PROVE  /\ handler'[g].op \in {"upload", "categorise"} => handler'[g].to \in Category
               /\ handler'[g].op # "upload" => /\ doc'[handler'[g].doc].state # "absent"
                                               /\ handler'[g].read.path \in Category
                                               /\ handler'[g].read.category \in Category
    <3>1. CASE g # h
      <4>1. handler'[g] = handler[g]
        BY <1>s, <2>1, <3>1 DEF KnowledgeShape
      <4>2. QED
        BY <2>2, <2>3, <4>1 DEF PlacesAreCategories
    <3>2. CASE g = h
      <4>1. /\ handler'[g].op = op /\ handler'[g].to = to /\ handler'[g].doc = d
            /\ handler'[g].read = doc[d]
        BY <1>s, <2>1, <3>2 DEF KnowledgeShape
      <4>2. QED
        BY <2>1, <2>2, <4>1 DEF PlacesAreCategories
    <3>3. QED
      BY <3>1, <3>2
  <2>4. QED
    BY <2>2, <2>3 DEF PlacesAreCategories
<1>2. ASSUME NEW h \in Handler, \/ UploadMoves(h) \/ DeleteMoves(h) \/ RestoreMoves(h) \/ PurgeMoves(h)
                               \/ CategoriseMoves(h) \/ EndsEarly(h) \/ UploadFails(h) \/ CommitFails(h)
                               \/ CutOff(h)
      PROVE  PlacesAreCategories'
  <2>1. handler[h].at # "idle" /\ doc' = doc
    BY <1>2 DEF UploadMoves, DeleteMoves, RestoreMoves, PurgeMoves, CategoriseMoves, Moves, EndsEarly,
                UploadFails, CommitFails, CutOff
  <2>2. PICK x \in Document : x = handler[h].doc
    BY <1>s, <2>1 DEF KnowledgeShape
  <2>3. /\ handler[h].op \in {"upload", "categorise"} => handler[h].to \in Category
        /\ handler[h].op # "upload" => handler[h].read.path \in Category /\ handler[h].read.category \in Category
        /\ root \in [Document -> SUBSET Category] /\ trash \in [Document -> SUBSET Category]
    BY <2>1 DEF PlacesAreCategories
  <2>4. handler'[h].at = "idle" \/ handler' = [handler EXCEPT ![h].at = "moved"]
    BY <1>2, <1>s, Answering DEF UploadMoves, DeleteMoves, RestoreMoves, PurgeMoves, CategoriseMoves, Moves, EndsEarly,
                UploadFails, CommitFails, CutOff
  <2>5. \A g \in Handler \ {h} : handler'[g] = handler[g]
    BY <1>2, <1>s, Answering DEF UploadMoves, DeleteMoves, RestoreMoves, PurgeMoves, CategoriseMoves, Moves, EndsEarly,
                UploadFails, CommitFails, CutOff, KnowledgeShape
  <2>6. root' \in [Document -> SUBSET Category] /\ trash' \in [Document -> SUBSET Category]
    <3>1. CASE UploadMoves(h) \/ DeleteMoves(h) \/ RestoreMoves(h) \/ PurgeMoves(h) \/ CategoriseMoves(h)
      BY <2>2, <2>3, <3>1 DEF UploadMoves, DeleteMoves, RestoreMoves, PurgeMoves, CategoriseMoves, Moves, ToTrash,
                              FromTrash, ToCategory
    <3>2. CASE EndsEarly(h) \/ UploadFails(h) \/ CutOff(h)
      BY <2>2, <2>3, <3>2 DEF EndsEarly, UploadFails, CutOff
    <3>3. CASE CommitFails(h)
      BY <2>2, <2>3, <3>3 DEF CommitFails, MovesBack, ToTrash, FromTrash, ToCategory
    <3>4. QED
      BY <1>2, <3>1, <3>2, <3>3
  <2>7. QED
    BY <1>s, <2>1, <2>4, <2>5, <2>6, PlacesStay
<1>3. ASSUME NEW h \in Handler, Commits(h) \/ CommitLost(h)
      PROVE  PlacesAreCategories'
  <2>1. PICK x \in Document : x = handler[h].doc
    BY <1>3, <1>s DEF Commits, CommitLost, KnowledgeShape
  <2>2. handler[h].op \in {"upload", "delete", "restore", "purge", "categorise"}
    BY <1>3, <1>s DEF Commits, CommitLost, KnowledgeShape, InFlight
  <2>3. PICK new : doc' = [doc EXCEPT ![x] = new] /\ new.path \in Category /\ new.category \in Category /\ new.state # "absent"
    <3>1. doc[x] \in Record
      BY <1>s DEF KnowledgeShape
    <3>2. handler[h].op # "upload" => doc[x].state # "absent" /\ doc[x].path \in Category /\ doc[x].category \in Category
      BY <1>3, <2>1 DEF Commits, CommitLost, PlacesAreCategories
    <3>3. handler[h].op \in {"upload", "categorise"} => handler[h].to \in Category
      BY <1>3 DEF Commits, CommitLost, PlacesAreCategories
    <3>4. CASE handler[h].op = "upload"
      <4> DEFINE new == [state |-> "live", category |-> handler[h].to, path |-> handler[h].to, suggested |-> NoOne]
      <4>1. doc' = [doc EXCEPT ![x] = new]
        BY <1>3, <2>1, <3>4 DEF Commits, CommitLost, RowAfter
      <4>2. new.path \in Category /\ new.category \in Category /\ new.state # "absent"
        BY <3>3, <3>4
      <4> HIDE DEF new
      <4>3. QED
        BY <4>1, <4>2
    <3>5. CASE handler[h].op \in {"delete", "restore", "purge"}
      <4>1. \A s \in States : /\ [doc[x] EXCEPT !.state = s].path = doc[x].path
                              /\ [doc[x] EXCEPT !.state = s].category = doc[x].category
                              /\ [doc[x] EXCEPT !.state = s].state = s
        BY <3>1 DEF Record
      <4>2. \E s \in States : s # "absent" /\ doc' = [doc EXCEPT ![x] = [doc[x] EXCEPT !.state = s]]
        BY <1>3, <2>1, <3>5 DEF Commits, CommitLost, RowAfter, States
      <4>3. QED
        BY <3>2, <3>5, <4>1, <4>2
    <3>6. CASE handler[h].op = "categorise"
      <4>1. doc' = [doc EXCEPT ![x] = Categorised(x, handler[h].read, handler[h].to)]
        BY <1>3, <2>1, <3>6 DEF Commits, CommitLost, RowAfter
      <4>2. /\ Categorised(x, handler[h].read, handler[h].to).path = handler[h].to
            /\ Categorised(x, handler[h].read, handler[h].to).category = handler[h].to
            /\ Categorised(x, handler[h].read, handler[h].to).state = doc[x].state
        BY <3>1 DEF Categorised, Record
      <4>3. QED
        BY <3>2, <3>3, <3>6, <4>1, <4>2 DEF HasState
    <3>7. QED
      BY <2>2, <3>4, <3>5, <3>6
  <2>4. root' \in [Document -> SUBSET Category] /\ trash' \in [Document -> SUBSET Category]
    <3>1. /\ handler[h].op \in {"upload", "categorise"} => handler[h].to \in Category
          /\ handler[h].op # "upload" => handler[h].read.path \in Category /\ handler[h].read.category \in Category
      BY <1>3 DEF Commits, CommitLost, PlacesAreCategories
    <3>2. CASE Commits(h)
      BY <2>1, <3>2 DEF Commits, PlacesAreCategories
    <3>3. CASE CommitLost(h)
      BY <2>1, <3>1, <3>3 DEF CommitLost, MovesBack, ToTrash, FromTrash, ToCategory, PlacesAreCategories
    <3>4. QED
      BY <1>3, <3>2, <3>3
  <2>5. handler'[h].at = "idle" /\ \A g \in Handler \ {h} : handler'[g] = handler[g]
    BY <1>3, <1>s, Answering DEF Commits, CommitLost
  <2>6. ASSUME NEW d \in Document
        PROVE  /\ doc'[d].state = "absent" => doc[d].state = "absent"
               /\ doc'[d].state # "absent" => doc'[d].path \in Category /\ doc'[d].category \in Category
    BY <1>s, <2>3 DEF KnowledgeShape, PlacesAreCategories, HasState
  <2>7. ASSUME NEW g \in Handler, handler'[g].at # "idle"
        PROVE  /\ handler'[g].op \in {"upload", "categorise"} => handler'[g].to \in Category
               /\ handler'[g].op # "upload" => /\ doc'[handler'[g].doc].state # "absent"
                                               /\ handler'[g].read.path \in Category
                                               /\ handler'[g].read.category \in Category
    <3>1. PICK e \in Document : e = handler[g].doc /\ handler'[g] = handler[g]
      BY <1>s, <2>5, <2>7 DEF KnowledgeShape
    <3>2. QED
      BY <2>6, <2>7, <3>1 DEF PlacesAreCategories
  <2>8. QED
    BY <2>4, <2>6, <2>7 DEF PlacesAreCategories
<1>4. ASSUME NEW d \in Document, NEW c \in Category, SuggestStarts(d) \/ SuggestNothing(d) \/ SuggestSaves(d, c)
      PROVE  PlacesAreCategories'
  <2>1. UNCHANGED <<root, trash, handler>>
    BY <1>4 DEF SuggestStarts, SuggestNothing, SuggestSaves
  <2>2. doc' = doc \/ doc' = [doc EXCEPT ![d].suggested = c]
    BY <1>4 DEF SuggestStarts, SuggestNothing, SuggestSaves
  <2>3. \A e \in Document : /\ doc'[e].state = doc[e].state /\ doc'[e].path = doc[e].path
                            /\ doc'[e].category = doc[e].category
    BY <1>s, <2>2 DEF KnowledgeShape, Record
  <2>4. \A g \in Handler : handler[g].at # "idle" => handler[g].doc \in Document
    BY <1>s DEF KnowledgeShape
  <2>5. QED
    BY <2>1, <2>3, <2>4 DEF PlacesAreCategories
<1>5. CASE UNCHANGED knowledgeVars
  BY <1>5 DEF knowledgeVars, PlacesAreCategories
<1>6. CASE KnowledgeNext
  BY <1>6, <1>1, <1>2, <1>3, <1>4, KnowledgeAssumption DEF KnowledgeNext
<1>7. QED
  BY <1>5, <1>6

LEMMA KnowledgeCountsStep == KnowledgeInv /\ KnowledgeCounts /\ [KnowledgeNext]_knowledgeVars => KnowledgeCounts'
<1> SUFFICES ASSUME KnowledgeInv, KnowledgeCounts, [KnowledgeNext]_knowledgeVars
             PROVE  KnowledgeCounts'
  OBVIOUS
<1>1. \A d \in Document : doc[d].category \in Category \cup {NoOne}
  BY DEF KnowledgeInv, KnowledgeShape, Record
<1>2. CASE UNCHANGED <<advice, failures>>
  BY <1>2 DEF KnowledgeCounts
<1>3. CASE ~UNCHANGED <<advice, failures>>
  <2>1. \/ \E h \in Handler : UploadFails(h) \/ CommitFails(h) \/ CommitLost(h) \/ CutOff(h)
        \/ \E d \in Document : SuggestStarts(d) \/ SuggestNothing(d)
        \/ \E d \in Document, c \in Category : SuggestSaves(d, c)
    BY <1>3 DEF KnowledgeNext, knowledgeVars, UploadStarts, CategoriseStarts, DeleteStarts, RestoreStarts, PurgeStarts,
                Starts, UploadMoves, DeleteMoves, RestoreMoves, PurgeMoves, CategoriseMoves, Moves, EndsEarly, Commits
  <2>2. ASSUME NEW h \in Handler, UploadFails(h) \/ CommitFails(h) \/ CommitLost(h) \/ CutOff(h)
        PROVE  KnowledgeCounts'
    <3>1. failures < MaxFailures /\ failures' = failures + 1 /\ advice' = advice
      BY <2>2 DEF UploadFails, CommitFails, CommitLost, CutOff, Fails
    <3>2. QED
      BY <3>1, KnowledgeAssumption DEF KnowledgeCounts
  <2>3. ASSUME NEW d \in Document, SuggestStarts(d) \/ SuggestNothing(d) \/ \E c \in Category : SuggestSaves(d, c)
        PROVE  KnowledgeCounts'
    BY <1>1, <2>3 DEF SuggestStarts, SuggestNothing, SuggestSaves, KnowledgeCounts
  <2>4. QED
    BY <2>1, <2>2, <2>3
<1>4. QED
  BY <1>2, <1>3

\* The one file of a document.  Requests write one row one after the other, under
\* its lock; what moves a file moves the only one; and nobody knows of a document
\* before its upload has committed.
HasOneFile(d) ==
    /\ doc[d].state \in {"live", "deleted"} => InOnePlace(d)
    /\ doc[d].state = "absent" => trash[d] = {}
WritesRowAlone(h) ==
    handler[h].at = "moved" =>
        /\ \A g \in Handler \ {h} : handler[g].at = "moved" => handler[g].doc # handler[h].doc
        /\ handler[h].op \in {"delete", "restore", "categorise"} => doc[handler[h].doc].state \in {"live", "deleted"}
UploadsAlone(h) ==
    handler[h].at # "idle" /\ handler[h].op = "upload" =>
        /\ doc[handler[h].doc].state = "absent"
        /\ root[handler[h].doc] = IF handler[h].at = "moved" THEN {handler[h].to} ELSE {}
        /\ \A g \in Handler \ {h} : handler[g].doc # handler[h].doc
OneFile ==
    /\ \A d \in Document : HasOneFile(d)
    /\ \A h \in Handler : WritesRowAlone(h) /\ UploadsAlone(h)

\* Moving its file keeps a document with one file at one.
LEMMA MovingKeepsOne ==
    ASSUME NEW d \in Document, InOnePlace(d), NEW p \in Category, NEW c \in Category,
           root \in [Document -> SUBSET Category], trash \in [Document -> SUBSET Category],
           \/ ToTrash(d, p) \/ FromTrash(d, p) \/ ToCategory(d, p, c) \/ UNCHANGED <<root, trash>>
    PROVE  InOnePlace(d)'
<1>1. CASE ToTrash(d, p)
  BY <1>1 DEF ToTrash, InOnePlace
<1>2. CASE FromTrash(d, p)
  BY <1>2 DEF FromTrash, InOnePlace
<1>3. CASE ToCategory(d, p, c)
  BY <1>3 DEF ToCategory, InOnePlace
<1>4. CASE UNCHANGED <<root, trash>>
  BY <1>4 DEF InOnePlace
<1>5. QED
  BY <1>1, <1>2, <1>3, <1>4

LEMMA OneFileStep ==
    KnowledgeInv /\ PlacesAreCategories /\ OneFile /\ [KnowledgeNext]_knowledgeVars => OneFile'
<1> SUFFICES ASSUME KnowledgeInv, PlacesAreCategories, OneFile, [KnowledgeNext]_knowledgeVars
             PROVE  OneFile'
  OBVIOUS
<1>s. KnowledgeShape /\ root \in [Document -> SUBSET Category] /\ trash \in [Document -> SUBSET Category]
  BY DEF KnowledgeInv, PlacesAreCategories
<1>1. ASSUME NEW h \in Handler, NEW d \in Document, NEW c \in Category,
             \/ UploadStarts(h, d, c) \/ CategoriseStarts(h, d, c)
             \/ DeleteStarts(h, d) \/ RestoreStarts(h, d) \/ PurgeStarts(h, d)
      PROVE  OneFile'
  <2>1. PICK op \in {"upload", "delete", "restore", "purge", "categorise"}, to \in Places :
          /\ handler' = [handler EXCEPT ![h] = [at |-> "read", op |-> op, doc |-> d, read |-> doc[d], to |-> to]]
          /\ op = "upload" => doc[d].state = "absent" /\ root[d] = {} /\ \A g \in Handler : handler[g].doc # d
          /\ op # "upload" => doc[d].state # "absent"
    <3>1. c \in Places /\ NoOne \in Places
      BY DEF Places
    <3>2. CASE UploadStarts(h, d, c)
      BY <3>1, <3>2 DEF UploadStarts, Starts, HasState
    <3>3. CASE ~UploadStarts(h, d, c)
      BY <1>1, <3>1, <3>3 DEF CategoriseStarts, DeleteStarts, RestoreStarts, PurgeStarts, Starts, HasState
    <3>4. QED
      BY <3>2, <3>3
  <2>2. UNCHANGED <<doc, root, trash>>
    BY <1>1 DEF UploadStarts, CategoriseStarts, DeleteStarts, RestoreStarts, PurgeStarts, Starts
  <2>3. /\ handler'[h].at = "read" /\ handler'[h].op = op /\ handler'[h].doc = d
        /\ \A g \in Handler \ {h} : handler'[g] = handler[g]
    BY <1>s, <2>1 DEF KnowledgeShape
  <2>4. ASSUME NEW g \in Handler
        PROVE  WritesRowAlone(g)'
    <3>1. handler'[g].at = "moved" => g # h
      BY <2>3
    <3>2. \A f \in Handler : handler'[f].at = "moved" => handler'[f] = handler[f]
      BY <2>3
    <3>3. QED
      BY <2>2, <2>3, <3>1, <3>2 DEF OneFile, WritesRowAlone
  <2>5. ASSUME NEW g \in Handler
        PROVE  UploadsAlone(g)'
    <3>1. CASE g = h
      BY <2>1, <2>2, <2>3, <3>1 DEF UploadsAlone
    <3>2. CASE g # h
      <4>1. handler'[g] = handler[g] /\ \A f \in Handler \ {g, h} : handler'[f] = handler[f]
        BY <2>3, <3>2
      <4>2. handler[g].at # "idle" /\ handler[g].op = "upload" => handler[g].doc # d
        <5>1. op = "upload" => handler[g].doc # d
          BY <2>1
        <5>2. handler[g].at # "idle" /\ handler[g].op = "upload" => doc[handler[g].doc].state = "absent"
          BY DEF OneFile, UploadsAlone
        <5>3. QED
          BY <2>1, <5>1, <5>2
      <4>3. QED
        BY <2>2, <2>3, <4>1, <4>2 DEF OneFile, UploadsAlone
    <3>3. QED
      BY <3>1, <3>2
  <2>6. QED
    BY <2>2, <2>4, <2>5 DEF OneFile, HasOneFile, InOnePlace
<1>2. ASSUME NEW h \in Handler, \/ UploadMoves(h) \/ DeleteMoves(h) \/ RestoreMoves(h) \/ PurgeMoves(h)
                               \/ CategoriseMoves(h)
      PROVE  OneFile'
  <2>1. PICK x \in Document : x = handler[h].doc
    BY <1>2, <1>s DEF UploadMoves, DeleteMoves, RestoreMoves, PurgeMoves, CategoriseMoves, Moves, KnowledgeShape
  <2>2. /\ handler[h].at = "read" /\ handler' = [handler EXCEPT ![h].at = "moved"] /\ doc' = doc
        /\ ~Locked(x)
    BY <1>2, <2>1 DEF UploadMoves, DeleteMoves, RestoreMoves, PurgeMoves, CategoriseMoves, Moves
  <2>3. /\ handler'[h].at = "moved" /\ handler'[h].doc = x
        /\ handler'[h].op = handler[h].op /\ handler'[h].to = handler[h].to
        /\ \A g \in Handler \ {h} : handler'[g] = handler[g]
    BY <1>s, <2>1, <2>2 DEF KnowledgeShape, InFlight
  <2>4. /\ handler[h].op \in {"upload", "categorise"} => handler[h].to \in Category
        /\ handler[h].op # "upload" => handler[h].read.path \in Category /\ doc[x].state # "absent"
    BY <2>1, <2>2 DEF PlacesAreCategories
  <2>5. /\ \A d \in Document \ {x} : root'[d] = root[d] /\ trash'[d] = trash[d]
        /\ doc[x].state \in {"live", "deleted"} => InOnePlace(x)'
        /\ handler[h].op = "upload" => root'[x] = {handler[h].to} /\ trash'[x] = trash[x]
    <3>1. CASE UploadMoves(h)
      <4>1. handler[h].op = "upload" /\ doc[x].state = "absent" /\ root[x] = {}
        BY <2>1, <2>2, <3>1 DEF UploadMoves, Moves, OneFile, HasOneFile, WritesRowAlone, UploadsAlone
      <4>2. QED
        BY <1>s, <2>1, <3>1, <4>1 DEF UploadMoves
    <3>2. CASE DeleteMoves(h) \/ RestoreMoves(h) \/ PurgeMoves(h) \/ CategoriseMoves(h)
      <4>1. /\ handler[h].op # "upload" /\ handler[h].read.path \in Category
            /\ \/ ToTrash(x, handler[h].read.path) \/ FromTrash(x, handler[h].read.path)
               \/ handler[h].to \in Category /\ ToCategory(x, handler[h].read.path, handler[h].to)
               \/ UNCHANGED <<root, trash>>
        BY <2>1, <2>4, <3>2 DEF DeleteMoves, RestoreMoves, PurgeMoves, CategoriseMoves, Moves
      <4>2. doc[x].state \in {"live", "deleted"} => InOnePlace(x)'
        BY <1>s, <4>1, MovingKeepsOne DEF OneFile, HasOneFile, WritesRowAlone, UploadsAlone
      <4>3. \A d \in Document \ {x} : root'[d] = root[d] /\ trash'[d] = trash[d]
        BY <1>s, <4>1 DEF ToTrash, FromTrash, ToCategory
      <4>4. QED
        BY <4>1, <4>2, <4>3
    <3>3. QED
      BY <1>2, <3>1, <3>2
  <2>6. \A g \in Handler : handler[g].at = "moved" => handler[g].doc # x
    BY <2>2 DEF Locked, Writes
  <2>7. handler[h].op \in {"delete", "restore", "categorise"} => doc[x].state \in {"live", "deleted"}
    <3>1. doc[x].state \in States
      BY <1>s DEF KnowledgeShape, Record
    <3>2. handler[h].op = "delete" => HasState(x, "live")
      BY <1>2, <2>1 DEF UploadMoves, DeleteMoves, RestoreMoves, PurgeMoves, CategoriseMoves, Moves
    <3>3. handler[h].op \in {"restore", "categorise"} => ~HasState(x, "purged")
      BY <1>2, <2>1 DEF UploadMoves, DeleteMoves, RestoreMoves, PurgeMoves, CategoriseMoves, Moves
    <3>4. QED
      BY <2>4, <3>1, <3>2, <3>3 DEF HasState, States
  <2>8. \A g \in Handler \ {h} : handler[g].at # "idle" /\ handler[g].op = "upload" /\ handler[g].doc = x =>
           handler[h].op = "upload"
    BY <2>4 DEF OneFile, HasOneFile, WritesRowAlone, UploadsAlone
  <2>9. ASSUME NEW d \in Document
        PROVE  HasOneFile(d)'
    <3>1. CASE d = x
      <4>1. doc[x].state = "absent" => handler[h].op = "upload"
        BY <2>4
      <4>2. QED
        BY <2>2, <2>5, <3>1, <4>1 DEF OneFile, HasOneFile
    <3>2. CASE d # x
      BY <2>2, <2>5, <3>2 DEF OneFile, HasOneFile, InOnePlace
    <3>3. QED
      BY <3>1, <3>2
  <2>10. ASSUME NEW g \in Handler
         PROVE  WritesRowAlone(g)'
    <3>1. CASE g = h
      BY <2>1, <2>2, <2>3, <2>6, <2>7, <3>1 DEF WritesRowAlone
    <3>2. CASE g # h
      <4>1. handler'[g] = handler[g] /\ \A f \in Handler \ {g, h} : handler'[f] = handler[f]
        BY <2>3, <3>2
      <4>2. QED
        BY <2>2, <2>3, <2>6, <3>2, <4>1 DEF OneFile, WritesRowAlone
    <3>3. QED
      BY <3>1, <3>2
  <2>11. ASSUME NEW g \in Handler
         PROVE  UploadsAlone(g)'
    <3>1. \A f \in Handler : handler'[f].doc = handler[f].doc
      BY <2>1, <2>3
    <3>2. CASE g = h
      <4>1. handler[h].op = "upload" => doc[x].state = "absent" /\ \A f \in Handler \ {h} : handler[f].doc # x
        BY <2>1, <2>2 DEF OneFile, UploadsAlone
      <4>2. \A f \in Handler \ {h} : handler'[f].doc = handler[f].doc
        BY <3>1
      <4>3. QED
        BY <2>2, <2>3, <2>5, <3>2, <4>1, <4>2 DEF UploadsAlone
    <3>3. CASE g # h
      <4>1. handler'[g] = handler[g]
        BY <2>3, <3>3
      <4>2. handler[g].at # "idle" /\ handler[g].op = "upload" => handler[g].doc # x /\ handler[g].doc \in Document
        BY <1>s, <2>1, <3>3 DEF OneFile, UploadsAlone, KnowledgeShape
      <4>3. PICK e : e = handler[g].doc
        OBVIOUS
      <4>4. handler[g].at # "idle" /\ handler[g].op = "upload" =>
               /\ doc[e].state = "absent" /\ root'[e] = root[e]
               /\ root[e] = IF handler[g].at = "moved" THEN {handler[g].to} ELSE {}
               /\ \A f \in Handler \ {g} : handler[f].doc # e
        BY <2>5, <4>2, <4>3 DEF OneFile, UploadsAlone
      <4>5. \A f \in Handler \ {g} : handler'[f].doc = handler[f].doc
        BY <3>1
      <4>6. QED
        BY <2>2, <4>1, <4>3, <4>4, <4>5 DEF UploadsAlone
    <3>4. QED
      BY <3>2, <3>3
  <2>12. QED
    BY <2>9, <2>10, <2>11 DEF OneFile
<1>3. ASSUME NEW h \in Handler, \/ EndsEarly(h) \/ Commits(h) \/ UploadFails(h)
                               \/ CommitFails(h) \/ CommitLost(h) \/ CutOff(h)
      PROVE  OneFile'
  <2>1. PICK x \in Document : x = handler[h].doc
    BY <1>3, <1>s DEF EndsEarly, Commits, UploadFails, CommitFails, CommitLost, CutOff, KnowledgeShape
  <2>2. handler[h].at # "idle" /\ Answers(h)
    BY <1>3 DEF EndsEarly, Commits, UploadFails, CommitFails, CommitLost, CutOff
  <2>3. handler'[h].at = "idle" /\ handler'[h].doc = NoOne /\ \A g \in Handler \ {h} : handler'[g] = handler[g]
    BY <1>s, <2>2, Answering
  <2>4. /\ handler[h].op \in {"upload", "delete", "restore", "purge", "categorise"}
        /\ handler[h].op \in {"upload", "categorise"} => handler[h].to \in Category
        /\ handler[h].op # "upload" => /\ handler[h].read.path \in Category
                                       /\ handler[h].read.category \in Category /\ doc[x].state # "absent"
        /\ doc[x] \in Record /\ x # NoOne
    BY <1>s, <2>1, <2>2, KnowledgeAssumption DEF PlacesAreCategories, KnowledgeShape, InFlight
  <2>5. ASSUME handler[h].at = "moved", MovesBack(h)
        PROVE  /\ \A d \in Document \ {x} : root'[d] = root[d] /\ trash'[d] = trash[d]
               /\ InOnePlace(x) => InOnePlace(x)'
               /\ handler[h].op = "upload" => UNCHANGED <<root, trash>>
    <3>1. \/ handler[h].op # "upload" /\ (FromTrash(x, handler[h].read.path) \/ ToTrash(x, handler[h].read.path))
          \/ /\ handler[h].op = "categorise"
             /\ ToCategory(x, handler[h].to, handler[h].read.category)
          \/ UNCHANGED <<root, trash>>
      BY <2>1, <2>4, <2>5 DEF MovesBack
    <3>2. InOnePlace(x) => InOnePlace(x)'
      <4>1. SUFFICES ASSUME InOnePlace(x) PROVE InOnePlace(x)'
        OBVIOUS
      <4>2. CASE handler[h].op # "upload" /\ (FromTrash(x, handler[h].read.path) \/ ToTrash(x, handler[h].read.path))
        BY <1>s, <2>4, <4>1, <4>2, MovingKeepsOne
      <4>3. CASE handler[h].op = "categorise" /\ ToCategory(x, handler[h].to, handler[h].read.category)
        BY <1>s, <2>4, <4>1, <4>3, MovingKeepsOne
      <4>4. CASE UNCHANGED <<root, trash>>
        BY <4>1, <4>4 DEF InOnePlace
      <4>5. QED
        BY <3>1, <4>2, <4>3, <4>4
    <3>3. \A d \in Document \ {x} : root'[d] = root[d] /\ trash'[d] = trash[d]
      BY <1>s, <3>1 DEF ToTrash, FromTrash, ToCategory
    <3>4. QED
      BY <2>5, <3>2, <3>3 DEF MovesBack
  <2>6. ASSUME doc' = [doc EXCEPT ![x] = RowAfter(h)], handler[h].at = "moved"
        PROVE  /\ \A d \in Document \ {x} : doc'[d] = doc[d]
               /\ doc'[x].state # "absent"
               /\ doc'[x].state \in {"live", "deleted"} =>
                     handler[h].op = "upload" \/ doc[x].state \in {"live", "deleted"}
    <3>1. doc'[x] = RowAfter(h) /\ \A d \in Document \ {x} : doc'[d] = doc[d]
      BY <1>s, <2>6 DEF KnowledgeShape
    <3>2. handler[h].op \in {"delete", "restore", "categorise"} => doc[x].state \in {"live", "deleted"}
      BY <2>1, <2>6 DEF OneFile, HasOneFile, WritesRowAlone, UploadsAlone
    <3>3. QED
      BY <2>1, <2>4, <3>1, <3>2 DEF RowAfter, Categorised, Record
  <2>7. /\ \A d \in Document \ {x} : root'[d] = root[d] /\ trash'[d] = trash[d] /\ doc'[d] = doc[d]
        /\ doc'[x].state \in {"live", "deleted"} => InOnePlace(x)'
        /\ doc'[x].state = "absent" => doc[x].state = "absent" /\ trash'[x] = {}
    <3>1. CASE EndsEarly(h) \/ CutOff(h)
      BY <3>1 DEF EndsEarly, CutOff, OneFile, HasOneFile, WritesRowAlone, UploadsAlone, InOnePlace
    <3>2. CASE UploadFails(h)
      <4>1. doc[x].state = "absent" /\ UNCHANGED <<doc, trash>>
        BY <2>1, <3>2 DEF UploadFails, OneFile, HasOneFile, WritesRowAlone, UploadsAlone
      <4>2. QED
        BY <1>s, <2>1, <3>2, <4>1 DEF UploadFails, OneFile, HasOneFile, WritesRowAlone, UploadsAlone
    <3>3. CASE CommitFails(h)
      <4>1. doc' = doc /\ handler[h].at = "moved" /\ MovesBack(h)
        BY <3>3 DEF CommitFails
      <4>2. doc[x].state = "absent" => UNCHANGED <<root, trash>>
        BY <2>4, <2>5, <4>1
      <4>3. QED
        BY <2>5, <4>1, <4>2 DEF OneFile, HasOneFile, WritesRowAlone, UploadsAlone
    <3>4. CASE Commits(h)
      <4>1. /\ doc' = [doc EXCEPT ![x] = RowAfter(h)] /\ handler[h].at = "moved" /\ root' = root
            /\ trash' = IF handler[h].op = "purge" THEN [trash EXCEPT ![x] = @ \ {handler[h].read.path}] ELSE trash
        BY <2>1, <3>4 DEF Commits
      <4>2. \A d \in Document \ {x} : trash'[d] = trash[d]
        BY <1>s, <4>1
      <4>3. CASE handler[h].op = "upload"
        <5>1. root[x] = {handler[h].to} /\ trash[x] = {} /\ trash' = trash /\ handler[h].to \in Category
          BY <2>1, <2>4, <4>1, <4>3 DEF OneFile, HasOneFile, WritesRowAlone, UploadsAlone
        <5>2. InOnePlace(x)'
          BY <4>1, <5>1 DEF InOnePlace
        <5>3. QED
          BY <2>6, <4>1, <4>2, <5>2
      <4>4. CASE handler[h].op = "purge"
        <5>1. doc'[x].state = "purged"
          BY <1>s, <2>1, <2>4, <4>1, <4>4 DEF RowAfter, Record, KnowledgeShape
        <5>2. QED
          BY <2>6, <4>1, <4>2, <5>1
      <4>5. CASE handler[h].op \in {"delete", "restore", "categorise"}
        <5>1. UNCHANGED <<root, trash>> /\ doc[x].state \in {"live", "deleted"}
          BY <2>1, <4>1, <4>5 DEF OneFile, HasOneFile, WritesRowAlone, UploadsAlone
        <5>2. InOnePlace(x)'
          BY <5>1 DEF OneFile, HasOneFile, WritesRowAlone, UploadsAlone, InOnePlace
        <5>3. QED
          BY <2>6, <4>1, <4>2, <5>2
      <4>6. QED
        BY <2>4, <4>3, <4>4, <4>5
    <3>5. CASE CommitLost(h)
      <4>1. doc' = [doc EXCEPT ![x] = RowAfter(h)] /\ handler[h].at = "moved" /\ MovesBack(h)
        BY <2>1, <3>5 DEF CommitLost
      <4>2. CASE handler[h].op = "upload"
        <5>1. root[x] = {handler[h].to} /\ trash[x] = {} /\ UNCHANGED <<root, trash>> /\ handler[h].to \in Category
          BY <2>1, <2>4, <2>5, <4>1, <4>2 DEF OneFile, HasOneFile, WritesRowAlone, UploadsAlone
        <5>2. InOnePlace(x)'
          BY <5>1 DEF InOnePlace
        <5>3. QED
          BY <2>5, <2>6, <4>1, <5>2
      <4>3. CASE handler[h].op # "upload"
        BY <2>5, <2>6, <4>1, <4>3 DEF OneFile, HasOneFile, WritesRowAlone, UploadsAlone
      <4>4. QED
        BY <4>2, <4>3
    <3>6. QED
      BY <1>3, <3>1, <3>2, <3>3, <3>4, <3>5
  <2>8. \A g \in Handler \ {h} : handler[g].at = "moved" => handler[h].at # "moved" \/ handler[g].doc # x
    BY <2>1 DEF OneFile, HasOneFile, WritesRowAlone, UploadsAlone
  <2>9. \A g \in Handler \ {h} : handler[g].at # "idle" /\ handler[g].op = "upload" => handler[g].doc # x
    BY <2>1 DEF OneFile, HasOneFile, WritesRowAlone, UploadsAlone
  <2>10. handler[h].at = "moved" \/ UNCHANGED <<doc, root, trash>>
    BY <1>3 DEF EndsEarly, Commits, UploadFails, CommitFails, CommitLost, CutOff
  <2>11. \A g \in Handler \ {h} : handler[g].at # "idle" => handler[g].doc \in Document
    BY <1>s DEF KnowledgeShape
  <2>12. ASSUME NEW d \in Document
         PROVE  HasOneFile(d)'
    BY <2>7 DEF OneFile, HasOneFile, InOnePlace
  <2>13. ASSUME NEW g \in Handler
         PROVE  WritesRowAlone(g)' /\ UploadsAlone(g)'
    <3>1. CASE g = h
      BY <2>3, <3>1 DEF WritesRowAlone, UploadsAlone
    <3>2. CASE handler[g].at = "idle" /\ g # h
      BY <2>3, <3>2 DEF WritesRowAlone, UploadsAlone
    <3>3. CASE handler[g].at # "idle" /\ g # h
      <4>1. handler'[g] = handler[g] /\ \A f \in Handler \ {h} : handler'[f] = handler[f]
        BY <2>3, <3>3
      <4>2. PICK e \in Document : e = handler[g].doc
        BY <2>11, <3>3
      <4>3. handler[g].op = "upload" => e # x
        BY <2>9, <3>3, <4>2
      <4>4. handler[g].at = "moved" => e # x \/ UNCHANGED <<doc, root, trash>>
        BY <2>8, <2>10, <3>3, <4>2
      <4>5. WritesRowAlone(g)'
        <5>1. handler[g].at = "moved" /\ handler[g].op \in {"delete", "restore", "categorise"} =>
                 doc[e].state \in {"live", "deleted"}
          BY <4>2 DEF OneFile, WritesRowAlone
        <5>2. handler[g].at = "moved" => doc'[e] = doc[e]
          BY <2>7, <4>4
        <5>3. QED
          BY <2>3, <4>1, <4>2, <5>1, <5>2 DEF OneFile, WritesRowAlone
      <4>6. UploadsAlone(g)'
        <5>1. handler[g].op = "upload" => doc'[e] = doc[e] /\ root'[e] = root[e]
          BY <2>7, <4>3
        <5>2. \A f \in Handler \ {g} : handler'[f].doc = e => handler[f].doc = e
          BY <2>3, <4>1, KnowledgeAssumption
        <5>3. QED
          BY <3>3, <4>1, <4>2, <5>1, <5>2 DEF OneFile, UploadsAlone
      <4>7. QED
        BY <4>5, <4>6
    <3>4. QED
      BY <3>1, <3>2, <3>3
  <2>14. QED
    BY <2>12, <2>13 DEF OneFile
<1>4. ASSUME NEW d \in Document, NEW c \in Category, SuggestStarts(d) \/ SuggestNothing(d) \/ SuggestSaves(d, c)
      PROVE  OneFile'
  <2>1. UNCHANGED <<root, trash, handler>>
    BY <1>4 DEF SuggestStarts, SuggestNothing, SuggestSaves
  <2>2. doc' = doc \/ doc' = [doc EXCEPT ![d].suggested = c]
    BY <1>4 DEF SuggestStarts, SuggestNothing, SuggestSaves
  <2>3. \A e \in Document : doc'[e].state = doc[e].state
    BY <1>s, <2>2 DEF KnowledgeShape, Record
  <2>4. \A g \in Handler : handler[g].at # "idle" => handler[g].doc \in Document
    BY <1>s DEF KnowledgeShape
  <2>5. QED
    BY <2>1, <2>3, <2>4 DEF OneFile, HasOneFile, WritesRowAlone, UploadsAlone, InOnePlace
<1>5. CASE UNCHANGED knowledgeVars
  BY <1>5 DEF knowledgeVars, OneFile, HasOneFile, WritesRowAlone, UploadsAlone, InOnePlace
<1>6. CASE KnowledgeNext
  BY <1>6, <1>1, <1>2, <1>3, <1>4, KnowledgeAssumption DEF KnowledgeNext
<1>7. QED
  BY <1>5, <1>6

\* A document's one file is neither lost nor doubled, however its requests meet
\* and end; and as long as they came one after the other, no second document with
\* its text can be found, and the file is where the row says unless a request was
\* cut off (knowledge_storage.py, api/v1/knowledge.py).
THEOREM FilesStayWithRows == KnowledgeSpec => []FilesFollowRows
<1>1. KnowledgeInit => KnowledgeInv /\ PlacesAreCategories /\ OneFile
  BY KnowledgeInvInit, KnowledgeAssumption
  DEF KnowledgeInit, PlacesAreCategories, OneFile, HasOneFile, WritesRowAlone, UploadsAlone, NoDoc, Waiting
<1>2. KnowledgeInv /\ OneFile => FilesFollowRows
  BY DEF KnowledgeInv, Tidy, Agrees, HasState, Placed, NoTwin, OneFile, HasOneFile, FileAgrees, FilesFollowRows
<1>3. QED
  BY <1>1, <1>2, KnowledgeInvStep, PlacesStep, OneFileStep, PTL DEF KnowledgeSpec

\* Documents, files and requests keep their types; in particular a file never
\* lies in a directory that is not a category's (knowledge_storage.py).
THEOREM KnowledgeKeepsItsTypes == KnowledgeSpec => []KnowledgeTypeOK
<1>1. KnowledgeInit => KnowledgeInv /\ KnowledgeTypes
  BY KnowledgeInvInit, KnowledgeAssumption DEF KnowledgeInit, KnowledgeTypes, PlacesAreCategories, KnowledgeCounts, NoDoc, Waiting
<1>2. KnowledgeInv /\ KnowledgeTypes /\ [KnowledgeNext]_knowledgeVars => KnowledgeTypes'
  BY PlacesStep, KnowledgeCountsStep DEF KnowledgeTypes
<1>3. QED
  BY <1>1, <1>2, KnowledgeInvStep, KnowledgeTypesFollow, PTL DEF KnowledgeSpec

-----------------------------------------------------------------------------
(* Monitoring.  Every probe of the time that is kept belongs to a run of   *)
(* equal probes that ends in a row, and the rows are probes: so the first  *)
(* row and the first probe at or after a moment agree.                     *)

\* Every probe of a time belongs to a run of equal ones that ends in a row.
RunsKept(rows, seen, oldest) ==
    \A p \in seen : p.at >= oldest =>
        \E e \in rows :
            /\ e.at >= p.at
            /\ \A q \in seen : q.at \in p.at .. e.at => q.status = e.status

\* The rows are probes, the last probe is one of them, and no two came at once.
RowsFit(rows, seen, now) ==
    /\ rows \subseteq seen
    /\ seen # {} => \E e \in rows : \A p \in seen : p.at <= e.at
    /\ \A p, q \in seen : p.at = q.at => p = q
    /\ \A p \in seen : p.at <= now

LogsRuns(t) == RunsKept(events[t], probes[t], clock - Retention)
LogIsSound(t) == RowsFit(events[t], probes[t], clock)

RoundIsSound(t) ==
    t \in sweep.targets /\ target[t].state # "deleted" =>
        /\ sweep.at = "probing" => /\ sweep.latest[t] = Newest(events[t])
                                   /\ \A p \in probes[t] : p.at < clock
        /\ sweep.at = "publishing" => (t \in sweep.alerts <=> Flipped(t))

MonitorInv ==
    /\ MonitorTypeOK
    /\ \A t \in Target : LogsRuns(t) /\ LogIsSound(t) /\ RoundIsSound(t)

\* The window drawn lies in the time that is kept.
LEMMA WindowIsKept ==
    ASSUME NEW now \in Nat
    PROVE  (now \div Width - (Buckets - 1)) * Width \in Int /\ (now \div Width - (Buckets - 1)) * Width >= now - Retention
<1> DEFINE q == now \div Width
<1>1. Width \in Nat /\ Width > 0 /\ Buckets \in Nat /\ Buckets > 0 /\ Retention \in Nat
      /\ Retention >= Width * Buckets
  BY MonitorAssumption
<1>2. q \in Int /\ now < q * Width + Width
  BY <1>1
<1> HIDE DEF q
<1>3. (q - (Buckets - 1)) * Width = q * Width - Buckets * Width + Width
  BY <1>1, <1>2
<1>4. q * Width \in Int /\ Buckets * Width \in Int /\ Buckets * Width = Width * Buckets
  BY <1>1, <1>2
<1>5. q * Width - Buckets * Width + Width \in Int /\ q * Width - Buckets * Width + Width >= now - Retention
  BY <1>1, <1>2, <1>4
<1>6. (q - (Buckets - 1)) * Width \in Int /\ (q - (Buckets - 1)) * Width >= now - Retention
  BY <1>3, <1>5
<1>7. QED
  BY <1>6 DEF q

\* The first of a log at or after a tick.
LEMMA FirstEntry ==
    ASSUME NEW seen \in SUBSET Observation, NEW x \in Int, NEW e \in seen, e.at >= x
    PROVE  \E f \in seen : f.at >= x /\ \A g \in seen : g.at >= x => f.at <= g.at
<1> DEFINE T == {g.at : g \in {h \in seen : h.at >= x}}
<1>0. \A g \in Observation : g.at \in Nat
  BY MonitorAssumption DEF Observation
<1>1. T \in SUBSET Nat /\ T # {}
  BY <1>0
<1>2. PICK n \in T : \A m \in T : n <= m
  <2> HIDE DEF T
  <2> QED BY <1>1, LeastNat
<1>3. QED
  BY <1>2

\* Said, when the log has a first entry and only one of its time.
LEMMA SaysFirst ==
    ASSUME NEW seen \in SUBSET Observation, \A p, q \in seen : p.at = q.at => p = q,
           NEW t, NEW x \in Int, NEW f \in seen, f.at >= x, \A g \in seen : g.at >= x => f.at <= g.at,
           ~(x <= target[t].since)
    PROVE  Said(seen, t, x) = f.status
<1> DEFINE later == {e \in seen : e.at >= x}
<1>1. f \in later /\ \A g \in later : f.at <= g.at
  OBVIOUS
<1>2. \A e \in later : (\A g \in later : e.at <= g.at) => e = f
  BY <1>1, MonitorAssumption DEF Observation
<1>3. (CHOOSE e \in later : \A g \in later : e.at <= g.at) = f
  BY <1>1, <1>2
<1>4. QED
  BY <1>1, <1>3 DEF Said

\* The changes that were kept say what every probe says.
LEMMA SaysTheSame ==
    ASSUME MonitorInv, NEW t \in Target, NEW x \in Int, x >= clock - Retention
    PROVE  Said(events[t], t, x) = Said(probes[t], t, x)
<1>0. /\ events[t] \in SUBSET Observation /\ probes[t] \in SUBSET Observation
      /\ clock \in Nat /\ Retention \in Nat
      /\ \A e \in Observation : e.at \in Nat
  BY MonitorAssumption DEF MonitorInv, MonitorTypeOK, Observation
<1>1. LogsRuns(t) /\ LogIsSound(t)
  BY DEF MonitorInv
<1>2. /\ events[t] \subseteq probes[t]
      /\ \A p, q \in probes[t] : p.at = q.at => p = q
      /\ \A p, q \in events[t] : p.at = q.at => p = q
  BY <1>1 DEF LogIsSound, RowsFit
<1>3. CASE x <= target[t].since
  BY <1>3 DEF Said
<1>4. CASE ~(x <= target[t].since) /\ {p \in probes[t] : p.at >= x} = {}
  BY <1>2, <1>4 DEF Said
<1>5. CASE ~(x <= target[t].since) /\ {p \in probes[t] : p.at >= x} # {}
  <2>1. PICK p \in probes[t] : p.at >= x /\ \A g \in probes[t] : g.at >= x => p.at <= g.at
    BY <1>0, <1>5, FirstEntry
  <2>2. PICK e \in events[t] :
            /\ e.at >= p.at
            /\ \A q \in probes[t] : q.at \in p.at .. e.at => q.status = e.status
    BY <1>0, <1>1, <2>1 DEF LogsRuns, RunsKept
  <2>3. PICK f \in events[t] : f.at >= x /\ \A g \in events[t] : g.at >= x => f.at <= g.at
    <3>1. e.at >= x
      BY <1>0, <2>1, <2>2
    <3>2. QED
      BY <1>0, <3>1, FirstEntry
  <2>4. Said(probes[t], t, x) = p.status
    BY <1>0, <1>2, <1>5, <2>1, SaysFirst
  <2>5. Said(events[t], t, x) = f.status
    BY <1>0, <1>2, <1>5, <2>3, SaysFirst
  <2>6. f.at \in p.at .. e.at /\ p.at \in p.at .. e.at /\ f \in probes[t]
    BY <1>0, <1>2, <2>1, <2>2, <2>3
  <2>7. p.status = f.status
    BY <2>1, <2>2, <2>6
  <2>8. QED
    BY <2>4, <2>5, <2>7
<1>6. QED
  BY <1>3, <1>4, <1>5

\* A log within the limit is drawn whole.
LEMMA KeptWhole ==
    ASSUME MonitorInv, NEW t \in Target, Cardinality(events[t]) <= Limit
    PROVE  Kept(t) = events[t]
<1> DEFINE seen == events[t]
<1>0. seen \in SUBSET Observation /\ \A p, q \in seen : p.at = q.at => p = q
  BY DEF MonitorInv, MonitorTypeOK, LogIsSound, RowsFit
<1>1. MaxTime \in Nat /\ Limit \in Nat
  BY MonitorAssumption
<1>2. IsFiniteSet(seen)
  <2> DEFINE f == [e \in seen |-> e.at]
  <2>1. f \in Injection(seen, 0 .. MaxTime)
    BY <1>0 DEF Injection, IsInjective, Observation
  <2>2. IsFiniteSet(0 .. MaxTime)
    BY <1>1, FS_Interval
  <2>3. QED
    <3> HIDE DEF f
    <3> QED BY <2>1, <2>2, FS_Injection
<1>3. Cardinality(seen) \in Nat
  BY <1>2, FS_CardinalityType
<1>4. ASSUME NEW e \in seen
      PROVE  Cardinality({f \in seen : f.at > e.at}) < Limit
  <2> DEFINE after == {f \in seen : f.at > e.at}
  <2>1. after \in SUBSET seen /\ e \notin after
    BY <1>0 DEF Observation
  <2>2. Cardinality(after) <= Cardinality(seen) /\ IsFiniteSet(after) /\ (Cardinality(seen) = Cardinality(after) => seen = after)
    <3> HIDE DEF after
    <3> QED BY <1>2, <2>1, FS_Subset
  <2>3. Cardinality(after) \in Nat
    <3> HIDE DEF after
    <3> QED BY <2>2, FS_CardinalityType
  <2>4. QED
    BY <1>1, <1>3, <2>1, <2>2, <2>3
<1>5. QED
  BY <1>4 DEF Kept, NewestRows

LEMMA TruthFollows == MonitorInv => MonitorTellsTheTruth
<1> SUFFICES ASSUME MonitorInv PROVE MonitorTellsTheTruth
  OBVIOUS
<1>1. ASSUME NEW t \in Target, Cardinality(events[t]) <= Limit
      PROVE  /\ \A b \in 0 .. Buckets - 1 : Bucket(Kept(t), t, b) = Bucket(probes[t], t, b)
             /\ Rate(Kept(t), t) = Rate(probes[t], t)
  <2>1. Kept(t) = events[t]
    BY <1>1, KeptWhole
  <2>2. /\ clock \in Nat /\ Width \in Nat /\ Buckets \in Nat /\ Retention \in Nat
        /\ WindowStart \in Int /\ WindowStart >= clock - Retention
    BY WindowIsKept, MonitorAssumption DEF MonitorInv, MonitorTypeOK, WindowStart
  <2>3. ASSUME NEW x \in Int, x > WindowStart
        PROVE  Said(Kept(t), t, x) = Said(probes[t], t, x)
    <3>1. x >= clock - Retention
      BY <2>2, <2>3
    <3>2. QED
      BY <2>1, <3>1, SaysTheSame
  <2>4. ASSUME NEW b \in 0 .. Buckets - 1
        PROVE  Bucket(Kept(t), t, b) = Bucket(probes[t], t, b)
    <3> DEFINE minute == WindowStart + b * Width + 1 .. WindowStart + (b + 1) * Width
    <3>1. b * Width \in Nat /\ (b + 1) * Width \in Nat
      BY <2>2
    <3>2. \A x \in minute : x \in Int /\ x > WindowStart
      BY <2>2, <3>1
    <3>3. {Said(Kept(t), t, x) : x \in minute} = {Said(probes[t], t, x) : x \in minute}
      BY <2>3, <3>2
    <3>4. QED
      BY <3>3 DEF Bucket
  <2>5. Rate(Kept(t), t) = Rate(probes[t], t)
    <3>1. Width * Buckets \in Nat
      BY <2>2
    <3>2. \A x \in Ticks : x \in Int /\ x > WindowStart
      BY <2>2, <3>1 DEF Ticks
    <3>3. \A x \in Ticks : Said(Kept(t), t, x) = Said(probes[t], t, x)
      BY <2>3, <3>2
    <3>4. {x \in Ticks : Said(Kept(t), t, x) = "up"} = {x \in Ticks : Said(probes[t], t, x) = "up"}
      BY <3>3
    <3>5. {x \in Ticks : Said(Kept(t), t, x) # "unknown"} = {x \in Ticks : Said(probes[t], t, x) # "unknown"}
      BY <3>3
    <3>6. QED
      BY <3>4, <3>5 DEF Rate
  <2>6. QED
    BY <2>4, <2>5
<1>2. ASSUME sweep.at = "publishing", NEW t \in sweep.targets, target[t].state # "deleted"
      PROVE  t \in sweep.alerts <=> Flipped(t)
  BY <1>2 DEF MonitorInv, MonitorTypeOK, RoundIsSound
<1>3. QED
  BY <1>1, <1>2 DEF MonitorTellsTheTruth

\* A log with one probe more; rows in which its run ends; rows after a purge.
WithProbe(seen, s, now) == seen \cup {[status |-> s, at |-> now]}
WithRow(rows, s, now) == (rows \ {e \in Newest(rows) : e.status = s}) \cup {[status |-> s, at |-> now]}
Purged(rows, oldest) == {e \in rows : e.at >= oldest} \cup Newest(rows)
LastTwoDiffer(seen) ==
    \E p, q \in seen : /\ q.at < p.at /\ q.status # p.status
                      /\ \A r \in seen \ {p} : r.at <= q.at

\* A round keeps the runs: an unchanged status moves the end of the last one,
\* a changed one begins a run of its own.
LEMMA RecordingKeeps ==
    ASSUME NEW rows \in SUBSET Observation, NEW seen \in SUBSET Observation, NEW now \in 0 .. MaxTime,
           NEW oldest \in Int, NEW s \in Status,
           RunsKept(rows, seen, oldest), RowsFit(rows, seen, now), \A p \in seen : p.at < now
    PROVE  /\ WithRow(rows, s, now) \in SUBSET Observation /\ WithProbe(seen, s, now) \in SUBSET Observation
           /\ RunsKept(WithRow(rows, s, now), WithProbe(seen, s, now), oldest)
           /\ RowsFit(WithRow(rows, s, now), WithProbe(seen, s, now), now)
<1> PICK new : new = [status |-> s, at |-> now]
  OBVIOUS
<1> PICK recorded : recorded = (rows \ {e \in Newest(rows) : e.status = s}) \cup {new}
  OBVIOUS
<1>1. /\ new \in Observation /\ new.at = now /\ new.status = s /\ new \in recorded
      /\ now \in Nat /\ \A e \in Observation : e.at \in Nat
  BY MonitorAssumption DEF Observation
<1>2. recorded \in SUBSET Observation /\ seen \cup {new} \in SUBSET Observation
  BY <1>1
<1>3. RowsFit(recorded, seen \cup {new}, now)
  BY <1>1 DEF RowsFit
<1>4. ASSUME NEW p \in seen \cup {new}, p.at >= oldest
      PROVE  \E e \in recorded :
                 /\ e.at >= p.at
                 /\ \A q \in seen \cup {new} : q.at \in p.at .. e.at => q.status = e.status
  <2>1. CASE p = new
    <3>1. \A q \in seen \cup {new} : q.at \in now .. now => q = new
      BY <1>1
    <3>2. QED
      BY <1>1, <2>1, <3>1
  <2>2. CASE p \in seen
    <3>1. PICK e \in rows : /\ e.at >= p.at
                            /\ \A q \in seen : q.at \in p.at .. e.at => q.status = e.status
      BY <1>4, <2>2 DEF RunsKept
    <3>2. CASE e \in recorded
      <4>1. e \in seen /\ ~(new.at \in p.at .. e.at)
        BY <1>1 DEF RowsFit
      <4>2. QED
        BY <3>1, <3>2, <4>1
    <3>3. CASE e \notin recorded
      <4>1. e.status = s /\ \A f \in rows : f.at <= e.at
        BY <3>3 DEF Newest
      <4>2. \A q \in seen : q.at <= e.at
        BY <1>1, <2>2, <4>1 DEF RowsFit
      <4>3. \A q \in seen \cup {new} : q.at \in p.at .. now => q.status = s
        BY <1>1, <2>2, <3>1, <4>1, <4>2
      <4>4. now >= p.at
        BY <1>1, <2>2
      <4>5. QED
        BY <1>1, <4>3, <4>4
    <3>4. QED
      BY <3>2, <3>3
  <2>3. QED
    BY <2>1, <2>2
<1>5. RunsKept(recorded, seen \cup {new}, oldest)
  BY <1>4 DEF RunsKept
<1>6. QED
  BY <1>2, <1>3, <1>5 DEF WithRow, WithProbe

\* A purge takes rows that no probe of the kept time needs.
LEMMA PurgingKeeps ==
    ASSUME NEW rows \in SUBSET Observation, NEW seen \in SUBSET Observation, NEW now \in Int, NEW oldest \in Int,
           RunsKept(rows, seen, oldest), RowsFit(rows, seen, now)
    PROVE  /\ Purged(rows, oldest) \in SUBSET Observation
           /\ RunsKept(Purged(rows, oldest), seen, oldest) /\ RowsFit(Purged(rows, oldest), seen, now)
<1> PICK left : left = Purged(rows, oldest)
  OBVIOUS
<1>0. left = {e \in rows : e.at >= oldest} \cup Newest(rows)
  BY DEF Purged
<1>1. left \subseteq rows /\ \A e \in Observation : e.at \in Nat
  BY <1>0, MonitorAssumption DEF Observation, Newest
<1>2. seen # {} => \E e \in left : \A p \in seen : p.at <= e.at
  <2>1. ASSUME seen # {}
        PROVE  \E e \in left : \A p \in seen : p.at <= e.at
    <3>1. PICK e \in rows : \A p \in seen : p.at <= e.at
      BY <2>1 DEF RowsFit
    <3>2. e \in Newest(rows)
      BY <3>1 DEF Newest, RowsFit
    <3>3. QED
      BY <1>0, <3>1, <3>2
  <2>2. QED
    BY <2>1
<1>3. RowsFit(left, seen, now)
  BY <1>1, <1>2 DEF RowsFit
<1>4. ASSUME NEW p \in seen, p.at >= oldest
      PROVE  \E e \in left :
                 /\ e.at >= p.at
                 /\ \A q \in seen : q.at \in p.at .. e.at => q.status = e.status
  <2>1. PICK e \in rows : /\ e.at >= p.at
                          /\ \A q \in seen : q.at \in p.at .. e.at => q.status = e.status
    BY <1>4 DEF RunsKept
  <2>2. e \in left
    BY <1>0, <1>1, <1>4, <2>1
  <2>3. QED
    BY <2>1, <2>2
<1>5. QED
  BY <1>1, <1>3, <1>4 DEF RunsKept

\* Time that passes asks for less.
LEMMA WaitingKeeps ==
    ASSUME NEW rows \in SUBSET Observation, NEW seen \in SUBSET Observation,
           NEW now \in Int, NEW oldest \in Int,
           RunsKept(rows, seen, oldest), RowsFit(rows, seen, now)
    PROVE  RunsKept(rows, seen, oldest + 1) /\ RowsFit(rows, seen, now + 1)
<1>1. \A e \in Observation : e.at \in Nat
  BY MonitorAssumption DEF Observation
<1>2. RunsKept(rows, seen, oldest + 1)
  <2>1. \A p \in seen : p.at >= oldest + 1 => p.at >= oldest
    BY <1>1
  <2>2. QED
    BY <2>1 DEF RunsKept
<1>3. RowsFit(rows, seen, now + 1)
  BY <1>1 DEF RowsFit
<1>4. QED
  BY <1>2, <1>3

\* What differs from the last row is a flip.
LEMMA FlipsAreSeen ==
    ASSUME NEW rows \in SUBSET Observation, NEW seen \in SUBSET Observation, NEW now \in 0 .. MaxTime,
           NEW s \in Status, RowsFit(rows, seen, now), \A p \in seen : p.at < now
    PROVE  LastTwoDiffer(WithProbe(seen, s, now)) <=> \E e \in Newest(rows) : e.status # s
<1> PICK new : new = [status |-> s, at |-> now]
  OBVIOUS
<1>1. /\ new.at = now /\ new.status = s /\ now \in Nat /\ \A e \in Observation : e.at \in Nat
  BY MonitorAssumption DEF Observation
<1>2. ASSUME NEW e \in Newest(rows), e.status # s
      PROVE  \E p, q \in seen \cup {new} :
                   /\ q.at < p.at /\ q.status # p.status
                   /\ \A r \in (seen \cup {new}) \ {p} : r.at <= q.at
  <2>1. e \in seen /\ \A r \in seen : r.at <= e.at
    BY <1>1 DEF Newest, RowsFit
  <2>2. QED
    BY <1>1, <1>2, <2>1
<1>3. ASSUME NEW p \in seen \cup {new}, NEW q \in seen \cup {new}, q.at < p.at, q.status # p.status,
             \A r \in (seen \cup {new}) \ {p} : r.at <= q.at
      PROVE  \E e \in Newest(rows) : e.status # s
  <2>1. q # new
    BY <1>1, <1>3
  <2>2. p = new
    BY <1>1, <1>3, <2>1
  <2>3. PICK e \in rows : \A r \in seen : r.at <= e.at
    BY <2>1 DEF RowsFit
  <2>4. e = q
    BY <1>1, <1>3, <2>1, <2>2, <2>3 DEF RowsFit
  <2>5. e \in Newest(rows)
    BY <2>3 DEF Newest, RowsFit
  <2>6. QED
    BY <1>1, <1>3, <2>2, <2>4, <2>5
<1>4. WithProbe(seen, s, now) = seen \cup {new}
  BY DEF WithProbe
<1>5. QED
  BY <1>2, <1>3, <1>4 DEF LastTwoDiffer

LEMMA MonitorInvInit == MonitorInit => MonitorInv
<1> SUFFICES ASSUME MonitorInit PROVE MonitorInv
  OBVIOUS
<1>1. 0 \in 0 .. MaxTime
  BY MonitorAssumption
<1>2. MonitorTypeOK
  BY <1>1 DEF MonitorInit, MonitorTypeOK, Resting
<1>3. ASSUME NEW t \in Target
      PROVE  LogsRuns(t) /\ LogIsSound(t) /\ RoundIsSound(t)
  BY DEF MonitorInit, Resting, LogsRuns, RunsKept, LogIsSound, RowsFit, RoundIsSound
<1>4. QED
  BY <1>2, <1>3 DEF MonitorInv

\* What is no round leaves the probes and the rows of the targets that remain.
LEMMA TargetsChange ==
    ASSUME MonitorInv, UNCHANGED <<clock, sweep>>,
           target' \in [Target -> [state : {"new", "active", "paused", "deleted"}, since : 0 .. MaxTime]],
           events' \in [Target -> SUBSET Observation], probes' \in [Target -> SUBSET Observation],
           \A t \in Target :
               \/ /\ events'[t] = events[t] /\ probes'[t] = probes[t]
                  /\ target[t].state = "deleted" => target'[t].state = "deleted"
               \/ events'[t] = {} /\ probes'[t] = {} /\ target'[t].state = "deleted"
    PROVE  MonitorInv'
<1>1. MonitorTypeOK'
  BY DEF MonitorInv, MonitorTypeOK, Observation
<1>2. ASSUME NEW t \in Target
      PROVE  LogsRuns(t)' /\ LogIsSound(t)' /\ RoundIsSound(t)'
  <2>1. LogsRuns(t) /\ LogIsSound(t) /\ RoundIsSound(t)
    BY DEF MonitorInv
  <2>2. CASE events'[t] = events[t] /\ probes'[t] = probes[t]
             /\ (target[t].state = "deleted" => target'[t].state = "deleted")
    BY <2>1, <2>2 DEF LogsRuns, LogIsSound, RoundIsSound, Flipped
  <2>3. CASE events'[t] = {} /\ probes'[t] = {} /\ target'[t].state = "deleted"
    BY <2>3 DEF LogsRuns, RunsKept, LogIsSound, RowsFit, RoundIsSound
  <2>4. QED
    BY <2>2, <2>3
<1>3. QED
  BY <1>1, <1>2 DEF MonitorInv

\* A round that is over, or has only read, has written nothing.
LEMMA RoundsRest ==
    ASSUME MonitorInv, UNCHANGED <<clock, target, events, probes>>,
           sweep' \in [at : {"resting", "probing", "publishing"}, targets : SUBSET Target,
                       latest : [Target -> SUBSET Observation], alerts : SUBSET Target],
           \A t \in Target : RoundIsSound(t)'
    PROVE  MonitorInv'
<1>1. MonitorTypeOK'
  BY DEF MonitorInv, MonitorTypeOK, Observation
<1>2. \A t \in Target : LogsRuns(t)' /\ LogIsSound(t)'
  BY DEF MonitorInv, LogsRuns, LogIsSound
<1>3. QED
  BY <1>1, <1>2 DEF MonitorInv

LEMMA SweepCommitsKeep == MonitorInv /\ SweepCommits => MonitorInv'
<1> SUFFICES ASSUME MonitorInv, SweepCommits PROVE MonitorInv'
  OBVIOUS
<1>0. /\ MonitorTypeOK /\ sweep.at = "probing"
      /\ clock \in 0 .. MaxTime /\ clock \in Int /\ Retention \in Int /\ clock - Retention \in Int
      /\ \A t \in sweep.targets : t \in Target /\ target[t].state # "deleted"
      /\ UNCHANGED <<clock, target>>
  BY MonitorAssumption DEF MonitorInv, SweepCommits, MonitorTypeOK
<1> DEFINE recorded(status, t) ==
               IF t \in sweep.targets THEN RecordProbe(events[t], Current(t), status[t]) ELSE events[t]
<1>1. PICK status \in [sweep.targets -> Status], purge \in BOOLEAN :
         /\ events' = [t \in Target |-> IF purge THEN PurgeOlder(recorded(status, t)) ELSE recorded(status, t)]
         /\ probes' = [t \in Target |->
                IF t \in sweep.targets THEN probes[t] \cup {Seen(status[t])} ELSE probes[t]]
         /\ sweep' = [sweep EXCEPT !.at = "publishing",
                          !.alerts = {t \in sweep.targets :
                              \E e \in sweep.latest[t] : e.status # status[t]}]
  BY DEF SweepCommits
<1>2. /\ sweep'.at = "publishing" /\ sweep'.targets = sweep.targets
      /\ sweep'.alerts = {t \in sweep.targets : \E e \in sweep.latest[t] : e.status # status[t]}
      /\ sweep' \in [at : {"resting", "probing", "publishing"}, targets : SUBSET Target,
                     latest : [Target -> SUBSET Observation], alerts : SUBSET Target]
  BY <1>0, <1>1 DEF MonitorTypeOK
<1>3. ASSUME NEW t \in Target
      PROVE  /\ recorded(status, t) \in SUBSET Observation /\ probes'[t] \in SUBSET Observation
             /\ RunsKept(recorded(status, t), probes'[t], clock - Retention)
             /\ RowsFit(recorded(status, t), probes'[t], clock)
             /\ t \in sweep.targets => (t \in sweep'.alerts <=> Flipped(t)')
  <2>1. /\ events[t] \in SUBSET Observation /\ probes[t] \in SUBSET Observation
        /\ RunsKept(events[t], probes[t], clock - Retention) /\ RowsFit(events[t], probes[t], clock)
    BY <1>0 DEF MonitorInv, MonitorTypeOK, LogsRuns, LogIsSound
  <2>2. CASE t \notin sweep.targets
    BY <1>1, <2>1, <2>2
  <2>3. CASE t \in sweep.targets
    <3>1. sweep.latest[t] = Newest(events[t]) /\ \A p \in probes[t] : p.at < clock
      BY <1>0, <2>3 DEF MonitorInv, RoundIsSound
    <3>2. status[t] \in Status /\ Current(t) = Newest(events[t])
      BY <2>3, <3>1 DEF Current
    <3>3. probes'[t] = WithProbe(probes[t], status[t], clock)
      BY <1>1, <2>3 DEF WithProbe, Seen
    <3>4. recorded(status, t) = WithRow(events[t], status[t], clock)
      BY <2>3, <3>2 DEF RecordProbe, WithRow, Seen
    <3>5. /\ recorded(status, t) \in SUBSET Observation /\ probes'[t] \in SUBSET Observation
          /\ RunsKept(recorded(status, t), probes'[t], clock - Retention)
          /\ RowsFit(recorded(status, t), probes'[t], clock)
      <4>1. /\ WithRow(events[t], status[t], clock) \in SUBSET Observation
            /\ WithProbe(probes[t], status[t], clock) \in SUBSET Observation
            /\ RunsKept(WithRow(events[t], status[t], clock), WithProbe(probes[t], status[t], clock),
                        clock - Retention)
            /\ RowsFit(WithRow(events[t], status[t], clock), WithProbe(probes[t], status[t], clock), clock)
        BY <1>0, <2>1, <3>1, <3>2, RecordingKeeps
      <4>2. QED
        BY <3>3, <3>4, <4>1
    <3>6. LastTwoDiffer(probes'[t]) <=> \E e \in Newest(events[t]) : e.status # status[t]
      BY <1>0, <2>1, <3>1, <3>2, <3>3, FlipsAreSeen
    <3>7. Flipped(t)' <=> \E e \in Newest(events[t]) : e.status # status[t]
      BY <3>6 DEF Flipped, LastTwoDiffer
    <3>8. t \in sweep'.alerts <=> \E e \in Newest(events[t]) : e.status # status[t]
      BY <1>2, <2>3, <3>1
    <3>9. QED
      BY <3>5, <3>7, <3>8
  <2>4. QED
    BY <2>2, <2>3
<1>4. ASSUME NEW t \in Target
      PROVE  /\ events'[t] \in SUBSET Observation
             /\ RunsKept(events'[t], probes'[t], clock - Retention)
             /\ RowsFit(events'[t], probes'[t], clock)
  <2>1. CASE ~purge
    <3>1. events'[t] = recorded(status, t)
      BY <1>1, <2>1
    <3>2. QED
      BY <1>3, <3>1
  <2>2. CASE purge
    <3>1. events'[t] = Purged(recorded(status, t), clock - Retention)
      BY <1>1, <2>2 DEF PurgeOlder, Purged
    <3>2. QED
      <4>1. PICK rows : rows = recorded(status, t)
        OBVIOUS
      <4>2. /\ rows \in SUBSET Observation /\ probes'[t] \in SUBSET Observation
            /\ RunsKept(rows, probes'[t], clock - Retention) /\ RowsFit(rows, probes'[t], clock)
        BY <1>3, <4>1
      <4>3. /\ Purged(rows, clock - Retention) \in SUBSET Observation
            /\ RunsKept(Purged(rows, clock - Retention), probes'[t], clock - Retention)
            /\ RowsFit(Purged(rows, clock - Retention), probes'[t], clock)
        BY <1>0, <4>2, PurgingKeeps
      <4>4. events'[t] = Purged(rows, clock - Retention)
        BY <3>1, <4>1
      <4>5. QED
        BY <4>3, <4>4
  <2>3. QED
    BY <2>1, <2>2
<1>5. MonitorTypeOK'
  <2>1. events' \in [Target -> SUBSET Observation]
    BY <1>1, <1>4
  <2>2. probes' \in [Target -> SUBSET Observation]
    BY <1>1, <1>3
  <2>3. QED
    BY <1>0, <1>2, <2>1, <2>2 DEF MonitorTypeOK, Observation
<1>6. \A t \in Target : LogsRuns(t)' /\ LogIsSound(t)'
  BY <1>0, <1>4 DEF LogsRuns, LogIsSound
<1>7. \A t \in Target : RoundIsSound(t)'
  BY <1>2, <1>3 DEF RoundIsSound
<1>8. QED
  BY <1>5, <1>6, <1>7 DEF MonitorInv

LEMMA MonitorInvStep == MonitorInv /\ [MonitorNext]_monitorVars => MonitorInv'
<1> SUFFICES ASSUME MonitorInv, [MonitorNext]_monitorVars PROVE MonitorInv'
  OBVIOUS
<1>0. MonitorTypeOK /\ \A t \in Target : LogsRuns(t) /\ LogIsSound(t) /\ RoundIsSound(t)
  BY DEF MonitorInv
<1>1. CASE MonitorTick
  <2>1. clock \in Int /\ clock' = clock + 1 /\ clock' \in 0 .. MaxTime /\ Retention \in Int
        /\ clock' - Retention = (clock - Retention) + 1 /\ UNCHANGED <<target, events, sweep, probes>>
    BY <1>0, <1>1, MonitorAssumption DEF MonitorTick, MonitorTypeOK
  <2>2. MonitorTypeOK'
    BY <1>0, <2>1 DEF MonitorTypeOK, Observation
  <2>3. ASSUME NEW t \in Target
        PROVE  LogsRuns(t)' /\ LogIsSound(t)' /\ RoundIsSound(t)'
    <3>1. events[t] \in SUBSET Observation /\ probes[t] \in SUBSET Observation /\ clock - Retention \in Int
      BY <1>0, <2>1 DEF MonitorTypeOK
    <3>2. RunsKept(events[t], probes[t], (clock - Retention) + 1) /\ RowsFit(events[t], probes[t], clock + 1)
      BY <1>0, <2>1, <3>1, WaitingKeeps DEF LogsRuns, LogIsSound
    <3>3. LogsRuns(t)' /\ LogIsSound(t)'
      BY <2>1, <3>2 DEF LogsRuns, LogIsSound
    <3>4. \A p \in probes[t] : p.at < clock => p.at < clock'
      BY <2>1, <3>1, MonitorAssumption DEF Observation
    <3>5. RoundIsSound(t)'
      BY <1>0, <2>1, <3>4 DEF RoundIsSound, Newest, Flipped
    <3>6. QED
      BY <3>3, <3>5
  <2>4. QED
    BY <2>2, <2>3 DEF MonitorInv
<1>2. ASSUME NEW t \in Target, CreateTarget(t)
      PROVE  MonitorInv'
  BY <1>0, <1>2, TargetsChange DEF CreateTarget, MonitorTypeOK
<1>3. ASSUME NEW t \in Target, NEW how \in {"active", "paused"}, UpdateTarget(t, how)
      PROVE  MonitorInv'
  BY <1>0, <1>3, TargetsChange DEF UpdateTarget, MonitorTypeOK
<1>4. ASSUME NEW t \in Target, DeleteTarget(t)
      PROVE  MonitorInv'
  BY <1>0, <1>4, TargetsChange DEF DeleteTarget, MonitorTypeOK
<1>5. CASE SweepReads
  <2> DEFINE active == {t \in Target : target[t].state = "active"}
             latest == [t \in Target |-> IF t \in active THEN Newest(events[t]) ELSE {}]
  <2>1. sweep' = [at |-> "probing", targets |-> active, alerts |-> {}, latest |-> latest]
        /\ UNCHANGED <<clock, target, events, probes>>
    BY <1>5 DEF SweepReads
  <2>2. latest \in [Target -> SUBSET Observation]
    BY <1>0 DEF MonitorTypeOK, Newest
  <2>3. \A t \in Target : t \in active => latest[t] = Newest(events[t])
    OBVIOUS
  <2>4. ASSUME NEW t \in Target
        PROVE  RoundIsSound(t)'
    <3>1. Newest(events[t])' = Newest(events[t])
      BY <2>1 DEF Newest
    <3> HIDE DEF active, latest
    <3>2. QED
      BY <1>5, <2>1, <2>3, <3>1 DEF RoundIsSound, SweepReads
  <2>5. sweep' \in [at : {"resting", "probing", "publishing"}, targets : SUBSET Target,
                    latest : [Target -> SUBSET Observation], alerts : SUBSET Target]
    BY <2>1, <2>2
  <2>6. QED
    BY <2>1, <2>4, <2>5, RoundsRest
<1>6. CASE SweepCommits
  BY <1>6, SweepCommitsKeep
<1>7. CASE SweepFails \/ SweepPublishes \/ SweepStops
  <2>1. sweep' = Resting /\ UNCHANGED <<clock, target, events, probes>>
    BY <1>7 DEF SweepFails, SweepPublishes, SweepStops
  <2>2. \A t \in Target : RoundIsSound(t)'
    BY <2>1 DEF RoundIsSound, Resting
  <2>3. sweep' \in [at : {"resting", "probing", "publishing"}, targets : SUBSET Target,
                    latest : [Target -> SUBSET Observation], alerts : SUBSET Target]
    BY <2>1 DEF Resting
  <2>4. QED
    BY <2>1, <2>2, <2>3, RoundsRest
<1>8. CASE UNCHANGED monitorVars
  <2>1. UNCHANGED <<clock, target, events, sweep, probes>>
    BY <1>8 DEF monitorVars
  <2>2. \A t \in Target : RoundIsSound(t)'
    BY <1>0, <2>1 DEF RoundIsSound, Newest, Flipped
  <2>3. QED
    BY <1>0, <2>1, <2>2, RoundsRest DEF MonitorTypeOK
<1>9. CASE MonitorNext
  BY <1>9, <1>1, <1>2, <1>3, <1>4, <1>5, <1>6, <1>7 DEF MonitorNext
<1>10. QED
  BY <1>8, <1>9

\* The uptime bar and rate drawn from the kept changes of status are those of
\* the single probes, and a round's alerts are the flips it committed
\* (record_probe, purge_older_than, build_uptime_window, run_monitor_sweep_once).
THEOREM MonitorIsTruthful == MonitorSpec => []MonitorTellsTheTruth
<1>1. QED
  BY MonitorInvInit, MonitorInvStep, TruthFollows, PTL DEF MonitorSpec

-----------------------------------------------------------------------------
(* The services side by side.                                             *)

\* A step of the sum is a step of one service and leaves the others alone.
LEMMA ServicesRunApart ==
    ServicesSpec => /\ AccountsSpec /\ RolesSpec /\ KnowledgeSpec /\ HubSpec
                    /\ SummarySpec /\ MonitorSpec /\ ConversationSpec /\ ModelCallsSpec
<1> DEFINE all == <<service, accountVars, rolesVars, knowledgeVars, hubVars, summaryVars, monitorVars,
                    conversationVars, modelVars>>
<1>1. ServicesInit => /\ AccountsInit /\ RolesInit /\ KnowledgeInit /\ HubInit
                      /\ SummaryInit /\ MonitorInit /\ ConversationInit /\ ModelCallsInit
  BY DEF ServicesInit
<1>2. [ServicesNext]_all => /\ [AccountsNext]_accountVars /\ [RolesNext]_rolesVars
                            /\ [KnowledgeNext]_knowledgeVars /\ [HubNext]_hubVars
                            /\ [SummaryNext]_summaryVars /\ [MonitorNext]_monitorVars
                            /\ [ConversationNext]_conversationVars /\ [ModelCallsNext]_modelVars
  BY DEF ServicesNext, OnlyAccounts, OnlyRoles, OnlyKnowledge, OnlyHub, OnlySummary, OnlyMonitor, OnlyConversation,
         OnlyModels
<1>3. QED
  BY <1>1, <1>2, PTL DEF ServicesSpec, AccountsSpec, RolesSpec, KnowledgeSpec, HubSpec, SummarySpec, MonitorSpec,
                         ConversationSpec, ModelCallsSpec

LEMMA MonitorTypes == MonitorSpec => []MonitorTypeOK
<1>1. MonitorInv => MonitorTypeOK
  BY DEF MonitorInv
<1>2. QED
  BY <1>1, MonitorInvInit, MonitorInvStep, PTL DEF MonitorSpec

LEMMA SummaryTypes == SummarySpec => []SummaryTypeOK
<1>1. SummaryInv => SummaryTypeOK
  BY DEF SummaryInv
<1>2. QED
  BY <1>1, SummaryInvInit, SummaryInvStep, PTL DEF SummarySpec

Running == service \in {"accounts", "roles", "knowledge", "hub", "summary", "monitor", "conversation", "models"}

\* Each service keeps the types of its variables, whichever of them runs.
THEOREM ServicesKeepTheirTypes == ServicesSpec => []ServicesTypeOK
<1>1. AccountsInv => AccountsTypeOK
  BY DEF AccountsInv
<1>2. RolesInv => RolesTypeOK
  BY DEF RolesInv
<1>3. ConversationInv => ConversationTypeOK
  BY DEF ConversationInv
<1>4. ServicesInit => Running
  BY DEF ServicesInit, Running
<1>5. Running /\ [ServicesNext]_<<service, accountVars, rolesVars, knowledgeVars, hubVars,
                                 summaryVars, monitorVars, conversationVars, modelVars>> => Running'
  BY DEF Running, ServicesNext, OnlyAccounts, OnlyRoles, OnlyKnowledge, OnlyHub, OnlySummary, OnlyMonitor,
         OnlyConversation, OnlyModels
<1>6. /\ Running /\ AccountsTypeOK /\ RolesTypeOK /\ KnowledgeTypeOK /\ HubTypeOK
      /\ SummaryTypeOK /\ MonitorTypeOK /\ ConversationTypeOK /\ ModelCallsTypeOK
      => ServicesTypeOK
  BY DEF Running, ServicesTypeOK
<1>7. QED
  BY <1>1, <1>2, <1>3, <1>4, <1>5, <1>6, ServicesRunApart, AccountsInvariant, RolesInvariant, ConversationInvariant,
     KnowledgeKeepsItsTypes, QueuesAreBounded, FallbackIsConfigured, MonitorTypes, SummaryTypes, PTL DEF ServicesSpec
=============================================================================

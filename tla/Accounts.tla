------------------------------ MODULE Accounts ------------------------------
(***************************************************************************)
(* User accounts and login sessions: services/auth.py, crud/user.py and    *)
(* the handlers of api/v1/auth.py, users.py and me.py.                     *)
(*                                                                         *)
(* Every transaction locks user rows (FOR NO KEY UPDATE) before it writes. *)
(* What reads before it has the lock, or locks several rows one by one, is *)
(* several steps (login, refresh, disable, delete).  From its last lock to *)
(* its commit a transaction is one step: it reads only rows it has locked, *)
(* and waits for nobody.  Callers have been authorised; who they are       *)
(* matters only in that nobody removes or resets himself.  Rows are read   *)
(* as last committed.                                                      *)
(***************************************************************************)
EXTENDS Integers, FiniteSets, Functions

CONSTANTS
    User,           \* users.id, in the order in which rows are locked
    Superuser,      \* rows with is_superuser: no operation changes the column
    Password,
    Family,         \* refresh_session_families.id, one for each login
    Request,        \* requests with a transaction of several steps
    None,
    Visitor,        \* bound on the accounts that log in and change passwords
    MaxEvents,      \* bound on the security events of all accounts
    MaxTokens       \* bound on the tokens issued in a family

ASSUME AccountsAssumption ==
    \* init_db.py creates a superuser.
    /\ User \subseteq Nat \ {0} /\ Superuser \subseteq User /\ Superuser # {} /\ Visitor \subseteq User
    /\ None \notin Request /\ None \notin Family
    /\ Password # {} /\ None \notin Password
    /\ MaxTokens \in Nat \ {0}

VARIABLES
    account,    \* the users table: [state, active, version, password]
    family,     \* families and their tokens: [state, user, version, live, issued, password, since]
    lock,       \* which request holds the lock on a user row
    request,    \* the requests in flight
    since       \* history: security events of an account so far

accountVars == <<account, family, lock, request, since>>

NoFamily == [state |-> "absent", user |-> 0, version |-> 0, live |-> {},
             issued |-> 0, password |-> None, since |-> 0]
Idle == [at |-> "idle", user |-> 0, password |-> None, family |-> None, token |-> 0,
         rest |-> {}, seen |-> {}]

Live(u) == account[u].state = "live"
\* The rows _lock_active_superuser_ids selects.
Administers(u) == u \in Superuser /\ Live(u) /\ account[u].active

AccountsTypeOK ==
    /\ account \in [User -> [state : {"absent", "live", "deleted", "purged"},
                             active : BOOLEAN, version : Nat,
                             password : Password]]
    /\ family \in [Family -> [state : {"absent", "open", "revoked", "expired"},
                              user : User \cup {0}, version : Nat,
                              live : SUBSET (1 .. MaxTokens), issued : 0 .. MaxTokens,
                              password : Password \cup {None}, since : Nat]]
    /\ lock \in [User -> Request \cup {None}]
    /\ request \in [Request -> [at : {"idle", "verified", "presented", "locking"},
                                user : User \cup {0}, password : Password \cup {None},
                                family : Family \cup {None}, token : 0 .. MaxTokens,
                                rest : SUBSET User, seen : SUBSET User]]
    /\ since \in [User -> Nat]

AccountsInit ==
    /\ \E pw \in Password :
         account = [u \in User |->
             [state |-> IF u \in Superuser THEN "live" ELSE "absent",
              active |-> TRUE, version |-> 0, password |-> pw]]
    /\ family = [f \in Family |-> NoFamily]
    /\ lock = [u \in User |-> None]
    /\ request = [r \in Request |-> Idle]
    /\ since = [u \in User |-> 0]

(***************************************************************************)
(* Locks                                                                   *)
(***************************************************************************)
Unlocked(u) == lock[u] = None
\* The end of a transaction gives back the locks of its request.
Ends(r) ==
    /\ lock' = [u \in User |-> IF lock[u] = r THEN None ELSE lock[u]]
    /\ request' = [request EXCEPT ![r] = Idle]
Rejected(r) == Ends(r) /\ UNCHANGED <<account, family, since>>

(***************************************************************************)
(* Families.  A refresh or access token names its user, family and         *)
(* version; token n of a family is its n-th generation.                    *)
(***************************************************************************)
Close(f, how) ==
    [family EXCEPT ![f].state = IF @ = "open" THEN how ELSE @]

\* The condition every authorised request puts to the tables.
Usable(f) ==
    LET u == family[f].user IN
    /\ family[f].state = "open"
    /\ Live(u) /\ account[u].active
    /\ family[f].version = account[u].version

\* revoke_all_refresh_sessions
RevokeAll(u) ==
    family' = [f \in Family |->
        IF family[f].user = u /\ family[f].state = "open"
        THEN [family[f] EXCEPT !.state = "revoked"] ELSE family[f]]
SecurityEvent(u) ==
    /\ FoldFunction(+, 0, since) < MaxEvents
    /\ since' = [since EXCEPT ![u] = @ + 1]

(***************************************************************************)
(* Login: the hash is read and verified with no transaction open; the row  *)
(* is then read again under its lock.                                      *)
(***************************************************************************)
LoginVerifies(r, u, pw) ==
    /\ request[r].at = "idle"
    /\ Live(u) /\ account[u].active /\ account[u].password = pw
    /\ request' = [request EXCEPT ![r] = [Idle EXCEPT !.at = "verified", !.user = u, !.password = pw]]
    /\ UNCHANGED <<account, family, lock, since>>

\* A wrong authenticate: the hash verified before the lock is good enough.
VerifiesOnce(r) == TRUE
\* A hash that has changed is verified again, under the lock.
VerifiesAgain(r) == account[request[r].user].password = request[r].password
MayLogIn(r) ==
    LET u == request[r].user IN
    Live(u) /\ account[u].active /\ VerifiesAgain(r)

\* create_login_session, in the transaction that has the lock.
LoginCommits(r) ==
    LET u == request[r].user IN
    /\ request[r].at = "verified" /\ Unlocked(u)
    /\ IF MayLogIn(r)
       THEN \E f \in Family :
              /\ family[f].state = "absent"
              /\ family' = [family EXCEPT ![f] =
                     [state |-> "open", user |-> u, version |-> account[u].version, live |-> {1},
                      issued |-> 1, password |-> request[r].password, since |-> since[u]]]
       ELSE UNCHANGED family
    /\ Ends(r) /\ UNCHANGED <<account, since>>

(***************************************************************************)
(* Refresh, with any generation of a token that was issued.  (Presenting   *)
(* one of a family that has ended already changes nothing.)                *)
(***************************************************************************)
RefreshPresented(r, f, n) ==
    /\ request[r].at = "idle"
    /\ family[f].state = "open" /\ n \in 1 .. family[f].issued
    /\ request' = [request EXCEPT ![r] = [Idle EXCEPT !.at = "presented",
                                            !.user = family[f].user, !.family = f, !.token = n]]
    /\ UNCHANGED <<account, family, lock, since>>

Rotate(f, n) ==
    [family EXCEPT ![f].live = (@ \ {n}) \cup {family[f].issued + 1}, ![f].issued = @ + 1]

\* rotate_refresh_session, with the lock of the user, which every writer of the
\* family has.  A family that has ended, and a token that has been used, end the
\* family; the handler commits that and answers 401.
RefreshCommits(r) ==
    LET f == request[r].family
        n == request[r].token IN
    /\ request[r].at = "presented" /\ Unlocked(request[r].user)
    /\ \/ /\ f = None
          /\ UNCHANGED family
       \/ /\ f # None /\ family[f].state = "expired"
          /\ UNCHANGED family
       \/ /\ f # None /\ family[f].state \in {"open", "revoked"}
          /\ n \notin family[f].live \/ ~Usable(f)
          /\ family' = Close(f, "revoked")
       \/ /\ f # None /\ Usable(f) /\ n \in family[f].live
          /\ family[f].issued < MaxTokens
          /\ family' = Rotate(f, n)
    /\ Ends(r) /\ UNCHANGED <<account, since>>

\* revoke_refresh_session: any generation of the family's tokens ends it.
Logout(f) ==
    /\ family[f].state = "open" /\ Unlocked(family[f].user)
    /\ family' = Close(f, "revoked")
    /\ UNCHANGED <<account, lock, request, since>>

\* expires_at of the newest token, and of the family, has passed.
FamilyExpires(f) ==
    /\ family[f].state \in {"open", "revoked"}
    /\ family' = [family EXCEPT ![f].state = "expired"]
    /\ UNCHANGED <<account, lock, request, since>>

\* A token of a family whose row is gone names nothing.
Forget(F) ==
    /\ family' = [f \in Family |-> IF f \in F THEN NoFamily ELSE family[f]]
    /\ request' = [r \in Request |->
           IF request[r].family \in F THEN [request[r] EXCEPT !.family = None] ELSE request[r]]

\* purge_expired_refresh_history
CleanupPurges(f) ==
    /\ family[f].state = "expired"
    /\ Forget({f})
    /\ UNCHANGED <<account, lock, since>>

(***************************************************************************)
(* Operations on one account                                               *)
(***************************************************************************)
\* register and create_user
CreateUser(u, pw) ==
    /\ account[u].state = "absent"
    /\ account' = [account EXCEPT ![u].state = "live", ![u].password = pw]
    /\ UNCHANGED <<family, lock, request, since>>

\* change_password and reset_password, with the sessions they revoke.
SetPassword(u, pw) ==
    /\ Live(u) /\ Unlocked(u) /\ SecurityEvent(u)
    /\ account' = [account EXCEPT ![u].password = pw, ![u].version = @ + 1]
    /\ RevokeAll(u)
    /\ UNCHANGED <<lock, request>>

EnableUser(u) ==
    /\ Live(u) /\ Unlocked(u) /\ ~account[u].active
    /\ account' = [account EXCEPT ![u].active = TRUE]
    /\ UNCHANGED <<family, lock, request, since>>

\* restore leaves is_active as it was
RestoreUser(u) ==
    /\ account[u].state = "deleted" /\ Unlocked(u)
    /\ account' = [account EXCEPT ![u].state = "live"]
    /\ UNCHANGED <<family, lock, request, since>>

\* hard_delete of a user no proposal names; the foreign keys take the sessions.
PurgeUser(u) ==
    /\ account[u].state = "deleted" /\ Unlocked(u)
    /\ account' = [account EXCEPT ![u].state = "purged"]
    /\ Forget({f \in Family : family[f].user = u})
    /\ UNCHANGED <<lock, since>>

(***************************************************************************)
(* Disabling and deleting: the active superusers are selected at once,     *)
(* locked one by one in id order and looked at again as each lock comes,   *)
(* then the target is locked.                                              *)
(***************************************************************************)
RemoveStarts(r, u) ==
    /\ request[r].at = "idle" /\ Live(u)
    /\ request' = [request EXCEPT ![r] = [Idle EXCEPT !.at = "locking", !.user = u,
                                            !.rest = {s \in User : Administers(s)}]]
    /\ UNCHANGED <<account, family, lock, since>>

IsFirst(s, S) == s \in S /\ \A t \in S : s <= t

\* A wrong _lock_active_superuser_ids: the rows are selected, not locked.
RemoveReadsNext(r) ==
    /\ request[r].at = "locking" /\ request[r].rest # {}
    /\ request' = [request EXCEPT ![r].rest = {}, ![r].seen = {s \in @ \cup request[r].rest : Administers(s)}]
    /\ UNCHANGED <<account, family, lock, since>>

RemoveLocksNext(r) ==
    /\ request[r].at = "locking"
    /\ \E s \in request[r].rest :
          /\ IsFirst(s, request[r].rest) /\ Unlocked(s)
          /\ IF Administers(s)
             THEN /\ lock' = [lock EXCEPT ![s] = r]
                  /\ request' = [request EXCEPT ![r].rest = @ \ {s}, ![r].seen = @ \cup {s}]
             ELSE /\ request' = [request EXCEPT ![r].rest = @ \ {s}]
                  /\ UNCHANGED lock
    /\ UNCHANGED <<account, family, since>>

\* LastActiveSuperuserError: no other active superuser is locked.
LastOne(r) ==
    LET u == request[r].user IN
    Administers(u) /\ ~\E s \in request[r].seen : s # u

\* The target is locked and looked at again; then the change, the new version
\* and the revoked families are one commit.  Which of the two operations it is
\* matters to nothing before.
RemoveCommits(r, how) ==
    LET u == request[r].user IN
    /\ request[r].at = "locking" /\ request[r].rest = {}
    /\ lock[u] \in {None, r}
    /\ IF ~Live(u) \/ LastOne(r)
       THEN UNCHANGED <<account, family, since>>
       ELSE /\ SecurityEvent(u)
            /\ account' = [account EXCEPT
                   ![u].state = IF how = "delete" THEN "deleted" ELSE @,
                   ![u].active = IF how = "disable" THEN FALSE ELSE @,
                   ![u].version = @ + 1]
            /\ RevokeAll(u)
    /\ Ends(r)

\* The row a request waits for, and who has it.
Wanted(r) ==
    CASE request[r].at \in {"verified", "presented"} -> request[r].user
      [] request[r].at = "locking" /\ request[r].rest = {} -> request[r].user
      [] request[r].at = "locking" -> CHOOSE s \in request[r].rest : IsFirst(s, request[r].rest)
      [] OTHER -> 0
WaitsFor(r) ==
    IF Wanted(r) \in User /\ lock[Wanted(r)] # r THEN lock[Wanted(r)] ELSE None

\* Requests that wait for each other in a circle.
Circle(S) ==
    /\ S # {}
    /\ {WaitsFor(r) : r \in S} = S

\* A target that was no active superuser when the superusers were selected is
\* locked out of order; the database ends one of the requests that then wait.
DeadlockAborts(r) ==
    /\ \E S \in SUBSET Request : r \in S /\ Circle(S)
    /\ Rejected(r)

AccountsNext ==
    \/ \E r \in Request, u \in Visitor, pw \in Password : LoginVerifies(r, u, pw)
    \/ \E r \in Request : LoginCommits(r)
    \/ \E r \in Request, f \in Family, n \in 1 .. MaxTokens : RefreshPresented(r, f, n)
    \/ \E r \in Request : RefreshCommits(r)
    \/ \E f \in Family : Logout(f) \/ FamilyExpires(f) \/ CleanupPurges(f)
    \/ \E u \in Visitor, pw \in Password : CreateUser(u, pw) \/ SetPassword(u, pw)
    \/ \E u \in User : EnableUser(u) \/ RestoreUser(u) \/ PurgeUser(u)
    \/ \E r \in Request, u \in User : RemoveStarts(r, u)
    \/ \E r \in Request : RemoveLocksNext(r)
    \/ \E r \in Request, how \in {"disable", "delete"} : RemoveCommits(r, how)
    \/ \E r \in Request : DeadlockAborts(r)

AccountsSpec == AccountsInit /\ [][AccountsNext]_accountVars

(***************************************************************************)
(* Properties                                                              *)
(***************************************************************************)
\* However removals interleave, an active superuser is left
\* (_lock_active_superuser_ids and the checks of update and soft_delete).
AlwaysAnAdministrator == \E s \in User : Administers(s)

\* A session that can be used has one token that can still be refreshed (two
\* requests with the same token never both get a successor); and it was opened
\* with the password the account has, no disabling, deletion or change of
\* password having come in between, even when the account was enabled or
\* restored afterwards (rotate_refresh_session, create_login_session,
\* revoke_all_refresh_sessions).
SessionsAreCurrent ==
    \A f \in Family : Usable(f) =>
        /\ Cardinality(family[f].live) = 1
        /\ family[f].password = account[family[f].user].password
        /\ family[f].since = since[family[f].user]
=============================================================================

--------------------------- MODULE AccountsProofs ---------------------------
(***************************************************************************)
(* Accounts for any number of users, requests, families and tokens: an     *)
(* active superuser is always left, and a session that can be used is      *)
(* current.                                                                *)
(*                                                                         *)
(* What a removal has looked at under a lock stays true while it has the   *)
(* lock (SeenAreHeld).  Passwords, disabling and deletion change only with *)
(* the version of the account, and a family keeps the version it was       *)
(* opened with (FamiliesFollow).                                           *)
(***************************************************************************)
EXTENDS Accounts, TLAPS, FiniteSetTheorems

Accounts == [state : {"absent", "live", "deleted", "purged"}, active : BOOLEAN, version : Nat,
             password : Password]
Families == [state : {"absent", "open", "revoked", "expired"}, user : User \cup {0}, version : Nat,
             live : SUBSET (1 .. MaxTokens), issued : 0 .. MaxTokens,
             password : Password \cup {None}, since : Nat]
Requests == [at : {"idle", "verified", "presented", "locking"}, user : User \cup {0},
             password : Password \cup {None}, family : Family \cup {None}, token : 0 .. MaxTokens,
             rest : SUBSET User, seen : SUBSET User]

\* The superusers a removal has locked are what it takes them for.
SeenAreHeld ==
    \A r \in Request : \A s \in request[r].seen : lock[s] = r /\ Administers(s)

\* An open family: its one live token is the newest, and while the account has
\* the version it was opened with, the account has the password too.
FamiliesFollow ==
    /\ \A u \in User : account[u].version = since[u]
    /\ \A f \in Family : family[f].state = "open" =>
          LET u == family[f].user IN
          /\ u \in User /\ account[u].state # "absent"
          /\ family[f].live = {family[f].issued} /\ family[f].issued > 0
          /\ family[f].since = family[f].version /\ family[f].version <= account[u].version
          /\ family[f].version = account[u].version => family[f].password = account[u].password

\* A request names a user.
RequestsName ==
    \A r \in Request :
        /\ request[r].at # "idle" => request[r].user \in User
        /\ request[r].at = "verified" => request[r].password \in Password

AccountsInv ==
    AccountsTypeOK /\ RequestsName /\ SeenAreHeld /\ AlwaysAnAdministrator /\ FamiliesFollow

-----------------------------------------------------------------------------
(* Types.                                                                  *)

Typed ==
    /\ account \in [User -> Accounts] /\ family \in [Family -> Families]
    /\ lock \in [User -> Request \cup {None}] /\ request \in [Request -> Requests]
    /\ since \in [User -> Nat]

LEMMA TypedIsTypeOK == AccountsTypeOK <=> Typed
BY DEF AccountsTypeOK, Typed, Accounts, Families, Requests

LEMMA BlankRecords == Idle \in Requests /\ NoFamily \in Families
BY AccountsAssumption DEF Idle, NoFamily, Requests, Families

LEMMA Assumed ==
    /\ User \subseteq Nat /\ 0 \notin User /\ Superuser \subseteq User /\ Superuser # {} /\ Visitor \subseteq User
    /\ MaxTokens \in Nat /\ MaxTokens > 0 /\ None \notin Request
BY AccountsAssumption

\* The end of a request gives back only its own locks.
LEMMA Ending ==
    ASSUME Typed, NEW r \in Request, Ends(r)
    PROVE  /\ lock' \in [User -> Request \cup {None}] /\ request' \in [Request -> Requests]
           /\ request'[r] = Idle
           /\ \A q \in Request \ {r} : request'[q] = request[q]
           /\ \A u \in User : lock[u] # r => lock'[u] = lock[u]
BY BlankRecords DEF Typed, Ends

LEMMA Revoking ==
    ASSUME Typed, NEW u \in User, RevokeAll(u)
    PROVE  /\ family' \in [Family -> Families]
           /\ \A f \in Family : family'[f].state = "open" => family'[f] = family[f] /\ family[f].user # u
<1>1. \A f \in Family : [family[f] EXCEPT !.state = "revoked"] \in Families
                        /\ [family[f] EXCEPT !.state = "revoked"].state = "revoked"
  BY DEF Typed, Families
<1>2. \A f \in Family : family[f] \in Families
  BY DEF Typed
<1>3. QED
  BY <1>1, <1>2 DEF RevokeAll

LEMMA Closing ==
    ASSUME Typed, NEW f \in Family, NEW how \in {"revoked", "expired"}, family' = Close(f, how)
    PROVE  /\ family' \in [Family -> Families]
           /\ \A g \in Family : family'[g].state = "open" => family'[g] = family[g]
BY DEF Typed, Families, Close

LEMMA Forgetting ==
    ASSUME Typed, NEW F \in SUBSET Family, Forget(F)
    PROVE  /\ family' \in [Family -> Families] /\ request' \in [Request -> Requests]
           /\ \A g \in Family : family'[g].state = "open" => family'[g] = family[g] /\ g \notin F
           /\ \A r \in Request : /\ request'[r].at = request[r].at /\ request'[r].user = request[r].user
                                 /\ request'[r].password = request[r].password
                                 /\ request'[r].seen = request[r].seen
<1>1. NoFamily \in Families /\ NoFamily.state = "absent"
  BY BlankRecords DEF NoFamily
<1>2. /\ family' \in [Family -> Families]
      /\ \A g \in Family : family'[g].state = "open" => family'[g] = family[g] /\ g \notin F
  BY <1>1 DEF Typed, Forget
<1>3. \A r \in Request : [request[r] EXCEPT !.family = None] \in Requests
  BY DEF Typed, Requests
<1>4. request' \in [Request -> Requests]
  BY <1>3 DEF Typed, Forget
<1>5. ASSUME NEW r \in Request
      PROVE  /\ request'[r].at = request[r].at /\ request'[r].user = request[r].user
             /\ request'[r].password = request[r].password
             /\ request'[r].seen = request[r].seen
  <2>1. request[r] \in Requests
    BY DEF Typed
  <2>2. request'[r] = request[r] \/ request'[r] = [request[r] EXCEPT !.family = None]
    BY DEF Forget
  <2>3. QED
    BY <2>1, <2>2 DEF Requests
<1>6. QED
  BY <1>2, <1>4, <1>5

-----------------------------------------------------------------------------
(* Families.                                                               *)

\* What holds of a family f while it is open.
Follows(f) ==
    family[f].state = "open" =>
        LET u == family[f].user IN
        /\ u \in User /\ account[u].state # "absent"
        /\ family[f].live = {family[f].issued} /\ family[f].issued > 0
        /\ family[f].since = family[f].version /\ family[f].version <= account[u].version
        /\ family[f].version = account[u].version => family[f].password = account[u].password

\* Families nobody opens go on following while accounts only move on: an
\* account whose password changes gets a new version.
AccountsMove ==
    \A u \in User :
        /\ account'[u].version >= account[u].version
        /\ account[u].state # "absent" => account'[u].state # "absent"
        /\ account'[u].version = account[u].version /\ account[u].state # "absent" =>
              account'[u].password = account[u].password

LEMMA StillFollows ==
    ASSUME Typed, account' \in [User -> Accounts], AccountsMove, NEW f \in Family, Follows(f),
           family'[f].state = "open" => family'[f] = family[f]
    PROVE  Follows(f)'
BY DEF Typed, Accounts, Families, AccountsMove, Follows

LEMMA Following == FamiliesFollow <=> (\A u \in User : account[u].version = since[u]) /\ \A f \in Family : Follows(f)
BY DEF FamiliesFollow, Follows

-----------------------------------------------------------------------------
(* What a step keeps when it removes nobody.                               *)

AllKept == Typed' /\ RequestsName' /\ SeenAreHeld' /\ AlwaysAnAdministrator' /\ FamiliesFollow'

Now == Typed /\ RequestsName /\ SeenAreHeld /\ AlwaysAnAdministrator /\ FamiliesFollow

\* Nobody loses anything, and requests end, begin or keep their locks.
Harmless ==
    /\ \A u \in User : Administers(u) => Administers(u)'
    /\ \A q \in Request :
          \/ /\ request'[q].seen = {}
             /\ request'[q].at # "idle" => request'[q].user \in User
             /\ request'[q].at = "verified" => request'[q].password \in Password
          \/ /\ request'[q].at = request[q].at /\ request'[q].user = request[q].user
             /\ request'[q].password = request[q].password
             /\ request'[q].seen = request[q].seen
             /\ \A u \in User : lock[u] = q => lock'[u] = q

LEMMA HarmlessKeeps ==
    ASSUME Now, Harmless
    PROVE  RequestsName' /\ SeenAreHeld' /\ AlwaysAnAdministrator'
<1>1. RequestsName'
  BY DEF Now, RequestsName, Harmless
<1>2. SeenAreHeld'
  <2> SUFFICES ASSUME NEW q \in Request, NEW s \in request'[q].seen
               PROVE  lock'[s] = q /\ Administers(s)'
    BY DEF SeenAreHeld
  <2>1. request'[q].seen = request[q].seen /\ \A u \in User : lock[u] = q => lock'[u] = q
    BY DEF Harmless
  <2>2. s \in User /\ lock[s] = q /\ Administers(s)
    BY <2>1 DEF Now, SeenAreHeld, Typed, Requests
  <2>3. QED
    BY <2>1, <2>2 DEF Harmless
<1>3. AlwaysAnAdministrator'
  BY DEF Now, AlwaysAnAdministrator, Harmless
<1>4. QED
  BY <1>1, <1>2, <1>3

LEMMA SameAccounts == UNCHANGED account => \A u \in User : Administers(u) => Administers(u)'
BY DEF Administers, Live

\* A request that begins.
LEMMA Beginning ==
    ASSUME Now, NEW r \in Request, NEW k \in Requests, k.seen = {}, k.user \in User,
           k.at = "verified" => k.password \in Password,
           request' = [request EXCEPT ![r] = k], UNCHANGED <<account, family, lock, since>>
    PROVE  AllKept
<1>1. request'[r] = k /\ \A q \in Request \ {r} : request'[q] = request[q]
  BY DEF Now, Typed
<1>2. Typed'
  BY DEF Now, Typed
<1>3. Harmless
  BY <1>1, SameAccounts DEF Harmless
<1>4. FamiliesFollow'
  BY DEF Now, FamiliesFollow
<1>5. QED
  BY <1>2, <1>3, <1>4, HarmlessKeeps DEF AllKept

LEMMA BeginSteps ==
    ASSUME Now, NEW r \in Request,
           \/ \E u \in Visitor, pw \in Password : LoginVerifies(r, u, pw)
           \/ \E f \in Family, n \in 1 .. MaxTokens : RefreshPresented(r, f, n)
           \/ \E u \in User : RemoveStarts(r, u)
    PROVE  AllKept
<1>1. Idle \in Requests /\ Idle.seen = {}
  BY BlankRecords DEF Idle
<1>2. ASSUME NEW u \in Visitor, NEW pw \in Password, LoginVerifies(r, u, pw)
      PROVE  AllKept
  <2> DEFINE k == [Idle EXCEPT !.at = "verified", !.user = u, !.password = pw]
  <2>1. k \in Requests /\ k.seen = {} /\ k.user = u /\ k.password = pw /\ u \in User
    BY <1>1, Assumed DEF Requests
  <2>2. request' = [request EXCEPT ![r] = k] /\ UNCHANGED <<account, family, lock, since>>
    BY <1>2 DEF LoginVerifies
  <2> HIDE DEF k
  <2>3. QED
    BY <2>1, <2>2, Beginning
<1>3. ASSUME NEW f \in Family, NEW n \in 1 .. MaxTokens, RefreshPresented(r, f, n)
      PROVE  AllKept
  <2> DEFINE k == [Idle EXCEPT !.at = "presented", !.user = family[f].user, !.family = f, !.token = n]
  <2>1. family[f].user \in User /\ n \in 0 .. MaxTokens
    <3>1. family[f].state = "open" /\ Follows(f)
      BY <1>3, Following DEF RefreshPresented, Now
    <3>2. QED
      BY <3>1, Assumed DEF Follows
  <2>2. k \in Requests /\ k.seen = {} /\ k.user \in User /\ k.at = "presented"
    BY <1>1, <2>1 DEF Requests
  <2>3. request' = [request EXCEPT ![r] = k] /\ UNCHANGED <<account, family, lock, since>>
    BY <1>3 DEF RefreshPresented
  <2> HIDE DEF k
  <2>4. QED
    BY <2>2, <2>3, Beginning
<1>4. ASSUME NEW u \in User, RemoveStarts(r, u)
      PROVE  AllKept
  <2> DEFINE k == [Idle EXCEPT !.at = "locking", !.user = u, !.rest = {s \in User : Administers(s)}]
  <2>1. k \in Requests /\ k.seen = {} /\ k.user \in User /\ k.at = "locking"
    BY <1>1 DEF Requests
  <2>2. request' = [request EXCEPT ![r] = k] /\ UNCHANGED <<account, family, lock, since>>
    BY <1>4 DEF RemoveStarts
  <2> HIDE DEF k
  <2>3. QED
    BY <2>1, <2>2, Beginning
<1>5. QED
  BY <1>2, <1>3, <1>4

-----------------------------------------------------------------------------
(* Steps of sessions: the accounts stay as they are.                       *)

\* A request that ends.
LEMMA EndingIsHarmless ==
    ASSUME Now, NEW r \in Request, Ends(r), UNCHANGED account
    PROVE  Harmless
<1>1. Idle.seen = {} /\ Idle.at = "idle"
  BY DEF Idle
<1>2. QED
  BY <1>1, Ending, SameAccounts, Assumed DEF Harmless, Now

LEMMA UntouchedMove ==
    ASSUME Typed, UNCHANGED account
    PROVE  AccountsMove /\ account' \in [User -> Accounts]
BY DEF AccountsMove, Typed, Accounts

\* The families are the only thing that may change, and nobody opens one.
LEMMA FamiliesOnly ==
    ASSUME Now, UNCHANGED <<account, since>>, \A f \in Family : family'[f].state = "open" => Follows(f)'
    PROVE  FamiliesFollow'
BY DEF Now, FamiliesFollow, Follows

LEMMA ClosingFollows ==
    ASSUME Now, UNCHANGED <<account, since>>,
           \A f \in Family : family'[f].state = "open" => family'[f] = family[f]
    PROVE  FamiliesFollow'
<1>1. \A f \in Family : Follows(f)
  BY Following DEF Now
<1>2. \A f \in Family : Follows(f)'
  BY <1>1, UntouchedMove, StillFollows DEF Now
<1>3. QED
  BY <1>2, FamiliesOnly

LEMMA LoginKeeps ==
    ASSUME Now, NEW r \in Request, LoginCommits(r)
    PROVE  AllKept
<1> DEFINE u == request[r].user
<1>1. u \in User /\ request[r].password \in Password
  BY DEF Now, RequestsName, LoginCommits
<1>2. Ends(r) /\ UNCHANGED <<account, since>>
  BY DEF LoginCommits
<1>3. Harmless
  BY <1>2, EndingIsHarmless
<1>4. CASE UNCHANGED family
  <2>1. FamiliesFollow'
    BY <1>2, <1>4, ClosingFollows
  <2>2. Typed'
    BY <1>2, <1>4, Ending DEF Now, Typed
  <2>3. QED
    BY <1>3, <2>1, <2>2, HarmlessKeeps DEF AllKept
<1>5. ASSUME NEW f \in Family, MayLogIn(r), family[f].state = "absent",
             family' = [family EXCEPT ![f] =
                     [state |-> "open", user |-> u, version |-> account[u].version, live |-> {1},
                      issued |-> 1, password |-> request[r].password, since |-> since[u]]]
      PROVE  AllKept
  <2> DEFINE k == [state |-> "open", user |-> u, version |-> account[u].version, live |-> {1},
                   issued |-> 1, password |-> request[r].password, since |-> since[u]]
  <2>1. account[u] \in Accounts /\ since[u] \in Nat /\ account[u].version = since[u]
    BY <1>1 DEF Now, Typed, FamiliesFollow
  <2>2. k \in Families
    BY <1>1, <2>1, Assumed DEF Accounts, Families
  <2>3. account[u].state = "live" /\ account[u].password = request[r].password
    BY <1>5 DEF MayLogIn, Live, VerifiesAgain
  <2>4. /\ k.state = "open" /\ k.user = u /\ k.version = account[u].version /\ k.live = {1}
        /\ k.issued = 1 /\ k.password = request[r].password /\ k.since = since[u]
    OBVIOUS
  <2>5. family' = [family EXCEPT ![f] = k]
    BY <1>5
  <2> HIDE DEF k
  <2>6. Typed'
    BY <1>2, <2>2, <2>5, Ending DEF Now, Typed
  <2>7. Follows(f)'
    <3>1. family'[f] = k /\ account' = account
      BY <1>2, <2>5 DEF Now, Typed
    <3>2. account[u].version <= account[u].version
      BY <2>1 DEF Accounts
    <3>3. QED
      BY <1>1, <2>1, <2>3, <2>4, <3>1, <3>2 DEF Follows
  <2>8. \A g \in Family \ {f} : Follows(g)'
    <3>1. \A g \in Family \ {f} : Follows(g) /\ family'[g] = family[g]
      BY <2>5, Following DEF Now, Typed
    <3>2. QED
      BY <1>2, <3>1, UntouchedMove, StillFollows DEF Now
  <2>9. QED
    BY <1>2, <1>3, <2>6, <2>7, <2>8, FamiliesOnly, HarmlessKeeps DEF AllKept
<1>6. QED
  BY <1>4, <1>5 DEF LoginCommits

LEMMA RefreshKeeps ==
    ASSUME Now, NEW r \in Request, RefreshCommits(r)
    PROVE  AllKept
<1> DEFINE f == request[r].family
           n == request[r].token
<1>1. Ends(r) /\ UNCHANGED <<account, since>>
  BY DEF RefreshCommits
<1>2. Harmless
  BY <1>1, EndingIsHarmless
<1>3. f \in Family \cup {None} /\ n \in 0 .. MaxTokens
  BY DEF Now, Typed, Requests
<1>4. CASE UNCHANGED family \/ (f \in Family /\ family' = Close(f, "revoked"))
  <2>1. family' \in [Family -> Families] /\ \A g \in Family : family'[g].state = "open" => family'[g] = family[g]
    BY <1>4, Closing DEF Now, Typed
  <2>2. FamiliesFollow'
    BY <1>1, <2>1, ClosingFollows
  <2>3. Typed'
    BY <1>1, <2>1, Ending DEF Now, Typed
  <2>4. QED
    BY <1>2, <2>2, <2>3, HarmlessKeeps DEF AllKept
<1>5. ASSUME NEW g \in Family, NEW m \in 0 .. MaxTokens,
             Usable(g), m \in family[g].live, family[g].issued < MaxTokens, family' = Rotate(g, m)
      PROVE  AllKept
  <2> DEFINE next == family[g].issued + 1
             live == (family[g].live \ {m}) \cup {next}
             k == [family[g] EXCEPT !.live = live, !.issued = next]
  <2>1. family[g] \in Families /\ next \in 1 .. MaxTokens /\ next \in 0 .. MaxTokens /\ next > 0
    BY <1>5, Assumed DEF Now, Typed, Families
  <2>2. Follows(g) /\ family[g].state = "open"
    BY <1>5, Following DEF Now, Usable
  <2>3. live = {next} /\ live \in SUBSET (1 .. MaxTokens)
    BY <1>5, <2>1, <2>2 DEF Follows
  <2>4. family' = [family EXCEPT ![g] = k]
    BY <1>5, <2>1 DEF Rotate, Families, Now, Typed
  <2> HIDE DEF next, live
  <2>5. k \in Families
    BY <2>1, <2>3 DEF Families
  <2>6. /\ k.live = {next} /\ k.issued = next /\ k.user = family[g].user /\ k.version = family[g].version
        /\ k.password = family[g].password /\ k.since = family[g].since
    BY <2>1, <2>3 DEF Families
  <2> HIDE DEF k
  <2>7. Typed'
    BY <1>1, <2>4, <2>5, Ending DEF Now, Typed
  <2>8. Follows(g)'
    <3>1. family'[g] = k /\ account' = account
      BY <1>1, <2>4 DEF Now, Typed
    <3>2. QED
      BY <2>1, <2>2, <2>6, <3>1 DEF Follows
  <2>9. \A h \in Family \ {g} : Follows(h)'
    <3>1. \A h \in Family \ {g} : Follows(h) /\ family'[h] = family[h]
      BY <2>4, Following DEF Now, Typed
    <3>2. QED
      BY <1>1, <3>1, UntouchedMove, StillFollows DEF Now
  <2>10. QED
    BY <1>1, <1>2, <2>7, <2>8, <2>9, FamiliesOnly, HarmlessKeeps DEF AllKept
<1>6. QED
  BY <1>3, <1>4, <1>5 DEF RefreshCommits

LEMMA FamilySteps ==
    ASSUME Now, NEW f \in Family, Logout(f) \/ FamilyExpires(f) \/ CleanupPurges(f)
    PROVE  AllKept
<1>1. UNCHANGED <<account, since, lock>>
  BY DEF Logout, FamilyExpires, CleanupPurges
<1>2. CASE Logout(f) \/ FamilyExpires(f)
  <2>1. \/ family' = Close(f, "revoked") \/ family' = [family EXCEPT ![f].state = "expired"]
    BY <1>2 DEF Logout, FamilyExpires
  <2>2. family' \in [Family -> Families] /\ \A g \in Family : family'[g].state = "open" => family'[g] = family[g]
    BY <2>1, Closing DEF Now, Typed, Families
  <2>3. UNCHANGED request
    BY <1>2 DEF Logout, FamilyExpires
  <2>4. Typed'
    BY <1>1, <2>2, <2>3 DEF Now, Typed
  <2>5. Harmless
    BY <1>1, <2>3, SameAccounts DEF Harmless
  <2>6. QED
    BY <1>1, <2>2, <2>4, <2>5, ClosingFollows, HarmlessKeeps DEF AllKept
<1>3. CASE CleanupPurges(f)
  <2>1. Forget({f})
    BY <1>3 DEF CleanupPurges
  <2>2. /\ family' \in [Family -> Families] /\ request' \in [Request -> Requests]
        /\ \A g \in Family : family'[g].state = "open" => family'[g] = family[g]
        /\ \A r \in Request : /\ request'[r].at = request[r].at /\ request'[r].user = request[r].user
                              /\ request'[r].password = request[r].password
                              /\ request'[r].seen = request[r].seen
    BY <2>1, Forgetting DEF Now
  <2>3. Typed'
    BY <1>1, <2>2 DEF Now, Typed
  <2>4. Harmless
    BY <1>1, <2>2, SameAccounts DEF Harmless
  <2>5. QED
    BY <1>1, <2>2, <2>3, <2>4, ClosingFollows, HarmlessKeeps DEF AllKept
<1>4. QED
  BY <1>2, <1>3

-----------------------------------------------------------------------------
(* Steps of accounts.                                                      *)

\* An account that changes, with nobody's session opened.
LEMMA AccountsFollow ==
    ASSUME Now, account' \in [User -> Accounts], AccountsMove,
           \A u \in User : account'[u].version = since'[u],
           \A f \in Family : family'[f].state = "open" => family'[f] = family[f]
    PROVE  FamiliesFollow'
<1>1. \A f \in Family : Follows(f)
  BY Following DEF Now
<1>2. \A f \in Family : Follows(f)'
  BY <1>1, StillFollows DEF Now
<1>3. QED
  BY <1>2 DEF FamiliesFollow, Follows

LEMMA OneAccount ==
    ASSUME Now, NEW u \in User, NEW k \in Accounts, account' = [account EXCEPT ![u] = k],
           k.version = account[u].version,
           account[u].state # "absent" => k.state # "absent" /\ k.password = account[u].password,
           UNCHANGED since,
           \A f \in Family : family'[f].state = "open" => family'[f] = family[f]
    PROVE  FamiliesFollow' /\ account' \in [User -> Accounts]
<1>1. account' \in [User -> Accounts] /\ account'[u] = k /\ \A v \in User \ {u} : account'[v] = account[v]
  BY DEF Now, Typed
<1>2. \A v \in User : account[v] \in Accounts /\ account[v].version = since[v]
  BY DEF Now, Typed, FamiliesFollow
<1>3. AccountsMove
  BY <1>1, <1>2 DEF AccountsMove, Accounts
<1>4. \A v \in User : account'[v].version = since'[v]
  BY <1>1, <1>2
<1>5. QED
  BY <1>1, <1>3, <1>4, AccountsFollow

LEMMA AccountSteps ==
    ASSUME Now, NEW u \in User,
           \/ EnableUser(u) \/ RestoreUser(u) \/ PurgeUser(u) \/ \E pw \in Password : CreateUser(u, pw)
    PROVE  AllKept
<1>1. account[u] \in Accounts /\ UNCHANGED <<lock, since>>
  BY DEF Now, Typed, EnableUser, RestoreUser, PurgeUser, CreateUser
<1>2. \E k \in Accounts :
        /\ account' = [account EXCEPT ![u] = k] /\ k.version = account[u].version
        /\ account[u].state # "absent" => k.state # "absent" /\ k.password = account[u].password
        /\ Administers(u) => k.state = "live" /\ k.active
  <2>1. CASE EnableUser(u)
    <3> DEFINE k == [account[u] EXCEPT !.active = TRUE]
    <3>1. account' = [account EXCEPT ![u] = k] /\ account[u].state = "live"
      BY <2>1 DEF EnableUser, Live
    <3>2. /\ k \in Accounts /\ k.version = account[u].version /\ k.state = "live"
          /\ k.active = TRUE /\ k.password = account[u].password
      BY <1>1, <3>1 DEF Accounts
    <3> HIDE DEF k
    <3>3. QED
      BY <3>1, <3>2
  <2>2. CASE RestoreUser(u)
    <3> DEFINE k == [account[u] EXCEPT !.state = "live"]
    <3>1. account' = [account EXCEPT ![u] = k] /\ account[u].state = "deleted"
      BY <2>2 DEF RestoreUser
    <3>2. QED
      BY <1>1, <3>1 DEF Accounts, Administers, Live
  <2>3. CASE PurgeUser(u)
    <3> DEFINE k == [account[u] EXCEPT !.state = "purged"]
    <3>1. account' = [account EXCEPT ![u] = k] /\ account[u].state = "deleted"
      BY <2>3 DEF PurgeUser
    <3>2. QED
      BY <1>1, <3>1 DEF Accounts, Administers, Live
  <2>4. ASSUME NEW pw \in Password, CreateUser(u, pw)
        PROVE  \E k \in Accounts :
                 /\ account' = [account EXCEPT ![u] = k] /\ k.version = account[u].version
                 /\ account[u].state # "absent" => k.state # "absent" /\ k.password = account[u].password
                 /\ Administers(u) => k.state = "live" /\ k.active
    <3> DEFINE k == [account[u] EXCEPT !.state = "live", !.password = pw]
    <3>1. account' = [account EXCEPT ![u] = k] /\ account[u].state = "absent"
      BY <1>1, <2>4 DEF CreateUser, Now, Typed, Accounts
    <3>2. QED
      BY <1>1, <3>1 DEF Accounts, Administers, Live
  <2>5. QED
    BY <2>1, <2>2, <2>3, <2>4
<1>3. /\ family' \in [Family -> Families] /\ request' \in [Request -> Requests]
      /\ \A f \in Family : family'[f].state = "open" => family'[f] = family[f]
      /\ \A r \in Request : /\ request'[r].at = request[r].at /\ request'[r].user = request[r].user
                            /\ request'[r].password = request[r].password
                            /\ request'[r].seen = request[r].seen
  <2>1. CASE PurgeUser(u)
    BY <2>1, Forgetting DEF PurgeUser, Now
  <2>2. CASE UNCHANGED <<family, request>>
    BY <2>2 DEF Now, Typed
  <2>3. QED
    BY <2>1, <2>2 DEF EnableUser, RestoreUser, CreateUser
<1>4. FamiliesFollow' /\ account' \in [User -> Accounts]
  BY <1>1, <1>2, <1>3, OneAccount
<1>5. \A v \in User : Administers(v) => Administers(v)'
  BY <1>2 DEF Administers, Live, Now, Typed
<1>6. Harmless
  BY <1>1, <1>3, <1>5 DEF Harmless
<1>7. Typed'
  BY <1>1, <1>3, <1>4 DEF Now, Typed
<1>8. QED
  BY <1>4, <1>6, <1>7, HarmlessKeeps DEF AllKept

\* A security event: the account gets a new version and loses its families.
LEMMA EventFollows ==
    ASSUME Now, NEW u \in User, NEW k \in Accounts, account' = [account EXCEPT ![u] = k],
           k.version = account[u].version + 1, k.state # "absent", SecurityEvent(u), RevokeAll(u)
    PROVE  /\ FamiliesFollow' /\ account' \in [User -> Accounts]
           /\ family' \in [Family -> Families] /\ since' \in [User -> Nat]
<1>1. account' \in [User -> Accounts] /\ account'[u] = k /\ \A v \in User \ {u} : account'[v] = account[v]
  BY DEF Now, Typed
<1>2. \A v \in User : account[v] \in Accounts /\ account[v].version = since[v] /\ since[v] \in Nat
  BY DEF Now, Typed, FamiliesFollow
<1>3. since' = [since EXCEPT ![u] = @ + 1]
  BY DEF SecurityEvent
<1>4. since' \in [User -> Nat] /\ \A v \in User : account'[v].version = since'[v]
  BY <1>1, <1>2, <1>3 DEF Now, Typed
<1>5. AccountsMove
  BY <1>1, <1>2 DEF AccountsMove, Accounts
<1>6. QED
  BY <1>1, <1>4, <1>5, Revoking, AccountsFollow DEF Now

LEMMA PasswordKeeps ==
    ASSUME Now, NEW u \in User, NEW pw \in Password, SetPassword(u, pw)
    PROVE  AllKept
<1> DEFINE next == account[u].version + 1
           k == [account[u] EXCEPT !.password = pw, !.version = next]
<1>1. account[u] \in Accounts /\ account[u].state = "live" /\ next \in Nat
  BY DEF Now, Typed, SetPassword, Live, Accounts
<1>2. account' = [account EXCEPT ![u] = k] /\ next = account[u].version + 1
  BY <1>1 DEF SetPassword, Now, Typed, Accounts
<1> HIDE DEF next
<1>3. /\ k \in Accounts /\ k.version = account[u].version + 1 /\ k.state = "live"
      /\ k.active = account[u].active
  BY <1>1, <1>2 DEF Accounts
<1>4. SecurityEvent(u) /\ RevokeAll(u) /\ UNCHANGED <<lock, request>>
  BY DEF SetPassword
<1> HIDE DEF k
<1>5. /\ FamiliesFollow' /\ account' \in [User -> Accounts]
      /\ family' \in [Family -> Families] /\ since' \in [User -> Nat]
  BY <1>2, <1>3, <1>4, EventFollows
<1>6. \A v \in User : Administers(v) => Administers(v)'
  BY <1>2, <1>3 DEF Administers, Live, Now, Typed
<1>7. Harmless
  BY <1>4, <1>6 DEF Harmless
<1>8. QED
  BY <1>4, <1>5, <1>7, HarmlessKeeps DEF AllKept, Now, Typed

-----------------------------------------------------------------------------
(* Removals.                                                               *)

LEMMA LockingKeeps ==
    ASSUME Now, NEW r \in Request, RemoveLocksNext(r)
    PROVE  AllKept
<1>1. PICK s \in request[r].rest :
        /\ Unlocked(s)
        /\ \/ /\ Administers(s) /\ lock' = [lock EXCEPT ![s] = r]
              /\ request' = [request EXCEPT ![r].rest = @ \ {s}, ![r].seen = @ \cup {s}]
           \/ /\ request' = [request EXCEPT ![r].rest = @ \ {s}]
              /\ UNCHANGED lock
  BY DEF RemoveLocksNext
<1>2. UNCHANGED <<account, family, since>> /\ request[r].at = "locking"
  BY DEF RemoveLocksNext
<1>3. request[r] \in Requests /\ s \in User
  BY DEF Now, Typed, Requests
<1> DEFINE k == [request[r] EXCEPT !.rest = @ \ {s}, !.seen = @ \cup {s}]
           j == [request[r] EXCEPT !.rest = @ \ {s}]
<1>4. /\ k \in Requests /\ k.at = "locking" /\ k.user = request[r].user /\ k.seen = request[r].seen \cup {s}
      /\ j \in Requests /\ j.at = "locking" /\ j.user = request[r].user /\ j.seen = request[r].seen
  BY <1>2, <1>3 DEF Requests
<1>5. \/ Administers(s) /\ lock' = [lock EXCEPT ![s] = r] /\ request' = [request EXCEPT ![r] = k]
      \/ request' = [request EXCEPT ![r] = j] /\ UNCHANGED lock
  BY <1>1, <1>3 DEF Now, Typed, Requests
<1> HIDE DEF k, j
<1>6. Typed'
  BY <1>2, <1>3, <1>4, <1>5 DEF Now, Typed
<1>7. RequestsName'
  BY <1>2, <1>4, <1>5 DEF Now, Typed, RequestsName
<1>8. AlwaysAnAdministrator' /\ FamiliesFollow'
  BY <1>2 DEF Now, AlwaysAnAdministrator, FamiliesFollow, Administers, Live
<1>9. SeenAreHeld'
  <2> SUFFICES ASSUME NEW q \in Request, NEW t \in request'[q].seen
               PROVE  lock'[t] = q /\ Administers(t)
    BY <1>2 DEF SeenAreHeld, Administers, Live
  <2>1. t \in User
    BY <1>6 DEF Typed, Requests
  <2>2. CASE t \in request[q].seen
    <3>1. lock[t] = q /\ Administers(t) /\ t # s
      BY <1>1, <2>2, Assumed DEF Now, SeenAreHeld, Unlocked
    <3>2. QED
      BY <1>5, <2>1, <3>1 DEF Now, Typed
  <2>3. CASE t \notin request[q].seen
    BY <1>3, <1>4, <1>5, <2>1, <2>3 DEF Now, Typed
  <2>4. QED
    BY <2>2, <2>3
<1>10. QED
  BY <1>6, <1>7, <1>8, <1>9 DEF AllKept

LEMMA RemovalKeeps ==
    ASSUME Now, NEW r \in Request, NEW how \in {"disable", "delete"}, RemoveCommits(r, how)
    PROVE  AllKept
<1>1. request[r].user \in User /\ Ends(r) /\ lock[request[r].user] \in {None, r}
  BY DEF Now, RequestsName, RemoveCommits
<1>2. CASE UNCHANGED <<account, family, since>>
  <2>1. Typed' /\ FamiliesFollow'
    BY <1>1, <1>2, Ending DEF Now, Typed, FamiliesFollow
  <2>2. QED
    BY <1>1, <1>2, <2>1, EndingIsHarmless, HarmlessKeeps DEF AllKept
<1>3. ASSUME NEW u \in User, u = request[r].user, Live(u), ~LastOne(r), SecurityEvent(u), RevokeAll(u),
             account' = [account EXCEPT
                   ![u].state = IF how = "delete" THEN "deleted" ELSE @,
                   ![u].active = IF how = "disable" THEN FALSE ELSE @,
                   ![u].version = @ + 1]
      PROVE  AllKept
  <2> DEFINE next == account[u].version + 1
             state == IF how = "delete" THEN "deleted" ELSE account[u].state
             active == IF how = "disable" THEN FALSE ELSE account[u].active
             k == [account[u] EXCEPT !.state = state, !.active = active, !.version = next]
  <2>1. account[u] \in Accounts /\ account[u].state = "live"
    BY <1>3 DEF Now, Typed, Live
  <2>2. account' = [account EXCEPT ![u] = k] /\ next = account[u].version + 1
    BY <1>3, <2>1 DEF Now, Typed, Accounts
  <2>21. next \in Nat /\ state \in {"live", "deleted"}
    BY <2>1 DEF Accounts
  <2>22. account[u].active \in BOOLEAN
    BY <2>1 DEF Accounts
  <2>23. active \in BOOLEAN
    BY <2>22, Zenon
  <2> HIDE DEF next, state, active
  <2>3. k \in Accounts /\ k.version = account[u].version + 1 /\ k.state # "absent"
    BY <2>1, <2>2, <2>21, <2>23 DEF Accounts
  <2> HIDE DEF k
  <2>4. /\ FamiliesFollow' /\ account' \in [User -> Accounts]
        /\ family' \in [Family -> Families] /\ since' \in [User -> Nat]
    BY <1>3, <2>2, <2>3, EventFollows
  <2>5. Typed'
    BY <1>1, <2>4, Ending DEF Now, Typed
  <2>6. \A v \in User \ {u} : Administers(v) => Administers(v)'
    BY <2>2 DEF Administers, Live, Now, Typed
  <2>7. Idle.seen = {} /\ Idle.at = "idle"
    BY DEF Idle
  <2>8. RequestsName'
    BY <1>1, <2>7, Ending DEF Now, RequestsName
  <2>9. SeenAreHeld'
    <3> SUFFICES ASSUME NEW q \in Request, NEW s \in request'[q].seen
                 PROVE  lock'[s] = q /\ Administers(s)'
      BY DEF SeenAreHeld
    <3>1. q # r /\ request'[q] = request[q]
      BY <1>1, <2>7, Ending DEF Now
    <3>2. s \in User /\ lock[s] = q /\ Administers(s)
      BY <3>1 DEF Now, SeenAreHeld, Typed, Requests
    <3>3. s # u
      BY <1>1, <1>3, <3>1, <3>2, Assumed
    <3>4. QED
      BY <1>1, <2>6, <3>1, <3>2, <3>3, Ending DEF Now
  <2>10. AlwaysAnAdministrator'
    <3>1. \E s \in User \ {u} : Administers(s)
      <4>1. CASE Administers(u)
        BY <1>3, <4>1 DEF LastOne, Now, SeenAreHeld, Typed, Requests
      <4>2. CASE ~Administers(u)
        BY <4>2 DEF Now, AlwaysAnAdministrator
      <4>3. QED
        BY <4>1, <4>2
    <3>2. QED
      BY <2>6, <3>1 DEF AlwaysAnAdministrator
  <2>11. QED
    BY <2>4, <2>5, <2>8, <2>9, <2>10 DEF AllKept
<1>4. QED
  BY <1>1, <1>2, <1>3 DEF RemoveCommits

LEMMA AbortKeeps ==
    ASSUME Now, NEW r \in Request, DeadlockAborts(r)
    PROVE  AllKept
<1>1. Ends(r) /\ UNCHANGED <<account, family, since>>
  BY DEF DeadlockAborts, Rejected
<1>2. Typed' /\ FamiliesFollow'
  BY <1>1, Ending DEF Now, Typed, FamiliesFollow
<1>3. QED
  BY <1>1, <1>2, EndingIsHarmless, HarmlessKeeps DEF AllKept

-----------------------------------------------------------------------------
LEMMA AccountsInvInit == AccountsInit => AccountsInv
<1> SUFFICES ASSUME AccountsInit
             PROVE  AccountsInv
  OBVIOUS
<1>1. Idle \in Requests /\ Idle.seen = {} /\ Idle.at = "idle" /\ NoFamily \in Families /\ NoFamily.state = "absent"
  BY BlankRecords DEF Idle, NoFamily
<1>2. Typed
  BY <1>1 DEF AccountsInit, Typed, Accounts
<1>3. RequestsName /\ SeenAreHeld /\ FamiliesFollow
  BY <1>1 DEF AccountsInit, RequestsName, SeenAreHeld, FamiliesFollow
<1>4. AlwaysAnAdministrator
  <2>1. PICK s \in Superuser : s \in User
    BY Assumed
  <2>2. account[s].state = "live" /\ account[s].active = TRUE
    BY <2>1 DEF AccountsInit
  <2>3. QED
    BY <2>1, <2>2 DEF AlwaysAnAdministrator, Administers, Live
<1>5. QED
  BY <1>2, <1>3, <1>4, TypedIsTypeOK DEF AccountsInv

LEMMA AccountsInvStep == AccountsInv /\ [AccountsNext]_accountVars => AccountsInv'
<1> SUFFICES ASSUME AccountsInv, [AccountsNext]_accountVars
             PROVE  AccountsInv'
  OBVIOUS
<1>1. Now
  BY TypedIsTypeOK DEF AccountsInv, Now
<1>2. CASE AccountsNext
  <2>1. AllKept
    BY <1>1, <1>2, BeginSteps, LoginKeeps, RefreshKeeps, FamilySteps, AccountSteps, PasswordKeeps, LockingKeeps,
       RemovalKeeps, AbortKeeps, Assumed DEF AccountsNext
  <2>2. QED
    BY <2>1, TypedIsTypeOK DEF AllKept, AccountsInv, AccountsTypeOK, Typed, Accounts, Families, Requests
<1>3. CASE UNCHANGED accountVars
  BY <1>3 DEF accountVars, AccountsInv, AccountsTypeOK, RequestsName, SeenAreHeld, AlwaysAnAdministrator,
     Administers, Live, FamiliesFollow
<1>4. QED
  BY <1>2, <1>3

\* The invariant holds in every reachable state of the accounts.
THEOREM AccountsInvariant == AccountsSpec => []AccountsInv
<1>1. AccountsInit => AccountsInv
  BY AccountsInvInit
<1>2. AccountsInv /\ [AccountsNext]_accountVars => AccountsInv'
  BY AccountsInvStep
<1>3. QED
  BY <1>1, <1>2, PTL DEF AccountsSpec

\* However many removals of superusers interleave, one active superuser is left
\* (crud/user.py:346-359 and the checks of update and soft_delete).
THEOREM AnAdministratorIsLeft == AccountsSpec => []AlwaysAnAdministrator
<1>1. AccountsInv => AlwaysAnAdministrator
  BY DEF AccountsInv
<1>2. QED
  BY <1>1, AccountsInvariant, PTL

\* A session that can be used has one refreshable token and was opened with the
\* account's password, no security event having come in between.
THEOREM SessionsStayCurrent == AccountsSpec => []SessionsAreCurrent
<1>1. AccountsInv => SessionsAreCurrent
  <2> SUFFICES ASSUME AccountsInv, NEW f \in Family, Usable(f)
               PROVE  /\ Cardinality(family[f].live) = 1
                      /\ family[f].password = account[family[f].user].password
                      /\ family[f].since = since[family[f].user]
    BY DEF SessionsAreCurrent
  <2>1. family[f].state = "open" /\ Follows(f) /\ family[f].version = account[family[f].user].version
    BY Following DEF Usable, AccountsInv
  <2>2. account[family[f].user].version = since[family[f].user]
    BY <2>1 DEF AccountsInv, FamiliesFollow, Follows
  <2>3. Cardinality({family[f].issued}) = 1
    BY FS_Singleton
  <2>4. QED
    BY <2>1, <2>2, <2>3 DEF Follows
<1>2. QED
  BY <1>1, AccountsInvariant, PTL
=============================================================================

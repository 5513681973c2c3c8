------------------------------ MODULE Accounts ------------------------------
(***************************************************************************)
(* Who a customer is: UserRepository, RegisterUser, and the user that      *)
(* get_auth_context finds or creates for the external id in the token.     *)
(* Every User() has a fresh uuid4, so the request that builds it names it. *)
(***************************************************************************)
EXTENDS Handlers

CONSTANT Accounts   \* external_auth_ids, one per customer

VARIABLE users      \* the users table: the external_auth_id of each id, None if no row

ASSUME AccountsAssumption == None \notin Accounts \cup Requests

AccountsTypeOK == users \in [Requests -> Accounts \cup {None}]

AccountsInit == users = [i \in Requests |-> None]

IdsOf(a) == {i \in Requests : users[i] = a}

\* POST /users asks for no token: anybody may register any external id, at any
\* time, also one that is in use.
Register(r, a) ==
    /\ Starts(r, "register", "find", a, None, None)
    /\ UNCHANGED users

\* Any other request carries a token, which names its sender.
SignIn(r, endpoint, a, key) ==
    /\ Starts(r, endpoint, "lookup", a, key, None)
    /\ UNCHANGED users

\* Mutant of Lookup: the token's claims always make a new User.
LookupBlind(r, next) ==
    /\ step[r] = "lookup"
    /\ GoTo(r, "find", local[r])
    /\ UNCHANGED users

\* _map_user: the row of this external id, or a new User to add.
Lookup(r, next) ==
    /\ step[r] = "lookup"
    /\ IF IdsOf(local[r].acct) = {}
       THEN GoTo(r, "find", local[r])
       ELSE \E i \in IdsOf(local[r].acct) : GoTo(r, next, [local[r] EXCEPT !.uid = i])
    /\ UNCHANGED users

\* UserRepository.add, its SELECT: the row it will rewrite, if there is one.
FindUser(r) ==
    /\ step[r] = "find"
    /\ \/ IdsOf(local[r].acct) = {} /\ GoTo(r, "write", local[r])
       \/ \E i \in IdsOf(local[r].acct) : GoTo(r, "write", [local[r] EXCEPT !.seen = i])
    /\ UNCHANGED users

\* Its commit without such a row: an INSERT, and external_auth_id is UNIQUE.
InsertUser(r, next) ==
    /\ step[r] = "write"
    /\ local[r].seen = None /\ IdsOf(local[r].acct) = {}
    /\ users' = [users EXCEPT ![r] = local[r].acct]
    /\ GoTo(r, next, [local[r] EXCEPT !.uid = r])

\* Its commit with one: the new User's id replaces the one the row was read
\* with, and servers.owner_id does not follow.
RewriteUser(r, next) ==
    /\ step[r] = "write"
    /\ local[r].seen # None /\ users[local[r].seen] = local[r].acct
    /\ users' = [users EXCEPT ![local[r].seen] = None, ![r] = local[r].acct]
    /\ GoTo(r, next, [local[r] EXCEPT !.uid = r, !.seen = None])

\* execute: user_repo.get(user_id) once more; the row may have a new id by now.
CheckUser(r, next) ==
    /\ step[r] = "check"
    /\ GoTo(r, IF users[local[r].uid] = None THEN "refused" ELSE next, local[r])
    /\ UNCHANGED users

AccountStep(r, authenticated, checked) ==
    \/ Lookup(r, authenticated)
    \/ FindUser(r)
    \/ InsertUser(r, authenticated)
    \/ RewriteUser(r, authenticated)
    \/ CheckUser(r, checked)

==============================================================================

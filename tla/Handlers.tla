------------------------------ MODULE Handlers ------------------------------
(***************************************************************************)
(* Requests that work on the users and catalog tables.  Each runs in a     *)
(* worker thread; what it depends on (authentication, repositories) is     *)
(* resolved in that thread before the route's own code.                    *)
(***************************************************************************)
CONSTANTS
    Requests,   \* requests, one handler thread each
    None        \* Python's None, SQL's NULL

VARIABLES
    step,       \* the call each handler is about to make, or how it ended
    local       \* what it knows, None unless it is under way

handlerVars == <<step, local>>

\* Endpoints: POST /users, POST /servers, any other a customer authenticates
\* for, and the admin's POST and DELETE of a catalog entry.
Endpoints == {"register", "order", "visit", "add", "delete"}

AccountSteps == {"lookup", "find", "write", "check"}
CatalogSteps == {"seed", "peek", "load", "store", "drop"}
OrderSteps == {"plan", "host", "insert"}
Steps == AccountSteps \cup CatalogSteps \cup OrderSteps

\* Answered with success, 400 or 500, or not at all.
Ends == {"done", "refused", "failed", "lost"}

HandlersInit ==
    /\ step = [r \in Requests |-> "idle"]
    /\ local = [r \in Requests |-> None]

UnderWay == {r \in Requests : step[r] \in Steps}

\* A request comes: who sends it, and the key and value it is about.
Starts(r, endpoint, first, acct, key, value) ==
    /\ step[r] = "idle"
    /\ step' = [step EXCEPT ![r] = first]
    /\ local' = [local EXCEPT ![r] =
          [endpoint |-> endpoint, acct |-> acct, key |-> key, value |-> value,
           uid |-> None, seen |-> None, todo |-> {}, seeding |-> None,
           read |-> None, plan |-> None]]

\* The handler goes on, knowing this, or it ends.
GoTo(r, next, knows) ==
    /\ step' = [step EXCEPT ![r] = next]
    /\ local' = [local EXCEPT ![r] = IF next \in Ends THEN None ELSE knows]

\* A call raises: a locked database, a row inserted by another thread since it
\* was looked for (UNIQUE or primary key), or one to update that has gone
\* (StaleDataError).  Nothing is written.
CallRaises(r) ==
    /\ r \in UnderWay
    /\ GoTo(r, "failed", None)

\* The process dies.
HandlersDie ==
    /\ step' = [r \in Requests |-> IF r \in UnderWay THEN "lost" ELSE step[r]]
    /\ local' = [r \in Requests |-> None]

==============================================================================

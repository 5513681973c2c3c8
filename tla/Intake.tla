------------------------------- MODULE Intake -------------------------------
(***************************************************************************)
(* POST /servers up to the row of the order: who asks, what is on sale and *)
(* where it will run.  What follows the row is module Provisioning.        *)
(***************************************************************************)
EXTENDS Accounts, Catalog

CONSTANT Offers     \* the entries an admin gives each key

VARIABLES
    bought,         \* the row of each order, None before its INSERT
    contested       \* customers of whom an order was under way together with
                    \* another request, or whose external id was registered,
                    \* by whomever, when a server was theirs already

intakeVars == <<handlerVars, users, catalogVars, bought, contested>>

\* acct is no column: it says who ordered, whatever the owner_id says.
Order == [owner: Requests, acct: Accounts, plan: Plans, spec: Specs, host: Hosts]

Local == [endpoint: Endpoints, acct: Accounts \cup {None}, key: Keys \cup {None},
          value: Entry \cup {None}, uid: Requests \cup {None}, seen: Requests \cup {None},
          todo: SUBSET DefaultPlans, seeding: DefaultPlans \cup {None},
          read: Entry \cup {None}, plan: Entry \cup {None}]

ASSUME OffersAssumption == Offers \in [Keys -> SUBSET Entry]
ASSUME NoneAssumption == None \notin Local \cup Order

IntakeTypeOK ==
    /\ step \in [Requests -> {"idle"} \cup Steps \cup Ends]
    /\ local \in [Requests -> Local \cup {None}]
    /\ \A r \in Requests : local[r] # None <=> r \in UnderWay
    /\ AccountsTypeOK
    /\ CatalogTypeOK
    /\ bought \in [Requests -> Order \cup {None}]
    /\ contested \subseteq Accounts

\* The tables may be new or in use.
UsedTables ==
    {t \in [Keys -> Entry \cup {None}] : \A k \in Keys : t[k] \in Offers[k] \cup {Default, None}}

IntakeInit ==
    /\ HandlersInit
    /\ AccountsInit
    /\ CatalogInit(UsedTables)
    /\ bought = [r \in Requests |-> None]
    /\ contested = {}

(***************************************************************************)
(* What comes in                                                           *)
(***************************************************************************)

HasServer(a) == \E q \in Requests : bought[q] # None /\ bought[q].acct = a

\* An order of this customer would be under way together with another request.
Overlaps(endpoint, a) ==
    \E q \in UnderWay : local[q].acct = a /\ "order" \in {endpoint, local[q].endpoint}

Contests(a, how) == contested' = IF how THEN contested \cup {a} ELSE contested

AnybodyRegisters(r, a) ==
    /\ Register(r, a)
    /\ Contests(a, HasServer(a) \/ Overlaps("register", a))
    /\ UNCHANGED <<catalogVars, bought>>

CustomerComes(r, endpoint, a, key) ==
    /\ SignIn(r, endpoint, a, key)
    /\ Contests(a, Overlaps(endpoint, a))
    /\ UNCHANGED <<catalogVars, bought>>

AdminComes(r, endpoint, key, value) ==
    /\ Admin(r, endpoint, key, value)
    /\ UNCHANGED <<users, bought, contested>>

Arrival(r) ==
    \/ \E a \in Accounts : AnybodyRegisters(r, a) \/ CustomerComes(r, "visit", a, None)
    \/ \E a \in Accounts, p \in Plans : CustomerComes(r, "order", a, p)
    \/ \E key \in Keys : \E value \in Offers[key] : AdminComes(r, "add", key, value)
    \/ \E key \in Keys : AdminComes(r, "delete", key, None)

(***************************************************************************)
(* ProvisionServer.execute                                                 *)
(***************************************************************************)

\* Authentication comes before the other dependencies of a route.
Authenticated(r) == IF local[r].endpoint = "order" THEN "seed" ELSE "done"
Supplied(r) == IF local[r].endpoint = "order" THEN "check" ELSE AdminCall(local[r].endpoint)

ResolvePlan(r) ==
    /\ step[r] = "plan"
    /\ GoTo(r, IF rows[Key(r)] = None THEN "refused" ELSE "host",
            [local[r] EXCEPT !.plan = rows[Key(r)]])
    /\ UNCHANGED <<users, catalogVars, bought, contested>>

\* Mutant of HostAnswer: a plan without a host goes on to an order without one.
AnyHost(host) ==
    IF host = None THEN "insert"
    ELSE IF rows[host] = None THEN "refused"
    ELSE "insert"

\* A plan with no host of its own, the default ones included, is looked up with
\* first_for_location, which the repository does not have: AttributeError.
HostAnswer(host) ==
    IF host = None THEN "failed"
    ELSE IF rows[host] = None THEN "refused"
    ELSE "insert"

ResolveHost(r) ==
    /\ step[r] = "host"
    /\ GoTo(r, HostAnswer(local[r].plan.host), local[r])
    /\ UNCHANGED <<users, catalogVars, bought, contested>>

\* The row takes the user's id and the plan as they were read.
InsertOrder(r) ==
    /\ step[r] = "insert"
    /\ bought' = [bought EXCEPT ![r] =
          [owner |-> local[r].uid, acct |-> local[r].acct, plan |-> local[r].key,
           spec |-> local[r].plan.spec, host |-> local[r].plan.host]]
    /\ GoTo(r, "done", None)
    /\ UNCHANGED <<users, catalogVars, contested>>

(***************************************************************************)
(* The whole                                                               *)
(***************************************************************************)

\* The process dies and starts again.
Crash ==
    /\ HandlersDie
    /\ CatalogRestarts
    /\ UNCHANGED <<users, bought, contested>>

RequestStep(r) ==
    \/ Arrival(r)
    \/ AccountStep(r, Authenticated(r), "plan") /\ UNCHANGED <<catalogVars, bought, contested>>
    \/ CatalogStep(r, Supplied(r)) /\ UNCHANGED <<users, bought, contested>>
    \/ ResolvePlan(r)
    \/ ResolveHost(r)
    \/ InsertOrder(r)
    \/ CallRaises(r) /\ UNCHANGED <<users, catalogVars, bought, contested>>

IntakeNext ==
    \/ \E r \in Requests : RequestStep(r)
    \/ Boot /\ UNCHANGED <<users, bought, contested>>
    \/ Crash

IntakeSpec == IntakeInit /\ [][IntakeNext]_intakeVars

(***************************************************************************)
(* Properties                                                              *)
(***************************************************************************)

StillOwns(r) == users[bought[r].owner] = bought[r].acct

\* A customer keeps every server ordered (its row in users still has the id that
\* the servers name), whatever failed or crashed in between, whatever other
\* customers do, and whoever registered its external id before: as long as no
\* other request was under way with an order and nobody registers the id when a
\* server is there (add may rewrite ids, so _map_user must look first).
UncontestedKeepServers ==
    \A r \in Requests : bought[r] # None /\ bought[r].acct \notin contested => StillOwns(r)

\* What an admin made of a plan, a host or an upgrade stands until the admin
\* changes it, through restarts and concurrent seeding; except the default host,
\* and what had no row at some time since the process started (get_plan_repository
\* looks before it adds, and add writes only columns that differ).
AdminEntriesKept ==
    \A k \in Keys \ (absent \cup {DefaultHost}) : rows[k] = latest[k]

\* Once one thread has handed out the plan repository, every default plan is there
\* unless the admin deleted it, also when threads raced to add them and some
\* failed.
DefaultPlansReady ==
    ready => \A p \in DefaultPlans \ dropped : rows[p] # None

(***************************************************************************)
(* The inductive invariant: what each handler has made sure of so far      *)
(***************************************************************************)

\* What a handler about to make this call knows.
KnowsAt(at, l) ==
    /\ at \in AccountSteps => l.endpoint \in {"register", "order", "visit"}
    /\ at \in CatalogSteps => l.endpoint \in {"order", "add", "delete"}
    /\ at \in OrderSteps \cup {"check"} => l.endpoint = "order"
    /\ l.endpoint \in {"register", "order", "visit"} => l.acct \in Accounts
    /\ l.endpoint = "order" => l.key \in Plans
    /\ l.endpoint = "order" /\ at \notin {"lookup", "find", "write"} => l.uid \in Requests
    /\ l.endpoint \in {"add", "delete"} => l.key \in Keys
    /\ l.endpoint = "add" => l.value \in Entry
    /\ at \in {"load", "store"} => l.seeding # None \/ l.endpoint = "add"
    /\ at \notin {"load", "store"} => l.seeding = None
    /\ at = "drop" => l.endpoint = "delete"
    /\ at \in {"host", "insert"} => l.plan \in Entry
    /\ at = "insert" => l.plan.host \in Hosts

\* Rows in users are named by requests that have written them.
FreshIds == \A i \in Requests : users[i] # None => step[i] \notin {"idle", "lookup", "find", "write"}

\* An uncontested customer's order is its one request under way and knows the
\* current id, and no request adds the customer to users once it has a server.
OwnerInv(r) ==
    local[r].acct \in Accounts \ contested =>
        /\ local[r].endpoint = "order" =>
              \A q \in UnderWay : local[q].acct = local[r].acct => q = r
        /\ local[r].uid # None =>
              local[r].endpoint = "order" /\ users[local[r].uid] = local[r].acct
        /\ step[r] \in {"find", "write"} => ~HasServer(local[r].acct)

\* A thread that seeds has seen to the defaults behind it, found the one in hand
\* missing, and an entry it read all the same is there or was deleted.
SeedingInv(r) ==
    /\ step[r] = "peek" \/ local[r].seeding # None =>
          \A p \in DefaultPlans \ (dropped \cup local[r].todo \cup {local[r].seeding}) : rows[p] # None
    /\ local[r].seeding # None =>
          /\ local[r].seeding \in absent
          /\ step[r] = "store" /\ local[r].read # None =>
                rows[local[r].seeding] # None \/ local[r].seeding \in dropped

\* There is one request of the admin, and nobody else changes what it read.
AdminInv(r) ==
    local[r].endpoint \in {"add", "delete"} =>
        /\ \A q \in UnderWay : local[q].endpoint \in {"add", "delete"} => q = r
        /\ /\ step[r] = "store" /\ local[r].seeding = None
           /\ local[r].key \notin absent \cup {DefaultHost}
           => local[r].read = rows[local[r].key]

IntakeInv ==
    /\ IntakeTypeOK
    /\ \A r \in UnderWay : KnowsAt(step[r], local[r])
    /\ FreshIds /\ UncontestedKeepServers
    /\ \A r \in UnderWay : OwnerInv(r)
    /\ Missing(rows) \subseteq absent
    /\ AdminEntriesKept /\ DefaultPlansReady
    /\ \A r \in UnderWay : SeedingInv(r) /\ AdminInv(r)

(***************************************************************************)
(* What the documentation says and the code does not do                    *)
(***************************************************************************)

\* "list servers created for a specific user" (README.md:32): the servers a
\* customer ordered are found under the id the customer has, whatever it and
\* others send.
OwnersKeepServers == \A r \in Requests : bought[r] # None => StillOwns(r)

==============================================================================

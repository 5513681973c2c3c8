------------------------------- MODULE Catalog -------------------------------
(***************************************************************************)
(* What is on sale: the plans, proxmox_hosts and upgrades tables, their    *)
(* repositories' add and delete, the default plans that the first thread   *)
(* to need them adds, and the default host that every start adds.          *)
(***************************************************************************)
EXTENDS Handlers

CONSTANTS
    Plans, Hosts, Upgrades,     \* the keys of the three tables
    Specs,          \* what an entry says of sizes, prices or credentials
    DefaultPlans,   \* "basic" and "pro"
    DefaultHost,    \* "default", or None without PROXMOX_PASSWORD
    DefaultSpec     \* what the code itself puts into an entry

VARIABLES
    rows,       \* the three tables: the entry of each key, None if there is none
    ready,      \* get_plan_repository has returned once (lru_cache)
    booted,     \* get_proxmox_host_repository has
    latest,     \* each entry as the process found it or the admin last made it
    absent,     \* keys that had no row at some time since the process started
    dropped     \* keys the admin deleted since then

cacheVars == <<ready, booted>>
tableVars == <<rows, latest, absent, dropped>>
catalogVars == <<cacheVars, tableVars>>

Keys == Plans \cup Hosts \cup Upgrades

\* host is proxmox_host_id, which only plans have.
Entry == [spec: Specs, host: Hosts \cup {None}]

Default == [spec |-> DefaultSpec, host |-> None]

ASSUME DefaultsAssumption ==
    /\ DefaultPlans \subseteq Plans
    /\ DefaultHost \in Hosts \cup {None}
    /\ DefaultSpec \in Specs
ASSUME KeysAssumption ==
    /\ None \notin Keys \cup Entry
    /\ Plans \cap Hosts = {} /\ Plans \cap Upgrades = {} /\ Hosts \cap Upgrades = {}

CatalogTypeOK ==
    /\ rows \in [Keys -> Entry \cup {None}]
    /\ ready \in BOOLEAN /\ booted \in BOOLEAN
    /\ latest \in [Keys -> Entry \cup {None}]
    /\ absent \subseteq Keys /\ dropped \subseteq Keys

Missing(table) == {k \in Keys : table[k] = None}

\* A process starts on the tables that earlier ones left.
CatalogInit(tables) ==
    /\ rows \in tables
    /\ latest = rows
    /\ absent = Missing(rows)
    /\ dropped = {}
    /\ ready = FALSE /\ booted = FALSE

\* The tables change; what is missing now has been missing.
SetRow(key, value) ==
    /\ rows' = [rows EXCEPT ![key] = value]
    /\ absent' = absent \cup Missing(rows')

(***************************************************************************)
(* get_plan_repository and get_proxmox_host_repository                     *)
(***************************************************************************)

\* A cached repository is returned at once.  An order has the hosts' already.
NeedPlans(r, next) ==
    /\ step[r] = "seed"
    /\ local[r].endpoint = "order" => booted
    /\ IF ready THEN GoTo(r, next, local[r])
                ELSE GoTo(r, "peek", [local[r] EXCEPT !.todo = DefaultPlans])
    /\ UNCHANGED catalogVars

\* Mutant of Peek: the default is added without a look.
PeekBlind(r, p) ==
    /\ step[r] = "peek" /\ p \in local[r].todo
    /\ GoTo(r, "load", [local[r] EXCEPT !.todo = @ \ {p}, !.seeding = p])
    /\ UNCHANGED catalogVars

\* "if not repo.get(...)": two threads may both find nothing.
Peek(r, p) ==
    /\ step[r] = "peek" /\ p \in local[r].todo
    /\ IF rows[p] = None
       THEN GoTo(r, "load", [local[r] EXCEPT !.todo = @ \ {p}, !.seeding = p])
       ELSE GoTo(r, "peek", [local[r] EXCEPT !.todo = @ \ {p}])
    /\ UNCHANGED catalogVars

\* Every default plan was there or has been added.
Seeded(r, next) ==
    /\ step[r] = "peek" /\ local[r].todo = {}
    /\ ready' = TRUE
    /\ GoTo(r, next, local[r])
    /\ UNCHANGED <<booted, tableVars>>

\* The expiry task asks for the hosts at startup, or the first request that
\* needs them if that failed: the default host is written over what it was.
Boot ==
    /\ ~booted
    /\ booted' = TRUE
    /\ IF DefaultHost = None THEN UNCHANGED <<rows, absent>> ELSE SetRow(DefaultHost, Default)
    /\ UNCHANGED <<handlerVars, ready, latest, dropped>>

(***************************************************************************)
(* add and delete of the three repositories                                *)
(***************************************************************************)

\* The repository's own call of an admin's request.
AdminCall(endpoint) == IF endpoint = "add" THEN "load" ELSE "drop"

\* The admin's requests come one at a time; one for a host or an upgrade needs
\* no plan repository.
Admin(r, endpoint, key, value) ==
    /\ \A q \in UnderWay : local[q].endpoint \notin {"add", "delete"}
    /\ key \in Hosts => booted
    /\ Starts(r, endpoint, IF key \in Plans THEN "seed" ELSE AdminCall(endpoint), None, key, value)
    /\ UNCHANGED catalogVars

\* What add was called with: by the seeding, or by the admin's own request.
Key(r) == IF local[r].seeding = None THEN local[r].key ELSE local[r].seeding
Value(r) == IF local[r].seeding = None THEN local[r].value ELSE Default

Load(r) ==
    /\ step[r] = "load"
    /\ GoTo(r, "store", [local[r] EXCEPT !.read = rows[Key(r)]])
    /\ UNCHANGED catalogVars

\* The ORM assigns every column and writes those that differ from what was read.
Column(current, loaded, assigned) == IF assigned = loaded THEN current ELSE assigned

Merged(current, loaded, value) ==
    [spec |-> Column(current.spec, loaded.spec, value.spec),
     host |-> Column(current.host, loaded.host, value.host)]

\* Mutant of StoreRaises: the seeding goes on after a failed add.
StoreIgnored(r) ==
    /\ step[r] = "store" /\ local[r].seeding # None
    /\ GoTo(r, "peek", [local[r] EXCEPT !.seeding = None, !.read = None])
    /\ UNCHANGED catalogVars

\* A commit raises, which ends the request also when it was the seeding's.
StoreRaises(r) ==
    /\ step[r] = "store"
    /\ CallRaises(r)
    /\ UNCHANGED catalogVars

\* The commit: an INSERT when nothing was read, an UPDATE of a row that is still
\* there when something differs, else no statement at all.
Store(r) ==
    /\ step[r] = "store"
    /\ LET loaded == local[r].read
           row == rows[Key(r)]
       IN  \/ /\ loaded = None /\ row = None
              /\ SetRow(Key(r), Value(r))
           \/ /\ loaded \notin {None, Value(r)} /\ row # None
              /\ SetRow(Key(r), Merged(row, loaded, Value(r)))
           \/ /\ loaded = Value(r)
              /\ UNCHANGED <<rows, absent>>
    /\ IF local[r].seeding = None
       THEN /\ latest' = [latest EXCEPT ![Key(r)] = Value(r)]
            /\ GoTo(r, "done", None)
       ELSE /\ UNCHANGED latest
            /\ GoTo(r, "peek", [local[r] EXCEPT !.seeding = None, !.read = None])
    /\ UNCHANGED <<cacheVars, dropped>>

\* delete looks and deletes; nobody's reference to the entry is looked at.
Drop(r) ==
    /\ step[r] = "drop"
    /\ SetRow(Key(r), None)
    /\ latest' = [latest EXCEPT ![Key(r)] = None]
    /\ dropped' = dropped \cup {Key(r)}
    /\ GoTo(r, "done", None)
    /\ UNCHANGED cacheVars

CatalogStep(r, next) ==
    \/ NeedPlans(r, next)
    \/ \E p \in DefaultPlans : Peek(r, p)
    \/ Seeded(r, next)
    \/ Load(r)
    \/ Store(r)
    \/ StoreRaises(r)
    \/ Drop(r)

\* The next process finds the tables and nothing else.
CatalogRestarts ==
    /\ ready' = FALSE /\ booted' = FALSE
    /\ latest' = rows
    /\ absent' = Missing(rows) /\ dropped' = {}
    /\ UNCHANGED rows

==============================================================================

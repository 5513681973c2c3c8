# Verification of the VibeCoding hosting backend

TLA+ models of the FastAPI backend under `src/app`, checked with TLC, and
theorems about them checked with TLAPS. The backend sells virtual machines: it
keeps a table of servers in SQLite, drives Proxmox hosts over HTTP, and sends
SMS. Everything hard in it comes from three facts: FastAPI runs each request in
a thread of a pool, each repository call is a transaction of its own, and each
HTTP call to Proxmox can fail, time out, or take effect without an answer.

## The system

| Part | State | Operations | Hard behaviour |
|---|---|---|---|
| Provisioning saga (`provision_server.py`, `server_orchestrator.py`, `provisioning_policy.py`) | the `Server` entity in memory | `execute`, `provision`, `_rollback` | failure of any call, timeouts, a crash between calls, VM identifiers that collide, a host deleted halfway |
| Servers table (`server_repository.py`, `sqlite.py`) | rows, upgrade ledger | `add`/`update`, `record_upgrade`, lists | read-modify-write over two sessions; every save assigns every column, the ORM writes those that differ from the row it just loaded |
| Proxmox client (`proxmox.py`) | none; the VMs are on the hosts | create, clone, config, password, status, destroy, power, resize | requests that are served after the caller gave up |
| Power control, extension, refresh, upgrade, password reset | the entity read at the start | one endpoint each (seven for power) | stale entities, partial failure between push, save and ledger |
| Expiry worker (`main.py`, `stop_expired_servers.py`, `notify_expiring_servers.py`) | the asyncio task, the list read at midnight | `notify`, `stop_expired` | long-lived stale rows next to requests still in their threads, exceptions that end the task, missed nights |
| Users and authentication (`user_repository.py`, `register_user.py`, `dependencies`) | users table | `add`, `_map_user`, `execute` | concurrent first requests of one account, an id that is rewritten under the servers that name it |
| Catalogs (plans, upgrades, hosts) | three tables, two `lru_cache`s | add, delete, seeding on first use | `lru_cache` holds no lock, so threads race to seed; references to deleted entries; a default that comes back |
| Routes, schemas, settings, SMS stub | none | validation, serialisation | the order in which a route's dependencies are resolved |

What makes each part correct: a row shown as live names a VM of its own server;
a 200 means a VM of the ordered sizes; no VM is without a row; a rollback removes
only what its own request created; every order ends; what was paid for is
there; an extension that was saved is kept; nobody is stopped early or
unwarned, and everybody who expired in the end; a customer keeps its servers; what
an admin put on sale stays. The list of places in the code
where this could go wrong is under `hazards` in `PROJECT.json`.

## Modules

* `ServerStore` has the state all handlers share: `db` (the servers table),
  `hosts` (the ids in the host catalog) and `vms` (what exists on the hosts), with
  the operators of the repository (`Flush` is an UPDATE of the columns that
  differ from the row the session loaded), the mapping of Proxmox's status words,
  and what admins and the hypervisor do on their own.
* `Provisioning` has one saga per server id. `pc[s]` names the call the saga
  makes next or how the request ended, `ent[s]` is the entity in memory,
  `loaded[s]` the row its open session has loaded, `late` the HTTP requests nobody
  waits for any more. Each database or HTTP call is one action with one action
  for each way it fails; `NextAfter` and `Caught` are the control flow of the two
  exception handlers. An update is two actions, the load and the commit, and the
  answer (the SMS and the route's response) is one more, `Answer`: a process may die
  with the finished server committed and nobody told.
* `OrderPromise` is the abstract specification: how an order is listed, whether
  a machine exists for it, and what was answered. An order is completed (`Complete`),
  which makes success due, and then answered (`Accept`), or its answer is lost in a
  crash (`Lose`); the machine of a completed order is never removed, answered or not.
  `Provisioning` maps to it with `Listed`, `HasVm` and `Reply`.
* `Operations` extends `Provisioning` with the requests about an existing
  server. Each is a handler thread that reads the row (`Arrives`), calls Proxmox,
  saves the whole entity it read, and answers (`Respond`). `Serial` states how a server
  is used: TRUE when each request about it waits for the answer to the one before, FALSE
  when requests overlap. The first also rules out that an admin's list
  (`GET /admin/servers`, which refreshes every server in it) overlaps a customer's
  request. `billed` is the length of the ledger; `granted` is a history variable: the
  days of the extensions that were saved, whether or not the process lived to answer.
* `Expiry` extends `Operations` with time and the midnight task. `task` is its
  control point, `list` the entities its query returned, `cur` and `tsess` the one
  it is saving and the row its session has loaded; `age` counts the midnights since
  `created_at`, `warned` and `calm` are history variables, the second TRUE as long as no
  midnight found a request under way or on its way to a thread. It composes all that
  touches the servers table: sagas, requests, admins, the task, crashes, restarts.
* `Handlers` is what a request handler of the other tables is: `step`, the call it
  makes next, and `local`, what it knows. `Accounts` has the users table and the
  steps of `_map_user`, `RegisterUser` and `UserRepository.add`; `Catalog` the
  three catalog tables, the seeding and the admin's requests. `Register` is POST /users,
  which takes any external id from anybody without a token; every other request is sent
  by the customer the token names (`SignIn`). `Intake` composes
  them into `POST /servers` up to the INSERT of the order, where `Provisioning`
  takes over: its `Resolve` is what `ResolvePlan`, `ResolveHost` and the catalogs of
  `Intake` may answer.
* `Provisioning_proofs`, `ProvisioningRefinement`, `Operations_proofs` (every
  interleaving), `OperationsSerial_proofs` (customers who wait), `Expiry_proofs` and
  `Intake_proofs` have the proofs; each extends the module it is about, and
  `Expiry_proofs` builds on those of the requests as these do on those of the saga.
* `MCProvisioning`, `MCOperations`, `MCExpiry` and `MCIntake` give the constants their values for TLC.

Operators introduced as a mutant in a comment are faults one could have written;
each was substituted for the definition it names to see that a property notices.

### Abstractions

* vcpu and memory are always set together and are one number (`cpu`). Owners,
  locations, nodes, storages, addresses and texts are left out: no property here
  depends on them. A host with no node makes a call fail before anything is sent.
* A login that precedes each Proxmox call is part of that call: its failure is
  the failure of a request that was not sent.
* A row and its host are read in one step. Between the two reads only the host
  can change, and its configuration is used as it was read.
* A commit is all or nothing. A create or destroy may be served any time after
  its caller gave up (`LateCreate`, `LateDestroy`); a config, resize or password
  request is served at once or never. A power command that was accepted is
  carried out or ignored, and a VM changes its run state by itself at any time
  (`Drift`), so a late effect of a command is covered.
* A create is taken as done when it is answered. Proxmox really answers with a
  task; a clone whose config is not accepted yet is `ConfigureFails`.
* The config request of `provision_server` sets the disk to the size it names
  and `resize_disk` adds to it: that is how the code uses them.
* In `Expiry`, a server's age is relative to its own `created_at`, and ages from
  `AgeCap` on, which no number of days in the instance reaches, are alike: they
  satisfy the same queries. A pass is over before the next midnight.
* The task runs in the event loop, which dispatches nothing while a pass lasts; requests
  in threads go on. A request dispatched just before midnight may read its row only
  during the pass, so `Accepts` is possible then, and ends `calm`. `Drift` is left out of
  `ExpiryNext`, since no property there depends on the run state of a VM.
* `last_notified_at` is no column. `notify` reads it once a night, and the value it
  may find is at least a day old, so its guard never holds.
* In `Accounts` every `User()` has a fresh uuid4, so the request that builds one
  gives it its name. Users without an external id, which no token leads to, and an
  admin who acts for a user are left out. A customer is what the token says.
* In `Catalog`, `add` is a SELECT and a commit; `delete` loads and deletes in one
  step, and so does the default host's `add`, which the expiry task runs before the
  process serves requests.
* The SMS stub returns, and its calls are part of the steps next to them; what a real
  client that raises would do after the commit is the mutant `AnswerRaises`.

## Runs

| Run | Instance | Shows |
|---|---|---|
| `saga` | 2 servers with the same VM identifier, 2 hosts, symmetry | the invariants below, over 1.8 million states |
| `saga_promise` | the same servers on 1 host, no symmetry | every order ends; `Provisioning` implements `OrderPromise` |
| `operations` | 1 server, 2 overlapping requests of all 11 kinds and its saga; 2.9 million states | what no interleaving can break |
| `operations_serial` | 1 server, 3 requests one after the other; 2.7 million states | table, ledger and VM stay in step through every failure and crash |
| `expiry` | 1 server, 1 request that begins an extension or a start, the task, 3 days, restarts; 716 thousand states | nobody is stopped early or unwarned; a living task comes back to every expired server |
| `intake` | 3 requests of 2 customers, of anybody (POST /users) and of an admin, 1 default plan, 2 hosts, new or used tables, restarts, symmetry; 1.5 million states | whose a server is, and what is on sale |
| six `violation` runs | the smallest instance that shows it | documented claims the code does not keep |

Why the bounds are enough. Two sagas are the smallest number in which one can
harm another, and the only way they meet is a VM identifier on a host: both
derive 100 here. Two hosts let them collide or not, and let the right or the
wrong one be deleted. Two overlapping requests and the saga give every lost
update, since a lost update needs one reader and one writer. Serial histories
need a third request: an upgrade that fails after its push, a refresh or a
second upgrade that meets the difference, and one that builds on it. Sizes
start at 1 and 2, and each upgrade adds 1: equal numbers for different columns
could hide a swap. `operations_serial` uses one power command, since none of its
properties depends on the run state; `operations` uses all seven. Requests are
one-shot, so the number of `Ops` bounds every counter.

In `expiry` a plan has one day, an extension adds one, and a server is warned of
one day ahead: the first night warns, the next stops or, if extended, warns
again, and `AgeCap` = 3 leaves a night past both. One request is enough for a
task that reads early and saves late to lose it, and the saga of the server may
itself be under way for nights. In `intake` the third request is an admin's, a
second customer's, the same customer's or a registration by somebody else, next to the two that race; the plan
and hosts are one of each kind the code tells apart. `Upgrades` is empty there:
an upgrade is a key of `Catalog` like a host, without a default.

### What the properties say

* `PublishedVmExists`: a row with an external_id that is not FAILED or
  ROLLED_BACK names a VM created for this server. It holds for sagas under any
  collision.
* `PublishedVmKept`: the same through all requests of serial customers, for servers
  whose identifier no other server derives (`Distinct`). With overlapping requests it
  fails: an extension that read the row before the saga failed can write the old
  status over FAILED. Without `Distinct` it fails as well (see the end of "Where code
  and documentation differ"), which is why the other properties of sizes have it too.
* `AcceptedAsOrdered`: the row of a 200 names a VM with the sizes it states.
* `EveryVmHasRow`: also a VM that a request given up on may still create.
* `DestroysOnlyItsOwn`: identifiers collide, rollbacks destroy by identifier,
  and still no saga removes another's VM, because `external_id` is assigned only
  after Proxmox has accepted the identifier. The mutant `EarlyId` shows how little
  is needed to lose this. Nor does anybody remove a VM whose row shows it, also when
  its saga died before the answer.
* `PromiseKept`: the refinement of `OrderPromise`. Success is due only once the row shows
  a machine that exists, and from then on that machine stays, whether the answer went
  out, is still to go out, or was lost in a crash between the commit and the answer.
* `RequestsSettle`: the saga has two nested ways out of a failure, each with a save that
  may fail; none leads back into it. The handlers of existing servers are straight lines
  with no way back, so nothing is claimed of their ending.
* `OrderedSizesKept`: lost updates may shrink an upgraded VM, never below its plan.
* `PaidUpgradesDelivered`: the VM has at least what the ledger bills. It needs serial
  customers: two overlapping upgrades compute the same sizes and are both billed.
* `RowNeverAhead`: whatever fails, the row never claims more than the VM has.
* `DaysAsGranted`: extensions that were saved are all in the row; lost when requests
  overlap each other or the nightly task (`extension_lost`).
* `RunOutOnly`: whatever overlaps, no server is taken by the stopper before the days
  of its plan have passed. A lost extension costs a customer only what was lost. In a
  history in which customers wait for each answer (`Serial`) and no midnight cut across a
  request (`calm`), both together `Orderly`, the days granted are honoured as well.
* `WarnedFirst`: in an orderly history the two queries of the task leave no gap between "about to
  expire" and "expired", including a server extended after its reminder. A night that
  was missed, or whose save failed, is a reminder missed: the code never makes
  up for it. It excepts plans without an end (`PlanDays` = 0, the column is NULL):
  extending such a server gives it a first last day that may have passed already.
* `CalmVmsExist`: in an orderly history, the worker's saves publish nothing that is not there. The mutant
  lets a stop that found no VM count as one.
* `ExpiredEveryNight`: if the task lives from some time on, it comes back to every
  expired server again and again, however the stop ended the night before.
* `UncontestedKeepServers`: ids of users are rewritten by `add`, and `servers.owner_id`
  does not follow. A customer keeps its servers as long as none of its orders overlaps
  another request of its own or a registration of its external id, and nobody registers
  that id once it has a server: `contested` is the set of customers to whom one of these
  has happened. Its own overlaps a customer can avoid by waiting; registrations it
  cannot, since POST /users asks anybody for no token: what is checked is that nothing
  else costs a customer its servers (its sign-ins, failures, crashes, earlier
  registrations, other customers), because `_map_user` looks first. Neither condition can
  be dropped (`owner_loses_servers`).
* `AdminEntriesKept`: neither racing seeders nor restarts change what the admin
  made of an entry, unless it was missing when they looked. This needs the ORM's habit of
  writing only what differs.
* `OpsInv`, `SerialInv`, `ExpiryInv`, `IntakeInv` and `SagaInv` are the inductive
  invariants of the proofs below. The runs check them too, so that an instance
  shows what they say before and after every step.
* `DefaultPlansReady`: the repository is not handed out with a default plan missing,
  because a seeder whose INSERT met another's raises instead of returning.

### Fairness

Weak fairness of each saga's and each handler's next call, of the task's next
step, and of the passing of days. A thread that has
started keeps running: a locked SQLite database gives up after its default
5 seconds, and there are no locks in the code. `httpx.Client(timeout=10.0)` bounds how
long a call waits for the next byte, not the call: fairness assumes besides
that Proxmox does not send one answer in drops for ever. The event loop runs
the task to the end of its pass without an `await`. Nothing is assumed of Proxmox, of
admins, of late requests, of crashes or of restarts, and no fairness favours success over
failure: each is weak fairness of the disjunction of both.

## Proofs

### The saga

All for any set of servers and hosts and any `VmidOf`, colliding or not, from the
assumptions `VmidAssumption`, `PlanAssumption` and `NoneAssumption` of `ServerStore`.

The invariants are not inductive: `PublishedVmExists` says nothing of a saga that
is about to publish. `SagaInv` adds what each step relies on: what the entity
knows at each step (`EntityInv`), how far row and entity may differ and that a
session's row is current (`RowInv`), that the VM of a saga past its create is its
own and sized when it knows the identifier (`VmInv`), that every VM stands where
its owner's entity says (`PlacementInv`), that a late create belongs to a
request that never learnt its identifier while a late destroy still faces its own
VM (`LateInv`), and that a row that shows its VM has it and no late request about
it (`SeenInv`), which is what is left when the saga died before its answer. `LateInv` makes a late destroy harmless under collisions:
as long as that VM is there, nobody else can get the identifier.

`Provisioning_proofs` shows `SagaInv` action by action; what an action leaves
alone is handled by `FrameServer`, `FramePlacement`, `FrameLate` and `FrameSeen`. From it follow
`TypeCorrect`, `PublishedVms`, `AcceptedOrders`, `VmsHaveRows` and the action
property `OwnDestroys`. `ProvisioningRefinement` shows that every action is one
action of `OrderPromise` on the mapped state or a stutter, hence `Refinement`: the commit
is `Complete`, the answer `Accept` or `Refuse`, and a crash `Lose`s the answers of all that
were under way, those already due included.

### The requests on existing servers

For any servers, hosts, requests, kinds of request, bundle sizes and days, from the
assumptions above and `BundleAssumption`, `DaysAssumption`, `KindsAssumption` and
`SerialAssumption` of `Operations`. The two invariants are about different customers.

`OpsInv` holds of every interleaving. It is what lost updates leave of `SagaInv`:
whatever anybody holds of a row, however old, names the host it was ordered on and no
identifier but the one its saga learnt (`RowOf`, in `ServerInv` and `HandlerInv`), and
has no less than the sizes ordered (`SizesInv`), because an upgrade computes its sizes
from such a copy. `LateCreateInv`, `LateInv` and `PlacementInv` keep late requests away
from it. The proof describes a step of a saga by `SagaMoves` and one of a handler or
the hypervisor by `StoreMoves`, what it leaves alone in each case, and shows once that
everybody not part of the step keeps its invariant; `HandlerThinks`, `HandlerSetsVm` and
`CommitSaveWrites` are the three things a handler's step can do. From it follow
`OpsTypeCorrect` and `OrderedSizes`.

`SerialInv` is proved on top of it, of servers used serially (the hypothesis `Serial`, a
constant of the module that says so of every customer: both values are checked
in a run). One handler at a time works on a server, after its saga has ended
(`SoloInv`); its copy is the row, but for what it is about to save (`CurrentInv`);
VM, copy and row have sizes in this order and at least what the ledger says, with one
bundle more between an upgrade's push and its record (`DeliveredInv`); a late destroy
belongs to a row without identifier (`LateDestroyInv`). A push whose save fails leaves
the VM ahead, so equality would not be inductive. From it follow `RowsKeepTheirVm`,
`UpgradesDelivered`, `RowsNeverAhead` and `DaysGranted`.

### The nightly task

For everything of the previous sections and any warning period and number of days
(`WarningAssumption`, `AgeCapAssumption`, `NobodyAssumption`), of the specification
that composes all that touches the servers table. The theorems have no hypothesis:
`Orderly` is part of the properties.

`ExpiryInv` adds to `OpsInv` what the task holds. `ListInv`: an entity of its list,
however old, is one of `RowOf`, and was taken by the stopper for having outlived its
plan. `DaysInv`: no row, entity or copy anywhere has fewer days than the plan, so no
save can make a server expire before; with `ListInv`, this is the half of `RunOutOnly`
that holds under any overlap. `CurInv`: the server in hand is one of the list.
`OrderlyInv` holds while `Orderly` (customers wait, and no midnight cut across a
request) does: `SerialInv` goes on to hold, nobody but
the task is at work during a pass, the list and the session are current, and whoever was not
reminded yet has a day ahead, or has its last day and is on tonight's list or will be
(`OrderlyWarned`). The last is why the queries must agree on the last day, and it is
no invariant of other histories: an extension that the task overwrites may make
a server expire again that night.

The steps of sagas, requests and admins keep `OpsInv` and `SerialInv` by the lemmas of
the previous section; `LeftAloneKeeps` shows that they leave the task's part alone and
`OrderlyRequests` that a request takes nobody's remaining day. The save of the task is
one more handler's save (`TaskCommitsOps`, `TaskCommitsSerial`). `MidnightKeeps`,
`ListingKeeps`, `DecideKeeps` and `TaskEndsKeeps` are the task's own moves. From
`ExpiryInvariant` follow `ExpiryTypeCorrect`, `StopsOnlyRunOut`,
`RemindedBeforeStopped`, `NightsKeepVms`, `NightsKeepSizes` and `NightsKeepInStep`: what
was shown of the requests alone stays true with the task at work.

### The intake of orders

For any sets of requests, customers, plans, hosts, upgrades and offers, from the named assumptions of `Accounts`, `Catalog` and `Intake`.

`IntakeInv` adds to the properties what each handler knows between two calls. `KnowsAt`: what
the request carries and has read by its next call; without it an INSERT might write a
missing user or host. `FreshIds`: a row in users is named by a request that has written it,
so that a new id cannot take another customer's row. `OwnerInv`: the order of an
uncontested customer is its one request under way and knows the current id, and the
customer is added to users only while it has no server, which is why rewriting its id is
harmless. `SeedingInv`: a thread that seeds has seen to
the defaults behind it, and what it found missing is in `absent`, so what it writes later
is nothing that `AdminEntriesKept` protects. `AdminInv`: the admin's request is
alone, and what it read is still there when it commits, so writing only the columns that
differ writes the whole entry.

`Intake_proofs` splits it into what is said of handlers, of users and of tables. `GoToMoves`
and `StartMoves` show the first part for all steps, `FrameUsers`, `FrameTables` and `FrameEntries` what a
step leaves alone, `NewIdKept` the two ways an account gets an id, `RegisterKept` and
`CustomerKept` that what comes in contests exactly the customers it must, and `StoreRow` what
a commit does to a row. `IntakeInvariant` combines the actions; the four properties follow.

### Only model-checked

`RequestsSettle` and `ExpiredEveryNight`: liveness under fairness is out of the prover's
reach. Every invariant and the action property of the passing
runs have a theorem. `PublishedVmKept`, `PaidUpgradesDelivered` and `DaysAsGranted` need
customers who wait: on the instance of `operations`, where they overlap, TLC finds each
violated; for `RowNeverAhead` it takes three overlapping upgrades. The six violation runs
are counterexamples on an instance, too.

## Where code and documentation differ

* `rollback_leaves_vm`: "Rolls back the Proxmox resource when any step fails".
  A failed config request leaves the VM; the row says ROLLED_BACK, then FAILED.
* `upgrade_of_paused`: "upgrades are only allowed while the VM is stopped". Suspend
  saves STOPPED, and the upgrade's own status mapping does not know "paused".
* `extension_lost`: a saved extension is overwritten by an overlapping save, here
  the nightly reminder's, which writes the row it read at the start of the pass.
* `nightly_task_dies`: "nightly scheduler stops expired servers". One exception, of a
  query, of the save after an SMS, or of building the task, ends it silently.
* `owner_loses_servers`: "list servers created for a specific user". A registration of
  the external id by anybody, or a second first request at the same time, gives the account
  a new id, and `GET /servers/user/{user_id}` finds nothing under it.
* `disk_grown_twice`: "Apply an upgrade bundle to an existing server". One upgrade sets the
  disk to its new size and adds the bundle's size again. The sentence is general; the
  disagreement is between the VM and the row the same handler saves.

Read in the code while modelling, each plain enough not to need a run:

* The plans `basic` and `pro` are seeded without a host, and an order for such a plan
  calls `first_for_location`, which `ProxmoxHostRepository` does not have
  (`provisioning_policy.py:32`): it ends in an AttributeError, though src/README.md offers the
  default plans for a first order. `HostAnswer` is this.
* Every start writes the default host again, with no node, although src/README.md:49 says the
  `PROXMOX_*` values are "used only if no admin hosts are registered". `Boot` is this, and
  `AdminEntriesKept` excepts that host.
* A password that could not be set is returned all the same (`server_orchestrator.py:59`).
* No foreign key is enforced: a plan, host or user that rows refer to may go.
* Identifiers are server ids modulo 2,000,000,000 (`proxmox.py:343`), and a server whose
  rollback ran keeps the identifier in its row. If another server derived the same one, a
  refresh, a power command or an upgrade of the failed one is carried out on the VM
  of the other, and its status is saved as that of the failed one. The attempt to prove
  `PublishedVmKept` and the sizes without `Distinct` ends here. UUIDs make it unlikely.

## Plan

1. Done: `ServerStore`, `Provisioning`, `OrderPromise`; `Operations`; `Expiry`;
   `Handlers`, `Accounts`, `Catalog`, `Intake`; the proofs about each of them.
2. A refinement worth stating and proving next: the upgrade requests of a waiting
   customer as one abstract step of an account of bundles bought and delivered.

## Not modelled

`solapi.py` is a stub that returns. `settings.py` is read once. `schemas.py` validates
and formats: what it lets through is in the assumptions on the constants. Tokens are
taken as valid, with the claims they carry. An admin who names a user in
`X-Impersonate-User`, and users without an external id, are left out of `Accounts`.
The refresh of a list of servers is, for each row, a refresh of `Operations` that read
its row earlier. `primary_ip`, `disk_storage` and `last_notified_at` are no columns.

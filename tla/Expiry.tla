------------------------------- MODULE Expiry -------------------------------
(***************************************************************************)
(* The asyncio task that main.py starts with the process: at midnight it   *)
(* reminds the owners of servers about to expire and stops those that      *)
(* have.  It runs in the event loop, so that none is dispatched to a       *)
(* worker thread while it is at work, but those that were go on.           *)
(***************************************************************************)
EXTENDS Operations

CONSTANTS
    Warning,    \* expiry_warning_days
    AgeCap      \* an age no expire_in_days reaches: all older servers are alike

VARIABLES
    age,        \* midnights since the created_at of each server, at most AgeCap
    task,       \* what the task is about to do, or how it ended
    list,       \* the entities of its query that it has not dealt with
    cur,        \* the server whose entity it is saving, None between two
    tsess,      \* the row its open database session has loaded, None if closed
    warned,     \* whether the owner was reminded, or a night for it was missed
    calm        \* no request was ever under way at midnight

workerVars == <<task, list, cur, tsess>>
expiryVars == <<age, warned, calm, workerVars>>
everyVar == <<allVars, expiryVars>>

\* The steps of notify and of stop_expired; "noting", "saving" and "resaving"
\* are their calls of ServerRepository.update.
Reminding == {"notify", "reminding", "noting"}
Stopping == {"stop_expired", "stopping", "saving", "resaving"}
TaskSaves == {"noting", "saving", "resaving"}

ASSUME WarningAssumption == Warning \in Nat \ {0}
ASSUME AgeCapAssumption == AgeCap \in Nat \ {0}
ASSUME NobodyAssumption == None \notin Servers

ExpiryTypeOK ==
    /\ OpsTypeOK
    /\ age \in [Servers -> 0..AgeCap]
    /\ task \in {"asleep", "dead", "down"} \cup Reminding \cup Stopping
    /\ list \in [Servers -> Row \cup {None}]
    /\ cur \in Servers \cup {None}
    /\ (cur # None) <=> (task \in TaskSaves)
    /\ tsess \in Row \cup {None}
    /\ warned \in [Servers -> {"not yet", "reminded", "missed"}]
    /\ calm \in BOOLEAN

Nothing == [s \in Servers |-> None]

\* The task starts by building its use cases, which writes the default host; it
\* is over at once when that raises.
Started == {"asleep", "dead"}

ExpiryInit ==
    /\ OpsInit
    /\ age = [s \in Servers |-> 0]
    /\ task \in Started
    /\ list = Nothing
    /\ cur = None
    /\ tsess = None
    /\ warned = [s \in Servers |-> "not yet"]
    /\ calm = TRUE

Awake == task \in Reminding \cup Stopping

\* No request is in a worker thread.
Idle == Busy = {} /\ InFlight = {}

(***************************************************************************)
(* The queries.  created_at is some time within a day, so that at the      *)
(* midnight that makes a server a days old, expire_at has passed when it   *)
(* lies fewer than a days after created_at.  No status is looked at.       *)
(***************************************************************************)

HasExpiry(s) == db[s] # None /\ db[s].days # 0

\* Mutant of Expired: a server is stopped on its last day.
ExpiredEarly(s) == HasExpiry(s) /\ age[s] >= db[s].days

\* list_expired
Expired(s) == HasExpiry(s) /\ age[s] > db[s].days

\* Mutant of Expiring: the last day does not count.
ExpiringLater(s, a) == HasExpiry(s) /\ a < db[s].days /\ db[s].days < a + Warning

\* list_expiring_within, at age a
Expiring(s, a) == HasExpiry(s) /\ a <= db[s].days /\ db[s].days < a + Warning

\* The entities of these rows.
Loaded(servers) == [s \in Servers |-> IF s \in servers THEN db[s] ELSE None]

(***************************************************************************)
(* Time                                                                    *)
(***************************************************************************)

\* A chance to remind these owners has gone.
Missed(servers) ==
    [s \in Servers |-> IF s \in servers /\ warned[s] = "not yet" THEN "missed" ELSE warned[s]]

Older(s) == IF pc[s] = "new" \/ age[s] = AgeCap THEN age[s] ELSE age[s] + 1

\* The task is done long before the next midnight; a task that ended, or a
\* process that is down, lets it pass.
Midnight ==
    /\ ~Awake
    /\ age' = [s \in Servers |-> Older(s)]
    /\ calm' = (calm /\ Idle)
    /\ IF task = "asleep"
       THEN task' = "notify" /\ UNCHANGED warned
       ELSE warned' = Missed({s \in Servers : Expiring(s, Older(s))}) /\ UNCHANGED task
    /\ UNCHANGED <<allVars, list, cur, tsess>>

(***************************************************************************)
(* Moves of the task                                                       *)
(***************************************************************************)

\* On with no server in hand.
Proceed(step) == task' = step /\ cur' = None /\ tsess' = None

\* On with what this query returned.
Listing(step, rows) == Proceed(step) /\ list' = rows /\ UNCHANGED <<warned, age, calm>>

\* Who was still to be reminded tonight.
Unreminded ==
    CASE task = "notify" -> {s \in Servers : Expiring(s, age[s])}
      [] task \in {"reminding", "noting"} -> {s \in Servers : list[s] # None}
      [] OTHER -> {}

\* An exception that nobody catches, or the end of the process.
TaskEnds(how) ==
    /\ Proceed(how)
    /\ list' = Nothing
    /\ warned' = Missed(Unreminded)
    /\ UNCHANGED <<age, calm>>

\* On to saving this server's entity with this status.
Decide(s, status, step) ==
    /\ task' = step
    /\ cur' = s
    /\ tsess' = None
    /\ list' = [list EXCEPT ![s] = WithStatus(@, status)]
    /\ UNCHANGED <<age, calm>>

(***************************************************************************)
(* notify                                                                  *)
(***************************************************************************)

QueryExpiring ==
    /\ task = "notify"
    /\ Listing("reminding", Loaded({s \in Servers : Expiring(s, age[s])}))
    /\ UNCHANGED allVars

\* The SMS goes out before the save.  last_notified_at, which the save writes,
\* is no column of the model: notify runs once a day, so its guard never holds.
Remind(s) ==
    /\ task = "reminding"
    /\ list[s] # None
    /\ Decide(s, list[s].status, "noting")
    /\ warned' = [warned EXCEPT ![s] = "reminded"]
    /\ UNCHANGED allVars

\* user_repo.get(owner_id) finds nobody.
OwnerUnknown(s) ==
    /\ task = "reminding"
    /\ list[s] # None
    /\ list' = [list EXCEPT ![s] = None]
    /\ warned' = Missed({s})
    /\ UNCHANGED <<allVars, age, calm, task, cur, tsess>>

AllReminded ==
    /\ task = "reminding"
    /\ list = Nothing
    /\ Listing("stop_expired", Nothing)
    /\ UNCHANGED allVars

(***************************************************************************)
(* stop_expired                                                            *)
(***************************************************************************)

\* Mutant of QueryExpired: what was stopped or failed once is passed over.
QueryOnlyLive ==
    /\ task = "stop_expired"
    /\ Listing("stopping", Loaded({s \in Servers :
           Expired(s) /\ db[s].status \notin {"stopped", "failed"}}))
    /\ UNCHANGED allVars

QueryExpired ==
    /\ task = "stop_expired"
    /\ Listing("stopping", Loaded({s \in Servers : Expired(s)}))
    /\ UNCHANGED allVars

TaskSlot(s) == <<list[s].host, list[s].ext>>

NothingToStop(s) ==
    /\ task = "stopping"
    /\ list[s] # None /\ list[s].ext = None
    /\ Decide(s, "stopped", "saving")
    /\ UNCHANGED <<allVars, warned>>

HostGone(s) ==
    /\ task = "stopping"
    /\ list[s] # None /\ list[s].ext # None /\ list[s].host \notin hosts
    /\ Decide(s, "failed", "saving")
    /\ UNCHANGED <<allVars, warned>>

\* Proxmox accepts the stop and carries it out, now or never.
StopVm(s) ==
    /\ task = "stopping"
    /\ list[s] # None /\ list[s].ext # None /\ list[s].host \in hosts
    /\ vms[TaskSlot(s)] # None
    /\ \E run \in {vms[TaskSlot(s)].run, "stopped"} :
          vms' = [vms EXCEPT ![TaskSlot(s)] = WithRun(@, run)]
    /\ Decide(s, "stopped", "saving")
    /\ UNCHANGED <<db, hosts, sagaVars, opVars, warned>>

\* Mutant of StopFails: a VM that is not there counts as stopped.
StopFailsAsStopped(s) ==
    /\ task = "stopping"
    /\ list[s] # None /\ list[s].ext # None
    /\ Decide(s, "stopped", "saving")
    /\ UNCHANGED <<allVars, warned>>

\* The host cannot be read, or Proxmox refuses or does not answer; a stop that
\* took effect without an answer leaves the VM as StopVm may.
StopFails(s) ==
    /\ task = "stopping"
    /\ list[s] # None /\ list[s].ext # None
    /\ Decide(s, "failed", "resaving")
    /\ UNCHANGED <<allVars, warned>>

\* The pass is over until the next midnight.
AllStopped ==
    /\ task = "stopping"
    /\ list = Nothing
    /\ Listing("asleep", Nothing)
    /\ UNCHANGED allVars

(***************************************************************************)
(* The task's saves, and what raises                                       *)
(***************************************************************************)

TaskOpens ==
    /\ task \in TaskSaves
    /\ tsess = None
    /\ tsess' = db[cur]
    /\ UNCHANGED <<allVars, task, list, cur, warned, age, calm>>

TaskCommits ==
    /\ task \in TaskSaves
    /\ tsess # None
    /\ db' = [db EXCEPT ![cur] = Flush(@, tsess, list[cur])]
    /\ Proceed(IF task = "noting" THEN "reminding" ELSE "stopping")
    /\ list' = [list EXCEPT ![cur] = None]
    /\ UNCHANGED <<hosts, vms, sagaVars, opVars, warned, age, calm>>

\* Mutant of SaveCaught: the failure is ignored and the session left open.
SaveIgnored ==
    /\ task = "saving"
    /\ task' = "stopping"
    /\ UNCHANGED <<allVars, list, cur, tsess, warned, age, calm>>

\* A failed save in the try of _stop_server is answered by saving FAILED.
SaveCaught ==
    /\ task = "saving"
    /\ Decide(cur, "failed", "resaving")
    /\ UNCHANGED <<allVars, warned>>

\* A query, a save of notify or the save in _stop_server's own handler raises:
\* the exception leaves the loop in main.py, and the task is over.
TaskRaises ==
    /\ task \in {"notify", "reminding", "noting", "stop_expired", "resaving"}
    /\ list = Nothing => task \in {"notify", "stop_expired"}
    /\ TaskEnds("dead")
    /\ UNCHANGED allVars

WorkerStep ==
    \/ QueryExpiring
    \/ \E s \in Servers : Remind(s) \/ OwnerUnknown(s)
    \/ AllReminded
    \/ QueryExpired
    \/ \E s \in Servers : NothingToStop(s) \/ HostGone(s) \/ StopVm(s) \/ StopFails(s)
    \/ AllStopped
    \/ TaskOpens
    \/ TaskCommits
    \/ SaveCaught
    \/ TaskRaises

(***************************************************************************)
(* The rest of the process                                                 *)
(***************************************************************************)

NewRequest ==
    \/ \E s \in Servers, h \in Hosts : Resolve(s, h) /\ UNCHANGED opVars
    \/ \E o \in Ops, s \in Servers : BeginExtend(o, s)
    \/ \E o \in Ops, kind \in Kinds, s \in Servers : BeginOnVm(o, kind, s)

\* A request in a living process.  The event loop dispatches none while the task
\* is at work in it, so one that reads its row then was on its way to a thread at
\* midnight.
Accepts ==
    /\ task # "down"
    /\ NewRequest
    /\ calm' = (calm /\ ~Awake)
    /\ UNCHANGED <<age, warned, workerVars>>

\* An extension that reaches past today is one to be reminded of anew.
Extended ==
    {s \in Servers : granted'[s] > granted[s] /\ db'[s].days > age[s]}

Handler(o) ==
    /\ OpStep(o)
    /\ warned' = [s \in Servers |-> IF s \in Extended THEN "not yet" ELSE warned[s]]
    /\ UNCHANGED <<age, calm, workerVars>>

Saga(s) == SagaStep(s) /\ UNCHANGED <<opVars, expiryVars>>

\* What a request given up on, or an admin, does at any time.
Others ==
    \/ \E s \in Servers, h \in Hosts, cloned \in BOOLEAN : LateCreate(s, h, cloned)
    \/ \E s \in Servers, h \in Hosts : LateDestroy(s, h)
    \/ \E h \in Hosts : (AddHost(h) \/ DeleteHost(h)) /\ UNCHANGED sagaVars

ProcessDies(sent) ==
    /\ task # "down"
    /\ CrashAll(sent)
    /\ TaskEnds("down")

\* Startup creates a new task.
Restart ==
    /\ task = "down"
    /\ \E how \in Started : Listing(how, Nothing)
    /\ UNCHANGED allVars

ExpiryNext ==
    \/ Midnight
    \/ WorkerStep
    \/ Accepts
    \/ \E o \in Ops : Handler(o)
    \/ \E s \in Servers : Saga(s)
    \/ Others /\ UNCHANGED <<opVars, expiryVars>>
    \/ \E sent \in SUBSET Unanswered : ProcessDies(sent)
    \/ Restart

\* Days go by, and threads and the event loop keep running.
ExpiryFairness ==
    /\ WF_everyVar(Midnight)
    /\ WF_everyVar(WorkerStep)
    /\ \A o \in Ops : WF_everyVar(Handler(o))
    /\ \A s \in Servers : WF_everyVar(Saga(s))

ExpirySpec == ExpiryInit /\ [][ExpiryNext]_everyVar /\ ExpiryFairness

(***************************************************************************)
(* Properties                                                              *)
(***************************************************************************)

\* The stopper has taken this server to stop it.
Doomed(s) == task \in {"stopping", "saving", "resaving"} /\ list[s] # None

\* Customers wait for their answers, and no midnight came while they did.
Orderly == Serial /\ calm

\* No server is stopped before the days it was ordered with have passed,
\* whatever overlapped; and, as long as no request was cut across by another or
\* by midnight, none before those its owner was granted (list_expired, extend,
\* the saves of both use cases).
RunOutOnly ==
    \A s \in Servers :
        Doomed(s) =>
            /\ age[s] > PlanDays
            /\ Orderly => age[s] > PlanDays + granted[s]

\* In an orderly history no server that was ordered with an end is stopped
\* before its owner was reminded, unless a night was missed or the owner is
\* unknown: the two queries leave no gap between them, also for a server
\* extended after it was reminded of.
WarnedFirst ==
    \A s \in Servers : Orderly /\ PlanDays # 0 /\ Doomed(s) => warned[s] # "not yet"

\* In an orderly history the worker's own saves publish nothing that is not there.
CalmVmsExist == Orderly => PublishedVmKept

\* A task that lives deals with every expired server every night, whatever
\* Proxmox answers and whatever became of it the nights before; also one that
\* expired while the process was down.
ExpiredEveryNight ==
    \A s \in Servers :
        <>[](task \notin {"dead", "down"}) /\ <>[]Expired(s)
            => []<>(cur = s /\ task \in {"saving", "resaving"})

(***************************************************************************)
(* The inductive invariant                                                 *)
(***************************************************************************)

\* What the task holds of a server, however long ago it read the row.
ListInv(s) ==
    list[s] # None =>
        /\ task \in (Reminding \cup Stopping) \ {"notify", "stop_expired"}
        /\ db[s] # None /\ RowOf(s, list[s])
        /\ Distinct(s) => Ample(list[s])
        /\ task \in Stopping => age[s] > PlanDays

\* No row, entity or copy of it has fewer days than were ordered.
DaysInv(s) ==
    /\ ent[s] # None => ent[s].days = PlanDays
    /\ db[s] # None => db[s].days >= PlanDays
    /\ list[s] # None => list[s].days >= PlanDays
    /\ \A o \in Active : Srv(o) = s => copy[o].days >= PlanDays

\* The server in hand is one of the list.
CurInv ==
    /\ cur # None => list[cur] # None
    /\ tsess # None => cur # None

\* In an orderly history the list is current: nobody is at work but the task.
OrderlyList(s) ==
    list[s] # None =>
        /\ list[s].host = db[s].host /\ list[s].ext = db[s].ext
        /\ list[s].cpu = db[s].cpu /\ list[s].disk = db[s].disk
        /\ list[s].days = db[s].days
        /\ Distinct(s) /\ Published(list[s]) => OwnVm(s)
        /\ task \in Stopping => age[s] > db[s].days

\* An owner who was not reminded yet has a day left, or is about to be.
OrderlyWarned(s) ==
    /\ pc[s] \notin Ends => age[s] = 0
    /\ PlanDays # 0 /\ db[s] # None /\ warned[s] = "not yet" =>
          /\ age[s] <= db[s].days
          /\ age[s] = db[s].days => task = "notify" \/ (task \in Reminding /\ list[s] # None)

OrderlyInv ==
    /\ SerialInv
    /\ Awake => Idle
    /\ tsess # None => tsess = db[cur]
    /\ task = "noting" => warned[cur] # "not yet"
    /\ \A s \in Servers : OrderlyList(s) /\ OrderlyWarned(s)

ExpiryInv ==
    /\ ExpiryTypeOK
    /\ OpsInv
    /\ CurInv
    /\ \A s \in Servers : ListInv(s) /\ DaysInv(s)
    /\ Orderly => OrderlyInv

(***************************************************************************)
(* What the documentation says and the code does not do                    *)
(***************************************************************************)

\* "The nightly scheduler stops expired servers" (README.md:38): as long as the
\* process is up, every expired server is dealt with.
NightlyTaskLives ==
    \A s \in Servers :
        <>[](task # "down") /\ <>[]Expired(s)
            => []<>(cur = s /\ task \in {"saving", "resaving"})

==============================================================================

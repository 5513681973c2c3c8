---------------------------- MODULE Intake_proofs ----------------------------
(***************************************************************************)
(* Proofs about the way of an order to its row, for every number of        *)
(* requests, customers and catalog entries.  IntakeInv falls into what is  *)
(* said of handlers, of users and of tables; each action keeps each part,  *)
(* and the Frame lemmas deal with the parts that it does not touch.        *)
(***************************************************************************)
EXTENDS Intake, TLAPS

HandlersInv ==
    /\ step \in [Requests -> {"idle"} \cup Steps \cup Ends]
    /\ local \in [Requests -> Local \cup {None}]
    /\ \A r \in Requests : local[r] # None <=> r \in UnderWay
    /\ \A r \in UnderWay : KnowsAt(step[r], local[r])

UsersInv ==
    /\ AccountsTypeOK
    /\ bought \in [Requests -> Order \cup {None}]
    /\ contested \subseteq Accounts
    /\ FreshIds /\ UncontestedKeepServers
    /\ \A r \in UnderWay : OwnerInv(r)

TablesInv ==
    /\ CatalogTypeOK
    /\ Missing(rows) \subseteq absent
    /\ AdminEntriesKept /\ DefaultPlansReady
    /\ \A r \in UnderWay : SeedingInv(r) /\ AdminInv(r)

LEMMA Parts == IntakeInv <=> HandlersInv /\ UsersInv /\ TablesInv
BY DEF IntakeInv, IntakeTypeOK, HandlersInv, UsersInv, TablesInv

LEMMA PartsNext == IntakeInv' <=> HandlersInv' /\ UsersInv' /\ TablesInv'
BY DEF IntakeInv, IntakeTypeOK, HandlersInv, UsersInv, TablesInv

(***************************************************************************)
(* Handlers                                                                *)
(***************************************************************************)

Kept(r) == \A q \in Requests \ {r} : step'[q] = step[q] /\ local'[q] = local[q]

\* A request that has ended has no next step.
LEMMA StepsAndEnds ==
    /\ Steps \cap Ends = {}
    /\ "idle" \notin Steps \cup Ends
    /\ Steps = {"lookup", "find", "write", "check", "seed", "peek", "load", "store", "drop",
                "plan", "host", "insert"}
BY DEF Steps, Ends, AccountSteps, CatalogSteps, OrderSteps

\* What a handler under way knows is a record.
LEMMA KnownIsLocal ==
    ASSUME HandlersInv, NEW r \in UnderWay
    PROVE  r \in Requests /\ step[r] \in Steps /\ local[r] \in Local /\ KnowsAt(step[r], local[r])
BY NoneAssumption DEF HandlersInv, UnderWay

\* A handler goes on with what the next call needs, and the others stay.
LEMMA GoToMoves ==
    ASSUME HandlersInv, NEW r \in Requests, NEW next \in Steps \cup Ends, NEW knows,
           GoTo(r, next, knows),
           next \in Steps => knows \in Local /\ KnowsAt(next, knows)
    PROVE  /\ HandlersInv'
           /\ Kept(r)
           /\ step'[r] = next
           /\ r \in UnderWay' <=> next \in Steps
           /\ next \in Steps => local'[r] = knows
<1>1. /\ step' = [step EXCEPT ![r] = next]
      /\ local' = [local EXCEPT ![r] = IF next \in Ends THEN None ELSE knows]
  BY DEF GoTo
<1>2. /\ Kept(r)
      /\ step'[r] = next
      /\ next \in Steps => local'[r] = knows
      /\ next \in Ends => local'[r] = None
  BY <1>1, StepsAndEnds DEF HandlersInv, Kept
<1>3. r \in UnderWay' <=> next \in Steps
  BY <1>2 DEF UnderWay
<1>4. /\ step' \in [Requests -> {"idle"} \cup Steps \cup Ends]
      /\ local' \in [Requests -> Local \cup {None}]
  BY <1>1, StepsAndEnds DEF HandlersInv
<1>5. ASSUME NEW q \in Requests
      PROVE  /\ local'[q] # None <=> q \in UnderWay'
             /\ q \in UnderWay' => KnowsAt(step'[q], local'[q])
  <2>1. CASE q = r
    BY <1>2, <1>3, <2>1, StepsAndEnds, NoneAssumption
  <2>2. CASE q # r
    BY <1>2, <2>2 DEF HandlersInv, Kept, UnderWay
  <2>3. QED
    BY <2>1, <2>2
<1>6. HandlersInv'
  BY <1>4, <1>5 DEF HandlersInv, UnderWay
<1>7. QED
  BY <1>2, <1>3, <1>6

\* A request begins with what it carries.
LEMMA StartMoves ==
    ASSUME HandlersInv, NEW r \in Requests, NEW endpoint \in Endpoints, NEW first \in Steps,
           NEW acct \in Accounts \cup {None}, NEW key \in Keys \cup {None},
           NEW value \in Entry \cup {None},
           Starts(r, endpoint, first, acct, key, value),
           \A l \in Local :
              /\ l.endpoint = endpoint /\ l.acct = acct /\ l.key = key /\ l.value = value
              /\ l.seeding = None
              => KnowsAt(first, l)
    PROVE  /\ HandlersInv'
           /\ Kept(r)
           /\ step'[r] = first /\ r \in UnderWay'
           /\ local'[r].endpoint = endpoint /\ local'[r].acct = acct /\ local'[r].key = key
           /\ local'[r].uid = None /\ local'[r].seeding = None
<1> DEFINE l == [endpoint |-> endpoint, acct |-> acct, key |-> key, value |-> value,
                 uid |-> None, seen |-> None, todo |-> {}, seeding |-> None,
                 read |-> None, plan |-> None]
<1>1. step' = [step EXCEPT ![r] = first] /\ local' = [local EXCEPT ![r] = l]
  BY DEF Starts
<1>2. l \in Local
  BY DEF Local
<1>3. KnowsAt(first, l)
  BY <1>2
<1>4. Kept(r) /\ step'[r] = first /\ local'[r] = l
  BY <1>1 DEF HandlersInv, Kept
<1>5. r \in UnderWay'
  BY <1>4 DEF UnderWay
<1>6. /\ step' \in [Requests -> {"idle"} \cup Steps \cup Ends]
      /\ local' \in [Requests -> Local \cup {None}]
  BY <1>1, <1>2 DEF HandlersInv
<1>7. ASSUME NEW q \in Requests
      PROVE  /\ local'[q] # None <=> q \in UnderWay'
             /\ q \in UnderWay' => KnowsAt(step'[q], local'[q])
  <2>1. CASE q = r
    BY <1>2, <1>3, <1>4, <1>5, <2>1, NoneAssumption
  <2>2. CASE q # r
    BY <1>4, <2>2 DEF HandlersInv, Kept, UnderWay
  <2>3. QED
    BY <2>1, <2>2
<1>8. HandlersInv'
  BY <1>6, <1>7 DEF HandlersInv, UnderWay
<1>9. QED
  BY <1>4, <1>5, <1>8

(***************************************************************************)
(* What a step leaves alone                                                *)
(***************************************************************************)

\* The users part survives a step that leaves both tables alone and changes
\* nothing about who r works for.
LEMMA FrameUsers ==
    ASSUME HandlersInv, UsersInv, NEW r \in Requests, Kept(r),
           UNCHANGED <<users, bought, contested>>,
           r \in UnderWay' =>
              /\ r \in UnderWay
              /\ local'[r].endpoint = local[r].endpoint
              /\ local'[r].acct = local[r].acct /\ local'[r].uid = local[r].uid
              /\ step'[r] \in {"find", "write"} => step[r] \in {"find", "write"},
           step'[r] \in {"idle", "lookup", "find", "write"}
              => step[r] \in {"idle", "lookup", "find", "write"}
    PROVE  UsersInv'
<1>1. FreshIds'
  BY DEF UsersInv, FreshIds, Kept
<1>2. UncontestedKeepServers'
  BY DEF UsersInv, UncontestedKeepServers, StillOwns
<1>3. ASSUME NEW q \in UnderWay'
      PROVE  /\ q \in UnderWay /\ local'[q].endpoint = local[q].endpoint
             /\ local'[q].acct = local[q].acct /\ local'[q].uid = local[q].uid
             /\ step'[q] \in {"find", "write"} => step[q] \in {"find", "write"}
  BY <1>3 DEF Kept, UnderWay
<1>4. ASSUME NEW q \in UnderWay' PROVE OwnerInv(q)'
  BY <1>3, <1>4 DEF UsersInv, OwnerInv, HasServer
<1>5. QED
  BY <1>1, <1>2, <1>4 DEF UsersInv, AccountsTypeOK

\* The tables part survives a step outside the catalog.
LEMMA FrameTables ==
    ASSUME HandlersInv, TablesInv, NEW r \in Requests, Kept(r), UNCHANGED catalogVars,
           r \in UnderWay' =>
              /\ r \in UnderWay
              /\ local'[r].endpoint = local[r].endpoint
              /\ local'[r].seeding = None
              /\ step'[r] \notin {"peek", "store"}
    PROVE  TablesInv'
<1>1. /\ rows' = rows /\ ready' = ready /\ booted' = booted /\ latest' = latest
      /\ absent' = absent /\ dropped' = dropped
  BY DEF catalogVars, cacheVars, tableVars
<1>2. (Missing(rows) \subseteq absent)' /\ AdminEntriesKept' /\ DefaultPlansReady' /\ CatalogTypeOK'
  BY <1>1 DEF TablesInv, Missing, AdminEntriesKept, DefaultPlansReady, CatalogTypeOK
<1>3. ASSUME NEW q \in UnderWay' PROVE q \in UnderWay /\ local'[q].endpoint = local[q].endpoint
  BY <1>3 DEF Kept, UnderWay
<1>4. ASSUME NEW q \in UnderWay' PROVE SeedingInv(q)' /\ AdminInv(q)'
  <2>1. CASE q = r
    BY <1>1, <1>3, <1>4, <2>1 DEF TablesInv, SeedingInv, AdminInv
  <2>2. CASE q # r
    <3>1. step'[q] = step[q] /\ local'[q] = local[q] /\ q \in UnderWay
      BY <1>3, <1>4, <2>2 DEF Kept, UnderWay
    <3>2. SeedingInv(q)'
      BY <1>1, <3>1 DEF TablesInv, SeedingInv
    <3>3. AdminInv(q)'
      BY <1>1, <1>3, <3>1 DEF TablesInv, AdminInv
    <3>4. QED
      BY <3>2, <3>3
  <2>3. QED
    BY <2>1, <2>2
<1>5. QED
  BY <1>2, <1>4 DEF TablesInv

(***************************************************************************)
(* Authentication and registration                                         *)
(***************************************************************************)

LEMMA LookupKept ==
    ASSUME IntakeInv, NEW r \in Requests, Lookup(r, Authenticated(r)),
           UNCHANGED <<catalogVars, bought, contested>>
    PROVE  IntakeInv'
<1>0. HandlersInv /\ UsersInv /\ TablesInv
  BY Parts
<1>1. /\ step[r] = "lookup" /\ r \in UnderWay
      /\ users' = users /\ bought' = bought /\ contested' = contested
  BY StepsAndEnds DEF Lookup, UnderWay
<1>2. /\ local[r] \in Local /\ KnowsAt("lookup", local[r])
      /\ local[r].endpoint \in {"register", "order", "visit"}
      /\ local[r].acct \in Accounts /\ local[r].seeding = None
  BY <1>0, <1>1, KnownIsLocal DEF KnowsAt, AccountSteps
<1>3. CASE IdsOf(local[r].acct) = {}
  <2>1. GoTo(r, "find", local[r])
    BY <1>3 DEF Lookup
  <2>2. KnowsAt("find", local[r])
    BY <1>2 DEF KnowsAt, AccountSteps, CatalogSteps, OrderSteps
  <2>3. /\ HandlersInv' /\ Kept(r) /\ step'[r] = "find" /\ r \in UnderWay'
        /\ local'[r] = local[r]
    BY <1>0, <1>2, <2>1, <2>2, GoToMoves, StepsAndEnds
  <2>4. TablesInv'
    BY <1>0, <1>1, <1>2, <2>3, FrameTables
  <2>5. UncontestedKeepServers' /\ FreshIds'
    BY <1>0, <1>1, <2>3 DEF UsersInv, UncontestedKeepServers, StillOwns, FreshIds, Kept
  <2>6. local[r].acct \in Accounts \ contested => ~HasServer(local[r].acct)
    <3> SUFFICES ASSUME local[r].acct \in Accounts \ contested, NEW q \in Requests,
                        bought[q] # None, bought[q].acct = local[r].acct
                 PROVE  FALSE
      BY DEF HasServer
    <3>1. bought[q].owner \in Requests
      BY <1>0 DEF UsersInv, Order
    <3>2. QED
      BY <1>0, <1>3, <3>1 DEF UsersInv, UncontestedKeepServers, StillOwns, IdsOf
  <2>7. ASSUME NEW q \in UnderWay' PROVE OwnerInv(q)'
    <3>1. q \in UnderWay /\ local'[q] = local[q] /\ (q # r => step'[q] = step[q])
      BY <1>1, <2>3, <2>7 DEF Kept, UnderWay
    <3>2. \A p \in UnderWay' : p \in UnderWay /\ local'[p] = local[p]
      BY <1>1, <2>3 DEF Kept, UnderWay
    <3>3. OwnerInv(q)
      BY <1>0, <3>1 DEF UsersInv
    <3>4. QED
      BY <1>1, <2>3, <2>6, <3>1, <3>2, <3>3 DEF OwnerInv, HasServer
  <2>8. UsersInv'
    BY <1>0, <1>1, <2>5, <2>7 DEF UsersInv, AccountsTypeOK
  <2>9. QED
    BY <2>3, <2>4, <2>8, PartsNext
<1>4. CASE IdsOf(local[r].acct) # {}
  <2>1. PICK i \in IdsOf(local[r].acct) : GoTo(r, Authenticated(r), [local[r] EXCEPT !.uid = i])
    BY <1>4 DEF Lookup
  <2> DEFINE l == [local[r] EXCEPT !.uid = i]
  <2>2. i \in Requests /\ users[i] = local[r].acct
    BY <2>1 DEF IdsOf
  <2>3. l \in Local /\ l.acct = local[r].acct /\ l.endpoint = local[r].endpoint /\ l.seeding = None
        /\ l.uid = i
    BY <1>2, <2>2 DEF Local
  <2>4. Authenticated(r) \in {"seed", "done"} /\ (Authenticated(r) = "seed" => KnowsAt("seed", l))
    BY <1>2, <2>2, <2>3 DEF Local, KnowsAt, Authenticated, AccountSteps, CatalogSteps, OrderSteps
  <2>5. /\ HandlersInv' /\ Kept(r) /\ step'[r] \in {"seed", "done"}
        /\ r \in UnderWay' => local'[r] = l /\ local[r].endpoint = "order"
    BY <1>0, <2>1, <2>3, <2>4, GoToMoves, StepsAndEnds DEF Ends, Authenticated
  <2>6. TablesInv'
    BY <1>0, <1>1, <2>3, <2>5, FrameTables
  <2>7. UncontestedKeepServers' /\ FreshIds'
    BY <1>0, <1>1, <2>5 DEF UsersInv, UncontestedKeepServers, StillOwns, FreshIds, Kept
  <2>8. ASSUME NEW q \in UnderWay' PROVE OwnerInv(q)'
    <3>1. \A p \in UnderWay' : /\ p \in UnderWay /\ local'[p].acct = local[p].acct
                               /\ local'[p].endpoint = local[p].endpoint
      BY <1>1, <2>3, <2>5 DEF Kept, UnderWay
    <3>2. OwnerInv(q)
      BY <1>0, <2>8, <3>1 DEF UsersInv
    <3>3. CASE q = r
      BY <1>1, <2>2, <2>3, <2>5, <2>8, <3>1, <3>2, <3>3 DEF OwnerInv
    <3>4. CASE q # r
      BY <1>1, <2>5, <2>8, <3>1, <3>2, <3>4 DEF OwnerInv, Kept, UnderWay, HasServer
    <3>5. QED
      BY <3>3, <3>4
  <2>9. UsersInv'
    BY <1>0, <1>1, <2>7, <2>8 DEF UsersInv, AccountsTypeOK
  <2>10. QED
    BY <2>5, <2>6, <2>9, PartsNext
<1>5. QED
  BY <1>3, <1>4

LEMMA FindUserKept ==
    ASSUME IntakeInv, NEW r \in Requests, FindUser(r),
           UNCHANGED <<catalogVars, bought, contested>>
    PROVE  IntakeInv'
<1>0. HandlersInv /\ UsersInv /\ TablesInv
  BY Parts
<1>1. /\ step[r] = "find" /\ r \in UnderWay
      /\ users' = users /\ bought' = bought /\ contested' = contested
  BY StepsAndEnds DEF FindUser, UnderWay
<1>2. local[r] \in Local /\ KnowsAt("find", local[r]) /\ local[r].seeding = None
  BY <1>0, <1>1, KnownIsLocal DEF KnowsAt
<1>3. PICK l \in Local : /\ GoTo(r, "write", l)
                         /\ l.endpoint = local[r].endpoint /\ l.acct = local[r].acct
                         /\ l.key = local[r].key /\ l.value = local[r].value
                         /\ l.uid = local[r].uid /\ l.seeding = None
  <2>1. CASE GoTo(r, "write", local[r])
    BY <1>2, <2>1
  <2>2. CASE \E i \in IdsOf(local[r].acct) : GoTo(r, "write", [local[r] EXCEPT !.seen = i])
    <3>1. PICK i \in Requests : GoTo(r, "write", [local[r] EXCEPT !.seen = i])
      BY <2>2 DEF IdsOf
    <3>2. [local[r] EXCEPT !.seen = i] \in Local
      BY <1>2 DEF Local
    <3>3. QED
      BY <1>2, <3>1, <3>2 DEF Local
  <2>3. QED
    BY <2>1, <2>2 DEF FindUser
<1>4. KnowsAt("write", l)
  BY <1>2, <1>3 DEF KnowsAt, AccountSteps, CatalogSteps, OrderSteps
<1>5. HandlersInv' /\ Kept(r) /\ step'[r] = "write" /\ local'[r] = l
  BY <1>0, <1>3, <1>4, GoToMoves, StepsAndEnds
<1>6. TablesInv'
  BY <1>0, <1>1, <1>3, <1>5, FrameTables
<1>7. UsersInv'
  BY <1>0, <1>1, <1>3, <1>5, FrameUsers
<1>8. QED
  BY <1>5, <1>6, <1>7, PartsNext

\* What InsertUser and RewriteUser have in common: the account gets the id r, and
\* at most loses another.
LEMMA NewIdKept ==
    ASSUME IntakeInv, NEW r \in UnderWay, step[r] = "write",
           UNCHANGED <<catalogVars, bought, contested>>,
           users' \in [Requests -> Accounts \cup {None}],
           users'[r] = local[r].acct,
           \A i \in Requests \ {r} :
              users'[i] = users[i] \/ (users[i] = local[r].acct /\ users'[i] = None),
           NEW l \in Local, GoTo(r, Authenticated(r), l),
           l.endpoint = local[r].endpoint, l.acct = local[r].acct, l.key = local[r].key,
           l.value = local[r].value, l.seeding = local[r].seeding, l.uid = r
    PROVE  IntakeInv'
<1>0. HandlersInv /\ UsersInv /\ TablesInv
  BY Parts
<1>1. bought' = bought /\ contested' = contested
  OBVIOUS
<1>2. /\ r \in Requests /\ local[r] \in Local
      /\ KnowsAt("write", local[r]) /\ local[r].seeding = None /\ local[r].acct \in Accounts
  BY <1>0, KnownIsLocal DEF KnowsAt, AccountSteps
<1>3. Authenticated(r) \in {"seed", "done"} /\ (Authenticated(r) = "seed" => KnowsAt("seed", l))
  BY <1>2 DEF KnowsAt, Authenticated, AccountSteps, CatalogSteps, OrderSteps
<1>4. /\ HandlersInv' /\ Kept(r) /\ step'[r] \in {"seed", "done"}
      /\ r \in UnderWay' => local'[r] = l /\ local[r].endpoint = "order"
  BY <1>0, <1>2, <1>3, GoToMoves, StepsAndEnds DEF Ends, Authenticated
<1>5. TablesInv'
  BY <1>0, <1>2, <1>4, FrameTables
<1>6. users[r] = None
  BY <1>0, <1>2 DEF UsersInv, FreshIds
<1>7. FreshIds'
  BY <1>0, <1>2, <1>4 DEF UsersInv, FreshIds, Kept
<1>8. \A p \in UnderWay' : /\ p \in UnderWay /\ local'[p].acct = local[p].acct
                           /\ local'[p].endpoint = local[p].endpoint
  BY <1>4 DEF Kept, UnderWay
<1>9. ASSUME local[r].acct \in Accounts \ contested, NEW q \in Requests, bought[q] # None
      PROVE  bought[q].acct # local[r].acct
  BY <1>0, <1>9 DEF UsersInv, OwnerInv, HasServer
<1>10. ASSUME NEW q \in Requests, bought[q] # None, bought[q].acct \notin contested
       PROVE  users'[bought[q].owner] = bought[q].acct
  <2>1. /\ bought[q].owner \in Requests /\ bought[q].acct \in Accounts
        /\ users[bought[q].owner] = bought[q].acct
    BY <1>0, <1>10 DEF UsersInv, Order, UncontestedKeepServers, StillOwns
  <2>2. bought[q].acct # local[r].acct
    BY <1>2, <1>9, <1>10
  <2>3. bought[q].owner # r
    BY <1>6, <2>1, AccountsAssumption
  <2>4. QED
    BY <2>1, <2>2, <2>3
<1>11. UncontestedKeepServers'
  BY <1>1, <1>10 DEF UncontestedKeepServers, StillOwns
<1>12. ASSUME NEW q \in UnderWay' PROVE OwnerInv(q)'
  <2>1. OwnerInv(q) /\ q \in UnderWay
    BY <1>0, <1>8, <1>12 DEF UsersInv
  <2>2. CASE q = r
    BY <1>1, <1>2, <1>4, <1>8, <1>12, <2>1, <2>2 DEF OwnerInv
  <2>3. CASE q # r
    <3>1. local'[q] = local[q] /\ step'[q] = step[q] /\ local[q] \in Local
      BY <1>0, <1>4, <2>1, <2>3, KnownIsLocal DEF Kept
    <3>2. ASSUME local[q].acct \in Accounts \ contested, local[q].uid # None
          PROVE  users'[local[q].uid] = local[q].acct
      <4>1. local[q].uid \in Requests /\ users[local[q].uid] = local[q].acct
        BY <2>1, <3>1, <3>2 DEF Local, OwnerInv
      <4>2. local[q].acct # local[r].acct
        BY <2>1, <2>3, <3>2 DEF OwnerInv
      <4>3. local[q].uid # r
        BY <1>6, <3>2, <4>1, AccountsAssumption
      <4>4. QED
        BY <3>2, <4>1, <4>2, <4>3
    <3>3. QED
      BY <1>1, <1>8, <2>1, <3>1, <3>2 DEF OwnerInv, HasServer
  <2>4. QED
    BY <2>2, <2>3
<1>13. UsersInv'
  BY <1>0, <1>1, <1>7, <1>11, <1>12 DEF UsersInv, AccountsTypeOK
<1>14. QED
  BY <1>4, <1>5, <1>13, PartsNext

LEMMA InsertUserKept ==
    ASSUME IntakeInv, NEW r \in Requests, InsertUser(r, Authenticated(r)),
           UNCHANGED <<catalogVars, bought, contested>>
    PROVE  IntakeInv'
<1> DEFINE l == [local[r] EXCEPT !.uid = r]
<1>1. step[r] = "write" /\ r \in UnderWay
  BY StepsAndEnds DEF InsertUser, UnderWay
<1>2. local[r] \in Local /\ local[r].acct \in Accounts /\ users \in [Requests -> Accounts \cup {None}]
  BY <1>1, Parts, KnownIsLocal DEF KnowsAt, AccountSteps, UsersInv, AccountsTypeOK
<1>3. /\ l \in Local
      /\ l.endpoint = local[r].endpoint /\ l.acct = local[r].acct /\ l.key = local[r].key
      /\ l.value = local[r].value /\ l.seeding = local[r].seeding /\ l.uid = r
  BY <1>2 DEF Local
<1>4. /\ users' \in [Requests -> Accounts \cup {None}]
      /\ users'[r] = local[r].acct
      /\ \A i \in Requests \ {r} : users'[i] = users[i]
      /\ GoTo(r, Authenticated(r), l)
  BY <1>2 DEF InsertUser
<1>5. QED
  BY <1>1, <1>3, <1>4, NewIdKept

LEMMA RewriteUserKept ==
    ASSUME IntakeInv, NEW r \in Requests, RewriteUser(r, Authenticated(r)),
           UNCHANGED <<catalogVars, bought, contested>>
    PROVE  IntakeInv'
<1> DEFINE l == [local[r] EXCEPT !.uid = r, !.seen = None]
<1>1. step[r] = "write" /\ r \in UnderWay
  BY StepsAndEnds DEF RewriteUser, UnderWay
<1>2. local[r] \in Local /\ local[r].acct \in Accounts /\ users \in [Requests -> Accounts \cup {None}]
  BY <1>1, Parts, KnownIsLocal DEF KnowsAt, AccountSteps, UsersInv, AccountsTypeOK
<1>3. /\ l \in Local
      /\ l.endpoint = local[r].endpoint /\ l.acct = local[r].acct /\ l.key = local[r].key
      /\ l.value = local[r].value /\ l.seeding = local[r].seeding /\ l.uid = r
  BY <1>2 DEF Local
<1>4. /\ local[r].seen \in Requests /\ users[local[r].seen] = local[r].acct
      /\ users' = [users EXCEPT ![local[r].seen] = None, ![r] = local[r].acct]
      /\ GoTo(r, Authenticated(r), l)
  BY <1>2 DEF RewriteUser, Local
<1>5. /\ users' \in [Requests -> Accounts \cup {None}]
      /\ users'[r] = local[r].acct
      /\ \A i \in Requests \ {r} :
            users'[i] = users[i] \/ (users[i] = local[r].acct /\ users'[i] = None)
  BY <1>2, <1>4
<1>6. QED
  BY <1>1, <1>3, <1>4, <1>5, NewIdKept

LEMMA CheckUserKept ==
    ASSUME IntakeInv, NEW r \in Requests, CheckUser(r, "plan"),
           UNCHANGED <<catalogVars, bought, contested>>
    PROVE  IntakeInv'
<1>0. HandlersInv /\ UsersInv /\ TablesInv
  BY Parts
<1>1. /\ step[r] = "check" /\ r \in UnderWay
      /\ users' = users /\ bought' = bought /\ contested' = contested
  BY StepsAndEnds DEF CheckUser, UnderWay
<1>2. local[r] \in Local /\ KnowsAt("check", local[r]) /\ local[r].seeding = None
  BY <1>0, <1>1, KnownIsLocal DEF KnowsAt
<1>3. KnowsAt("plan", local[r])
  BY <1>2 DEF KnowsAt, AccountSteps, CatalogSteps, OrderSteps
<1>4. PICK next \in {"refused", "plan"} : GoTo(r, next, local[r])
  BY DEF CheckUser
<1>5. HandlersInv' /\ Kept(r) /\ step'[r] = next /\ (r \in UnderWay' => local'[r] = local[r])
  BY <1>0, <1>2, <1>3, <1>4, GoToMoves, StepsAndEnds DEF Ends
<1>6. TablesInv'
  BY <1>0, <1>1, <1>2, <1>4, <1>5, FrameTables
<1>7. UsersInv'
  BY <1>0, <1>1, <1>4, <1>5, FrameUsers
<1>8. QED
  BY <1>5, <1>6, <1>7, PartsNext

\* A call raises, and the request with it.
LEMMA CallRaisesKept ==
    ASSUME IntakeInv, NEW r \in Requests, CallRaises(r), UNCHANGED <<users, catalogVars, bought, contested>>
    PROVE  IntakeInv'
<1>0. HandlersInv /\ UsersInv /\ TablesInv
  BY Parts
<1>1. r \in UnderWay /\ GoTo(r, "failed", None)
  BY DEF CallRaises
<1>2. HandlersInv' /\ Kept(r) /\ step'[r] = "failed" /\ r \notin UnderWay'
  BY <1>0, <1>1, GoToMoves, StepsAndEnds DEF Ends
<1>3. UsersInv'
  BY <1>0, <1>2, FrameUsers
<1>4. TablesInv'
  BY <1>0, <1>2, FrameTables
<1>5. QED
  BY <1>2, <1>3, <1>4, PartsNext

(***************************************************************************)
(* ProvisionServer.execute                                                 *)
(***************************************************************************)

\* Key(r) is the plan that was ordered.
LEMMA ResolvePlanKept ==
    ASSUME IntakeInv, NEW r \in Requests, ResolvePlan(r)
    PROVE  IntakeInv'
<1>0. HandlersInv /\ UsersInv /\ TablesInv
  BY Parts
<1>1. step[r] = "plan" /\ r \in UnderWay /\ UNCHANGED <<users, catalogVars, bought, contested>>
  BY StepsAndEnds DEF ResolvePlan, UnderWay
<1>2. /\ local[r] \in Local /\ KnowsAt("plan", local[r])
      /\ local[r].seeding = None /\ local[r].key \in Plans
  BY <1>0, <1>1, KnownIsLocal DEF KnowsAt, OrderSteps
<1> DEFINE entry == rows[local[r].key]
           l == [local[r] EXCEPT !.plan = entry]
<1>3. entry \in Entry \cup {None}
  BY <1>0, <1>2 DEF TablesInv, CatalogTypeOK, Keys
<1>4. GoTo(r, IF entry = None THEN "refused" ELSE "host", l)
  BY <1>2 DEF ResolvePlan, Key
<1>5. /\ l \in Local
      /\ l.endpoint = local[r].endpoint /\ l.acct = local[r].acct /\ l.key = local[r].key
      /\ l.value = local[r].value /\ l.uid = local[r].uid /\ l.seeding = None /\ l.plan = entry
  BY <1>2, <1>3 DEF Local
<1>6. entry # None => KnowsAt("host", l)
  BY <1>2, <1>3, <1>5 DEF KnowsAt, AccountSteps, CatalogSteps, OrderSteps
<1>7. PICK next \in {"refused", "host"} : GoTo(r, next, l) /\ (next = "host" => entry # None)
  BY <1>4
<1>8. HandlersInv' /\ Kept(r) /\ step'[r] = next /\ (r \in UnderWay' => local'[r] = l)
  <2> HIDE DEF l, entry
  <2> QED
    BY <1>0, <1>5, <1>6, <1>7, GoToMoves, StepsAndEnds DEF Ends
<1>9. UsersInv' /\ TablesInv'
  <2> HIDE DEF l, entry
  <2> QED
    BY <1>0, <1>1, <1>5, <1>7, <1>8, FrameUsers, FrameTables
<1>10. QED
  BY <1>8, <1>9, PartsNext

LEMMA ResolveHostKept ==
    ASSUME IntakeInv, NEW r \in Requests, ResolveHost(r)
    PROVE  IntakeInv'
<1>0. HandlersInv /\ UsersInv /\ TablesInv
  BY Parts
<1>1. step[r] = "host" /\ r \in UnderWay /\ UNCHANGED <<users, catalogVars, bought, contested>>
  BY StepsAndEnds DEF ResolveHost, UnderWay
<1>2. /\ local[r] \in Local /\ KnowsAt("host", local[r])
      /\ local[r].seeding = None /\ local[r].plan \in Entry
  BY <1>0, <1>1, KnownIsLocal DEF KnowsAt, OrderSteps
<1>3. PICK next \in {"failed", "refused", "insert"} :
         GoTo(r, next, local[r]) /\ (next = "insert" => local[r].plan.host # None)
  BY DEF ResolveHost, HostAnswer
<1>4. next = "insert" => KnowsAt("insert", local[r])
  BY <1>2, <1>3 DEF KnowsAt, AccountSteps, CatalogSteps, OrderSteps, Entry
<1>5. HandlersInv' /\ Kept(r) /\ step'[r] = next /\ (r \in UnderWay' => local'[r] = local[r])
  BY <1>0, <1>2, <1>3, <1>4, GoToMoves, StepsAndEnds DEF Ends
<1>6. UsersInv' /\ TablesInv'
  BY <1>0, <1>1, <1>2, <1>3, <1>5, FrameUsers, FrameTables
<1>7. QED
  BY <1>5, <1>6, PartsNext

\* The row is well formed and names the user that ordered.
LEMMA InsertOrderKept ==
    ASSUME IntakeInv, NEW r \in Requests, InsertOrder(r)
    PROVE  IntakeInv'
<1>0. HandlersInv /\ UsersInv /\ TablesInv
  BY Parts
<1>1. step[r] = "insert" /\ r \in UnderWay /\ UNCHANGED <<users, contested, catalogVars>>
  BY StepsAndEnds DEF InsertOrder, UnderWay
<1>2. /\ local[r] \in Local
      /\ local[r].uid \in Requests /\ local[r].acct \in Accounts /\ local[r].key \in Plans
      /\ local[r].plan \in Entry /\ local[r].plan.host \in Hosts
      /\ local[r].endpoint = "order"
  BY <1>0, <1>1, KnownIsLocal DEF KnowsAt, OrderSteps
<1> DEFINE order == [owner |-> local[r].uid, acct |-> local[r].acct, plan |-> local[r].key,
                     spec |-> local[r].plan.spec, host |-> local[r].plan.host]
<1>3. order \in Order /\ order.owner = local[r].uid /\ order.acct = local[r].acct
  BY <1>2 DEF Order, Entry
<1>4. bought' = [bought EXCEPT ![r] = order] /\ GoTo(r, "done", None)
  BY DEF InsertOrder
<1> HIDE DEF order
<1>5. HandlersInv' /\ Kept(r) /\ step'[r] = "done" /\ r \notin UnderWay'
  BY <1>0, <1>4, GoToMoves, StepsAndEnds DEF Ends
<1>6. TablesInv'
  BY <1>0, <1>1, <1>5, FrameTables
<1>7. /\ bought' \in [Requests -> Order \cup {None}]
      /\ bought'[r] = order /\ \A q \in Requests \ {r} : bought'[q] = bought[q]
  BY <1>0, <1>3, <1>4 DEF UsersInv
<1>8. FreshIds'
  BY <1>0, <1>1, <1>5 DEF UsersInv, FreshIds, Kept
<1>9. local[r].acct \in Accounts \ contested => users[local[r].uid] = local[r].acct
  BY <1>0, <1>1, <1>2, AccountsAssumption DEF UsersInv, OwnerInv
<1>10. UncontestedKeepServers'
  <2> SUFFICES ASSUME NEW q \in Requests, bought'[q] # None, bought'[q].acct \notin contested
               PROVE  users[bought'[q].owner] = bought'[q].acct
    BY <1>1 DEF UncontestedKeepServers, StillOwns
  <2>1. CASE q = r
    BY <1>2, <1>3, <1>7, <1>9, <2>1
  <2>2. CASE q # r
    BY <1>0, <1>7, <2>2 DEF UsersInv, UncontestedKeepServers, StillOwns
  <2>3. QED
    BY <2>1, <2>2
<1>11. ASSUME NEW q \in UnderWay' PROVE OwnerInv(q)'
  <2>1. /\ q # r /\ q \in UnderWay /\ local'[q] = local[q] /\ step'[q] = step[q]
        /\ \A p \in UnderWay' : p \in UnderWay /\ local'[p] = local[p]
    BY <1>5, <1>11 DEF Kept, UnderWay
  <2>2. OwnerInv(q)
    BY <1>0, <2>1 DEF UsersInv
  <2>3. OwnerInv(r)
    BY <1>0, <1>1 DEF UsersInv
  <2>4. local[q].acct \in Accounts \ contested => local[q].acct # local[r].acct
    BY <1>1, <1>2, <2>1, <2>3 DEF OwnerInv
  <2>5. HasServer(local[q].acct)' => HasServer(local[q].acct) \/ local[q].acct = local[r].acct
    BY <1>3, <1>7, <2>1 DEF HasServer
  <2>6. QED
    BY <1>1, <2>1, <2>2, <2>4, <2>5 DEF OwnerInv
<1>12. UsersInv'
  BY <1>0, <1>1, <1>7, <1>8, <1>10, <1>11 DEF UsersInv, AccountsTypeOK
<1>13. QED
  BY <1>5, <1>6, <1>12, PartsNext

(***************************************************************************)
(* Seeding, and the admin's requests                                       *)
(***************************************************************************)

AdminsOf == {"add", "delete"}

\* What a step of r must see to itself when it changes no entry: what r knows of
\* the tables, and that the plan repository is handed out with its defaults.
LEMMA FrameEntries ==
    ASSUME HandlersInv, TablesInv, NEW r \in Requests, Kept(r), UNCHANGED tableVars,
           ready' \in BOOLEAN, booted' \in BOOLEAN,
           DefaultPlansReady',
           r \in UnderWay' =>
              /\ local'[r].endpoint \in AdminsOf =>
                    \A q \in UnderWay : local[q].endpoint \in AdminsOf => q = r
              /\ SeedingInv(r)'
              /\ /\ step'[r] = "store" /\ local'[r].seeding = None
                 /\ local'[r].key \notin absent \cup {DefaultHost}
                 => local'[r].read = rows[local'[r].key]
    PROVE  TablesInv'
<1>1. rows' = rows /\ latest' = latest /\ absent' = absent /\ dropped' = dropped
  BY DEF tableVars
<1>2. (Missing(rows) \subseteq absent)' /\ AdminEntriesKept' /\ CatalogTypeOK'
  BY <1>1 DEF TablesInv, Missing, AdminEntriesKept, CatalogTypeOK
<1>3. ASSUME NEW q \in UnderWay', q # r
      PROVE  q \in UnderWay /\ step'[q] = step[q] /\ local'[q] = local[q]
  BY <1>3 DEF Kept, UnderWay
<1>4. ASSUME NEW q \in UnderWay' PROVE SeedingInv(q)' /\ AdminInv(q)'
  <2>1. CASE q = r
    <3>1. \A p \in UnderWay' :
             local'[q].endpoint \in AdminsOf /\ local'[p].endpoint \in AdminsOf => p = q
      BY <1>3, <1>4, <2>1
    <3>2. QED
      BY <1>1, <1>4, <2>1, <3>1 DEF AdminInv, AdminsOf
  <2>2. CASE q # r
    <3>1. q \in UnderWay /\ step'[q] = step[q] /\ local'[q] = local[q]
      BY <1>3, <1>4, <2>2
    <3>2. SeedingInv(q)'
      BY <1>1, <3>1 DEF TablesInv, SeedingInv
    <3>3. \A p \in UnderWay' :
             local'[q].endpoint \in AdminsOf /\ local'[p].endpoint \in AdminsOf => p = q
      BY <1>3, <2>2, <3>1 DEF TablesInv, AdminInv, AdminsOf
    <3>4. AdminInv(q)'
      BY <1>1, <3>1, <3>3 DEF TablesInv, AdminInv, AdminsOf
    <3>5. QED
      BY <3>2, <3>4
  <2>3. QED
    BY <2>1, <2>2
<1>5. QED
  BY <1>2, <1>4 DEF TablesInv

\* A thread in a catalog step that keeps its request stays the only admin's.
LEMMA StillAlone ==
    ASSUME TablesInv, NEW r \in UnderWay
    PROVE  local[r].endpoint \in AdminsOf =>
              \A q \in UnderWay : local[q].endpoint \in AdminsOf => q = r
BY DEF TablesInv, AdminInv, AdminsOf

\* What a handler in a catalog step is.
LEMMA CatalogHandler ==
    ASSUME HandlersInv, NEW r \in Requests, step[r] \in CatalogSteps
    PROVE  /\ r \in UnderWay /\ local[r] \in Local /\ KnowsAt(step[r], local[r])
           /\ local[r].endpoint \in {"order", "add", "delete"}
           /\ local[r].endpoint = "order" => local[r].key \in Plans /\ local[r].uid \in Requests
           /\ local[r].key \in Keys
<1>1. r \in UnderWay
  BY DEF UnderWay, Steps
<1>2. local[r] \in Local /\ KnowsAt(step[r], local[r])
  BY <1>1, KnownIsLocal
<1>3. QED
  BY <1>1, <1>2 DEF KnowsAt, CatalogSteps, Keys

\* With the repository a request goes on to its own code.
LEMMA SuppliedStep ==
    ASSUME HandlersInv, NEW r \in Requests, step[r] \in {"seed", "peek"},
           NEW l \in Local, l = local[r]
    PROVE  Supplied(r) \in {"check", "load", "drop"} /\ KnowsAt(Supplied(r), l)
BY CatalogHandler
   DEF KnowsAt, Supplied, AdminCall, AccountSteps, CatalogSteps, OrderSteps, Keys

LEMMA NeedPlansKept ==
    ASSUME IntakeInv, NEW r \in Requests, NeedPlans(r, Supplied(r)),
           UNCHANGED <<users, bought, contested>>
    PROVE  IntakeInv'
<1>0. HandlersInv /\ UsersInv /\ TablesInv
  BY Parts
<1>1. /\ step[r] = "seed" /\ UNCHANGED catalogVars
      /\ users' = users /\ bought' = bought /\ contested' = contested
  BY DEF NeedPlans
<1>2. r \in UnderWay /\ local[r] \in Local /\ KnowsAt("seed", local[r]) /\ local[r].seeding = None
  BY <1>0, <1>1, CatalogHandler DEF KnowsAt, CatalogSteps
<1>3. CASE ready
  <2>1. Supplied(r) \in {"check", "load", "drop"} /\ KnowsAt(Supplied(r), local[r])
    BY <1>0, <1>1, <1>2, SuppliedStep
  <2>2. /\ HandlersInv' /\ Kept(r) /\ step'[r] = Supplied(r) /\ local'[r] = local[r]
    BY <1>0, <1>1, <1>2, <1>3, <2>1, GoToMoves, StepsAndEnds DEF NeedPlans
  <2>3. UsersInv' /\ TablesInv'
    BY <1>0, <1>1, <1>2, <2>1, <2>2, FrameUsers, FrameTables
  <2>4. QED
    BY <2>2, <2>3, PartsNext
<1>4. CASE ~ready
  <2> DEFINE l == [local[r] EXCEPT !.todo = DefaultPlans]
  <2>1. /\ l \in Local
        /\ l.endpoint = local[r].endpoint /\ l.acct = local[r].acct /\ l.key = local[r].key
        /\ l.value = local[r].value /\ l.uid = local[r].uid /\ l.seeding = None
        /\ l.todo = DefaultPlans
    BY <1>2 DEF Local
  <2>2. GoTo(r, "peek", l)
    BY <1>1, <1>4 DEF NeedPlans
  <2> HIDE DEF l
  <2>3. KnowsAt("peek", l)
    BY <1>2, <2>1 DEF KnowsAt, AccountSteps, CatalogSteps, OrderSteps
  <2>4. HandlersInv' /\ Kept(r) /\ step'[r] = "peek" /\ local'[r] = l
    BY <1>0, <2>1, <2>2, <2>3, GoToMoves, StepsAndEnds
  <2>5. UsersInv'
    BY <1>0, <1>1, <1>2, <2>1, <2>4, FrameUsers
  <2>6. SeedingInv(r)'
    BY <2>1, <2>4 DEF SeedingInv
  <2>7. DefaultPlansReady' /\ ready' \in BOOLEAN /\ booted' \in BOOLEAN /\ UNCHANGED tableVars
    BY <1>0, <1>1 DEF TablesInv, CatalogTypeOK, catalogVars, cacheVars, tableVars, DefaultPlansReady
  <2>8. TablesInv'
    BY <1>0, <1>2, <2>1, <2>4, <2>6, <2>7, FrameEntries, StillAlone
  <2>9. QED
    BY <2>4, <2>5, <2>8, PartsNext
<1>5. QED
  BY <1>3, <1>4

\* A default that is there needs no adding; one that is not is missing by now.
LEMMA PeekKept ==
    ASSUME IntakeInv, NEW r \in Requests, NEW p \in DefaultPlans, Peek(r, p),
           UNCHANGED <<users, bought, contested>>
    PROVE  IntakeInv'
<1>0. HandlersInv /\ UsersInv /\ TablesInv
  BY Parts
<1>1. /\ step[r] = "peek" /\ p \in local[r].todo
      /\ UNCHANGED catalogVars /\ users' = users /\ bought' = bought /\ contested' = contested
  BY DEF Peek
<1>2. r \in UnderWay /\ local[r] \in Local /\ KnowsAt("peek", local[r]) /\ local[r].seeding = None
  BY <1>0, <1>1, CatalogHandler DEF KnowsAt, CatalogSteps
<1>3. DefaultPlansReady' /\ ready' \in BOOLEAN /\ booted' \in BOOLEAN /\ UNCHANGED tableVars
  BY <1>0, <1>1 DEF TablesInv, CatalogTypeOK, catalogVars, cacheVars, tableVars, DefaultPlansReady
<1>4. rows' = rows /\ absent' = absent /\ dropped' = dropped
  BY <1>1 DEF catalogVars, tableVars
<1>5. p \in Keys /\ p # None
  BY DefaultsAssumption, KeysAssumption DEF Keys
<1>6. CASE rows[p] = None
  <2> DEFINE l == [local[r] EXCEPT !.todo = @ \ {p}, !.seeding = p]
  <2>1. /\ l \in Local
        /\ l.endpoint = local[r].endpoint /\ l.acct = local[r].acct /\ l.key = local[r].key
        /\ l.value = local[r].value /\ l.uid = local[r].uid /\ l.seeding = p
        /\ l.todo = local[r].todo \ {p}
    BY <1>2 DEF Local
  <2>2. GoTo(r, "load", l)
    BY <1>6 DEF Peek
  <2> HIDE DEF l
  <2>3. KnowsAt("load", l)
    BY <1>2, <1>5, <2>1 DEF KnowsAt, AccountSteps, CatalogSteps, OrderSteps
  <2>4. HandlersInv' /\ Kept(r) /\ step'[r] = "load" /\ local'[r] = l
    BY <1>0, <2>1, <2>2, <2>3, GoToMoves, StepsAndEnds
  <2>5. UsersInv'
    BY <1>0, <1>1, <1>2, <2>1, <2>4, FrameUsers
  <2>6. p \in absent
    BY <1>0, <1>5, <1>6 DEF TablesInv, Missing
  <2>7. SeedingInv(r)'
    <3>1. None \notin DefaultPlans
      BY DefaultsAssumption, KeysAssumption DEF Keys
    <3>2. \A d \in DefaultPlans \ (dropped \cup local[r].todo) : rows[d] # None
      BY <1>0, <1>1, <1>2, <3>1 DEF TablesInv, SeedingInv
    <3>3. \A d \in DefaultPlans \ (dropped \cup l.todo \cup {p}) : rows[d] # None
      BY <2>1, <3>2
    <3>4. QED
      BY <1>4, <1>5, <2>1, <2>4, <2>6, <3>3 DEF SeedingInv
  <2>8. TablesInv'
    BY <1>0, <1>2, <1>3, <2>1, <2>4, <2>7, FrameEntries, StillAlone
  <2>9. QED
    BY <2>4, <2>5, <2>8, PartsNext
<1>7. CASE rows[p] # None
  <2> DEFINE l == [local[r] EXCEPT !.todo = @ \ {p}]
  <2>1. /\ l \in Local
        /\ l.endpoint = local[r].endpoint /\ l.acct = local[r].acct /\ l.key = local[r].key
        /\ l.value = local[r].value /\ l.uid = local[r].uid /\ l.seeding = None
        /\ l.todo = local[r].todo \ {p}
    BY <1>2 DEF Local
  <2>2. GoTo(r, "peek", l)
    BY <1>7 DEF Peek
  <2> HIDE DEF l
  <2>3. KnowsAt("peek", l)
    BY <1>2, <2>1 DEF KnowsAt, AccountSteps, CatalogSteps, OrderSteps
  <2>4. HandlersInv' /\ Kept(r) /\ step'[r] = "peek" /\ local'[r] = l
    BY <1>0, <2>1, <2>2, <2>3, GoToMoves, StepsAndEnds
  <2>5. UsersInv'
    BY <1>0, <1>1, <1>2, <2>1, <2>4, FrameUsers
  <2>6. SeedingInv(r)'
    BY <1>0, <1>1, <1>2, <1>4, <1>7, <2>1, <2>4 DEF TablesInv, SeedingInv
  <2>7. TablesInv'
    BY <1>0, <1>2, <1>3, <2>1, <2>4, <2>6, FrameEntries, StillAlone
  <2>8. QED
    BY <2>4, <2>5, <2>7, PartsNext
<1>8. QED
  BY <1>6, <1>7

\* The repository is cached once all defaults are behind the thread.
LEMMA SeededKept ==
    ASSUME IntakeInv, NEW r \in Requests, Seeded(r, Supplied(r)),
           UNCHANGED <<users, bought, contested>>
    PROVE  IntakeInv'
<1>0. HandlersInv /\ UsersInv /\ TablesInv
  BY Parts
<1>1. /\ step[r] = "peek" /\ local[r].todo = {} /\ GoTo(r, Supplied(r), local[r])
      /\ ready' = TRUE /\ booted' = booted /\ UNCHANGED tableVars
      /\ users' = users /\ bought' = bought /\ contested' = contested
  BY DEF Seeded
<1>2. r \in UnderWay /\ local[r] \in Local /\ KnowsAt("peek", local[r]) /\ local[r].seeding = None
  BY <1>0, <1>1, CatalogHandler DEF KnowsAt, CatalogSteps
<1>3. Supplied(r) \in {"check", "load", "drop"} /\ KnowsAt(Supplied(r), local[r])
  BY <1>0, <1>1, <1>2, SuppliedStep
<1>4. HandlersInv' /\ Kept(r) /\ step'[r] = Supplied(r) /\ local'[r] = local[r]
  BY <1>0, <1>1, <1>2, <1>3, GoToMoves, StepsAndEnds
<1>5. UsersInv'
  BY <1>0, <1>1, <1>2, <1>3, <1>4, FrameUsers
<1>6. None \notin DefaultPlans
  BY DefaultsAssumption, KeysAssumption DEF Keys
<1>7. \A p \in DefaultPlans \ dropped : rows[p] # None
  BY <1>0, <1>1, <1>2, <1>6 DEF TablesInv, SeedingInv
<1>8. DefaultPlansReady'
  BY <1>1, <1>7 DEF DefaultPlansReady, tableVars
<1>9. SeedingInv(r)'
  BY <1>2, <1>3, <1>4 DEF SeedingInv
<1>10. booted' \in BOOLEAN /\ ready' \in BOOLEAN
  BY <1>0, <1>1 DEF TablesInv, CatalogTypeOK
<1>11. TablesInv'
  BY <1>0, <1>1, <1>2, <1>3, <1>4, <1>8, <1>9, <1>10, FrameEntries, StillAlone
<1>12. QED
  BY <1>4, <1>5, <1>11, PartsNext

\* What add was called with is a key and an entry.
LEMMA CalledWith ==
    ASSUME HandlersInv, NEW r \in Requests, step[r] \in {"load", "store"}
    PROVE  /\ Key(r) \in Keys /\ Value(r) \in Entry
           /\ local[r].seeding = None => Key(r) = local[r].key /\ local[r].endpoint = "add"
           /\ local[r].seeding # None =>
                 Key(r) = local[r].seeding /\ Value(r) = Default /\ local[r].seeding \in DefaultPlans
<1>1. /\ r \in UnderWay /\ local[r] \in Local /\ KnowsAt(step[r], local[r]) /\ local[r].key \in Keys
      /\ local[r].seeding \in DefaultPlans \cup {None}
  BY CatalogHandler DEF CatalogSteps, Local
<1>2. Default \in Entry /\ DefaultPlans \subseteq Keys
  BY DefaultsAssumption DEF Default, Entry, Keys
<1>3. local[r].seeding = None => local[r].endpoint = "add" /\ local[r].value \in Entry
  BY <1>1 DEF KnowsAt
<1>4. QED
  BY <1>1, <1>2, <1>3 DEF Key, Value

LEMMA LoadKept ==
    ASSUME IntakeInv, NEW r \in Requests, Load(r),
           UNCHANGED <<users, bought, contested>>
    PROVE  IntakeInv'
<1>0. HandlersInv /\ UsersInv /\ TablesInv
  BY Parts
<1>1. /\ step[r] = "load" /\ UNCHANGED catalogVars
      /\ users' = users /\ bought' = bought /\ contested' = contested
  BY DEF Load
<1>2. r \in UnderWay /\ local[r] \in Local /\ KnowsAt("load", local[r]) /\ Key(r) \in Keys
  BY <1>0, <1>1, CatalogHandler, CalledWith DEF CatalogSteps
<1> DEFINE l == [local[r] EXCEPT !.read = rows[Key(r)]]
<1>3. rows[Key(r)] \in Entry \cup {None}
  BY <1>0, <1>2 DEF TablesInv, CatalogTypeOK
<1>4. /\ l \in Local
      /\ l.endpoint = local[r].endpoint /\ l.acct = local[r].acct /\ l.key = local[r].key
      /\ l.value = local[r].value /\ l.uid = local[r].uid /\ l.seeding = local[r].seeding
      /\ l.todo = local[r].todo /\ l.read = rows[Key(r)]
  BY <1>2, <1>3 DEF Local
<1>5. GoTo(r, "store", l)
  BY DEF Load
<1> HIDE DEF l
<1>6. KnowsAt("store", l)
  BY <1>2, <1>4 DEF KnowsAt, AccountSteps, CatalogSteps, OrderSteps
<1>7. HandlersInv' /\ Kept(r) /\ step'[r] = "store" /\ local'[r] = l
  BY <1>0, <1>4, <1>5, <1>6, GoToMoves, StepsAndEnds
<1>8. UsersInv'
  BY <1>0, <1>1, <1>2, <1>4, <1>7, FrameUsers
<1>9. DefaultPlansReady' /\ ready' \in BOOLEAN /\ booted' \in BOOLEAN /\ UNCHANGED tableVars
  BY <1>0, <1>1 DEF TablesInv, CatalogTypeOK, catalogVars, cacheVars, tableVars, DefaultPlansReady
<1>10. rows' = rows /\ absent' = absent /\ dropped' = dropped
  BY <1>1 DEF catalogVars, tableVars
<1>11. SeedingInv(r)'
  <2>1. SeedingInv(r)
    BY <1>0, <1>2 DEF TablesInv
  <2>2. local[r].seeding # None => Key(r) = local[r].seeding
    BY <1>0, <1>1, CalledWith
  <2>3. QED
    BY <1>1, <1>4, <1>7, <1>10, <2>1, <2>2 DEF SeedingInv
<1>12. local[r].seeding = None => Key(r) = local[r].key
  BY DEF Key
<1>13. TablesInv'
  BY <1>0, <1>2, <1>4, <1>7, <1>9, <1>11, <1>12, FrameEntries, StillAlone
<1>14. QED
  BY <1>7, <1>8, <1>13, PartsNext

\* What a commit does to the row: it is there afterwards if it was before, or if a
\* seeder's commit inserted it; and without a stale read it has the value assigned.
LEMMA StoreRow ==
    ASSUME HandlersInv, TablesInv, NEW r \in Requests, Store(r)
    PROVE  /\ rows' \in [Keys -> Entry \cup {None}]
           /\ \A k \in Keys \ {Key(r)} : rows'[k] = rows[k]
           /\ \A k \in Keys : rows[k] # None => rows'[k] # None
           /\ absent' = absent
           /\ local[r].read = rows[Key(r)] /\ Key(r) \notin absent => rows'[Key(r)] = Value(r)
           /\ local[r].seeding # None =>
                 rows'[local[r].seeding] # None \/ local[r].seeding \in dropped
<1> DEFINE loaded == local[r].read
           row == rows[Key(r)]
<1>1. step[r] = "store" /\ Key(r) \in Keys /\ Value(r) \in Entry /\ r \in UnderWay
  BY CalledWith, CatalogHandler DEF Store, CatalogSteps
<1>2. /\ loaded \in Entry \cup {None} /\ row \in Entry \cup {None}
      /\ rows \in [Keys -> Entry \cup {None}] /\ Missing(rows) \subseteq absent
  BY <1>1, CatalogHandler DEF TablesInv, CatalogTypeOK, Local, CatalogSteps
<1>3. None \notin Entry
  BY KeysAssumption
<1>4. local[r].seeding # None =>
         /\ Key(r) = local[r].seeding
         /\ loaded # None => row # None \/ local[r].seeding \in dropped
  BY <1>1, CalledWith DEF TablesInv, SeedingInv
<1>5. Key(r) \notin absent => row # None
  BY <1>1, <1>2 DEF Missing
<1>6. ASSUME NEW value \in Entry, SetRow(Key(r), value),
             loaded = row /\ row # None => value = Value(r)
      PROVE  /\ rows' \in [Keys -> Entry \cup {None}]
             /\ \A k \in Keys \ {Key(r)} : rows'[k] = rows[k]
             /\ \A k \in Keys : rows[k] # None => rows'[k] # None
             /\ absent' = absent
             /\ loaded = row /\ Key(r) \notin absent => rows'[Key(r)] = Value(r)
             /\ local[r].seeding # None =>
                   rows'[local[r].seeding] # None \/ local[r].seeding \in dropped
  <2>1. rows' = [rows EXCEPT ![Key(r)] = value] /\ absent' = absent \cup Missing(rows')
    BY <1>6 DEF SetRow
  <2>2. /\ rows' \in [Keys -> Entry \cup {None}]
        /\ rows'[Key(r)] = value
        /\ \A k \in Keys \ {Key(r)} : rows'[k] = rows[k]
    BY <1>1, <1>2, <2>1
  <2>3. \A k \in Keys : rows[k] # None => rows'[k] # None
    BY <1>3, <2>2
  <2>4. Missing(rows') \subseteq absent
    BY <1>2, <2>3 DEF Missing
  <2>5. absent' = absent
    BY <2>1, <2>4
  <2>6. QED
    BY <1>3, <1>4, <1>5, <1>6, <2>2, <2>3, <2>5
<1>7. CASE loaded = None /\ row = None /\ SetRow(Key(r), Value(r))
  BY <1>1, <1>6, <1>7
<1>8. CASE loaded \notin {None, Value(r)} /\ row # None /\ SetRow(Key(r), Merged(row, loaded, Value(r)))
  <2>1. Merged(row, loaded, Value(r)) \in Entry
    BY <1>1, <1>2, <1>8 DEF Merged, Column, Entry
  <2>2. loaded = row => Merged(row, loaded, Value(r)) = Value(r)
    BY <1>1, <1>2, <1>8 DEF Merged, Column, Entry
  <2>3. QED
    BY <1>6, <1>8, <2>1, <2>2
<1>9. CASE loaded = Value(r) /\ rows' = rows /\ absent' = absent
  BY <1>1, <1>2, <1>3, <1>4, <1>9
<1>10. QED
  BY <1>7, <1>8, <1>9 DEF Store

\* The admin's own commit: what the entry is now, is what the admin made it.
LEMMA StoreKept ==
    ASSUME IntakeInv, NEW r \in Requests, Store(r),
           UNCHANGED <<users, bought, contested>>
    PROVE  IntakeInv'
<1>0. HandlersInv /\ UsersInv /\ TablesInv
  BY Parts
<1>1. /\ step[r] = "store" /\ ready' = ready /\ booted' = booted /\ dropped' = dropped
      /\ users' = users /\ bought' = bought /\ contested' = contested
  BY DEF Store, cacheVars
<1>2. /\ r \in UnderWay /\ local[r] \in Local /\ KnowsAt("store", local[r])
      /\ Key(r) \in Keys /\ Value(r) \in Entry
  BY <1>0, <1>1, CatalogHandler, CalledWith DEF CatalogSteps
<1>3. /\ rows' \in [Keys -> Entry \cup {None}]
      /\ \A k \in Keys \ {Key(r)} : rows'[k] = rows[k]
      /\ \A k \in Keys : rows[k] # None => rows'[k] # None
      /\ absent' = absent
      /\ local[r].read = rows[Key(r)] /\ Key(r) \notin absent => rows'[Key(r)] = Value(r)
      /\ local[r].seeding # None =>
            rows'[local[r].seeding] # None \/ local[r].seeding \in dropped
  BY <1>0, StoreRow
<1>4. SeedingInv(r) /\ AdminInv(r)
  BY <1>0, <1>2 DEF TablesInv
<1> DEFINE l == [local[r] EXCEPT !.seeding = None, !.read = None]
           next == IF local[r].seeding = None THEN "done" ELSE "peek"
<1>5. /\ l \in Local
      /\ l.endpoint = local[r].endpoint /\ l.acct = local[r].acct /\ l.key = local[r].key
      /\ l.value = local[r].value /\ l.uid = local[r].uid /\ l.seeding = None
      /\ l.todo = local[r].todo
  BY <1>2 DEF Local
<1>6. next \in {"done", "peek"} /\ (next = "peek" => GoTo(r, next, l)) /\ (next = "done" => GoTo(r, next, None))
  BY DEF Store
<1>7. next = "done" <=> local[r].seeding = None
  OBVIOUS
<1> HIDE DEF l, next
<1>9. next = "peek" => KnowsAt("peek", l)
  BY <1>0, <1>1, <1>2, <1>5, CatalogHandler DEF KnowsAt, AccountSteps, CatalogSteps, OrderSteps
<1>10. /\ HandlersInv' /\ Kept(r) /\ step'[r] = next
       /\ r \in UnderWay' => local'[r] = l /\ next = "peek"
  BY <1>0, <1>5, <1>6, <1>9, GoToMoves, StepsAndEnds DEF Ends
<1>11. UsersInv'
  BY <1>0, <1>1, <1>2, <1>5, <1>6, <1>10, FrameUsers
<1>12. /\ latest' \in [Keys -> Entry \cup {None}]
       /\ \A k \in Keys \ {Key(r)} : latest'[k] = latest[k]
       /\ local[r].seeding = None => latest'[Key(r)] = Value(r)
  BY <1>0, <1>2 DEF Store, TablesInv, CatalogTypeOK
<1>13. CatalogTypeOK' /\ (Missing(rows) \subseteq absent)' /\ DefaultPlansReady'
  <2>1. CatalogTypeOK'
    BY <1>0, <1>1, <1>3, <1>12 DEF TablesInv, CatalogTypeOK
  <2>2. (Missing(rows) \subseteq absent)'
    BY <1>0, <1>3 DEF TablesInv, Missing
  <2>3. DefaultPlans \subseteq Keys
    BY DefaultsAssumption DEF Keys
  <2>4. DefaultPlansReady'
    BY <1>0, <1>1, <1>3, <2>3 DEF TablesInv, DefaultPlansReady
  <2>5. QED
    BY <2>1, <2>2, <2>4
<1>14. local[r].seeding = None => local[r].endpoint = "add" /\ Key(r) = local[r].key
  BY <1>0, <1>1, CalledWith
<1>15. local[r].seeding # None => Key(r) \in absent
  BY <1>4 DEF SeedingInv, Key
<1>16. AdminEntriesKept'
  <2>1. ASSUME NEW k \in Keys \ (absent \cup {DefaultHost}) PROVE rows'[k] = latest'[k]
    <3>1. CASE k # Key(r)
      BY <1>0, <1>3, <1>12, <2>1, <3>1 DEF TablesInv, AdminEntriesKept
    <3>2. CASE k = Key(r)
      <4>1. local[r].seeding = None /\ local[r].read = rows[Key(r)]
        BY <1>1, <1>4, <1>14, <1>15, <2>1, <3>2 DEF AdminInv
      <4>2. QED
        BY <1>3, <1>12, <2>1, <3>2, <4>1
    <3>3. QED
      BY <3>1, <3>2
  <2>2. QED
    BY <1>3, <2>1 DEF AdminEntriesKept
<1>17. ASSUME NEW q \in UnderWay' PROVE SeedingInv(q)' /\ AdminInv(q)'
  <2>1. \A p \in UnderWay' : p \in UnderWay /\ local'[p].endpoint = local[p].endpoint
    BY <1>2, <1>5, <1>10 DEF Kept, UnderWay
  <2>2. SeedingInv(q) /\ AdminInv(q) /\ DefaultPlans \subseteq Keys
    BY <1>0, <1>17, <2>1, DefaultsAssumption DEF TablesInv, Keys
  <2>3. CASE q = r
    <3>1. local'[q] = l /\ step'[q] = "peek" /\ local[r].seeding # None
      BY <1>7, <1>10, <1>17, <2>3
    <3>2. \A p \in DefaultPlans \ (dropped \cup local[r].todo) : rows'[p] # None
      BY <1>3, <2>2, <2>3, <3>1 DEF SeedingInv
    <3>3. SeedingInv(q)'
      BY <1>1, <1>5, <3>1, <3>2 DEF SeedingInv
    <3>4. AdminInv(q)'
      BY <1>4, <1>5, <2>1, <2>3, <3>1 DEF AdminInv
    <3>5. QED
      BY <3>3, <3>4
  <2>4. CASE q # r
    <3>1. q \in UnderWay /\ step'[q] = step[q] /\ local'[q] = local[q] /\ local[q] \in Local
      BY <1>0, <1>10, <1>17, <2>1, <2>4, KnownIsLocal DEF Kept, UnderWay
    <3>2. SeedingInv(q)'
      BY <1>1, <1>3, <2>2, <3>1 DEF SeedingInv, Local
    <3>3. ASSUME local[q].endpoint \in {"add", "delete"}, step[q] = "store", local[q].seeding = None,
                 local[q].key \notin absent \cup {DefaultHost}
          PROVE  local[q].key \in Keys /\ local[q].key # Key(r)
      <4>1. local[q].key \in Keys
        BY <1>0, <3>1, <3>3, KnownIsLocal DEF KnowsAt
      <4>2. local[r].endpoint # "add"
        BY <1>2, <2>2, <2>4, <3>3 DEF AdminInv
      <4>3. QED
        BY <1>14, <1>15, <3>3, <4>1, <4>2
    <3>4. AdminInv(q)'
      BY <1>3, <2>1, <2>2, <3>1, <3>3 DEF AdminInv
    <3>5. QED
      BY <3>2, <3>4
  <2>5. QED
    BY <2>3, <2>4
<1>18. TablesInv'
  BY <1>13, <1>16, <1>17 DEF TablesInv
<1>19. QED
  BY <1>10, <1>11, <1>18, PartsNext

\* What was deleted is missing, and known to be.
LEMMA DropKept ==
    ASSUME IntakeInv, NEW r \in Requests, Drop(r),
           UNCHANGED <<users, bought, contested>>
    PROVE  IntakeInv'
<1>0. HandlersInv /\ UsersInv /\ TablesInv
  BY Parts
<1>1. /\ step[r] = "drop" /\ ready' = ready /\ booted' = booted
      /\ users' = users /\ bought' = bought /\ contested' = contested /\ GoTo(r, "done", None)
  BY DEF Drop, cacheVars
<1>2. /\ r \in UnderWay /\ local[r] \in Local /\ local[r].key \in Keys
      /\ local[r].endpoint = "delete" /\ Key(r) = local[r].key
  BY <1>0, <1>1, CatalogHandler DEF CatalogSteps, KnowsAt, Key
<1>3. HandlersInv' /\ Kept(r) /\ step'[r] = "done" /\ r \notin UnderWay'
  BY <1>0, <1>1, GoToMoves, StepsAndEnds DEF Ends
<1>4. UsersInv'
  BY <1>0, <1>1, <1>3, FrameUsers
<1>5. /\ rows' = [rows EXCEPT ![Key(r)] = None] /\ absent' = absent \cup Missing(rows')
      /\ latest' = [latest EXCEPT ![Key(r)] = None] /\ dropped' = dropped \cup {Key(r)}
  BY DEF Drop, SetRow
<1>6. /\ rows' \in [Keys -> Entry \cup {None}] /\ latest' \in [Keys -> Entry \cup {None}]
      /\ rows'[Key(r)] = None
      /\ \A k \in Keys \ {Key(r)} : rows'[k] = rows[k] /\ latest'[k] = latest[k]
  BY <1>0, <1>2, <1>5 DEF TablesInv, CatalogTypeOK
<1>7. CatalogTypeOK' /\ (Missing(rows) \subseteq absent)'
  BY <1>0, <1>1, <1>2, <1>5, <1>6 DEF TablesInv, CatalogTypeOK, Missing
<1>8. Key(r) \in absent'
  BY <1>2, <1>5, <1>6 DEF Missing
<1>9. AdminEntriesKept'
  BY <1>0, <1>5, <1>6, <1>8 DEF TablesInv, AdminEntriesKept
<1>10. DefaultPlans \subseteq Keys
  BY DefaultsAssumption DEF Keys
<1>11. DefaultPlansReady'
  BY <1>0, <1>1, <1>5, <1>6, <1>10 DEF TablesInv, DefaultPlansReady
<1>12. ASSUME NEW q \in UnderWay' PROVE SeedingInv(q)' /\ AdminInv(q)'
  <2>1. /\ q # r /\ q \in UnderWay /\ step'[q] = step[q] /\ local'[q] = local[q]
        /\ local[q] \in Local /\ SeedingInv(q) /\ AdminInv(q)
    BY <1>0, <1>3, <1>12, KnownIsLocal DEF Kept, UnderWay, TablesInv
  <2>2. SeedingInv(q)'
    BY <1>5, <1>6, <1>10, <2>1 DEF SeedingInv, Local
  <2>3. AdminInv(q)'
    BY <1>2, <2>1 DEF AdminInv
  <2>4. QED
    BY <2>2, <2>3
<1>13. TablesInv'
  BY <1>7, <1>9, <1>11, <1>12 DEF TablesInv
<1>14. QED
  BY <1>3, <1>4, <1>13, PartsNext

\* The default host is written by nobody's request.
LEMMA BootKept ==
    ASSUME IntakeInv, Boot,
           UNCHANGED <<users, bought, contested>>
    PROVE  IntakeInv'
<1>0. HandlersInv /\ UsersInv /\ TablesInv
  BY Parts
<1>1. /\ step' = step /\ local' = local /\ users' = users /\ bought' = bought
      /\ contested' = contested
      /\ ready' = ready /\ booted' = TRUE /\ latest' = latest /\ dropped' = dropped
  BY DEF Boot, handlerVars
<1>2. HandlersInv' /\ UsersInv' /\ UnderWay' = UnderWay
  BY <1>0, <1>1
     DEF HandlersInv, UsersInv, UnderWay, AccountsTypeOK, FreshIds, UncontestedKeepServers,
         StillOwns, OwnerInv, HasServer
<1>3. /\ rows' \in [Keys -> Entry \cup {None}] /\ absent \subseteq absent' /\ absent' \subseteq Keys
      /\ Missing(rows') \subseteq absent'
      /\ \A k \in Keys \ {DefaultHost} : rows'[k] = rows[k]
      /\ \A k \in Keys : rows[k] # None => rows'[k] # None
  <2>1. CASE DefaultHost = None
    <3>1. rows' = rows /\ absent' = absent
      BY <2>1 DEF Boot
    <3>2. QED
      BY <1>0, <3>1 DEF TablesInv, CatalogTypeOK
  <2>2. CASE DefaultHost # None
    <3>1. rows' = [rows EXCEPT ![DefaultHost] = Default] /\ absent' = absent \cup Missing(rows')
      BY <2>2 DEF Boot, SetRow
    <3>2. DefaultHost \in Keys /\ Default \in Entry /\ Default # None
      BY <2>2, DefaultsAssumption, KeysAssumption DEF Default, Entry, Keys
    <3>3. QED
      BY <1>0, <3>1, <3>2 DEF TablesInv, CatalogTypeOK, Missing
  <2>3. QED
    BY <2>1, <2>2
<1>4. CatalogTypeOK' /\ (Missing(rows) \subseteq absent)' /\ AdminEntriesKept'
  BY <1>0, <1>1, <1>3 DEF TablesInv, CatalogTypeOK, Missing, AdminEntriesKept
<1>5. DefaultPlans \subseteq Keys
  BY DefaultsAssumption DEF Keys
<1>6. DefaultPlansReady'
  BY <1>0, <1>1, <1>3, <1>5 DEF TablesInv, DefaultPlansReady
<1>7. ASSUME NEW q \in UnderWay' PROVE SeedingInv(q)' /\ AdminInv(q)'
  <2>1. /\ q \in UnderWay /\ SeedingInv(q) /\ AdminInv(q) /\ local[q] \in Local
        /\ local[q].endpoint \in {"add", "delete"} => local[q].key \in Keys
    BY <1>0, <1>2, <1>7, KnownIsLocal DEF TablesInv, KnowsAt
  <2>2. SeedingInv(q)'
    BY <1>1, <1>3, <1>5, <2>1 DEF SeedingInv, Local
  <2>3. AdminInv(q)'
    BY <1>1, <1>2, <1>3, <2>1 DEF AdminInv
  <2>4. QED
    BY <2>2, <2>3
<1>8. TablesInv'
  BY <1>4, <1>6, <1>7 DEF TablesInv
<1>9. QED
  BY <1>2, <1>8, PartsNext

(***************************************************************************)
(* Arrivals, the end of a process, and the whole                           *)
(***************************************************************************)

\* A request that comes in disturbs nobody: an order of a customer who remains
\* uncontested is its only request, and nobody adds one who has a server.
LEMMA ArrivalKept ==
    ASSUME HandlersInv, UsersInv, TablesInv, NEW r \in Requests, r \notin UnderWay,
           UNCHANGED <<users, bought, catalogVars>>,
           contested \subseteq contested', contested' \subseteq Accounts,
           HandlersInv', Kept(r), r \in UnderWay',
           step[r] = "idle",
           step'[r] \in Steps \ {"peek", "store", "write"},
           local'[r].uid = None, local'[r].seeding = None,
           local'[r].acct \in Accounts \ contested' =>
              /\ \A q \in UnderWay : local[q].acct = local'[r].acct =>
                    "order" \notin {local'[r].endpoint, local[q].endpoint}
              /\ step'[r] = "find" => ~HasServer(local'[r].acct),
           local'[r].endpoint \in AdminsOf =>
              \A q \in UnderWay : local[q].endpoint \notin AdminsOf
    PROVE  IntakeInv'
<1>1. users' = users /\ bought' = bought /\ UNCHANGED tableVars /\ ready' = ready /\ booted' = booted
  BY DEF catalogVars, cacheVars
<1>2. FreshIds'
  BY <1>1 DEF UsersInv, FreshIds, Kept
<1>3. UncontestedKeepServers'
  BY <1>1 DEF UsersInv, UncontestedKeepServers, StillOwns
<1>4. \A q \in UnderWay' : q # r => q \in UnderWay /\ step'[q] = step[q] /\ local'[q] = local[q]
  BY DEF Kept, UnderWay
<1>5. ASSUME NEW q \in UnderWay' PROVE OwnerInv(q)'
  <2>1. CASE q = r
    BY <1>1, <1>4, <2>1 DEF OwnerInv, HasServer
  <2>2. CASE q # r
    <3>1. OwnerInv(q) /\ q \in UnderWay /\ step'[q] = step[q] /\ local'[q] = local[q]
      BY <1>4, <1>5, <2>2 DEF UsersInv
    <3>2. local[q].acct \in Accounts \ contested' /\ local'[r].acct = local[q].acct
             => local[q].endpoint # "order"
      BY <3>1
    <3>3. QED
      BY <1>1, <1>4, <3>1, <3>2 DEF OwnerInv, HasServer
  <2>3. QED
    BY <2>1, <2>2
<1>6. UsersInv'
  BY <1>1, <1>2, <1>3, <1>5 DEF UsersInv, AccountsTypeOK
<1>7. DefaultPlansReady' /\ ready' \in BOOLEAN /\ booted' \in BOOLEAN
  BY <1>1 DEF TablesInv, CatalogTypeOK, DefaultPlansReady, tableVars
<1>8. SeedingInv(r)'
  BY DEF SeedingInv
<1>9. ASSUME NEW q \in UnderWay' PROVE SeedingInv(q)' /\ AdminInv(q)'
  <2>1. rows' = rows /\ absent' = absent /\ dropped' = dropped
    BY <1>1 DEF tableVars
  <2>2. CASE q = r
    BY <1>4, <1>8, <2>1, <2>2 DEF AdminInv, AdminsOf
  <2>3. CASE q # r
    <3>1. /\ SeedingInv(q) /\ AdminInv(q) /\ q \in UnderWay
          /\ step'[q] = step[q] /\ local'[q] = local[q]
      BY <1>4, <1>9, <2>3 DEF TablesInv
    <3>2. SeedingInv(q)'
      BY <2>1, <3>1 DEF SeedingInv
    <3>3. AdminInv(q)'
      BY <1>4, <2>1, <2>3, <3>1 DEF AdminInv, AdminsOf
    <3>4. QED
      BY <3>2, <3>3
  <2>4. QED
    BY <2>2, <2>3
<1>10. (Missing(rows) \subseteq absent)' /\ AdminEntriesKept' /\ CatalogTypeOK'
  BY <1>1 DEF TablesInv, Missing, AdminEntriesKept, CatalogTypeOK, tableVars
<1>11. QED
  BY <1>6, <1>7, <1>9, <1>10, PartsNext DEF TablesInv

\* A history variable only grows.
LEMMA ContestsGrow ==
    ASSUME contested \subseteq Accounts, NEW a \in Accounts, NEW how, Contests(a, how)
    PROVE  /\ contested \subseteq contested' /\ contested' \subseteq Accounts
           /\ a \in Accounts \ contested' => ~how
BY DEF Contests

LEMMA RegisterKept ==
    ASSUME IntakeInv, NEW r \in Requests, NEW a \in Accounts, AnybodyRegisters(r, a)
    PROVE  IntakeInv'
<1>0. HandlersInv /\ UsersInv /\ TablesInv
  BY Parts
<1>1. /\ Starts(r, "register", "find", a, None, None)
      /\ UNCHANGED <<users, bought, catalogVars>>
      /\ Contests(a, HasServer(a) \/ Overlaps("register", a))
  BY DEF AnybodyRegisters, Register
<1>2. step[r] = "idle" /\ r \notin UnderWay /\ "find" \in Steps
  BY <1>1, StepsAndEnds DEF Starts, UnderWay
<1>3. \A l \in Local : l.endpoint = "register" /\ l.acct = a /\ l.key = None /\ l.seeding = None
                       => KnowsAt("find", l)
  BY DEF KnowsAt, AccountSteps, CatalogSteps, OrderSteps
<1>4. "register" \in Endpoints
  BY DEF Endpoints
<1>5. /\ HandlersInv' /\ Kept(r) /\ step'[r] = "find" /\ r \in UnderWay'
      /\ local'[r].endpoint = "register" /\ local'[r].acct = a
      /\ local'[r].uid = None /\ local'[r].seeding = None
  BY <1>0, <1>1, <1>2, <1>3, <1>4, StartMoves
<1>6. /\ contested \subseteq contested' /\ contested' \subseteq Accounts
      /\ a \in Accounts \ contested' => ~HasServer(a) /\ ~Overlaps("register", a)
  BY <1>0, <1>1, ContestsGrow DEF UsersInv
<1>7. a \in Accounts \ contested' =>
         \A q \in UnderWay : local[q].acct = a => "order" \notin {"register", local[q].endpoint}
  BY <1>6 DEF Overlaps
<1>8. QED
  BY <1>0, <1>1, <1>2, <1>5, <1>6, <1>7, ArrivalKept, StepsAndEnds DEF AdminsOf

LEMMA CustomerKept ==
    ASSUME IntakeInv, NEW r \in Requests, NEW a \in Accounts,
           NEW endpoint \in {"visit", "order"}, NEW key \in Keys \cup {None},
           endpoint = "order" => key \in Plans,
           CustomerComes(r, endpoint, a, key)
    PROVE  IntakeInv'
<1>0. HandlersInv /\ UsersInv /\ TablesInv
  BY Parts
<1>1. /\ Starts(r, endpoint, "lookup", a, key, None)
      /\ UNCHANGED <<users, bought, catalogVars>>
      /\ Contests(a, Overlaps(endpoint, a))
  BY DEF CustomerComes, SignIn
<1>2. step[r] = "idle" /\ r \notin UnderWay /\ "lookup" \in Steps
  BY <1>1, StepsAndEnds DEF Starts, UnderWay
<1>3. \A l \in Local : l.endpoint = endpoint /\ l.acct = a /\ l.key = key /\ l.seeding = None
                       => KnowsAt("lookup", l)
  BY DEF KnowsAt, AccountSteps, CatalogSteps, OrderSteps
<1>4. endpoint \in Endpoints
  BY DEF Endpoints
<1>5. /\ HandlersInv' /\ Kept(r) /\ step'[r] = "lookup" /\ r \in UnderWay'
      /\ local'[r].endpoint = endpoint /\ local'[r].acct = a
      /\ local'[r].uid = None /\ local'[r].seeding = None
  BY <1>0, <1>1, <1>2, <1>3, <1>4, StartMoves
<1>6. /\ contested \subseteq contested' /\ contested' \subseteq Accounts
      /\ a \in Accounts \ contested' => ~Overlaps(endpoint, a)
  BY <1>0, <1>1, ContestsGrow DEF UsersInv
<1>7. a \in Accounts \ contested' =>
         \A q \in UnderWay : local[q].acct = a => "order" \notin {endpoint, local[q].endpoint}
  BY <1>6 DEF Overlaps
<1>8. QED
  BY <1>0, <1>1, <1>2, <1>5, <1>6, <1>7, ArrivalKept, StepsAndEnds DEF AdminsOf

LEMMA AdminKept ==
    ASSUME IntakeInv, NEW r \in Requests, NEW endpoint \in {"add", "delete"}, NEW key \in Keys,
           NEW value \in Entry \cup {None}, endpoint = "add" => value \in Entry,
           AdminComes(r, endpoint, key, value)
    PROVE  IntakeInv'
<1>0. HandlersInv /\ UsersInv /\ TablesInv
  BY Parts
<1> DEFINE first == IF key \in Plans THEN "seed" ELSE AdminCall(endpoint)
<1>1. /\ Starts(r, endpoint, first, None, key, value)
      /\ UNCHANGED <<users, bought, contested, catalogVars>>
      /\ \A q \in UnderWay : local[q].endpoint \notin AdminsOf
  BY DEF AdminComes, Admin, AdminsOf
<1>2. step[r] = "idle" /\ r \notin UnderWay
  BY <1>1, StepsAndEnds DEF Starts, UnderWay
<1>3. /\ first \in Steps /\ first \in {"seed", "load", "drop"}
      /\ first = "load" => endpoint = "add"
      /\ first = "drop" => endpoint = "delete"
  BY StepsAndEnds DEF AdminCall
<1> HIDE DEF first
<1>4. \A l \in Local : l.endpoint = endpoint /\ l.key = key /\ l.value = value /\ l.seeding = None
                       => KnowsAt(first, l)
  BY <1>3 DEF KnowsAt, AccountSteps, CatalogSteps, OrderSteps
<1>5. endpoint \in Endpoints
  BY DEF Endpoints
<1>6. /\ HandlersInv' /\ Kept(r) /\ step'[r] = first /\ r \in UnderWay'
      /\ local'[r].endpoint = endpoint /\ local'[r].acct = None
      /\ local'[r].uid = None /\ local'[r].seeding = None
  BY <1>0, <1>1, <1>3, <1>4, <1>5, StartMoves
<1>7. None \notin Accounts /\ contested' = contested /\ contested \subseteq Accounts
  BY <1>0, AccountsAssumption DEF AdminComes, UsersInv
<1>8. QED
  BY <1>0, <1>1, <1>2, <1>3, <1>6, <1>7, ArrivalKept

LEMMA CrashKept == ASSUME IntakeInv, Crash PROVE IntakeInv'
<1>0. HandlersInv /\ UsersInv /\ TablesInv
  BY Parts
<1>1. /\ step' = [q \in Requests |-> IF q \in UnderWay THEN "lost" ELSE step[q]]
      /\ local' = [q \in Requests |-> None]
      /\ users' = users /\ bought' = bought /\ contested' = contested /\ rows' = rows
      /\ ready' = FALSE /\ booted' = FALSE /\ latest' = rows
      /\ absent' = Missing(rows) /\ dropped' = {}
  BY DEF Crash, HandlersDie, CatalogRestarts
<1>2. UnderWay' = {}
  BY <1>1, StepsAndEnds DEF UnderWay, Ends
<1>3. HandlersInv'
  BY <1>0, <1>1, <1>2 DEF HandlersInv, Ends
<1>4. FreshIds'
  BY <1>0, <1>1 DEF UsersInv, FreshIds
<1>5. UsersInv'
  BY <1>0, <1>1, <1>2, <1>4
     DEF UsersInv, AccountsTypeOK, UncontestedKeepServers, StillOwns
<1>6. AdminEntriesKept' /\ (Missing(rows) \subseteq absent)'
  BY <1>1 DEF AdminEntriesKept, Missing
<1>7. CatalogTypeOK'
  BY <1>0, <1>1 DEF TablesInv, CatalogTypeOK, Missing
<1>8. DefaultPlansReady'
  BY <1>1 DEF DefaultPlansReady
<1>9. TablesInv'
  BY <1>2, <1>6, <1>7, <1>8 DEF TablesInv
<1>10. QED
  BY <1>3, <1>5, <1>9, PartsNext

LEMMA IntakeStarts == ASSUME IntakeInit PROVE IntakeInv
<1>1. /\ step = [r \in Requests |-> "idle"] /\ local = [r \in Requests |-> None]
      /\ users = [i \in Requests |-> None] /\ bought = [r \in Requests |-> None]
      /\ contested = {}
  BY DEF IntakeInit, HandlersInit, AccountsInit
<1>2. /\ rows \in [Keys -> Entry \cup {None}] /\ latest = rows /\ absent = Missing(rows)
      /\ dropped = {} /\ ready = FALSE /\ booted = FALSE
  BY DEF IntakeInit, CatalogInit, UsedTables
<1>3. UnderWay = {}
  BY <1>1, StepsAndEnds DEF UnderWay
<1>4. HandlersInv
  BY <1>1, <1>3 DEF HandlersInv
<1>5. UsersInv
  BY <1>1, <1>3 DEF UsersInv, AccountsTypeOK, FreshIds, UncontestedKeepServers
<1>6. CatalogTypeOK
  BY <1>2 DEF CatalogTypeOK, Missing
<1>7. TablesInv
  BY <1>2, <1>3, <1>6 DEF TablesInv, AdminEntriesKept, DefaultPlansReady
<1>8. QED
  BY <1>4, <1>5, <1>7, Parts

LEMMA ArrivalsKept == ASSUME IntakeInv, NEW r \in Requests, Arrival(r) PROVE IntakeInv'
<1>1. CASE \E a \in Accounts : AnybodyRegisters(r, a) \/ CustomerComes(r, "visit", a, None)
  BY <1>1, RegisterKept, CustomerKept
<1>2. CASE \E a \in Accounts, p \in Plans : CustomerComes(r, "order", a, p)
  BY <1>2, CustomerKept DEF Keys
<1>3. CASE \E key \in Keys : \E value \in Offers[key] : AdminComes(r, "add", key, value)
  <2>1. PICK key \in Keys : \E value \in Offers[key] : AdminComes(r, "add", key, value)
    BY <1>3
  <2>2. PICK value \in Offers[key] : AdminComes(r, "add", key, value)
    BY <2>1
  <2>3. value \in Entry
    BY OffersAssumption
  <2>4. QED
    BY <2>2, <2>3, AdminKept
<1>4. CASE \E key \in Keys : AdminComes(r, "delete", key, None)
  BY <1>4, AdminKept
<1>5. QED
  BY <1>1, <1>2, <1>3, <1>4 DEF Arrival

LEMMA RequestStepKept == ASSUME IntakeInv, NEW r \in Requests, RequestStep(r) PROVE IntakeInv'
<1>1. CASE Arrival(r)
  BY <1>1, ArrivalsKept
<1>2. CASE AccountStep(r, Authenticated(r), "plan") /\ UNCHANGED <<catalogVars, bought, contested>>
  BY <1>2, LookupKept, FindUserKept, InsertUserKept, RewriteUserKept, CheckUserKept DEF AccountStep
<1>3. CASE CatalogStep(r, Supplied(r)) /\ UNCHANGED <<users, bought, contested>>
  <2>1. StoreRaises(r) => CallRaises(r) /\ UNCHANGED catalogVars
    BY DEF StoreRaises
  <2>2. QED
    BY <1>3, <2>1, NeedPlansKept, PeekKept, SeededKept, LoadKept, StoreKept, CallRaisesKept, DropKept
       DEF CatalogStep
<1>4. CASE ResolvePlan(r)
  BY <1>4, ResolvePlanKept
<1>5. CASE ResolveHost(r)
  BY <1>5, ResolveHostKept
<1>6. CASE InsertOrder(r)
  BY <1>6, InsertOrderKept
<1>7. CASE CallRaises(r) /\ UNCHANGED <<users, catalogVars, bought, contested>>
  BY <1>7, CallRaisesKept
<1>8. QED
  BY <1>1, <1>2, <1>3, <1>4, <1>5, <1>6, <1>7 DEF RequestStep

LEMMA IntakeStutters == ASSUME IntakeInv, UNCHANGED intakeVars PROVE IntakeInv'
<1>1. /\ step' = step /\ local' = local /\ users' = users /\ bought' = bought
      /\ contested' = contested
      /\ rows' = rows /\ ready' = ready /\ booted' = booted /\ latest' = latest
      /\ absent' = absent /\ dropped' = dropped
  BY DEF intakeVars, handlerVars, catalogVars, cacheVars, tableVars
<1>2. HandlersInv' /\ UsersInv'
  BY <1>1, Parts
     DEF HandlersInv, UsersInv, UnderWay, AccountsTypeOK, FreshIds, UncontestedKeepServers,
         StillOwns, OwnerInv, HasServer
<1>3. TablesInv'
  BY <1>1, Parts
     DEF TablesInv, UnderWay, CatalogTypeOK, Missing, AdminEntriesKept, DefaultPlansReady,
         SeedingInv, AdminInv
<1>4. QED
  BY <1>2, <1>3, PartsNext

\* What each handler has made sure of stays true: for any number of requests,
\* customers, plans and hosts, through failures, races of seeders and restarts.
THEOREM IntakeInvariant == IntakeSpec => []IntakeInv
<1>1. IntakeInit => IntakeInv
  BY IntakeStarts
<1>2. IntakeInv /\ [IntakeNext]_intakeVars => IntakeInv'
  <2> SUFFICES ASSUME IntakeInv, [IntakeNext]_intakeVars PROVE IntakeInv'
    OBVIOUS
  <2>1. CASE \E r \in Requests : RequestStep(r)
    BY <2>1, RequestStepKept
  <2>2. CASE Boot /\ UNCHANGED <<users, bought, contested>>
    BY <2>2, BootKept
  <2>3. CASE Crash
    BY <2>3, CrashKept
  <2>4. CASE UNCHANGED intakeVars
    BY <2>4, IntakeStutters
  <2>5. QED
    BY <2>1, <2>2, <2>3, <2>4 DEF IntakeNext
<1>3. QED
  BY <1>1, <1>2, PTL DEF IntakeSpec

\* Tables, handlers and orders keep their types: no order has a user, a plan or a
\* host missing, although plans without a host exist.
THEOREM IntakeTypeCorrect == IntakeSpec => []IntakeTypeOK
<1>1. IntakeInv => IntakeTypeOK
  BY DEF IntakeInv
<1>2. QED
  BY <1>1, IntakeInvariant, PTL

\* Whoever registered it before, whatever overlaps and fails, a customer whose
\* orders nothing overlapped and whose id nobody has registered since keeps every
\* server it ordered (_map_user looks before add).
THEOREM UncontestedOwners == IntakeSpec => []UncontestedKeepServers
<1>1. IntakeInv => UncontestedKeepServers
  BY DEF IntakeInv
<1>2. QED
  BY <1>1, IntakeInvariant, PTL

\* Neither seeders nor restarts undo what an admin made of an entry that was there.
THEOREM AdminEntries == IntakeSpec => []AdminEntriesKept
<1>1. IntakeInv => AdminEntriesKept
  BY DEF IntakeInv
<1>2. QED
  BY <1>1, IntakeInvariant, PTL

\* The plan repository is handed out with every default nobody deleted.
THEOREM DefaultsReady == IntakeSpec => []DefaultPlansReady
<1>1. IntakeInv => DefaultPlansReady
  BY DEF IntakeInv
<1>2. QED
  BY <1>1, IntakeInvariant, PTL

==============================================================================

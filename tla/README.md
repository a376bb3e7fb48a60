# A TLA+ model of the Tunnel GMAO backend

Tunnel GMAO manages industrial maintenance: operators file intervention
requests (*demandes d'intervention*, DI), technicians carry out interventions
made of tasks and actions, preventive plans generate DIs of their own, and
purchase requests are gathered into supplier orders. The backend is a FastAPI
application over PostgreSQL. Its routes are plain `def` functions that run in a
thread pool; each repository method borrows one or several connections
(`api/db.py`, READ COMMITTED, no `SELECT ... FOR UPDATE` anywhere) and much of
the logic lives in the triggers of `schema_current.sql`.

The difficulty of the program is there: one business rule is spread over Python
checks, later Python writes and triggers, and nothing but row locks and
constraints separates two calls. The same fact is then computed again, by other
queries, for each page that shows it.

## Parts of the system

| Part | State | Operations | What makes it hard | Status |
|---|---|---|---|---|
| Requests (`intervention_requests`) | `statut`, `intervention_id`, `request_status_log` | create, transition (hold, reject, accept, close), closure cascade, repair, lists and counts | check in one transaction, write in another; the log drives the status through a trigger | partly: codes are left out |
| Interventions (`interventions`) | `status_actual`, `plan_id` | create with link, update, delete, force-close, lists and page | four ways to close one; the Python cascade repeats what triggers did | partly: codes are left out |
| Intervention status log | `intervention_status_log` | log a status | its trigger sets off the closure | modelled |
| Triggers and constraints (`schema_current.sql`) | all tables | 20 triggers, foreign keys, UNIQUE and CHECK constraints | nested triggers, a transaction-local flag, rows dated by transaction start | partly: not those of codes |
| Preventive occurrences | `status`, `di_id`, `intervention_id` | generate, auto-accept, skip, repair | one active occurrence per plan and machine, due dates, late attachment | partly: not the codes the repair writes |
| Tasks | `status`, `intervention_id`, `occurrence_id`, due date | create, patch, delete, lists, workspace | frozen once the intervention is closed | partly: assignment and order are left out |
| Actions | rows, links to tasks, time, complexity | add, patch, lists | an action needs a task; hours accumulate by trigger | partly: one task per action where calls overlap |
| Preventive plans | plan, schedule, gamme steps | CRUD | edited while occurrences are open | partly: the edit of steps is left out |
| Connection pool (`db.py`) | at most 10 connections | borrow, return | nested borrowing, connections that break | modelled |
| Purchase requests | rows, link to an action, derived status | create, import, update, delete, dispatch, lists | the status is derived twice, by a view and by Python; savepoints with a cache beside them | modelled |
| Supplier orders and their lines | order status, quantities, selection, links to requests | CRUD, transitions, preconditions of reception, link, unlink, pages, exports | checks on other connections, lines writable whatever the order's status | modelled |
| Stock items and suppliers' references | rows, counter, preferred reference | CRUD | counter by trigger, preference by trigger and code | partly: quantities and locations are left out |
| Parts and templates | versions, fields, characteristics | CRUD, new version | immutable versions, read before the item is written | partly: manufacturers are left out |
| Authentication | accounts, refresh tokens, attempts | login, refresh, logout, administration | rotation and reuse detection, counters read before they are written | partly: API keys and the check of an access token are left out |
| Permissions | matrix, cache of each process | reload, patch | cache emptied, then filled, beside its readers | partly: the rest of `/admin` |
| Audit log | append-only rows | middleware | before and after in separate transactions, whose failures are swallowed | partly: reasons and queries are left out |
| Equipment, classes, statuses | machines, mother, class | CRUD, health, pages | health is the first of overlapping rules | partly: plans shown on a page are left out |
| Statistics, dashboard, exports | none | read-only | each report sorts hours by its own rules, with NULLs | partly: PDF and QR output are left out |
| Migrations | revision | upgrade, downgrade | each validates its own result and may refuse | partly: five of them move data |
| Reference tables | rows | CRUD | — | not modelled: single-table reads and writes |

How the workflow parts interact: accepting a DI (or creating an intervention for
it) inserts the intervention, links it, attaches the preventive occurrence and
moves its tasks; closing the intervention, by whatever endpoint, closes the DI and
completes the occurrence; rejecting the DI gives the occurrence back; the
occurrence's status decides whether the next one is generated.

How the purchasing parts interact: a request is created alone or for an action; a
dispatch puts each request that has an article, a supplier reference and no line
into the OPEN order of its preferred supplier, or of every referenced supplier,
where one line per article gathers the quantities; quotes and selections are made
on the lines; the order's status, its lines and its links give the status of the
request, which decides whether it may be modified and whether it is dispatched.
The closure of the action's intervention freezes the request.

What they share: every call borrows from one pool of connections per process,
locks rows that other calls lock in another order, and asks the permission cache.

## Modules

| Module | What it is |
|---|---|
| `MaintenanceTables` | the tables of the workflow and the transactions on them, as operators from database to database: checks, trigger effects, refusals |
| `MaintenanceWorkflow` | the abstract specification: every endpoint is one indivisible step |
| `ConcurrentWorkflow` | the same endpoints as sequences of transactions run by several workers, with stale reads and failures; it instantiates `MaintenanceWorkflow` |
| `Repairs` | `repair_orphaned_requests`, `repair_orphaned_data` (bugs 1, 1b, 2, 3, 3b, 5, 7) and `force_close_request` as operators on the same database |
| `PurchaseTables`, `Procurement` | the tables of requests, orders, lines and links, the derivations of a request's status; the purchasing endpoints as transactions of several workers |
| `PurchaseViews` | lists, counters, details, order pages, exports and the import's preview, over the same tables |
| `PreventiveGeneration` | plans, hours, the calendar, and generations that overlap |
| `TokenLineage`, `Sessions` | what a refresh token may become; logins, rotation, flood guard and administration, which implement it |
| `ProcessResources` | pool, row locks and permission cache of one process, with fairness |
| `Catalogue` | templates and their versions, items, suppliers' references, parts |
| `Migrations` | revisions 003, 006, 009, 011 and 012, up and down, over `Catalogue` |
| `ActionLog` | hours, complexity and the audit trail of overlapping calls on one action |
| `Equipment`, `WorkViews` | the serial workflow with machines, priorities, due dates, actions and purchases; every list, page, count and badge computed from it |
| `Statistics`, `Reports` | the reports of `/stats` over the recorded actions; both read sides in one specification |
| `MaintenanceTables_proofs` | lemmas: what each transaction preserves |
| `MaintenanceWorkflow_proofs` | the inductive invariant of the serial specification and its theorems |
| `Reports_proofs` | the same for `Reports`, on top of it: pages, lists and statistics |
| `ConcurrentWorkflow_proofs` | what survives any overlap, for any number of workers; one worker implements the serial specification |
| `Procurement_proofs`, `PreventiveGeneration_proofs`, `Catalogue_proofs` | the inductive invariants and theorems of those specifications; the last one with the migrations |
| `Platform_proofs` | those of `Sessions`, `ProcessResources` and `ActionLog`, which share no state |
| `MCConcurrent`, `MCProcurement`, `MCPreventive`, `MCSessions`, `MCResources`, `MCCatalogue`, `MCActionLog`, `MCReports` | symmetry sets, small catalogues and payloads for TLC; the sizes are in the `.cfg` files |

Definitions introduced by a `Fault:` comment are not part of the specification.
They are the plausible mistakes that show that each property can fail: with the
definition they stand in for replaced, TLC reports the property.

### State

`db` in the workflow modules is a record of four tables, each a function from ids to
rows. A row that was never inserted has status `"none"`, a deleted one `"deleted"`:
ids are used once, as UUIDs are. Of a request the model keeps `statut`,
`intervention_id`, the `status_to` of the latest dated log row (`logged`) and the
number of `cloturee` rows (`closings`); of an intervention `status_actual`, whether
`plan_id` is set and whether it has an action; of an occurrence `status`, `di_id`,
`intervention_id`; of a task its status, whether it is optional, its occurrence and
intervention, and whether an action is linked to it. A status of an intervention is
its row of `intervention_status_ref`: the code compares `status_actual` with a code
(`schema_current.sql`, the cascades) and with the id looked up by that code
(`intervention_requests/repo.py:11`, `dashboard/repo.py:26`), and the model
(`SyncStatusLog`, `RequestHealth`, `Badges`) assumes that id and code are the same text.
Were they not, these lookups would find no intervention closed or open. The tasks of an
occurrence are named by the occurrence and the gamme step, the others by `ManualTasks`.

The database of `PurchaseTables` has a row per request (article, quantity and the
intervention of its action), per order (status, supplier) and per pair of order and
article: the two partial unique indexes allow one line per article in an order, so
that pair is the line's id, and quantity 0 means that there is no line. An article
is a part or a legacy stock item; a call uses one of the two indexes. `link[r][l]`
is the quantity line `l` allots to request `r`. The catalogue is constant: `Rows[a]`
are the suppliers of the article's references in the order of the dispatch's query,
`Direct` the articles whose first one is preferred. Prices, labels and dates are
left out.

In the specifications with several workers, `job[w]` is the frame of the call worker
`w` serves: the stage it is at and the values it has read. It may be stale when the
call writes.

An occurrence of `PreventiveGeneration` is named by plan, machine and scheduled date,
which a UNIQUE constraint makes a key; `by` remembers the definition of the plan that
the generating call had loaded. `Catalogue` keeps of a template the versions, each a
set of fields with a shape, and of an item the version it was made with.
`Statistics` counts hours in quarters and instants in half days, so that a midnight
and the rest of its day are told apart; a NULL column is `Null` and a comparison
with it is never true.

### Steps

A call is cut where the code gives a connection back, and, within one
transaction, between its last unlocked read and its first write to a row others
may touch. So `transition_status` is three steps (`TransitionRead`;
`TransitionBegin`, which opens the writing transaction and looks the occurrence
up; then `Hold`, `Reject`, `Accept` or `CloseRequest`), `PUT /interventions` is up
to five (`PutRead`, `PutWrite`, `PutReread`, `CascadeBegin`, `CascadeWrite`).
From its first write to its commit a transaction is one step, because the rows it
has written are locked. Consecutive reads with no write between them are one step,
and so are calls that are a single transaction on new rows (`CreateRequest`,
`Generate`). `Fail(w)` ends a call at any point: an exception, a refused statement
or the death of the thread; what was committed stays.

`request_status_log.date` defaults to `now()`, the start of the transaction. A
transaction that will write such a row therefore *begins* before it writes
(`Begins`), and a frame records which transactions were open when it began
(`older`) and for which requests a younger one has meanwhile committed a row
(`late`): a late row does not become the latest one. A transaction of a single
statement gets its date with that statement (`PutWrite`, `LogWrite`).

Triggers are inside the transaction that fires them. `SyncStatusLog` is
`fn_sync_status_log_to_intervention` with everything it sets off in turn;
`UpdateStatus` is the `UPDATE` of `status_actual` with `trg_log_status_change`;
`GammeIncomplete` and `LogIncoherent` are the two exceptions triggers raise, and a
call whose statement raises can only `Fail`.

In `Procurement`, `PUT /supplier-orders` is cut before the preconditions of
RECEIVED and again before the write, and creation, update and deletion of a request
before the write. A call that is one transaction and has read nothing but the
existence of its row is one step (`Serves`). A dispatch lists the pending requests
(`DispatchRead`), looks its orders up (`FindOrder`) and writes, one request per
step (`DispatchOne`, or `DispatchFails` for a ROLLBACK TO SAVEPOINT, after which the
cache still holds the order that was undone: `"lost"`). From its first write to its
commit the other workers wait (`Undisturbed`): nobody sees what it has written, and
its locks keep others from what it will still change, so their steps can be taken
before its first write or after its commit with the same result. All lookups come
first for the same reason: a step of another call between a write and a later
lookup may as well come before that write. Which OPEN order the lookup finds (the
newest in the code) and in which order the requests come (the newest first) are left
open. A field absent from the body of a PUT keeps what the row holds when it is
written, not what it held when it was read.

A generation reads `date.today()` once, loads the plans, then treats a machine at a
time in a transaction of its own: `CheckActive`, `ReadReference`, `Insert`
(`ON CONFLICT DO NOTHING`), `AutoAccept`. An async handler of `Sessions` does not
give its event loop up between its statements, so a process serves one login or
refresh at a time and other processes come in between. In `ProcessResources` a call
is a script of what it does to the pool, the locks and the cache; `LockRow` waits,
`TakeConnection` refuses when nothing is free, and `Timeout` is the statement
timeout. `ActionLog` cuts a call where the middleware reads the entity, the route
validates it, the route writes it and the middleware reads it again. Each of these can
fail on its own: a read of the middleware that raises is `{}` (`Unread`), every field of
which differs from the row; a route that has committed and then raises, or whose answer
is lost, is not logged (`LoseAnswer`); an entry that cannot be written is dropped
(`LogLost`). The history variable `gaps` collects the actions this has happened to.

`Equipment`, `WorkViews` and `Statistics` are the read side: the writes are one step
each, and a property compares what two queries answer on the same rows.

An action is linked to every task of the list it is posted with, each closed, skipped or
taken up on its own, and a PATCH links it to more (`AddAction`, `ActionOn`,
`PatchAction`). What lasts is what the last mention of a task says, so a list is a
function from its tasks to what becomes of them. Where calls overlap
(`ConcurrentWorkflow`) the list has one task: the tasks of a list are read one by one in
the writing transaction, and the models of one worker, in which lists are of any length,
say what a list does that is not what each of its tasks does.

Left out everywhere: codes and their uniqueness, users' names, texts; the fallback of
`_create_intervention_for_request` when the status table is empty.
`rattach_to_intervention` has no caller.

## Runs

Each run asks one question. Two runs of a workflow or of purchasing differ in whether
calls may overlap: what holds without overlap and what survives it are different
properties.

| Run | Instance | Question | Properties |
|---|---|---|---|
| OneWorker | 1 worker, 2 requests, 2 interventions, 2 occurrences, 1 gamme step, 1 manual task, 2 closings | without overlap, are the calls, cut into transactions and failing anywhere, the serial workflow; do the repairs undo what they are for | `LinksAgree`, `TasksAgree`, `RepairUndoes`, `ImplementsSerial`, `StatutFollowsTable`, `ClosedFreezesTasks` |
| Overlap | 2 workers, 1 request, 2 interventions, 1 occurrence, 1 step | what two overlapping calls cannot break | `AcceptedNotClosed`, `NoDanglingReference`, `ClosesCompleteGamme`, `TaskKeepsIntervention` |
| Dispatching | 1 worker, 2 requests of an article of 2 suppliers, 3 orders, lines up to 2 | is a dispatch all or nothing, with its savepoints, its cache and its failures | `OnlyPendingDispatched`, `DispatchConserves`, `AllOrNothing` |
| OrderLines | 1 worker, 2 requests, 1 article, 2 orders, 1 intervention, at most 7 rows | lines written by hand: do all pages agree, is the selection exclusive | `ViewsAgree`, `ClosedFreezesRequests`, `ExclusiveSelection` |
| DispatchOverlap | 2 workers, 2 requests, 1 article, 2 orders, lines up to 3 | what overlapping dispatches cannot break | `NoDanglingLink`, `LineCoversLinks` |
| Preventive | 2 workers, 1 plan, 1 machine, days 0 to 3, hours 0 to 2 | generations that overlap each other, skips, closures and edits | `OneActiveOccurrence`, `CadenceKept`, `HoursApart` |
| Sessions | 2 processes, 1 user, 3 tokens, limits of 1 attempt per address and 2 per IP, 2 quarters | rotation and flood guard of several processes | `HeirsBounded`, `FloodBounded`, `ImplementsLineage` |
| Resources | 2 threads, 2 connections, 2 grants, 6 kinds of call | nested borrowing, crossed locks, broken connections, cache reload | `PoolConserved`, `CacheSettled`, `CallsEnd` |
| Catalogue | 2 workers, 2 templates, 2 items, 1 part, 3 sources, 2 fields, 3 versions; 2 references, 1 write between migrations | overlapping calls on the catalogue, and the migrations that transform it | `ItemsFitTemplate`, `RefsCounted`, `PreferredBounded`, `MigrationsKeep` |
| ActionLog | 2 workers, 1 action, 1 intervention, 2 machines, times 0 to 2, 3 entries | overlapping patches, the hours trigger, the audit trail and its gaps | `HoursAccounted`, `ComplexityExplained`, `TrailReplays` |
| Reports | 2 requests, 2 interventions, 1 occurrence, 2 machines, 1 action, 1 purchase; 3 actions with times, 3 days, 6 rows | do all the reports and pages computed from the same rows agree | `ChargeAdds`, `PeriodsAccount`, `RatesBracket`, `ReportsGrow`, `ListsAgree`, `WorkNeverImproves` |
| HoursOnce | 1 request, 1 intervention, 1 action, 2 purchases | the one disagreement with the documentation that is run: see below | `HoursOnce` (violated) |

### Bounds

- **Workers.** A property that two overlapping calls can break is checked with two. A
  third call would have to depend on both: the proofs, which bound nothing, cover it
  for the properties they state.
- **Rows.** Two requests and two interventions are what a link to the wrong one, a
  second intervention for one request or a second request for one intervention take;
  one occurrence suffices where occurrences do not interact. They do in
  `PreventiveGeneration`, and OneWorker has two since a repair that is for one must leave
  the other alone. Three orders are one per supplier and one
  that is no longer open. An id is used once, so the number of ids also bounds how
  many rows a behaviour creates; behaviours that stop for want of ids are why runs
  other than Resources allow a deadlock.
- **Counters.** `MaxClosings` bounds `cloturee` rows per request (a second one is the
  double log; the third, which a closing transition adds, is not counted; Overlap counts
  none, since no call reads the number and no property of the run does), `MaxLine` the
  quantity of a line, `MaxRows` the orders, lines and links of the runs that look at pages, `MaxDay` and `MaxHours` the calendar and the hours of
  a machine (a period, the delay past it and the next one fit), `MaxQuarter` the time
  after which attempts are forgotten, `MaxEntries` the audit trail.
- **Loads.** `Endpoints`, `Loads` and `Served` choose which calls arrive. The calls of
  Catalogue arrive in groups that share rows: templates with items, items with
  references, parts, migrations.
- **Constraints.** `Preventive` and `ActionLog` stop at states where a history variable
  says that what the property is conditional on no longer holds (`Untorn`).
- **Symmetry.** The ids that no constant function tells apart are permuted. No run with
  symmetry checks liveness.

### Fairness

Only `ProcessResources` has any: weak fairness of `Works(t)` and of `Timeout(t)` for
each thread. A thread that can go on is scheduled by the operating system, and
PostgreSQL cancels a statement after `statement_timeout` (30 s, `api/db.py`), which
breaks crossed locks too. Nothing promises that a call arrives, fails or succeeds, so
`CallsEnd` says that a call ends, not how. The other specifications have no fairness:
their properties are safety properties and no user has to come back.

### Refinements

- `ConcurrentWorkflow` with one worker implements `MaintenanceWorkflow`, the database
  mapped to itself and a read to a stutter (`ImplementsSerial`): checked and proved.
- `Sessions` implements `TokenLineage`, where tokens only appear, as the first of a
  lineage or the heir of a token, and are only revoked (`ImplementsLineage`): checked and
  proved.

## Proofs

TLC shows a property on one small instance; the proofs are for every number of workers,
rows, articles, templates, machines, processes, tokens, threads and connections. They assume what each
component's module assumes of its constants: `Null` is no id, ids of different tables
are different, limits are naturals, a preferred reference is one of the article's
(`TablesAssumption`, `CatalogueAssumption`, `GenerationAssumption`,
`SessionsAssumption`, `NullAssumption`, `MigrationsAssumption`, `ResourcesAssumption`,
`EquipmentAssumption`, `IdsAssumption`, `ConstantsFit`, `LogAssumption`), that what is
counted or summed is finite, and that a calendar's weeks, months and quarters are
intervals: the last day of a period is not before its days, and is the same for all of
them.

Three hypotheses are more than that, and each is the one under which the property is
true; the runs that check it have the same. `Alone`, that there is one worker, in the
last parts of `ConcurrentWorkflow_proofs` and `Procurement_proofs`. `NoHandEdits`, that
the endpoints in use do not edit lines or links: a user may set the quantity of a line
to anything. `OneReference`, that a supplier has one reference of an article at most: with
two, a dispatch adds the quantity to the line for each of them and links it once.

| Proved | Theorem | Inductive invariant |
|---|---|---|
| serial workflow: `LinksAgree`, `TasksAgree`, `StatutFollowsTable`, `ClosedFreezesTasks` | `MaintenanceWorkflow_proofs`: `LinksHold`, `TasksHold`, `StatutsMove`, `TasksFrozen` | rows typed and references kept (`Consistent`), the parts of `LinksAgree` and `TasksAgree`, and what they need: an unused occurrence id has no tasks and no row that names it (`FreshOccurrences`), a request has one occurrence at most (`OneOccurrencePerRequest`) |
| one worker implements it, and so has all of these | `ConcurrentWorkflow_proofs`: `RefinesSerial` and four more | the serial invariant, and `Ready`: what a stage of a call relies on and no longer checks |
| one worker: `RepairUndoes` | `RepairsHold` | that, and `PlanInv`: an intervention an occurrence has is one of its plan, and the tasks of an occurrence are those of the steps, as optional as they are |
| any overlap: `AcceptedNotClosed`, `NoDanglingReference`, `ClosesCompleteGamme` | `ConcurrentWorkflow_proofs`: `ClosureReachesRequest`, `ReferencesHold`, `GammeCompleteAtClosure` | `Consistent`, and `Fit`: frames hold ids of the right kind |
| any overlap: `TaskKeepsIntervention` | `InterventionKept` | that, and `FreshTasks`: a task that does not exist yet belongs to nothing |
| any overlap: `NoDanglingLink`, `ExclusiveSelection` | `Procurement_proofs`: `LinksHold`, `SelectionExclusive` | `Consistent` and `Fit`, in which an order a dispatch has cached may be gone |
| one worker: `OnlyPendingDispatched`, `AllOrNothing`, `ClosedFreezesRequests` | `PendingDispatched`, `ConsultsAll`, `RequestsFrozen` | that, and `Ready`: the request of a frame is not frozen, what a dispatch has still to do has no line, and an order it has cached, unless it was undone, is of that supplier |
| any overlap, no edits by hand: `LineCoversLinks` | `LinesCover` | that of `NoDanglingLink` with the property; a sum over the requests changes by what one of them changes (`SumChanged`) |
| one worker, one reference: `DispatchConserves` | `DispatchAdds` | that of `OnlyPendingDispatched`: what is dispatched had no link, and orders that are cached are OPEN, one for each supplier |
| `OneActiveOccurrence`, `CadenceKept`, `HoursApart` | `PreventiveGeneration_proofs`: `OneAtATime`, `Cadence`, `Apart` | `CadenceKept` and `HoursApart`, and, unless torn, `Settled`: occurrences are past or today's, none is later than an active one, and what each generation under way has read still holds or its insertion will be refused |
| `HeirsBounded`, `ImplementsLineage` | `Platform_proofs`: `HeirsCounted`, `LineageKept` | a frame names a token and a user that are there (`Fits`), a token's user stays (`Owned`), a token that was replaced is revoked (`Replaced`); with them the property is inductive |
| `FloodBounded` | `FloodHeld` | the attempts recorded together with the logins that have passed the guard and will record one stay below the limit plus the processes (`Guarded`); no attempt is of a quarter to come (`Past`) |
| `ItemsFitTemplate`, `RefsCounted`, also across migrations | `Catalogue_proofs`: `ItemsFit`, `CountsExact`, `CatalogueKept` | the properties, and `FramesFit`: a template being used is as it was read, or deleted |
| `MigrationsKeep` | `MigrationsKeepData` | that of `CatalogueKept`, rows that keep to their columns (`MigrationTyped`), and what the migrations up to the current revision have made of them (`Revised`) |
| `PreferredBounded` | `PreferencesBounded` | `Authored`: the preferred references of an item or part have as many different authors, and an author that is about to write another one replaces its own |
| `PoolConserved`, `CacheSettled` | `Platform_proofs`: `ConnectionsConserved`, `CacheFollowsTable` | scripts are well formed: what each element holds and which may follow it; a call holds what its place in its script says (`Placed`), and rows only until the commit that follows them (`LocksPlaced`); what the load under way has still to read completes the cache (`CacheFollows`) |
| `ListsAgree`, `WorkNeverImproves` | `Reports_proofs`: `ListsHold`, `HealthNeverImproves`, by `WorkflowKept` | `PagesInv`: that of the serial workflow with `PlanInv`; a task row is there exactly when it has an occurrence or an intervention (`TasksPlaced`); an action is recorded on one task or more, all of its intervention, which it tags (`ActionsPlaced`); a purchase asks for a recorded action (`AskedPlaced`); an occurrence that waits is on the machine of its request (`SameSeat`) |
| `ChargeAdds`, `RatesBracket`, `PeriodsAccount`, `ReportsGrow` | `Reports_proofs`: `LoadAddsUp`, `RatesAgree`, `PeriodsAddUp`, `ReportsOnlyGrow` | rows are rows (`RowsFit`): the rest is about the queries, on any rows |
| `HoursAccounted` | `Platform_proofs`: `HoursAddUp` | the property, with the types (`LogTyped`) and that what calls and decisions name exists (`Exist`) |
| `ComplexityExplained`, `TrailReplays` | `FactorsNamed`, `LogReplays` | that, and, of an action that is not torn: one PATCH at a time (`Alone`), which judges the row as it is (`ReadIsCurrent`); unless the middleware has missed something of it (`gaps`), what the log says of each field at every stage of that PATCH (`TrailTells`) |
| `ViewsAgree` | `Procurement_proofs`: `ViewsHold` | that of `NoDanglingLink`: the rows fit their columns and the rest is about the queries, on any such rows |
| types of each of these specifications | `TypeCorrect`, `PoolTyped`, `ColumnsTyped`, `RowsTyped` | the same |

Why the invariants are stronger than the properties:

- *Closure of a request.* That no accepted request has a closed intervention needs no
  memory of the call: the triggers look at the rows themselves, so the invariant is
  about rows alone and holds whatever the frames contain. `LinksAgree` is the opposite:
  it depends on what a call has checked, and with two workers it is false.
- *Refinement.* A read is a stutter, and the write that follows takes place in a state
  of which the call knows only what it has read. `Ready` says, stage by stage, that
  what it has read is still true; it is inductive because nobody else writes.
  After a closure the triggers have already closed request and occurrence, so the
  Python cascade maps to a stutter.
- *Repairs.* `Sound` gathers what the invariant says of tables, without the calls. The
  proof follows the damaged occurrence through the six steps of the repair: each lemma
  (`PlansFixed`, `TasksRelinked`, `OccurrenceAttached`, `StaleCompleted`, `BareAgain`,
  `TasksAgain`) says which rows are already as in the sound tables and which are still
  damaged, for any set of the bugs. The other occurrences stay as they are because
  their links are sound; those without tasks get the tasks of their steps, with
  damage or without.
- *Dispatch.* After ROLLBACK TO SAVEPOINT the cache still holds the order that was
  undone. `Fit` and `Ready` allow it: a line for that order fails on the foreign key,
  the savepoint undoes the request with it, and nothing remains of a consultation that
  would be incomplete. What is left is never an order of another supplier.
- *Sums.* What a line allots is a sum over the requests. That it changes by what one of
  them changes needs induction over finite sets, which is here the choice of a least
  counterexample: the sizes of the sets for which a sum would not exist, or not be unique,
  would have a least element (`Least`, `SumExists`, `SumUnique`).
- *Generation.* A generation decides on what it read of plan and machine. If neither
  midnight nor an edit falls within it, the reference date it has read is that of the
  last occurrence unless another generation has inserted meanwhile; then ON CONFLICT
  or the check of an active occurrence stops it.
- *Flood guard.* The guard counts attempts before the password is checked and records
  one after. A bound on the attempts alone is not inductive: what is preserved is that a
  login counted by the guard becomes an attempt, and the sum does not grow.
- *Preferred references.* The count of them cannot be bounded by induction on itself:
  three calls that have each found none will leave three. That the authors
  differ can be shown by induction, and they are workers.
- *Pool.* The number of connections free plus those broken says nothing of who has the
  others. The invariant counts them call by call, and what a call has is a function of
  its place in its script; a transaction that fails leaves its script with all its
  connections at once.
- *Permission cache.* Between emptying and filling it the cache is not the table; what
  is preserved is that cache and rows still to add are the table together, as long as no
  other load and no change of a permission has come in between (`mixed`).

- *Pages.* `Reports` is `MaintenanceWorkflow` with more columns: its steps are steps of
  the workflow or leave it alone (`WorkflowKept`), so the serial invariant comes for
  free. It does not suffice: that the hours under the tasks of an intervention are those
  of its actions, as often as each has tasks, needs that a task with an action neither
  moves nor disappears; the sum over tasks and the sum over actions are then both the sum
  over the links between them. That a list finds a task
  by its intervention and another by its occurrence needs to know that the two lead to
  one request. `ListsAgree` is then proved conjunct by conjunct, with no further
  induction over steps.
- *Sums of reports.* The same hours are summed over rows, classes, categories, causes
  and periods. The proofs need three facts about sums over finite sets: a sum over a
  disjoint union is the sum of the sums, a sum of larger terms is larger, a family of
  disjoint sets may be summed set by set. Each comes from the choice of a least
  counterexample, as above. That periods partition a range comes from the calendar
  alone; what falls between two of them are the hours that `PeriodsAccount` adds back.
- *Anomalies.* A detector groups rows or compares neighbours. A new row joins a group or
  founds one, and so never shrinks one. Between two neighbours it takes the pair away and
  leaves two closer pairs, of which the later is as severe and reported at the
  same instant: that is why `ReportsGrow` compares findings by `of` and not by row.
- *Purchasing screens.* `ViewsAgree` is proved screen by screen. The counters are sums
  over classes (`CountByClass`). A page is a set of places: every place is on the first page that
  ends past it (`PageOf`), and pages do not overlap (`PagesOrdered`), for any limit. An
  import is compared with its preview for a file of two rows, which is where a row first
  meets what an earlier one created; the requests there are before may be any.
- *Decision log.* A decision's old value comes from a snapshot the middleware took before
  the route. That it continues the log is true only because, unless torn or in `gaps`, no
  other PATCH is between that snapshot and the decision and the snapshot is the row; the
  invariant tells, stage by stage, whether the log
  ends in the row or in what the row was before.

The lemmas about the transactions of the workflow are in `MaintenanceTables_proofs`:
what each of them preserves of `Consistent`, what it does to a task, and that the
trigger behind a log row closes what depends on it. Both workflow specifications cite
them. `TypeCorrect` comes from the same invariants.

### Only model-checked

- `CallsEnd` is liveness.
- `PreferredBounded` across migrations: it is proved for the catalogue's own calls; in the
  run it holds across migrations too because the rows there were before have at most
  `MaxRefs` preferred ones.

## Where the code and what is said of it differ

### Run

`HoursOnce`: `docs/API_REFERENCE.md:285-286` defines the statistics of an intervention
as a count of distinct actions and the sum of their hours. In the intervention shown
with an action (`intervention_actions/repo.py:336`) or with a request
(`intervention_requests/repo.py:70-82`) the actions are first joined with their
purchase requests, so an action with two counts twice.

### Found while modelling

With two overlapping calls, each of these can fail, and TLC shows how when the
property is added to the run with two workers:

- `StatutFollowsTable` and `LogEndsInStatut`: two transitions of one request both pass the check
  and both write. The status leaves ALLOWED_TRANSITIONS, the log may hold the same
  status twice, and since a log row is dated by the start of its transaction the
  latest row need not be the last one written.
- `OccurrenceFollowsRequest`, `GammeFollowsOccurrence`: an acceptance attaches the
  occurrence it looked up before a rejection gave it back.
- `ClosedFreezesTasks`: a task is edited after a closure its call has not seen.
- `OnlyPendingDispatched`: two dispatches order the same request twice.
- an action loses the factor that explains its complexity to the patch that overlapped
  it (`ComplexityExplained` is said of the others).

With calls one after the other:

- *Preventive.* Auto-accept refuses a machine whose request type is 'PREV' and the
  failure is only logged. `docs/endpoints/preventive-occurrences.md:179` says that
  the repair changes only incoherent rows, but bug 7 recreates gamme tasks that were
  deleted by hand, and bug 5 gives another result when the plan was edited in between.
  Tasks of an occurrence that is rejected and then skipped stay 'todo' without intervention: the badge counts them for ever and no list shows them. The summary of
  occurrences has no column for those in progress or completed.
- *Interventions.* `overdue` in the list comes from the earliest due date of all tasks,
  those done or skipped included. `docs/endpoints/interventions.md:439-440` says of
  the page "Idem" for the next due date and `overdue`; `get_by_id` returns neither.
  The intervention shown within a request is never late.
- *Actions.* `GET /intervention-actions?task_id=` without dates returns today's only. The
  workspace's etag changes with ids, not with contents.
- *Purchases.* The list by intervention always fails: its query names an alias, `ia`,
  that is not joined. The list's status filter is applied after the page is cut. An
  error while the lines of the detail are read is swallowed, and an ordered request
  then shows as editable. `by_status` counts the last day of a period, the totals stop
  at its midnight. RECEIVED is shown once the receipts of a *shared* line reach the
  request's own part. The import's "TO_QUALIFY" counts requests that are qualified,
  and as an imported request has no action its duplicate check never finds one.
  Order pages and exports show the preferred supplier's reference of a part when the
  order's supplier has none, and a part with two preferred suppliers twice.
- *References.* `docs/endpoints/stock-item-suppliers.md` promises one preferred supplier per
  article (`OnePreferred`); only `PreferredBounded` is true.
- *Exports.* The docstring of the CSV export of an order
  (`supplier_orders/routes.py:110`) says "lignes sélectionnées uniquement"; the query
  behind it (`supplier_orders/repo.py:467-607`) has no condition on `is_selected` and
  exports every line, those of a consultation that went to another supplier included.
  `ViewsAgree` says of an export what both allow: it has the selected lines, with the
  quantity, the references and the requests their page shows.
- *Audit trail.* A read of the middleware that fails is taken for an empty row
  (`audits/middleware.py:246-248`): every field is then logged as changed, from None or
  to None. A PATCH that has committed and whose re-read raises
  (`intervention_actions/repo.py:924`) answers 500, and the change is not logged
  (`audits/middleware.py:136`). `TrailReplays` is said of the actions without such a gap.
- *Time on tasks.* `time_spent` of a task (`intervention_tasks/repo.py:74-81`) counts an
  action in full under each task it is on: an action of 2 hours on two tasks shows 4
  hours on the tasks of an intervention of 2. `HoursOnTasks` states it so.
- *Hours and health.* `docs/shared-schemas.md:62-63` counts interventions, requests and
  tasks and calls a machine without any 'ok' (`QuietMachineOk`); purchase requests count
  too. Hours recorded on the last day of a period after midnight belong to no period. A
  factor, or the rows of one factor in one class of machines, whose actions all have a
  NULL time makes `round(None)` fail the whole report (`ChargeFails`).
  'demande_sans_stock_item' reports every request that is qualified by a part;
  'en_cours' is no status, so 'intervention_en_cours_inactive' never reports. The dashboard's pending badge is
  always 0, and its `purchase_requests.open` counts intervention requests. The machine
  list overwrites the mother with None.
- *Connections.* A connection that breaks in a transaction is closed without being
  given back: the pool never gets it again.
- *Migrations.* 006 says that no link is lost, but a request of an intervention without
  action loses its own. 009 is refused by a reference whose `is_preferred` is NULL, and
  its downgrade drops parts made since, with the names the requests gave them. The
  downgrade of 003 keeps the last action of each task, and 012's is refused by a line
  of a part alone.
- Paged lists that are ordered by a column with equal values have no tie-break, so a
  row may be on two pages or none.

## Not modelled

- Codes of requests, interventions and occurrences, and their uniqueness: the request's
  is COUNT(*) + 1 of the year, which two concurrent creations share; the constraint then
  refuses one of them.
- API keys, the check of an access token, the users' and roles' administration beyond
  activation and passwords.
- Manufacturers, families, locations, quantities in stock, prices.
- PDF and QR output, photos, labels, wording, sorting.
- Edits of the gamme steps of a plan; the reasons and queries of the audit log;
  reference tables.
- Ordering and assignment of tasks; where calls overlap, an action on several tasks.

## Next

The codes, whose COUNT(*) + 1 two creations share, as a component of its own.

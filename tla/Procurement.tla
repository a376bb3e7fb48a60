----------------------------- MODULE Procurement ------------------------------
(***************************************************************************)
(* The purchasing endpoints as the server runs them: workers, each call a  *)
(* sequence of transactions (READ COMMITTED).  A call is cut where it may  *)
(* write on what it has read before.  With one worker, calls are serial.   *)
(***************************************************************************)
EXTENDS PurchaseTables

CONSTANTS
    Workers,     \* threads serving calls
    Endpoints    \* the endpoints in use, of those named below

VARIABLES
    db,          \* the committed database
    job          \* job[w]: the call worker w is serving

vars == <<db, job>>

Stages == {"idle", "creating", "updating", "deleting", "receiving", "ordering",
           "finding", "dispatching"}
Cached == Orders \cup {Null, "new", "lost"}     \* Null: not looked up yet
Entry == [r : Requests, a : Articles, q : 1 .. MaxQuantity]
Frame == [at : Stages,
          r : Requests \cup {Null}, a : Articles \cup {Null}, q : 0 .. MaxQuantity,
          i : Interventions \cup {Null}, o : Orders \cup {Null},
          s : OrderStatuses \cup {Null}, supplier : Suppliers \cup {Null},
          todo : SUBSET Entry,                  \* what the dispatch has still to do
          cache : [Suppliers -> Cached]]        \* its orders_cache

Idle == [at |-> "idle", r |-> Null, a |-> Null, q |-> 0, i |-> Null, o |-> Null,
         s |-> Null, supplier |-> Null, todo |-> {},
         cache |-> [s \in Suppliers |-> Null]]

Init == db = EmptyDatabase /\ job = [w \in Workers |-> Idle]

------------------------------------------------------------------------------
(* Steps of a call *)

\* A dispatch holds from its first write to its commit the locks of what it has
\* written, and nobody sees it: the others may as well wait.
Undisturbed(w) == \A v \in Workers \ {w} : job[v].at # "dispatching"

Starts(w, endpoint, frame) ==
    /\ endpoint \in Endpoints
    /\ RoomForCall(db)
    /\ job[w] = Idle
    /\ Undisturbed(w)
    /\ job' = [job EXCEPT ![w] = frame]
    /\ UNCHANGED db

Ends(w, stage, d) ==
    /\ job[w].at = stage
    /\ Undisturbed(w)
    /\ db' = d
    /\ job' = [job EXCEPT ![w] = Idle]

\* A call that is one transaction, its only earlier read being that its row exists.
Serves(endpoint, d) ==
    /\ endpoint \in Endpoints
    /\ \E w \in Workers : job[w] = Idle /\ Undisturbed(w)
    /\ FitsRows(d)
    /\ db' = d
    /\ UNCHANGED job

\* A call ends early: a refusal, an exception, the death of its thread.  What it had
\* not committed is lost; for a dispatch that wrote, it is as if it failed before.
Fail(w) ==
    /\ job[w].at \notin {"idle", "dispatching"}
    /\ Undisturbed(w)
    /\ job' = [job EXCEPT ![w] = Idle]
    /\ UNCHANGED db

------------------------------------------------------------------------------
(* Purchase requests *)

\* POST /purchase-requests and each row of POST /purchase-requests/import: the
\* intervention of the action is not closed.
CreateRead(w, r, a, q, i) ==
    /\ db.request[r] = NoRequest
    /\ i \notin db.closed
    /\ Starts(w, "request", [Idle EXCEPT !.at = "creating", !.r = r, !.a = a,
                                         !.q = q, !.i = i])

CreateWrite(w) ==
    LET f == job[w]
    IN  /\ Ends(w, "creating", InsertRequest(db, f.r, f.a, f.q, f.i))
        /\ db.request[f.r] = NoRequest

\* PUT /purchase-requests/{id}: the route reads the detail's status, the repository
\* the interventions.
UpdateRead(w, r, a, q) ==
    /\ db.request[r].status = "live"
    /\ DetailStatus(db, r) \in EditableStatuses
    /\ ~ Frozen(db, r)
    /\ Starts(w, "request", [Idle EXCEPT !.at = "updating", !.r = r, !.a = a, !.q = q])

\* The body has a quantity, and the article or not.
UpdateWrite(w) ==
    LET f == job[w]
    IN  /\ f.at = "updating"
        /\ \E a \in {f.a, db.request[f.r].article} :
              Ends(w, "updating", UpdateRequest(db, f.r, a, f.q))

\* Fault: the intervention is not looked at.
DeleteReadAnyIntervention(w, r) ==
    /\ db.request[r].status = "live"
    /\ Starts(w, "request", [Idle EXCEPT !.at = "deleting", !.r = r])

\* DELETE /purchase-requests/{id}
DeleteRead(w, r) ==
    /\ db.request[r].status = "live"
    /\ ~ Frozen(db, r)
    /\ Starts(w, "request", [Idle EXCEPT !.at = "deleting", !.r = r])

DeleteWrite(w) == Ends(w, "deleting", DeleteRequestTx(db, job[w].r))

\* The intervention of a request's action is closed (see MaintenanceWorkflow).
CloseIntervention(i) ==
    /\ i \notin db.closed
    /\ Serves("close", [db EXCEPT !.closed = @ \cup {i}])

------------------------------------------------------------------------------
(* Supplier orders *)

\* POST /supplier-orders: the status is the caller's.
CreateOrder(o, s, status) ==
    /\ db.order[o] = NoOrder
    /\ Serves("order", InsertOrder(db, o, s, status))

\* PUT /supplier-orders/{id}: the transition is validated on what was read.
PutRead(w, o, status, s) ==
    /\ db.order[o].status \notin Gone
    /\ status # Null => TransitionValid(db.order[o].status, status)
    /\ Starts(w, "order",
              [Idle EXCEPT !.at = IF status = "RECEIVED" /\ db.order[o].status # status
                                  THEN "receiving" ELSE "ordering",
                           !.o = o, !.s = status, !.supplier = s])

\* validate_received_preconditions, on a connection of its own.
PutCheck(w) ==
    /\ job[w].at = "receiving"
    /\ Undisturbed(w)
    /\ Receivable(db, job[w].o)
    /\ job' = [job EXCEPT ![w].at = "ordering"]
    /\ UNCHANGED db

\* The body has a supplier or not.
PutWrite(w) ==
    LET f == job[w]
    IN  /\ f.at = "ordering"
        /\ \E s \in {f.supplier, db.order[f.o].supplier} :
              Ends(w, "ordering", UpdateOrder(db, f.o, f.s, s))

\* DELETE /supplier-orders/{id}
DeleteOrder(o) ==
    /\ db.order[o].status \notin Gone
    /\ Serves("order", DeleteOrderTx(db, o))

------------------------------------------------------------------------------
(* Order lines: no endpoint looks at the status of the order *)

Allotments == [Requests -> 0 .. MaxQuantity]
Allottable(allot) == \A r \in Requests : allot[r] > 0 => db.request[r].status = "live"

\* POST /supplier-order-lines
AddLine(l, row, allot) ==
    /\ db.order[OrderOf(l)].status \notin Gone
    /\ db.line[l] = NoLine
    /\ row.quantity > 0 /\ row.received = 0
    /\ Allottable(allot)
    /\ Serves("line", AddLineTx(db, l, row, allot))

\* PATCH and PUT /supplier-order-lines/{id}, any of whose fields may be absent.
PatchLine(l, row, select, allot) ==
    /\ db.line[l].quantity > 0 /\ row.quantity > 0
    /\ select => row.selected
    /\ row.selected /\ ~ db.line[l].selected => select
    /\ allot # Null => Allottable(allot)
    /\ Serves("line", PatchLineTx(db, l, row, select, allot))

\* DELETE /supplier-order-lines/{id}
DeleteLine(l) ==
    /\ db.line[l].quantity > 0
    /\ Serves("line", DropLines(db, {l}))

\* POST /supplier-order-lines/{id}/purchase-requests
Link(l, r, q) ==
    /\ db.line[l].quantity > 0
    /\ db.request[r].status = "live"
    /\ Serves("link", [db EXCEPT !.link[r][l] = q])

\* DELETE /supplier-order-lines/{id}/purchase-requests/{request_id}
Unlink(l, r) ==
    /\ db.line[l].quantity > 0
    /\ Serves("link", [db EXCEPT !.link[r][l] = 0])

------------------------------------------------------------------------------
(* POST /purchase-requests/dispatch *)

\* The pending requests, on a connection that is given back.
DispatchRead(w) ==
    /\ Pending(db) # {}
    /\ Starts(w, "dispatch", [Idle EXCEPT !.at = "finding", !.todo = Pending(db)])

Needed(f) == UNION {TargetSet(e.a) : e \in f.todo}

\* An OPEN order of the supplier, or none; the newest in the code.
FindOrder(w, s) ==
    LET open == {o \in Orders : db.order[o] = [status |-> "OPEN", supplier |-> s]}
    IN  /\ job[w].at = "finding"
        /\ Undisturbed(w)
        /\ s \in Needed(job[w]) /\ job[w].cache[s] = Null
        /\ \E found \in IF open = {} THEN {"new"} ELSE open :
              job' = [job EXCEPT ![w].cache[s] = found]
        /\ UNCHANGED db

\* The transaction is done with e and commits after the last request.
DoneWith(w, e, cache) ==
    job' = [job EXCEPT ![w] =
              IF job[w].todo = {e} THEN Idle
              ELSE [job[w] EXCEPT !.at = "dispatching", !.todo = @ \ {e},
                                  !.cache = cache]]

TakesUp(w, e) ==
    /\ job[w].at \in {"finding", "dispatching"}
    /\ Undisturbed(w)
    /\ \A s \in Needed(job[w]) : job[w].cache[s] # Null
    /\ e \in job[w].todo

DispatchOne(w, e) ==
    /\ TakesUp(w, e)
    /\ db.request[e.r].status = "live"
    /\ \E place \in Placements(db, e.a, job[w].cache) :
          /\ db' = Place(db, e, job[w].cache, place)
          /\ FitsLines(db')
          /\ DoneWith(w, e, [s \in Suppliers |->
                IF s \in TargetSet(e.a) THEN place[s] ELSE job[w].cache[s]])

\* A statement fails at the k-th reference: ROLLBACK TO SAVEPOINT takes back what was
\* written for e, but the cache keeps the orders that were created for it.
DispatchFails(w, e, k) ==
    /\ TakesUp(w, e)
    /\ UNCHANGED db
    /\ DoneWith(w, e, [s \in Suppliers |->
          IF job[w].cache[s] = "new" /\ s \in {Targets(e.a)[n] : n \in 1 .. k}
          THEN "lost" ELSE job[w].cache[s]])

------------------------------------------------------------------------------
RequestStep(w) ==
    \/ \E r \in Requests, a \in Articles \cup {Null}, q \in 1 .. MaxQuantity :
          \/ \E i \in Interventions \cup {Null} : CreateRead(w, r, a, q, i)
          \/ UpdateRead(w, r, a, q)
    \/ \E r \in Requests : DeleteRead(w, r)
    \/ CreateWrite(w) \/ UpdateWrite(w) \/ DeleteWrite(w)

OrderStep(w) ==
    \/ \E o \in Orders, status \in OrderStatuses \cup {Null}, s \in Suppliers :
          PutRead(w, o, status, s)
    \/ PutCheck(w) \/ PutWrite(w)

DispatchStep(w) ==
    \/ DispatchRead(w)
    \/ \E s \in Suppliers : FindOrder(w, s)
    \/ \E e \in job[w].todo :
          \/ DispatchOne(w, e)
          \/ \E k \in 0 .. Len(Targets(e.a)) : DispatchFails(w, e, k)

LineStep ==
    \/ /\ "line" \in Endpoints
       /\ \E l \in Lines, row \in LineRow :
             \/ \E allot \in Allotments : AddLine(l, row, allot)
             \/ \E select \in BOOLEAN, allot \in Allotments \cup {Null} :
                   PatchLine(l, row, select, allot)
    \/ \E l \in Lines : DeleteLine(l)
    \/ \E l \in Lines, r \in Requests :
          Unlink(l, r) \/ \E q \in 1 .. MaxQuantity : Link(l, r, q)

Next ==
    \/ \E w \in Workers : RequestStep(w) \/ OrderStep(w) \/ DispatchStep(w) \/ Fail(w)
    \/ \E o \in Orders :
          \/ \E s \in Suppliers, status \in OrderStatuses : CreateOrder(o, s, status)
          \/ DeleteOrder(o)
    \/ LineStep
    \/ \E i \in Interventions : CloseIntervention(i)

Spec == Init /\ [][Next]_vars

------------------------------------------------------------------------------
(* What always holds, whatever overlaps *)

\* Every row and every frame keeps to its columns (schema_current.sql).
TypeOK == db \in Database /\ job \in [Workers -> Frame]

LinksLive(d) ==
    \A l \in Lines :
        /\ d.line[l].quantity > 0 => d.order[OrderOf(l)].status \notin Gone
        /\ \A r \in Linked(d, l) : /\ d.line[l].quantity > 0
                                    /\ d.request[r].status = "live"

\* A line has an order, and a link a line and a request: what a deletion cascades to,
\* and what a dispatch may still write when its order or its request has gone.
NoDanglingLink == LinksLive(db)

Asked(d, l) == SumFunctionOnSet([r \in Requests |-> d.link[r][l]], Requests)

\* Two dispatches may order too much, never too little: a line asks for at least what
\* it allots (as long as nobody edits lines or links by hand).
LineCoversLinks == \A l \in Lines : db.line[l].quantity >= Asked(db, l)

\* The two derivations of the status disagree, but not on what may be modified: the
\* guard of PUT (Python) refuses exactly what the list (the view) shows as ordered.
EditableAgrees ==
    \A r \in Requests : db.request[r].status = "live" =>
        (DetailStatus(db, r) \in EditableStatuses) = (ListStatus(db, r) \in EditableStatuses)

------------------------------------------------------------------------------
(* What a step may never do, when calls do not overlap *)

Dispatches(w) ==
    job[w].at \in {"finding", "dispatching"} /\ job'[w] # job[w] /\ db' # db

\* The documented invariant of the dispatch: a request that has a line is ignored.
OnlyPendingDispatched ==
    [][\A w \in Workers : \A e \in job[w].todo \ job'[w].todo :
          Dispatches(w) => LinesOf(db, e.r) = {}]_vars

\* A dispatch adds to each line what it allots there, neither twice nor for nothing,
\* and only in open baskets: one that is sent, or further, is locked for it.
DispatchConserves ==
    [][(\E w \in Workers : Dispatches(w)) =>
          \A l \in Lines :
              /\ db'.line[l].quantity + Asked(db, l) = db.line[l].quantity + Asked(db', l)
              /\ db'.line[l] # db.line[l] => db'.order[OrderOf(l)].status = "OPEN"]_vars

\* The savepoint: a request the dispatch touches is consulted with every supplier it
\* turns to, in an order of that supplier, or with none.
AllOrNothing ==
    [][\A w \in Workers : \A e \in job[w].todo \ job'[w].todo :
          Dispatches(w) =>
              \A s \in TargetSet(e.a) : \E l \in LinesOf(db', e.r) :
                  ArticleOf(l) = e.a /\ db'.order[OrderOf(l)].supplier = s]_vars

\* Selecting a line for its requests deselects every other line they have; it is not
\* said of links that come with the selection or after it.
ExclusiveSelection ==
    [][\A l \in Lines :
          /\ ~ db.line[l].selected /\ db'.line[l].selected
          /\ db.line[l].quantity > 0 /\ db'.link = db.link
          => \A m \in Sisters(db', Linked(db', l)) \ {l} : ~ db'.line[m].selected]_vars

\* No request of a closed intervention is changed, deleted or added.
ClosedFreezesRequests ==
    [][\A r \in Requests :
          Frozen(db, r) \/ (Frozen(db', r) /\ db'.closed = db.closed)
          => db'.request[r] = db.request[r]]_vars
=============================================================================

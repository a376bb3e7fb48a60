---------------------------- MODULE PurchaseTables ----------------------------
(***************************************************************************)
(* Purchase requests (demandes d'achat), supplier orders and their lines,  *)
(* and the transactions on them as operators from database to database.    *)
(* An article stands for a part (part_id) or a legacy stock item: each     *)
(* kind has its own unique index per order, and a call uses one of them.   *)
(***************************************************************************)
EXTENDS Naturals, FiniteSets, Sequences, Functions

CONSTANTS
    Requests, Articles, Suppliers, Orders, Interventions,
    Rows,          \* Rows[a]: the supplier of each reference of a, preferred first
    Direct,        \* the articles whose first reference is preferred
    MaxQuantity,   \* bound on what a request asks, a link allots or a line receives
    MaxLine,       \* bound on the quantity of a line
    MaxRows,       \* bound on the rows of the tables
    Null

ASSUME CatalogueAssumption ==
    /\ IsFiniteSet(Requests) /\ IsFiniteSet(Orders) /\ IsFiniteSet(Articles)
    /\ Rows \in [Articles -> Seq(Suppliers)]
    /\ Direct \subseteq {a \in Articles : Rows[a] # <<>>}
    /\ MaxQuantity \in Nat \ {0} /\ MaxLine \in Nat
    /\ Null \notin Requests \cup Articles \cup Suppliers \cup Orders \cup Interventions
    /\ {"new", "lost"} \cap Orders = {}        \* what a dispatch caches instead

OrderStatuses == {"OPEN", "SENT", "ACK", "RECEIVED", "CLOSED", "CANCELLED"}
Final == {"CLOSED", "CANCELLED"}
Gone == {"none", "deleted"}        \* ids are used once

\* uq_sol_part, uq_sol_stock_item: an order has one line per article.
Lines == Orders \X Articles
OrderOf(l) == l[1]
ArticleOf(l) == l[2]

RequestRow == [status : Gone \cup {"live"},
               article : Articles \cup {Null},
               quantity : 0 .. MaxQuantity,
               intervention : Interventions \cup {Null}]   \* through its action
OrderRow == [status : Gone, supplier : {Null}] \cup
            [status : OrderStatuses, supplier : Suppliers]
LineRow == [quantity : 0 .. MaxLine,                       \* 0: there is no such line
            received : 0 .. MaxQuantity,
            selected : BOOLEAN, quoted : BOOLEAN]

\* link[r][l]: what line l allots to request r, 0 when they are not linked.
Database == [request : [Requests -> RequestRow],
             order : [Orders -> OrderRow],
             line : [Lines -> LineRow],
             link : [Requests -> [Lines -> 0 .. MaxQuantity]],
             closed : SUBSET Interventions]

NoRequest == [status |-> "none", article |-> Null, quantity |-> 0, intervention |-> Null]
NoOrder == [status |-> "none", supplier |-> Null]
NoLine == [quantity |-> 0, received |-> 0, selected |-> FALSE, quoted |-> FALSE]

EmptyDatabase ==
    [request |-> [r \in Requests |-> NoRequest], order |-> [o \in Orders |-> NoOrder],
     line |-> [l \in Lines |-> NoLine],
     link |-> [r \in Requests |-> [l \in Lines |-> 0]], closed |-> {}]

------------------------------------------------------------------------------
(* What is read *)

LiveLines(d) == {l \in Lines : d.line[l].quantity > 0}
LinesOf(d, r) == {l \in Lines : d.link[r][l] > 0}
Linked(d, l) == {r \in Requests : d.link[r][l] > 0}
Sisters(d, rs) == UNION {LinesOf(d, r) : r \in rs}
Frozen(d, r) == d.request[r].intervention \in d.closed

\* The suppliers a dispatch turns to: the preferred one, or every referenced one.
Targets(a) == IF a \in Direct THEN <<Head(Rows[a])>> ELSE Rows[a]
TargetSet(a) == {Targets(a)[k] : k \in DOMAIN Targets(a)}

Quotes(d, r) == {l \in LinesOf(d, r) : d.line[l].quoted}
Selected(d, r) == {l \in LinesOf(d, r) : d.line[l].selected}
Allocated(d, r) == SumFunctionOnSet(d.link[r], LinesOf(d, r))
Received(d, r) == SumFunctionOnSet([l \in Lines |-> d.line[l].received], LinesOf(d, r))
OrderStatus(d, l) == d.order[OrderOf(l)].status

\* The view's CASE from the article to the dispatch, also the last rules of Python.
Unordered(d, r) ==
    IF d.request[r].article = Null THEN "TO_QUALIFY"
    ELSE IF Rows[d.request[r].article] = <<>> THEN "NO_SUPPLIER_REF"
    ELSE IF LinesOf(d, r) = {} THEN "PENDING_DISPATCH" ELSE "ordered"

Progress(d, r) ==
    IF Received(d, r) > 0 THEN "PARTIAL"
    ELSE IF Selected(d, r) # {} THEN "ORDERED"
    ELSE IF Quotes(d, r) # {} THEN "QUOTED" ELSE "OPEN"

\* All received: both totals are read before the orders' statuses.
Complete(d, r) == Received(d, r) >= Allocated(d, r) /\ Allocated(d, r) > 0

\* What the orders' statuses say by themselves, "none" when nothing.
OrdersSay(d, r) ==
    IF \A l \in LinesOf(d, r) : OrderStatus(d, l) \in Final
    THEN IF Selected(d, r) = {} THEN "REJECTED" ELSE "RECEIVED"
    ELSE "none"

InConsultation(d, r) ==
    /\ \E l \in LinesOf(d, r) : OrderStatus(d, l) \in {"SENT", "ACK"}
    /\ Selected(d, r) = {} /\ Quotes(d, r) = {}

\* The view, behind the lists and the dispatch.
ListStatus(d, r) ==
    IF Unordered(d, r) # "ordered" THEN Unordered(d, r)
    ELSE IF OrdersSay(d, r) # "none" THEN OrdersSay(d, r)
    ELSE IF Complete(d, r) THEN "RECEIVED"
    ELSE IF InConsultation(d, r) THEN "CONSULTATION" ELSE Progress(d, r)

\* Python's derivation, behind the detail and the guard of PUT.  It compares the
\* order's status with codes after it was replaced by an object: the three rules
\* on orders, which come first there, never apply.
\* Fault: the code is compared, so that the rules on orders come before all others.
StatusStillCode == TRUE

StatusIsCode == FALSE

DetailStatus(d, r) ==
    IF StatusIsCode /\ LinesOf(d, r) # {} /\ OrdersSay(d, r) # "none" THEN OrdersSay(d, r)
    ELSE IF StatusIsCode /\ InConsultation(d, r) THEN "CONSULTATION"
    ELSE IF Unordered(d, r) # "ordered" THEN Unordered(d, r)
    ELSE IF Complete(d, r) THEN "RECEIVED" ELSE Progress(d, r)

EditableStatuses == {"TO_QUALIFY", "NO_SUPPLIER_REF", "PENDING_DISPATCH"}

\* Fault: a request that waits in an open order is taken again.
PendingOrOpen(d) ==
    {[r |-> r, a |-> d.request[r].article, q |-> d.request[r].quantity] :
        r \in {x \in Requests : /\ d.request[x].status = "live"
                                /\ ListStatus(d, x) \in {"PENDING_DISPATCH", "OPEN"}}}

\* The requests a dispatch takes on, with the article and quantity it read.
Pending(d) ==
    {[r |-> r, a |-> d.request[r].article, q |-> d.request[r].quantity] :
        r \in {x \in Requests : /\ d.request[x].status = "live"
                                /\ ListStatus(d, x) = "PENDING_DISPATCH"}}

AllowedTransitions(s) ==
    CASE s = "OPEN" -> {"SENT", "CANCELLED"}
      [] s = "SENT" -> {"ACK", "RECEIVED", "OPEN", "CANCELLED"}
      [] s = "ACK" -> {"RECEIVED", "CANCELLED"}
      [] s = "RECEIVED" -> {"CLOSED"}
      [] OTHER -> {}

TransitionValid(from, to) == from = to \/ to \in AllowedTransitions(from)

\* A line whose requests also have lines in another order, none of them selected.
Unresolved(d, l) ==
    /\ \E m \in Sisters(d, Linked(d, l)) : OrderOf(m) # OrderOf(l)
    /\ \A m \in Sisters(d, Linked(d, l)) : ~ d.line[m].selected

Receivable(d, o) ==
    /\ \E l \in LiveLines(d) : OrderOf(l) = o /\ d.line[l].selected
    /\ \A l \in LiveLines(d) : OrderOf(l) = o => ~ Unresolved(d, l)

------------------------------------------------------------------------------
(* Requests and orders *)

InsertRequest(d, r, a, q, i) ==
    [d EXCEPT !.request[r] = [status |-> "live", article |-> a, quantity |-> q,
                              intervention |-> i]]

\* No row is touched when the request has been deleted meanwhile.
UpdateRequest(d, r, a, q) ==
    IF d.request[r].status # "live" THEN d
    ELSE [d EXCEPT !.request[r].article = a, !.request[r].quantity = q]

\* The links go with the request, the quantities of the lines stay.
DeleteRequestTx(d, r) ==
    [d EXCEPT !.request[r] = [NoRequest EXCEPT !.status = "deleted"],
              !.link[r] = [l \in Lines |-> 0]]

InsertOrder(d, o, s, status) ==
    [d EXCEPT !.order[o] = [status |-> status, supplier |-> s]]

\* status is Null when the body has none.
UpdateOrder(d, o, status, s) ==
    IF d.order[o].status \in Gone THEN d
    ELSE [d EXCEPT !.order[o] = [status |-> IF status = Null THEN @.status ELSE status,
                                 supplier |-> s]]

DropLines(d, ls) ==
    [d EXCEPT !.line = [l \in Lines |-> IF l \in ls THEN NoLine ELSE @[l]],
              !.link = [r \in Requests |->
                          [l \in Lines |-> IF l \in ls THEN 0 ELSE @[r][l]]]]

DeleteOrderTx(d, o) ==
    [DropLines(d, {l \in Lines : OrderOf(l) = o})
        EXCEPT !.order[o] = [NoOrder EXCEPT !.status = "deleted"]]

------------------------------------------------------------------------------
(* Lines *)

Deselect(d, ls) ==
    [d EXCEPT !.line = [l \in Lines |->
                          IF l \in ls THEN [@[l] EXCEPT !.selected = FALSE] ELSE @[l]]]

\* allot: what the new links of line l give each request, 0 for no link.
Relink(d, l, allot) ==
    [d EXCEPT !.link = [r \in Requests |-> [@[r] EXCEPT ![l] = allot[r]]]]

\* The line, its links, then the sisters deselected if it was asked selected
\* with links.
AddLineTx(d, l, row, allot) ==
    LET given == {r \in Requests : allot[r] > 0}
        added == Relink([d EXCEPT !.line[l] = row], l, allot)
    IN  IF row.selected THEN Deselect(added, Sisters(added, given) \ {l}) ELSE added

\* Fault: the sisters keep their selection.
PatchLineAlone(d, l, row, select, allot) ==
    IF allot = Null THEN [d EXCEPT !.line[l] = row]
    ELSE Relink([d EXCEPT !.line[l] = row], l, allot)

\* The fields, then the sisters deselected if is_selected is given as true, and
\* only then the links replaced (allot is Null when none are given).
PatchLineTx(d, l, row, select, allot) ==
    LET written == [d EXCEPT !.line[l] = row]
        chosen == IF select THEN Deselect(written, Sisters(d, Linked(d, l)) \ {l})
                  ELSE written
    IN  IF allot = Null THEN chosen ELSE Relink(chosen, l, allot)

------------------------------------------------------------------------------
(* Dispatch *)

\* Fault: no foreign key from lines to orders.
PlacementsUnchecked(d, a, cache) ==
    {place \in [TargetSet(a) -> Orders] :
        \A s \in TargetSet(a) :
            IF cache[s] = "new"
            THEN /\ d.order[place[s]] = NoOrder
                 /\ \A t \in TargetSet(a) \ {s} : place[t] # place[s]
            ELSE place[s] = cache[s]}

\* Where a dispatch can place a request: at the order it holds for each supplier,
\* which must still exist, or at a new one.  cache[s] is an order, "new" when none
\* was open, "lost" when the new order was undone with an earlier request.
Placements(d, a, cache) ==
    {place \in [TargetSet(a) -> Orders] :
        \A s \in TargetSet(a) :
            IF cache[s] = "new"
            THEN /\ d.order[place[s]] = NoOrder
                 /\ \A t \in TargetSet(a) \ {s} : place[t] # place[s]
            ELSE place[s] = cache[s] /\ d.order[place[s]].status \notin Gone}

\* The references of a that place sends to order o: each adds to the line there.
RowsTo(a, place, o) == {k \in DOMAIN Targets(a) : place[Targets(a)[k]] = o}

\* Fault: on conflict the line takes the quantity instead of adding it.
PlaceReplacing(d, e, cache, place) ==
    LET opened == {s \in TargetSet(e.a) : cache[s] = "new"}
        rows(l) == IF ArticleOf(l) = e.a THEN RowsTo(e.a, place, OrderOf(l)) ELSE {}
    IN  [d EXCEPT
            !.order = [o \in Orders |->
                IF \E s \in opened : place[s] = o
                THEN [status |-> "OPEN",
                      supplier |-> CHOOSE s \in opened : place[s] = o]
                ELSE @[o]],
            !.line = [l \in Lines |->
                [d.line[l] EXCEPT !.quantity = IF rows(l) # {} THEN e.q ELSE @]],
            !.link[e.r] = [l \in Lines |-> IF rows(l) # {} THEN e.q ELSE @[l]]]

\* Fault: the link is written for the first supplier only.
PlaceLinkedOnce(d, e, cache, place) ==
    LET opened == {s \in TargetSet(e.a) : cache[s] = "new"}
        rows(l) == IF ArticleOf(l) = e.a THEN RowsTo(e.a, place, OrderOf(l)) ELSE {}
    IN  [d EXCEPT
            !.order = [o \in Orders |->
                IF \E s \in opened : place[s] = o
                THEN [status |-> "OPEN",
                      supplier |-> CHOOSE s \in opened : place[s] = o]
                ELSE @[o]],
            !.line = [l \in Lines |->
                [d.line[l] EXCEPT !.quantity = @ + e.q * Cardinality(rows(l))]],
            !.link[e.r] = [l \in Lines |-> IF 1 \in rows(l) THEN e.q ELSE @[l]]]

\* The article's line in each order grows by the quantity, once per reference of
\* the supplier; the link takes the quantity.
Place(d, e, cache, place) ==
    LET opened == {s \in TargetSet(e.a) : cache[s] = "new"}
        rows(l) == IF ArticleOf(l) = e.a THEN RowsTo(e.a, place, OrderOf(l)) ELSE {}
    IN  [d EXCEPT
            !.order = [o \in Orders |->
                IF \E s \in opened : place[s] = o
                THEN [status |-> "OPEN",
                      supplier |-> CHOOSE s \in opened : place[s] = o]
                ELSE @[o]],
            !.line = [l \in Lines |->
                [d.line[l] EXCEPT !.quantity = @ + e.q * Cardinality(rows(l))]],
            !.link[e.r] = [l \in Lines |-> IF rows(l) # {} THEN e.q ELSE @[l]]]

FitsLines(d) == \A l \in Lines : d.line[l].quantity <= MaxLine

\* The bound on rows: a quote, a reception and a closed intervention count as rows.
RowsIn(d) ==
    Cardinality({r \in Requests : d.request[r] # NoRequest})
      + Cardinality({o \in Orders : d.order[o] # NoOrder})
      + Cardinality(LiveLines(d)) + Cardinality(d.closed)
      + Cardinality({p \in Requests \X Lines : d.link[p[1]][p[2]] > 0})
      + Cardinality({l \in Lines : d.line[l].quoted})
      + Cardinality({l \in Lines : d.line[l].received > 0})
FitsRows(d) == RowsIn(d) <= MaxRows

\* A call of several transactions counts as four rows, which bounds what it adds and
\* explores such calls on smaller tables.
RoomForCall(d) == RowsIn(d) + 4 <= MaxRows
=============================================================================

----------------------------- MODULE PurchaseViews -----------------------------
(***************************************************************************)
(* What the purchasing screens are given: lists and counters of requests,  *)
(* orders with their lines, the preview of an import.  Each is computed by *)
(* queries of its own, and the user decides on what they show.  A query    *)
(* that fails and is swallowed, which shows no lines, is left out.         *)
(***************************************************************************)
EXTENDS Procurement, SequencesExt

Live(d) == {r \in Requests : d.request[r].status = "live"}
LiveOrders(d) == {o \in Orders : d.order[o].status \notin Gone}
LinesIn(d, o) == {l \in LiveLines(d) : OrderOf(l) = o}
Lesser(a, b) == IF a < b THEN a ELSE b

------------------------------------------------------------------------------
(* Purchase requests *)

\* One row of the list.
ListItem(d, r) ==
    [request |-> r, status |-> ListStatus(d, r),
     quotes |-> Cardinality(Quotes(d, r)), selected |-> Cardinality(Selected(d, r)),
     allocated |-> Allocated(d, r), received |-> Received(d, r),
     suppliers |-> Cardinality({d.order[OrderOf(l)].supplier : l \in LinesOf(d, r)})]

\* rows is every row, newest first: the page is cut, and only then filtered by status.
\* Of the rows a page shows, in order, it is enough to know the places.
GetList(rows, skip, limit, statuses) ==
    {k \in skip + 1 .. Lesser(skip + limit, Len(rows)) : rows[k].status \in statuses}

\* The lines of a request as its detail shows them.
LineDetails(d, r) ==
    {[line |-> l, allocated |-> d.link[r][l], received |-> d.line[l].received,
      selected |-> d.line[l].selected, quoted |-> d.line[l].quoted,
      supplier |-> d.order[OrderOf(l)].supplier] : l \in LinesOf(d, r)}

Detail(d, r) ==
    [lines |-> LineDetails(d, r), status |-> DetailStatus(d, r),
     is_editable |-> DetailStatus(d, r) \in EditableStatuses]

\* With view=full, the details.  view=list, and the list filtered by intervention,
\* are always an error: the condition is on a table their query does not join.
ByIntervention(d, i, view) ==
    IF view # "full" THEN "error"
    ELSE [r \in {r \in Live(d) : d.request[r].intervention = i} |-> Detail(d, r)]

\* The statuses that some request has, and how many have it.
Facets(d) ==
    [s \in {ListStatus(d, r) : r \in Live(d)} |->
        Cardinality({r \in Live(d) : ListStatus(d, r) = s})]

PendingCount(d) ==
    IF "PENDING_DISPATCH" \in DOMAIN Facets(d) THEN Facets(d)["PENDING_DISPATCH"] ELSE 0

\* at[r]: when r was created, in half days (2 * n is the midnight that begins day n).
\* The totals compare it with midnights, the counts by status with days.
StatsTotal(d, at, first, last) ==
    Cardinality({r \in Live(d) : 2 * first <= at[r] /\ at[r] <= 2 * last})
StatsByStatus(d, at, first, last) ==
    LET within == {r \in Live(d) : (at[r] \div 2) \in first .. last}
    IN [s \in {ListStatus(d, r) : r \in within} |->
           Cardinality({r \in within : ListStatus(d, r) = s})]

------------------------------------------------------------------------------
(* Import *)

\* A row of the file: the part its reference is matched with (unknown references, whose
\* requests are told apart by their label, are left out), Null for a blank one, and the
\* quantity, 0 for one that is no positive number.
FileRow == [part : Articles \cup {Null}, quantity : 0 .. MaxQuantity]

\* What the checks of a row look at: the requests there are, in any order.
Book(d) ==
    [k \in 1 .. Cardinality(Live(d)) |->
        LET r == SetToSeq(Live(d))[k]
        IN [part |-> d.request[r].article, quantity |-> d.request[r].quantity,
            intervention |-> d.request[r].intervention, lined |-> LinesOf(d, r) # {}]]

\* _count_existing_to_qualify: requests of the part without a line.
WithoutLine(book, part) ==
    Cardinality({k \in DOMAIN book : book[k].part = part /\ ~ book[k].lined})

\* _check_duplicate_on_intervention: what is already asked for on it, 0 for None.
AskedOn(book, part, i) ==
    LET same == {k \in DOMAIN book : book[k].part = part /\ book[k].intervention = i}
    IN SumFunctionOnSet([k \in same |-> book[k].quantity], same)

\* One row: its line of the report, and the request it creates, which no action of
\* the intervention asks for.
ImportRow(done, row, i, outcome) ==
    IF row.part = Null \/ row.quantity = 0
    THEN [done EXCEPT !.report = Append(@, [status |-> "error"])]
    ELSE [book |-> IF outcome # "created" THEN done.book
                   ELSE Append(done.book, [part |-> row.part, quantity |-> row.quantity,
                                           intervention |-> Null, lined |-> FALSE]),
          report |-> Append(done.report,
              [status |-> outcome, existing |-> WithoutLine(done.book, row.part),
               duplicate |-> AskedOn(done.book, row.part, i)])]

\* The report of a file; the rows the user excluded count only when not in preview.
Import(book, file, i, dry_run, excluded) ==
    LET outcome(k) == IF dry_run THEN "preview"
                      ELSE IF k \in excluded THEN "skipped" ELSE "created"
        done[k \in 0 .. Len(file)] ==
            IF k = 0 THEN [book |-> book, report |-> <<>>]
            ELSE ImportRow(done[k - 1], file[k], i, outcome(k))
    IN done[Len(file)].report

------------------------------------------------------------------------------
(* Orders and lines *)

IsConsultation(d, l) ==
    \E m \in Sisters(d, Linked(d, l)) : OrderOf(m) # OrderOf(l)
HasSelectedSister(d, l) ==
    \E m \in Sisters(d, Linked(d, l)) : d.line[m].selected

\* The requests a line serves, with what it allots them.
PurchaseRequestsOf(d, l) == {<<r, d.link[r][l]>> : r \in Linked(d, l)}

\* GET /supplier-order-lines, by id or by order.
LineView(d, l) ==
    [line |-> l, selected |-> d.line[l].selected,
     purchase_requests |-> PurchaseRequestsOf(d, l),
     is_fully_received |-> d.line[l].received >= d.line[l].quantity,
     consultation_resolved |-> IsConsultation(d, l) => HasSelectedSister(d, l)]

\* The reference printed for an article: the supplier's own; for a part without one,
\* its preferred one, whoever's it is.
PrintedRefs(d, l) ==
    LET a == ArticleOf(l)
        own == d.order[OrderOf(l)].supplier
    IN IF own \in {Rows[a][k] : k \in DOMAIN Rows[a]} THEN {own}
       ELSE IF a \in Direct THEN {Head(Rows[a]), Null} ELSE {Null}

\* The lines of an order in its page and in its exports.
OrderLineView(d, l) ==
    [line |-> l, quantity |-> d.line[l].quantity, refs |-> PrintedRefs(d, l),
     purchase_request_count |-> Cardinality(Linked(d, l))]
ExportLine(d, l) ==
    [line |-> l, quantity |-> d.line[l].quantity, refs |-> PrintedRefs(d, l),
     purchase_requests |-> PurchaseRequestsOf(d, l)]
Export(d, o) == {ExportLine(d, l) : l \in LinesIn(d, o)}

\* What the page of an order lets its user do; the age it shows is left out.
Actions(status) ==
    {"add_lines" : x \in {status} \cap {"OPEN"}}
      \cup {"edit_lines" : x \in {status} \cap {"SENT", "ACK"}}
      \cup {"receive_lines" : x \in {status} \cap {"RECEIVED"}}

OrderView(d, o) ==
    LET lines == {OrderLineView(d, l) : l \in LinesIn(d, o)}
    IN [lines |-> lines, line_count |-> Cardinality(lines),
        actions |-> Actions(d.order[o].status),
        transitions |-> AllowedTransitions(d.order[o].status)]

\* The list: the total and the rows take both filters, the facets the supplier's only.
OrderList(d, statuses, suppliers) ==
    LET of == {o \in LiveOrders(d) : d.order[o].supplier \in suppliers}
        rows == {o \in of : d.order[o].status \in statuses}
    IN [total |-> Cardinality(rows),
        facets |-> [s \in {d.order[o].status : o \in of} |->
                       Cardinality({o \in of : d.order[o].status = s})],
        items |-> {[order |-> o, line_count |-> Cardinality(LinesIn(d, o)),
                    actions |-> Actions(d.order[o].status)] : o \in rows}]

------------------------------------------------------------------------------
(* Properties *)

Total(f) == SumFunctionOnSet(f, DOMAIN f)

\* The counters count each request once, the one for the dispatch what it would take;
\* the statistics by status have besides their total what was asked for on the last day
\* after midnight.
CountsAgree(d) ==
    /\ Total(Facets(d)) = Cardinality(Live(d))
    /\ PendingCount(d) = Cardinality(Pending(d))
    /\ \A at \in [Live(d) -> 2 .. 4] :
           Total(StatsByStatus(d, at, 0, 1)) =
               StatsTotal(d, at, 0, 1) + Cardinality({r \in Live(d) : at[r] = 3})

\* However the list is cut into pages, the pages filtered by a status put together are
\* the list filtered by it; a row of it counts what the detail's lines say.
PagesAgree(d) ==
    \A rows \in SetToSeqs({ListItem(d, r) : r \in Live(d)}) :
        LET n == Len(rows)
        IN /\ \A s \in {rows[k].status : k \in 1 .. n}, limit \in 1 .. n :
                  LET page(p) == GetList(rows, (p - 1) * limit, limit, {s})
                  IN /\ GetList(rows, 0, n, {s}) = UNION {page(p) : p \in 1 .. n}
                     /\ \A p, q \in 1 .. n : p < q => \A j \in page(p), k \in page(q) : j < k
           /\ \A k \in 1 .. n :
                  LET item == rows[k]
                      lines == Detail(d, item.request).lines
                  IN /\ item.selected = Cardinality({l \in lines : l.selected})
                     /\ item.suppliers = Cardinality({l.supplier : l \in lines})
                     /\ item.received > 0 <=> \E l \in lines : l.received > 0

\* The list of orders, its facets and each page agree, and each export has the selected
\* lines as the page has them (it has the others as well, see the README); an order has
\* transitions left as long as its page lets its lines be worked on.
OrdersAgree(d) ==
    LET all == OrderList(d, OrderStatuses, Suppliers)
    IN /\ all.total = Cardinality(LiveOrders(d)) /\ Total(all.facets) = all.total
       /\ \A s \in DOMAIN all.facets : OrderList(d, {s}, Suppliers).total = all.facets[s]
       /\ \A item \in all.items :
              LET page == OrderView(d, item.order)
              IN /\ item.line_count = page.line_count /\ item.actions = page.actions
                 /\ page.transitions # {} <=> page.actions # {}
                 /\ {p \in page.lines : d.line[p.line].selected} \subseteq
                        {[line |-> e.line, quantity |-> e.quantity, refs |-> e.refs,
                          purchase_request_count |-> Cardinality(e.purchase_requests)] :
                             e \in Export(d, item.order)}

\* An order may be declared received exactly when its lines show one selected and every
\* consultation resolved.
ReceptionShown(d) ==
    \A o \in LiveOrders(d) :
        LET lines == {LineView(d, l) : l \in LinesIn(d, o)}
        IN Receivable(d, o) <=> /\ \E l \in lines : l.selected
                                /\ \A l \in lines : l.consultation_resolved

\* A request all of whose lines show as fully received, none of them allotting more
\* than it asks for, is shown as received, unless every order it was in is over
\* without one of its lines selected.
DeliveriesAgree(d) ==
    \A r \in Live(d) :
        /\ Unordered(d, r) = "ordered"
        /\ \A l \in LinesOf(d, r) : /\ LineView(d, l).is_fully_received
                                    /\ Asked(d, l) <= d.line[l].quantity
        => ListStatus(d, r) \in {"RECEIVED", "REJECTED"}

\* The preview of an import finds the same errors and duplicates as the import, which
\* only counts besides, for each row, the requests its earlier rows made.
ImportForeseen(d) ==
    \A book \in {Book(d)}, file \in [1 .. 2 -> FileRow], i \in Interventions :
        \A seen \in {Import(book, file, i, TRUE, {})}, excluded \in SUBSET {1} :
            \A done \in {Import(book, file, i, FALSE, excluded)} :
               \A k \in DOMAIN file :
                  IF seen[k].status = "error" THEN done[k] = seen[k]
                  ELSE /\ done[k].status = IF k \in excluded THEN "skipped" ELSE "created"
                       /\ done[k].duplicate = seen[k].duplicate
                       /\ done[k].existing = seen[k].existing + Cardinality(
                             {j \in 1 .. k - 1 : /\ done[j].status = "created"
                                                 /\ file[j].part = file[k].part})

\* What one screen shows of the purchases, the others show, and the server does: the
\* statuses that may be modified (Python for the detail and PUT, the view for the list),
\* the counters, pages, orders, receptions, deliveries and the preview of an import.
ViewsAgree ==
    (\A w \in Workers : job[w] = Idle) =>
    /\ EditableAgrees
    /\ CountsAgree(db) /\ PagesAgree(db) /\ OrdersAgree(db)
    /\ ReceptionShown(db) /\ DeliveriesAgree(db) /\ ImportForeseen(db)
===============================================================================

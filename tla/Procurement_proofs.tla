-------------------------- MODULE Procurement_proofs ---------------------------
(***************************************************************************)
(* Invariance proofs for Procurement: any number of workers, any catalogue *)
(* (with several references of one supplier), any subset of the endpoints. *)
(***************************************************************************)
EXTENDS PurchaseViews, FiniteSetTheorems, WellFoundedInduction, TLAPS

\* What a dispatch relies on: a live request asks for something.
Asks(d) == \A r \in Requests : d.request[r].status = "live" => d.request[r].quantity > 0

Consistent(d) == d \in Database /\ LinksLive(d) /\ Asks(d)

\* A frame holds what the next step of its stage will use.
FrameFits(f) ==
    /\ f \in Frame
    /\ f.at \in {"creating", "updating"} => f.r \in Requests /\ f.q > 0
    /\ f.at = "deleting" => f.r \in Requests
    /\ f.at \in {"receiving", "ordering"} => f.o \in Orders /\ f.supplier \in Suppliers

Fit == job \in [Workers -> Frame] /\ \A w \in Workers : FrameFits(job[w])

\* The inductive invariant: what frames hold is typed, but may be stale.
IInv == Consistent(db) /\ Fit

------------------------------------------------------------------------------
(* The catalogue *)

LEMMA LineFacts ==
    ASSUME NEW l \in Lines
    PROVE  OrderOf(l) \in Orders /\ ArticleOf(l) \in Articles
BY DEF Lines, OrderOf, ArticleOf

LEMMA TargetsFacts ==
    ASSUME NEW a \in Articles
    PROVE  /\ Targets(a) \in Seq(Suppliers)
           /\ DOMAIN Targets(a) = 1 .. Len(Targets(a))
           /\ Len(Targets(a)) \in Nat
           /\ TargetSet(a) \subseteq Suppliers
<1>1. Rows[a] \in Seq(Suppliers) /\ (a \in Direct => Rows[a] # <<>>)
  BY CatalogueAssumption
<1>2. Targets(a) \in Seq(Suppliers)
  BY <1>1 DEF Targets
<1> QED BY <1>2 DEF TargetSet

LEMMA RowsToFinite ==
    ASSUME NEW a \in Articles, NEW place, NEW o
    PROVE  /\ Cardinality(RowsTo(a, place, o)) \in Nat
           /\ RowsTo(a, place, o) = {} => Cardinality(RowsTo(a, place, o)) = 0
           /\ RowsTo(a, place, o) # {} => Cardinality(RowsTo(a, place, o)) > 0
<1>1. IsFiniteSet(1 .. Len(Targets(a)))
  BY TargetsFacts, FS_Interval
<1>2. IsFiniteSet(RowsTo(a, place, o))
  BY <1>1, TargetsFacts, FS_Subset DEF RowsTo
<1> QED BY <1>2, FS_CardinalityType, FS_EmptySet

LEMMA PendingEntries ==
    ASSUME NEW d, Consistent(d)
    PROVE  Pending(d) \in SUBSET Entry
<1>1. ASSUME NEW x \in Requests, d.request[x].status = "live",
             ListStatus(d, x) = "PENDING_DISPATCH"
      PROVE  d.request[x].article \in Articles /\ d.request[x].quantity \in 1 .. MaxQuantity
  <2>1. d.request[x] \in RequestRow /\ d.request[x].quantity > 0
    BY <1>1 DEF Consistent, Database, Asks
  <2>2. Unordered(d, x) = "PENDING_DISPATCH"
    BY <1>1 DEF ListStatus, OrdersSay, Progress
  <2>3. d.request[x].article # Null
    BY <2>2 DEF Unordered
  <2> QED BY <2>1, <2>3, CatalogueAssumption DEF RequestRow
<1> QED BY <1>1 DEF Pending, Entry

------------------------------------------------------------------------------
(* The transactions *)

LEMMA RequestKept ==
    ASSUME NEW d, Consistent(d), NEW r \in Requests, NEW row \in RequestRow,
           row.status = "live", row.quantity > 0
    PROVE  Consistent([d EXCEPT !.request[r] = row])
<1> DEFINE e == [d EXCEPT !.request[r] = row]
<1>1. /\ e \in Database
      /\ e.order = d.order /\ e.line = d.line /\ e.link = d.link
      /\ \A x \in Requests : e.request[x] = IF x = r THEN row ELSE d.request[x]
  BY DEF Consistent, Database
<1> HIDE DEF e
<1>2. Consistent(e)
  BY <1>1 DEF Consistent, LinksLive, Linked, Asks
<1> QED BY <1>2 DEF e

LEMMA UpdateRequestKept ==
    ASSUME NEW d, Consistent(d), NEW r \in Requests, NEW a \in Articles \cup {Null},
           NEW q \in 1 .. MaxQuantity
    PROVE  Consistent(UpdateRequest(d, r, a, q))
<1> DEFINE row == [d.request[r] EXCEPT !.article = a, !.quantity = q]
<1>1. CASE d.request[r].status # "live"
  BY <1>1 DEF UpdateRequest
<1>2. CASE d.request[r].status = "live"
  <2>1. d.request[r] \in RequestRow /\ q \in 0 .. MaxQuantity /\ q > 0
    BY CatalogueAssumption DEF Consistent, Database
  <2>2. row \in RequestRow /\ row.status = "live" /\ row.quantity > 0
    BY <1>2, <2>1 DEF RequestRow
  <2>3. UpdateRequest(d, r, a, q) = [d EXCEPT !.request[r] = row]
    BY <1>2 DEF UpdateRequest, Consistent, Database
  <2> HIDE DEF row
  <2> QED BY <2>2, <2>3, RequestKept
<1> QED BY <1>1, <1>2

LEMMA DeleteRequestKept ==
    ASSUME NEW d, Consistent(d), NEW r \in Requests
    PROVE  Consistent(DeleteRequestTx(d, r))
<1> DEFINE e == DeleteRequestTx(d, r)
           row == [NoRequest EXCEPT !.status = "deleted"]
           links == [l \in Lines |-> 0]
<1>1. row \in RequestRow /\ row.status = "deleted"
  BY CatalogueAssumption DEF NoRequest, RequestRow, Gone
<1>2. links \in [Lines -> 0 .. MaxQuantity]
  BY CatalogueAssumption
<1>3. e = [d EXCEPT !.request[r] = row, !.link[r] = links]
  BY DEF DeleteRequestTx
<1> HIDE DEF row, links, e
<1>4. /\ e \in Database
      /\ e.order = d.order /\ e.line = d.line
      /\ \A x \in Requests : /\ e.request[x] = IF x = r THEN row ELSE d.request[x]
                            /\ e.link[x] = IF x = r THEN links ELSE d.link[x]
  BY <1>1, <1>2, <1>3 DEF Consistent, Database
<1>5. \A l \in Lines : ~ (links[l] > 0)
  BY DEF links
<1>6. Consistent(e)
  BY <1>1, <1>4, <1>5 DEF Consistent, LinksLive, Linked, Asks
<1> QED BY <1>6 DEF e

LEMMA OrderKept ==
    ASSUME NEW d, Consistent(d), NEW o \in Orders, NEW row \in OrderRow,
           row.status \notin Gone
    PROVE  Consistent([d EXCEPT !.order[o] = row])
<1> DEFINE e == [d EXCEPT !.order[o] = row]
<1>1. /\ e \in Database
      /\ e.request = d.request /\ e.line = d.line /\ e.link = d.link
      /\ \A x \in Orders : e.order[x] = IF x = o THEN row ELSE d.order[x]
  BY DEF Consistent, Database
<1> HIDE DEF e
<1>2. Consistent(e)
  BY <1>1, LineFacts DEF Consistent, LinksLive, Linked, Asks
<1> QED BY <1>2 DEF e

LEMMA InsertOrderKept ==
    ASSUME NEW d, Consistent(d), NEW o \in Orders, NEW s \in Suppliers,
           NEW status \in OrderStatuses
    PROVE  Consistent(InsertOrder(d, o, s, status))
<1> DEFINE row == [status |-> status, supplier |-> s]
<1>1. row \in OrderRow /\ row.status \notin Gone
  BY DEF OrderRow, OrderStatuses, Gone
<1>2. InsertOrder(d, o, s, status) = [d EXCEPT !.order[o] = row]
  BY DEF InsertOrder
<1> HIDE DEF row
<1> QED BY <1>1, <1>2, OrderKept

LEMMA UpdateOrderKept ==
    ASSUME NEW d, Consistent(d), NEW o \in Orders,
           NEW status \in OrderStatuses \cup {Null},
           NEW s, d.order[o].status \notin Gone => s \in Suppliers
    PROVE  Consistent(UpdateOrder(d, o, status, s))
<1> DEFINE row == [status |-> IF status = Null THEN d.order[o].status ELSE status,
                   supplier |-> s]
<1>1. CASE d.order[o].status \in Gone
  BY <1>1 DEF UpdateOrder
<1>2. CASE d.order[o].status \notin Gone
  <2>1. d.order[o].status \in OrderStatuses
    BY <1>2 DEF Consistent, Database, OrderRow
  <2>2. row \in OrderRow /\ row.status \notin Gone
    BY <1>2, <2>1 DEF OrderRow, OrderStatuses, Gone
  <2>3. UpdateOrder(d, o, status, s) = [d EXCEPT !.order[o] = row]
    BY <1>2 DEF UpdateOrder, Consistent, Database
  <2> HIDE DEF row
  <2> QED BY <2>2, <2>3, OrderKept
<1> QED BY <1>1, <1>2

LEMMA NoLineType == NoLine \in LineRow /\ NoLine.quantity = 0
BY CatalogueAssumption DEF NoLine, LineRow

LEMMA DropLinesEffect ==
    ASSUME NEW d, Consistent(d), NEW ls
    PROVE  LET e == DropLines(d, ls) IN
           /\ Consistent(e)
           /\ e.order = d.order
           /\ \A l \in Lines : /\ e.line[l] = IF l \in ls THEN NoLine ELSE d.line[l]
                              /\ \A r \in Requests :
                                     e.link[r][l] = IF l \in ls THEN 0 ELSE d.link[r][l]
<1> DEFINE e == DropLines(d, ls)
           line == [l \in Lines |-> IF l \in ls THEN NoLine ELSE d.line[l]]
           link == [r \in Requests |-> [l \in Lines |-> IF l \in ls THEN 0 ELSE d.link[r][l]]]
<1>1. line \in [Lines -> LineRow]
  BY NoLineType DEF Consistent, Database
<1>2. link \in [Requests -> [Lines -> 0 .. MaxQuantity]]
  BY CatalogueAssumption DEF Consistent, Database
<1>3. e = [d EXCEPT !.line = line, !.link = link]
  BY DEF DropLines, Consistent, Database
<1>4. \A l \in Lines : /\ line[l] = IF l \in ls THEN NoLine ELSE d.line[l]
                       /\ \A r \in Requests :
                              link[r][l] = IF l \in ls THEN 0 ELSE d.link[r][l]
  OBVIOUS
<1> HIDE DEF e, line, link
<1>5. /\ e \in Database
      /\ e.request = d.request /\ e.order = d.order
      /\ e.line = line /\ e.link = link
  BY <1>1, <1>2, <1>3 DEF Consistent, Database
<1>6. LinksLive(e)
  BY <1>4, <1>5, NoLineType DEF Consistent, LinksLive, Linked
<1>7. Consistent(e)
  BY <1>5, <1>6 DEF Consistent, Asks
<1> QED BY <1>4, <1>5, <1>7 DEF e

LEMMA DeleteOrderKept ==
    ASSUME NEW d, Consistent(d), NEW o \in Orders
    PROVE  Consistent(DeleteOrderTx(d, o))
<1> DEFINE c == DropLines(d, {l \in Lines : OrderOf(l) = o})
           row == [NoOrder EXCEPT !.status = "deleted"]
           e == [c EXCEPT !.order[o] = row]
<1>1. row \in OrderRow
  BY DEF NoOrder, OrderRow, Gone
<1>2. /\ Consistent(c)
      /\ \A l \in Lines : OrderOf(l) = o => c.line[l] = NoLine
  BY DropLinesEffect
<1>3. e = DeleteOrderTx(d, o)
  BY DEF DeleteOrderTx
<1> HIDE DEF c, row
<1>4. /\ e \in Database
      /\ e.request = c.request /\ e.line = c.line /\ e.link = c.link
      /\ \A x \in Orders : x # o => e.order[x] = c.order[x]
  BY <1>1, <1>2 DEF Consistent, Database
<1> HIDE DEF e
<1>5. LinksLive(e)
  BY <1>2, <1>4, NoLineType, LineFacts DEF Consistent, LinksLive, Linked
<1>6. Consistent(e)
  BY <1>2, <1>4, <1>5 DEF Consistent, Asks
<1> QED BY <1>3, <1>6

LEMMA DeselectKept ==
    ASSUME NEW d, Consistent(d), NEW ls
    PROVE  /\ Consistent(Deselect(d, ls))
           /\ Deselect(d, ls).request = d.request
           /\ \A l \in Lines : Deselect(d, ls).line[l].quantity = d.line[l].quantity
<1> DEFINE e == Deselect(d, ls)
           line == [l \in Lines |-> IF l \in ls THEN [d.line[l] EXCEPT !.selected = FALSE]
                                    ELSE d.line[l]]
<1>1. ASSUME NEW l \in Lines
      PROVE  line[l] \in LineRow /\ line[l].quantity = d.line[l].quantity
  <2>1. d.line[l] \in LineRow
    BY DEF Consistent, Database
  <2> QED BY <2>1 DEF LineRow
<1>2. line \in [Lines -> LineRow]
  BY <1>1
<1>3. e = [d EXCEPT !.line = line]
  BY DEF Deselect, Consistent, Database
<1> HIDE DEF e, line
<1>4. /\ e \in Database
      /\ e.request = d.request /\ e.order = d.order /\ e.link = d.link
      /\ e.line = line
  BY <1>2, <1>3 DEF Consistent, Database
<1>5. LinksLive(e)
  BY <1>1, <1>4 DEF Consistent, LinksLive, Linked
<1>6. Consistent(e)
  BY <1>4, <1>5 DEF Consistent, Asks
<1> QED BY <1>1, <1>4, <1>6 DEF e

LEMMA LineKept ==
    ASSUME NEW d, Consistent(d), NEW l \in Lines, NEW row \in LineRow, row.quantity > 0,
           d.order[OrderOf(l)].status \notin Gone
    PROVE  LET e == [d EXCEPT !.line[l] = row] IN
           Consistent(e) /\ e.request = d.request /\ e.line[l] = row
<1> DEFINE e == [d EXCEPT !.line[l] = row]
<1>1. /\ e \in Database
      /\ e.request = d.request /\ e.order = d.order /\ e.link = d.link
      /\ \A x \in Lines : e.line[x] = IF x = l THEN row ELSE d.line[x]
  BY DEF Consistent, Database
<1> HIDE DEF e
<1>2. Consistent(e)
  BY <1>1 DEF Consistent, LinksLive, Linked, Asks
<1> QED BY <1>1, <1>2 DEF e

LEMMA RelinkKept ==
    ASSUME NEW d, Consistent(d), NEW l \in Lines, d.line[l].quantity > 0,
           NEW allot \in Allotments,
           \A r \in Requests : allot[r] > 0 => d.request[r].status = "live"
    PROVE  Consistent(Relink(d, l, allot))
<1> DEFINE e == Relink(d, l, allot)
           link == [r \in Requests |-> [d.link[r] EXCEPT ![l] = allot[r]]]
<1>1. /\ link \in [Requests -> [Lines -> 0 .. MaxQuantity]]
      /\ \A r \in Requests, x \in Lines :
             link[r][x] = IF x = l THEN allot[r] ELSE d.link[r][x]
  BY DEF Consistent, Database, Allotments
<1>2. e = [d EXCEPT !.link = link]
  BY DEF Relink, Consistent, Database
<1> HIDE DEF e, link
<1>3. /\ e \in Database
      /\ e.request = d.request /\ e.order = d.order /\ e.line = d.line
      /\ e.link = link
  BY <1>1, <1>2 DEF Consistent, Database
<1>4. LinksLive(e)
  BY <1>1, <1>3 DEF Consistent, LinksLive, Linked
<1>5. Consistent(e)
  BY <1>3, <1>4 DEF Consistent, Asks
<1> QED BY <1>5 DEF e

LEMMA AddLineKept ==
    ASSUME NEW d, Consistent(d), NEW l \in Lines, NEW row \in LineRow, row.quantity > 0,
           d.order[OrderOf(l)].status \notin Gone, NEW allot \in Allotments,
           \A r \in Requests : allot[r] > 0 => d.request[r].status = "live"
    PROVE  Consistent(AddLineTx(d, l, row, allot))
<1> DEFINE c == [d EXCEPT !.line[l] = row]
<1>1. Consistent(c) /\ c.request = d.request /\ c.line[l] = row
  BY LineKept
<1> HIDE DEF c
<1>2. Consistent(Relink(c, l, allot))
  BY <1>1, RelinkKept
<1>3. AddLineTx(d, l, row, allot) =
        LET added == Relink(c, l, allot)
            given == {r \in Requests : allot[r] > 0}
        IN  IF row.selected THEN Deselect(added, Sisters(added, given) \ {l}) ELSE added
  BY DEF AddLineTx, c
<1> QED BY <1>2, <1>3, DeselectKept

LEMMA PatchLineKept ==
    ASSUME NEW d, Consistent(d), NEW l \in Lines, d.line[l].quantity > 0,
           NEW row \in LineRow, row.quantity > 0, NEW select,
           NEW allot \in Allotments \cup {Null},
           allot # Null =>
               \A r \in Requests : allot[r] > 0 => d.request[r].status = "live"
    PROVE  Consistent(PatchLineTx(d, l, row, select, allot))
<1> DEFINE c == [d EXCEPT !.line[l] = row]
           chosen == IF select THEN Deselect(c, Sisters(d, Linked(d, l)) \ {l}) ELSE c
<1>1. d.order[OrderOf(l)].status \notin Gone
  BY DEF Consistent, LinksLive
<1>2. Consistent(c) /\ c.request = d.request /\ c.line[l] = row
  BY <1>1, LineKept
<1>3. PatchLineTx(d, l, row, select, allot) =
        IF allot = Null THEN chosen ELSE Relink(chosen, l, allot)
  BY DEF PatchLineTx
<1> HIDE DEF c
<1>4. /\ Consistent(chosen) /\ chosen.request = d.request
      /\ chosen.line[l].quantity > 0
  BY <1>2, DeselectKept
<1> HIDE DEF chosen
<1>5. CASE allot = Null
  BY <1>3, <1>4, <1>5
<1>6. CASE allot # Null
  BY <1>3, <1>4, <1>6, RelinkKept
<1> QED BY <1>5, <1>6

LEMMA LinkKept ==
    ASSUME NEW d, Consistent(d), NEW l \in Lines, NEW r \in Requests,
           NEW q \in 0 .. MaxQuantity,
           q > 0 => d.line[l].quantity > 0 /\ d.request[r].status = "live"
    PROVE  Consistent([d EXCEPT !.link[r][l] = q])
<1> DEFINE e == [d EXCEPT !.link[r][l] = q]
<1>1. /\ e \in Database
      /\ e.request = d.request /\ e.order = d.order /\ e.line = d.line
      /\ \A x \in Requests, k \in Lines :
             e.link[x][k] = IF x = r /\ k = l THEN q ELSE d.link[x][k]
  BY DEF Consistent, Database
<1> HIDE DEF e
<1>2. Consistent(e)
  BY <1>1 DEF Consistent, LinksLive, Linked, Asks
<1> QED BY <1>2 DEF e

\* A line either gains something, in an order that exists, or stays as it was.
LEMMA PlaceKept ==
    ASSUME NEW d, Consistent(d), NEW e \in Entry, d.request[e.r].status = "live",
           NEW cache \in [Suppliers -> Cached],
           NEW place \in Placements(d, e.a, cache),
           FitsLines(Place(d, e, cache, place))
    PROVE  Consistent(Place(d, e, cache, place))
<1> DEFINE c == Place(d, e, cache, place)
           opened == {s \in TargetSet(e.a) : cache[s] = "new"}
           rows(l) == IF ArticleOf(l) = e.a THEN RowsTo(e.a, place, OrderOf(l)) ELSE {}
           newOrder(o) == [status |-> "OPEN",
                           supplier |-> CHOOSE s \in opened : place[s] = o]
           order == [o \in Orders |-> IF \E s \in opened : place[s] = o
                                     THEN newOrder(o) ELSE d.order[o]]
           added(l) == e.q * Cardinality(rows(l))
           line == [l \in Lines |-> [d.line[l] EXCEPT !.quantity = @ + added(l)]]
           links == [l \in Lines |-> IF rows(l) # {} THEN e.q ELSE d.link[e.r][l]]
<1>1. /\ e.r \in Requests /\ e.a \in Articles /\ e.q \in 1 .. MaxQuantity
      /\ MaxQuantity \in Nat /\ MaxLine \in Nat
      /\ e.q \in Nat /\ e.q > 0 /\ e.q \in 0 .. MaxQuantity
  BY CatalogueAssumption DEF Entry
<1>2. TargetSet(e.a) \subseteq Suppliers /\ place \in [TargetSet(e.a) -> Orders]
  BY <1>1, TargetsFacts DEF Placements
<1>3. ASSUME NEW o \in Orders
      PROVE  /\ order[o] \in OrderRow
             /\ d.order[o].status \notin Gone => order[o].status \notin Gone
             /\ (\E s \in TargetSet(e.a) : place[s] = o) => order[o].status \notin Gone
  <2>1. CASE \E s \in opened : place[s] = o
    <3>1. (CHOOSE s \in opened : place[s] = o) \in Suppliers
      BY <1>2, <2>1
    <3>2. order[o] = newOrder(o)
      BY <2>1
    <3>3. newOrder(o) \in OrderRow /\ newOrder(o).status = "OPEN"
      BY <3>1 DEF OrderRow, OrderStatuses
    <3> QED BY <3>2, <3>3 DEF Gone
  <2>2. CASE ~ \E s \in opened : place[s] = o
    <3>1. order[o] = d.order[o]
      BY <2>2
    <3>2. \A s \in TargetSet(e.a) : place[s] = o => d.order[o].status \notin Gone
      BY <2>2 DEF Placements
    <3> QED BY <3>1, <3>2 DEF Consistent, Database
  <2> QED BY <2>1, <2>2
<1>4. ASSUME NEW l \in Lines
      PROVE  /\ added(l) \in Nat
             /\ rows(l) # {} => added(l) > 0
  <2>1. /\ Cardinality(rows(l)) \in Nat
        /\ rows(l) # {} => Cardinality(rows(l)) > 0
    BY <1>1, RowsToFinite, FS_EmptySet
  <2> HIDE DEF rows
  <2>2. \A q, k \in Nat : q * k \in Nat /\ (q > 0 /\ k > 0 => q * k > 0)
    OBVIOUS
  <2> QED BY <1>1, <2>1, <2>2
<1>5. ASSUME NEW l \in Lines
      PROVE  rows(l) # {} => order[OrderOf(l)].status \notin Gone
  <2>1. ASSUME NEW k \in RowsTo(e.a, place, OrderOf(l))
        PROVE  \E s \in TargetSet(e.a) : place[s] = OrderOf(l)
    BY DEF RowsTo, TargetSet
  <2>2. rows(l) # {} => \E k : k \in RowsTo(e.a, place, OrderOf(l))
    OBVIOUS
  <2>3. OrderOf(l) \in Orders
    BY LineFacts
  <2>4. (\E s \in TargetSet(e.a) : place[s] = OrderOf(l))
            => order[OrderOf(l)].status \notin Gone
    BY <1>3, <2>3
  <2> HIDE DEF order, rows
  <2> QED BY <2>1, <2>2, <2>4
<1>6. c = [d EXCEPT !.order = order, !.line = line, !.link[e.r] = links]
  BY DEF Place, Consistent, Database
<1>7. ASSUME NEW l \in Lines
      PROVE  /\ line[l].quantity = d.line[l].quantity + added(l)
             /\ line[l].quantity \in 0 .. MaxLine => line[l] \in LineRow
  <2>1. d.line[l] \in LineRow
    BY DEF Consistent, Database
  <2> HIDE DEF added
  <2> QED BY <2>1 DEF LineRow
<1>8. \A l \in Lines : links[l] = IF rows(l) # {} THEN e.q ELSE d.link[e.r][l]
  OBVIOUS
<1>9. links \in [Lines -> 0 .. MaxQuantity]
  BY <1>1 DEF Consistent, Database
<1>10. order \in [Orders -> OrderRow] /\ DOMAIN line = Lines
  BY <1>3
<1> HIDE DEF c, order, line, links, added, rows
<1>11. /\ c.request = d.request /\ c.order = order /\ c.line = line
       /\ c.closed = d.closed
       /\ c.link \in [Requests -> [Lines -> 0 .. MaxQuantity]]
       /\ \A r \in Requests : c.link[r] = IF r = e.r THEN links ELSE d.link[r]
       /\ c = [request |-> d.request, order |-> order, line |-> line,
               link |-> c.link, closed |-> d.closed]
  BY <1>1, <1>6, <1>9 DEF Consistent, Database
<1>12. ASSUME NEW l \in Lines
       PROVE  line[l] \in LineRow
  <2>1. line[l].quantity <= MaxLine
    BY <1>11 DEF FitsLines, c
  <2>2. d.line[l].quantity \in Nat
    BY <1>1 DEF Consistent, Database, LineRow
  <2> QED BY <1>1, <1>4, <1>7, <2>1, <2>2
<1>13. c \in Database
  <2>1. line \in [Lines -> LineRow]
    BY <1>7, <1>10, <1>12 DEF line
  <2> QED BY <1>10, <1>11, <2>1 DEF Consistent, Database
<1>14. ASSUME NEW l \in Lines
       PROVE  /\ d.line[l].quantity > 0 => c.line[l].quantity > 0
              /\ rows(l) # {} => c.line[l].quantity > 0
              /\ c.line[l].quantity > 0 => c.order[OrderOf(l)].status \notin Gone
  <2>1. d.line[l].quantity \in Nat
    BY <1>1 DEF Consistent, Database, LineRow
  <2>2. rows(l) = {} => added(l) = 0
    <3>1. \A q \in Nat : q * 0 = 0
      OBVIOUS
    <3> QED BY <1>1, <3>1, FS_EmptySet DEF added
  <2>3. d.line[l].quantity > 0 => d.order[OrderOf(l)].status \notin Gone
    BY DEF Consistent, LinksLive
  <2> QED BY <1>3, <1>4, <1>5, <1>7, <1>11, <2>1, <2>2, <2>3, LineFacts
<1>15. LinksLive(c)
  BY <1>1, <1>8, <1>11, <1>14 DEF Consistent, LinksLive, Linked
<1>16. Consistent(c)
  BY <1>11, <1>13, <1>15 DEF Consistent, Asks
<1> QED BY <1>16 DEF c

------------------------------------------------------------------------------
(* Frames *)

LEMMA IdleFits == FrameFits(Idle)
<1>1. Idle.cache \in [Suppliers -> Cached] /\ 0 \in 0 .. MaxQuantity
  BY CatalogueAssumption DEF Idle, Cached
<1>2. Idle \in Frame
  BY <1>1 DEF Idle, Frame, Stages
<1> QED BY <1>2 DEF FrameFits, Idle

LEMMA FrameReplaced ==
    ASSUME Fit, NEW w \in Workers, NEW f, FrameFits(f), job' = [job EXCEPT ![w] = f]
    PROVE  Fit'
<1>1. ASSUME NEW v \in Workers
      PROVE  FrameFits(job'[v]) /\ job'[v] \in Frame
  BY DEF Fit, FrameFits
<1>2. job' \in [Workers -> Frame]
  BY <1>1 DEF Fit
<1> QED BY <1>1, <1>2 DEF Fit

LEMMA StartsInv ==
    ASSUME IInv, NEW w \in Workers, NEW endpoint, NEW f, FrameFits(f),
           Starts(w, endpoint, f)
    PROVE  IInv'
BY FrameReplaced DEF IInv, Starts, Consistent, LinksLive, Linked, Asks

LEMMA EndsInv ==
    ASSUME IInv, NEW w \in Workers, NEW stage, NEW d, Consistent(d), Ends(w, stage, d)
    PROVE  IInv'
<1>1. Fit'
  BY IdleFits, FrameReplaced DEF IInv, Ends
<1>2. Consistent(db')
  BY DEF Ends
<1> QED BY <1>1, <1>2 DEF IInv, Consistent, LinksLive, Linked, Asks

LEMMA ServesInv ==
    ASSUME IInv, NEW endpoint, NEW d, Consistent(d), Serves(endpoint, d)
    PROVE  IInv'
<1>1. Consistent(db')
  BY DEF Serves
<1>2. Fit'
  BY DEF IInv, Serves, Fit
<1> QED BY <1>1, <1>2 DEF IInv, Consistent, LinksLive, Linked, Asks

LEMMA FrameChanged ==
    ASSUME IInv, NEW w \in Workers, NEW f, FrameFits(f), job' = [job EXCEPT ![w] = f],
           UNCHANGED db
    PROVE  IInv'
BY FrameReplaced DEF IInv, Consistent, LinksLive, Linked, Asks

\* The frames a call on requests starts with.
LEMMA NewFrames ==
    ASSUME NEW r \in Requests, NEW a \in Articles \cup {Null}, NEW q \in 1 .. MaxQuantity,
           NEW i \in Interventions \cup {Null}
    PROVE  /\ FrameFits([Idle EXCEPT !.at = "creating", !.r = r, !.a = a, !.q = q, !.i = i])
           /\ FrameFits([Idle EXCEPT !.at = "updating", !.r = r, !.a = a, !.q = q])
           /\ FrameFits([Idle EXCEPT !.at = "deleting", !.r = r])
<1>1. Idle \in Frame /\ q \in 0 .. MaxQuantity /\ q > 0
  BY IdleFits, CatalogueAssumption DEF FrameFits
<1>2. FrameFits([Idle EXCEPT !.at = "creating", !.r = r, !.a = a, !.q = q, !.i = i])
  BY ZenonT(60), <1>1 DEF FrameFits, Frame, Stages
<1>3. FrameFits([Idle EXCEPT !.at = "updating", !.r = r, !.a = a, !.q = q])
  BY ZenonT(60), <1>1 DEF FrameFits, Frame, Stages
<1>4. FrameFits([Idle EXCEPT !.at = "deleting", !.r = r])
  BY ZenonT(60), <1>1 DEF FrameFits, Frame, Stages
<1> QED BY <1>2, <1>3, <1>4

------------------------------------------------------------------------------
(* Requests *)

LEMMA CreateReadInv ==
    ASSUME IInv, NEW w \in Workers, NEW r \in Requests, NEW a \in Articles \cup {Null},
           NEW q \in 1 .. MaxQuantity, NEW i \in Interventions \cup {Null},
           CreateRead(w, r, a, q, i)
    PROVE  IInv'
<1> DEFINE f == [Idle EXCEPT !.at = "creating", !.r = r, !.a = a, !.q = q, !.i = i]
<1>1. FrameFits(f)
  BY NewFrames
<1>2. Starts(w, "request", f)
  BY DEF CreateRead
<1> HIDE DEF f
<1> QED BY <1>1, <1>2, StartsInv

LEMMA CreateWriteInv ==
    ASSUME IInv, NEW w \in Workers, CreateWrite(w)
    PROVE  IInv'
<1> DEFINE f == job[w]
           row == [status |-> "live", article |-> f.a, quantity |-> f.q,
                   intervention |-> f.i]
<1>1. f.at = "creating" /\ f \in Frame /\ f.r \in Requests /\ f.q > 0
  BY DEF CreateWrite, Ends, IInv, Fit, FrameFits
<1>2. row \in RequestRow /\ row.status = "live" /\ row.quantity > 0
  BY <1>1 DEF RequestRow, Frame
<1>3. InsertRequest(db, f.r, f.a, f.q, f.i) = [db EXCEPT !.request[f.r] = row]
  BY DEF InsertRequest
<1>4. Ends(w, "creating", InsertRequest(db, f.r, f.a, f.q, f.i))
  BY DEF CreateWrite
<1> HIDE DEF row
<1>5. Consistent(InsertRequest(db, f.r, f.a, f.q, f.i))
  BY <1>1, <1>2, <1>3, RequestKept DEF IInv
<1> QED BY <1>4, <1>5, EndsInv

LEMMA RequestReadsInv ==
    ASSUME IInv, NEW w \in Workers, NEW r \in Requests,
           \/ DeleteRead(w, r)
           \/ \E a \in Articles \cup {Null}, q \in 1 .. MaxQuantity : UpdateRead(w, r, a, q)
    PROVE  IInv'
<1>1. CASE DeleteRead(w, r)
  <2> DEFINE f == [Idle EXCEPT !.at = "deleting", !.r = r]
  <2>1. 1 \in 1 .. MaxQuantity
    BY CatalogueAssumption
  <2>2. FrameFits(f)
    BY <2>1, NewFrames
  <2>3. Starts(w, "request", f)
    BY <1>1 DEF DeleteRead
  <2> HIDE DEF f
  <2> QED BY <2>2, <2>3, StartsInv
<1>2. ASSUME NEW a \in Articles \cup {Null}, NEW q \in 1 .. MaxQuantity,
             UpdateRead(w, r, a, q)
      PROVE  IInv'
  <2> DEFINE f == [Idle EXCEPT !.at = "updating", !.r = r, !.a = a, !.q = q]
  <2>1. FrameFits(f)
    BY NewFrames
  <2>2. Starts(w, "request", f)
    BY <1>2 DEF UpdateRead
  <2> HIDE DEF f
  <2> QED BY <2>1, <2>2, StartsInv
<1> QED BY <1>1, <1>2

LEMMA UpdateWriteInv ==
    ASSUME IInv, NEW w \in Workers, UpdateWrite(w)
    PROVE  IInv'
<1> DEFINE f == job[w]
<1>1. f.at = "updating" /\ f \in Frame /\ f.r \in Requests /\ f.q \in 1 .. MaxQuantity
  BY CatalogueAssumption DEF UpdateWrite, IInv, Fit, FrameFits, Frame
<1>2. PICK a \in {f.a, db.request[f.r].article} :
          Ends(w, "updating", UpdateRequest(db, f.r, a, f.q))
  BY DEF UpdateWrite
<1>3. a \in Articles \cup {Null}
  BY <1>1 DEF IInv, Consistent, Database, RequestRow, Frame
<1>4. Consistent(UpdateRequest(db, f.r, a, f.q))
  BY <1>1, <1>3, UpdateRequestKept DEF IInv
<1> QED BY <1>2, <1>4, EndsInv

LEMMA DeleteWriteInv ==
    ASSUME IInv, NEW w \in Workers, DeleteWrite(w)
    PROVE  IInv'
<1>1. job[w].r \in Requests
  BY DEF DeleteWrite, Ends, IInv, Fit, FrameFits
<1>2. Consistent(DeleteRequestTx(db, job[w].r))
  BY <1>1, DeleteRequestKept DEF IInv
<1> QED BY <1>2, EndsInv DEF DeleteWrite

LEMMA CloseInterventionInv ==
    ASSUME IInv, NEW i \in Interventions, CloseIntervention(i)
    PROVE  IInv'
<1> DEFINE d == [db EXCEPT !.closed = @ \cup {i}]
<1>1. /\ d \in Database
      /\ d.request = db.request /\ d.order = db.order
      /\ d.line = db.line /\ d.link = db.link
  BY DEF IInv, Consistent, Database
<1>2. Serves("close", d)
  BY DEF CloseIntervention
<1> HIDE DEF d
<1>3. Consistent(d)
  BY <1>1 DEF IInv, Consistent, LinksLive, Linked, Asks
<1> QED BY <1>2, <1>3, ServesInv

------------------------------------------------------------------------------
(* Orders *)

LEMMA PutReadInv ==
    ASSUME IInv, NEW w \in Workers, NEW o \in Orders,
           NEW status \in OrderStatuses \cup {Null}, NEW s \in Suppliers,
           PutRead(w, o, status, s)
    PROVE  IInv'
<1> DEFINE at == IF status = "RECEIVED" /\ db.order[o].status # status
                 THEN "receiving" ELSE "ordering"
           f == [Idle EXCEPT !.at = at, !.o = o, !.s = status, !.supplier = s]
<1>1. Starts(w, "order", f)
  BY DEF PutRead
<1>2. at \in {"receiving", "ordering"}
  OBVIOUS
<1> HIDE DEF at
<1>3. f \in Frame /\ f.at = at /\ f.o = o /\ f.supplier = s
  <2>1. Idle \in Frame /\ at \in Stages
    BY <1>2, IdleFits DEF FrameFits, Stages
  <2>2. f.at = at /\ f.o = o /\ f.supplier = s
    BY <2>1 DEF Frame
  <2>3. f \in Frame
    BY <2>1 DEF Frame
  <2> QED BY <2>2, <2>3
<1> HIDE DEF f
<1>4. FrameFits(f)
  BY <1>2, <1>3 DEF FrameFits
<1> QED BY <1>1, <1>4, StartsInv

LEMMA PutCheckInv ==
    ASSUME IInv, NEW w \in Workers, PutCheck(w)
    PROVE  IInv'
<1> DEFINE f == [job[w] EXCEPT !.at = "ordering"]
<1>1. FrameFits(job[w]) /\ job[w].at = "receiving"
  BY DEF IInv, Fit, PutCheck
<1>2. f \in Frame /\ f.at = "ordering" /\ f.o = job[w].o /\ f.supplier = job[w].supplier
  BY <1>1 DEF FrameFits, Frame, Stages
<1>3. job' = [job EXCEPT ![w] = f] /\ UNCHANGED db
  BY DEF PutCheck, IInv, Fit
<1> HIDE DEF f
<1>4. FrameFits(f)
  BY <1>1, <1>2 DEF FrameFits
<1> QED BY <1>3, <1>4, FrameChanged

LEMMA PutWriteInv ==
    ASSUME IInv, NEW w \in Workers, PutWrite(w)
    PROVE  IInv'
<1> DEFINE f == job[w]
<1>1. /\ f \in Frame /\ f.at = "ordering"
      /\ f.o \in Orders /\ f.supplier \in Suppliers
      /\ f.s \in OrderStatuses \cup {Null}
  BY DEF PutWrite, IInv, Fit, FrameFits, Frame
<1>2. PICK s \in {f.supplier, db.order[f.o].supplier} :
          Ends(w, "ordering", UpdateOrder(db, f.o, f.s, s))
  BY DEF PutWrite
<1>3. db.order[f.o].status \notin Gone => s \in Suppliers
  BY <1>1, <1>2 DEF IInv, Consistent, Database, OrderRow
<1>4. Consistent(UpdateOrder(db, f.o, f.s, s))
  BY <1>1, <1>3, UpdateOrderKept DEF IInv
<1> QED BY <1>2, <1>4, EndsInv

LEMMA OrderServesInv ==
    ASSUME IInv, NEW o \in Orders,
           \/ DeleteOrder(o)
           \/ \E s \in Suppliers, status \in OrderStatuses : CreateOrder(o, s, status)
    PROVE  IInv'
<1>1. CASE DeleteOrder(o)
  <2>1. Consistent(DeleteOrderTx(db, o))
    BY DeleteOrderKept DEF IInv
  <2> QED BY <1>1, <2>1, ServesInv DEF DeleteOrder
<1>2. ASSUME NEW s \in Suppliers, NEW status \in OrderStatuses, CreateOrder(o, s, status)
      PROVE  IInv'
  <2>1. Consistent(InsertOrder(db, o, s, status))
    BY InsertOrderKept DEF IInv
  <2> QED BY <1>2, <2>1, ServesInv DEF CreateOrder
<1> QED BY <1>1, <1>2

------------------------------------------------------------------------------
(* Lines and links *)

LEMMA AddLineInv ==
    ASSUME IInv, NEW l \in Lines, NEW row \in LineRow, NEW allot \in Allotments,
           AddLine(l, row, allot)
    PROVE  IInv'
<1>1. Consistent(AddLineTx(db, l, row, allot))
  BY AddLineKept DEF IInv, AddLine, Allottable
<1> QED BY <1>1, ServesInv DEF AddLine

LEMMA PatchLineInv ==
    ASSUME IInv, NEW l \in Lines, NEW row \in LineRow, NEW select \in BOOLEAN,
           NEW allot \in Allotments \cup {Null}, PatchLine(l, row, select, allot)
    PROVE  IInv'
<1>1. Consistent(PatchLineTx(db, l, row, select, allot))
  BY PatchLineKept DEF IInv, PatchLine, Allottable
<1> QED BY <1>1, ServesInv DEF PatchLine

LEMMA DeleteLineInv ==
    ASSUME IInv, NEW l \in Lines, DeleteLine(l)
    PROVE  IInv'
<1>1. Consistent(DropLines(db, {l}))
  BY DropLinesEffect DEF IInv
<1> QED BY <1>1, ServesInv DEF DeleteLine

LEMMA LinksInv ==
    ASSUME IInv, NEW l \in Lines, NEW r \in Requests,
           Unlink(l, r) \/ \E q \in 1 .. MaxQuantity : Link(l, r, q)
    PROVE  IInv'
<1>1. CASE Unlink(l, r)
  <2> DEFINE d == [db EXCEPT !.link[r][l] = 0]
  <2>1. 0 \in 0 .. MaxQuantity
    BY CatalogueAssumption
  <2>2. Consistent(d)
    BY <2>1, LinkKept DEF IInv
  <2>3. Serves("link", d)
    BY <1>1 DEF Unlink
  <2> HIDE DEF d
  <2> QED BY <2>2, <2>3, ServesInv
<1>2. ASSUME NEW q \in 1 .. MaxQuantity, Link(l, r, q)
      PROVE  IInv'
  <2> DEFINE d == [db EXCEPT !.link[r][l] = q]
  <2>1. q \in 0 .. MaxQuantity
    BY CatalogueAssumption
  <2>2. Consistent(d)
    BY <1>2, <2>1, LinkKept DEF IInv, Link
  <2>3. Serves("link", d)
    BY <1>2 DEF Link
  <2> HIDE DEF d
  <2> QED BY <2>2, <2>3, ServesInv
<1> QED BY <1>1, <1>2

LEMMA LineStepInv ==
    ASSUME IInv, LineStep
    PROVE  IInv'
BY AddLineInv, PatchLineInv, DeleteLineInv, LinksInv DEF LineStep

------------------------------------------------------------------------------
(* Dispatch *)

LEMMA DispatchReadInv ==
    ASSUME IInv, NEW w \in Workers, DispatchRead(w)
    PROVE  IInv'
<1> DEFINE f == [Idle EXCEPT !.at = "finding", !.todo = Pending(db)]
<1>1. Pending(db) \in SUBSET Entry
  BY PendingEntries DEF IInv
<1>2. Starts(w, "dispatch", f)
  BY DEF DispatchRead
<1>3. f \in Frame /\ f.at = "finding"
  BY <1>1, IdleFits DEF FrameFits, Frame, Stages
<1> HIDE DEF f
<1>4. FrameFits(f)
  BY <1>3 DEF FrameFits
<1> QED BY <1>2, <1>4, StartsInv

LEMMA FindOrderInv ==
    ASSUME IInv, NEW w \in Workers, NEW s \in Suppliers, FindOrder(w, s)
    PROVE  IInv'
<1>1. PICK found \in Cached : job' = [job EXCEPT ![w].cache[s] = found]
  BY DEF FindOrder, Cached
<1> DEFINE f == [job[w] EXCEPT !.cache[s] = found]
<1>2. job[w] \in Frame /\ job[w].at = "finding"
  BY DEF FindOrder, IInv, Fit
<1>3. f \in Frame /\ f.at = "finding"
  BY <1>1, <1>2 DEF Frame
<1>4. job' = [job EXCEPT ![w] = f] /\ UNCHANGED db
  BY <1>1 DEF FindOrder, IInv, Fit
<1> HIDE DEF f
<1>5. FrameFits(f)
  BY <1>3 DEF FrameFits
<1> QED BY <1>4, <1>5, FrameChanged

LEMMA DoneWithFits ==
    ASSUME IInv, NEW w \in Workers, NEW e, NEW cache \in [Suppliers -> Cached],
           DoneWith(w, e, cache)
    PROVE  Fit'
<1>1. CASE job[w].todo = {e}
  BY <1>1, IdleFits, FrameReplaced DEF DoneWith, IInv
<1>2. CASE job[w].todo # {e}
  <2> DEFINE f == [job[w] EXCEPT !.at = "dispatching", !.todo = @ \ {e}, !.cache = cache]
  <2>1. job[w] \in Frame /\ job[w].todo \ {e} \in SUBSET Entry
    BY DEF IInv, Fit, Frame
  <2>2. f \in Frame /\ f.at = "dispatching"
    BY <2>1 DEF Frame, Stages
  <2>3. job' = [job EXCEPT ![w] = f]
    BY <1>2 DEF DoneWith
  <2> HIDE DEF f
  <2>4. FrameFits(f)
    BY <2>2 DEF FrameFits
  <2> QED BY <2>3, <2>4, FrameReplaced DEF IInv
<1> QED BY <1>1, <1>2

LEMMA DispatchOneInv ==
    ASSUME IInv, NEW w \in Workers, NEW e \in job[w].todo, DispatchOne(w, e)
    PROVE  IInv'
<1>1. /\ job[w] \in Frame /\ e \in Entry
      /\ job[w].cache \in [Suppliers -> Cached]
      /\ db.request[e.r].status = "live"
  BY DEF IInv, Fit, Frame, DispatchOne
<1>2. PICK place \in Placements(db, e.a, job[w].cache) :
          /\ db' = Place(db, e, job[w].cache, place)
          /\ FitsLines(db')
          /\ DoneWith(w, e, [s \in Suppliers |->
                IF s \in TargetSet(e.a) THEN place[s] ELSE job[w].cache[s]])
  BY DEF DispatchOne
<1> DEFINE cache == [s \in Suppliers |->
                        IF s \in TargetSet(e.a) THEN place[s] ELSE job[w].cache[s]]
<1>3. cache \in [Suppliers -> Cached]
  BY <1>1, <1>2 DEF Placements, Cached
<1> HIDE DEF cache
<1>4. Fit'
  BY <1>2, <1>3, DoneWithFits DEF cache
<1>5. Consistent(Place(db, e, job[w].cache, place))
  BY <1>1, <1>2, PlaceKept DEF IInv
<1>6. Consistent(db')
  BY <1>2, <1>5
<1> QED BY <1>4, <1>6 DEF IInv, Consistent, LinksLive, Linked, Asks

LEMMA DispatchFailsInv ==
    ASSUME IInv, NEW w \in Workers, NEW e, NEW k, DispatchFails(w, e, k)
    PROVE  IInv'
<1> DEFINE cache == [s \in Suppliers |->
          IF job[w].cache[s] = "new" /\ s \in {Targets(e.a)[n] : n \in 1 .. k}
          THEN "lost" ELSE job[w].cache[s]]
<1>1. cache \in [Suppliers -> Cached]
  BY DEF IInv, Fit, Frame, Cached
<1>2. DoneWith(w, e, cache) /\ UNCHANGED db
  BY DEF DispatchFails
<1> HIDE DEF cache
<1>3. Fit'
  BY <1>1, <1>2, DoneWithFits
<1> QED BY <1>2, <1>3 DEF IInv, Consistent, LinksLive, Linked, Asks

LEMMA FailInv ==
    ASSUME IInv, NEW w \in Workers, Fail(w)
    PROVE  IInv'
BY IdleFits, FrameChanged DEF Fail

------------------------------------------------------------------------------
(* The theorems *)

LEMMA InitInv == Init => IInv
<1> SUFFICES ASSUME Init PROVE IInv
  OBVIOUS
<1>1. /\ NoRequest \in RequestRow /\ NoRequest.status = "none"
      /\ NoOrder \in OrderRow
      /\ 0 \in 0 .. MaxQuantity
  BY CatalogueAssumption DEF NoRequest, RequestRow, NoOrder, OrderRow, Gone
<1>2. db \in Database
  BY <1>1, NoLineType DEF Init, EmptyDatabase, Database
<1>3. LinksLive(db) /\ Asks(db)
  BY <1>1, NoLineType DEF Init, EmptyDatabase, LinksLive, Linked, Asks
<1>4. Fit
  BY IdleFits DEF Init, Fit, FrameFits
<1> QED BY <1>2, <1>3, <1>4 DEF IInv, Consistent

LEMMA NextInv == IInv /\ [Next]_vars => IInv'
<1> SUFFICES ASSUME IInv, [Next]_vars PROVE IInv'
  OBVIOUS
<1>1. ASSUME NEW w \in Workers, RequestStep(w)
      PROVE  IInv'
  BY <1>1, CreateReadInv, RequestReadsInv, CreateWriteInv, UpdateWriteInv, DeleteWriteInv
     DEF RequestStep
<1>2. ASSUME NEW w \in Workers, OrderStep(w)
      PROVE  IInv'
  BY <1>2, PutReadInv, PutCheckInv, PutWriteInv DEF OrderStep
<1>3. ASSUME NEW w \in Workers, DispatchStep(w)
      PROVE  IInv'
  BY <1>3, DispatchReadInv, FindOrderInv, DispatchOneInv, DispatchFailsInv
     DEF DispatchStep
<1>4. ASSUME NEW w \in Workers, Fail(w)
      PROVE  IInv'
  BY <1>4, FailInv
<1>5. ASSUME NEW o \in Orders,
             \/ \E s \in Suppliers, status \in OrderStatuses : CreateOrder(o, s, status)
             \/ DeleteOrder(o)
      PROVE  IInv'
  BY <1>5, OrderServesInv
<1>6. CASE LineStep
  BY <1>6, LineStepInv
<1>7. ASSUME NEW i \in Interventions, CloseIntervention(i)
      PROVE  IInv'
  BY <1>7, CloseInterventionInv
<1>8. CASE UNCHANGED vars
  BY <1>8 DEF vars, IInv, Fit, Consistent, LinksLive, Linked, Asks
<1> QED BY <1>1, <1>2, <1>3, <1>4, <1>5, <1>6, <1>7, <1>8 DEF Next

LEMMA Invariance == Spec => []IInv
BY InitInv, NextInv, PTL DEF Spec

\* Rows keep to their columns and frames to their fields, however calls overlap and
\* whatever a dispatch finds changed under it (purchase_requests/repo.py,
\* supplier_orders/repo.py, supplier_order_lines/repo.py).
THEOREM TypeCorrect == Spec => []TypeOK
<1>1. IInv => TypeOK
  BY DEF IInv, Fit, Consistent, TypeOK
<1> QED BY <1>1, Invariance, PTL

\* However dispatches, deletions and manual edits overlap and fail, no line outlives its
\* order and no link its line or its request; the cache of a dispatch, which may name
\* an order that was undone or deleted, never leads to a line without order.
THEOREM LinksHold == Spec => []NoDanglingLink
<1>1. IInv => NoDanglingLink
  BY DEF IInv, Consistent, NoDanglingLink
<1> QED BY <1>1, Invariance, PTL
------------------------------------------------------------------------------
(* A selection deselects the other lines, however calls overlap *)

\* No line is selected by the step but those that were.
NoneSelected(d, e) == \A l \in Lines : e.line[l].selected => d.line[l].selected

\* What ExclusiveSelection says of line l.
Exclusive(d, e, l) ==
    /\ ~ d.line[l].selected /\ e.line[l].selected
    /\ d.line[l].quantity > 0 /\ e.link = d.link
    => \A m \in Sisters(e, Linked(e, l)) \ {l} : ~ e.line[m].selected

LEMMA NoneSelectedExclusive ==
    ASSUME NEW d, NEW e, NoneSelected(d, e), NEW l \in Lines
    PROVE  Exclusive(d, e, l)
BY Zenon DEF NoneSelected, Exclusive

LEMMA SameLines == ASSUME NEW d, NEW e, e.line = d.line PROVE NoneSelected(d, e)
BY Zenon DEF NoneSelected

LEMMA DropsSelectNone ==
    ASSUME NEW d, Consistent(d), NEW ls
    PROVE  NoneSelected(d, DropLines(d, ls))
<1> DEFINE e == DropLines(d, ls)
<1>1. \A l \in Lines : e.line[l] = IF l \in ls THEN NoLine ELSE d.line[l]
  BY DropLinesEffect
<1> HIDE DEF e
<1>2. NoLine.selected = FALSE
  BY DEF NoLine
<1>3. ASSUME NEW l \in Lines, e.line[l].selected PROVE d.line[l].selected
  <2>1. CASE l \in ls
    BY <1>1, <1>2, <1>3, <2>1, Zenon
  <2>2. CASE l \notin ls
    BY <1>1, <1>3, <2>2, Zenon
  <2> QED BY <2>1, <2>2
<1>4. NoneSelected(d, e)
  BY <1>3, Zenon DEF NoneSelected
<1> QED BY <1>4 DEF e

\* Which lines a deselection leaves selected.
LEMMA DeselectLines ==
    ASSUME NEW d \in Database, NEW ls
    PROVE  LET e == Deselect(d, ls) IN
           /\ e.link = d.link
           /\ \A l \in Lines : l \notin ls => e.line[l] = d.line[l]
           /\ \A l \in Lines : l \in ls => e.line[l].selected = FALSE
<1> DEFINE e == Deselect(d, ls)
           line == [l \in Lines |-> IF l \in ls THEN [d.line[l] EXCEPT !.selected = FALSE]
                                    ELSE d.line[l]]
<1>1. e = [d EXCEPT !.line = line]
  BY DEF Deselect, Database
<1>2. /\ \A l \in Lines : l \notin ls => line[l] = d.line[l]
      /\ \A l \in Lines : l \in ls => line[l] = [d.line[l] EXCEPT !.selected = FALSE]
  OBVIOUS
<1>3. \A l \in Lines : [d.line[l] EXCEPT !.selected = FALSE].selected = FALSE
  BY DEF Database, LineRow
<1> HIDE DEF e, line
<1>4. e.line = line /\ e.link = d.link
  BY <1>1 DEF Database
<1>5. \A l \in Lines : l \in ls => e.line[l].selected = FALSE
  BY <1>2, <1>3, <1>4, Zenon
<1>6. \A l \in Lines : l \notin ls => e.line[l] = d.line[l]
  BY <1>2, <1>4
<1> QED BY <1>4, <1>5, <1>6 DEF e

LEMMA DeselectTyped ==
    ASSUME NEW d \in Database, NEW ls
    PROVE  Deselect(d, ls) \in Database
<1> DEFINE line == [l \in Lines |-> IF l \in ls THEN [d.line[l] EXCEPT !.selected = FALSE]
                                    ELSE d.line[l]]
<1>1. line \in [Lines -> LineRow]
  BY DEF Database, LineRow
<1>2. Deselect(d, ls) = [d EXCEPT !.line = line]
  BY DEF Deselect, Database
<1> HIDE DEF line
<1> QED BY <1>1, <1>2 DEF Database

\* The selected lines of e are k, if it is, and lines that were selected in d.
SelectsAtMost(d, e, k) ==
    \A l \in Lines : l # k /\ e.line[l].selected => d.line[l].selected

LEMMA WrittenLine ==
    ASSUME NEW d \in Database, NEW k \in Lines, NEW row \in LineRow
    PROVE  LET e == [d EXCEPT !.line[k] = row] IN
           /\ e \in Database
           /\ e.link = d.link
           /\ SelectsAtMost(d, e, k)
           /\ e.line[k] = row
<1> DEFINE e == [d EXCEPT !.line[k] = row]
<1>1. /\ e \in Database /\ e.link = d.link /\ e.line[k] = row
      /\ \A l \in Lines : l # k => e.line[l] = d.line[l]
  BY DEF Database
<1> HIDE DEF e
<1>2. ASSUME NEW l \in Lines, l # k, e.line[l].selected PROVE d.line[l].selected
  BY <1>1, <1>2, Zenon
<1>3. SelectsAtMost(d, e, k)
  BY <1>2, Zenon DEF SelectsAtMost
<1> QED BY <1>1, <1>3 DEF e

LEMMA RelinkLines ==
    ASSUME NEW d \in Database, NEW l \in Lines, NEW allot \in Allotments
    PROVE  Relink(d, l, allot) \in Database /\ Relink(d, l, allot).line = d.line
<1> DEFINE link == [r \in Requests |-> [d.link[r] EXCEPT ![l] = allot[r]]]
<1>1. link \in [Requests -> [Lines -> 0 .. MaxQuantity]]
  BY DEF Database, Allotments
<1>2. Relink(d, l, allot) = [d EXCEPT !.link = link]
  BY DEF Relink, Database
<1> HIDE DEF link
<1> QED BY <1>1, <1>2 DEF Database

LEMMA DeselectSelectsAtMost ==
    ASSUME NEW d, NEW e \in Database, NEW k \in Lines, SelectsAtMost(d, e, k), NEW ls
    PROVE  SelectsAtMost(d, Deselect(e, ls), k)
<1> DEFINE c == Deselect(e, ls)
<1>1. /\ \A l \in Lines : l \notin ls => c.line[l] = e.line[l]
      /\ \A l \in Lines : l \in ls => c.line[l].selected = FALSE
  BY DeselectLines
<1> HIDE DEF c
<1>2. ASSUME NEW l \in Lines, l # k, c.line[l].selected PROVE d.line[l].selected
  <2>1. CASE l \in ls
    BY <1>1, <1>2, <2>1, Zenon
  <2>2. CASE l \notin ls
    <3>1. c.line[l] = e.line[l]
      BY <1>1, <2>2, Zenon
    <3> QED BY <1>2, <3>1, Zenon DEF SelectsAtMost
  <2> QED BY <2>1, <2>2
<1>3. SelectsAtMost(d, c, k)
  BY <1>2, Zenon DEF SelectsAtMost
<1> QED BY <1>3 DEF c

LEMMA SelectsAtMostExclusive ==
    ASSUME NEW d, NEW e, NEW k, SelectsAtMost(d, e, k), NEW l \in Lines, l # k
    PROVE  Exclusive(d, e, l)
BY Zenon DEF SelectsAtMost, Exclusive

LEMMA AddLineExclusive ==
    ASSUME NEW d \in Database, NEW k \in Lines, d.line[k].quantity = 0,
           NEW row \in LineRow, NEW allot \in Allotments, NEW l \in Lines
    PROVE  Exclusive(d, AddLineTx(d, k, row, allot), l)
<1> DEFINE e == AddLineTx(d, k, row, allot)
           c == [d EXCEPT !.line[k] = row]
           added == Relink(c, k, allot)
           ls == Sisters(added, {r \in Requests : allot[r] > 0}) \ {k}
<1>1. c \in Database /\ SelectsAtMost(d, c, k)
  BY WrittenLine
<1>2. e = IF row.selected THEN Deselect(added, ls) ELSE added
  BY DEF AddLineTx
<1> HIDE DEF c, e, ls
<1>3. added \in Database /\ added.line = c.line
  BY <1>1, RelinkLines
<1> HIDE DEF added
<1>4. SelectsAtMost(d, added, k)
  BY <1>1, <1>3, Zenon DEF SelectsAtMost
<1>5. SelectsAtMost(d, Deselect(added, ls), k)
  BY <1>3, <1>4, DeselectSelectsAtMost
<1>6. SelectsAtMost(d, e, k)
  BY <1>2, <1>4, <1>5, Zenon
<1>7. CASE l = k
  <2>1. ~ (d.line[l].quantity > 0)
    BY <1>7
  <2>2. Exclusive(d, e, l)
    BY <2>1, Zenon DEF Exclusive
  <2> QED BY <2>2 DEF e
<1>8. CASE l # k
  <2>1. Exclusive(d, e, l)
    BY <1>6, <1>8, SelectsAtMostExclusive
  <2> QED BY <2>1 DEF e
<1> QED BY <1>7, <1>8

\* The one step that selects a line that exists.
LEMMA PatchLineExclusive ==
    ASSUME NEW d \in Database, NEW k \in Lines, NEW row \in LineRow,
           NEW select \in BOOLEAN, NEW allot \in Allotments \cup {Null},
           row.selected /\ ~ d.line[k].selected => select, NEW l \in Lines
    PROVE  Exclusive(d, PatchLineTx(d, k, row, select, allot), l)
<1> DEFINE e == PatchLineTx(d, k, row, select, allot)
           written == [d EXCEPT !.line[k] = row]
           ls == Sisters(d, Linked(d, k)) \ {k}
           chosen == IF select THEN Deselect(written, ls) ELSE written
<1>1. written \in Database /\ SelectsAtMost(d, written, k) /\ written.line[k] = row
  BY WrittenLine
<1>2. e = IF allot = Null THEN chosen ELSE Relink(chosen, k, allot)
  BY DEF PatchLineTx
<1>3. k \notin ls /\ ls \subseteq Lines
  BY DEF Sisters, LinesOf
<1>4. e.link = d.link => Sisters(e, Linked(e, k)) \ {k} = ls
  BY DEF Sisters, Linked, LinesOf
<1> HIDE DEF written, e, ls
<1>5. SelectsAtMost(d, Deselect(written, ls), k)
  BY <1>1, DeselectSelectsAtMost
<1>6. /\ Deselect(written, ls).line[k] = row
      /\ \A m \in ls : Deselect(written, ls).line[m].selected = FALSE
  BY <1>1, <1>3, DeselectLines, ZenonT(60)
<1>7. SelectsAtMost(d, chosen, k) /\ chosen.line[k] = row
  BY <1>1, <1>5, <1>6, Zenon
<1>8. chosen \in Database
  BY <1>1, DeselectTyped
<1>9. ASSUME select PROVE \A m \in ls : chosen.line[m].selected = FALSE
  BY <1>6, <1>9, Zenon
<1> HIDE DEF chosen
<1>10. e.line = chosen.line
  BY <1>2, <1>8, RelinkLines
<1>11. SelectsAtMost(d, e, k)
  BY <1>7, <1>10, Zenon DEF SelectsAtMost
<1>12. ASSUME ~ d.line[k].selected, e.line[k].selected, e.link = d.link,
              NEW m \in Sisters(e, Linked(e, k)) \ {k}
       PROVE  ~ e.line[m].selected
  <2>1. select
    BY <1>7, <1>10, <1>12, Zenon
  <2>2. m \in ls
    BY <1>4, <1>12, Zenon
  <2> QED BY <1>9, <1>10, <2>1, <2>2, Zenon
<1>13. Exclusive(d, e, l)
  <2>1. CASE l = k
    BY <1>12, <2>1, Zenon DEF Exclusive
  <2>2. CASE l # k
    BY <1>11, <2>2, SelectsAtMostExclusive
  <2> QED BY <2>1, <2>2
<1> QED BY <1>13 DEF e

LEMMA PlaceSelectsNone ==
    ASSUME NEW d \in Database, NEW e, NEW cache, NEW place
    PROVE  NoneSelected(d, Place(d, e, cache, place))
<1> DEFINE c == Place(d, e, cache, place)
           rows(l) == IF ArticleOf(l) = e.a THEN RowsTo(e.a, place, OrderOf(l)) ELSE {}
           row(l) == [d.line[l] EXCEPT !.quantity = @ + e.q * Cardinality(rows(l))]
<1>1. \A l \in Lines : row(l).selected = d.line[l].selected
  BY DEF Database, LineRow
<1>2. c.line = [l \in Lines |-> row(l)]
  BY DEF Place, Database
<1> HIDE DEF c, row
<1>3. \A l \in Lines : c.line[l] = row(l)
  BY <1>2
<1>4. ASSUME NEW l \in Lines, c.line[l].selected PROVE d.line[l].selected
  BY <1>1, <1>3, <1>4, Zenon
<1>5. NoneSelected(d, c)
  BY <1>4, Zenon DEF NoneSelected
<1> QED BY <1>5 DEF c

LEMMA RequestsSelectNone ==
    ASSUME NEW d \in Database, NEW r, NEW a, NEW q, NEW i, NEW o, NEW s, NEW status
    PROVE  /\ NoneSelected(d, InsertRequest(d, r, a, q, i))
           /\ NoneSelected(d, UpdateRequest(d, r, a, q))
           /\ NoneSelected(d, DeleteRequestTx(d, r))
           /\ NoneSelected(d, InsertOrder(d, o, s, status))
           /\ NoneSelected(d, UpdateOrder(d, o, status, s))
<1>1. InsertRequest(d, r, a, q, i).line = d.line
  BY DEF InsertRequest, Database
<1>2. UpdateRequest(d, r, a, q).line = d.line
  BY DEF UpdateRequest, Database
<1>3. DeleteRequestTx(d, r).line = d.line
  BY DEF DeleteRequestTx, Database
<1>4. InsertOrder(d, o, s, status).line = d.line
  BY DEF InsertOrder, Database
<1>5. UpdateOrder(d, o, status, s).line = d.line
  BY DEF UpdateOrder, Database
<1> QED BY <1>1, <1>2, <1>3, <1>4, <1>5, SameLines

LEMMA DeleteOrderSelectsNone ==
    ASSUME NEW d, Consistent(d), NEW o \in Orders
    PROVE  NoneSelected(d, DeleteOrderTx(d, o))
<1> DEFINE c == DropLines(d, {l \in Lines : OrderOf(l) = o})
           e == DeleteOrderTx(d, o)
<1>1. Consistent(c) /\ NoneSelected(d, c)
  BY DropLinesEffect, DropsSelectNone
<1>2. e = [c EXCEPT !.order[o] = [NoOrder EXCEPT !.status = "deleted"]]
  BY DEF DeleteOrderTx
<1> HIDE DEF c, e
<1>3. e.line = c.line
  BY <1>1, <1>2 DEF Consistent, Database
<1>4. NoneSelected(d, e)
  BY <1>1, <1>3, Zenon DEF NoneSelected
<1> QED BY <1>4 DEF e
LEMMA NextExclusive ==
    ASSUME IInv, [Next]_vars, NEW l \in Lines
    PROVE  Exclusive(db, db', l)
<1>0. Consistent(db) /\ db \in Database
  BY DEF IInv, Consistent
<1>1. ASSUME db' = db PROVE Exclusive(db, db', l)
  BY <1>1, SameLines, NoneSelectedExclusive
<1>2. ASSUME NEW w \in Workers, RequestStep(w) PROVE Exclusive(db, db', l)
  <2>1. \/ db' = db
        \/ CreateWrite(w) \/ UpdateWrite(w) \/ DeleteWrite(w)
    BY <1>2 DEF RequestStep, CreateRead, UpdateRead, DeleteRead, Starts
  <2>2. CreateWrite(w) => \E r, a, q, i : db' = InsertRequest(db, r, a, q, i)
    BY DEF CreateWrite, Ends
  <2>3. UpdateWrite(w) => \E r, a, q : db' = UpdateRequest(db, r, a, q)
    BY DEF UpdateWrite, Ends
  <2>4. DeleteWrite(w) => \E r : db' = DeleteRequestTx(db, r)
    BY DEF DeleteWrite, Ends
  <2> QED BY <1>0, <1>1, <2>1, <2>2, <2>3, <2>4, RequestsSelectNone, NoneSelectedExclusive
<1>3. ASSUME NEW w \in Workers, OrderStep(w) PROVE Exclusive(db, db', l)
  <2>1. db' = db \/ \E o, status, s : db' = UpdateOrder(db, o, status, s)
    BY <1>3 DEF OrderStep, PutRead, PutCheck, PutWrite, Starts, Ends
  <2> QED BY <1>0, <1>1, <2>1, RequestsSelectNone, NoneSelectedExclusive
<1>4. ASSUME NEW w \in Workers, DispatchStep(w) PROVE Exclusive(db, db', l)
  <2>1. db' = db \/ \E e, cache, place : db' = Place(db, e, cache, place)
    BY <1>4 DEF DispatchStep, DispatchRead, FindOrder, DispatchOne, DispatchFails, Starts
  <2> QED BY <1>0, <1>1, <2>1, PlaceSelectsNone, NoneSelectedExclusive
<1>5. ASSUME NEW w \in Workers, Fail(w) PROVE Exclusive(db, db', l)
  BY <1>1, <1>5 DEF Fail
<1>6. ASSUME NEW o \in Orders, NEW s \in Suppliers, NEW status \in OrderStatuses,
             CreateOrder(o, s, status)
      PROVE  Exclusive(db, db', l)
  BY <1>0, <1>6, RequestsSelectNone, NoneSelectedExclusive DEF CreateOrder, Serves
<1>7. ASSUME NEW o \in Orders, DeleteOrder(o) PROVE Exclusive(db, db', l)
  BY <1>0, <1>7, DeleteOrderSelectsNone, NoneSelectedExclusive DEF DeleteOrder, Serves
<1>8. CASE LineStep
  <2>1. ASSUME NEW k \in Lines, NEW row \in LineRow, NEW allot \in Allotments,
               AddLine(k, row, allot)
        PROVE  Exclusive(db, db', l)
    <3>1. db.line[k].quantity = 0 /\ db' = AddLineTx(db, k, row, allot)
      BY <2>1 DEF AddLine, Serves, NoLine
    <3> QED BY <1>0, <3>1, AddLineExclusive
  <2>2. ASSUME NEW k \in Lines, NEW row \in LineRow, NEW select \in BOOLEAN,
               NEW allot \in Allotments \cup {Null}, PatchLine(k, row, select, allot)
        PROVE  Exclusive(db, db', l)
    <3>1. /\ row.selected /\ ~ db.line[k].selected => select
          /\ db' = PatchLineTx(db, k, row, select, allot)
      BY <2>2, Zenon DEF PatchLine, Serves
    <3> QED BY <1>0, <3>1, PatchLineExclusive, Zenon
  <2>3. ASSUME NEW k \in Lines, DeleteLine(k) PROVE Exclusive(db, db', l)
    BY <1>0, <2>3, DropsSelectNone, NoneSelectedExclusive DEF DeleteLine, Serves
  <2>4. ASSUME NEW k \in Lines, NEW r \in Requests, NEW q,
               db' = [db EXCEPT !.link[r][k] = q]
        PROVE  Exclusive(db, db', l)
    <3>1. db'.line = db.line
      BY <1>0, <2>4 DEF Database
    <3> QED BY <3>1, SameLines, NoneSelectedExclusive
  <2> QED BY <1>8, <2>1, <2>2, <2>3, <2>4 DEF LineStep, Link, Unlink, Serves
<1>9. ASSUME NEW i \in Interventions, CloseIntervention(i) PROVE Exclusive(db, db', l)
  <2>1. db'.line = db.line
    BY <1>0, <1>9 DEF CloseIntervention, Serves, Database
  <2> QED BY <2>1, SameLines, NoneSelectedExclusive
<1>10. CASE UNCHANGED vars
  BY <1>1, <1>10 DEF vars
<1> QED BY <1>2, <1>3, <1>4, <1>5, <1>6, <1>7, <1>8, <1>9, <1>10 DEF Next

\* Whatever else runs, the call that selects a line for its requests leaves none of
\* their other lines selected (supplier_order_lines/repo.py, update): the
\* deselection is in the transaction of the selection.
THEOREM SelectionExclusive == Spec => ExclusiveSelection
<1>1. IInv /\ [Next]_vars =>
          [\A l \in Lines :
              /\ ~ db.line[l].selected /\ db'.line[l].selected
              /\ db.line[l].quantity > 0 /\ db'.link = db.link
              => \A m \in Sisters(db', Linked(db', l)) \ {l} : ~ db'.line[m].selected]_vars
  BY NextExclusive, Zenon DEF Exclusive
<1> QED BY <1>1, Invariance, PTL DEF Spec, ExclusiveSelection
------------------------------------------------------------------------------
(* With one worker, what a call has read still holds when it writes *)

Alone == \A v, w \in Workers : v = w

\* The order that a dispatch may add to for supplier s
Basket(s) == [status |-> "OPEN", supplier |-> s]

\* What the stage of frame f relies on and does not check again.
Ready(d, f) ==
    /\ f.at = "creating" => f.i \notin d.closed
    /\ f.at \in {"updating", "deleting"} => ~ Frozen(d, f.r)
    /\ f.at \in {"finding", "dispatching"} =>
          /\ \A e \in f.todo : LinesOf(d, e.r) = {}
          /\ \A e, g \in f.todo : e.r = g.r => e = g
          /\ \A s \in Suppliers :
                f.cache[s] \in Orders => d.order[f.cache[s]] = Basket(s)

OneInv == IInv /\ \A w \in Workers : Ready(db, job[w])

LEMMA IdleReady == \A d : Ready(d, Idle)
BY DEF Ready, Idle

\* The other workers are this one.
LEMMA FrameReady ==
    ASSUME Alone, IInv, NEW w \in Workers, NEW f, job' = [job EXCEPT ![w] = f],
           Ready(db', f)
    PROVE  \A v \in Workers : Ready(db', job'[v])
BY DEF Alone, IInv, Fit

LEMMA StartsReady ==
    ASSUME Alone, IInv, NEW w \in Workers, NEW endpoint, NEW f, Ready(db, f),
           Starts(w, endpoint, f)
    PROVE  \A v \in Workers : Ready(db', job'[v])
<1>1. db' = db /\ job' = [job EXCEPT ![w] = f]
  BY DEF Starts
<1> QED BY <1>1, FrameReady

LEMMA EndsReady ==
    ASSUME Alone, IInv, NEW w \in Workers, NEW stage, NEW d, Ends(w, stage, d)
    PROVE  \A v \in Workers : Ready(db', job'[v])
<1>1. job' = [job EXCEPT ![w] = Idle]
  BY DEF Ends
<1> QED BY <1>1, IdleReady, FrameReady

LEMMA ServesReady ==
    ASSUME Alone, NEW endpoint, NEW d, Serves(endpoint, d)
    PROVE  \A v \in Workers : Ready(db', job'[v])
<1>1. \A v \in Workers : job'[v] = Idle
  BY DEF Alone, Serves
<1> QED BY <1>1, IdleReady

LEMMA NullNotClosed ==
    ASSUME NEW d \in Database
    PROVE  Null \notin d.closed
BY CatalogueAssumption DEF Database

LEMMA RequestStepReady ==
    ASSUME Alone, OneInv, NEW w \in Workers, RequestStep(w)
    PROVE  \A v \in Workers : Ready(db', job'[v])
<1>0. IInv
  BY DEF OneInv
<1>1. ASSUME NEW r \in Requests, NEW a, NEW q, NEW i, CreateRead(w, r, a, q, i)
      PROVE  \A v \in Workers : Ready(db', job'[v])
  <2> DEFINE f == [Idle EXCEPT !.at = "creating", !.r = r, !.a = a, !.q = q, !.i = i]
  <2>1. f.at = "creating" /\ f.i = i
    BY DEF Idle
  <2>2. Starts(w, "request", f) /\ i \notin db.closed
    BY <1>1 DEF CreateRead
  <2> HIDE DEF f
  <2>3. Ready(db, f)
    BY <2>1, <2>2 DEF Ready
  <2> QED BY <1>0, <2>2, <2>3, StartsReady
<1>2. ASSUME NEW r \in Requests, NEW a, NEW q, UpdateRead(w, r, a, q)
      PROVE  \A v \in Workers : Ready(db', job'[v])
  <2> DEFINE f == [Idle EXCEPT !.at = "updating", !.r = r, !.a = a, !.q = q]
  <2>1. f.at = "updating" /\ f.r = r
    BY DEF Idle
  <2>2. Starts(w, "request", f) /\ ~ Frozen(db, r)
    BY <1>2 DEF UpdateRead
  <2> HIDE DEF f
  <2>3. Ready(db, f)
    BY <2>1, <2>2 DEF Ready
  <2> QED BY <1>0, <2>2, <2>3, StartsReady
<1>3. ASSUME NEW r \in Requests, DeleteRead(w, r)
      PROVE  \A v \in Workers : Ready(db', job'[v])
  <2> DEFINE f == [Idle EXCEPT !.at = "deleting", !.r = r]
  <2>1. f.at = "deleting" /\ f.r = r
    BY DEF Idle
  <2>2. Starts(w, "request", f) /\ ~ Frozen(db, r)
    BY <1>3 DEF DeleteRead
  <2> HIDE DEF f
  <2>3. Ready(db, f)
    BY <2>1, <2>2 DEF Ready
  <2> QED BY <1>0, <2>2, <2>3, StartsReady
<1>4. ASSUME CreateWrite(w) \/ UpdateWrite(w) \/ DeleteWrite(w)
      PROVE  \A v \in Workers : Ready(db', job'[v])
  BY <1>0, <1>4, EndsReady DEF CreateWrite, UpdateWrite, DeleteWrite
<1> QED BY <1>1, <1>2, <1>3, <1>4 DEF RequestStep

LEMMA OrderStepReady ==
    ASSUME Alone, OneInv, NEW w \in Workers, OrderStep(w)
    PROVE  \A v \in Workers : Ready(db', job'[v])
<1>0. IInv
  BY DEF OneInv
<1>1. ASSUME NEW o \in Orders, NEW status, NEW s, PutRead(w, o, status, s)
      PROVE  \A v \in Workers : Ready(db', job'[v])
  <2> DEFINE at == IF status = "RECEIVED" /\ db.order[o].status # status
                   THEN "receiving" ELSE "ordering"
             f == [Idle EXCEPT !.at = at, !.o = o, !.s = status, !.supplier = s]
  <2>1. f.at \in {"receiving", "ordering"}
    BY DEF Idle
  <2>2. Starts(w, "order", f)
    BY <1>1 DEF PutRead
  <2> HIDE DEF f
  <2>3. Ready(db, f)
    BY <2>1 DEF Ready
  <2> QED BY <1>0, <2>2, <2>3, StartsReady
<1>2. CASE PutCheck(w)
  <2> DEFINE f == [job[w] EXCEPT !.at = "ordering"]
  <2>1. job[w] \in Frame
    BY <1>0 DEF IInv, Fit
  <2>2. f.at = "ordering"
    BY <2>1 DEF Frame
  <2>3. job' = [job EXCEPT ![w] = f]
    BY <1>0, <1>2 DEF PutCheck, IInv, Fit
  <2> HIDE DEF f
  <2>4. Ready(db', f)
    BY <2>2 DEF Ready
  <2> QED BY <1>0, <2>3, <2>4, FrameReady
<1>3. CASE PutWrite(w)
  BY <1>0, <1>3, EndsReady DEF PutWrite
<1> QED BY <1>1, <1>2, <1>3 DEF OrderStep

\* A pending request has no line, and there is one entry per request.
LEMMA PendingReady ==
    ASSUME NEW d
    PROVE  /\ \A e \in Pending(d) : LinesOf(d, e.r) = {}
           /\ \A e, g \in Pending(d) : e.r = g.r => e = g
<1>1. ASSUME NEW r \in Requests, ListStatus(d, r) = "PENDING_DISPATCH"
      PROVE  LinesOf(d, r) = {}
  BY <1>1 DEF ListStatus, Unordered, OrdersSay, Progress
<1> QED BY <1>1 DEF Pending

\* What a dispatch relies on of what it writes for one request.
LEMMA PlaceEffect ==
    ASSUME NEW d \in Database, NEW e \in Entry, NEW cache \in [Suppliers -> Cached],
           NEW place \in Placements(d, e.a, cache),
           \A s \in Suppliers : cache[s] \in Orders => d.order[cache[s]] = Basket(s)
    PROVE  LET c == Place(d, e, cache, place) IN
           /\ c.request = d.request /\ c.closed = d.closed
           /\ \A r \in Requests : r # e.r => c.link[r] = d.link[r]
           /\ \A s \in TargetSet(e.a) : /\ place[s] \in Orders
                                       /\ c.order[place[s]] = Basket(s)
                                       /\ c.link[e.r][<<place[s], e.a>>] > 0
           /\ \A o \in Orders : d.order[o] # NoOrder => c.order[o] = d.order[o]
<1> DEFINE c == Place(d, e, cache, place)
           opened == {s \in TargetSet(e.a) : cache[s] = "new"}
           rows(l) == IF ArticleOf(l) = e.a THEN RowsTo(e.a, place, OrderOf(l)) ELSE {}
           newOrder(o) == [status |-> "OPEN",
                           supplier |-> CHOOSE s \in opened : place[s] = o]
           order == [o \in Orders |-> IF \E s \in opened : place[s] = o
                                     THEN newOrder(o) ELSE d.order[o]]
           line == [l \in Lines |-> [d.line[l] EXCEPT !.quantity =
                                        @ + e.q * Cardinality(rows(l))]]
           links == [l \in Lines |-> IF rows(l) # {} THEN e.q ELSE d.link[e.r][l]]
<1>1. e.r \in Requests /\ e.a \in Articles /\ e.q > 0
  BY CatalogueAssumption DEF Entry
<1>2. TargetSet(e.a) \subseteq Suppliers /\ place \in [TargetSet(e.a) -> Orders]
  BY <1>1, TargetsFacts DEF Placements
<1>3. c = [d EXCEPT !.order = order, !.line = line, !.link[e.r] = links]
  BY DEF Place, Database
<1>4. ASSUME NEW o \in Orders, d.order[o] # NoOrder PROVE order[o] = d.order[o]
  BY <1>4 DEF Placements
<1>5. ASSUME NEW s \in TargetSet(e.a) PROVE order[place[s]] = Basket(s)
  <2>1. CASE s \in opened
    <3>1. \A t \in opened : place[t] = place[s] => t = s
      BY <2>1 DEF Placements
    <3>2. (CHOOSE t \in opened : place[t] = place[s]) = s
      BY <2>1, <3>1
    <3>3. order[place[s]] = newOrder(place[s])
      BY <1>2, <2>1
    <3> HIDE DEF order, opened
    <3> QED BY <3>2, <3>3 DEF Basket
  <2>2. CASE s \notin opened
    <3>1. place[s] = cache[s] /\ d.order[place[s]].status \notin Gone
      BY <2>2 DEF Placements
    <3>2. d.order[place[s]] # NoOrder
      BY <3>1 DEF NoOrder, Gone
    <3>3. place[s] \in Orders /\ d.order[place[s]] = Basket(s)
      BY <1>2, <3>1
    <3> HIDE DEF order
    <3> QED BY <1>4, <3>2, <3>3
  <2> QED BY <2>1, <2>2
<1>6. ASSUME NEW s \in TargetSet(e.a) PROVE links[<<place[s], e.a>>] > 0
  <2> DEFINE l == <<place[s], e.a>>
  <2>1. l \in Lines /\ OrderOf(l) = place[s] /\ ArticleOf(l) = e.a
    BY <1>1, <1>2 DEF Lines, OrderOf, ArticleOf
  <2>2. PICK k \in DOMAIN Targets(e.a) : s = Targets(e.a)[k]
    BY DEF TargetSet
  <2> HIDE DEF l
  <2>3. k \in RowsTo(e.a, place, OrderOf(l))
    BY <2>1, <2>2 DEF RowsTo
  <2>4. rows(l) # {}
    BY <2>1, <2>3
  <2>5. links[l] = e.q
    BY <2>1, <2>4
  <2> QED BY <1>1, <2>5 DEF l
<1> HIDE DEF c, order, line, links
<1>7. /\ c.request = d.request /\ c.closed = d.closed /\ c.order = order
      /\ \A r \in Requests : c.link[r] = IF r = e.r THEN links ELSE d.link[r]
  BY <1>1, <1>3 DEF Database
<1> QED BY <1>1, <1>2, <1>4, <1>5, <1>6, <1>7 DEF c

LEMMA DoneReady ==
    ASSUME Alone, OneInv, NEW w \in Workers, NEW e, NEW cache, DoneWith(w, e, cache),
           job[w].at \in {"finding", "dispatching"},
           \A s \in Suppliers : cache[s] \in Orders => db'.order[cache[s]] = Basket(s),
           \A g \in job[w].todo \ {e} : LinesOf(db', g.r) = {}
    PROVE  \A v \in Workers : Ready(db', job'[v])
<1>0. IInv /\ job[w] \in Frame /\ Ready(db, job[w])
  BY DEF OneInv, IInv, Fit
<1>1. CASE job[w].todo = {e}
  BY <1>0, <1>1, IdleReady, FrameReady DEF DoneWith
<1>2. CASE job[w].todo # {e}
  <2> DEFINE f == [job[w] EXCEPT !.at = "dispatching", !.todo = @ \ {e}, !.cache = cache]
  <2>1. f.at = "dispatching" /\ f.todo = job[w].todo \ {e} /\ f.cache = cache
    BY <1>0 DEF Frame
  <2>2. job' = [job EXCEPT ![w] = f]
    BY <1>2 DEF DoneWith
  <2> HIDE DEF f
  <2>3. \A g, h \in job[w].todo : g.r = h.r => g = h
    BY <1>0 DEF Ready
  <2>4. Ready(db', f)
    BY <2>1, <2>3 DEF Ready
  <2> QED BY <1>0, <2>2, <2>4, FrameReady
<1> QED BY <1>1, <1>2

LEMMA DispatchStepReady ==
    ASSUME Alone, OneInv, NEW w \in Workers, DispatchStep(w)
    PROVE  \A v \in Workers : Ready(db', job'[v])
<1>0. IInv /\ job[w] \in Frame /\ Ready(db, job[w]) /\ db \in Database
  BY DEF OneInv, IInv, Fit, Consistent
<1>1. CASE DispatchRead(w)
  <2> DEFINE f == [Idle EXCEPT !.at = "finding", !.todo = Pending(db)]
  <2>1. /\ f.at = "finding" /\ f.todo = Pending(db)
        /\ \A s \in Suppliers : f.cache[s] = Null
    BY DEF Idle
  <2>2. Starts(w, "dispatch", f)
    BY <1>1 DEF DispatchRead
  <2> HIDE DEF f
  <2>3. /\ \A e \in f.todo : LinesOf(db, e.r) = {}
        /\ \A e, g \in f.todo : e.r = g.r => e = g
    BY <2>1, PendingReady
  <2>4. Null \notin Orders
    BY CatalogueAssumption
  <2>5. Ready(db, f)
    BY <2>1, <2>3, <2>4 DEF Ready
  <2> QED BY <1>0, <2>2, <2>5, StartsReady
<1>2. ASSUME NEW s \in Suppliers, FindOrder(w, s)
      PROVE  \A v \in Workers : Ready(db', job'[v])
  <2>0. PICK found \in {"new"} \cup {o \in Orders :
                                       db.order[o] = [status |-> "OPEN", supplier |-> s]} :
            job' = [job EXCEPT ![w].cache[s] = found]
    BY <1>2 DEF FindOrder
  <2>1. found \in Orders => db.order[found] = Basket(s)
    BY <2>0, CatalogueAssumption DEF Basket
  <2> DEFINE f == [job[w] EXCEPT !.cache[s] = found]
  <2>2. /\ f.at = "finding" /\ f.todo = job[w].todo
        /\ \A t \in Suppliers : f.cache[t] = IF t = s THEN found ELSE job[w].cache[t]
    BY <1>0, <1>2 DEF FindOrder, Frame
  <2>3. job' = [job EXCEPT ![w] = f]
    BY <1>0, <2>0 DEF IInv, Fit
  <2>4. db' = db /\ job[w].at = "finding"
    BY <1>2 DEF FindOrder
  <2> HIDE DEF f
  <2>5. Ready(db', f)
    BY <1>0, <2>1, <2>2, <2>4 DEF Ready
  <2> QED BY <1>0, <2>3, <2>5, FrameReady
<1>3. ASSUME NEW e \in job[w].todo, NEW k, DispatchFails(w, e, k)
      PROVE  \A v \in Workers : Ready(db', job'[v])
  <2> DEFINE cache == [s \in Suppliers |->
          IF job[w].cache[s] = "new" /\ s \in {Targets(e.a)[n] : n \in 1 .. k}
          THEN "lost" ELSE job[w].cache[s]]
  <2>1. \A s \in Suppliers : cache[s] \in Orders => cache[s] = job[w].cache[s]
    BY CatalogueAssumption
  <2>2. DoneWith(w, e, cache) /\ db' = db
    BY <1>3 DEF DispatchFails
  <2>3. job[w].at \in {"finding", "dispatching"}
    BY <1>3 DEF DispatchFails, TakesUp
  <2> HIDE DEF cache
  <2>4. \A r : LinesOf(db', r) = LinesOf(db, r)
    BY <2>2
  <2>5. \A s \in Suppliers : cache[s] \in Orders => db'.order[cache[s]] = Basket(s)
    BY <1>0, <2>1, <2>2, <2>3 DEF Ready
  <2>6. \A g \in job[w].todo \ {e} : LinesOf(db', g.r) = {}
    BY <1>0, <2>3, <2>4 DEF Ready
  <2> QED BY <1>0, <2>2, <2>3, <2>5, <2>6, DoneReady
<1>4. ASSUME NEW e \in job[w].todo, DispatchOne(w, e)
      PROVE  \A v \in Workers : Ready(db', job'[v])
  <2>1. job[w].at \in {"finding", "dispatching"}
    BY <1>4 DEF DispatchOne, TakesUp
  <2>2. PICK place \in Placements(db, e.a, job[w].cache) :
            /\ db' = Place(db, e, job[w].cache, place)
            /\ DoneWith(w, e, [s \in Suppliers |->
                  IF s \in TargetSet(e.a) THEN place[s] ELSE job[w].cache[s]])
    BY <1>4 DEF DispatchOne
  <2> DEFINE cache == [s \in Suppliers |->
                  IF s \in TargetSet(e.a) THEN place[s] ELSE job[w].cache[s]]
  <2>3. e \in Entry /\ job[w].cache \in [Suppliers -> Cached]
    BY <1>0 DEF Frame
  <2>4. \A s \in Suppliers :
            job[w].cache[s] \in Orders => db.order[job[w].cache[s]] = Basket(s)
    BY <1>0, <2>1 DEF Ready
  <2>5. /\ \A r \in Requests : r # e.r => db'.link[r] = db.link[r]
        /\ \A s \in TargetSet(e.a) : db'.order[place[s]] = Basket(s)
        /\ \A o \in Orders : db.order[o] # NoOrder => db'.order[o] = db.order[o]
    <3> DEFINE held == job[w].cache
               c == Place(db, e, held, place)
    <3>0. /\ db \in Database /\ held \in [Suppliers -> Cached]
          /\ place \in Placements(db, e.a, held)
          /\ \A s \in Suppliers : held[s] \in Orders => db.order[held[s]] = Basket(s)
      BY <1>0, <2>3, <2>4
    <3>2. db' = c
      BY <2>2
    <3> HIDE DEF cache, held
    <3>1. /\ c.request = db.request /\ c.closed = db.closed
          /\ \A r \in Requests : r # e.r => c.link[r] = db.link[r]
          /\ \A s \in TargetSet(e.a) : /\ place[s] \in Orders
                                      /\ c.order[place[s]] = Basket(s)
                                      /\ c.link[e.r][<<place[s], e.a>>] > 0
          /\ \A o \in Orders : db.order[o] # NoOrder => c.order[o] = db.order[o]
      BY <2>3, <3>0, PlaceEffect
    <3> HIDE DEF c
    <3> QED BY <3>1, <3>2
  <2>6. ASSUME NEW s \in Suppliers, cache[s] \in Orders
        PROVE  db'.order[cache[s]] = Basket(s)
    <3>1. CASE s \in TargetSet(e.a)
      BY <2>5, <3>1
    <3>2. CASE s \notin TargetSet(e.a)
      <4>1. cache[s] = job[w].cache[s]
        BY <3>2
      <4> HIDE DEF cache
      <4>2. db.order[cache[s]] = Basket(s)
        BY <2>4, <2>6, <4>1
      <4>3. db.order[cache[s]] # NoOrder
        BY <4>2, CatalogueAssumption DEF NoOrder, Basket
      <4> QED BY <2>5, <2>6, <4>2, <4>3
    <3> QED BY <3>1, <3>2
  <2>7. ASSUME NEW g \in job[w].todo \ {e} PROVE LinesOf(db', g.r) = {}
    <3>1. g.r # e.r /\ LinesOf(db, g.r) = {}
      BY <1>0, <2>1 DEF Ready
    <3>2. g.r \in Requests
      BY <1>0 DEF Frame, Entry
    <3> QED BY <2>5, <3>1, <3>2 DEF LinesOf
  <2> HIDE DEF cache
  <2>8. DoneWith(w, e, cache)
    BY <2>2 DEF cache
  <2> QED BY <1>0, <2>1, <2>6, <2>7, <2>8, DoneReady
<1> QED BY <1>1, <1>2, <1>3, <1>4 DEF DispatchStep
\* A call that is one transaction ends no frame and starts none.
LEMMA ServedSteps ==
    ASSUME [Next]_vars
    PROVE  \/ \E w \in Workers : RequestStep(w) \/ OrderStep(w) \/ DispatchStep(w) \/ Fail(w)
           \/ \E endpoint, d : Serves(endpoint, d)
           \/ UNCHANGED vars
<1>1. LineStep => \E endpoint, d : Serves(endpoint, d)
  BY DEF LineStep, AddLine, PatchLine, DeleteLine, Link, Unlink
<1>2. \A o \in Orders :
          /\ DeleteOrder(o) => \E endpoint, d : Serves(endpoint, d)
          /\ \A s, status : CreateOrder(o, s, status) => \E endpoint, d : Serves(endpoint, d)
  BY DEF DeleteOrder, CreateOrder
<1>3. \A i : CloseIntervention(i) => \E endpoint, d : Serves(endpoint, d)
  BY DEF CloseIntervention
<1> QED BY <1>1, <1>2, <1>3 DEF Next

LEMMA NextOne == Alone /\ OneInv /\ [Next]_vars => OneInv'
<1> SUFFICES ASSUME Alone, OneInv, [Next]_vars PROVE OneInv'
  OBVIOUS
<1>0. IInv /\ IInv'
  BY NextInv DEF OneInv
<1>1. ASSUME NEW w \in Workers, RequestStep(w) \/ OrderStep(w) \/ DispatchStep(w)
      PROVE  \A v \in Workers : Ready(db', job'[v])
  BY <1>1, RequestStepReady, OrderStepReady, DispatchStepReady
<1>2. ASSUME NEW w \in Workers, Fail(w) PROVE \A v \in Workers : Ready(db', job'[v])
  BY <1>0, <1>2, IdleReady, FrameReady DEF Fail
<1>3. ASSUME NEW endpoint, NEW d, Serves(endpoint, d)
      PROVE  \A v \in Workers : Ready(db', job'[v])
  BY <1>3, ServesReady
<1>4. ASSUME UNCHANGED vars PROVE \A v \in Workers : Ready(db', job'[v])
  BY <1>4 DEF OneInv, vars
<1>5. \A v \in Workers : Ready(db', job'[v])
  BY <1>1, <1>2, <1>3, <1>4, ServedSteps
<1>6. \A v \in Workers : (Ready(db, job[v]))'
  BY <1>5 DEF Ready, Frozen, LinesOf
<1> QED BY <1>0, <1>6 DEF OneInv

LEMMA OneInvariance == ASSUME Alone PROVE Spec => []OneInv
<1>1. Init => OneInv
  BY InitInv, IdleReady DEF Init, OneInv
<1>2. OneInv /\ [Next]_vars => OneInv'
  BY NextOne
<1> QED BY <1>1, <1>2, PTL DEF Spec

\* With one worker a request that got a line since the dispatch listed it does not
\* exist: what the dispatch orders has no line yet.
THEOREM PendingDispatched == ASSUME Alone PROVE Spec => OnlyPendingDispatched
<1>1. OneInv => \A w \in Workers : \A e \in job[w].todo :
                    job[w].at \in {"finding", "dispatching"} => LinesOf(db, e.r) = {}
  BY DEF OneInv, Ready
<1>2. OneInv /\ [Next]_vars =>
          [\A w \in Workers : \A e \in job[w].todo \ job'[w].todo :
              Dispatches(w) => LinesOf(db, e.r) = {}]_vars
  BY <1>1 DEF Dispatches
<1> QED BY <1>2, OneInvariance, PTL DEF Spec, OnlyPendingDispatched

\* The step of a dispatch that writes.
LEMMA DispatchingStep ==
    ASSUME Alone, OneInv, [Next]_vars, NEW w \in Workers, Dispatches(w)
    PROVE  \E g \in job[w].todo : DispatchOne(w, g)
<1>1. db' # db /\ job'[w] # job[w] /\ job[w].at \in {"finding", "dispatching"}
  BY DEF Dispatches
<1>2. ~ RequestStep(w)
  <2>1. ~ CreateWrite(w) /\ ~ UpdateWrite(w) /\ ~ DeleteWrite(w)
    BY <1>1 DEF CreateWrite, UpdateWrite, DeleteWrite, Ends
  <2> QED BY <1>1, <2>1 DEF RequestStep, CreateRead, UpdateRead, DeleteRead, Starts
<1>3. ~ OrderStep(w)
  BY <1>1 DEF OrderStep, PutRead, PutCheck, PutWrite, Starts, Ends
<1>4. ~ Fail(w) /\ ~ UNCHANGED vars
  BY <1>1 DEF Fail, vars
<1>5. ASSUME NEW endpoint, NEW d PROVE ~ Serves(endpoint, d)
  BY <1>1 DEF Serves
<1>6. DispatchStep(w)
  BY <1>2, <1>3, <1>4, <1>5, ServedSteps DEF Alone
<1> QED BY <1>1, <1>6 DEF DispatchStep, DispatchRead, FindOrder, DispatchFails, Starts

LEMMA NextAllOrNothing ==
    ASSUME Alone, OneInv, [Next]_vars, NEW w \in Workers, Dispatches(w),
           NEW e \in job[w].todo \ job'[w].todo, NEW s \in TargetSet(e.a)
    PROVE  \E l \in LinesOf(db', e.r) :
              ArticleOf(l) = e.a /\ db'.order[OrderOf(l)].supplier = s
<1>0. IInv /\ job[w] \in Frame /\ Ready(db, job[w]) /\ db \in Database
  BY DEF OneInv, IInv, Fit, Consistent
<1>1. PICK g \in job[w].todo : DispatchOne(w, g)
  BY DispatchingStep
<1>2. PICK place \in Placements(db, g.a, job[w].cache) :
          /\ db' = Place(db, g, job[w].cache, place)
          /\ DoneWith(w, g, [t \in Suppliers |->
                IF t \in TargetSet(g.a) THEN place[t] ELSE job[w].cache[t]])
  BY <1>1 DEF DispatchOne
<1>3. e = g
  <2> DEFINE cache == [t \in Suppliers |->
                IF t \in TargetSet(g.a) THEN place[t] ELSE job[w].cache[t]]
             f == [job[w] EXCEPT !.at = "dispatching", !.todo = @ \ {g}, !.cache = cache]
  <2>1. CASE job[w].todo = {g}
    BY <2>1
  <2>2. CASE job[w].todo # {g}
    <3>1. job' = [job EXCEPT ![w] = f]
      BY <1>2, <2>2 DEF DoneWith
    <3>2. f.todo = job[w].todo \ {g}
      BY <1>0 DEF Frame
    <3> HIDE DEF f
    <3>3. job'[w] = f
      BY <1>0, <3>1 DEF IInv, Fit
    <3> QED BY <3>2, <3>3
  <2> QED BY <2>1, <2>2
<1> DEFINE held == job[w].cache
           c == Place(db, g, held, place)
<1>4. /\ g \in Entry /\ held \in [Suppliers -> Cached]
      /\ place \in Placements(db, g.a, held)
      /\ \A t \in Suppliers : held[t] \in Orders => db.order[held[t]] = Basket(t)
      /\ db' = c
  BY <1>0, <1>1, <1>2 DEF Frame, Ready, DispatchOne, TakesUp
<1> HIDE DEF held
<1>5. \A t \in TargetSet(g.a) : /\ place[t] \in Orders
                               /\ c.order[place[t]] = Basket(t)
                               /\ c.link[g.r][<<place[t], g.a>>] > 0
  BY <1>0, <1>4, PlaceEffect
<1> HIDE DEF c
<1> DEFINE l == <<place[s], e.a>>
<1>6. l \in Lines /\ ArticleOf(l) = e.a /\ OrderOf(l) = place[s]
  BY <1>3, <1>4, <1>5 DEF Lines, ArticleOf, OrderOf, Entry
<1>7. l \in LinesOf(db', e.r)
  BY <1>3, <1>4, <1>5, <1>6 DEF LinesOf
<1>8. db'.order[OrderOf(l)] = Basket(s)
  BY <1>3, <1>4, <1>5, <1>6
<1>9. Basket(s).supplier = s
  BY DEF Basket
<1> QED BY <1>3, <1>6, <1>7, <1>8, <1>9

\* With one worker the savepoint of a request keeps all of its consultation or none:
\* no supplier is left out, and no line lands in an order of another supplier.
THEOREM ConsultsAll == ASSUME Alone PROVE Spec => AllOrNothing
<1>1. OneInv /\ [Next]_vars =>
          [\A w \in Workers : \A e \in job[w].todo \ job'[w].todo :
              Dispatches(w) =>
                  \A s \in TargetSet(e.a) : \E l \in LinesOf(db', e.r) :
                      ArticleOf(l) = e.a /\ db'.order[OrderOf(l)].supplier = s]_vars
  BY NextAllOrNothing
<1> QED BY <1>1, OneInvariance, PTL DEF Spec, AllOrNothing

\* What ClosedFreezesRequests says of request r.
Freezes(d, e, r) ==
    Frozen(d, r) \/ (Frozen(e, r) /\ e.closed = d.closed) => e.request[r] = d.request[r]

LEMMA SameRequests ==
    ASSUME NEW d, NEW e, e.request = d.request, NEW r PROVE Freezes(d, e, r)
BY DEF Freezes

\* The transactions that write requests, on one that is not frozen.
LEMMA OneRequestFreezes ==
    ASSUME NEW d \in Database, NEW e, NEW q \in Requests,
           \A r \in Requests : r # q => e.request[r] = d.request[r],
           e.closed = d.closed, ~ Frozen(d, q), ~ Frozen(e, q), NEW r \in Requests
    PROVE  Freezes(d, e, r)
BY DEF Freezes

LEMMA RequestStepFreezes ==
    ASSUME OneInv, NEW w \in Workers, RequestStep(w), NEW r \in Requests
    PROVE  Freezes(db, db', r)
<1>0. db \in Database /\ FrameFits(job[w]) /\ Ready(db, job[w])
  BY DEF OneInv, IInv, Fit, Consistent
<1> DEFINE f == job[w]
<1>1. CASE CreateWrite(w)
  <2> DEFINE row == [status |-> "live", article |-> f.a, quantity |-> f.q,
                     intervention |-> f.i]
  <2>1. /\ f.at = "creating" /\ f.r \in Requests
        /\ db.request[f.r] = NoRequest
        /\ db' = [db EXCEPT !.request[f.r] = row]
    BY <1>0, <1>1 DEF CreateWrite, Ends, FrameFits, InsertRequest
  <2>2. row.intervention \notin db.closed
    BY <1>0, <2>1 DEF Ready
  <2> HIDE DEF row
  <2>3. /\ \A x \in Requests : db'.request[x] = IF x = f.r THEN row ELSE db.request[x]
        /\ db'.closed = db.closed
    BY <1>0, <2>1 DEF Database
  <2>4. ~ Frozen(db, f.r) /\ ~ Frozen(db', f.r)
    BY <1>0, <2>1, <2>2, <2>3, NullNotClosed DEF Frozen, NoRequest
  <2>5. \A x \in Requests : x # f.r => db'.request[x] = db.request[x]
    BY <2>3
  <2>6. f.r \in Requests
    BY <2>1
  <2> HIDE DEF f
  <2> QED BY <1>0, <2>3, <2>4, <2>5, <2>6, OneRequestFreezes
<1>2. CASE UpdateWrite(w)
  <2>1. f.at = "updating" /\ f.r \in Requests
    BY <1>0, <1>2 DEF UpdateWrite, FrameFits
  <2>2. PICK a : db' = UpdateRequest(db, f.r, a, f.q)
    BY <1>2 DEF UpdateWrite, Ends
  <2>3. CASE db.request[f.r].status # "live"
    BY <2>2, <2>3, SameRequests DEF UpdateRequest
  <2>4. CASE db.request[f.r].status = "live"
    <3> DEFINE row == [db.request[f.r] EXCEPT !.article = a, !.quantity = f.q]
    <3>1. row.intervention = db.request[f.r].intervention
      BY <1>0, <2>1 DEF Database, RequestRow
    <3>2. db' = [db EXCEPT !.request[f.r] = row]
      BY <1>0, <2>1, <2>2, <2>4 DEF UpdateRequest, Database
    <3> HIDE DEF row
    <3>3. /\ \A x \in Requests : db'.request[x] = IF x = f.r THEN row ELSE db.request[x]
          /\ db'.closed = db.closed
      BY <1>0, <2>1, <3>2 DEF Database
    <3>4. ~ Frozen(db, f.r) /\ ~ Frozen(db', f.r)
      BY <1>0, <2>1, <3>1, <3>3 DEF Frozen, Ready
    <3> QED BY <1>0, <2>1, <3>3, <3>4, OneRequestFreezes
  <2> QED BY <2>3, <2>4
<1>3. CASE DeleteWrite(w)
  <2> DEFINE row == [NoRequest EXCEPT !.status = "deleted"]
  <2>1. /\ f.at = "deleting" /\ f.r \in Requests
        /\ db' = DeleteRequestTx(db, f.r)
    BY <1>0, <1>3 DEF DeleteWrite, Ends, FrameFits
  <2>2. row.intervention = Null
    BY DEF NoRequest
  <2>3. /\ \A x \in Requests : db'.request[x] = IF x = f.r THEN row ELSE db.request[x]
        /\ db'.closed = db.closed
    BY <1>0, <2>1 DEF DeleteRequestTx, Database
  <2> HIDE DEF row
  <2>4. ~ Frozen(db, f.r) /\ ~ Frozen(db', f.r)
    BY <1>0, <2>1, <2>2, <2>3, NullNotClosed DEF Frozen, Ready
  <2> QED BY <1>0, <2>1, <2>3, <2>4, OneRequestFreezes
<1>4. CASE db' = db
  BY <1>4, SameRequests
<1> QED BY <1>1, <1>2, <1>3, <1>4
        DEF RequestStep, CreateRead, UpdateRead, DeleteRead, Starts

LEMMA NextFreezes ==
    ASSUME OneInv, [Next]_vars, NEW r \in Requests
    PROVE  Freezes(db, db', r)
<1>0. Consistent(db) /\ db \in Database
  BY DEF OneInv, IInv, Consistent
<1>1. ASSUME NEW w \in Workers, RequestStep(w) PROVE Freezes(db, db', r)
  BY <1>1, RequestStepFreezes
<1>2. ASSUME NEW w \in Workers, OrderStep(w) PROVE Freezes(db, db', r)
  <2>1. db' = db \/ \E o, status, s : db' = UpdateOrder(db, o, status, s)
    BY <1>2 DEF OrderStep, PutRead, PutCheck, PutWrite, Starts, Ends
  <2>2. \A o, status, s : UpdateOrder(db, o, status, s).request = db.request
    BY <1>0 DEF UpdateOrder, Database
  <2> QED BY <2>1, <2>2, SameRequests
<1>3. ASSUME NEW w \in Workers, DispatchStep(w) PROVE Freezes(db, db', r)
  <2>1. db' = db \/ \E e, cache, place : db' = Place(db, e, cache, place)
    BY <1>3 DEF DispatchStep, DispatchRead, FindOrder, DispatchOne, DispatchFails, Starts
  <2>2. \A e, cache, place : Place(db, e, cache, place).request = db.request
    BY <1>0 DEF Place, Database
  <2> QED BY <2>1, <2>2, SameRequests
<1>4. ASSUME NEW w \in Workers, Fail(w) PROVE Freezes(db, db', r)
  BY <1>4, SameRequests DEF Fail
<1>5. ASSUME NEW o \in Orders,
             \/ \E s \in Suppliers, status \in OrderStatuses : CreateOrder(o, s, status)
             \/ DeleteOrder(o)
      PROVE  Freezes(db, db', r)
  <2>1. \A s, status : InsertOrder(db, o, s, status).request = db.request
    BY <1>0 DEF InsertOrder, Database
  <2>2. DeleteOrderTx(db, o).request = db.request
    BY <1>0 DEF DeleteOrderTx, DropLines, Database
  <2> QED BY <1>5, <2>1, <2>2, SameRequests DEF CreateOrder, DeleteOrder, Serves
<1>6. CASE LineStep
  <2>1. \A l, row, allot : AddLineTx(db, l, row, allot).request = db.request
    BY <1>0 DEF AddLineTx, Relink, Deselect, Database
  <2>2. \A l, row, select, allot :
            PatchLineTx(db, l, row, select, allot).request = db.request
    BY <1>0 DEF PatchLineTx, Relink, Deselect, Database
  <2>3. \A ls : DropLines(db, ls).request = db.request
    BY <1>0 DEF DropLines, Database
  <2>4. ASSUME NEW l \in Lines, NEW row \in LineRow, NEW allot, AddLine(l, row, allot)
        PROVE  db'.request = db.request
    BY <2>1, <2>4 DEF AddLine, Serves
  <2>5. ASSUME NEW l \in Lines, NEW row \in LineRow, NEW select, NEW allot,
               PatchLine(l, row, select, allot)
        PROVE  db'.request = db.request
    BY <2>2, <2>5 DEF PatchLine, Serves
  <2>6. ASSUME NEW l \in Lines, DeleteLine(l) PROVE db'.request = db.request
    BY <2>3, <2>6 DEF DeleteLine, Serves
  <2>7. ASSUME NEW l \in Lines, NEW x \in Requests,
               Unlink(l, x) \/ \E q \in 1 .. MaxQuantity : Link(l, x, q)
        PROVE  db'.request = db.request
    <3>1. PICK q : db' = [db EXCEPT !.link[x][l] = q]
      BY <2>7 DEF Link, Unlink, Serves
    <3> QED BY <1>0, <3>1 DEF Database
  <2>8. db'.request = db.request
    BY <1>6, <2>4, <2>5, <2>6, <2>7 DEF LineStep
  <2> QED BY <2>8, SameRequests
<1>7. ASSUME NEW i \in Interventions, CloseIntervention(i) PROVE Freezes(db, db', r)
  <2>1. db'.request = db.request
    BY <1>0, <1>7 DEF CloseIntervention, Serves, Database
  <2> QED BY <2>1, SameRequests
<1>8. CASE UNCHANGED vars
  BY <1>8, SameRequests DEF vars
<1> QED BY <1>1, <1>2, <1>3, <1>4, <1>5, <1>6, <1>7, <1>8 DEF Next

\* With one worker the check made before the write is enough: a purchase request of a
\* closed intervention is neither changed, nor deleted, nor added.
THEOREM RequestsFrozen == ASSUME Alone PROVE Spec => ClosedFreezesRequests
<1>1. OneInv /\ [Next]_vars =>
          [\A r \in Requests :
              Frozen(db, r) \/ (Frozen(db', r) /\ db'.closed = db.closed)
              => db'.request[r] = db.request[r]]_vars
  BY NextFreezes DEF Freezes
<1> QED BY <1>1, OneInvariance, PTL DEF Spec, ClosedFreezesRequests

------------------------------------------------------------------------------
(* Sums: the inductions are on sets of naturals and of sets, by least       *)
(* counterexamples.                                                         *)

LEMMA Least ==
    ASSUME NEW B \in SUBSET Nat, B # {}
    PROVE  \E n \in B : \A m \in B : n <= m
<1> DEFINE R == {ss \in Nat \X Nat : ss[1] < ss[2]}
<1>1. IsWellFoundedOn(R, Nat)
  BY NatLessThanWellFounded DEF OpToRel
<1> HIDE DEF R
<1>2. PICK n \in B : \A m \in B : <<m, n>> \notin R
  BY <1>1, WFMin
<1>3. ASSUME NEW m \in B PROVE n <= m
  <2>1. <<m, n>> \in Nat \X Nat /\ <<m, n>>[1] = m /\ <<m, n>>[2] = n
    OBVIOUS
  <2> QED BY <1>2, <2>1 DEF R
<1> QED BY <1>3

LEMMA Counting ==
    ASSUME NEW P \in SUBSET Nat, 0 \in P, \A n \in P : n + 1 \in P
    PROVE  P = Nat
<1>1. ASSUME Nat \ P # {} PROVE FALSE
  <2>1. PICK n \in Nat \ P : \A m \in Nat \ P : n <= m
    BY <1>1, Least
  <2>2. n - 1 \in Nat /\ n - 1 + 1 = n /\ ~ (n <= n - 1)
    <3>1. n # 0
      OBVIOUS
    <3> QED BY <3>1
  <2> QED BY <2>1, <2>2
<1> QED BY <1>1

\* Whatever holds of a subset as soon as it holds of it without any one element
LEMMA SubsetsOf ==
    ASSUME NEW S, IsFiniteSet(S), NEW Good \in SUBSET SUBSET S,
           \A t \in SUBSET S : (\A x \in t : t \ {x} \in Good) => t \in Good
    PROVE  Good = SUBSET S
<1> DEFINE P == {n \in Nat : \A t \in SUBSET S : Cardinality(t) <= n => t \in Good}
<1>0. \A t \in SUBSET S : /\ IsFiniteSet(t) /\ Cardinality(t) \in Nat
                          /\ \A x \in t : Cardinality(t \ {x}) = Cardinality(t) - 1
  BY FS_Subset, FS_CardinalityType, FS_RemoveElement
<1>1. 0 \in P
  <2>1. ASSUME NEW t \in SUBSET S, Cardinality(t) <= 0 PROVE t \in Good
    <3>1. t = {}
      BY <1>0, <2>1, FS_EmptySet
    <3> QED BY <3>1
  <2> QED BY <2>1
<1>2. ASSUME NEW n \in P PROVE n + 1 \in P
  <2>1. ASSUME NEW t \in SUBSET S, Cardinality(t) <= n + 1 PROVE t \in Good
    <3>1. ASSUME NEW x \in t PROVE t \ {x} \in Good
      BY <1>0, <2>1
    <3> QED BY <3>1
  <2> QED BY <2>1
<1> HIDE DEF P
<1>3. P = Nat
  <2>1. P \in SUBSET Nat
    BY DEF P
  <2> QED BY <1>1, <1>2, <2>1, Counting
<1>4. ASSUME NEW t \in SUBSET S PROVE t \in Good
  BY <1>0, <1>3 DEF P
<1> QED BY <1>4

First(s) == CHOOSE x \in s : TRUE

\* The function by which the sum is defined
Adds(f, S, g) ==
    g = [s \in SUBSET S |-> IF s = {} THEN 0 ELSE f[First(s)] + g[s \ {First(s)}]]

LEMMA SumIs ==
    ASSUME NEW f, NEW S
    PROVE  SumFunctionOnSet(f, S) = (CHOOSE g : Adds(f, S, g))[S]
BY DEF SumFunctionOnSet, FoldFunctionOnSet, MapThenFoldSet, Adds, First

Counts(f, S) == \A x \in S : f[x] \in Nat

\* It exists: right for the sets of n elements at most, n by n.
LEMMA SumExists ==
    ASSUME NEW f, NEW S, IsFiniteSet(S), Counts(f, S)
    PROVE  \E g : Adds(f, S, g)
<1> DEFINE Step(g, s) == IF s = {} THEN 0 ELSE f[First(s)] + g[s \ {First(s)}]
           Upto(g, n) == \A s \in SUBSET S : Cardinality(s) <= n => g[s] = Step(g, s)
           P == {n \in Nat : \E g \in [SUBSET S -> Nat] : Upto(g, n)}
<1>0. \A s \in SUBSET S : /\ IsFiniteSet(s) /\ Cardinality(s) \in Nat
                          /\ s # {} => /\ First(s) \in s
                                       /\ Cardinality(s \ {First(s)}) = Cardinality(s) - 1
                          /\ Cardinality(s) = 0 => s = {}
  <2>1. \A s \in SUBSET S : s # {} => First(s) \in s
    BY DEF First
  <2> QED BY <2>1, FS_Subset, FS_CardinalityType, FS_RemoveElement, FS_EmptySet
<1>1. 0 \in P
  <2> DEFINE g == [s \in SUBSET S |-> 0]
  <2>1. g \in [SUBSET S -> Nat] /\ Upto(g, 0)
    BY <1>0
  <2> QED BY <2>1
<1>2. ASSUME NEW n \in P PROVE n + 1 \in P
  <2>1. PICK g \in [SUBSET S -> Nat] : Upto(g, n)
    OBVIOUS
  <2> DEFINE h == [s \in SUBSET S |-> IF Cardinality(s) <= n THEN g[s] ELSE Step(g, s)]
  <2>2. h \in [SUBSET S -> Nat]
    <3>1. ASSUME NEW s \in SUBSET S PROVE Step(g, s) \in Nat
      BY <1>0 DEF Counts
    <3> HIDE DEF Step
    <3> QED BY <3>1
  <2>3. ASSUME NEW s \in SUBSET S, Cardinality(s) <= n + 1 PROVE h[s] = Step(h, s)
    <3>1. h[s] = Step(g, s)
      BY <2>1
    <3>2. s # {} => h[s \ {First(s)}] = g[s \ {First(s)}]
      BY <1>0, <2>3
    <3> HIDE DEF h
    <3> QED BY <3>1, <3>2
  <2> HIDE DEF h
  <2>4. Upto(h, n + 1)
    BY <2>3
  <2>5. n + 1 \in Nat
    OBVIOUS
  <2> HIDE DEF Upto, Step
  <2> QED BY <2>2, <2>4, <2>5
<1>3. P = Nat
  <2>1. P \in SUBSET Nat
    OBVIOUS
  <2> HIDE DEF P
  <2> QED BY <1>1, <1>2, <2>1, Counting
<1>4. Cardinality(S) \in P
  BY <1>3, FS_CardinalityType
<1>5. PICK g \in [SUBSET S -> Nat] : Upto(g, Cardinality(S))
  BY <1>4
<1>6. ASSUME NEW s \in SUBSET S PROVE g[s] = Step(g, s)
  BY <1>5, FS_Subset
<1>7. g = [s \in SUBSET S |-> Step(g, s)]
  BY <1>6
<1> QED BY <1>7 DEF Adds

\* It is the only one, on the subsets on which the functions agree.
LEMMA SumUnique ==
    ASSUME NEW f, NEW S, IsFiniteSet(S), NEW g, Adds(f, S, g), Counts(f, S),
           NEW e, NEW T \in SUBSET S, NEW h, Adds(e, T, h), \A x \in T : e[x] = f[x]
    PROVE  \A t \in SUBSET T : g[t] = h[t] /\ g[t] \in Nat
<1> DEFINE Good == {t \in SUBSET T : g[t] = h[t] /\ g[t] \in Nat}
<1>1. ASSUME NEW t \in SUBSET T, \A x \in t : t \ {x} \in Good PROVE t \in Good
  <2>1. /\ g[t] = IF t = {} THEN 0 ELSE f[First(t)] + g[t \ {First(t)}]
        /\ h[t] = IF t = {} THEN 0 ELSE e[First(t)] + h[t \ {First(t)}]
    BY DEF Adds
  <2>2. CASE t = {}
    BY <2>1, <2>2
  <2>3. CASE t # {}
    <3>1. First(t) \in t
      BY <2>3 DEF First
    <3>2. t \ {First(t)} \in Good
      BY <1>1, <3>1
    <3> QED BY <2>1, <2>3, <3>1, <3>2 DEF Counts
  <2> QED BY <2>2, <2>3
<1>2. Good \in SUBSET SUBSET T /\ IsFiniteSet(T)
  BY FS_Subset
<1> HIDE DEF Good
<1>3. Good = SUBSET T
  BY <1>1, <1>2, SubsetsOf
<1> QED BY <1>3 DEF Good

\* The sum over S, as that function gives it for any of its subsets
LEMMA SumOn ==
    ASSUME NEW f, NEW S, IsFiniteSet(S), Counts(f, S)
    PROVE  \E g : /\ Adds(f, S, g)
                  /\ \A t \in SUBSET S : SumFunctionOnSet(f, t) = g[t] /\ g[t] \in Nat
<1>1. PICK g : Adds(f, S, g)
  BY SumExists
<1>2. ASSUME NEW t \in SUBSET S PROVE SumFunctionOnSet(f, t) = g[t] /\ g[t] \in Nat
  <2>1. IsFiniteSet(t) /\ Counts(f, t)
    BY FS_Subset DEF Counts
  <2> DEFINE h == CHOOSE h : Adds(f, t, h)
  <2>2. Adds(f, t, h)
    BY <2>1, SumExists
  <2>3. SumFunctionOnSet(f, t) = h[t]
    BY SumIs
  <2> HIDE DEF h
  <2> QED BY <1>1, <2>2, <2>3, SumUnique
<1> QED BY <1>1, <1>2

LEMMA SumType ==
    ASSUME NEW f, NEW S, IsFiniteSet(S), Counts(f, S)
    PROVE  SumFunctionOnSet(f, S) \in Nat
BY SumOn

\* Any element may be taken out, not only the one the definition takes.
LEMMA SumTakeOut ==
    ASSUME NEW f, NEW S, IsFiniteSet(S), Counts(f, S), NEW y \in S
    PROVE  /\ SumFunctionOnSet(f, S) = f[y] + SumFunctionOnSet(f, S \ {y})
           /\ SumFunctionOnSet(f, S \ {y}) \in Nat
<1>1. PICK g : /\ Adds(f, S, g)
               /\ \A t \in SUBSET S : SumFunctionOnSet(f, t) = g[t] /\ g[t] \in Nat
  BY SumOn
<1> DEFINE Good == {t \in SUBSET S : \A x \in t : g[t] = f[x] + g[t \ {x}]}
<1>2. ASSUME NEW t \in SUBSET S, \A x \in t : t \ {x} \in Good PROVE t \in Good
  <2> SUFFICES ASSUME NEW x \in t PROVE g[t] = f[x] + g[t \ {x}]
    OBVIOUS
  <2> DEFINE z == First(t)
  <2>1. z \in t
    BY DEF First
  <2>2. g[t] = f[z] + g[t \ {z}]
    BY <1>1 DEF Adds
  <2> HIDE DEF z
  <2>3. CASE x = z
    BY <2>2, <2>3
  <2>4. CASE x # z
    <3>1. g[t \ {z}] = f[x] + g[(t \ {z}) \ {x}]
      BY <1>2, <2>1, <2>4
    <3>2. g[t \ {x}] = f[z] + g[(t \ {x}) \ {z}]
      BY <1>2, <2>1, <2>4
    <3>3. (t \ {z}) \ {x} = (t \ {x}) \ {z}
      OBVIOUS
    <3>4. f[x] \in Nat /\ f[z] \in Nat /\ g[(t \ {x}) \ {z}] \in Nat
      BY <1>1, <2>1 DEF Counts
    <3> HIDE DEF Good
    <3> DEFINE a == f[x]
               b == f[z]
               c == g[(t \ {x}) \ {z}]
    <3>5. a \in Nat /\ b \in Nat /\ c \in Nat
      BY <3>4
    <3>6. g[t] = b + (a + c) /\ g[t \ {x}] = b + c
      BY <2>2, <3>1, <3>2, <3>3
    <3> HIDE DEF a, b, c
    <3>7. g[t] = a + g[t \ {x}]
      BY <3>5, <3>6
    <3> QED BY <3>7 DEF a
  <2> QED BY <2>3, <2>4
<1>3. Good \in SUBSET SUBSET S
  OBVIOUS
<1> HIDE DEF Good
<1>4. Good = SUBSET S
  BY <1>2, <1>3, SubsetsOf
<1>5. g[S] = f[y] + g[S \ {y}]
  BY <1>4 DEF Good
<1> QED BY <1>1, <1>5

LEMMA SumSame ==
    ASSUME NEW f, NEW S, IsFiniteSet(S), Counts(f, S), NEW e, \A x \in S : e[x] = f[x]
    PROVE  SumFunctionOnSet(e, S) = SumFunctionOnSet(f, S)
<1>1. PICK g : Adds(f, S, g) /\ \A t \in SUBSET S : SumFunctionOnSet(f, t) = g[t]
  BY SumOn
<1>2. PICK h : Adds(e, S, h) /\ \A t \in SUBSET S : SumFunctionOnSet(e, t) = h[t]
  BY SumOn DEF Counts
<1>3. g[S] = h[S]
  BY <1>1, <1>2, SumUnique
<1> QED BY <1>1, <1>2, <1>3

LEMMA SumOfNone ==
    ASSUME NEW f, NEW S, IsFiniteSet(S), \A x \in S : f[x] = 0
    PROVE  SumFunctionOnSet(f, S) = 0
<1>0. Counts(f, S)
  BY DEF Counts
<1>1. PICK g : Adds(f, S, g) /\ \A t \in SUBSET S : SumFunctionOnSet(f, t) = g[t]
  BY <1>0, SumOn
<1> DEFINE Good == {t \in SUBSET S : g[t] = 0}
<1>2. ASSUME NEW t \in SUBSET S, \A x \in t : t \ {x} \in Good PROVE t \in Good
  <2>1. g[t] = IF t = {} THEN 0 ELSE f[First(t)] + g[t \ {First(t)}]
    BY <1>1 DEF Adds
  <2>2. t # {} => First(t) \in t
    BY DEF First
  <2>3. t # {} => t \ {First(t)} \in Good /\ f[First(t)] = 0
    BY <1>2, <2>2
  <2> QED BY <2>1, <2>3
<1>3. Good \in SUBSET SUBSET S
  OBVIOUS
<1> HIDE DEF Good
<1>4. Good = SUBSET S
  BY <1>2, <1>3, SubsetsOf
<1> QED BY <1>1, <1>4 DEF Good

\* A sum of which one term changes
LEMMA SumChanged ==
    ASSUME NEW f, NEW S, IsFiniteSet(S), Counts(f, S), NEW e, Counts(e, S),
           NEW y \in S, \A x \in S \ {y} : e[x] = f[x]
    PROVE  SumFunctionOnSet(e, S) + f[y] = SumFunctionOnSet(f, S) + e[y]
<1>1. /\ SumFunctionOnSet(f, S) = f[y] + SumFunctionOnSet(f, S \ {y})
      /\ SumFunctionOnSet(e, S) = e[y] + SumFunctionOnSet(e, S \ {y})
      /\ SumFunctionOnSet(f, S \ {y}) \in Nat
  BY SumTakeOut
<1>2. IsFiniteSet(S \ {y}) /\ Counts(f, S \ {y})
  BY FS_Subset DEF Counts
<1>3. SumFunctionOnSet(e, S \ {y}) = SumFunctionOnSet(f, S \ {y})
  BY <1>2, SumSame
<1>4. f[y] \in Nat /\ e[y] \in Nat
  BY DEF Counts
<1> QED BY <1>1, <1>3, <1>4

------------------------------------------------------------------------------
(* What lines ask for and what they allot *)

\* The references a dispatch serves at line l
RowsAt(e, place, l) == IF ArticleOf(l) = e.a THEN RowsTo(e.a, place, OrderOf(l)) ELSE {}

LEMMA RowsAtFinite ==
    ASSUME NEW e \in Entry, NEW place, NEW l \in Lines
    PROVE  /\ Cardinality(RowsAt(e, place, l)) \in Nat
           /\ RowsAt(e, place, l) = {} => Cardinality(RowsAt(e, place, l)) = 0
           /\ RowsAt(e, place, l) # {} => Cardinality(RowsAt(e, place, l)) > 0
<1>1. e.a \in Articles
  BY DEF Entry
<1> QED BY <1>1, RowsToFinite, FS_EmptySet DEF RowsAt

\* The allotments of line l, request by request
Allots(d, l) == [r \in Requests |-> d.link[r][l]]

LEMMA AllotsCount ==
    ASSUME NEW d \in Database, NEW l \in Lines
    PROVE  /\ IsFiniteSet(Requests) /\ Counts(Allots(d, l), Requests)
           /\ Asked(d, l) = SumFunctionOnSet(Allots(d, l), Requests) /\ Asked(d, l) \in Nat
           /\ d.line[l].quantity \in Nat /\ d.line[l] \in LineRow
           /\ \A r \in Requests : Allots(d, l)[r] = d.link[r][l] /\ d.link[r][l] \in Nat
<1>1. \A r \in Requests : d.link[r][l] \in Nat
  BY CatalogueAssumption DEF Database
<1>2. IsFiniteSet(Requests) /\ Counts(Allots(d, l), Requests)
  BY <1>1, CatalogueAssumption DEF Counts, Allots
<1>3. Asked(d, l) = SumFunctionOnSet(Allots(d, l), Requests)
  BY DEF Asked, Allots
<1>4. d.line[l].quantity \in Nat /\ d.line[l] \in LineRow
  BY CatalogueAssumption DEF Database, LineRow
<1> QED BY <1>1, <1>2, <1>3, <1>4, SumType DEF Allots

LEMMA PlaceAdds ==
    ASSUME NEW d \in Database, NEW e \in Entry, NEW cache, NEW place, NEW l \in Lines
    PROVE  /\ Place(d, e, cache, place).line[l].quantity =
                  d.line[l].quantity + e.q * Cardinality(RowsAt(e, place, l))
           /\ RowsAt(e, place, l) = {} =>
                  Place(d, e, cache, place).line[l] = d.line[l]
           /\ Place(d, e, cache, place).link[e.r][l] =
                  IF RowsAt(e, place, l) # {} THEN e.q ELSE d.link[e.r][l]
           /\ \A r \in Requests \ {e.r} :
                  Place(d, e, cache, place).link[r][l] = d.link[r][l]
<1> DEFINE c == Place(d, e, cache, place)
           opened == {s \in TargetSet(e.a) : cache[s] = "new"}
           order == [o \in Orders |->
                        IF \E s \in opened : place[s] = o
                        THEN [status |-> "OPEN",
                              supplier |-> CHOOSE s \in opened : place[s] = o]
                        ELSE d.order[o]]
           line == [k \in Lines |-> [d.line[k] EXCEPT !.quantity =
                                        @ + e.q * Cardinality(RowsAt(e, place, k))]]
           links == [k \in Lines |-> IF RowsAt(e, place, k) # {} THEN e.q ELSE d.link[e.r][k]]
<1>1. c = [d EXCEPT !.order = order, !.line = line, !.link[e.r] = links]
  BY DEF Place, Database, RowsAt
<1>2. e.r \in Requests
  BY DEF Entry
<1>3. /\ line[l] = [d.line[l] EXCEPT !.quantity = @ + e.q * Cardinality(RowsAt(e, place, l))]
      /\ links[l] = IF RowsAt(e, place, l) # {} THEN e.q ELSE d.link[e.r][l]
  OBVIOUS
<1> HIDE DEF order, line, links, c
<1>4. c.line = line /\ \A r \in Requests : c.link[r] = IF r = e.r THEN links ELSE d.link[r]
  BY <1>1, <1>2 DEF Database
<1>5. c.line[l].quantity = d.line[l].quantity + e.q * Cardinality(RowsAt(e, place, l))
  BY <1>3, <1>4, AllotsCount DEF LineRow
<1>6. RowsAt(e, place, l) = {} => c.line[l] = d.line[l]
  <2>1. SUFFICES ASSUME RowsAt(e, place, l) = {}
                 PROVE  c.line[l] = d.line[l]
    OBVIOUS
  <2>2. Cardinality(RowsAt(e, place, l)) = 0
    BY <2>1, FS_EmptySet
  <2>3. e.q \in Nat
    BY CatalogueAssumption DEF Entry
  <2> QED BY <1>3, <1>4, <2>2, <2>3, AllotsCount DEF LineRow
<1> QED BY <1>2, <1>3, <1>4, <1>5, <1>6 DEF c

LEMMA AskedSame ==
    ASSUME NEW d \in Database, NEW e \in Database, NEW l \in Lines,
           \A r \in Requests : e.link[r][l] = d.link[r][l]
    PROVE  Asked(e, l) = Asked(d, l)
<1>1. \A r \in Requests : Allots(e, l)[r] = Allots(d, l)[r]
  BY AllotsCount
<1> QED BY <1>1, AllotsCount, SumSame

LEMMA AskedChanged ==
    ASSUME NEW d \in Database, NEW e \in Database, NEW l \in Lines, NEW r \in Requests,
           \A x \in Requests \ {r} : e.link[x][l] = d.link[x][l]
    PROVE  Asked(e, l) + d.link[r][l] = Asked(d, l) + e.link[r][l]
<1>1. \A x \in Requests \ {r} : Allots(e, l)[x] = Allots(d, l)[x]
  BY AllotsCount
<1>2. SumFunctionOnSet(Allots(e, l), Requests) + Allots(d, l)[r]
          = SumFunctionOnSet(Allots(d, l), Requests) + Allots(e, l)[r]
  BY <1>1, AllotsCount, SumChanged
<1> QED BY <1>2, AllotsCount

LEMMA AskedNone ==
    ASSUME NEW d \in Database, NEW l \in Lines, \A r \in Requests : d.link[r][l] = 0
    PROVE  Asked(d, l) = 0
<1>1. \A r \in Requests : Allots(d, l)[r] = 0
  BY AllotsCount
<1> QED BY <1>1, AllotsCount, SumOfNone

------------------------------------------------------------------------------
(* Lines and links that only the dispatch writes *)

NoHandEdits == Endpoints \cap {"line", "link"} = {}

Covers(d) == \A l \in Lines : d.line[l].quantity >= Asked(d, l)

\* Rows and links of lines as they were
LEMMA CoversSame ==
    ASSUME NEW d \in Database, NEW e \in Database, Covers(d), e.line = d.line, e.link = d.link
    PROVE  Covers(e)
BY AskedSame DEF Covers

LEMMA DeleteRequestCovers ==
    ASSUME NEW d \in Database, Covers(d), NEW r \in Requests,
           DeleteRequestTx(d, r) \in Database
    PROVE  Covers(DeleteRequestTx(d, r))
<1> DEFINE e == DeleteRequestTx(d, r)
<1> SUFFICES ASSUME NEW l \in Lines PROVE e.line[l].quantity >= Asked(e, l)
  BY DEF Covers
<1>1. /\ e.line = d.line /\ e.link[r][l] = 0
      /\ \A x \in Requests \ {r} : e.link[x][l] = d.link[x][l]
  BY DEF DeleteRequestTx, Database
<1> HIDE DEF e
<1>2. Asked(e, l) + d.link[r][l] = Asked(d, l) + e.link[r][l]
  BY <1>1, AskedChanged DEF e
<1>3. /\ Asked(d, l) \in Nat /\ d.link[r][l] \in Nat /\ d.line[l].quantity \in Nat
      /\ d.line[l].quantity >= Asked(d, l) /\ Asked(e, l) \in Nat
  BY AllotsCount DEF Covers, e
<1> QED BY <1>1, <1>2, <1>3

LEMMA DeleteOrderCovers ==
    ASSUME NEW d, Consistent(d), Covers(d), NEW o \in Orders
    PROVE  Covers(DeleteOrderTx(d, o))
<1> DEFINE ls == {l \in Lines : OrderOf(l) = o}
           c == DropLines(d, ls)
           e == DeleteOrderTx(d, o)
<1>1. /\ Consistent(c)
      /\ \A l \in Lines : /\ c.line[l] = IF l \in ls THEN NoLine ELSE d.line[l]
                         /\ \A r \in Requests :
                                c.link[r][l] = IF l \in ls THEN 0 ELSE d.link[r][l]
  BY DropLinesEffect
<1>2. e = [c EXCEPT !.order[o] = [NoOrder EXCEPT !.status = "deleted"]]
  BY DEF DeleteOrderTx
<1>3. Consistent(e)
  BY DeleteOrderKept
<1> HIDE DEF c, e, ls
<1>4. e.line = c.line /\ e.link = c.link
  BY <1>1, <1>2 DEF Consistent, Database
<1>5. ASSUME NEW l \in Lines PROVE e.line[l].quantity >= Asked(e, l)
  <2>1. CASE l \in ls
    <3>1. Asked(e, l) = 0
      BY <1>1, <1>3, <1>4, <2>1, AskedNone DEF Consistent
    <3> QED BY <1>1, <1>4, <2>1, <3>1, NoLineType
  <2>2. CASE l \notin ls
    <3>1. Asked(e, l) = Asked(d, l)
      BY <1>1, <1>3, <1>4, <2>2, AskedSame DEF Consistent
    <3> QED BY <1>1, <1>4, <2>2, <3>1 DEF Covers
  <2> QED BY <2>1, <2>2
<1> QED BY <1>5 DEF Covers, e

\* A line grows by as many times the quantity as its supplier has references; the link
\* takes it once.
LEMMA PlaceCovers ==
    ASSUME NEW d \in Database, Covers(d), NEW e \in Entry, NEW cache, NEW place,
           Place(d, e, cache, place) \in Database
    PROVE  Covers(Place(d, e, cache, place))
<1> SUFFICES ASSUME NEW l \in Lines
             PROVE  Place(d, e, cache, place).line[l].quantity
                        >= Asked(Place(d, e, cache, place), l)
  BY DEF Covers
<1>0. /\ Place(d, e, cache, place).line[l].quantity =
             d.line[l].quantity + e.q * Cardinality(RowsAt(e, place, l))
      /\ Place(d, e, cache, place).link[e.r][l] =
             IF RowsAt(e, place, l) # {} THEN e.q ELSE d.link[e.r][l]
      /\ \A r \in Requests \ {e.r} :
             Place(d, e, cache, place).link[r][l] = d.link[r][l]
  BY PlaceAdds
<1> DEFINE c == Place(d, e, cache, place)
           rows == RowsAt(e, place, l)
           n == Cardinality(rows)
<1>1. /\ c.line[l].quantity = d.line[l].quantity + e.q * n
      /\ c.link[e.r][l] = IF rows # {} THEN e.q ELSE d.link[e.r][l]
      /\ \A r \in Requests \ {e.r} : c.link[r][l] = d.link[r][l]
  BY <1>0
<1>2. n \in Nat /\ (rows = {} => n = 0) /\ (rows # {} => n > 0)
  BY RowsAtFinite
<1>3. e.r \in Requests /\ e.q \in Nat
  BY CatalogueAssumption DEF Entry
<1> HIDE DEF c, rows, n
<1>4. Asked(c, l) + d.link[e.r][l] = Asked(d, l) + c.link[e.r][l]
  BY <1>1, <1>3, AskedChanged DEF c
<1>5. /\ Asked(d, l) \in Nat /\ d.link[e.r][l] \in Nat /\ d.line[l].quantity \in Nat
      /\ d.line[l].quantity >= Asked(d, l) /\ Asked(c, l) \in Nat
  BY <1>3, AllotsCount DEF Covers, c
<1>7. ASSUME rows = {} PROVE c.line[l].quantity >= Asked(c, l)
  <2>1. e.q * n = 0
    BY <1>2, <1>3, <1>7
  <2>2. c.link[e.r][l] = d.link[e.r][l]
    BY <1>1, <1>7
  <2> QED BY <1>4, <1>5, <1>1, <2>1, <2>2
<1>8. ASSUME rows # {} PROVE c.line[l].quantity >= Asked(c, l)
  <2>1. e.q * n >= e.q
    <3> DEFINE q == e.q
               m == n - 1
    <3>1. m \in Nat /\ n = m + 1 /\ q \in Nat
      BY <1>2, <1>3, <1>8
    <3> HIDE DEF q, m
    <3>2. q * (m + 1) = q * m + q /\ q * m \in Nat
      BY <3>1, SMTT(30)
    <3>3. q * n >= q
      BY <3>1, <3>2
    <3> QED BY <3>3 DEF q
  <2>2. e.q * n \in Nat
    BY <1>2, <1>3
  <2>3. c.link[e.r][l] = e.q
    BY <1>1, <1>8
  <2> QED BY <1>3, <1>4, <1>5, <1>1, <2>1, <2>2, <2>3
<1>9. c.line[l].quantity >= Asked(c, l)
  BY <1>7, <1>8
<1> QED BY <1>9 DEF c

LEMMA NextCovers ==
    ASSUME NoHandEdits, IInv, Covers(db), [Next]_vars
    PROVE  Covers(db')
<1>0. Consistent(db) /\ db \in Database
  BY DEF IInv, Consistent
<1>1. db' \in Database
  BY NextInv DEF IInv, Consistent
<1>2. ASSUME db'.line = db.line, db'.link = db.link PROVE Covers(db')
  BY <1>0, <1>1, <1>2, CoversSame
<1>3. ASSUME NEW w \in Workers, RequestStep(w) PROVE Covers(db')
  <2>1. \/ db' = db
        \/ \E r, a, q, i : db' = InsertRequest(db, r, a, q, i)
        \/ \E r, a, q : db' = UpdateRequest(db, r, a, q)
        \/ DeleteWrite(w)
    BY <1>3 DEF RequestStep, CreateRead, UpdateRead, DeleteRead, Starts,
                CreateWrite, UpdateWrite, Ends
  <2>2. CASE DeleteWrite(w)
    <3>1. job[w].r \in Requests
      BY <2>2 DEF DeleteWrite, Ends, IInv, Fit, FrameFits
    <3>2. db' = DeleteRequestTx(db, job[w].r)
      BY <2>2 DEF DeleteWrite, Ends
    <3> QED BY <1>0, <1>1, <3>1, <3>2, DeleteRequestCovers
  <2>3. ASSUME NEW r, NEW a, NEW q, NEW i, db' = InsertRequest(db, r, a, q, i)
        PROVE  Covers(db')
    <3>1. db'.line = db.line /\ db'.link = db.link
      BY <1>0, <2>3 DEF InsertRequest, Database
    <3> QED BY <1>2, <3>1
  <2>4. ASSUME NEW r, NEW a, NEW q, db' = UpdateRequest(db, r, a, q)
        PROVE  Covers(db')
    <3>1. db'.line = db.line /\ db'.link = db.link
      BY <1>0, <2>4 DEF UpdateRequest, Database
    <3> QED BY <1>2, <3>1
  <2> QED BY <1>2, <2>1, <2>2, <2>3, <2>4
<1>4. ASSUME NEW w \in Workers, OrderStep(w) PROVE Covers(db')
  <2>1. db' = db \/ \E o, status, s : db' = UpdateOrder(db, o, status, s)
    BY <1>4 DEF OrderStep, PutRead, PutCheck, PutWrite, Starts, Ends
  <2>2. ASSUME NEW o, NEW status, NEW s, db' = UpdateOrder(db, o, status, s)
        PROVE  db'.line = db.line /\ db'.link = db.link
    BY <1>0, <2>2 DEF UpdateOrder, Database
  <2> QED BY <1>2, <2>1, <2>2
<1>5. ASSUME NEW w \in Workers, DispatchStep(w) PROVE Covers(db')
  <2>1. \/ db' = db
        \/ \E e \in job[w].todo : \E cache, place : db' = Place(db, e, cache, place)
    BY <1>5 DEF DispatchStep, DispatchRead, FindOrder, DispatchOne, DispatchFails, Starts
  <2>2. job[w].todo \subseteq Entry
    BY DEF IInv, Fit, Frame
  <2> QED BY <1>0, <1>1, <1>2, <2>1, <2>2, PlaceCovers
<1>6. ASSUME NEW w \in Workers, Fail(w) PROVE Covers(db')
  BY <1>2, <1>6 DEF Fail
<1>7. ASSUME NEW o \in Orders, NEW s, NEW status, CreateOrder(o, s, status)
      PROVE  Covers(db')
  <2>1. db'.line = db.line /\ db'.link = db.link
    BY <1>0, <1>7 DEF CreateOrder, Serves, InsertOrder, Database
  <2> QED BY <1>2, <2>1
<1>8. ASSUME NEW o \in Orders, DeleteOrder(o) PROVE Covers(db')
  BY <1>0, <1>8, DeleteOrderCovers DEF DeleteOrder, Serves
<1>9. ~ LineStep
  BY DEF NoHandEdits, LineStep, DeleteLine, Link, Unlink, Serves
<1>10. ASSUME NEW i \in Interventions, CloseIntervention(i) PROVE Covers(db')
  <2>1. db'.line = db.line /\ db'.link = db.link
    BY <1>0, <1>10 DEF CloseIntervention, Serves, Database
  <2> QED BY <1>2, <2>1
<1>11. CASE UNCHANGED vars
  BY <1>2, <1>11 DEF vars
<1> QED BY <1>3, <1>4, <1>5, <1>6, <1>7, <1>8, <1>9, <1>10, <1>11 DEF Next

\* However many dispatches overlap, with each other and with everything but edits of lines
\* and links by hand, no line asks its supplier for less than it allots: each reference
\* adds the quantity to the line (ON CONFLICT DO UPDATE adds), each link takes it once.
THEOREM LinesCover == ASSUME NoHandEdits PROVE Spec => []LineCoversLinks
<1>1. Init => Covers(db)
  <2> SUFFICES ASSUME Init PROVE Covers(db)
    OBVIOUS
  <2>1. db \in Database
    BY InitInv DEF IInv, Consistent
  <2>2. ASSUME NEW l \in Lines PROVE db.line[l].quantity = 0 /\ Asked(db, l) = 0
    BY <2>1, AskedNone, NoLineType DEF Init, EmptyDatabase
  <2> QED BY <2>2 DEF Covers
<1>2. IInv /\ Covers(db) /\ [Next]_vars => Covers(db)'
  <2>1. ASSUME IInv, Covers(db), [Next]_vars PROVE Covers(db')
    BY <2>1, NextCovers
  <2> QED BY <2>1 DEF Covers, Asked
<1>3. Covers(db) => LineCoversLinks
  BY DEF Covers, LineCoversLinks
<1> QED BY <1>1, <1>2, <1>3, Invariance, PTL DEF Spec

------------------------------------------------------------------------------
(* With one worker and one reference per supplier, a dispatch adds what it allots *)

\* No supplier has two references of an article.
OneReference ==
    \A a \in Articles : \A j, k \in DOMAIN Rows[a] : Rows[a][j] = Rows[a][k] => j = k

LEMMA OneTarget ==
    ASSUME OneReference, NEW a \in Articles,
           NEW j \in DOMAIN Targets(a), NEW k \in DOMAIN Targets(a),
           Targets(a)[j] = Targets(a)[k]
    PROVE  j = k
<1>1. CASE a \in Direct
  <2>1. DOMAIN Targets(a) = {1}
    BY <1>1 DEF Targets
  <2> QED BY <2>1
<1>2. CASE a \notin Direct
  BY <1>2 DEF Targets, OneReference
<1> QED BY <1>1, <1>2

\* Two suppliers are not placed at one order.
LEMMA PlacedApart ==
    ASSUME NEW d \in Database, NEW a \in Articles, NEW cache \in [Suppliers -> Cached],
           NEW place \in Placements(d, a, cache),
           \A s \in Suppliers : cache[s] \in Orders => d.order[cache[s]] = Basket(s),
           NEW s \in TargetSet(a), NEW t \in TargetSet(a), place[s] = place[t]
    PROVE  s = t
<1>1. TargetSet(a) \subseteq Suppliers
  BY TargetsFacts
<1>2. place[s] \in Orders /\ place[t] \in Orders
  BY DEF Placements
<1>3. CASE cache[s] = "new" \/ cache[t] = "new"
  BY <1>3 DEF Placements
<1>4. CASE cache[s] # "new" /\ cache[t] # "new"
  <2>1. cache[s] = place[s] /\ cache[t] = place[s]
    BY <1>4 DEF Placements
  <2>2. Basket(s) = Basket(t)
    BY <1>1, <1>2, <2>1
  <2> QED BY <2>2 DEF Basket
<1> QED BY <1>3, <1>4

LEMMA PlaceConserves ==
    ASSUME OneReference,
           NEW d \in Database, NEW e \in Entry, NEW cache \in [Suppliers -> Cached],
           NEW place \in Placements(d, e.a, cache),
           \A s \in Suppliers : cache[s] \in Orders => d.order[cache[s]] = Basket(s),
           LinesOf(d, e.r) = {},
           Place(d, e, cache, place) \in Database, NEW l \in Lines
    PROVE  /\ Place(d, e, cache, place).line[l].quantity + Asked(d, l)
                  = d.line[l].quantity + Asked(Place(d, e, cache, place), l)
           /\ Place(d, e, cache, place).line[l] # d.line[l] =>
                  Place(d, e, cache, place).order[OrderOf(l)].status = "OPEN"
<1>0. /\ Place(d, e, cache, place).line[l].quantity =
             d.line[l].quantity + e.q * Cardinality(RowsAt(e, place, l))
      /\ RowsAt(e, place, l) = {} => Place(d, e, cache, place).line[l] = d.line[l]
      /\ Place(d, e, cache, place).link[e.r][l] =
             IF RowsAt(e, place, l) # {} THEN e.q ELSE d.link[e.r][l]
      /\ \A r \in Requests \ {e.r} :
             Place(d, e, cache, place).link[r][l] = d.link[r][l]
  BY PlaceAdds
<1> DEFINE rows == RowsAt(e, place, l)
           c == Place(d, e, cache, place)
<1>1. /\ c.line[l].quantity = d.line[l].quantity + e.q * Cardinality(rows)
      /\ rows = {} => c.line[l] = d.line[l]
      /\ c.link[e.r][l] = IF rows # {} THEN e.q ELSE d.link[e.r][l]
      /\ \A r \in Requests \ {e.r} : c.link[r][l] = d.link[r][l]
  BY <1>0
<1>12. c \in Database /\ \A t \in TargetSet(e.a) : c.order[place[t]] = Basket(t)
  BY PlaceEffect
<1> HIDE DEF c
<1>2. e.r \in Requests /\ e.q \in Nat /\ e.a \in Articles
  BY CatalogueAssumption DEF Entry
<1>3. /\ Asked(d, l) \in Nat /\ Asked(c, l) \in Nat /\ d.link[e.r][l] \in Nat
      /\ d.line[l].quantity \in Nat
  BY <1>2, <1>12, AllotsCount
<1>4. d.link[e.r][l] = 0
  BY <1>3 DEF LinesOf
<1>5. Asked(c, l) = Asked(d, l) + c.link[e.r][l]
  <2>1. Asked(c, l) + d.link[e.r][l] = Asked(d, l) + c.link[e.r][l]
    BY <1>1, <1>2, <1>12, AskedChanged
  <2> QED BY <1>3, <1>4, <2>1
<1>6. ASSUME NEW k \in rows
      PROVE  /\ k \in DOMAIN Targets(e.a) /\ Targets(e.a)[k] \in TargetSet(e.a)
             /\ place[Targets(e.a)[k]] = OrderOf(l)
  BY DEF RowsAt, RowsTo, TargetSet
<1>7. ASSUME NEW j \in rows, NEW k \in rows PROVE j = k
  <2>1. Targets(e.a)[j] = Targets(e.a)[k]
    BY <1>2, <1>6, PlacedApart
  <2> QED BY <1>2, <1>6, <2>1, OneTarget
<1>8. ASSUME rows # {}
      PROVE  /\ Cardinality(rows) = 1 /\ c.order[OrderOf(l)].status = "OPEN"
  <2>1. PICK k \in rows : TRUE
    BY <1>8
  <2>2. rows = {k}
    BY <1>7
  <2> DEFINE s == Targets(e.a)[k]
  <2>3. s \in TargetSet(e.a) /\ place[s] = OrderOf(l)
    BY <1>6
  <2>5. c.order[OrderOf(l)] = Basket(s)
    BY <1>12, <2>3
  <2> HIDE DEF rows
  <2>6. Cardinality(rows) = 1
    BY <2>2, FS_Singleton
  <2> QED BY <2>5, <2>6 DEF Basket
<1> HIDE DEF rows
<1>9. ASSUME rows = {}
      PROVE  /\ c.line[l].quantity + Asked(d, l) = d.line[l].quantity + Asked(c, l)
             /\ c.line[l] # d.line[l] => c.order[OrderOf(l)].status = "OPEN"
  <2>1. c.line[l] = d.line[l] /\ c.link[e.r][l] = 0
    BY <1>1, <1>4, <1>9
  <2> QED BY <1>3, <1>5, <2>1
<1>10. ASSUME rows # {}
      PROVE  /\ c.line[l].quantity + Asked(d, l) = d.line[l].quantity + Asked(c, l)
             /\ c.line[l] # d.line[l] => c.order[OrderOf(l)].status = "OPEN"
  <2>1. c.line[l].quantity = d.line[l].quantity + e.q /\ c.link[e.r][l] = e.q
    BY <1>1, <1>2, <1>8, <1>10
  <2>2. c.line[l].quantity + Asked(d, l) = d.line[l].quantity + Asked(c, l)
    BY <1>2, <1>3, <1>5, <2>1
  <2> QED BY <1>8, <1>10, <2>2
<1>11. /\ c.line[l].quantity + Asked(d, l) = d.line[l].quantity + Asked(c, l)
       /\ c.line[l] # d.line[l] => c.order[OrderOf(l)].status = "OPEN"
  BY <1>9, <1>10
<1> QED BY <1>11 DEF c

LEMMA NextConserves ==
    ASSUME Alone, OneReference, OneInv, [Next]_vars, NEW w \in Workers, Dispatches(w),
           NEW l \in Lines
    PROVE  /\ db'.line[l].quantity + Asked(db, l) = db.line[l].quantity + Asked(db', l)
           /\ db'.line[l] # db.line[l] => db'.order[OrderOf(l)].status = "OPEN"
<1>1. IInv /\ job[w] \in Frame /\ Ready(db, job[w]) /\ db \in Database
  BY DEF OneInv, IInv, Fit, Consistent
<1>2. db' \in Database
  BY <1>1, NextInv DEF IInv, Consistent
<1>3. PICK g \in job[w].todo : DispatchOne(w, g)
  BY DispatchingStep
<1> DEFINE held == job[w].cache
<1>4. PICK place \in Placements(db, g.a, held) : db' = Place(db, g, held, place)
  BY <1>3 DEF DispatchOne
<1>5. /\ g \in Entry /\ held \in [Suppliers -> Cached] /\ LinesOf(db, g.r) = {}
      /\ \A s \in Suppliers : held[s] \in Orders => db.order[held[s]] = Basket(s)
  BY <1>1, <1>3 DEF Frame, Ready, DispatchOne, TakesUp
<1> HIDE DEF held
<1> QED BY <1>1, <1>2, <1>4, <1>5, PlaceConserves

\* With one worker and at most one reference per supplier and article, a dispatch adds
\* to each line exactly what it allots there, and writes only in open orders.  With two
\* references of one supplier the line grows twice and the link takes the quantity once.
THEOREM DispatchAdds == ASSUME Alone, OneReference PROVE Spec => DispatchConserves
<1>1. OneInv /\ [Next]_vars =>
          [(\E w \in Workers : Dispatches(w)) =>
              \A l \in Lines :
                  /\ db'.line[l].quantity + Asked(db, l) = db.line[l].quantity + Asked(db', l)
                  /\ db'.line[l] # db.line[l] => db'.order[OrderOf(l)].status = "OPEN"]_vars
  BY NextConserves
<1> QED BY <1>1, OneInvariance, PTL DEF Spec, DispatchConserves

------------------------------------------------------------------------------
(* More about sums and cardinalities *)

LEMMA SumNone ==
    ASSUME NEW f
    PROVE  SumFunctionOnSet(f, {}) = 0
<1>1. IsFiniteSet({}) /\ Counts(f, {})
  BY FS_EmptySet DEF Counts
<1>2. PICK g : Adds(f, {}, g) /\ \A t \in SUBSET {} : SumFunctionOnSet(f, t) = g[t]
  BY <1>1, SumOn
<1>3. g[{}] = 0
  BY <1>2 DEF Adds
<1> QED BY <1>2, <1>3

\* The sums of disjoint sets add up.
LEMMA SumSplit ==
    ASSUME NEW f, NEW A, NEW B, IsFiniteSet(A), IsFiniteSet(B), A \cap B = {},
           Counts(f, A), Counts(f, B)
    PROVE  SumFunctionOnSet(f, A \cup B) = SumFunctionOnSet(f, A) + SumFunctionOnSet(f, B)
<1> DEFINE Good == {t \in SUBSET A : SumFunctionOnSet(f, t \cup B)
                                         = SumFunctionOnSet(f, t) + SumFunctionOnSet(f, B)}
<1>0. SumFunctionOnSet(f, B) \in Nat
  BY SumType
<1>1. ASSUME NEW t \in SUBSET A, \A x \in t : t \ {x} \in Good PROVE t \in Good
  <2>0. /\ IsFiniteSet(t) /\ Counts(f, t)
        /\ IsFiniteSet(t \cup B) /\ Counts(f, t \cup B)
    BY FS_Subset, FS_Union DEF Counts
  <2>1. CASE t = {}
    <3>1. SumFunctionOnSet(f, t) = 0
      BY <2>0, <2>1, SumNone
    <3>2. SumFunctionOnSet(f, t \cup B) = SumFunctionOnSet(f, B)
      <4>1. t \cup B = B
        BY <2>1
      <4> QED BY <4>1
    <3>3. SumFunctionOnSet(f, t \cup B) = SumFunctionOnSet(f, t) + SumFunctionOnSet(f, B)
      BY <1>0, <3>1, <3>2
    <3> QED BY <3>3
  <2>2. CASE t # {}
    <3>1. PICK x \in t : TRUE
      BY <2>2
    <3>2. /\ SumFunctionOnSet(f, t) = f[x] + SumFunctionOnSet(f, t \ {x})
          /\ SumFunctionOnSet(f, t \ {x}) \in Nat
      BY <2>0, <3>1, SumTakeOut
    <3>3. SumFunctionOnSet(f, t \cup B) = f[x] + SumFunctionOnSet(f, (t \cup B) \ {x})
      BY <2>0, <3>1, SumTakeOut
    <3>4. (t \cup B) \ {x} = (t \ {x}) \cup B
      BY <3>1
    <3>5. SumFunctionOnSet(f, (t \ {x}) \cup B)
              = SumFunctionOnSet(f, t \ {x}) + SumFunctionOnSet(f, B)
      BY <1>1, <3>1
    <3>6. f[x] \in Nat
      BY <2>0, <3>1 DEF Counts
    <3>7. SumFunctionOnSet(f, t \cup B) = f[x] + SumFunctionOnSet(f, (t \ {x}) \cup B)
      BY <3>3, <3>4
    <3>8. SumFunctionOnSet(f, t \cup B) = SumFunctionOnSet(f, t) + SumFunctionOnSet(f, B)
      BY <1>0, <3>2, <3>5, <3>6, <3>7
    <3> QED BY <3>8
  <2> QED BY <2>1, <2>2
<1>2. Good \in SUBSET SUBSET A
  OBVIOUS
<1> HIDE DEF Good
<1>3. Good = SUBSET A
  BY <1>1, <1>2, SubsetsOf
<1> QED BY <1>3 DEF Good

Alike(S, g, y) == {x \in S : g[x] = y}

\* The sum of the sums, class by class
LEMMA SumClasses ==
    ASSUME NEW f, NEW S, IsFiniteSet(S), Counts(f, S), NEW T, IsFiniteSet(T), NEW g,
           \A x \in S : g[x] \in T,
           NEW e, \A y \in T : e[y] = SumFunctionOnSet(f, Alike(S, g, y))
    PROVE  SumFunctionOnSet(e, T) = SumFunctionOnSet(f, S)
<1> DEFINE Of(u) == {x \in S : g[x] \in u}
           Good == {u \in SUBSET T : SumFunctionOnSet(e, u) = SumFunctionOnSet(f, Of(u))}
<1>0. \A A \in SUBSET S : IsFiniteSet(A) /\ Counts(f, A) /\ SumFunctionOnSet(f, A) \in Nat
  BY FS_Subset, SumType DEF Counts
<1>a. \A u : Of(u) \in SUBSET S
  OBVIOUS
<1>b. \A y \in T : Alike(S, g, y) \in SUBSET S /\ e[y] \in Nat
  BY <1>0 DEF Alike
<1>1. ASSUME NEW u \in SUBSET T, \A y \in u : u \ {y} \in Good PROVE u \in Good
  <2>0. IsFiniteSet(u) /\ Counts(e, u)
    BY <1>b, FS_Subset DEF Counts
  <2>1. CASE u = {}
    <3>1. Of(u) = {}
      BY <2>1
    <3>2. SumFunctionOnSet(f, Of(u)) = 0
      BY <1>0, <3>1, SumNone
    <3> HIDE DEF Of
    <3> QED BY <2>0, <2>1, <3>2, SumNone
  <2>2. CASE u # {}
    <3>1. PICK y \in u : TRUE
      BY <2>2
    <3> DEFINE A == Alike(S, g, y)
    <3>2. /\ A \in SUBSET S /\ A \cap Of(u \ {y}) = {}
          /\ A \cup Of(u \ {y}) = Of(u)
      BY <3>1 DEF Alike
    <3>3. e[y] = SumFunctionOnSet(f, A)
      BY <3>1
    <3>4. SumFunctionOnSet(e, u \ {y}) = SumFunctionOnSet(f, Of(u \ {y}))
      BY <1>1, <3>1
    <3> HIDE DEF Of, A
    <3>5. SumFunctionOnSet(f, Of(u)) = SumFunctionOnSet(f, A) + SumFunctionOnSet(f, Of(u \ {y}))
      <4>1. /\ IsFiniteSet(A) /\ Counts(f, A)
            /\ IsFiniteSet(Of(u \ {y})) /\ Counts(f, Of(u \ {y}))
        BY <1>0, <1>a, <3>2
      <4>2. SumFunctionOnSet(f, A \cup Of(u \ {y}))
                = SumFunctionOnSet(f, A) + SumFunctionOnSet(f, Of(u \ {y}))
        BY <3>2, <4>1, SumSplit
      <4> QED BY <3>2, <4>2
    <3>6. SumFunctionOnSet(e, u) = e[y] + SumFunctionOnSet(e, u \ {y})
      BY <2>0, <3>1, SumTakeOut
    <3> QED BY <3>3, <3>4, <3>5, <3>6
  <2> QED BY <2>1, <2>2
<1>2. Good \in SUBSET SUBSET T
  OBVIOUS
<1>4. Of(T) = S
  OBVIOUS
<1> HIDE DEF Good
<1>3. Good = SUBSET T
  BY <1>1, <1>2, SubsetsOf
<1> QED BY <1>3, <1>4 DEF Good

\* Every element counted once
LEMMA SumOfOnes ==
    ASSUME NEW f, NEW S, IsFiniteSet(S), \A x \in S : f[x] = 1
    PROVE  SumFunctionOnSet(f, S) = Cardinality(S)
<1> DEFINE Good == {t \in SUBSET S : SumFunctionOnSet(f, t) = Cardinality(t)}
<1>1. ASSUME NEW t \in SUBSET S, \A x \in t : t \ {x} \in Good PROVE t \in Good
  <2>0. IsFiniteSet(t) /\ Counts(f, t) /\ Cardinality(t) \in Nat
    BY FS_Subset, FS_CardinalityType DEF Counts
  <2>1. CASE t = {}
    BY <2>0, <2>1, SumNone, FS_EmptySet
  <2>2. CASE t # {}
    <3>1. PICK x \in t : TRUE
      BY <2>2
    <3>2. SumFunctionOnSet(f, t) = f[x] + SumFunctionOnSet(f, t \ {x})
      BY <2>0, <3>1, SumTakeOut
    <3>3. Cardinality(t \ {x}) = Cardinality(t) - 1
      BY <2>0, <3>1, FS_RemoveElement
    <3>4. SumFunctionOnSet(f, t \ {x}) = Cardinality(t \ {x}) /\ f[x] = 1
      BY <1>1, <3>1
    <3> QED BY <2>0, <3>2, <3>3, <3>4
  <2> QED BY <2>1, <2>2
<1>2. Good \in SUBSET SUBSET S
  OBVIOUS
<1> HIDE DEF Good
<1>3. Good = SUBSET S
  BY <1>1, <1>2, SubsetsOf
<1> QED BY <1>3 DEF Good

LEMMA CardinalitySplit ==
    ASSUME NEW A, NEW B, IsFiniteSet(A), IsFiniteSet(B), A \cap B = {}
    PROVE  Cardinality(A \cup B) = Cardinality(A) + Cardinality(B)
<1>1. Cardinality(A \cap B) = 0 /\ Cardinality(A) \in Nat /\ Cardinality(B) \in Nat
  BY FS_EmptySet, FS_CardinalityType
<1>2. Cardinality(A \cup B) = Cardinality(A) + Cardinality(B) - Cardinality(A \cap B)
  BY FS_Union
<1> QED BY <1>1, <1>2

\* A set of values of a function on a finite set
LEMMA FiniteImage ==
    ASSUME NEW S, IsFiniteSet(S), NEW h
    PROVE  IsFiniteSet({h[x] : x \in S})
<1> DEFINE T == {h[x] : x \in S}
           g == [x \in S |-> h[x]]
<1>1. g \in Surjection(S, T)
  BY DEF Surjection
<1> QED BY <1>1, FS_Surjection

\* No class is forgotten, and none counted twice.
LEMMA CountByClass ==
    ASSUME NEW S, IsFiniteSet(S), NEW g,
           NEW e, DOMAIN e = {g[x] : x \in S},
           \A y \in DOMAIN e : e[y] = Cardinality(Alike(S, g, y))
    PROVE  Total(e) = Cardinality(S)
<1> DEFINE T == {g[x] : x \in S}
           f == [x \in S |-> 1]
<1>1. IsFiniteSet(T)
  BY FiniteImage
<1>2. Counts(f, S) /\ \A x \in S : f[x] = 1
  BY DEF Counts
<1>3. SumFunctionOnSet(f, S) = Cardinality(S)
  BY <1>2, SumOfOnes
<1>4. ASSUME NEW y \in T PROVE e[y] = SumFunctionOnSet(f, Alike(S, g, y))
  <2>1. Alike(S, g, y) \subseteq S
    BY DEF Alike
  <2>2. IsFiniteSet(Alike(S, g, y)) /\ \A x \in Alike(S, g, y) : f[x] = 1
    BY <1>2, <2>1, FS_Subset
  <2> HIDE DEF f
  <2>3. SumFunctionOnSet(f, Alike(S, g, y)) = Cardinality(Alike(S, g, y))
    BY <2>2, SumOfOnes
  <2> QED BY <2>3
<1>5. \A x \in S : g[x] \in T
  OBVIOUS
<1>6. Total(e) = SumFunctionOnSet(e, T)
  BY DEF Total
<1> HIDE DEF T, f
<1>7. SumFunctionOnSet(e, T) = SumFunctionOnSet(f, S)
  BY <1>1, <1>2, <1>4, <1>5, SumClasses
<1> QED BY <1>3, <1>6, <1>7

\* A sum is no more than another when none of its terms is.
LEMMA SumBelow ==
    ASSUME NEW S, IsFiniteSet(S), NEW f, NEW e, Counts(f, S), Counts(e, S),
           \A x \in S : f[x] <= e[x]
    PROVE  SumFunctionOnSet(f, S) <= SumFunctionOnSet(e, S)
<1> DEFINE Good == {t \in SUBSET S : SumFunctionOnSet(f, t) <= SumFunctionOnSet(e, t)}
<1>1. ASSUME NEW t \in SUBSET S, \A x \in t : t \ {x} \in Good PROVE t \in Good
  <2>0. IsFiniteSet(t) /\ Counts(f, t) /\ Counts(e, t)
    BY FS_Subset DEF Counts
  <2>1. CASE t = {}
    BY <2>1, SumNone
  <2>2. CASE t # {}
    <3>1. PICK x \in t : TRUE
      BY <2>2
    <3>2. /\ SumFunctionOnSet(f, t) = f[x] + SumFunctionOnSet(f, t \ {x})
          /\ SumFunctionOnSet(f, t \ {x}) \in Nat
      BY <2>0, <3>1, SumTakeOut
    <3>3. /\ SumFunctionOnSet(e, t) = e[x] + SumFunctionOnSet(e, t \ {x})
          /\ SumFunctionOnSet(e, t \ {x}) \in Nat
      BY <2>0, <3>1, SumTakeOut
    <3>4. SumFunctionOnSet(f, t \ {x}) <= SumFunctionOnSet(e, t \ {x})
      BY <1>1, <3>1
    <3>5. f[x] \in Nat /\ e[x] \in Nat /\ f[x] <= e[x]
      BY <3>1 DEF Counts
    <3>6. SumFunctionOnSet(f, t) <= SumFunctionOnSet(e, t)
      BY <3>2, <3>3, <3>4, <3>5
    <3> QED BY <3>6
  <2> QED BY <2>1, <2>2
<1>2. Good \in SUBSET SUBSET S
  OBVIOUS
<1> HIDE DEF Good
<1>3. Good = SUBSET S
  BY <1>1, <1>2, SubsetsOf
<1> QED BY <1>3 DEF Good

\* A sum is positive when one of its terms is, and only then.
LEMMA SumPositive ==
    ASSUME NEW S, IsFiniteSet(S), NEW f, Counts(f, S)
    PROVE  /\ SumFunctionOnSet(f, S) \in Nat
           /\ SumFunctionOnSet(f, S) > 0 <=> \E x \in S : f[x] > 0
<1>1. SumFunctionOnSet(f, S) \in Nat
  BY SumType
<1>2. ASSUME NEW x \in S, f[x] > 0 PROVE SumFunctionOnSet(f, S) > 0
  <2>1. /\ SumFunctionOnSet(f, S) = f[x] + SumFunctionOnSet(f, S \ {x})
        /\ SumFunctionOnSet(f, S \ {x}) \in Nat
    BY SumTakeOut
  <2>2. f[x] \in Nat
    BY DEF Counts
  <2> QED BY <1>2, <2>1, <2>2
<1>3. ASSUME \A x \in S : ~ (f[x] > 0) PROVE SumFunctionOnSet(f, S) = 0
  <2>1. \A x \in S : f[x] = 0
    BY <1>3 DEF Counts
  <2> QED BY <2>1, SumOfNone
<1> QED BY <1>1, <1>2, <1>3

------------------------------------------------------------------------------
(* What the purchasing screens show *)

LEMMA LinesFinite ==
    /\ IsFiniteSet(Lines) /\ IsFiniteSet(Requests) /\ IsFiniteSet(Orders)
    /\ \A S : S \subseteq Lines \/ S \subseteq Requests \/ S \subseteq Orders
                  => IsFiniteSet(S) /\ Cardinality(S) \in Nat
<1>1. IsFiniteSet(Requests) /\ IsFiniteSet(Orders) /\ IsFiniteSet(Articles)
  BY CatalogueAssumption
<1>2. IsFiniteSet(Lines)
  BY <1>1, FS_Product DEF Lines
<1> QED BY <1>1, <1>2, FS_Subset, FS_CardinalityType

\* The same number, element by element
LEMMA SameNumber ==
    ASSUME NEW S, IsFiniteSet(S), NEW h, \A x, y \in S : h[x] = h[y] => x = y
    PROVE  Cardinality({h[x] : x \in S}) = Cardinality(S)
<1> DEFINE T == {h[x] : x \in S}
           g == [x \in S |-> h[x]]
<1>1. g \in Bijection(S, T)
  BY DEF Bijection, Injection, Surjection, IsInjective
<1> QED BY <1>1, FS_Bijection DEF ExistsBijection

LEMMA TypedRows ==
    ASSUME NEW d \in Database
    PROVE  /\ \A l \in Lines : /\ d.line[l].quantity \in Nat /\ d.line[l].received \in Nat
                               /\ d.line[l].selected \in BOOLEAN /\ d.line[l].quoted \in BOOLEAN
           /\ \A r \in Requests : \A l \in Lines : d.link[r][l] \in Nat
           /\ \A r \in Requests : LinesOf(d, r) \subseteq Lines /\ IsFiniteSet(LinesOf(d, r))
           /\ \A o \in Orders : d.order[o] \in OrderRow
           /\ \A r \in Requests : d.request[r].quantity \in Nat
<1>1. MaxQuantity \in Nat /\ MaxLine \in Nat
  BY CatalogueAssumption
<1>2. ASSUME NEW l \in Lines
      PROVE  /\ d.line[l].quantity \in Nat /\ d.line[l].received \in Nat
             /\ d.line[l].selected \in BOOLEAN /\ d.line[l].quoted \in BOOLEAN
  BY <1>1 DEF Database, LineRow
<1>3. ASSUME NEW r \in Requests, NEW l \in Lines PROVE d.link[r][l] \in Nat
  BY <1>1 DEF Database
<1>4. ASSUME NEW r \in Requests PROVE LinesOf(d, r) \subseteq Lines /\ IsFiniteSet(LinesOf(d, r))
  BY LinesFinite, FS_Subset DEF LinesOf
<1>5. ASSUME NEW o \in Orders PROVE d.order[o] \in OrderRow
  BY DEF Database
<1>6. ASSUME NEW r \in Requests PROVE d.request[r].quantity \in Nat
  BY <1>1 DEF Database, RequestRow
<1> QED BY <1>2, <1>3, <1>4, <1>5, <1>6

\* Past the dispatch neither derivation gives a status that may be modified.
LEMMA EditableHolds == EditableAgrees
<1> SUFFICES ASSUME NEW r \in Requests
             PROVE  (DetailStatus(db, r) \in EditableStatuses)
                        = (ListStatus(db, r) \in EditableStatuses)
  BY DEF EditableAgrees
<1>1. CASE Unordered(db, r) # "ordered"
  BY <1>1 DEF DetailStatus, ListStatus, StatusIsCode
<1>2. CASE Unordered(db, r) = "ordered"
  <2>1. ListStatus(db, r) \notin EditableStatuses
    BY <1>2 DEF ListStatus, OrdersSay, Progress, EditableStatuses
  <2>2. DetailStatus(db, r) \notin EditableStatuses
    BY <1>2 DEF DetailStatus, StatusIsCode, Progress, EditableStatuses
  <2> QED BY <2>1, <2>2
<1> QED BY <1>1, <1>2

LEMMA ReceptionHolds == ASSUME NEW d \in Database PROVE ReceptionShown(d)
<1> SUFFICES ASSUME NEW o \in LiveOrders(d)
             PROVE  Receivable(d, o) <=>
                        /\ \E x \in {LineView(d, l) : l \in LinesIn(d, o)} : x.selected
                        /\ \A x \in {LineView(d, l) : l \in LinesIn(d, o)} :
                               x.consultation_resolved
  BY DEF ReceptionShown
<1>1. \A l : /\ LineView(d, l).selected = d.line[l].selected
             /\ LineView(d, l).consultation_resolved
                    = (IsConsultation(d, l) => HasSelectedSister(d, l))
  BY DEF LineView
<1>2. \A l : Unresolved(d, l) <=> IsConsultation(d, l) /\ ~ HasSelectedSister(d, l)
  BY DEF Unresolved, IsConsultation, HasSelectedSister
<1>3. LinesIn(d, o) = {l \in LiveLines(d) : OrderOf(l) = o}
  BY DEF LinesIn
<1> QED BY <1>1, <1>2, <1>3 DEF Receivable

LEMMA CountsHold == ASSUME NEW d \in Database PROVE CountsAgree(d)
<1>0. Live(d) \subseteq Requests /\ IsFiniteSet(Live(d))
  BY LinesFinite, FS_Subset DEF Live
<1>1. Total(Facets(d)) = Cardinality(Live(d))
  <2> DEFINE S == Live(d)
             g == [r \in S |-> ListStatus(d, r)]
             e == Facets(d)
  <2>1. DOMAIN e = {g[x] : x \in S}
    BY DEF Facets
  <2>2. ASSUME NEW y \in DOMAIN e PROVE e[y] = Cardinality(Alike(S, g, y))
    <3>1. {r \in Live(d) : ListStatus(d, r) = y} = Alike(S, g, y)
      BY DEF Alike
    <3> QED BY <3>1 DEF Facets
  <2> HIDE DEF g, e
  <2>3. Total(e) = Cardinality(S)
    BY <1>0, <2>1, <2>2, CountByClass
  <2> QED BY <2>3 DEF e
<1>2. PendingCount(d) = Cardinality(Pending(d))
  <2> DEFINE P == {x \in Requests : /\ d.request[x].status = "live"
                                    /\ ListStatus(d, x) = "PENDING_DISPATCH"}
             h == [x \in P |-> [r |-> x, a |-> d.request[x].article,
                                q |-> d.request[x].quantity]]
  <2>1. IsFiniteSet(P)
    BY LinesFinite
  <2>2. Pending(d) = {h[x] : x \in P}
    BY DEF Pending
  <2>3. \A x, y \in P : h[x] = h[y] => x = y
    OBVIOUS
  <2>4. P = {r \in Live(d) : ListStatus(d, r) = "PENDING_DISPATCH"}
    BY DEF Live
  <2> HIDE DEF P, h
  <2>5. Cardinality(Pending(d)) = Cardinality(P)
    BY <2>1, <2>2, <2>3, SameNumber
  <2>6. CASE "PENDING_DISPATCH" \in DOMAIN Facets(d)
    BY <2>4, <2>5, <2>6 DEF PendingCount, Facets
  <2>7. CASE "PENDING_DISPATCH" \notin DOMAIN Facets(d)
    <3>1. P = {}
      BY <2>4, <2>7 DEF Facets
    <3> QED BY <2>5, <2>7, <3>1, FS_EmptySet DEF PendingCount
  <2> QED BY <2>6, <2>7
<1>3. ASSUME NEW at \in [Live(d) -> 2 .. 4]
      PROVE  Total(StatsByStatus(d, at, 0, 1)) =
                 StatsTotal(d, at, 0, 1) + Cardinality({r \in Live(d) : at[r] = 3})
  <2> DEFINE S == {r \in Live(d) : (at[r] \div 2) \in 0 .. 1}
             A == {r \in Live(d) : 2 * 0 <= at[r] /\ at[r] <= 2 * 1}
             B == {r \in Live(d) : at[r] = 3}
             g == [r \in S |-> ListStatus(d, r)]
             e == StatsByStatus(d, at, 0, 1)
  <2>1. IsFiniteSet(S) /\ IsFiniteSet(A) /\ IsFiniteSet(B)
    BY <1>0, FS_Subset
  <2>2. A \cap B = {} /\ A \cup B = S
    <3>1. \A n \in 2 .. 4 : ((n \div 2) \in 0 .. 1 <=> n \in {2, 3}) /\ (n <= 2 <=> n = 2)
      OBVIOUS
    <3> QED BY <3>1
  <2>3. DOMAIN e = {g[x] : x \in S}
    BY DEF StatsByStatus
  <2>4. ASSUME NEW y \in DOMAIN e PROVE e[y] = Cardinality(Alike(S, g, y))
    <3>1. {r \in S : ListStatus(d, r) = y} = Alike(S, g, y)
      BY DEF Alike
    <3> QED BY <3>1 DEF StatsByStatus
  <2>5. StatsTotal(d, at, 0, 1) = Cardinality(A)
    BY DEF StatsTotal
  <2> HIDE DEF S, A, g, e
  <2>6. Total(e) = Cardinality(S)
    BY <2>1, <2>3, <2>4, CountByClass
  <2>7. Cardinality(S) = Cardinality(A) + Cardinality(B)
    BY <2>1, <2>2, CardinalitySplit
  <2> QED BY <2>5, <2>6, <2>7 DEF e
<1> QED BY <1>1, <1>2, <1>3 DEF CountsAgree

LEMMA DeliveriesHold == ASSUME NEW d \in Database PROVE DeliveriesAgree(d)
<1> SUFFICES ASSUME NEW r \in Live(d), Unordered(d, r) = "ordered",
                    \A l \in LinesOf(d, r) : /\ LineView(d, l).is_fully_received
                                             /\ Asked(d, l) <= d.line[l].quantity
             PROVE  ListStatus(d, r) \in {"RECEIVED", "REJECTED"}
  BY DEF DeliveriesAgree
<1>0. r \in Requests
  BY DEF Live
<1> DEFINE S == LinesOf(d, r)
           f == d.link[r]
           e == [l \in Lines |-> d.line[l].received]
<1>1. IsFiniteSet(S) /\ S \subseteq Lines /\ S # {}
  <2>1. S # {}
    BY DEF Unordered
  <2> QED BY <1>0, <2>1, TypedRows
<1>2. Counts(f, S) /\ Counts(e, S)
  BY <1>0, <1>1, TypedRows DEF Counts
<1>3. ASSUME NEW l \in S PROVE f[l] <= e[l] /\ f[l] > 0
  <2>1. l \in Lines /\ f[l] > 0 /\ f[l] \in Nat
    BY <1>0, <1>1, TypedRows DEF LinesOf
  <2>2. d.line[l].quantity <= d.line[l].received
    BY <2>1, TypedRows DEF LineView
  <2>3. f[l] <= Asked(d, l)
    <3>1. /\ IsFiniteSet(Requests) /\ Counts(Allots(d, l), Requests)
          /\ Asked(d, l) = SumFunctionOnSet(Allots(d, l), Requests)
          /\ Allots(d, l)[r] = f[l]
      BY <1>0, <2>1, AllotsCount
    <3>2. /\ Asked(d, l) = f[l] + SumFunctionOnSet(Allots(d, l), Requests \ {r})
          /\ SumFunctionOnSet(Allots(d, l), Requests \ {r}) \in Nat
      BY <1>0, <3>1, SumTakeOut
    <3> QED BY <2>1, <3>2
  <2>4. /\ Asked(d, l) \in Nat /\ Asked(d, l) <= d.line[l].quantity
        /\ d.line[l].quantity \in Nat /\ d.line[l].received \in Nat
    BY <2>1, AllotsCount, TypedRows
  <2>5. e[l] = d.line[l].received
    BY <2>1
  <2> QED BY <2>1, <2>2, <2>3, <2>4, <2>5
<1>4. Allocated(d, r) = SumFunctionOnSet(f, S) /\ Received(d, r) = SumFunctionOnSet(e, S)
  BY DEF Allocated, Received
<1> HIDE DEF S, f, e
<1>5. SumFunctionOnSet(f, S) <= SumFunctionOnSet(e, S)
  BY <1>1, <1>2, <1>3, SumBelow
<1>6. SumFunctionOnSet(f, S) > 0 /\ SumFunctionOnSet(f, S) \in Nat
  BY <1>1, <1>2, <1>3, SumPositive
<1>7. SumFunctionOnSet(e, S) \in Nat
  BY <1>1, <1>2, SumType
<1>8. Complete(d, r)
  BY <1>4, <1>5, <1>6, <1>7 DEF Complete
<1> QED BY <1>8 DEF ListStatus, OrdersSay

LEMMA OrdersHold == ASSUME NEW d \in Database PROVE OrdersAgree(d)
<1> DEFINE all == OrderList(d, OrderStatuses, Suppliers)
           S == LiveOrders(d)
<1>1. \A o \in S : /\ o \in Orders /\ d.order[o].status \in OrderStatuses
                   /\ d.order[o].supplier \in Suppliers
  BY TypedRows DEF LiveOrders, OrderRow, Gone
<1>2. /\ {o \in LiveOrders(d) : d.order[o].supplier \in Suppliers} = S
      /\ {o \in S : d.order[o].status \in OrderStatuses} = S
      /\ IsFiniteSet(S)
  BY <1>1, LinesFinite DEF LiveOrders
<1>3. /\ all.total = Cardinality(S)
      /\ all.facets = [s \in {d.order[o].status : o \in S} |->
                          Cardinality({o \in S : d.order[o].status = s})]
      /\ all.items = {[order |-> o, line_count |-> Cardinality(LinesIn(d, o)),
                       actions |-> Actions(d.order[o].status)] : o \in S}
  BY <1>2 DEF OrderList
<1>4. Total(all.facets) = all.total
  <2> DEFINE g == [o \in S |-> d.order[o].status]
             e == all.facets
  <2>1. DOMAIN e = {g[x] : x \in S}
    BY <1>3
  <2>2. ASSUME NEW y \in DOMAIN e PROVE e[y] = Cardinality(Alike(S, g, y))
    <3>1. {o \in S : d.order[o].status = y} = Alike(S, g, y)
      BY DEF Alike
    <3> QED BY <1>3, <3>1
  <2> HIDE DEF g, e
  <2>3. Total(e) = Cardinality(S)
    BY <1>2, <2>1, <2>2, CountByClass
  <2> QED BY <1>3, <2>3 DEF e
<1>5. ASSUME NEW s \in DOMAIN all.facets
      PROVE  OrderList(d, {s}, Suppliers).total = all.facets[s]
  <2>1. {o \in S : d.order[o].status \in {s}} = {o \in S : d.order[o].status = s}
    OBVIOUS
  <2>2. OrderList(d, {s}, Suppliers).total = Cardinality({o \in S : d.order[o].status \in {s}})
    BY <1>2 DEF OrderList
  <2> QED BY <1>3, <2>1, <2>2
<1>6. ASSUME NEW o \in S
      PROVE  LET page == OrderView(d, o)
             IN /\ Cardinality(LinesIn(d, o)) = page.line_count
                /\ Actions(d.order[o].status) = page.actions
                /\ page.transitions # {} <=> page.actions # {}
                /\ {p \in page.lines : d.line[p.line].selected} \subseteq
                       {[line |-> e.line, quantity |-> e.quantity, refs |-> e.refs,
                         purchase_request_count |-> Cardinality(e.purchase_requests)] :
                            e \in Export(d, o)}
  <2> DEFINE page == OrderView(d, o)
             ls == LinesIn(d, o)
  <2>1. /\ page.lines = {OrderLineView(d, l) : l \in ls}
        /\ page.line_count = Cardinality({OrderLineView(d, l) : l \in ls})
        /\ page.actions = Actions(d.order[o].status)
        /\ page.transitions = AllowedTransitions(d.order[o].status)
    BY DEF OrderView
  <2>2. Cardinality(ls) = page.line_count
    <3> DEFINE h == [l \in ls |-> OrderLineView(d, l)]
    <3>1. \A x, y \in ls : h[x] = h[y] => x = y
      BY DEF OrderLineView
    <3>2. IsFiniteSet(ls)
      BY LinesFinite DEF LinesIn, LiveLines
    <3>3. {OrderLineView(d, l) : l \in ls} = {h[l] : l \in ls}
      OBVIOUS
    <3> HIDE DEF h, ls
    <3>4. Cardinality({h[l] : l \in ls}) = Cardinality(ls)
      BY <3>1, <3>2, SameNumber
    <3> QED BY <2>1, <3>3, <3>4
  <2>3. page.transitions # {} <=> page.actions # {}
    BY <1>1, <2>1 DEF AllowedTransitions, Actions, OrderStatuses
  <2>4. ASSUME NEW l \in ls
        PROVE  Cardinality(PurchaseRequestsOf(d, l)) = Cardinality(Linked(d, l))
    <3> DEFINE P == Linked(d, l)
               h == [r \in P |-> <<r, d.link[r][l]>>]
    <3>1. PurchaseRequestsOf(d, l) = {h[r] : r \in P} /\ \A x, y \in P : h[x] = h[y] => x = y
      BY DEF PurchaseRequestsOf
    <3>2. IsFiniteSet(P)
      BY LinesFinite DEF Linked
    <3> HIDE DEF P, h
    <3>3. Cardinality(PurchaseRequestsOf(d, l)) = Cardinality(P)
      BY <3>1, <3>2, SameNumber
    <3> QED BY <3>3 DEF P
  <2>5. page.lines = {[line |-> e.line, quantity |-> e.quantity, refs |-> e.refs,
                       purchase_request_count |-> Cardinality(e.purchase_requests)] :
                          e \in Export(d, o)}
    <3>1. Export(d, o) = {ExportLine(d, l) : l \in ls}
      BY DEF Export
    <3>2. ASSUME NEW l \in ls
          PROVE  [line |-> ExportLine(d, l).line, quantity |-> ExportLine(d, l).quantity,
                  refs |-> ExportLine(d, l).refs, purchase_request_count
                      |-> Cardinality(ExportLine(d, l).purchase_requests)] = OrderLineView(d, l)
      BY <2>4 DEF ExportLine, OrderLineView
    <3> HIDE DEF ls, page
    <3> QED BY <2>1, <3>1, <3>2
  <2>6. \A A : {p \in A : d.line[p.line].selected} \subseteq A
    OBVIOUS
  <2> QED BY <2>1, <2>2, <2>3, <2>5, <2>6
<1>7. ASSUME NEW item \in all.items
      PROVE  /\ item.order \in S
             /\ item.line_count = Cardinality(LinesIn(d, item.order))
             /\ item.actions = Actions(d.order[item.order].status)
  BY <1>3
<1> HIDE DEF all
<1>8. \A item \in all.items :
          LET page == OrderView(d, item.order)
          IN /\ item.line_count = page.line_count /\ item.actions = page.actions
             /\ page.transitions # {} <=> page.actions # {}
             /\ {p \in page.lines : d.line[p.line].selected} \subseteq
                    {[line |-> e.line, quantity |-> e.quantity, refs |-> e.refs,
                      purchase_request_count |-> Cardinality(e.purchase_requests)] :
                         e \in Export(d, item.order)}
  BY <1>6, <1>7
<1> QED BY <1>3, <1>4, <1>5, <1>8 DEF OrdersAgree, all

\* What precedes a page: the pages before it, whole.
LEMMA PagesOrdered ==
    ASSUME NEW limit \in Nat, NEW p \in Nat \ {0}, NEW q \in Nat \ {0}, p < q
    PROVE  (p - 1) * limit \in Nat /\ (p - 1) * limit + limit <= (q - 1) * limit
<1> DEFINE a == p - 1
           r == q - 1 - p
<1>1. a \in Nat /\ r \in Nat /\ q - 1 = a + 1 + r
  OBVIOUS
<1> HIDE DEF a, r
<1>2. a * limit \in Nat /\ r * limit \in Nat
  BY <1>1
<1>3. (a + 1 + r) * limit = a * limit + limit + r * limit
  BY <1>1
<1>4. a * limit + limit <= (a + 1 + r) * limit
  BY <1>2, <1>3
<1> QED BY <1>1, <1>2, <1>4 DEF a

\* Every place is on a page, the first that ends past it.
LEMMA PageOf ==
    ASSUME NEW n \in Nat, NEW limit \in 1 .. n, NEW k \in 1 .. n
    PROVE  \E p \in 1 .. n : (p - 1) * limit + 1 <= k /\ k <= (p - 1) * limit + limit
<1> DEFINE B == {p \in Nat : k <= p * limit}
<1>1. n \in B
  <2>1. n * limit = n + n * (limit - 1) /\ n * (limit - 1) \in Nat
    OBVIOUS
  <2> QED BY <2>1
<1>2. PICK p \in B : \A m \in B : p <= m
  BY <1>1, Least
<1>3. p \in Nat /\ p <= n /\ k <= p * limit
  BY <1>1, <1>2
<1>4. p # 0
  BY <1>3
<1>5. p - 1 \in Nat /\ p - 1 \notin B
  BY <1>2, <1>3, <1>4
<1>6. ~ (k <= (p - 1) * limit)
  BY <1>5
<1>7. (p - 1) * limit \in Nat /\ p * limit = (p - 1) * limit + limit
  BY <1>3, <1>5
<1> HIDE DEF B
<1>8. p \in 1 .. n
  BY <1>3, <1>4
<1> QED BY <1>3, <1>6, <1>7, <1>8

LEMMA PagesCut ==
    ASSUME NEW n \in Nat, NEW rows, Len(rows) = n, NEW statuses, NEW limit \in 1 .. n
    PROVE  LET page(p) == GetList(rows, (p - 1) * limit, limit, statuses)
           IN /\ GetList(rows, 0, n, statuses) = UNION {page(p) : p \in 1 .. n}
              /\ \A p, q \in 1 .. n : p < q => \A j \in page(p), k \in page(q) : j < k
<1> DEFINE skip(p) == (p - 1) * limit
           page(p) == GetList(rows, skip(p), limit, statuses)
<1>1. \A p, q \in 1 .. n : p < q => skip(p) + limit <= skip(q)
  BY PagesOrdered
<1>2. \A p \in 1 .. n : skip(p) \in Nat
  <2>1. ASSUME NEW p \in 1 .. n PROVE (p - 1) * limit \in Nat
    <3>1. p \in Nat \ {0} /\ p + 1 \in Nat \ {0} /\ p < p + 1
      OBVIOUS
    <3> QED BY <3>1, PagesOrdered
  <2> QED BY <2>1
<1>3. \A k \in 1 .. n : \E p \in 1 .. n : skip(p) + 1 <= k /\ k <= skip(p) + limit
  BY PageOf
<1> HIDE DEF skip
<1>4. ASSUME NEW p \in 1 .. n, NEW k
      PROVE  k \in page(p) <=> /\ k \in 1 .. n /\ rows[k].status \in statuses
                               /\ skip(p) + 1 <= k /\ k <= skip(p) + limit
  BY <1>2 DEF GetList, Lesser
<1>5. \A k : k \in GetList(rows, 0, n, statuses) <=> k \in 1 .. n /\ rows[k].status \in statuses
  BY DEF GetList, Lesser
<1>6. GetList(rows, 0, n, statuses) = UNION {page(p) : p \in 1 .. n}
  <2> HIDE DEF page
  <2>1. \A k \in GetList(rows, 0, n, statuses) : \E p \in 1 .. n : k \in page(p)
    BY <1>3, <1>4, <1>5
  <2>2. \A p \in 1 .. n : \A k \in page(p) : k \in GetList(rows, 0, n, statuses)
    BY <1>4, <1>5
  <2> QED BY <2>1, <2>2
<1>7. ASSUME NEW p \in 1 .. n, NEW q \in 1 .. n, p < q, NEW j \in page(p), NEW k \in page(q)
      PROVE  j < k
  <2>1. skip(p) \in Nat /\ skip(q) \in Nat /\ skip(p) + limit <= skip(q)
    BY <1>1, <1>2, <1>7
  <2>2. j \in 1 .. n /\ k \in 1 .. n /\ j <= skip(p) + limit /\ skip(q) + 1 <= k
    BY <1>4
  <2> QED BY <2>1, <2>2
<1> QED BY <1>6, <1>7 DEF page, skip

\* A row of the list counts what the lines of the detail say.
LEMMA RowCounts ==
    ASSUME NEW d \in Database, NEW r \in Live(d)
    PROVE  LET item == ListItem(d, r)
               lines == Detail(d, item.request).lines
           IN /\ item.selected = Cardinality({l \in lines : l.selected})
              /\ item.suppliers = Cardinality({l.supplier : l \in lines})
              /\ item.received > 0 <=> \E l \in lines : l.received > 0
<1> DEFINE item == ListItem(d, r)
           lines == Detail(d, item.request).lines
           S == LinesOf(d, r)
           h == [l \in S |-> [line |-> l, allocated |-> d.link[r][l],
                              received |-> d.line[l].received,
                              selected |-> d.line[l].selected, quoted |-> d.line[l].quoted,
                              supplier |-> d.order[OrderOf(l)].supplier]]
           T == Selected(d, r)
<1>0. r \in Requests /\ S \subseteq Lines /\ IsFiniteSet(S)
  BY TypedRows DEF Live
<1>1. lines = {h[l] : l \in S}
  <2>1. item.request = r
    BY DEF ListItem
  <2> HIDE DEF item
  <2> QED BY <2>1 DEF Detail, LineDetails
<1>2. /\ item.selected = Cardinality(T)
      /\ item.suppliers = Cardinality({d.order[OrderOf(l)].supplier : l \in S})
      /\ item.received = Received(d, r)
  BY DEF ListItem
<1>3. \A l \in S : /\ h[l].line = l /\ h[l].received = d.line[l].received
                   /\ h[l].selected = d.line[l].selected
                   /\ h[l].supplier = d.order[OrderOf(l)].supplier
  OBVIOUS
<1>4. T = {l \in S : d.line[l].selected}
  BY DEF Selected
<1> HIDE DEF h, lines, item, S, T
<1>5. item.selected = Cardinality({l \in lines : l.selected})
  <2> DEFINE g == [l \in T |-> h[l]]
  <2>1. {l \in lines : l.selected} = {g[l] : l \in T}
    <3>1. \A l \in T : g[l] = h[l] /\ h[l] \in lines /\ h[l].selected
      BY <1>1, <1>3, <1>4
    <3>2. \A e \in lines : e.selected => \E l \in T : e = g[l]
      BY <1>1, <1>3, <1>4
    <3> HIDE DEF g
    <3> QED BY <3>1, <3>2
  <2>2. IsFiniteSet(T) /\ \A x, y \in T : g[x] = g[y] => x = y
    BY <1>0, <1>3, <1>4, FS_Subset
  <2> HIDE DEF g
  <2>3. Cardinality({g[l] : l \in T}) = Cardinality(T)
    BY <2>2, SameNumber
  <2> QED BY <1>2, <2>1, <2>3
<1>6. {d.order[OrderOf(l)].supplier : l \in S} = {l.supplier : l \in lines}
  BY <1>1, <1>3
<1>7. item.received > 0 <=> \E l \in lines : l.received > 0
  <2> DEFINE f == [l \in Lines |-> d.line[l].received]
  <2>1. Received(d, r) = SumFunctionOnSet(f, S)
    BY DEF Received, S
  <2>2. \A l \in S : f[l] = d.line[l].received /\ f[l] \in Nat
    BY <1>0, TypedRows
  <2> HIDE DEF f
  <2>3. Counts(f, S)
    BY <2>2 DEF Counts
  <2>4. SumFunctionOnSet(f, S) > 0 <=> \E l \in S : f[l] > 0
    BY <1>0, <2>3, SumPositive
  <2>5. (\E l \in lines : l.received > 0) <=> \E l \in S : f[l] > 0
    BY <1>1, <1>3, <2>2
  <2> QED BY <1>2, <2>1, <2>4, <2>5
<1> QED BY <1>2, <1>5, <1>6, <1>7 DEF item, lines

LEMMA PagesHold == ASSUME NEW d \in Database PROVE PagesAgree(d)
<1> DEFINE S == {ListItem(d, r) : r \in Live(d)}
<1>1. IsFiniteSet(S) /\ Cardinality(S) \in Nat
  <2> DEFINE h == [r \in Live(d) |-> ListItem(d, r)]
  <2>1. IsFiniteSet(Live(d))
    BY LinesFinite DEF Live
  <2>2. S = {h[r] : r \in Live(d)}
    OBVIOUS
  <2> HIDE DEF S, h
  <2>3. IsFiniteSet({h[r] : r \in Live(d)})
    BY <2>1, FiniteImage
  <2> QED BY <2>2, <2>3, FS_CardinalityType
<1> SUFFICES ASSUME NEW rows \in SetToSeqs(S)
             PROVE  LET n == Len(rows)
        IN /\ \A s \in {rows[k].status : k \in 1 .. n}, limit \in 1 .. n :
                  LET page(p) == GetList(rows, (p - 1) * limit, limit, {s})
                  IN /\ GetList(rows, 0, n, {s}) = UNION {page(p) : p \in 1 .. n}
                     /\ \A p, q \in 1 .. n : p < q => \A j \in page(p), k \in page(q) : j < k
           /\ \A k \in 1 .. n :
                  LET item == rows[k]
                      lines == Detail(d, item.request).lines
                  IN /\ item.selected = Cardinality({l \in lines : l.selected})
                     /\ item.suppliers = Cardinality({l.supplier : l \in lines})
                     /\ item.received > 0 <=> \E l \in lines : l.received > 0
  BY DEF PagesAgree
<1> DEFINE n == Len(rows)
<1>2. n \in Nat /\ \A k \in 1 .. n : rows[k] \in S
  <2> HIDE DEF S
  <2>1. rows \in [1 .. Cardinality(S) -> S]
    BY DEF SetToSeqs
  <2>2. n = Cardinality(S)
    BY <1>1, <2>1
  <2> QED BY <1>1, <2>1, <2>2
<1>3. ASSUME NEW s, NEW limit \in 1 .. n
      PROVE  LET page(p) == GetList(rows, (p - 1) * limit, limit, {s})
             IN /\ GetList(rows, 0, n, {s}) = UNION {page(p) : p \in 1 .. n}
                /\ \A p, q \in 1 .. n : p < q => \A j \in page(p), k \in page(q) : j < k
  BY <1>2, PagesCut
<1>4. ASSUME NEW k \in 1 .. n
      PROVE  LET item == rows[k]
                 lines == Detail(d, item.request).lines
             IN /\ item.selected = Cardinality({l \in lines : l.selected})
                /\ item.suppliers = Cardinality({l.supplier : l \in lines})
                /\ item.received > 0 <=> \E l \in lines : l.received > 0
  <2>1. PICK r \in Live(d) : rows[k] = ListItem(d, r)
    BY <1>2
  <2> DEFINE item == ListItem(d, r)
             lines == Detail(d, item.request).lines
  <2>2. /\ item.selected = Cardinality({l \in lines : l.selected})
        /\ item.suppliers = Cardinality({l.supplier : l \in lines})
        /\ item.received > 0 <=> \E l \in lines : l.received > 0
    BY RowCounts
  <2> HIDE DEF item
  <2>3. rows[k] = item
    BY <2>1 DEF item
  <2> QED BY <2>2, <2>3
<1> QED BY <1>3, <1>4

LEMMA WithoutLineType ==
    ASSUME NEW S, NEW b \in Seq(S), NEW part
    PROVE  /\ WithoutLine(b, part) \in Nat
           /\ IsFiniteSet({k \in DOMAIN b : b[k].part = part /\ ~ b[k].lined})
<1> DEFINE was == {k \in DOMAIN b : b[k].part = part /\ ~ b[k].lined}
           n == Len(b)
<1>1. was \subseteq 1 .. n /\ 1 \in Int /\ n \in Int
  OBVIOUS
<1> HIDE DEF was, n
<1>2. IsFiniteSet(1 .. n)
  BY <1>1, FS_Interval
<1>3. IsFiniteSet(was)
  BY <1>1, <1>2, FS_Subset
<1>4. Cardinality(was) \in Nat
  BY <1>3, FS_CardinalityType
<1> QED BY <1>3, <1>4 DEF WithoutLine, was

Asking(r) == [part |-> r.part, quantity |-> r.quantity, intervention |-> Null, lined |-> FALSE]

\* What one more request without a line, on no intervention, changes.
LEMMA BookGrows ==
    ASSUME NEW S, NEW b \in Seq(S), NEW q, NEW part, NEW i, i # Null
    PROVE  /\ WithoutLine(Append(b, Asking(q)), part)
                  = WithoutLine(b, part) + (IF q.part = part THEN 1 ELSE 0)
           /\ AskedOn(Append(b, Asking(q)), part, i) = AskedOn(b, part, i)
<1> DEFINE row == Asking(q)
           T == S \cup {row}
           c == Append(b, row)
           n == Len(b)
           was == {k \in DOMAIN b : b[k].part = part /\ ~ b[k].lined}
           is == {k \in DOMAIN c : c[k].part = part /\ ~ c[k].lined}
<1>0. ~ row.lined /\ row.intervention # i /\ row.part = q.part
  BY DEF Asking
<1> HIDE DEF row
<1>1. /\ n \in Nat /\ DOMAIN b = 1 .. n /\ DOMAIN c = 1 .. n + 1
      /\ n + 1 \notin 1 .. n /\ 1 .. n + 1 = (1 .. n) \cup {n + 1}
      /\ c[n + 1] = row /\ \A k \in 1 .. n : c[k] = b[k]
  <2>1. b \in Seq(T) /\ row \in T
    OBVIOUS
  <2> HIDE DEF T
  <2> QED BY <2>1
<1> HIDE DEF c, n
<1>2. IsFiniteSet(was) /\ Cardinality(was) \in Nat
  BY WithoutLineType DEF WithoutLine
<1>3. Cardinality(is) = Cardinality(was) + (IF q.part = part THEN 1 ELSE 0)
  <2>1. CASE q.part = part
    <3>1. is = was \cup {n + 1} /\ n + 1 \notin was
      BY <1>0, <1>1, <2>1
    <3> HIDE DEF is, was
    <3>2. Cardinality(is) = Cardinality(was) + 1
      BY <1>2, <3>1, FS_AddElement
    <3> QED BY <2>1, <3>2
  <2>2. CASE q.part # part
    <3>1. is = was
      BY <1>0, <1>1, <2>2
    <3> HIDE DEF is, was
    <3> QED BY <1>2, <2>2, <3>1
  <2> QED BY <2>1, <2>2
<1>4. AskedOn(c, part, i) = AskedOn(b, part, i)
  <2> DEFINE same(s) == {k \in DOMAIN s : s[k].part = part /\ s[k].intervention = i}
  <2>1. same(c) = same(b) /\ \A k \in same(b) : c[k] = b[k]
    BY <1>0, <1>1
  <2> HIDE DEF same
  <2>2. [k \in same(c) |-> c[k].quantity] = [k \in same(b) |-> b[k].quantity]
    BY <2>1
  <2>3. SumFunctionOnSet([k \in same(c) |-> c[k].quantity], same(c))
            = SumFunctionOnSet([k \in same(b) |-> b[k].quantity], same(b))
    BY <2>1, <2>2
  <2> QED BY <2>3 DEF AskedOn, same
<1> QED BY <1>3, <1>4 DEF WithoutLine, c, row

Verdict(dry_run, excluded, k) ==
    IF dry_run THEN "preview" ELSE IF k \in excluded THEN "skipped" ELSE "created"

Wrong(r) == r.part = Null \/ r.quantity = 0

\* The requests after a row, and its line of the report
After(b, r, outcome) ==
    IF Wrong(r) \/ outcome # "created" THEN b ELSE Append(b, Asking(r))

Says(b, r, i, outcome) ==
    IF Wrong(r) THEN [status |-> "error"]
    ELSE [status |-> outcome, existing |-> WithoutLine(b, r.part),
          duplicate |-> AskedOn(b, r.part, i)]

LEMMA ImportRowSays ==
    ASSUME NEW before, before = [book |-> before.book, report |-> before.report],
           NEW r, NEW i, NEW outcome
    PROVE  ImportRow(before, r, i, outcome)
               = [book |-> After(before.book, r, outcome),
                  report |-> Append(before.report, Says(before.book, r, i, outcome))]
<1>1. CASE Wrong(r)
  BY <1>1 DEF ImportRow, After, Says, Wrong
<1>2. CASE ~ Wrong(r)
  BY <1>2 DEF ImportRow, After, Says, Wrong, Asking
<1> QED BY <1>1, <1>2

\* The import of a file of two rows, one after the other
LEMMA ImportTwo ==
    ASSUME NEW b, NEW file \in [1 .. 2 -> FileRow], NEW i, NEW dry_run, NEW excluded
    PROVE  LET one == Verdict(dry_run, excluded, 1)
               two == Verdict(dry_run, excluded, 2)
           IN Import(b, file, i, dry_run, excluded)
                  = <<Says(b, file[1], i, one), Says(After(b, file[1], one), file[2], i, two)>>
<1> DEFINE outcome(k) == IF dry_run THEN "preview"
                         ELSE IF k \in excluded THEN "skipped" ELSE "created"
           one == Verdict(dry_run, excluded, 1)
           two == Verdict(dry_run, excluded, 2)
           start == [book |-> b, report |-> <<>>]
           first == ImportRow(start, file[1], i, one)
           second == ImportRow(first, file[2], i, two)
           step(g) == [k \in 0 .. Len(file) |->
                          IF k = 0 THEN start ELSE ImportRow(g[k - 1], file[k], i, outcome(k))]
           done == CHOOSE g : g = step(g)
           made == [k \in 0 .. 2 |-> IF k = 0 THEN start ELSE IF k = 1 THEN first ELSE second]
<1>1. Len(file) = 2 /\ 0 .. Len(file) = {0, 1, 2} /\ 0 .. 2 = {0, 1, 2}
  <2>1. Len(file) = 2
    OBVIOUS
  <2>2. 0 .. 2 = {0, 1, 2}
    OBVIOUS
  <2> QED BY <2>1, <2>2
<1>2. outcome(1) = one /\ outcome(2) = two /\ 1 - 1 = 0 /\ 2 - 1 = 1
  BY DEF Verdict
<1>3. made = step(made)
  <2> HIDE DEF start, first, second, outcome
  <2>1. made[0] = start /\ made[1] = first /\ made[2] = second
    OBVIOUS
  <2>2. step(made)[0] = start /\ step(made)[1] = first /\ step(made)[2] = second
    BY <1>1, <1>2, <2>1 DEF first, second
  <2>3. DOMAIN made = {0, 1, 2} /\ DOMAIN step(made) = {0, 1, 2}
    BY <1>1
  <2> HIDE DEF made, step
  <2> QED BY <2>1, <2>2, <2>3 DEF made, step
<1> HIDE DEF made
<1>4. done = step(done)
  BY <1>3
<1> HIDE DEF done, outcome
<1>5. done[0] = start
  BY <1>1, <1>4
<1>6. done[1] = first
  BY <1>1, <1>2, <1>4, <1>5
<1>7. done[2] = second
  BY <1>1, <1>2, <1>4, <1>6
<1>8. Import(b, file, i, dry_run, excluded) = done[Len(file)].report
  BY DEF Import, done, outcome
<1>9. start.book = b /\ start.report = <<>>
  OBVIOUS
<1>r. start = [book |-> start.book, report |-> start.report]
  OBVIOUS
<1> HIDE DEF start, one, two
<1>10. first = [book |-> After(b, file[1], one), report |-> <<Says(b, file[1], i, one)>>]
  <2>1. first = [book |-> After(start.book, file[1], one),
                 report |-> Append(start.report, Says(start.book, file[1], i, one))]
    BY <1>r, ImportRowSays
  <2> HIDE DEF first
  <2> QED BY <1>9, <2>1
<1> HIDE DEF first
<1>11. /\ first = [book |-> first.book, report |-> first.report]
       /\ first.book = After(b, file[1], one) /\ first.report = <<Says(b, file[1], i, one)>>
  BY <1>10
<1>12. second = [book |-> After(first.book, file[2], two),
                 report |-> Append(first.report, Says(first.book, file[2], i, two))]
  BY <1>11, ImportRowSays
<1> HIDE DEF second
<1>13. Import(b, file, i, dry_run, excluded)
           = <<Says(b, file[1], i, one), Says(After(b, file[1], one), file[2], i, two)>>
  <2>1. second.report = Append(first.report, Says(first.book, file[2], i, two))
    BY <1>12
  <2> QED BY <1>1, <1>7, <1>8, <1>11, <2>1
<1> QED BY <1>13 DEF one, two

\* The line of a first row in the reports of a preview and of the import
LEMMA FirstSays ==
    ASSUME NEW b, NEW r, NEW i, NEW outcome
    PROVE  LET seen == Says(b, r, i, "preview")
               done == Says(b, r, i, outcome)
           IN IF seen.status = "error" THEN done = seen
              ELSE /\ done.status = outcome /\ done.duplicate = seen.duplicate
                   /\ done.existing = seen.existing /\ seen.existing = WithoutLine(b, r.part)
<1>1. CASE Wrong(r)
  BY <1>1 DEF Says
<1>2. CASE ~ Wrong(r)
  BY <1>2 DEF Says
<1> QED BY <1>1, <1>2

\* The line of a row that follows another, q
LEMMA SecondSays ==
    ASSUME NEW S, NEW b \in Seq(S), NEW q, NEW r, NEW i, i # Null,
           NEW before \in {"skipped", "created"}, NEW outcome
    PROVE  LET seen == Says(b, r, i, "preview")
               done == Says(After(b, q, before), r, i, outcome)
           IN IF seen.status = "error" THEN done = seen
              ELSE /\ done.status = outcome /\ done.duplicate = seen.duplicate
                   /\ done.existing = seen.existing
                          + (IF Says(b, q, i, before).status = "created" /\ q.part = r.part
                             THEN 1 ELSE 0)
<1> DEFINE kept == After(b, q, before)
           part == r.part
           more == IF Says(b, q, i, before).status = "created" /\ q.part = part THEN 1 ELSE 0
<1>1. CASE Wrong(r)
  BY <1>1 DEF Says
<1>2. CASE ~ Wrong(r)
  <2>1. WithoutLine(b, part) \in Nat
    BY WithoutLineType
  <2>2. CASE Wrong(q) \/ before # "created"
    <3>1. kept = b
      BY <2>2 DEF After
    <3>2. Says(b, q, i, before).status # "created"
      BY <2>2 DEF Says
    <3>3. more = 0
      BY <3>2
    <3> HIDE DEF kept, more, part
    <3>4. WithoutLine(kept, part) = WithoutLine(b, part) + more
      BY <2>1, <3>1, <3>3
    <3> QED BY <1>2, <3>1, <3>4 DEF Says, kept, more, part
  <2>3. CASE ~ (Wrong(q) \/ before # "created")
    <3>3. kept = Append(b, Asking(q))
      BY <2>3 DEF After
    <3>4. more = IF q.part = part THEN 1 ELSE 0
      BY <2>3 DEF Says
    <3> HIDE DEF part, kept, more
    <3>5. /\ WithoutLine(Append(b, Asking(q)), part)
                 = WithoutLine(b, part) + (IF q.part = part THEN 1 ELSE 0)
          /\ AskedOn(Append(b, Asking(q)), part, i) = AskedOn(b, part, i)
      BY BookGrows
    <3>6. /\ WithoutLine(kept, part) = WithoutLine(b, part) + more
          /\ AskedOn(kept, part, i) = AskedOn(b, part, i)
      BY <3>3, <3>4, <3>5
    <3> QED BY <1>2, <3>6 DEF Says, kept, more, part
  <2> QED BY <2>2, <2>3
<1> QED BY <1>1, <1>2

LEMMA PreviewSays ==
    ASSUME NEW b, NEW file \in [1 .. 2 -> FileRow], NEW i
    PROVE  Import(b, file, i, TRUE, {})
               = <<Says(b, file[1], i, "preview"), Says(b, file[2], i, "preview")>>
<1> DEFINE yes == TRUE
           none == {}
           preview == "preview"
<1>1. /\ Verdict(yes, none, 1) = preview /\ Verdict(yes, none, 2) = preview
      /\ After(b, file[1], preview) = b
  BY DEF Verdict, After
<1> HIDE DEF yes, none, preview
<1>2. Import(b, file, i, yes, none) = <<Says(b, file[1], i, preview), Says(b, file[2], i, preview)>>
  BY <1>1, ImportTwo
<1> QED BY <1>2 DEF yes, none, preview

LEMMA ImportSays ==
    ASSUME NEW b, NEW file \in [1 .. 2 -> FileRow], NEW i, NEW excluded
    PROVE  LET one == IF 1 \in excluded THEN "skipped" ELSE "created"
               two == IF 2 \in excluded THEN "skipped" ELSE "created"
           IN Import(b, file, i, FALSE, excluded)
                  = <<Says(b, file[1], i, one), Says(After(b, file[1], one), file[2], i, two)>>
<1> DEFINE no == FALSE
           one == IF 1 \in excluded THEN "skipped" ELSE "created"
           two == IF 2 \in excluded THEN "skipped" ELSE "created"
<1>1. Verdict(no, excluded, 1) = one /\ Verdict(no, excluded, 2) = two
  BY DEF Verdict
<1> HIDE DEF no, one, two
<1>2. Import(b, file, i, no, excluded)
          = <<Says(b, file[1], i, one), Says(After(b, file[1], one), file[2], i, two)>>
  BY <1>1, ImportTwo
<1> QED BY <1>2 DEF no, one, two

LEMMA ImportHolds == ASSUME NEW d \in Database PROVE ImportForeseen(d)
<1> SUFFICES ASSUME NEW book \in {Book(d)}, NEW file \in [1 .. 2 -> FileRow],
                    NEW i \in Interventions,
                    NEW seen \in {Import(book, file, i, TRUE, {})}, NEW excluded \in SUBSET {1},
                    NEW done \in {Import(book, file, i, FALSE, excluded)},
                    NEW k \in DOMAIN file
             PROVE  IF seen[k].status = "error" THEN done[k] = seen[k]
                    ELSE /\ done[k].status = IF k \in excluded THEN "skipped" ELSE "created"
                         /\ done[k].duplicate = seen[k].duplicate
                         /\ done[k].existing = seen[k].existing + Cardinality(
                               {j \in 1 .. k - 1 : /\ done[j].status = "created"
                                                   /\ file[j].part = file[k].part})
  BY DEF ImportForeseen
<1> DEFINE S == {book[x] : x \in DOMAIN book}
           one == IF 1 \in excluded THEN "skipped" ELSE "created"
           two == IF 2 \in excluded THEN "skipped" ELSE "created"
           q == file[1]
           r == file[2]
           made == {j \in 1 .. k - 1 : /\ done[j].status = "created"
                                       /\ file[j].part = file[k].part}
           both == done[1].status = "created" /\ q.part = r.part
<1>1. book \in Seq(S)
  <2>1. IsFiniteSet(Live(d))
    BY LinesFinite DEF Live
  <2>2. Cardinality(Live(d)) \in Nat
    BY <2>1, FS_CardinalityType
  <2>3. DOMAIN book = 1 .. Cardinality(Live(d)) /\ book = [x \in DOMAIN book |-> book[x]]
    BY DEF Book
  <2> QED BY <2>2, <2>3
<1>2. i # Null /\ k \in {1, 2}
  BY CatalogueAssumption
<1> HIDE DEF S
<1>3. seen[1] = Says(book, q, i, "preview") /\ seen[2] = Says(book, r, i, "preview")
  <2>1. seen = <<Says(book, q, i, "preview"), Says(book, r, i, "preview")>>
    BY PreviewSays, ZenonT(60)
  <2> QED BY <2>1
<1>4. done[1] = Says(book, q, i, one) /\ done[2] = Says(After(book, q, one), r, i, two)
  <2>1. done = <<Says(book, q, i, one), Says(After(book, q, one), r, i, two)>>
    BY ImportSays, ZenonT(60)
  <2> QED BY <2>1
<1>5. one \in {"skipped", "created"}
  OBVIOUS
<1> HIDE DEF one, two
<1>6. CASE k = 1
  <2>1. IF seen[1].status = "error" THEN done[1] = seen[1]
        ELSE /\ done[1].status = one /\ done[1].duplicate = seen[1].duplicate
             /\ done[1].existing = seen[1].existing
             /\ seen[1].existing = WithoutLine(book, q.part)
    BY <1>3, <1>4, FirstSays
  <2>2. made = {}
    BY <1>6
  <2> HIDE DEF made
  <2>3. Cardinality(made) = 0
    BY <2>2, FS_EmptySet
  <2>4. WithoutLine(book, q.part) \in Nat
    BY <1>1, WithoutLineType
  <2>5. IF seen[1].status = "error" THEN done[1] = seen[1]
        ELSE /\ done[1].status = one /\ done[1].duplicate = seen[1].duplicate
             /\ done[1].existing = seen[1].existing + Cardinality(made)
    <3>1. CASE seen[1].status = "error"
      BY <2>1, <3>1
    <3>2. CASE seen[1].status # "error"
      <4>1. /\ done[1].status = one /\ done[1].duplicate = seen[1].duplicate
            /\ done[1].existing = seen[1].existing
            /\ seen[1].existing = WithoutLine(book, q.part)
        BY <2>1, <3>2
      <4>2. seen[1].existing + Cardinality(made) = seen[1].existing
        BY <2>3, <2>4, <4>1
      <4> QED BY <3>2, <4>1, <4>2
    <3> QED BY <3>1, <3>2
  <2> QED BY <1>6, <2>5 DEF one, made
<1>7. CASE k = 2
  <2>1. IF seen[2].status = "error" THEN done[2] = seen[2]
        ELSE /\ done[2].status = two /\ done[2].duplicate = seen[2].duplicate
             /\ done[2].existing = seen[2].existing
                    + (IF Says(book, q, i, one).status = "created" /\ q.part = r.part
                       THEN 1 ELSE 0)
    <3>1. IF Says(book, r, i, "preview").status = "error"
          THEN Says(After(book, q, one), r, i, two) = Says(book, r, i, "preview")
          ELSE /\ Says(After(book, q, one), r, i, two).status = two
               /\ Says(After(book, q, one), r, i, two).duplicate
                      = Says(book, r, i, "preview").duplicate
               /\ Says(After(book, q, one), r, i, two).existing
                      = Says(book, r, i, "preview").existing
                          + (IF Says(book, q, i, one).status = "created" /\ q.part = r.part
                             THEN 1 ELSE 0)
      BY <1>1, <1>2, <1>5, SecondSays
    <3> QED BY <1>3, <1>4, <3>1
  <2>2. made = IF both THEN {1} ELSE {}
    <3>1. 1 .. k - 1 = {1}
      BY <1>7
    <3> QED BY <1>7, <3>1
  <2> HIDE DEF made
  <2>3. Cardinality(made) = IF both THEN 1 ELSE 0
    BY <2>2, FS_EmptySet, FS_Singleton
  <2>4. IF seen[2].status = "error" THEN done[2] = seen[2]
        ELSE /\ done[2].status = two /\ done[2].duplicate = seen[2].duplicate
             /\ done[2].existing = seen[2].existing + Cardinality(made)
    BY <1>4, <2>1, <2>3
  <2> QED BY <1>7, <2>4 DEF two, made
<1> QED BY <1>2, <1>6, <1>7

\* With no call under way the screens agree: the list, the detail and the dispatch count
\* the same requests, the pages and the exports the same selected lines, and the preview
\* of an import foresees it, whatever the calls before left in the tables.
THEOREM ViewsHold == Spec => []ViewsAgree
<1>1. IInv => ViewsAgree
  BY EditableHolds, CountsHold, PagesHold, OrdersHold, ReceptionHolds, DeliveriesHold,
     ImportHolds DEF IInv, Consistent, ViewsAgree
<1> QED BY <1>1, Invariance, PTL
================================================================================

------------------------------ MODULE Migrations ------------------------------
(***************************************************************************)
(* The migrations that move data: 003 makes the links of actions and tasks *)
(* many to many, 006 moves the requests of an intervention to its actions, *)
(* 009 makes a part of every stock item, 011 moves the requests from items *)
(* to parts and 012 lets an order line name a part alone. Each is one      *)
(* transaction, run while the application is stopped; the others of the    *)
(* chain create tables and views. Between an upgrade and a downgrade the   *)
(* application of the last revision writes.                                *)
(***************************************************************************)
EXTENDS Catalogue

CONSTANTS
    Makers,   \* rows of manufacturer_item
    Actions,  \* intervention actions, numbered in the order of created_at
    Tasks, Interventions,
    MaxRefs,  \* bound on the supplier references there are before 009
    MaxWrites \* bound on the application's writes to the migrated tables

ASSUME MigrationsAssumption ==
    /\ IsFiniteSet(Actions) /\ IsFiniteSet(Makers) /\ IsFiniteSet(Items)
    /\ Actions \subseteq Nat /\ {MaxRefs, MaxWrites} \subseteq Nat
    /\ Null \notin Actions \cup Tasks \cup Interventions

VARIABLES
    revision,  \* the row of alembic_version_backend
    refused,   \* a migration raised and was rolled back
    maker,     \* manufacturer_item_id of an item or of a supplier reference
    same,      \* all manufacturer_item have one name and reference, up to blanks
    unset,     \* the supplier references whose is_preferred is NULL
    part,      \* part with its part_manufacturer_ref; Null without a row
    partref,   \* part_supplier_ref
    request,   \* purchase_request: the item and the part it names
    line,      \* supplier_order_line: the same
    link,      \* intervention_action_task; before 003, as [task, action] columns
    demand,    \* the same request: its intervention before 006, and its actions
    writes     \* the application's writes so far

stocked == <<maker, same, unset>>
linked == <<link, demand>>
mvars == <<revision, refused, stocked, part, partref, request, line, linked, writes>>

Head == 12

Stock == {i \in Items : item[i] # Null}
Rows == {k \in RefKeys : k[1] \in Items /\ ref[k] # Null}
Named(row) == {row.item, row.part} \ {Null}

------------------------------------------------------------------------------
(* 009: from stock_item, manufacturer_item and stock_item_supplier to part, *)
(* part_manufacturer_ref and part_supplier_ref.                             *)

\* The maker's name and reference; a blank reference is written REF-INCONNUE.
KeyOf(m) == IF same THEN "shared" ELSE m

\* C1, the makers the supplier references name; C2, that of the item, preferred
ViaRefs(i) == {KeyOf(maker[k]) : k \in {r \in Rows : r[1] = i /\ maker[r] # Null}}
Direct(i) == IF maker[i] = Null THEN {} ELSE {KeyOf(maker[i])}

\* C3: an item without any maker has the maker INCONNU, preferred.
Known(i) == IF ViaRefs(i) \cup Direct(i) = {} THEN {"INCONNU"} ELSE ViaRefs(i) \cup Direct(i)
Marked(i) == IF ViaRefs(i) \cup Direct(i) = {} THEN {"INCONNU"} ELSE Direct(i)

\* Fault: without a preferred reference, none is elected.
ElectMarked(i) == {Marked(i)}

\* C4: one of the preferred ones stays so; without any, one is elected. They are
\* all created at the same instant, the order between them is the database's.
Elect(i) == {{key} : key \in IF Marked(i) = {} THEN Known(i) ELSE Marked(i)}

\* D: a supplier reference goes to its maker, or to the preferred one.
PartRefs(made) ==
    UNION {{[row |-> k, key |-> key, preferred |-> ref[k]] :
               key \in IF maker[k] # Null THEN made[k[1]].known \cap {KeyOf(maker[k])}
                       ELSE made[k[1]].preferred} : k \in Rows}

\* F: each part has a reference and one preferred; is_preferred is NOT NULL, and
\* part_supplier_ref keeps the ids of the rows it is made from.
Accepted(made, refs) ==
    /\ \A i \in Stock : made[i].known # {} /\ Cardinality(made[i].preferred) = 1
    /\ unset \cap {r.row : r \in refs} = {}
    /\ Cardinality({r.row : r \in refs}) = Cardinality(refs)

MakeParts ==
    \E chosen \in [Stock -> UNION {Elect(i) : i \in Stock}] :
        /\ \A i \in Stock : chosen[i] \in Elect(i)
        /\ LET made == [o \in Owners |-> IF o \notin Stock THEN Null
                            ELSE [known |-> Known(o), preferred |-> chosen[o]]]
               refs == PartRefs(made)
           IN IF Accepted(made, refs)
              THEN /\ part' = made /\ partref' = refs
                   /\ request' = [request EXCEPT !.part = request.item]
                   /\ line' = [line EXCEPT !.part = line.item]
                   /\ revision' = 9 /\ UNCHANGED refused
              ELSE refused' = TRUE /\ UNCHANGED <<part, partref, request, line, revision>>

DropParts ==
    /\ part' = [o \in Owners |-> Null] /\ partref' = {}
    /\ request' = [request EXCEPT !.part = Null]
    /\ line' = [line EXCEPT !.part = Null]
    /\ revision' = 6 /\ UNCHANGED refused

Upgrade009 == revision = 6 /\ MakeParts /\ UNCHANGED <<stocked, linked>>
Downgrade009 == revision = 9 /\ DropParts /\ UNCHANGED <<stocked, linked>>

------------------------------------------------------------------------------
(* 011 and 012 *)

parts == <<part, partref>>

\* A request that names an item with its part, or the item alone, names the part.
Upgrade011 ==
    /\ revision = 9 /\ revision' = 11
    /\ request' = IF request.item # Null /\ request.part \in {Null, request.item}
                     /\ part[request.item] # Null
                  THEN [item |-> Null, part |-> request.item] ELSE request
    /\ UNCHANGED <<refused, stocked, parts, line, linked>>

Downgrade011 ==
    /\ revision = 11 /\ revision' = 9
    /\ request' = IF request.item = Null /\ request.part \in Stock
                  THEN [item |-> request.part, part |-> Null] ELSE request
    /\ UNCHANGED <<refused, stocked, parts, line, linked>>

Upgrade012 ==
    /\ revision = 11 /\ revision' = 12
    /\ UNCHANGED <<refused, stocked, parts, request, line, linked>>

\* stock_item_id becomes NOT NULL again, which a line of a part alone forbids.
Downgrade012 ==
    /\ revision = 12
    /\ IF line.part # Null /\ line.item = Null THEN refused' = TRUE /\ UNCHANGED revision
       ELSE revision' = 11 /\ UNCHANGED refused
    /\ UNCHANGED <<stocked, parts, request, line, linked>>

------------------------------------------------------------------------------
(* 003 and 006 *)

others == <<refused, stocked, parts, request, line>>

LinksOf(t) == {a \in Actions : <<a, t>> \in link.rows}

Upgrade003 ==
    /\ revision = 2 /\ revision' = 3
    /\ link' = [rows |-> {<<link.action[t], t>> : t \in {u \in Tasks : link.action[u] # Null}}
                      \cup {<<a, link.task[a]>> : a \in {b \in Actions : link.task[b] # Null}},
                action |-> [t \in Tasks |-> Null], task |-> [a \in Actions |-> Null]]
    /\ UNCHANGED <<others, demand>>

\* A task gets the last of its actions back, an action no task.
Downgrade003 ==
    /\ revision = 3 /\ revision' = 2
    /\ link' = [rows |-> {},
                action |-> [t \in Tasks |-> IF LinksOf(t) = {} THEN Null ELSE Max(LinksOf(t))],
                task |-> [a \in Actions |-> Null]]
    /\ UNCHANGED <<others, demand>>

\* The actions of an intervention
ActionsOf(v) == {a \in Actions : demand.on[a] = v}

\* A request of an intervention none of whose actions has it goes to the first one.
Upgrade006 ==
    /\ revision = 3 /\ revision' = 6
    /\ demand' = [demand EXCEPT !.intervention = Null,
                     !.actions = IF demand.intervention = Null
                                    \/ ActionsOf(demand.intervention) = {}
                                    \/ @ \cap ActionsOf(demand.intervention) # {} THEN @
                                 ELSE @ \cup {Min(ActionsOf(demand.intervention))}]
    /\ UNCHANGED <<others, link>>

\* The column comes back empty.
Downgrade006 ==
    /\ revision = 6 /\ revision' = 3
    /\ UNCHANGED <<others, linked>>

------------------------------------------------------------------------------
(* What the application of the last revision writes between two migrations *)

PartRows == {o \in Owners : part[o] # Null}

\* PUT /purchase-requests/{id} writes either column.
Requalify ==
    /\ request' \in [item : Stock \cup {Null}, part : PartRows \cup {Null}]
    /\ UNCHANGED <<revision, refused, stocked, parts, line, linked>>

\* A line is entered for an item, dispatched for a part, or deleted.
ReplaceLine ==
    /\ line' \in [item : Stock, part : {Null}] \cup [item : {Null}, part : PartRows \cup {Null}]
    /\ UNCHANGED <<revision, refused, stocked, parts, request, linked>>

\* POST /parts with its maker's reference
CreatePart(p) ==
    /\ part[p] = Null
    /\ part' = [part EXCEPT ![p] = [known |-> {"new"}, preferred |-> {"new"}]]
    /\ UNCHANGED <<revision, refused, stocked, partref, request, line, linked>>

LinkTask(a, t) ==
    /\ link' = [link EXCEPT !.rows = @ \cup {<<a, t>>}]
    /\ UNCHANGED <<revision, others, demand>>

\* The catalogue's own calls: an item that an order line names is not deleted
\* (ON DELETE RESTRICT), a request that names it loses it (ON DELETE SET NULL).
CatalogueStep ==
    /\ Next
    /\ line.item # Null => item'[line.item] # Null
    /\ request' = IF request.item # Null /\ item'[request.item] = Null
                  THEN [request EXCEPT !.item = Null] ELSE request
    /\ UNCHANGED <<revision, refused, stocked, parts, line, linked>>

------------------------------------------------------------------------------

Migrate == \/ Upgrade003 \/ Upgrade006 \/ Upgrade009 \/ Upgrade011 \/ Upgrade012
           \/ Downgrade003 \/ Downgrade006 \/ Downgrade009 \/ Downgrade011 \/ Downgrade012

Writes == /\ revision = Head /\ writes < MaxWrites /\ writes' = writes + 1
          /\ \/ Requalify \/ ReplaceLine \/ \E p \in Parts : CreatePart(p)
             \/ \E a \in Actions, t \in Tasks : LinkTask(a, t)

NoLinks == [rows |-> {}, action |-> [t \in Tasks |-> Null], task |-> [a \in Actions |-> Null]]
NoDemand == [intervention |-> Null, actions |-> {}, on |-> [a \in Actions |-> Null]]
NoRow == [item |-> Null, part |-> Null]

\* No item has become a part.
Empty == /\ maker = [k \in Items \cup RefKeys |-> Null] /\ same = FALSE /\ unset = {}
         /\ refused = FALSE /\ part = [o \in Owners |-> Null] /\ partref = {}

\* An item with these references, some of them preferred and some with no flag, and
\* the makers the item and they name
StockedWith(i, rows) ==
    /\ \E preferred \in SUBSET rows :
           /\ ref = [k \in RefKeys |-> IF k \in rows THEN k \in preferred ELSE Null]
           /\ unset \in SUBSET (rows \ preferred)
    /\ \E named \in [{i} \cup rows -> Makers \cup {Null}] :
           maker = [k \in Items \cup RefKeys |-> IF k \in {i} \cup rows THEN named[k] ELSE Null]
    /\ item = [j \in Items |-> [template |-> Null, version |-> 0, chars |-> {}, shown |-> {},
                                refs |-> Cardinality({k \in rows : k[1] = j})]]

\* Stock before 009: one item with suppliers and makers among others that have none,
\* and a request and an order line that name some
LegacyStock ==
    /\ revision = 6 /\ refused = FALSE
    /\ \E i \in Items, from \in {f \in SUBSET Sources : Cardinality(f) <= MaxRefs} :
           StockedWith(i, {i} \X from)
    /\ same \in BOOLEAN
    /\ part = [o \in Owners |-> Null] /\ partref = {}
    /\ request \in [item : Items \cup {Null}, part : {Null}]
    /\ line \in [item : Items \cup {Null}, part : {Null}]
    /\ link = NoLinks /\ demand = NoDemand

\* Actions and tasks before 003, with a request of an intervention
LegacyLinks ==
    /\ revision = 2 /\ Empty
    /\ item = [i \in Items |-> Null] /\ ref = [k \in RefKeys |-> Null]
    /\ request = NoRow /\ line = NoRow
    /\ link \in [rows : {{}}, action : [Tasks -> Actions \cup {Null}],
                 task : [Actions -> Tasks \cup {Null}]]
    /\ demand \in [intervention : Interventions \cup {Null}, actions : SUBSET Actions,
                   on : [Actions -> Interventions]]

MigrationInit ==
    \/ /\ Init /\ "migration" \notin served
       /\ writes = 0 /\ revision = Head /\ Empty /\ request = NoRow /\ line = NoRow
       /\ link = NoLinks /\ demand = NoDemand
    \/ /\ served \in Loads /\ "migration" \in served
       /\ template = [t \in Templates |-> Null] /\ sub = [s \in SubFamilies |-> "none"]
       /\ supplier = Sources /\ job = [w \in Workers |-> Idle] /\ writes = 0
       /\ LegacyStock \/ LegacyLinks

MigrationNext ==
    \/ /\ revision = Head /\ CatalogueStep /\ UNCHANGED writes
    \/ /\ "migration" \in served /\ \A w \in Workers : job[w].at = "idle"
       /\ \/ Migrate /\ UNCHANGED writes
          \/ Writes
       /\ UNCHANGED vars

MigrationSpec == MigrationInit /\ [][MigrationNext]_<<vars, mvars>>

------------------------------------------------------------------------------
(* Properties *)

\* Every item has become a part with its makers and one preferred, every supplier
\* reference of an item one reference of its part, with its maker and flag.
PartsComplete ==
    /\ \A i \in Stock : /\ Cardinality(part[i].preferred) = 1
                        /\ part[i].preferred \subseteq part[i].known
                        /\ maker[i] # Null => part[i].preferred = {KeyOf(maker[i])}
    /\ \A k \in Rows : Cardinality({r \in partref : r.row = k}) = 1
    /\ \A r \in partref : /\ r.row \in Rows /\ r.preferred = ref[r.row]
                          /\ r.key \in part[r.row[1]].known
                          /\ maker[r.row] # Null => r.key = KeyOf(maker[r.row])

\* A row that names one thing, which is in stock, still names it and nothing else.
KeepsName(before, after) ==
    Cardinality(Named(before)) = 1 /\ Named(before) \subseteq Stock => Named(after) = Named(before)

\* The tasks an action is linked to, in either form
Pairs(l) == l.rows \cup {<<l.action[t], t>> : t \in {u \in Tasks : l.action[u] # Null}}
                   \cup {<<a, l.task[a]>> : a \in {b \in Actions : l.task[b] # Null}}

\* One step: what a migration makes of the data, what it may be refused for.
KeepsData ==
    /\ refused' # refused => IF revision = Head THEN line.item = Null
                             ELSE unset \cap Rows # {}
    /\ revision' # revision =>
          /\ revision = 6 /\ revision' = 9 => PartsComplete'
          /\ KeepsName(request, request') /\ KeepsName(line, line')
          /\ Pairs(link') \subseteq Pairs(link)
          /\ IF revision' > revision THEN Pairs(link') = Pairs(link)
             ELSE {p[2] : p \in Pairs(link')} = {p[2] : p \in Pairs(link)}
          /\ demand.intervention # Null /\ demand'.intervention = Null =>
                 \/ demand'.actions \cap ActionsOf(demand.intervention) # {}
                 \/ ActionsOf(demand.intervention) = {}

\* Whatever rows there were, and whatever was written between going up and coming
\* back, 009 makes complete parts and is refused only for a flag that is NULL (or
\* 012's return for a line of a part alone); no migration changes what a request or
\* a line names; going up keeps every link between actions and tasks, coming back
\* leaves a task one if it had any; and a request of an intervention that has
\* actions ends on one of them.
MigrationsKeep == [][KeepsData]_mvars

==============================================================================

------------------------------- MODULE Catalogue -------------------------------
(***************************************************************************)
(* The stock catalogue: part templates and their versions, the items made  *)
(* from them, and the suppliers' references of the items and of the parts, *)
(* under calls that overlap. What a call reads on another connection, or   *)
(* in an earlier statement, is in the frame of its worker.                 *)
(***************************************************************************)
EXTENDS Integers, FiniteSetsExt

CONSTANTS
    Workers,
    Templates,    \* ids of part_template
    SubFamilies,
    Items, Parts,
    Sources,      \* suppliers of the items, manufacturers of the parts
    Fields,       \* keys of a template's fields
    Shapes,       \* the [pattern, fields, required] that templates are given
    MaxVersion,   \* bound on the versions of a template
    Loads,        \* each a set of calls that arrive together
    Null

ASSUME CatalogueAssumption ==
    /\ IsFiniteSet(Workers) /\ IsFiniteSet(Sources) /\ IsFiniteSet(Templates)
    /\ MaxVersion \in Nat \ {0}
    /\ Null \notin Templates \cup Sources \cup SubFamilies \cup Items \cup Parts
    /\ Items \cap Parts = {}
    /\ Shapes \subseteq [pattern : SUBSET Fields, fields : SUBSET Fields, required : SUBSET Fields]

Owners == Items \cup Parts

\* UNIQUE(stock_item_id, supplier_id), and the manufacturer's reference of a part
RefKeys == Owners \X Sources

Template == [version : 1 .. MaxVersion, shape : Shapes]
Item == [template : Templates \cup {Null}, version : 0 .. MaxVersion,
         chars : SUBSET Fields, shown : SUBSET Fields, refs : 0 .. Cardinality(Sources)]

\* Null stands for the absence of a row, or of a reference.
ASSUME NullAssumption == Null \notin Template \cup Item \cup BOOLEAN

VARIABLES
    template,  \* part_template with its fields, all of one code; Null without a row
    sub,       \* stock_sub_family: the template it imposes, "none" without a row
    item,      \* stock_item with its characteristics
    supplier,  \* the rows of supplier
    ref,       \* stock_item_supplier and part_manufacturer_ref: is_preferred
    job,       \* the frame of each worker
    served     \* the calls the run lets arrive

vars == <<template, sub, item, supplier, ref, job, served>>

Stages == {"idle", "version", "insert_version", "drop_template", "load", "fields", "insert_item",
           "insert_ref", "update_ref", "count_refs", "drop_ref", "prefer", "drop_supplier",
           "insert_mfr"}

Idle == [at |-> "idle", key |-> Null, shape |-> Null, version |-> 0, preferred |-> FALSE,
         seen |-> {}]
Frame == [at : Stages,
          key : {Null} \cup Templates \cup SubFamilies \cup Sources \cup RefKeys,
          shape : {Null} \cup [pattern : SUBSET Fields, fields : SUBSET Fields,
                               required : SUBSET Fields],
          version : 0 .. MaxVersion, preferred : BOOLEAN, seen : SUBSET Sources]

Init == /\ template = [t \in Templates |-> Null]
        /\ sub = [s \in SubFamilies |-> "none"]
        /\ item = [i \in Items |-> Null]
        /\ supplier = {}
        /\ ref = [k \in RefKeys |-> Null]
        /\ job = [w \in Workers |-> Idle]
        /\ served \in Loads

stock == <<template, sub, item>>
references == <<supplier, ref>>

\* Ids are not used twice: a row comes back under an id of the model only when no
\* frame remembers the earlier one.
Fresh(id) == \A w \in Workers : job[w].key # id
FreshItem(i) == \A w \in Workers : job[w].key \notin {i} \X Sources
FreshRef(k) == \A w \in Workers : job[w].key = k => job[w].at \in {"insert_ref", "insert_mfr"}

Serves(w, call) == call \in served /\ job[w].at = "idle"
Goes(w, frame) == job' = [job EXCEPT ![w] = frame]
Returns(w) == Goes(w, Idle)

------------------------------------------------------------------------------
(* Part templates: a row and its fields are never updated, only inserted under *)
(* a new id or deleted.                                                        *)

Existing == {t \in Templates : template[t] # Null}
Versions == {template[t].version : t \in Existing}

InsertTemplate(t, version, shape) ==
    template' = [template EXCEPT ![t] = [version |-> version, shape |-> shape]]

\* POST /part-templates; UNIQUE(code, version)
CreateTemplate(w, t, shape) ==
    /\ Serves(w, "template")
    /\ template[t] = Null /\ Fresh(t) /\ 1 \notin Versions
    /\ InsertTemplate(t, 1, shape)
    /\ UNCHANGED <<sub, item, references, job, served>>

\* POST /part-templates/{id}/versions reads the template first,
ReadCurrent(w, t) ==
    /\ Serves(w, "template")
    /\ template[t] # Null
    /\ Goes(w, [Idle EXCEPT !.at = "version", !.key = t])
    /\ UNCHANGED <<stock, references, served>>

\* then the last version of its code.
ReadVersion(w) ==
    /\ job[w].at = "version" /\ MaxVersion \notin Versions
    /\ Goes(w, [job[w] EXCEPT !.at = "insert_version",
                              !.version = 1 + Max(Versions \cup {0})])
    /\ UNCHANGED <<stock, references, served>>

\* The insertion, or the violation of UNIQUE(code, version).
InsertVersion(w, t, shape) ==
    /\ job[w].at = "insert_version"
    /\ template[t] = Null /\ Fresh(t)
    /\ IF job[w].version \in Versions THEN UNCHANGED template
       ELSE InsertTemplate(t, job[w].version, shape)
    /\ Returns(w)
    /\ UNCHANGED <<sub, item, references, served>>

UsedBy(t) == {i \in Items : item[i] # Null /\ item[i].template = t}

\* DELETE /part-templates/{id}: the items that use it are counted,
CountUses(w, t) ==
    /\ Serves(w, "template")
    /\ template[t] # Null /\ UsedBy(t) = {}
    /\ Goes(w, [Idle EXCEPT !.at = "drop_template", !.key = t])
    /\ UNCHANGED <<stock, references, served>>

\* Fault: the foreign key of the items does not restrict the deletion.
Cascades(t) == TRUE

\* stock_item_template_fk ON DELETE RESTRICT
Restricted(t) == UsedBy(t) = {}

\* then the row deleted, with its fields; a sub-family loses it.
DropTemplate(w) ==
    /\ job[w].at = "drop_template"
    /\ LET t == job[w].key IN
       IF Restricted(t)
       THEN /\ template' = [template EXCEPT ![t] = Null]
            /\ sub' = [s \in SubFamilies |-> IF sub[s] = t THEN Null ELSE sub[s]]
       ELSE UNCHANGED <<template, sub>>
    /\ Returns(w)
    /\ UNCHANGED <<item, references, served>>

\* POST and PATCH /stock-sub-families: a template can be given, never taken back.
CreateSubFamily(w, s, t) ==
    /\ Serves(w, "family")
    /\ sub[s] = "none" /\ (t # Null => template[t] # Null)
    /\ sub' = [sub EXCEPT ![s] = t]
    /\ UNCHANGED <<template, item, references, job, served>>

UpdateSubFamily(w, s, t) ==
    /\ Serves(w, "family")
    /\ sub[s] # "none" /\ template[t] # Null
    /\ sub' = [sub EXCEPT ![s] = t]
    /\ UNCHANGED <<template, item, references, job, served>>

------------------------------------------------------------------------------
(* Stock items *)

\* POST /stock-items: load_template_for_sub_family reads the template's id,
ReadSubFamily(w, s) ==
    /\ Serves(w, "item")
    /\ sub[s] # "none"
    /\ Goes(w, [Idle EXCEPT !.at = IF sub[s] = Null THEN "insert_item" ELSE "load",
                            !.key = sub[s]])
    /\ UNCHANGED <<stock, references, served>>

\* its row,
LoadTemplate(w) ==
    /\ job[w].at = "load"
    /\ LET t == template[job[w].key] IN
       Goes(w, IF t = Null THEN Idle
               ELSE [job[w] EXCEPT !.at = "fields", !.version = t.version, !.shape = t.shape])
    /\ UNCHANGED <<stock, references, served>>

\* and its fields, which go with the row when it is deleted.
LoadFields(w) ==
    /\ job[w].at = "fields"
    /\ Goes(w, [job[w] EXCEPT !.at = "insert_item",
                   !.shape = IF template[job[w].key] # Null THEN @
                             ELSE [@ EXCEPT !.fields = {}, !.required = {}]])
    /\ UNCHANGED <<stock, references, served>>

\* validate_characteristics: every required field, and none outside the template
Valid(shape, chars) == chars # {} /\ shape.required \subseteq chars /\ chars \subseteq shape.fields

\* generate_dimension: every placeholder has its value.
Displays(shape, chars) == shape.pattern \subseteq chars

\* A legacy item brings its own dimension; the other's is made of its values.
InsertItem(w, i, chars) ==
    /\ job[w].at = "insert_item"
    /\ item[i] = Null /\ FreshItem(i)
    /\ LET f == job[w] IN
       \/ /\ f.key = Null /\ chars = {}
          /\ item' = [item EXCEPT ![i] =
                 [template |-> Null, version |-> 0, chars |-> {}, shown |-> {}, refs |-> 0]]
       \/ /\ f.key # Null /\ Valid(f.shape, chars) /\ Displays(f.shape, chars)
          /\ template[f.key] # Null
          /\ item' = [item EXCEPT ![i] =
                 [template |-> f.key, version |-> f.version, chars |-> chars,
                  shown |-> f.shape.pattern, refs |-> 0]]
    /\ Returns(w)
    /\ UNCHANGED <<template, sub, references, served>>

\* A characteristic, the dimension or a foreign key is refused.
RefuseItem(w) ==
    /\ job[w].at = "insert_item"
    /\ Returns(w)
    /\ UNCHANGED <<stock, references, served>>

\* DELETE /stock-items/{id}: the references and characteristics go with it.
DeleteItem(w, i) ==
    /\ Serves(w, "item")
    /\ item[i] # Null
    /\ item' = [item EXCEPT ![i] = Null]
    /\ ref' = [k \in RefKeys |-> IF k[1] = i THEN Null ELSE ref[k]]
    /\ UNCHANGED <<template, sub, supplier, job, served>>

------------------------------------------------------------------------------
(* References of a stock item *)

RefsOf(o) == {s \in Sources : ref[<<o, s>>] # Null}
PreferredOf(o) == {s \in RefsOf(o) : ref[<<o, s>>]}

\* fn_update_supplier_refs_count, for the rows that appear or disappear
Counted(i, delta) == [item EXCEPT ![i].refs = IF @ + delta < 0 THEN 0 ELSE @ + delta]

\* "Un fournisseur préféré existe déjà pour cet article"
PreferredFree(i, s) == PreferredOf(i) \ {s} = {}

\* POST /stock-item-suppliers looks for a duplicate and for a preferred one,
CheckRef(w, i, s, preferred) ==
    /\ Serves(w, "reference")
    /\ ref[<<i, s>>] = Null /\ FreshRef(<<i, s>>) /\ (preferred => PreferredFree(i, s))
    /\ Goes(w, [Idle EXCEPT !.at = "insert_ref", !.key = <<i, s>>, !.preferred = preferred])
    /\ UNCHANGED <<stock, references, served>>

\* then inserts, under its foreign keys and UNIQUE constraint.
InsertRef(w) ==
    /\ job[w].at = "insert_ref"
    /\ LET k == job[w].key IN
       IF item[k[1]] # Null /\ k[2] \in supplier /\ ref[k] = Null /\ FreshRef(k)
       THEN /\ ref' = [ref EXCEPT ![k] = job[w].preferred]
            /\ item' = Counted(k[1], 1)
       ELSE UNCHANGED <<ref, item>>
    /\ Returns(w)
    /\ UNCHANGED <<template, sub, supplier, served>>

\* PUT /stock-item-suppliers/{id}: the check, then the update.
CheckUpdate(w, i, s, preferred) ==
    /\ Serves(w, "reference")
    /\ ref[<<i, s>>] # Null /\ (preferred => PreferredFree(i, s))
    /\ Goes(w, [Idle EXCEPT !.at = "update_ref", !.key = <<i, s>>, !.preferred = preferred])
    /\ UNCHANGED <<stock, references, served>>

UpdateRef(w) ==
    /\ job[w].at = "update_ref"
    /\ ref' = [ref EXCEPT ![job[w].key] = IF @ = Null THEN Null ELSE job[w].preferred]
    /\ Returns(w)
    /\ UNCHANGED <<stock, supplier, served>>

\* POST /stock-item-suppliers/{id}/set-preferred reads the reference,
ReadPreferred(w, i, s) ==
    /\ Serves(w, "reference")
    /\ ref[<<i, s>>] # Null
    /\ Goes(w, [Idle EXCEPT !.at = "prefer", !.key = <<i, s>>])
    /\ UNCHANGED <<stock, references, served>>

\* Fault: the earlier preferred reference stays so.
PreferToo(w) ==
    /\ job[w].at = "prefer"
    /\ ref' = [ref EXCEPT ![job[w].key] = IF @ = Null THEN Null ELSE TRUE]
    /\ Returns(w)
    /\ UNCHANGED <<stock, supplier, served>>

\* then demotes all those of the item, which locks them, and promotes this one.
Prefer(w) ==
    /\ job[w].at = "prefer"
    /\ LET this == job[w].key IN
       ref' = [k \in RefKeys |-> IF k[1] = this[1] /\ ref[k] # Null THEN k = this ELSE ref[k]]
    /\ Returns(w)
    /\ UNCHANGED <<stock, supplier, served>>

\* DELETE /stock-item-suppliers/{id} reads the reference,
ReadRef(w, i, s) ==
    /\ Serves(w, "reference")
    /\ ref[<<i, s>>] # Null
    /\ Goes(w, [Idle EXCEPT !.at = IF ref[<<i, s>>] THEN "count_refs" ELSE "drop_ref",
                            !.key = <<i, s>>])
    /\ UNCHANGED <<stock, references, served>>

\* counts the others when it was the preferred one,
CountRefs(w) ==
    /\ job[w].at = "count_refs"
    /\ LET k == job[w].key IN
       Goes(w, IF RefsOf(k[1]) \ {k[2]} # {} THEN Idle ELSE [job[w] EXCEPT !.at = "drop_ref"])
    /\ UNCHANGED <<stock, references, served>>

\* Fault: the trigger does not see deletions.
DropUncounted(w) ==
    /\ job[w].at = "drop_ref"
    /\ ref' = [ref EXCEPT ![job[w].key] = Null]
    /\ Returns(w)
    /\ UNCHANGED <<stock, supplier, served>>

\* and deletes it.
DropRef(w) ==
    /\ job[w].at = "drop_ref"
    /\ LET k == job[w].key IN
       IF ref[k] = Null THEN UNCHANGED <<ref, item>>
       ELSE ref' = [ref EXCEPT ![k] = Null] /\ item' = Counted(k[1], -1)
    /\ Returns(w)
    /\ UNCHANGED <<template, sub, supplier, served>>

AddSupplier(w, s) ==
    /\ Serves(w, "reference")
    /\ s \notin supplier
    /\ supplier' = supplier \cup {s}
    /\ UNCHANGED <<stock, ref, job, served>>

\* DELETE /suppliers/{id} counts the references of the supplier,
CountSupplierRefs(w, s) ==
    /\ Serves(w, "reference")
    /\ s \in supplier /\ \A i \in Items : ref[<<i, s>>] = Null
    /\ Goes(w, [Idle EXCEPT !.at = "drop_supplier", !.key = s])
    /\ UNCHANGED <<stock, references, served>>

\* then deletes it; the references added since go too (ON DELETE CASCADE).
DropSupplier(w) ==
    /\ job[w].at = "drop_supplier"
    /\ LET s == job[w].key IN
       /\ supplier' = supplier \ {s}
       /\ ref' = [k \in RefKeys |-> IF k[1] \in Items /\ k[2] = s THEN Null ELSE ref[k]]
       /\ item' = [i \in Items |-> IF ref[<<i, s>>] = Null THEN item[i] ELSE Counted(i, -1)[i]]
    /\ Returns(w)
    /\ UNCHANGED <<template, sub, served>>

------------------------------------------------------------------------------
(* References of a part *)

\* POST /parts/{id}/manufacturer-refs: a preferred one demotes those it sees,
DemoteOthers(w, p, s, preferred) ==
    /\ Serves(w, "part")
    /\ ref[<<p, s>>] = Null
    /\ Goes(w, [Idle EXCEPT !.at = "insert_mfr", !.key = <<p, s>>, !.preferred = preferred,
                            !.seen = IF preferred THEN RefsOf(p) ELSE {}])
    /\ UNCHANGED <<stock, references, served>>

\* and is inserted, unless the same one was meanwhile; both are committed at once.
InsertPartRef(w) ==
    /\ job[w].at = "insert_mfr"
    /\ LET k == job[w].key IN
       IF ref[k] # Null THEN UNCHANGED ref
       ELSE ref' = [j \in RefKeys |-> IF j = k THEN job[w].preferred
                                      ELSE IF j[1] = k[1] /\ j[2] \in job[w].seen THEN FALSE
                                      ELSE ref[j]]
    /\ Returns(w)
    /\ UNCHANGED <<stock, supplier, served>>

------------------------------------------------------------------------------

TemplateNext(w) ==
    \/ \E t \in Templates : \/ ReadCurrent(w, t) \/ CountUses(w, t)
                            \/ \E shape \in Shapes : CreateTemplate(w, t, shape)
                                                         \/ InsertVersion(w, t, shape)
    \/ ReadVersion(w) \/ DropTemplate(w)

ItemNext(w) ==
    \/ \E s \in SubFamilies : \/ ReadSubFamily(w, s)
                              \/ \E t \in Templates \cup {Null} : CreateSubFamily(w, s, t)
                              \/ \E t \in Templates : UpdateSubFamily(w, s, t)
    \/ LoadTemplate(w) \/ LoadFields(w) \/ RefuseItem(w)
    \/ \E i \in Items : \/ DeleteItem(w, i)
                        \/ \E chars \in SUBSET Fields : InsertItem(w, i, chars)

ReferenceNext(w) ==
    \/ \E i \in Items, s \in Sources :
           \/ \E preferred \in BOOLEAN : CheckRef(w, i, s, preferred) \/ CheckUpdate(w, i, s, preferred)
           \/ ReadPreferred(w, i, s) \/ ReadRef(w, i, s)
    \/ InsertRef(w) \/ UpdateRef(w) \/ Prefer(w) \/ CountRefs(w) \/ DropRef(w)
    \/ \E s \in Sources : AddSupplier(w, s) \/ CountSupplierRefs(w, s)
    \/ DropSupplier(w)

PartNext(w) ==
    \/ \E p \in Parts, s \in Sources, preferred \in BOOLEAN : DemoteOthers(w, p, s, preferred)
    \/ InsertPartRef(w)

Next == \E w \in Workers : TemplateNext(w) \/ ItemNext(w) \/ ReferenceNext(w) \/ PartNext(w)

Spec == Init /\ [][Next]_vars

------------------------------------------------------------------------------
(* Properties *)

\* Rows and frames keep the values the schema and the code allow.
TypeOK ==
    /\ template \in [Templates -> Template \cup {Null}]
    /\ sub \in [SubFamilies -> Templates \cup {Null, "none"}]
    /\ item \in [Items -> Item \cup {Null}]
    /\ supplier \subseteq Sources
    /\ ref \in [RefKeys -> BOOLEAN \cup {Null}]
    /\ job \in [Workers -> Frame]
    /\ served \in Loads

\* However a template is versioned, deleted or given to another sub-family while
\* an item is being created from what was read of it, an item made from a template
\* names an existing one, in the version it was made from, has all its required
\* characteristics and none outside, and displays those of its pattern.
ItemsFitTemplate ==
    \A i \in Items : item[i] # Null /\ item[i].template # Null =>
        LET t == template[item[i].template] IN
        /\ t # Null /\ t.version = item[i].version
        /\ t.shape.required \subseteq item[i].chars /\ item[i].chars \subseteq t.shape.fields
        /\ item[i].shown = t.shape.pattern /\ item[i].shown \subseteq item[i].chars

\* The count of references kept on an item is theirs, whatever adds or deletes
\* them, the deletion of a supplier that cascades included.
RefsCounted == \A i \in Items : IF item[i] = Null THEN RefsOf(i) = {}
                                ELSE item[i].refs = Cardinality(RefsOf(i))

\* No constraint makes a preferred reference unique, but the checks do as long as
\* calls do not overlap, and each call that overlaps adds one at most.
PreferredBounded == \A o \in Owners : Cardinality(PreferredOf(o)) <= Cardinality(Workers)

------------------------------------------------------------------------------
(* Stated by the documentation, and not what the code does *)

\* "Un seul fournisseur préféré par article"
\* (docs/endpoints/stock-item-suppliers.md).
OnePreferred == \A i \in Items : Cardinality(PreferredOf(i)) <= 1

==============================================================================

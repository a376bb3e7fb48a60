---------------------------- MODULE Catalogue_proofs ----------------------------
(***************************************************************************)
(* Proofs for Catalogue: any number of workers, templates, items, parts    *)
(* and suppliers, whatever calls overlap. The catalogue keeps its          *)
(* invariants when it starts from the rows there were before a migration,  *)
(* and between two migrations.                                             *)
(***************************************************************************)
EXTENDS Migrations, FiniteSetTheorems, WellFoundedInduction, TLAPS

Shape == [pattern : SUBSET Fields, fields : SUBSET Fields, required : SUBSET Fields]
RefStages == {"insert_ref", "update_ref", "count_refs", "drop_ref", "prefer"}

\* What a frame still holds when its next step uses it: the key is of the right kind,
\* and the template an item is being made from is as it was read, or deleted.
Fits(f) ==
    /\ f.at = "insert_version" => f.version \in 1 .. MaxVersion
    /\ f.at \in {"load", "fields", "drop_template"} => f.key \in Templates
    /\ f.at \in {"fields", "insert_item"} /\ f.key # Null =>
           /\ f.key \in Templates /\ f.shape \in Shape
           /\ template[f.key] # Null =>
                  template[f.key].version = f.version /\ template[f.key].shape = f.shape
    /\ f.at \in RefStages => f.key \in Items \X Sources
    /\ f.at = "drop_supplier" => f.key \in Sources
    /\ f.at = "insert_mfr" => f.key \in Parts \X Sources

FramesFit == \A w \in Workers : Fits(job[w])

IInv == TypeOK /\ FramesFit /\ ItemsFitTemplate /\ RefsCounted

------------------------------------------------------------------------------
(* Rows, references and counts *)

LEMMA IdleFits == Idle \in Frame /\ Fits(Idle)
<1>1. Idle \in Frame
  BY CatalogueAssumption DEF Idle, Frame, Stages
<1> QED BY <1>1 DEF Idle, Fits, RefStages

\* Naturals that have a bound have a greatest one.
LEMMA HasMax ==
    ASSUME NEW S \in SUBSET Nat, S # {}, NEW n \in Nat, \A x \in S : x <= n
    PROVE  Max(S) \in S /\ \A y \in S : Max(S) >= y
<1> DEFINE T == {d \in Nat : n - d \in S}
           R == {ss \in Nat \X Nat : ss[1] < ss[2]}
<1>1. IsWellFoundedOn(R, Nat)
  BY NatLessThanWellFounded DEF OpToRel
<1>2. T \subseteq Nat /\ T # {}
  <2>1. PICK x \in S : TRUE
    OBVIOUS
  <2>2. n - x \in Nat /\ n - (n - x) = x
    OBVIOUS
  <2> QED BY <2>2
<1> HIDE DEF R, T
<1>3. PICK d \in T : \A y \in T : <<y, d>> \notin R
  BY <1>1, <1>2, WFMin
<1>4. ASSUME NEW y \in S PROVE n - d >= y
  <2>1. n - y \in Nat /\ n - (n - y) = y
    BY <1>4
  <2>2. n - y \in T
    BY <2>1 DEF T
  <2>3. d \in Nat /\ ~(n - y < d)
    BY <1>2, <1>3, <2>1, <2>2 DEF R
  <2> QED BY <2>1, <2>3
<1>5. n - d \in S
  BY DEF T
<1> QED BY <1>4, <1>5 DEF Max
\* The row of an item with another count
LEMMA Recount ==
    ASSUME NEW x \in Item, NEW n \in 0 .. Cardinality(Sources)
    PROVE  /\ [x EXCEPT !.refs = n] \in Item /\ [x EXCEPT !.refs = n] # Null
           /\ [x EXCEPT !.refs = n].refs = n
           /\ [x EXCEPT !.refs = n].template = x.template
           /\ [x EXCEPT !.refs = n].version = x.version
           /\ [x EXCEPT !.refs = n].chars = x.chars /\ [x EXCEPT !.refs = n].shown = x.shown
<1>1. [x EXCEPT !.refs = n] \in Item
  BY DEF Item
<1> QED BY <1>1, NullAssumption DEF Item

LEMMA SomeRefs ==
    ASSUME NEW S \in SUBSET Sources
    PROVE  IsFiniteSet(S) /\ Cardinality(S) \in 0 .. Cardinality(Sources)
<1>1. IsFiniteSet(S) /\ Cardinality(S) <= Cardinality(Sources)
  BY CatalogueAssumption, FS_Subset
<1> QED BY <1>1, CatalogueAssumption, FS_CardinalityType

LEMMA KeyParts ==
    ASSUME NEW o \in Owners, NEW s \in Sources
    PROVE  <<o, s>> \in RefKeys /\ <<o, s>>[1] = o /\ <<o, s>>[2] = s
BY DEF RefKeys

\* The row is as before but for its count of references.
SameItem(i) == /\ item'[i] = Null <=> item[i] = Null
               /\ item[i] # Null =>
                     /\ item'[i].template = item[i].template
                     /\ item'[i].version = item[i].version
                     /\ item'[i].chars = item[i].chars /\ item'[i].shown = item[i].shown

LEMMA FitKept ==
    ASSUME ItemsFitTemplate, template' = template,
           \A i \in Items : item'[i] = Null \/ SameItem(i)
    PROVE  ItemsFitTemplate'
BY DEF ItemsFitTemplate, SameItem

\* The references of an item and its count stay.
SameCount(i) == /\ item'[i] = Null <=> item[i] = Null
                /\ item[i] # Null => item'[i].refs = item[i].refs
                /\ RefsOf(i)' = RefsOf(i)

LEMMA CountKept ==
    ASSUME RefsCounted, \A i \in Items : SameCount(i)
    PROVE  RefsCounted'
BY DEF RefsCounted, SameCount

\* A step of a worker that goes on with frame f
LEMMA FramesKept ==
    ASSUME IInv, NEW w \in Workers, NEW f \in Frame, Fits(f)', job' = [job EXCEPT ![w] = f],
           \A v \in Workers : job[v].key \in Templates =>
               template'[job[v].key] \in {Null, template[job[v].key]}
    PROVE  job' \in [Workers -> Frame] /\ FramesFit'
<1>1. job' \in [Workers -> Frame] /\ job'[w] = f /\ \A v \in Workers \ {w} : job'[v] = job[v]
  BY DEF IInv, TypeOK
<1>2. ASSUME NEW v \in Workers PROVE Fits(job[v])'
  <2>1. CASE v = w
    BY <1>1, <2>1 DEF Fits
  <2>2. CASE v # w
    <3>1. Fits(job[v])
      BY DEF IInv, FramesFit
    <3>2. job'[v] = job[v]
      BY <1>1, <2>2
    <3> QED BY <3>1, <3>2 DEF Fits
  <2> QED BY <2>1, <2>2
<1> QED BY <1>1, <1>2 DEF FramesFit

\* A step that reads, and writes nothing but its frame
LEMMA ReadingInv ==
    ASSUME IInv, NEW w \in Workers, NEW f \in Frame, Fits(f), job' = [job EXCEPT ![w] = f],
           UNCHANGED <<stock, references, served>>
    PROVE  IInv'
<1>1. template' = template /\ sub' = sub /\ item' = item /\ supplier' = supplier
      /\ ref' = ref /\ served' = served
  BY DEF stock, references
<1>2. Fits(f)'
  BY <1>1 DEF Fits
<1>3. job' \in [Workers -> Frame] /\ FramesFit'
  BY <1>1, <1>2, FramesKept
<1>4. TypeOK'
  BY <1>1, <1>3 DEF IInv, TypeOK
<1>5. ItemsFitTemplate' /\ RefsCounted'
  BY <1>1 DEF IInv, ItemsFitTemplate, RefsCounted, RefsOf
<1> QED BY <1>3, <1>4, <1>5 DEF IInv

LEMMA InitInv == Init => IInv
<1> SUFFICES ASSUME Init PROVE IInv
  OBVIOUS
<1>1. TypeOK
  BY IdleFits DEF Init, TypeOK
<1>2. FramesFit
  BY IdleFits DEF Init, FramesFit
<1>3. \A i \in Items : item[i] = Null /\ RefsOf(i) = {}
  BY KeyParts DEF Init, RefsOf, Owners
<1> QED BY <1>1, <1>2, <1>3 DEF IInv, ItemsFitTemplate, RefsCounted

------------------------------------------------------------------------------
(* Templates *)

FrameKeys == {Null} \cup Templates \cup SubFamilies \cup Sources \cup RefKeys

\* A frame that has just been given a key
LEMMA KeyedFrame ==
    ASSUME NEW at \in Stages, NEW key \in FrameKeys, NEW preferred \in BOOLEAN,
           NEW seen \in SUBSET Sources
    PROVE  /\ [Idle EXCEPT !.at = at, !.key = key] \in Frame
           /\ [Idle EXCEPT !.at = at, !.key = key, !.preferred = preferred] \in Frame
           /\ [Idle EXCEPT !.at = at, !.key = key, !.preferred = preferred, !.seen = seen] \in Frame
<1>1. ASSUME NEW f \in Frame
      PROVE  [f EXCEPT !.at = at, !.key = key] \in Frame
  BY <1>1 DEF Frame, FrameKeys
<1>2. ASSUME NEW f \in Frame
      PROVE  [f EXCEPT !.at = at, !.key = key, !.preferred = preferred] \in Frame
  BY <1>2 DEF Frame, FrameKeys
<1>3. ASSUME NEW f \in Frame
      PROVE  [f EXCEPT !.at = at, !.key = key, !.preferred = preferred, !.seen = seen] \in Frame
  BY <1>3 DEF Frame, FrameKeys
<1> QED BY <1>1, <1>2, <1>3, IdleFits

LEMMA ReadCurrentInv ==
    ASSUME IInv, NEW w \in Workers, NEW t \in Templates, ReadCurrent(w, t)
    PROVE  IInv'
<1> DEFINE f == [Idle EXCEPT !.at = "version", !.key = t]
<1>1. f \in Frame
  BY KeyedFrame DEF FrameKeys, Stages
<1>2. Fits(f)
  BY DEF Idle, Fits, RefStages
<1> QED BY <1>1, <1>2, ReadingInv DEF ReadCurrent, Goes

LEMMA VersionsType ==
    ASSUME IInv
    PROVE  Versions \subseteq 1 .. MaxVersion
BY DEF IInv, TypeOK, Versions, Existing, Template

LEMMA ReadVersionInv ==
    ASSUME IInv, NEW w \in Workers, ReadVersion(w)
    PROVE  IInv'
<1> DEFINE n == 1 + Max(Versions \cup {0})
           f == [job[w] EXCEPT !.at = "insert_version", !.version = n]
<1>1. n \in 1 .. MaxVersion
  <2>1. Versions \cup {0} \in SUBSET Nat /\ MaxVersion \in Nat \ {0}
        /\ \A x \in Versions \cup {0} : x <= MaxVersion
    BY VersionsType, CatalogueAssumption
  <2>2. Max(Versions \cup {0}) \in Versions \cup {0}
    BY <2>1, HasMax
  <2>3. MaxVersion \notin Versions \cup {0}
    BY <2>1 DEF ReadVersion
  <2> QED BY <2>1, <2>2, <2>3
<1> HIDE DEF n
<1>2. f \in Frame
  <2>1. n \in 0 .. MaxVersion /\ job[w] \in Frame /\ "insert_version" \in Stages
    BY <1>1, CatalogueAssumption DEF IInv, TypeOK, Stages
  <2> QED BY <2>1 DEF Frame
<1>3. Fits(f)
  <2>1. f.at = "insert_version" /\ f.version = n
    BY DEF IInv, TypeOK, Frame
  <2> QED BY <1>1, <2>1 DEF Fits, RefStages
<1>4. job' = [job EXCEPT ![w] = f] /\ UNCHANGED <<stock, references, served>>
  BY DEF ReadVersion, Goes, n
<1> QED BY <1>2, <1>3, <1>4, ReadingInv

\* A new template takes an id no frame and no item names.
LEMMA InsertTemplateInv ==
    ASSUME IInv, NEW t \in Templates, NEW v \in 1 .. MaxVersion, NEW shape \in Shapes,
           template[t] = Null, Fresh(t), InsertTemplate(t, v, shape)
    PROVE  /\ template' \in [Templates -> Template \cup {Null}]
           /\ \A u \in Workers : job[u].key \in Templates =>
                  template'[job[u].key] \in {Null, template[job[u].key]}
           /\ item' = item => ItemsFitTemplate'
<1>1. [version |-> v, shape |-> shape] \in Template
  BY DEF Template
<1>2. /\ template' \in [Templates -> Template \cup {Null}]
      /\ \A x \in Templates \ {t} : template'[x] = template[x]
  BY <1>1 DEF InsertTemplate, IInv, TypeOK
<1>3. \A u \in Workers : job[u].key \in Templates => template'[job[u].key] = template[job[u].key]
  BY <1>2 DEF Fresh
<1>4. ASSUME NEW i \in Items, item[i] # Null, item[i].template # Null
      PROVE  template'[item[i].template] = template[item[i].template]
  <2>1. item[i].template \in Templates /\ template[item[i].template] # Null
    BY <1>4 DEF IInv, TypeOK, Item, ItemsFitTemplate
  <2> QED BY <1>2, <2>1
<1> QED BY <1>2, <1>3, <1>4 DEF IInv, ItemsFitTemplate

LEMMA CreateTemplateInv ==
    ASSUME IInv, NEW w \in Workers, NEW t \in Templates, NEW shape \in Shapes,
           CreateTemplate(w, t, shape)
    PROVE  IInv'
<1>1. 1 \in 1 .. MaxVersion
  BY CatalogueAssumption
<1>2. /\ template' \in [Templates -> Template \cup {Null}] /\ ItemsFitTemplate'
      /\ \A u \in Workers : job[u].key \in Templates =>
             template'[job[u].key] \in {Null, template[job[u].key]}
  BY <1>1, InsertTemplateInv DEF CreateTemplate
<1>3. job' = job /\ ref' = ref /\ item' = item /\ supplier' = supplier
  BY DEF CreateTemplate, references
<1>4. FramesFit'
  BY <1>2, <1>3 DEF IInv, FramesFit, Fits
<1>5. TypeOK'
  BY <1>2, <1>3 DEF CreateTemplate, IInv, TypeOK
<1>6. RefsCounted'
  BY <1>3 DEF IInv, RefsCounted, RefsOf
<1> QED BY <1>2, <1>4, <1>5, <1>6 DEF IInv

LEMMA InsertVersionInv ==
    ASSUME IInv, NEW w \in Workers, NEW t \in Templates, NEW shape \in Shapes,
           InsertVersion(w, t, shape)
    PROVE  IInv'
<1>1. job[w].version \in 1 .. MaxVersion
  BY DEF InsertVersion, IInv, FramesFit, Fits
<1>2. /\ template' \in [Templates -> Template \cup {Null}] /\ ItemsFitTemplate'
      /\ \A u \in Workers : job[u].key \in Templates =>
             template'[job[u].key] \in {Null, template[job[u].key]}
  <2>1. CASE template' = template
    BY <2>1 DEF InsertVersion, IInv, TypeOK, ItemsFitTemplate
  <2>2. CASE InsertTemplate(t, job[w].version, shape)
    BY <1>1, <2>2, InsertTemplateInv DEF InsertVersion
  <2> QED BY <2>1, <2>2 DEF InsertVersion
<1>3. job' = [job EXCEPT ![w] = Idle] /\ ref' = ref /\ item' = item /\ supplier' = supplier
  BY DEF InsertVersion, references, Returns, Goes
<1>4. Fits(Idle)'
  BY DEF Idle, Fits, RefStages
<1>5. job' \in [Workers -> Frame] /\ FramesFit'
  BY <1>2, <1>3, <1>4, IdleFits, FramesKept
<1>6. TypeOK'
  BY <1>2, <1>3, <1>5 DEF InsertVersion, IInv, TypeOK
<1>7. RefsCounted'
  BY <1>3 DEF IInv, RefsCounted, RefsOf
<1> QED BY <1>2, <1>5, <1>6, <1>7 DEF IInv

LEMMA CountUsesInv ==
    ASSUME IInv, NEW w \in Workers, NEW t \in Templates, CountUses(w, t)
    PROVE  IInv'
<1> DEFINE f == [Idle EXCEPT !.at = "drop_template", !.key = t]
<1>1. f \in Frame
  BY KeyedFrame DEF FrameKeys, Stages
<1>2. Fits(f)
  BY DEF Idle, Fits, RefStages
<1> QED BY <1>1, <1>2, ReadingInv DEF CountUses, Goes

\* The foreign key keeps a template some item names.
LEMMA DropTemplateInv ==
    ASSUME IInv, NEW w \in Workers, DropTemplate(w)
    PROVE  IInv'
<1> DEFINE t == job[w].key
<1>1. t \in Templates
  BY DEF DropTemplate, IInv, FramesFit, Fits
<1>2. job' = [job EXCEPT ![w] = Idle] /\ ref' = ref /\ item' = item /\ supplier' = supplier
  BY DEF DropTemplate, references, Returns, Goes
<1>3. Fits(Idle)'
  BY DEF Idle, Fits, RefStages
<1>4. /\ template' \in [Templates -> Template \cup {Null}]
      /\ sub' \in [SubFamilies -> Templates \cup {Null, "none"}]
      /\ \A x \in Templates :
             template'[x] = template[x] \/ (template'[x] = Null /\ x = t /\ Restricted(t))
  BY <1>1 DEF DropTemplate, IInv, TypeOK
<1>5. ItemsFitTemplate'
  <2> SUFFICES ASSUME NEW i \in Items, item[i] # Null, item[i].template # Null
               PROVE  template'[item[i].template] = template[item[i].template]
    BY <1>2 DEF IInv, ItemsFitTemplate
  <2>1. item[i].template \in Templates
    BY DEF IInv, TypeOK, Item
  <2>2. Restricted(t) => item[i].template # t
    BY DEF Restricted, UsedBy
  <2> QED BY <1>4, <2>1, <2>2
<1>6. job' \in [Workers -> Frame] /\ FramesFit'
  BY <1>2, <1>3, <1>4, IdleFits, FramesKept
<1>7. TypeOK'
  BY <1>2, <1>4, <1>6 DEF DropTemplate, IInv, TypeOK
<1>8. RefsCounted'
  BY <1>2 DEF IInv, RefsCounted, RefsOf
<1> QED BY <1>5, <1>6, <1>7, <1>8 DEF IInv

\* A sub-family that is given a template, or none
LEMMA SubFamilyInv ==
    ASSUME IInv, NEW s \in SubFamilies, NEW t \in Templates \cup {Null},
           sub' = [sub EXCEPT ![s] = t], UNCHANGED <<template, item, references, job, served>>
    PROVE  IInv'
<1>1. ref' = ref /\ supplier' = supplier
  BY DEF references
<1>2. TypeOK'
  BY <1>1 DEF IInv, TypeOK
<1> QED BY <1>1, <1>2 DEF IInv, FramesFit, Fits, ItemsFitTemplate, RefsCounted, RefsOf
------------------------------------------------------------------------------
(* Items *)

LEMMA ReadSubFamilyInv ==
    ASSUME IInv, NEW w \in Workers, NEW s \in SubFamilies, ReadSubFamily(w, s)
    PROVE  IInv'
<1> DEFINE at == IF sub[s] = Null THEN "insert_item" ELSE "load"
           f == [Idle EXCEPT !.at = at, !.key = sub[s]]
<1>1. at \in Stages /\ sub[s] \in Templates \cup {Null} /\ (sub[s] # Null => at = "load")
  BY DEF Stages, ReadSubFamily, IInv, TypeOK
<1>2. at \in {"load", "insert_item"} /\ (at = "insert_item" <=> sub[s] = Null)
  OBVIOUS
<1> HIDE DEF at
<1>3. f \in Frame
  BY <1>1, KeyedFrame DEF FrameKeys
<1>4. f.at = at /\ f.key = sub[s]
  BY DEF Idle
<1> HIDE DEF f
<1>5. Fits(f)
  BY <1>1, <1>2, <1>4 DEF Fits, RefStages
<1>6. job' = [job EXCEPT ![w] = f] /\ UNCHANGED <<stock, references, served>>
  BY DEF ReadSubFamily, Goes, f, at
<1> QED BY <1>3, <1>5, <1>6, ReadingInv

LEMMA ShapesType ==
    ASSUME NEW t \in Templates, IInv, template[t] # Null
    PROVE  template[t].shape \in Shape /\ template[t].version \in 1 .. MaxVersion
BY CatalogueAssumption DEF IInv, TypeOK, Template, Shape

LEMMA LoadTemplateInv ==
    ASSUME IInv, NEW w \in Workers, LoadTemplate(w)
    PROVE  IInv'
<1> DEFINE t == template[job[w].key]
           f == [job[w] EXCEPT !.at = "fields", !.version = t.version, !.shape = t.shape]
<1>1. job[w].key \in Templates /\ UNCHANGED <<stock, references, served>>
  BY DEF LoadTemplate, IInv, FramesFit, Fits
<1>2. CASE t = Null
  <2>1. job' = [job EXCEPT ![w] = Idle]
    BY <1>2 DEF LoadTemplate, Goes
  <2> QED BY <1>1, <2>1, IdleFits, ReadingInv
<1>3. CASE t # Null
  <2>1. t.shape \in Shape /\ t.version \in 1 .. MaxVersion
    BY <1>1, <1>3, ShapesType
  <2>2. f \in Frame
    <3>1. "fields" \in Stages /\ t.version \in 0 .. MaxVersion /\ job[w] \in Frame
      BY <2>1, CatalogueAssumption DEF Stages, IInv, TypeOK
    <3> HIDE DEF t
    <3> QED BY <2>1, <3>1 DEF Frame, Shape
  <2>3. f.at = "fields" /\ f.key = job[w].key /\ f.version = t.version /\ f.shape = t.shape
    <3>1. job[w] \in Frame
      BY DEF IInv, TypeOK
    <3> HIDE DEF t
    <3> QED BY <3>1 DEF Frame
  <2>4. job' = [job EXCEPT ![w] = f]
    BY <1>3 DEF LoadTemplate, Goes
  <2> HIDE DEF f
  <2>5. Fits(f)
    BY <1>1, <2>1, <2>3 DEF Fits, RefStages
  <2> QED BY <1>1, <2>2, <2>4, <2>5, ReadingInv
<1> QED BY <1>2, <1>3

LEMMA LoadFieldsInv ==
    ASSUME IInv, NEW w \in Workers, LoadFields(w)
    PROVE  IInv'
<1> DEFINE t == job[w].key
           shape == IF template[t] # Null THEN job[w].shape
                    ELSE [job[w].shape EXCEPT !.fields = {}, !.required = {}]
           f == [job[w] EXCEPT !.at = "insert_item", !.shape = shape]
<1>1. job[w].at = "fields" /\ UNCHANGED <<stock, references, served>>
      /\ job' = [job EXCEPT ![w] = f]
  BY DEF LoadFields, Goes
<1>2. job[w] \in Frame /\ Fits(job[w])
  BY DEF IInv, TypeOK, FramesFit
<1>3. t \in Templates
  BY <1>1, <1>2 DEF Fits
<1>4. t # Null
  BY <1>3, CatalogueAssumption
<1>5. /\ job[w].shape \in Shape
      /\ template[t] # Null => template[t].version = job[w].version /\ template[t].shape = job[w].shape
  BY <1>1, <1>2, <1>4 DEF Fits
<1>6. shape \in Shape /\ (template[t] # Null => shape = job[w].shape)
  BY <1>5 DEF Shape
<1> HIDE DEF shape
<1>7. f \in Frame
  <2>1. "insert_item" \in Stages
    BY DEF Stages
  <2> QED BY <1>2, <1>6, <2>1 DEF Frame, Shape
<1>8. f.at = "insert_item" /\ f.key = t /\ f.version = job[w].version /\ f.shape = shape
  BY <1>2 DEF Frame
<1> HIDE DEF f, t
<1>9. Fits(f)
  BY <1>3, <1>5, <1>6, <1>8 DEF Fits, RefStages
<1> QED BY <1>1, <1>7, <1>9, ReadingInv

LEMMA RefuseItemInv ==
    ASSUME IInv, NEW w \in Workers, RefuseItem(w)
    PROVE  IInv'
BY IdleFits, ReadingInv DEF RefuseItem, Returns, Goes

\* A step that writes items or references, and returns
LEMMA WritingInv ==
    ASSUME IInv, NEW w \in Workers, job' = [job EXCEPT ![w] = Idle], template' = template,
           sub' = sub, served' = served, supplier' \subseteq Sources,
           item' \in [Items -> Item \cup {Null}], ref' \in [RefKeys -> BOOLEAN \cup {Null}],
           \A i \in Items : item'[i] = Null \/ SameItem(i),
           RefsCounted'
    PROVE  IInv'
<1>1. ItemsFitTemplate'
  BY FitKept DEF IInv
<1>2. Fits(Idle)'
  BY DEF Idle, Fits, RefStages
<1>3. job' \in [Workers -> Frame] /\ FramesFit'
  BY <1>2, IdleFits, FramesKept
<1>4. TypeOK'
  BY <1>3 DEF IInv, TypeOK
<1> QED BY <1>1, <1>3, <1>4 DEF IInv

\* The item takes what the frame holds, and the foreign key checks that the template is
\* still there.
LEMMA InsertItemInv ==
    ASSUME IInv, NEW w \in Workers, NEW i \in Items, NEW chars \in SUBSET Fields,
           InsertItem(w, i, chars)
    PROVE  IInv'
<1> DEFINE f == job[w]
           legacy == [template |-> Null, version |-> 0, chars |-> {}, shown |-> {}, refs |-> 0]
           made == [template |-> f.key, version |-> f.version, chars |-> chars,
                    shown |-> f.shape.pattern, refs |-> 0]
<1>1. 0 \in 0 .. Cardinality(Sources) /\ 0 \in 0 .. MaxVersion
  BY CatalogueAssumption, FS_CardinalityType
<1>2. f \in Frame /\ Fits(f) /\ f.at = "insert_item"
  BY DEF IInv, TypeOK, FramesFit, InsertItem
<1>3. job' = [job EXCEPT ![w] = Idle] /\ template' = template /\ sub' = sub
      /\ served' = served /\ supplier' = supplier /\ ref' = ref /\ item[i] = Null
  BY DEF InsertItem, Returns, Goes, references
<1>4. PICK x : /\ item' = [item EXCEPT ![i] = x]
               /\ \/ f.key = Null /\ x = legacy
                  \/ /\ f.key # Null /\ Valid(f.shape, chars) /\ Displays(f.shape, chars)
                     /\ template[f.key] # Null /\ x = made
  BY DEF InsertItem
<1>5. /\ x \in Item /\ x.refs = 0
      /\ x.template # Null =>
             LET t == template[x.template] IN
             /\ t # Null /\ t.version = x.version
             /\ t.shape.required \subseteq x.chars /\ x.chars \subseteq t.shape.fields
             /\ x.shown = t.shape.pattern /\ x.shown \subseteq x.chars
  <2>1. CASE f.key = Null /\ x = legacy
    BY <1>1, <2>1 DEF Item
  <2>2. CASE /\ f.key # Null /\ Valid(f.shape, chars) /\ Displays(f.shape, chars)
             /\ template[f.key] # Null /\ x = made
    <3>1. f.key \in Templates /\ f.shape \in Shape /\ f.version \in 0 .. MaxVersion
          /\ template[f.key].version = f.version /\ template[f.key].shape = f.shape
      BY <1>2, <2>2 DEF Fits, Frame
    <3>2. made \in Item
      BY <1>1, <3>1 DEF Item, Shape
    <3> QED BY <2>2, <3>1, <3>2 DEF Valid, Displays
  <2> QED BY <1>4, <2>1, <2>2
<1>6. x # Null
  BY <1>5, NullAssumption
<1>7. /\ item' \in [Items -> Item \cup {Null}] /\ item'[i] = x
      /\ \A j \in Items \ {i} : item'[j] = item[j]
  BY <1>4, <1>5 DEF IInv, TypeOK
<1>8. ItemsFitTemplate'
  BY <1>3, <1>5, <1>7 DEF IInv, ItemsFitTemplate
<1>9. RefsCounted'
  <2>1. RefsOf(i) = {} /\ \A j \in Items : RefsOf(j)' = RefsOf(j)
    BY <1>3 DEF IInv, RefsCounted, RefsOf
  <2> QED BY <1>5, <1>6, <1>7, <2>1, FS_EmptySet DEF IInv, RefsCounted
<1>10. Fits(Idle)'
  BY DEF Idle, Fits, RefStages
<1>11. job' \in [Workers -> Frame] /\ FramesFit'
  BY <1>3, <1>10, IdleFits, FramesKept
<1>12. TypeOK'
  BY <1>3, <1>7, <1>11 DEF IInv, TypeOK
<1> QED BY <1>8, <1>9, <1>11, <1>12 DEF IInv

LEMMA DeleteItemInv ==
    ASSUME IInv, NEW w \in Workers, NEW i \in Items, DeleteItem(w, i)
    PROVE  IInv'
<1>1. job' = job /\ template' = template /\ sub' = sub /\ served' = served
      /\ supplier' = supplier /\ item' = [item EXCEPT ![i] = Null]
      /\ ref' = [k \in RefKeys |-> IF k[1] = i THEN Null ELSE ref[k]]
  BY DEF DeleteItem
<1>2. /\ item' \in [Items -> Item \cup {Null}] /\ item'[i] = Null
      /\ \A j \in Items \ {i} : item'[j] = item[j]
      /\ ref' \in [RefKeys -> BOOLEAN \cup {Null}]
  BY <1>1 DEF IInv, TypeOK
<1>3. RefsOf(i)' = {} /\ \A j \in Items \ {i} : RefsOf(j)' = RefsOf(j)
  BY <1>1, KeyParts DEF RefsOf, Owners
<1>4. RefsCounted'
  BY <1>2, <1>3 DEF IInv, RefsCounted
<1>5. ItemsFitTemplate'
  BY <1>1, <1>2 DEF IInv, ItemsFitTemplate
<1>6. FramesFit'
  BY <1>1 DEF IInv, FramesFit, Fits
<1>7. TypeOK'
  BY <1>1, <1>2 DEF IInv, TypeOK
<1> QED BY <1>4, <1>5, <1>6, <1>7 DEF IInv
------------------------------------------------------------------------------
(* References *)

\* A frame that names a reference
LEMMA RefFrame ==
    ASSUME IInv, NEW at \in RefStages, NEW i \in Items, NEW s \in Sources, NEW preferred \in BOOLEAN
    PROVE  /\ [Idle EXCEPT !.at = at, !.key = <<i, s>>] \in Frame
           /\ Fits([Idle EXCEPT !.at = at, !.key = <<i, s>>])
           /\ [Idle EXCEPT !.at = at, !.key = <<i, s>>, !.preferred = preferred] \in Frame
           /\ Fits([Idle EXCEPT !.at = at, !.key = <<i, s>>, !.preferred = preferred])
<1>1. at \in Stages /\ <<i, s>> \in FrameKeys
  BY KeyParts DEF RefStages, Stages, FrameKeys, Owners
<1>2. ASSUME NEW f, f.at = at, f.key = <<i, s>> PROVE Fits(f)
  BY <1>2 DEF Fits, RefStages
<1>3. /\ [Idle EXCEPT !.at = at, !.key = <<i, s>>].at = at
      /\ [Idle EXCEPT !.at = at, !.key = <<i, s>>].key = <<i, s>>
      /\ [Idle EXCEPT !.at = at, !.key = <<i, s>>, !.preferred = preferred].at = at
      /\ [Idle EXCEPT !.at = at, !.key = <<i, s>>, !.preferred = preferred].key = <<i, s>>
  BY DEF Idle
<1>4. {} \in SUBSET Sources
  OBVIOUS
<1> QED BY <1>1, <1>2, <1>3, <1>4, KeyedFrame

LEMMA CheckRefInv ==
    ASSUME IInv, NEW w \in Workers, NEW i \in Items, NEW s \in Sources, NEW preferred \in BOOLEAN,
           CheckRef(w, i, s, preferred) \/ CheckUpdate(w, i, s, preferred)
    PROVE  IInv'
<1>1. CASE CheckRef(w, i, s, preferred)
  <2>1. "insert_ref" \in RefStages
    BY DEF RefStages
  <2> QED BY <1>1, <2>1, RefFrame, ReadingInv DEF CheckRef, Goes
<1>2. CASE CheckUpdate(w, i, s, preferred)
  <2>1. "update_ref" \in RefStages
    BY DEF RefStages
  <2> QED BY <1>2, <2>1, RefFrame, ReadingInv DEF CheckUpdate, Goes
<1> QED BY <1>1, <1>2

LEMMA ReadPreferredInv ==
    ASSUME IInv, NEW w \in Workers, NEW i \in Items, NEW s \in Sources, ReadPreferred(w, i, s)
    PROVE  IInv'
<1>1. "prefer" \in RefStages /\ TRUE \in BOOLEAN
  BY DEF RefStages
<1> QED BY <1>1, RefFrame, ReadingInv DEF ReadPreferred, Goes

LEMMA ReadRefInv ==
    ASSUME IInv, NEW w \in Workers, NEW i \in Items, NEW s \in Sources, ReadRef(w, i, s)
    PROVE  IInv'
<1> DEFINE at == IF ref[<<i, s>>] THEN "count_refs" ELSE "drop_ref"
<1>1. at \in RefStages /\ TRUE \in BOOLEAN
  BY DEF RefStages
<1>2. /\ job' = [job EXCEPT ![w] = [Idle EXCEPT !.at = at, !.key = <<i, s>>]]
      /\ UNCHANGED <<stock, references, served>>
  BY DEF ReadRef, Goes
<1> HIDE DEF at
<1> QED BY <1>1, <1>2, RefFrame, ReadingInv

LEMMA CountRefsInv ==
    ASSUME IInv, NEW w \in Workers, CountRefs(w)
    PROVE  IInv'
<1> DEFINE f == [job[w] EXCEPT !.at = "drop_ref"]
<1>1. UNCHANGED <<stock, references, served>>
  BY DEF CountRefs
<1>2. CASE job' = [job EXCEPT ![w] = Idle]
  BY <1>1, <1>2, IdleFits, ReadingInv
<1>3. CASE job' = [job EXCEPT ![w] = f]
  <2>1. job[w] \in Frame /\ Fits(job[w]) /\ job[w].at = "count_refs" /\ "drop_ref" \in Stages
    BY DEF CountRefs, IInv, TypeOK, FramesFit, Stages
  <2>2. f \in Frame /\ f.at = "drop_ref" /\ f.key = job[w].key
    BY <2>1 DEF Frame
  <2> HIDE DEF f
  <2>3. Fits(f)
    BY <2>1, <2>2 DEF Fits, RefStages
  <2> QED BY <1>1, <1>3, <2>2, <2>3, ReadingInv
<1> QED BY <1>2, <1>3 DEF CountRefs, Goes

\* The reference a frame names
LEMMA FrameRef ==
    ASSUME IInv, NEW w \in Workers, job[w].at \in RefStages
    PROVE  \E i \in Items, s \in Sources : /\ job[w].key = <<i, s>> /\ <<i, s>> \in RefKeys
                                           /\ job[w].preferred \in BOOLEAN
<1>1. job[w].key \in Items \X Sources /\ job[w].preferred \in BOOLEAN
  BY DEF IInv, TypeOK, FramesFit, Fits, Frame
<1>2. PICK i \in Items, s \in Sources : job[w].key = <<i, s>>
  BY <1>1
<1> QED BY <1>1, <1>2, KeyParts DEF Owners

\* A step that adds and removes no reference of an item
LEMMA FlagsInv ==
    ASSUME IInv, NEW w \in Workers, job' = [job EXCEPT ![w] = Idle],
           UNCHANGED <<stock, supplier, served>>, ref' \in [RefKeys -> BOOLEAN \cup {Null}],
           \A i \in Items, s \in Sources : ref'[<<i, s>>] = Null <=> ref[<<i, s>>] = Null
    PROVE  IInv'
<1>1. template' = template /\ sub' = sub /\ item' = item /\ supplier' = supplier
      /\ served' = served
  BY DEF stock
<1>2. \A i \in Items : RefsOf(i)' = RefsOf(i)
  BY DEF RefsOf
<1>3. RefsCounted'
  BY <1>1, <1>2 DEF IInv, RefsCounted
<1>4. \A i \in Items : SameItem(i)
  BY <1>1 DEF SameItem
<1> QED BY <1>1, <1>3, <1>4, WritingInv DEF IInv, TypeOK

LEMMA UpdateRefInv ==
    ASSUME IInv, NEW w \in Workers, UpdateRef(w)
    PROVE  IInv'
<1> DEFINE b == job[w].preferred
           r == IF ref[job[w].key] = Null THEN Null ELSE b
<1>1. PICK i \in Items, s \in Sources : /\ job[w].key = <<i, s>> /\ <<i, s>> \in RefKeys
                                        /\ b \in BOOLEAN
  BY FrameRef DEF UpdateRef, RefStages
<1>2. r \in BOOLEAN \cup {Null} /\ (r = Null <=> ref[job[w].key] = Null)
  BY <1>1, NullAssumption
<1>3. ref' = [ref EXCEPT ![job[w].key] = r]
  BY DEF UpdateRef
<1> HIDE DEF r
<1>4. /\ ref' \in [RefKeys -> BOOLEAN \cup {Null}]
      /\ \A k \in RefKeys : ref'[k] = Null <=> ref[k] = Null
  BY <1>1, <1>2, <1>3 DEF IInv, TypeOK
<1> QED BY <1>4, KeyParts, FlagsInv DEF UpdateRef, Returns, Goes, Owners

LEMMA PreferInv ==
    ASSUME IInv, NEW w \in Workers, Prefer(w)
    PROVE  IInv'
<1> DEFINE this == job[w].key
<1>1. ref' = [k \in RefKeys |-> IF k[1] = this[1] /\ ref[k] # Null THEN k = this ELSE ref[k]]
  BY DEF Prefer
<1>2. ASSUME NEW k \in RefKeys PROVE (k = this) \in BOOLEAN /\ (k = this) # Null
  BY NullAssumption
<1>3. /\ ref' \in [RefKeys -> BOOLEAN \cup {Null}]
      /\ \A k \in RefKeys : ref'[k] = Null <=> ref[k] = Null
  BY <1>1, <1>2 DEF IInv, TypeOK
<1> QED BY <1>3, KeyParts, FlagsInv DEF Prefer, Returns, Goes, Owners

\* A reference of one item appears or disappears, and is counted.
LEMMA CountingInv ==
    ASSUME IInv, NEW w \in Workers, job' = [job EXCEPT ![w] = Idle], template' = template,
           sub' = sub, served' = served, supplier' = supplier,
           NEW i \in Items, item[i] # Null,
           NEW n, item' = [item EXCEPT ![i] = [item[i] EXCEPT !.refs = n]],
           ref' \in [RefKeys -> BOOLEAN \cup {Null}],
           n = Cardinality(RefsOf(i)'), \A j \in Items \ {i} : RefsOf(j)' = RefsOf(j)
    PROVE  IInv'
<1>1. RefsOf(i)' \in SUBSET Sources
  BY DEF RefsOf
<1>2. n \in 0 .. Cardinality(Sources)
  BY <1>1, SomeRefs
<1> DEFINE x == [item[i] EXCEPT !.refs = n]
<1>3. item[i] \in Item
  BY DEF IInv, TypeOK
<1>4. /\ x \in Item /\ x # Null /\ x.refs = n /\ x.template = item[i].template
      /\ x.version = item[i].version /\ x.chars = item[i].chars /\ x.shown = item[i].shown
  BY <1>2, <1>3, Recount
<1> HIDE DEF x
<1>5. /\ item' \in [Items -> Item \cup {Null}] /\ item'[i] = x
      /\ \A j \in Items \ {i} : item'[j] = item[j]
  BY <1>4 DEF IInv, TypeOK, x
<1>6. \A j \in Items : SameItem(j)
  BY <1>4, <1>5 DEF SameItem
<1>7. RefsCounted'
  BY <1>4, <1>5 DEF IInv, RefsCounted
<1> QED BY <1>5, <1>6, <1>7, WritingInv DEF IInv, TypeOK

LEMMA CountedRow ==
    ASSUME IInv, NEW i \in Items, NEW delta \in {-1, 1}, item[i].refs \in Nat,
           item[i].refs + delta >= 0
    PROVE  Counted(i, delta) = [item EXCEPT ![i] = [item[i] EXCEPT !.refs = item[i].refs + delta]]
<1> DEFINE n == IF item[i].refs + delta < 0 THEN 0 ELSE item[i].refs + delta
<1>1. Counted(i, delta) = [item EXCEPT ![i] = [item[i] EXCEPT !.refs = n]]
  BY DEF Counted, IInv, TypeOK
<1>2. n = item[i].refs + delta
  OBVIOUS
<1> QED BY <1>1, <1>2

LEMMA InsertRefInv ==
    ASSUME IInv, NEW w \in Workers, InsertRef(w)
    PROVE  IInv'
<1> DEFINE b == job[w].preferred
<1>1. PICK i \in Items, s \in Sources : /\ job[w].key = <<i, s>> /\ <<i, s>> \in RefKeys
                                        /\ b \in BOOLEAN
  BY FrameRef DEF InsertRef, RefStages
<1>2. job' = [job EXCEPT ![w] = Idle] /\ template' = template /\ sub' = sub
      /\ supplier' = supplier /\ served' = served
  BY DEF InsertRef, Returns, Goes
<1>3. CASE ref' = ref /\ item' = item
  BY <1>2, <1>3, FlagsInv DEF IInv, TypeOK, stock
<1>4. CASE /\ item[i] # Null /\ ref[<<i, s>>] = Null
           /\ ref' = [ref EXCEPT ![<<i, s>>] = b] /\ item' = Counted(i, 1)
  <2>1. RefsOf(i) \in SUBSET Sources /\ s \notin RefsOf(i)
    BY <1>4 DEF RefsOf
  <2>2. b # Null
    BY <1>1, NullAssumption
  <2>3. /\ ref' \in [RefKeys -> BOOLEAN \cup {Null}] /\ ref'[<<i, s>>] = b
        /\ \A k \in RefKeys \ {<<i, s>>} : ref'[k] = ref[k]
    BY <1>1, <1>4 DEF IInv, TypeOK
  <2>4. RefsOf(i)' = RefsOf(i) \cup {s} /\ \A j \in Items \ {i} : RefsOf(j)' = RefsOf(j)
    BY <2>2, <2>3, KeyParts DEF RefsOf, Owners
  <2>5. item[i].refs = Cardinality(RefsOf(i)) /\ Cardinality(RefsOf(i)) \in Nat
    BY <1>4, <2>1, SomeRefs, CatalogueAssumption, FS_CardinalityType DEF IInv, RefsCounted
  <2>6. Cardinality(RefsOf(i)') = item[i].refs + 1
    BY <2>1, <2>4, <2>5, SomeRefs, FS_AddElement
  <2>7. item' = [item EXCEPT ![i] = [item[i] EXCEPT !.refs = item[i].refs + 1]]
    BY <1>4, <2>5, CountedRow
  <2> QED BY <1>2, <1>4, <2>3, <2>4, <2>6, <2>7, CountingInv
<1> QED BY <1>1, <1>3, <1>4 DEF InsertRef

LEMMA DropRefInv ==
    ASSUME IInv, NEW w \in Workers, DropRef(w)
    PROVE  IInv'
<1>1. PICK i \in Items, s \in Sources : job[w].key = <<i, s>> /\ <<i, s>> \in RefKeys
  BY FrameRef DEF DropRef, RefStages
<1>2. job' = [job EXCEPT ![w] = Idle] /\ template' = template /\ sub' = sub
      /\ supplier' = supplier /\ served' = served
  BY DEF DropRef, Returns, Goes
<1>3. CASE ref' = ref /\ item' = item
  BY <1>2, <1>3, FlagsInv DEF IInv, TypeOK, stock
<1>4. CASE /\ ref[<<i, s>>] # Null
           /\ ref' = [ref EXCEPT ![<<i, s>>] = Null] /\ item' = Counted(i, -1)
  <2>1. RefsOf(i) \in SUBSET Sources /\ s \in RefsOf(i)
    BY <1>4 DEF RefsOf
  <2>2. /\ ref' \in [RefKeys -> BOOLEAN \cup {Null}] /\ ref'[<<i, s>>] = Null
        /\ \A k \in RefKeys \ {<<i, s>>} : ref'[k] = ref[k]
    BY <1>1, <1>4 DEF IInv, TypeOK
  <2>3. RefsOf(i)' = RefsOf(i) \ {s} /\ \A j \in Items \ {i} : RefsOf(j)' = RefsOf(j)
    BY <2>2, KeyParts DEF RefsOf, Owners
  <2>4. item[i] # Null /\ item[i].refs = Cardinality(RefsOf(i))
    BY <2>1 DEF IInv, RefsCounted
  <2>5. Cardinality(RefsOf(i)) \in Nat /\ Cardinality(RefsOf(i)) # 0
    BY <2>1, SomeRefs, FS_EmptySet, FS_CardinalityType
  <2>6. Cardinality(RefsOf(i)') = item[i].refs + -1
    BY <2>1, <2>3, <2>4, SomeRefs, FS_RemoveElement
  <2>7. item' = [item EXCEPT ![i] = [item[i] EXCEPT !.refs = item[i].refs + -1]]
    BY <1>4, <2>4, <2>5, CountedRow
  <2> QED BY <1>2, <2>2, <2>3, <2>4, <2>6, <2>7, CountingInv
<1> QED BY <1>1, <1>3, <1>4 DEF DropRef

LEMMA AddSupplierInv ==
    ASSUME IInv, NEW w \in Workers, NEW s \in Sources, AddSupplier(w, s)
    PROVE  IInv'
<1>1. template' = template /\ sub' = sub /\ item' = item /\ ref' = ref /\ job' = job
      /\ served' = served /\ supplier' \subseteq Sources
  BY DEF AddSupplier, stock, IInv, TypeOK
<1>2. TypeOK'
  BY <1>1 DEF IInv, TypeOK
<1> QED BY <1>1, <1>2 DEF IInv, FramesFit, Fits, ItemsFitTemplate, RefsCounted, RefsOf

LEMMA CountSupplierRefsInv ==
    ASSUME IInv, NEW w \in Workers, NEW s \in Sources, CountSupplierRefs(w, s)
    PROVE  IInv'
<1> DEFINE f == [Idle EXCEPT !.at = "drop_supplier", !.key = s]
<1>1. f \in Frame
  BY KeyedFrame DEF FrameKeys, Stages
<1>2. Fits(f)
  BY DEF Idle, Fits, RefStages
<1> QED BY <1>1, <1>2, ReadingInv DEF CountSupplierRefs, Goes

\* The cascade takes the supplier's reference of every item, and each loss is counted.
LEMMA DropSupplierInv ==
    ASSUME IInv, NEW w \in Workers, DropSupplier(w)
    PROVE  IInv'
<1>1. PICK s \in Sources :
         /\ job[w].key = s /\ supplier' = supplier \ {s}
         /\ ref' = [k \in RefKeys |-> IF k[1] \in Items /\ k[2] = s THEN Null ELSE ref[k]]
         /\ item' = [i \in Items |-> IF ref[<<i, s>>] = Null THEN item[i] ELSE Counted(i, -1)[i]]
  BY DEF DropSupplier, IInv, FramesFit, Fits
<1>2. job' = [job EXCEPT ![w] = Idle] /\ template' = template /\ sub' = sub /\ served' = served
  BY DEF DropSupplier, Returns, Goes
<1>3. ref' \in [RefKeys -> BOOLEAN \cup {Null}] /\ supplier' \subseteq Sources
  BY <1>1 DEF IInv, TypeOK
<1>4. ASSUME NEW i \in Items
      PROVE  /\ item'[i] \in Item \cup {Null} /\ SameItem(i)
             /\ IF item'[i] = Null THEN RefsOf(i)' = {}
                ELSE item'[i].refs = Cardinality(RefsOf(i)')
  <2>1. RefsOf(i)' = RefsOf(i) \ {s} /\ RefsOf(i) \in SUBSET Sources
    BY <1>1, KeyParts DEF RefsOf, Owners
  <2>2. CASE ref[<<i, s>>] = Null
    <3>1. item'[i] = item[i] /\ RefsOf(i)' = RefsOf(i)
      BY <1>1, <2>1, <2>2 DEF RefsOf
    <3> QED BY <3>1 DEF IInv, TypeOK, RefsCounted, SameItem
  <2>3. CASE ref[<<i, s>>] # Null
    <3>1. s \in RefsOf(i)
      BY <2>3 DEF RefsOf
    <3>2. item[i] \in Item /\ item[i] # Null /\ item[i].refs = Cardinality(RefsOf(i))
      BY <3>1 DEF IInv, RefsCounted, TypeOK
    <3>3. Cardinality(RefsOf(i)) \in Nat /\ Cardinality(RefsOf(i)) # 0
      BY <2>1, <3>1, SomeRefs, FS_EmptySet, FS_CardinalityType
    <3>4. Cardinality(RefsOf(i)') = item[i].refs + -1
      BY <2>1, <3>1, <3>2, <3>3, SomeRefs, FS_RemoveElement
    <3> DEFINE n == item[i].refs + -1
    <3>5. item'[i] = [item[i] EXCEPT !.refs = n]
      <4>1. Counted(i, -1) = [item EXCEPT ![i] = [item[i] EXCEPT !.refs = n]]
        BY <3>2, <3>3, CountedRow
      <4>2. item'[i] = Counted(i, -1)[i]
        BY <1>1, <2>3
      <4> QED BY <4>1, <4>2 DEF IInv, TypeOK
    <3>6. n \in 0 .. Cardinality(Sources)
      BY <2>1, <3>4, SomeRefs
    <3> HIDE DEF n
    <3> QED BY <3>2, <3>4, <3>5, <3>6, Recount DEF SameItem, n
  <2> QED BY <2>2, <2>3
<1>5. item' \in [Items -> Item \cup {Null}]
  <2>1. DOMAIN item' = Items /\ item' = [i \in Items |-> item'[i]]
    BY <1>1
  <2> QED BY <1>4, <2>1
<1>6. RefsCounted'
  BY <1>4 DEF RefsCounted
<1> QED BY <1>2, <1>3, <1>4, <1>5, <1>6, WritingInv

LEMMA DemoteOthersInv ==
    ASSUME IInv, NEW w \in Workers, NEW p \in Parts, NEW s \in Sources, NEW preferred \in BOOLEAN,
           DemoteOthers(w, p, s, preferred)
    PROVE  IInv'
<1> DEFINE seen == IF preferred THEN RefsOf(p) ELSE {}
           f == [Idle EXCEPT !.at = "insert_mfr", !.key = <<p, s>>, !.preferred = preferred,
                             !.seen = seen]
<1>1. job' = [job EXCEPT ![w] = f] /\ UNCHANGED <<stock, references, served>>
  BY DEF DemoteOthers, Goes
<1>2. seen \in SUBSET Sources /\ <<p, s>> \in FrameKeys /\ "insert_mfr" \in Stages
  BY KeyParts DEF RefsOf, FrameKeys, Stages, Owners
<1> HIDE DEF seen
<1>3. f \in Frame
  BY <1>2, KeyedFrame
<1>4. f.at = "insert_mfr" /\ f.key = <<p, s>>
  BY DEF Idle
<1> HIDE DEF f
<1>5. Fits(f)
  BY <1>4 DEF Fits, RefStages
<1> QED BY <1>1, <1>3, <1>5, ReadingInv

LEMMA InsertPartRefInv ==
    ASSUME IInv, NEW w \in Workers, InsertPartRef(w)
    PROVE  IInv'
<1> DEFINE b == job[w].preferred
<1>1. PICK p \in Parts, s \in Sources : job[w].key = <<p, s>>
  BY DEF InsertPartRef, IInv, FramesFit, Fits
<1>2. b \in BOOLEAN
  BY DEF IInv, TypeOK, Frame
<1>3. /\ ref' \in [RefKeys -> BOOLEAN \cup {Null}]
      /\ \A k \in RefKeys : k[1] # p => ref'[k] = ref[k]
  <2>1. CASE ref' = ref
    BY <2>1 DEF IInv, TypeOK
  <2>2. CASE ref' = [j \in RefKeys |-> IF j = job[w].key THEN b
                         ELSE IF j[1] = job[w].key[1] /\ j[2] \in job[w].seen THEN FALSE
                         ELSE ref[j]]
    <3>1. \A k \in RefKeys : k[1] # p => k # job[w].key /\ k[1] # job[w].key[1]
      BY <1>1
    <3> QED BY <1>2, <2>2, <3>1 DEF IInv, TypeOK
  <2> QED BY <2>1, <2>2 DEF InsertPartRef
<1>4. ASSUME NEW i \in Items, NEW x \in Sources PROVE ref'[<<i, x>>] = ref[<<i, x>>]
  BY <1>3, KeyParts, CatalogueAssumption DEF Owners
<1> QED BY <1>3, <1>4, FlagsInv DEF InsertPartRef, Returns, Goes

------------------------------------------------------------------------------

LEMMA StutterInv == IInv /\ UNCHANGED vars => IInv'
<1> SUFFICES ASSUME IInv, UNCHANGED vars PROVE IInv'
  OBVIOUS
<1>1. TypeOK'
  BY DEF IInv, TypeOK, vars
<1> QED BY <1>1 DEF vars, IInv, FramesFit, Fits, ItemsFitTemplate, RefsCounted, RefsOf

LEMMA NextInv == IInv /\ [Next]_vars => IInv'
<1> SUFFICES ASSUME IInv, [Next]_vars PROVE IInv'
  OBVIOUS
<1>1. ASSUME NEW w \in Workers, TemplateNext(w) PROVE IInv'
  BY <1>1, ReadCurrentInv, CountUsesInv, CreateTemplateInv, InsertVersionInv, ReadVersionInv,
     DropTemplateInv DEF TemplateNext
<1>2. ASSUME NEW w \in Workers, ItemNext(w) PROVE IInv'
  <2>1. ASSUME NEW s \in SubFamilies, NEW t \in Templates \cup {Null}, CreateSubFamily(w, s, t)
        PROVE  IInv'
    BY <2>1, SubFamilyInv DEF CreateSubFamily
  <2>2. ASSUME NEW s \in SubFamilies, NEW t \in Templates, UpdateSubFamily(w, s, t)
        PROVE  IInv'
    BY <2>2, SubFamilyInv DEF UpdateSubFamily
  <2> QED BY <1>2, <2>1, <2>2, ReadSubFamilyInv, LoadTemplateInv, LoadFieldsInv, RefuseItemInv,
             DeleteItemInv, InsertItemInv DEF ItemNext
<1>3. ASSUME NEW w \in Workers, ReferenceNext(w) PROVE IInv'
  BY <1>3, CheckRefInv, ReadPreferredInv, ReadRefInv, InsertRefInv, UpdateRefInv, PreferInv,
     CountRefsInv, DropRefInv, AddSupplierInv, CountSupplierRefsInv, DropSupplierInv
  DEF ReferenceNext
<1>4. ASSUME NEW w \in Workers, PartNext(w) PROVE IInv'
  BY <1>4, DemoteOthersInv, InsertPartRefInv DEF PartNext
<1> QED BY <1>1, <1>2, <1>3, <1>4, StutterInv DEF Next

LEMMA Invariant == Spec => []IInv
BY InitInv, NextInv, PTL DEF Spec

\* Rows, references and frames keep the values the schema and the code allow.
THEOREM TypeCorrect == Spec => []TypeOK
<1>1. IInv => TypeOK
  BY DEF IInv
<1> QED BY <1>1, Invariant, PTL

\* An item made from a template names one that exists, in the version it was made from,
\* and fits it, whatever was deleted or versioned while it was being made.
THEOREM ItemsFit == Spec => []ItemsFitTemplate
<1>1. IInv => ItemsFitTemplate
  BY DEF IInv
<1> QED BY <1>1, Invariant, PTL

\* The count a trigger keeps of an item's references is theirs, however calls overlap.
THEOREM CountsExact == Spec => []RefsCounted
<1>1. IInv => RefsCounted
  BY DEF IInv
<1> QED BY <1>1, Invariant, PTL

------------------------------------------------------------------------------
(* Preferred references: each is the work of a worker, and of another one. *)

Writing == {"insert_ref", "update_ref", "insert_mfr"}

\* Worker w is about to write a preferred reference of o,
Prefers(w, o) ==
    /\ job[w].at \in Writing /\ job[w].preferred = TRUE
    /\ \E s \in Sources : job[w].key = <<o, s>>

\* after which that of supplier or manufacturer a is no other preferred one.
Replaces(w, o, a) ==
    job[w].key = <<o, a>> \/ (job[w].at = "insert_mfr" /\ a \in job[w].seen)

\* The preferred references of o have authors, all different, and an author that is
\* about to write another one replaces the first.
Authors(f, o) ==
    /\ f \in Injection(PreferredOf(o), Workers)
    /\ \A a \in PreferredOf(o) : Prefers(f[a], o) => Replaces(f[a], o, a)

Authored == \A o \in Owners : \E f : Authors(f, o)

\* Of the flags a NULL is no preferred one.
LEMMA FlagsTrue ==
    ASSUME NEW r \in [RefKeys -> BOOLEAN \cup {Null}], NEW o \in Owners
    PROVE  {s \in {x \in Sources : r[<<o, x>>] # Null} : r[<<o, s>>]}
           = {s \in Sources : r[<<o, s>>] = TRUE}
<1>1. ASSUME NEW s \in Sources
      PROVE  (r[<<o, s>>] # Null /\ r[<<o, s>>]) <=> r[<<o, s>>] = TRUE
  <2>1. r[<<o, s>>] \in BOOLEAN \cup {Null}
    BY KeyParts
  <2>2. Null # TRUE
    BY NullAssumption
  <2>3. CASE r[<<o, s>>] = Null
    BY <2>2, <2>3
  <2>4. CASE r[<<o, s>>] \in BOOLEAN
    BY <2>4, NullAssumption
  <2> QED BY <2>1, <2>3, <2>4
<1> QED BY <1>1

LEMMA PreferredRows ==
    ASSUME IInv, IInv', NEW o \in Owners
    PROVE  /\ PreferredOf(o) = {s \in Sources : ref[<<o, s>>] = TRUE}
           /\ PreferredOf(o)' = {s \in Sources : ref'[<<o, s>>] = TRUE}
<1>1. ref \in [RefKeys -> BOOLEAN \cup {Null}] /\ ref' \in [RefKeys -> BOOLEAN \cup {Null}]
  BY DEF IInv, TypeOK
<1>2. PreferredOf(o) = {s \in {x \in Sources : ref[<<o, x>>] # Null} : ref[<<o, s>>]}
  BY DEF PreferredOf, RefsOf
<1>3. PreferredOf(o)' = {s \in {x \in Sources : ref'[<<o, x>>] # Null} : ref'[<<o, s>>]}
  BY DEF PreferredOf, RefsOf
<1> QED BY <1>1, <1>2, <1>3, FlagsTrue

\* What ceases to be preferred takes its author with it; a worker may begin to write
\* a reference that replaces all there are.
LEMMA AuthorsKept ==
    ASSUME Authored, NEW o \in Owners, PreferredOf(o)' \subseteq PreferredOf(o),
           \A v \in Workers : \/ ~ Prefers(v, o)'
                              \/ job'[v] = job[v]
                              \/ \A a \in PreferredOf(o)' : Replaces(v, o, a)'
    PROVE  \E f : Authors(f, o)'
<1> PICK Q : Q = PreferredOf(o)'
  OBVIOUS
<1>1. PICK f : Authors(f, o)
  BY DEF Authored
<1> DEFINE g == [a \in Q |-> f[a]]
<1>2. g \in Injection(Q, Workers)
  BY <1>1 DEF Authors, Injection, IsInjective
<1>3. ASSUME NEW a \in Q, Prefers(g[a], o)' PROVE Replaces(g[a], o, a)'
  <2>1. g[a] = f[a] /\ f[a] \in Workers /\ a \in PreferredOf(o)
    BY <1>1 DEF Authors, Injection
  <2>2. CASE job'[f[a]] = job[f[a]]
    <3>1. Prefers(f[a], o)
      BY <1>3, <2>1, <2>2 DEF Prefers
    <3>2. Replaces(f[a], o, a)
      BY <1>1, <2>1, <3>1 DEF Authors
    <3> QED BY <2>1, <2>2, <3>2 DEF Replaces
  <2> QED BY <1>3, <2>1, <2>2
<1> HIDE DEF g
<1> QED BY <1>2, <1>3 DEF Authors

\* The worker that writes a preferred reference becomes its author.
LEMMA AuthorAdded ==
    ASSUME Authored, NEW o \in Owners, NEW w \in Workers, NEW s,
           PreferredOf(o)' \ {s} \subseteq PreferredOf(o),
           ~ Prefers(w, o)', \A v \in Workers \ {w} : job'[v] = job[v],
           Prefers(w, o), \A a \in PreferredOf(o)' \ {s} : ~ Replaces(w, o, a)
    PROVE  \E f : Authors(f, o)'
<1> PICK Q : Q = PreferredOf(o)'
  OBVIOUS
<1>1. PICK f : Authors(f, o)
  BY DEF Authored
<1> DEFINE g == [a \in Q |-> IF a = s THEN w ELSE f[a]]
<1>2. ASSUME NEW a \in Q \ {s} PROVE g[a] = f[a] /\ f[a] \in Workers \ {w}
  <2>1. a \in PreferredOf(o) /\ f[a] \in Workers
    BY <1>1 DEF Authors, Injection
  <2>2. f[a] # w
    BY <1>1, <2>1 DEF Authors
  <2> QED BY <2>1, <2>2
<1>3. g \in Injection(Q, Workers)
  <2>1. \A a \in Q : g[a] \in Workers /\ (a = s => g[a] = w)
    BY <1>2
  <2>2. \A a, b \in Q \ {s} : f[a] = f[b] => a = b
    BY <1>1 DEF Authors, Injection, IsInjective
  <2>3. \A a, b \in Q : g[a] = g[b] => a = b
    BY <1>2, <2>1, <2>2
  <2>4. g \in [Q -> Workers]
    BY <2>1
  <2> HIDE DEF g
  <2> QED BY <2>3, <2>4 DEF Injection, IsInjective
<1>4. ASSUME NEW a \in Q, Prefers(g[a], o)' PROVE Replaces(g[a], o, a)'
  <2>1. CASE a = s
    <3>1. g[a] = w
      BY <2>1
    <3> QED BY <1>4, <3>1
  <2>2. CASE a # s
    <3>1. g[a] = f[a] /\ f[a] \in Workers /\ job'[f[a]] = job[f[a]] /\ a \in PreferredOf(o)
      BY <1>2, <2>2
    <3>2. Prefers(f[a], o)
      BY <1>4, <3>1 DEF Prefers
    <3>3. Replaces(f[a], o, a)
      BY <1>1, <3>1, <3>2 DEF Authors
    <3> QED BY <3>1, <3>3 DEF Replaces
  <2> QED BY <2>1, <2>2
<1> HIDE DEF g
<1> QED BY <1>3, <1>4 DEF Authors

\* One preferred reference at most has any worker that writes nothing for author.
LEMMA AuthorAlone ==
    ASSUME NEW o \in Owners, NEW w \in Workers, NEW s, PreferredOf(o)' \subseteq {s},
           ~ Prefers(w, o)'
    PROVE  \E f : Authors(f, o)'
<1> PICK Q : Q = PreferredOf(o)'
  OBVIOUS
<1> DEFINE g == [a \in Q |-> w]
<1>1. g \in Injection(Q, Workers)
  BY DEF Injection, IsInjective
<1>2. \A a \in Q : g[a] = w
  OBVIOUS
<1> HIDE DEF g
<1> QED BY <1>1, <1>2 DEF Authors

------------------------------------------------------------------------------

\* A worker goes on without anything preferred to write, and no reference becomes so.
LEMMA QuietAuthored ==
    ASSUME IInv, Authored, NEW w \in Workers, NEW f, f.at \notin Writing,
           job' = [job EXCEPT ![w] = f],
           \A o \in Owners : PreferredOf(o)' \subseteq PreferredOf(o)
    PROVE  Authored'
<1>1. job'[w] = f /\ \A v \in Workers \ {w} : job'[v] = job[v]
  BY DEF IInv, TypeOK
<1>2. \A v \in Workers, o \in Owners : ~ Prefers(v, o)' \/ job'[v] = job[v]
  BY <1>1 DEF Prefers
<1> QED BY <1>2, AuthorsKept DEF Authored

LEMMA SameRefs ==
    ASSUME ref' = ref PROVE \A o : PreferredOf(o)' = PreferredOf(o) /\ RefsOf(o)' = RefsOf(o)
BY DEF PreferredOf, RefsOf

LEMMA StillAuthored ==
    ASSUME Authored, \A o \in Owners : PreferredOf(o)' \subseteq PreferredOf(o), job' = job
    PROVE  Authored'
<1>1. \A v \in Workers : job'[v] = job[v]
  OBVIOUS
<1> QED BY <1>1, AuthorsKept DEF Authored

\* A worker starts on a reference that replaces all the preferred ones there are.
LEMMA StartAuthored ==
    ASSUME IInv, Authored, NEW w \in Workers, NEW o \in Owners, NEW s \in Sources, NEW f,
           job' = [job EXCEPT ![w] = f], ref' = ref, f.key = <<o, s>>,
           f.preferred = TRUE =>
               \A a \in PreferredOf(o) : a = s \/ (f.at = "insert_mfr" /\ a \in f.seen)
    PROVE  Authored'
<1>1. job'[w] = f /\ \A v \in Workers \ {w} : job'[v] = job[v]
  BY DEF IInv, TypeOK
<1>2. \A x : PreferredOf(x)' = PreferredOf(x)
  BY SameRefs
<1>3. ASSUME NEW x \in Owners PROVE \E g : Authors(g, x)'
  <2>1. ~ Prefers(w, x)' \/ \A a \in PreferredOf(x)' : Replaces(w, x, a)'
    BY <1>1, <1>2 DEF Prefers, Replaces
  <2>2. \A v \in Workers : \/ ~ Prefers(v, x)'
                           \/ job'[v] = job[v]
                           \/ \A a \in PreferredOf(x)' : Replaces(v, x, a)'
    BY <1>1, <2>1
  <2> QED BY <1>2, <2>2, AuthorsKept
<1> QED BY <1>3 DEF Authored

\* A worker has written references of o alone.
LEMMA WrittenAuthored ==
    ASSUME IInv, Authored, NEW w \in Workers, job' = [job EXCEPT ![w] = Idle],
           NEW o \in Owners, \A x \in Owners \ {o} : PreferredOf(x)' \subseteq PreferredOf(x),
           \E f : Authors(f, o)'
    PROVE  Authored'
<1>1. job'[w] = Idle /\ \A v \in Workers \ {w} : job'[v] = job[v]
  BY DEF IInv, TypeOK
<1>2. \A v \in Workers, x \in Owners : ~ Prefers(v, x)' \/ job'[v] = job[v]
  BY <1>1 DEF Prefers, Writing, Idle
<1>3. \A x \in Owners \ {o} : \E f : Authors(f, x)'
  BY <1>2, AuthorsKept
<1> QED BY <1>3 DEF Authored

LEMMA IdleQuiet == Idle.at \notin Writing
BY DEF Idle, Writing

LEMMA TemplateAuthored ==
    ASSUME IInv, Authored, NEW w \in Workers, TemplateNext(w)
    PROVE  Authored'
<1>1. ref' = ref
  BY DEF TemplateNext, ReadCurrent, CountUses, CreateTemplate, InsertVersion, ReadVersion,
         DropTemplate, references
<1>2. \A o \in Owners : PreferredOf(o)' \subseteq PreferredOf(o)
  BY <1>1, SameRefs
<1>3. job[w] \in Frame
  BY DEF IInv, TypeOK
<1>4. job' = job \/ \E f : f.at \notin Writing /\ job' = [job EXCEPT ![w] = f]
  <2>1. ASSUME NEW t \in Templates, ReadCurrent(w, t) \/ CountUses(w, t) PROVE \E f : f.at \notin Writing /\ job' = [job EXCEPT ![w] = f]
    BY <2>1 DEF ReadCurrent, CountUses, Goes, Writing, Idle
  <2>2. ASSUME NEW t \in Templates, NEW shape \in Shapes,
               CreateTemplate(w, t, shape) \/ InsertVersion(w, t, shape)
        PROVE  job' = job \/ job' = [job EXCEPT ![w] = Idle]
    BY <2>2 DEF CreateTemplate, InsertVersion, Returns, Goes
  <2>3. CASE ReadVersion(w)
    <3> DEFINE f == [job[w] EXCEPT !.at = "insert_version",
                                   !.version = 1 + Max(Versions \cup {0})]
    <3>1. job' = [job EXCEPT ![w] = f]
      BY <2>3 DEF ReadVersion, Goes
    <3>2. f.at = "insert_version"
      BY <1>3 DEF Frame
    <3> QED BY <3>1, <3>2 DEF Writing
  <2>4. CASE DropTemplate(w)
    BY <2>4, IdleQuiet DEF DropTemplate, Returns, Goes
  <2> QED BY <2>1, <2>2, <2>3, <2>4, IdleQuiet DEF TemplateNext
<1> QED BY <1>2, <1>4, QuietAuthored, StillAuthored

LEMMA ItemAuthored ==
    ASSUME IInv, IInv', Authored, NEW w \in Workers, ItemNext(w)
    PROVE  Authored'
<1>1. CASE \E i \in Items : DeleteItem(w, i)
  <2>1. PICK i \in Items : DeleteItem(w, i)
    BY <1>1
  <2>2. job' = job /\ ref' = [k \in RefKeys |-> IF k[1] = i THEN Null ELSE ref[k]]
    BY <2>1 DEF DeleteItem
  <2>3. Null # TRUE
    BY NullAssumption
  <2>4. \A o \in Owners : PreferredOf(o)' \subseteq PreferredOf(o)
    BY <2>2, <2>3, PreferredRows, KeyParts
  <2> QED BY <2>2, <2>4, StillAuthored
<1>2. CASE ~ \E i \in Items : DeleteItem(w, i)
  <2>1. ref' = ref
    BY <1>2 DEF ItemNext, ReadSubFamily, CreateSubFamily, UpdateSubFamily, LoadTemplate, LoadFields,
                RefuseItem, InsertItem, references
  <2>2. \A o \in Owners : PreferredOf(o)' \subseteq PreferredOf(o)
    BY <2>1, SameRefs
  <2>3. job[w] \in Frame
    BY DEF IInv, TypeOK
  <2>4. CASE \/ RefuseItem(w) \/ \E i \in Items, chars \in SUBSET Fields : InsertItem(w, i, chars)
             \/ \E s \in SubFamilies, t \in Templates \cup {Null} :
                    CreateSubFamily(w, s, t) \/ UpdateSubFamily(w, s, t)
    <3>1. job' = job \/ job' = [job EXCEPT ![w] = Idle]
      BY <2>4 DEF RefuseItem, InsertItem, CreateSubFamily, UpdateSubFamily, Returns, Goes
    <3> QED BY <2>2, <3>1, IdleQuiet, QuietAuthored, StillAuthored
  <2>5. ASSUME NEW s \in SubFamilies, ReadSubFamily(w, s) PROVE Authored'
    <3> DEFINE f == [Idle EXCEPT !.at = IF sub[s] = Null THEN "insert_item" ELSE "load",
                                 !.key = sub[s]]
    <3>1. job' = [job EXCEPT ![w] = f]
      BY <2>5 DEF ReadSubFamily, Goes
    <3>2. f.at \notin Writing
      BY DEF Idle, Writing
    <3> HIDE DEF f
    <3> QED BY <2>2, <3>1, <3>2, QuietAuthored
  <2>6. CASE LoadTemplate(w)
    <3> DEFINE f == [job[w] EXCEPT !.at = "fields", !.version = template[job[w].key].version,
                                   !.shape = template[job[w].key].shape]
    <3>1. job' = [job EXCEPT ![w] = Idle] \/ job' = [job EXCEPT ![w] = f]
      BY <2>6 DEF LoadTemplate, Goes
    <3>2. f.at = "fields"
      BY <2>3 DEF Frame
    <3> HIDE DEF f
    <3>3. f.at \notin Writing
      BY <3>2 DEF Writing
    <3> QED BY <2>2, <3>1, <3>3, IdleQuiet, QuietAuthored
  <2>7. CASE LoadFields(w)
    <3>1. PICK x : job' = [job EXCEPT ![w] = [job[w] EXCEPT !.at = "insert_item", !.shape = x]]
      BY <2>7 DEF LoadFields, Goes
    <3> DEFINE f == [job[w] EXCEPT !.at = "insert_item", !.shape = x]
    <3>2. f.at = "insert_item"
      BY <2>3 DEF Frame
    <3>3. job' = [job EXCEPT ![w] = f]
      BY <3>1
    <3> HIDE DEF f
    <3>4. f.at \notin Writing
      BY <3>2 DEF Writing
    <3> QED BY <2>2, <3>3, <3>4, QuietAuthored
  <2> QED BY <1>2, <2>4, <2>5, <2>6, <2>7 DEF ItemNext
<1> QED BY <1>1, <1>2

\* The check of a preferred reference has found no other.
LEMMA CheckAuthored ==
    ASSUME IInv, Authored, NEW w \in Workers, NEW i \in Items, NEW s \in Sources,
           NEW preferred \in BOOLEAN,
           CheckRef(w, i, s, preferred) \/ CheckUpdate(w, i, s, preferred)
    PROVE  Authored'
<1>1. PICK at \in {"insert_ref", "update_ref"} :
         job' = [job EXCEPT ![w] =
                    [Idle EXCEPT !.at = at, !.key = <<i, s>>, !.preferred = preferred]]
  BY DEF CheckRef, CheckUpdate, Goes
<1> DEFINE f == [Idle EXCEPT !.at = at, !.key = <<i, s>>, !.preferred = preferred]
<1>2. f.key = <<i, s>> /\ f.preferred = preferred
  BY DEF Idle
<1>3. ref' = ref /\ (preferred => PreferredOf(i) \ {s} = {})
  BY DEF CheckRef, CheckUpdate, PreferredFree, references
<1>4. job' = [job EXCEPT ![w] = f]
  BY <1>1
<1>5. f.preferred = TRUE => \A a \in PreferredOf(i) : a = s
  BY <1>2, <1>3
<1> HIDE DEF f
<1> QED BY <1>2, <1>3, <1>4, <1>5, StartAuthored DEF Owners

\* A frame that is about to write names the reference of an item.
LEMMA WriterOf ==
    ASSUME IInv, NEW w \in Workers, job[w].at \in {"insert_ref", "update_ref", "prefer"}
    PROVE  \E i \in Items, s \in Sources :
               /\ job[w].key = <<i, s>> /\ i \in Owners /\ <<i, s>> \in RefKeys
               /\ \A x \in Owners, a \in Sources : <<x, a>> = <<i, s>> <=> x = i /\ a = s
<1>1. job[w].at \in RefStages
  BY DEF RefStages
<1> QED BY <1>1, FrameRef DEF Owners

\* A reference gets the flag of the frame that has checked it, or none.
LEMMA RefAuthored ==
    ASSUME IInv, IInv', Authored, NEW w \in Workers, InsertRef(w) \/ UpdateRef(w)
    PROVE  Authored'
<1>1. job[w].at \in {"insert_ref", "update_ref"} /\ job' = [job EXCEPT ![w] = Idle]
  BY DEF InsertRef, UpdateRef, Returns, Goes
<1>2. PICK i \in Items, s \in Sources :
         /\ job[w].key = <<i, s>> /\ i \in Owners /\ <<i, s>> \in RefKeys
         /\ \A x \in Owners, a \in Sources : <<x, a>> = <<i, s>> <=> x = i /\ a = s
  BY <1>1, WriterOf
<1>3. job'[w] = Idle /\ \A v \in Workers \ {w} : job'[v] = job[v]
  BY <1>1 DEF IInv, TypeOK
<1>4. CASE ref' = ref
  <2>1. \A o \in Owners : PreferredOf(o)' \subseteq PreferredOf(o)
    BY <1>4, SameRefs
  <2> QED BY <1>1, <2>1, IdleQuiet, QuietAuthored
<1>5. CASE \E b : ref' = [ref EXCEPT ![<<i, s>>] = b] /\ b \in {Null, job[w].preferred}
  <2>1. PICK b : ref' = [ref EXCEPT ![<<i, s>>] = b] /\ b \in {Null, job[w].preferred}
    BY <1>5
  <2>2. ref'[<<i, s>>] = b /\ \A k \in RefKeys \ {<<i, s>>} : ref'[k] = ref[k]
    BY <1>2, <2>1 DEF IInv, TypeOK
  <2>3. ASSUME NEW x \in Owners, NEW a \in Sources, x # i \/ a # s
        PROVE  ref'[<<x, a>>] = TRUE => ref[<<x, a>>] = TRUE
    <3>1. <<x, a>> \in RefKeys \ {<<i, s>>}
      BY <1>2, <2>3, KeyParts
    <3> QED BY <2>2, <3>1
  <2>4. /\ \A x \in Owners \ {i} : PreferredOf(x)' \subseteq PreferredOf(x)
        /\ PreferredOf(i)' \ {s} \subseteq PreferredOf(i)
    BY <1>2, <2>3, PreferredRows
  <2>5. CASE job[w].preferred = TRUE
    <3>1. Prefers(w, i) /\ ~ Prefers(w, i)'
      BY <1>1, <1>2, <1>3, <2>5, IdleQuiet DEF Prefers, Writing
    <3>2. \A a \in PreferredOf(i)' \ {s} : ~ Replaces(w, i, a)
      BY <1>1, <1>2, <2>4, PreferredRows DEF Replaces
    <3>3. \E f : Authors(f, i)'
      BY <1>2, <1>3, <2>4, <3>1, <3>2, AuthorAdded
    <3> QED BY <1>1, <1>2, <2>4, <3>3, WrittenAuthored
  <2>6. CASE job[w].preferred # TRUE
    <3>1. b # TRUE
      BY <2>1, <2>6, NullAssumption
    <3>2. PreferredOf(i)' \subseteq PreferredOf(i)
      BY <1>2, <2>2, <2>4, <3>1, PreferredRows
    <3>3. \A x \in Owners : PreferredOf(x)' \subseteq PreferredOf(x)
      BY <2>4, <3>2
    <3> QED BY <1>1, <3>3, IdleQuiet, QuietAuthored
  <2> QED BY <2>5, <2>6
<1> QED
  <2>1. CASE InsertRef(w)
    BY <1>2, <1>4, <1>5, <2>1 DEF InsertRef
  <2>2. CASE UpdateRef(w)
    <3> DEFINE b == IF ref[job[w].key] = Null THEN Null ELSE job[w].preferred
    <3>1. ref' = [ref EXCEPT ![<<i, s>>] = b]
      BY <1>2, <2>2 DEF UpdateRef
    <3> QED BY <1>5, <3>1
  <2> QED BY <2>1, <2>2

\* The item has no other preferred reference than the one that was asked for.
LEMMA PreferAuthored ==
    ASSUME IInv, IInv', Authored, NEW w \in Workers, Prefer(w)
    PROVE  Authored'
<1>1. job[w].at \in {"prefer"} /\ job' = [job EXCEPT ![w] = Idle]
  BY DEF Prefer, Returns, Goes
<1>2. PICK i \in Items, s \in Sources :
         /\ job[w].key = <<i, s>> /\ i \in Owners /\ <<i, s>> \in RefKeys
         /\ \A x \in Owners, a \in Sources : <<x, a>> = <<i, s>> <=> x = i /\ a = s
  BY <1>1, WriterOf
<1>3. ref' = [k \in RefKeys |-> IF k[1] = i /\ ref[k] # Null THEN k = <<i, s>> ELSE ref[k]]
  BY <1>2 DEF Prefer
<1>4. ASSUME NEW a \in Sources \ {s} PROVE ref'[<<i, a>>] # TRUE
  <2>1. <<i, a>> \in RefKeys /\ <<i, a>>[1] = i /\ <<i, a>> # <<i, s>>
    BY <1>2, KeyParts
  <2>2. ref'[<<i, a>>] = IF ref[<<i, a>>] # Null THEN <<i, a>> = <<i, s>> ELSE ref[<<i, a>>]
    BY <1>3, <2>1
  <2>3. CASE ref[<<i, a>>] = Null
    BY <2>2, <2>3, NullAssumption
  <2>4. CASE ref[<<i, a>>] # Null
    BY <2>1, <2>2, <2>4
  <2> QED BY <2>3, <2>4
<1>5. PreferredOf(i)' \subseteq {s}
  BY <1>2, <1>4, PreferredRows
<1>6. \A x \in Owners \ {i} : PreferredOf(x)' \subseteq PreferredOf(x)
  BY <1>3, PreferredRows, KeyParts, ZenonT(60)
<1>7. ~ Prefers(w, i)'
  <2>1. job'[w] = Idle
    BY <1>1 DEF IInv, TypeOK
  <2> QED BY <2>1, IdleQuiet DEF Prefers
<1>8. \E f : Authors(f, i)'
  BY <1>2, <1>5, <1>7, AuthorAlone
<1> QED BY <1>1, <1>2, <1>6, <1>8, WrittenAuthored

LEMMA ReferenceAuthored ==
    ASSUME IInv, IInv', Authored, NEW w \in Workers, ReferenceNext(w)
    PROVE  Authored'
<1>1. job[w] \in Frame /\ Null # TRUE
  BY NullAssumption DEF IInv, TypeOK
<1>2. ASSUME NEW i \in Items, NEW s \in Sources, ReadPreferred(w, i, s) \/ ReadRef(w, i, s)
      PROVE  Authored'
  <2>1. PICK at \in {"prefer", "count_refs", "drop_ref"} :
           job' = [job EXCEPT ![w] = [Idle EXCEPT !.at = at, !.key = <<i, s>>]]
    BY <1>2 DEF ReadPreferred, ReadRef, Goes
  <2> DEFINE f == [Idle EXCEPT !.at = at, !.key = <<i, s>>]
  <2>2. f.at \notin Writing /\ job' = [job EXCEPT ![w] = f]
    BY <2>1 DEF Idle, Writing
  <2>3. ref' = ref
    BY <1>2 DEF ReadPreferred, ReadRef, references
  <2> HIDE DEF f
  <2> QED BY <2>2, <2>3, SameRefs, QuietAuthored
<1>3. CASE CountRefs(w)
  <2> DEFINE f == [job[w] EXCEPT !.at = "drop_ref"]
  <2>1. f.at = "drop_ref"
    BY <1>1 DEF Frame
  <2>2. (job' = [job EXCEPT ![w] = Idle] \/ job' = [job EXCEPT ![w] = f]) /\ ref' = ref
    BY <1>3 DEF CountRefs, Goes, references
  <2> HIDE DEF f
  <2>3. f.at \notin Writing
    BY <2>1 DEF Writing
  <2> QED BY <2>2, <2>3, SameRefs, IdleQuiet, QuietAuthored
<1>4. CASE DropRef(w) \/ DropSupplier(w)
  <2>1. job' = [job EXCEPT ![w] = Idle]
    BY <1>4 DEF DropRef, DropSupplier, Returns, Goes
  <2>2. \A k \in RefKeys : ref'[k] = ref[k] \/ ref'[k] = Null
    <3>1. ref \in [RefKeys -> BOOLEAN \cup {Null}]
      BY DEF IInv, TypeOK
    <3>2. CASE DropRef(w)
      <4>1. ref' = ref \/ ref' = [ref EXCEPT ![job[w].key] = Null]
        BY <3>2 DEF DropRef
      <4> QED BY <3>1, <4>1
    <3>3. CASE DropSupplier(w)
      <4>1. PICK s : ref' = [k \in RefKeys |-> IF k[1] \in Items /\ k[2] = s THEN Null ELSE ref[k]]
        BY <3>3 DEF DropSupplier
      <4> QED BY <4>1
    <3> QED BY <1>4, <3>2, <3>3
  <2>3. ASSUME NEW o \in Owners, NEW a \in Sources
        PROVE  ref'[<<o, a>>] = TRUE => ref[<<o, a>>] = TRUE
    BY <1>1, <2>2, KeyParts
  <2>4. \A o \in Owners : PreferredOf(o)' \subseteq PreferredOf(o)
    BY <2>3, PreferredRows
  <2> QED BY <2>1, <2>4, IdleQuiet, QuietAuthored
<1>5. ASSUME NEW s \in Sources, AddSupplier(w, s) PROVE Authored'
  BY <1>5, SameRefs, StillAuthored DEF AddSupplier
<1>6. ASSUME NEW s \in Sources, CountSupplierRefs(w, s) PROVE Authored'
  <2> DEFINE f == [Idle EXCEPT !.at = "drop_supplier", !.key = s]
  <2>1. f.at \notin Writing /\ job' = [job EXCEPT ![w] = f] /\ ref' = ref
    BY <1>6 DEF Idle, Writing, CountSupplierRefs, Goes, references
  <2> HIDE DEF f
  <2> QED BY <2>1, SameRefs, QuietAuthored
<1> QED BY <1>2, <1>3, <1>4, <1>5, <1>6, CheckAuthored, RefAuthored, PreferAuthored
        DEF ReferenceNext

\* A reference of a part demotes those there were when its creation began.
LEMMA PartAuthored ==
    ASSUME IInv, IInv', Authored, NEW w \in Workers, PartNext(w)
    PROVE  Authored'
<1>1. ASSUME NEW p \in Parts, NEW s \in Sources, NEW preferred \in BOOLEAN,
             DemoteOthers(w, p, s, preferred)
      PROVE  Authored'
  <2> DEFINE seen == IF preferred THEN RefsOf(p) ELSE {}
             f == [Idle EXCEPT !.at = "insert_mfr", !.key = <<p, s>>, !.preferred = preferred,
                               !.seen = seen]
  <2>1. job' = [job EXCEPT ![w] = f] /\ ref' = ref
    BY <1>1 DEF DemoteOthers, Goes, references
  <2>2. preferred = TRUE => PreferredOf(p) \subseteq seen
    BY DEF PreferredOf
  <2> HIDE DEF seen
  <2>3. f.at = "insert_mfr" /\ f.key = <<p, s>> /\ f.preferred = preferred /\ f.seen = seen
    BY DEF Idle
  <2> HIDE DEF f
  <2>4. f.preferred = TRUE => \A a \in PreferredOf(p) : f.at = "insert_mfr" /\ a \in f.seen
    BY <2>2, <2>3
  <2> QED BY <2>1, <2>3, <2>4, StartAuthored DEF Owners
<1>2. CASE InsertPartRef(w)
  <2>1. job[w].at = "insert_mfr" /\ job' = [job EXCEPT ![w] = Idle]
    BY <1>2 DEF InsertPartRef, Returns, Goes
  <2>2. PICK p \in Parts, s \in Sources : job[w].key = <<p, s>> /\ p \in Owners
    BY <2>1 DEF IInv, FramesFit, Fits, Owners
  <2>3. job'[w] = Idle /\ \A v \in Workers \ {w} : job'[v] = job[v]
    BY <2>1 DEF IInv, TypeOK
  <2>4. CASE ref' = ref
    BY <2>1, <2>4, SameRefs, IdleQuiet, QuietAuthored
  <2>5. CASE ref' = [j \in RefKeys |-> IF j = job[w].key THEN job[w].preferred
                                       ELSE IF j[1] = job[w].key[1] /\ j[2] \in job[w].seen THEN FALSE
                                       ELSE ref[j]]
    <3> DEFINE b == job[w].preferred
    <3>1. ASSUME NEW x \in Owners, NEW a \in Sources
          PROVE  ref'[<<x, a>>] = IF x = p /\ a = s THEN b
                                  ELSE IF x = p /\ a \in job[w].seen THEN FALSE
                                  ELSE ref[<<x, a>>]
      <4>1. /\ <<x, a>> \in RefKeys /\ <<x, a>>[1] = x /\ <<x, a>>[2] = a
            /\ job[w].key[1] = p /\ (<<x, a>> = job[w].key <=> x = p /\ a = s)
        BY <2>2, KeyParts
      <4> QED BY <2>5, <4>1
    <3> HIDE DEF b
    <3>2. \A x \in Owners \ {p} : PreferredOf(x)' \subseteq PreferredOf(x)
      BY <3>1, PreferredRows
    <3>3. \A a \in PreferredOf(p)' \ {s} : a \in PreferredOf(p) /\ a \notin job[w].seen
      BY <2>2, <3>1, PreferredRows, ZenonT(60)
    <3>4. CASE b = TRUE
      <4>1. Prefers(w, p) /\ ~ Prefers(w, p)'
        BY <2>1, <2>2, <2>3, <3>4, IdleQuiet DEF Prefers, Writing, b
      <4>2. \A a \in PreferredOf(p)' \ {s} : ~ Replaces(w, p, a)
        BY <2>2, <3>3 DEF Replaces
      <4>3. \E f : Authors(f, p)'
        BY <2>2, <2>3, <3>3, <4>1, <4>2, AuthorAdded
      <4> QED BY <2>1, <2>2, <3>2, <4>3, WrittenAuthored
    <3>5. CASE b # TRUE
      <4>1. s \notin PreferredOf(p)'
        BY <2>2, <3>1, <3>5, PreferredRows
      <4>2. \A x \in Owners : PreferredOf(x)' \subseteq PreferredOf(x)
        BY <3>2, <3>3, <4>1
      <4> QED BY <2>1, <4>2, IdleQuiet, QuietAuthored
    <3> QED BY <3>4, <3>5
  <2> QED BY <1>2, <2>4, <2>5 DEF InsertPartRef
<1> QED BY <1>1, <1>2 DEF PartNext

LEMMA InitAuthored == Init => Authored
<1> SUFFICES ASSUME Init, NEW o \in Owners PROVE \E f : Authors(f, o)
  BY DEF Authored
<1>1. PreferredOf(o) = {}
  BY KeyParts DEF Init, PreferredOf, RefsOf
<1> DEFINE g == [a \in {} |-> a]
<1>2. g \in Injection({}, Workers)
  BY DEF Injection, IsInjective
<1> HIDE DEF g
<1> QED BY <1>1, <1>2 DEF Authors

LEMMA NextAuthored == IInv /\ Authored /\ [Next]_vars => Authored'
<1> SUFFICES ASSUME IInv, Authored, [Next]_vars PROVE Authored'
  OBVIOUS
<1>1. IInv'
  BY NextInv
<1>2. CASE UNCHANGED vars
  BY <1>2, SameRefs, StillAuthored DEF vars
<1> QED BY <1>1, <1>2, TemplateAuthored, ItemAuthored, ReferenceAuthored, PartAuthored DEF Next

\* Nothing makes the preferred reference of an item or a part unique, but an item or a
\* part never has more of them than there are calls at a time: each is the last that
\* some worker has written, and what a worker checks or demotes before it writes
\* another one makes the first disappear.
THEOREM PreferencesBounded == Spec => []PreferredBounded
<1>1. ASSUME Authored, NEW o \in Owners
      PROVE  Cardinality(PreferredOf(o)) <= Cardinality(Workers)
  <2>1. PICK f : f \in Injection(PreferredOf(o), Workers)
    BY <1>1 DEF Authored, Authors
  <2> QED BY <2>1, FS_Injection, CatalogueAssumption
<1>2. Authored => PreferredBounded
  BY <1>1 DEF PreferredBounded
<1>3. Spec => []Authored
  BY InitInv, NextInv, InitAuthored, NextAuthored, PTL DEF Spec
<1> QED BY <1>2, <1>3, PTL

------------------------------------------------------------------------------
(* Migrations *)

LEMMA StartingInv ==
    ASSUME served \in Loads, template = [t \in Templates |-> Null],
           sub = [s \in SubFamilies |-> "none"], supplier = Sources,
           job = [w \in Workers |-> Idle],
           item \in [Items -> Item \cup {Null}], ref \in [RefKeys -> BOOLEAN \cup {Null}],
           \A i \in Items : item[i] # Null => item[i].template = Null,
           RefsCounted
    PROVE  IInv
<1>1. TypeOK
  BY IdleFits DEF TypeOK
<1>2. FramesFit
  BY IdleFits DEF FramesFit
<1> QED BY <1>1, <1>2 DEF IInv, ItemsFitTemplate

\* The references of an item, paired with it
LEMMA PairsCount ==
    ASSUME NEW i \in Items, NEW from \in SUBSET Sources
    PROVE  /\ Cardinality({k \in {i} \X from : k[1] = i}) = Cardinality(from)
           /\ \A j \in Items \ {i} : Cardinality({k \in {i} \X from : k[1] = j}) = 0
<1> DEFINE S == {k \in {i} \X from : k[1] = i}
           f == [x \in from |-> <<i, x>>]
<1>1. f \in Bijection(from, S)
  <2>1. f \in [from -> S] /\ \A x, y \in from : f[x] = f[y] => x = y
    OBVIOUS
  <2>2. \A k \in S : \E x \in from : f[x] = k
    OBVIOUS
  <2> QED BY <2>1, <2>2 DEF Bijection, Injection, Surjection, IsInjective
<1>2. IsFiniteSet(from)
  BY SomeRefs
<1>3. Cardinality(S) = Cardinality(from)
  BY <1>1, <1>2, FS_Bijection DEF ExistsBijection
<1>4. ASSUME NEW j \in Items \ {i} PROVE {k \in {i} \X from : k[1] = j} = {}
  OBVIOUS
<1> QED BY <1>3, <1>4, FS_EmptySet

LEMMA LegacyStockInv ==
    ASSUME MigrationInit, LegacyStock, supplier = Sources, served \in Loads,
           template = [t \in Templates |-> Null], sub = [s \in SubFamilies |-> "none"],
           job = [w \in Workers |-> Idle]
    PROVE  IInv
<1> PICK i \in Items, from \in {f \in SUBSET Sources : Cardinality(f) <= MaxRefs} :
       StockedWith(i, {i} \X from)
  BY DEF LegacyStock
<1> DEFINE rows == {i} \X from
<1>1. item = [j \in Items |-> [template |-> Null, version |-> 0, chars |-> {}, shown |-> {},
                               refs |-> Cardinality({k \in rows : k[1] = j})]]
  BY DEF StockedWith
<1>2. PICK preferred \in SUBSET rows :
          ref = [k \in RefKeys |-> IF k \in rows THEN k \in preferred ELSE Null]
  BY DEF StockedWith
<1>3. rows = {i} \X from /\ from \in SUBSET Sources
  OBVIOUS
<1> HIDE DEF rows
<1>4. ref \in [RefKeys -> BOOLEAN \cup {Null}]
      /\ \A k \in RefKeys : ref[k] # Null <=> k \in {i} \X from
  <2>1. ASSUME NEW k \in RefKeys PROVE ref[k] \in BOOLEAN \cup {Null} /\ (ref[k] # Null <=> k \in rows)
    <3>1. CASE k \in rows
      <4>1. ref[k] = (k \in preferred)
        BY <1>2, <3>1
      <4>2. (k \in preferred) \in BOOLEAN
        OBVIOUS
      <4> QED BY <3>1, <4>1, <4>2, NullAssumption
    <3>2. CASE k \notin rows
      BY <1>2, <3>2
    <3> QED BY <3>1, <3>2
  <2>2. ref = [k \in RefKeys |-> ref[k]]
    BY <1>2
  <2> QED BY <1>3, <2>1, <2>2
<1>5. \A j \in Items : RefsOf(j) = IF j = i THEN from ELSE {}
  BY <1>3, <1>4, KeyParts DEF RefsOf, Owners
<1>6. ASSUME NEW j \in Items
      PROVE  /\ item[j].refs = Cardinality(RefsOf(j)) /\ item[j].template = Null
             /\ item[j] \in Item
  <2>1. item[j].refs = Cardinality(RefsOf(j)) /\ item[j].template = Null
    BY <1>1, <1>3, <1>5, PairsCount, FS_EmptySet
  <2>2. Cardinality(RefsOf(j)) \in 0 .. Cardinality(Sources)
    BY <1>3, <1>5, SomeRefs
  <2>3. item[j] \in Item
    BY <1>1, <2>1, <2>2, CatalogueAssumption DEF Item
  <2> QED BY <2>1, <2>3
<1>7. item \in [Items -> Item \cup {Null}] /\ \A j \in Items : item[j] # Null
  BY <1>1, <1>6, NullAssumption
<1>8. RefsCounted
  BY <1>6, <1>7 DEF RefsCounted
<1> QED BY <1>4, <1>6, <1>7, <1>8, StartingInv

LEMMA LegacyLinksInv ==
    ASSUME LegacyLinks, supplier = Sources, served \in Loads,
           template = [t \in Templates |-> Null], sub = [s \in SubFamilies |-> "none"],
           job = [w \in Workers |-> Idle]
    PROVE  IInv
<1>1. item = [i \in Items |-> Null] /\ ref = [k \in RefKeys |-> Null]
  BY DEF LegacyLinks
<1>2. \A i \in Items : RefsOf(i) = {}
  BY <1>1, KeyParts DEF RefsOf, Owners
<1> QED BY <1>1, <1>2, StartingInv DEF RefsCounted

LEMMA MigrationInitInv == MigrationInit => IInv
<1> SUFFICES ASSUME MigrationInit PROVE IInv
  OBVIOUS
<1>1. CASE Init
  BY <1>1, InitInv
<1>2. CASE LegacyStock /\ ~Init
  BY <1>2, LegacyStockInv DEF MigrationInit
<1>3. CASE LegacyLinks /\ ~Init
  BY <1>3, LegacyLinksInv DEF MigrationInit
<1> QED BY <1>1, <1>2, <1>3 DEF MigrationInit

LEMMA MigrationStep == [MigrationNext]_<<vars, mvars>> => [Next]_vars
BY DEF MigrationNext, CatalogueStep

\* Whatever rows a migration finds, and between any two of them, the items fit their
\* templates and the counts of their references are exact.
THEOREM CatalogueKept == MigrationSpec => [](ItemsFitTemplate /\ RefsCounted)
<1>1. IInv => ItemsFitTemplate /\ RefsCounted
  BY DEF IInv
<1>2. IInv /\ [MigrationNext]_<<vars, mvars>> => IInv'
  BY MigrationStep, NextInv
<1> QED BY <1>1, <1>2, MigrationInitInv, PTL DEF MigrationSpec

------------------------------------------------------------------------------
(* What the migrations make of the data *)

RowNames == [item : Items \cup {Null}, part : Owners \cup {Null}]

\* Rows keep to their columns,
MigrationTyped ==
    /\ revision \in {2, 3, 6, 9, 11, 12}
    /\ request \in RowNames /\ line \in RowNames
    /\ link \in [rows : SUBSET (Actions \X Tasks), action : [Tasks -> Actions \cup {Null}],
                 task : [Actions -> Tasks \cup {Null}]]
    /\ demand \in [intervention : Interventions \cup {Null}, actions : SUBSET Actions,
                   on : [Actions -> Interventions \cup {Null}]]

\* and each revision has what its migrations left: links in one of the two forms, no
\* part before 009, no part in stock that a request names without its item before 011,
\* no line of a part alone before 012.
Revised ==
    /\ revision = 2 => link.rows = {}
    /\ revision > 2 => /\ \A t \in Tasks : link.action[t] = Null
                       /\ \A a \in Actions : link.task[a] = Null
    /\ revision <= 6 => request.part = Null /\ line.part = Null
    /\ revision <= 9 => (request.item = Null => request.part \notin Stock)
    /\ revision <= 11 => (line.item = Null => line.part = Null)

MInv == IInv /\ MigrationTyped /\ Revised

LEMMA NullIsNoId ==
    /\ Null \notin Items /\ Null \notin Owners /\ Null \notin Actions /\ Null \notin Tasks
    /\ Null \notin Interventions /\ Items \subseteq Owners /\ Stock \subseteq Items
BY CatalogueAssumption, MigrationsAssumption DEF Owners, Stock

\* A row that names one thing names its item or its part, and not another one.
LEMMA NamesOne ==
    ASSUME NEW row \in RowNames, Cardinality(Named(row)) = 1, Named(row) \subseteq Stock
    PROVE  \E x \in Stock : Named(row) = {x}
<1>1. IsFiniteSet({row.item, row.part})
  <2>1. {row.item, row.part} = {row.item} \cup {row.part}
    OBVIOUS
  <2>2. IsFiniteSet({row.item}) /\ IsFiniteSet({row.part})
    BY FS_Singleton
  <2>3. IsFiniteSet({row.item} \cup {row.part})
    BY <2>2, FS_Union
  <2> QED BY <2>1, <2>3
<1>2. IsFiniteSet(Named(row))
  BY <1>1, FS_Subset DEF Named
<1> QED BY <1>2, FS_Singleton

\* What changes in a row whose one name stays
LEMMA SameName ==
    ASSUME NEW row \in RowNames, NEW new,
           \A x \in Stock : Named(row) = {x} => Named(new) = {x}
    PROVE  KeepsName(row, new)
BY NamesOne DEF KeepsName

LEMMA RowUnchanged == ASSUME NEW row PROVE KeepsName(row, row)
BY DEF KeepsName

LEMMA HasMin ==
    ASSUME NEW S \in SUBSET Nat, S # {}
    PROVE  Min(S) \in S
<1> DEFINE R == {ss \in Nat \X Nat : ss[1] < ss[2]}
<1>1. IsWellFoundedOn(R, Nat)
  BY NatLessThanWellFounded DEF OpToRel
<1> HIDE DEF R
<1>2. PICK m \in S : \A y \in S : <<y, m>> \notin R
  BY <1>1, WFMin
<1>3. ASSUME NEW y \in S PROVE m <= y
  <2>1. <<y, m>> \in Nat \X Nat /\ <<y, m>>[1] = y /\ <<y, m>>[2] = m
    OBVIOUS
  <2> QED BY <1>2, <2>1 DEF R
<1> QED BY <1>2, <1>3 DEF Min

------------------------------------------------------------------------------
(* 009 *)

\* The makers of an item, and the ones it prefers
LEMMA MakersOf ==
    ASSUME NEW i \in Items
    PROVE  /\ Known(i) # {} /\ Marked(i) \subseteq Known(i)
           /\ maker[i] # Null => Marked(i) = {KeyOf(maker[i])}
           /\ \A s \in Elect(i) : \E key \in Known(i) : s = {key}
           /\ maker[i] # Null => \A s \in Elect(i) : s = {KeyOf(maker[i])}
           /\ \A k \in Rows : k[1] = i /\ maker[k] # Null => KeyOf(maker[k]) \in Known(i)
<1>1. Known(i) # {} /\ Marked(i) \subseteq Known(i)
  BY DEF Known, Marked
<1>2. maker[i] # Null => Marked(i) = {KeyOf(maker[i])}
  BY DEF Marked, Direct
<1>3. \A s \in Elect(i) : \E key \in Known(i) : s = {key}
  BY <1>1 DEF Elect
<1>4. maker[i] # Null => \A s \in Elect(i) : s = {KeyOf(maker[i])}
  BY <1>2 DEF Elect
<1>5. \A k \in Rows : k[1] = i /\ maker[k] # Null => KeyOf(maker[k]) \in ViaRefs(i)
  BY DEF ViaRefs
<1>6. ViaRefs(i) \subseteq Known(i)
  BY DEF Known
<1> QED BY <1>1, <1>2, <1>3, <1>4, <1>5, <1>6

\* Every supplier reference of an item belongs to an item that is there.
LEMMA RowsInStock ==
    ASSUME IInv, NEW k \in Rows
    PROVE  k[1] \in Stock
<1>1. k \in Owners \X Sources /\ k[1] \in Items /\ k[2] \in Sources /\ ref[k] # Null
  BY DEF Rows, RefKeys
<1>2. k = <<k[1], k[2]>>
  BY <1>1
<1>3. RefsOf(k[1]) # {}
  BY <1>1, <1>2 DEF RefsOf
<1> QED BY <1>1, <1>3 DEF IInv, RefsCounted, Stock

LEMMA RowsFinite == IsFiniteSet(Rows)
<1>1. IsFiniteSet(Items \X Sources)
  BY CatalogueAssumption, MigrationsAssumption, FS_Product
<1>2. Rows \subseteq Items \X Sources
  BY DEF Rows, RefKeys
<1> QED BY <1>1, <1>2, FS_Subset

\* The parts that 009 makes of the stock
Makes(made, chosen) ==
    /\ chosen \in [Stock -> UNION {Elect(i) : i \in Stock}]
    /\ \A i \in Stock : chosen[i] \in Elect(i)
    /\ made = [o \in Owners |-> IF o \notin Stock THEN Null
                                ELSE [known |-> Known(o), preferred |-> chosen[o]]]

LEMMA MadeParts ==
    ASSUME IInv, NEW made, NEW chosen, Makes(made, chosen)
    PROVE  \A i \in Stock : /\ made[i].known = Known(i)
                            /\ \E key \in Known(i) : made[i].preferred = {key}
                            /\ maker[i] # Null => made[i].preferred = {KeyOf(maker[i])}
<1> SUFFICES ASSUME NEW i \in Stock
             PROVE  /\ made[i].known = Known(i)
                    /\ \E key \in Known(i) : made[i].preferred = {key}
                    /\ maker[i] # Null => made[i].preferred = {KeyOf(maker[i])}
  OBVIOUS
<1>1. i \in Items /\ i \in Owners
  BY NullIsNoId
<1>2. made[i] = [known |-> Known(i), preferred |-> chosen[i]] /\ chosen[i] \in Elect(i)
  BY <1>1 DEF Makes
<1> QED BY <1>1, <1>2, MakersOf

LEMMA MadePreferred ==
    ASSUME IInv, NEW made, NEW chosen, Makes(made, chosen)
    PROVE  \A i \in Stock : /\ made[i].known # {}
                            /\ Cardinality(made[i].preferred) = 1
                            /\ made[i].preferred \subseteq made[i].known
                            /\ maker[i] # Null => made[i].preferred = {KeyOf(maker[i])}
<1> SUFFICES ASSUME NEW i \in Stock
             PROVE  /\ made[i].known # {}
                    /\ Cardinality(made[i].preferred) = 1
                    /\ made[i].preferred \subseteq made[i].known
                    /\ maker[i] # Null => made[i].preferred = {KeyOf(maker[i])}
  OBVIOUS
<1>1. PICK key \in Known(i) : made[i].preferred = {key}
  BY MadeParts
<1>2. made[i].known = Known(i) /\ (maker[i] # Null => made[i].preferred = {KeyOf(maker[i])})
  BY MadeParts
<1>3. Cardinality({key}) = 1
  BY FS_Singleton
<1> QED BY <1>1, <1>2, <1>3

\* The key of the one reference that a row becomes
KeyFor(made, k) ==
    IF maker[k] # Null THEN KeyOf(maker[k]) ELSE CHOOSE key \in made[k[1]].preferred : TRUE

LEMMA MadeRefs ==
    ASSUME IInv, NEW made, NEW chosen, Makes(made, chosen)
    PROVE  /\ PartRefs(made) = {[row |-> k, key |-> KeyFor(made, k), preferred |-> ref[k]] :
                                   k \in Rows}
           /\ \A k \in Rows : /\ KeyFor(made, k) \in made[k[1]].known
                              /\ maker[k] # Null => KeyFor(made, k) = KeyOf(maker[k])
<1> DEFINE Keys(k) == IF maker[k] # Null THEN made[k[1]].known \cap {KeyOf(maker[k])}
                      ELSE made[k[1]].preferred
<1>1. ASSUME NEW k \in Rows
      PROVE  /\ Keys(k) = {KeyFor(made, k)} /\ KeyFor(made, k) \in made[k[1]].known
             /\ maker[k] # Null => KeyFor(made, k) = KeyOf(maker[k])
  <2>1. k[1] \in Stock /\ k[1] \in Items
    BY RowsInStock, NullIsNoId
  <2>2. /\ made[k[1]].known = Known(k[1])
        /\ \E key \in Known(k[1]) : made[k[1]].preferred = {key}
    BY <2>1, MadeParts
  <2>3. CASE maker[k] # Null
    <3>1. KeyOf(maker[k]) \in Known(k[1])
      BY <2>1, <2>3, MakersOf
    <3> QED BY <2>2, <2>3, <3>1 DEF KeyFor
  <2>4. CASE maker[k] = Null
    <3>1. PICK key \in Known(k[1]) : made[k[1]].preferred = {key}
      BY <2>2
    <3>2. KeyFor(made, k) = key
      BY <2>4, <3>1 DEF KeyFor
    <3> QED BY <2>2, <2>4, <3>1, <3>2
  <2> QED BY <2>3, <2>4
<1>2. PartRefs(made) = UNION {{[row |-> k, key |-> key, preferred |-> ref[k]] : key \in Keys(k)} :
                                 k \in Rows}
  BY DEF PartRefs
<1> HIDE DEF Keys
<1>3. ASSUME NEW k \in Rows
      PROVE  {[row |-> k, key |-> key, preferred |-> ref[k]] : key \in Keys(k)}
                 = {[row |-> k, key |-> KeyFor(made, k), preferred |-> ref[k]]}
  BY <1>1
<1>4. ASSUME NEW x
      PROVE  x \in PartRefs(made) <=>
                 \E k \in Rows : x = [row |-> k, key |-> KeyFor(made, k), preferred |-> ref[k]]
  BY <1>2, <1>3
<1> QED BY <1>1, <1>4

\* Nothing but a flag that is NULL makes 009 refuse the parts it has made.
LEMMA RefusedForFlag ==
    ASSUME IInv, NEW made, NEW chosen, Makes(made, chosen),
           ~ Accepted(made, PartRefs(made))
    PROVE  unset \cap Rows # {}
<1> DEFINE refs == PartRefs(made)
           rowsOf == {r.row : r \in refs}
           f == [k \in Rows |-> [row |-> k, key |-> KeyFor(made, k), preferred |-> ref[k]]]
<1>0. refs = {[row |-> k, key |-> KeyFor(made, k), preferred |-> ref[k]] : k \in Rows}
  BY MadeRefs
<1>1. \A i \in Stock : made[i].known # {} /\ Cardinality(made[i].preferred) = 1
  BY MadePreferred
<1> HIDE DEF refs
<1>2. rowsOf = Rows
  <2>1. \A r \in refs : r.row \in Rows
    BY <1>0
  <2>2. ASSUME NEW k \in Rows PROVE \E r \in refs : r.row = k
    <3>1. [row |-> k, key |-> KeyFor(made, k), preferred |-> ref[k]] \in refs
      BY <1>0
    <3> QED BY <3>1
  <2> QED BY <2>1, <2>2
<1>3. f \in Bijection(Rows, refs)
  <2>1. f \in [Rows -> refs]
    BY <1>0
  <2>2. \A x, y \in Rows : f[x] = f[y] => x = y
    <3> SUFFICES ASSUME NEW x \in Rows, NEW y \in Rows, f[x] = f[y] PROVE x = y
      OBVIOUS
    <3>1. f[x].row = x /\ f[y].row = y
      OBVIOUS
    <3> QED BY <3>1
  <2>3. \A r \in refs : \E k \in Rows : f[k] = r
    BY <1>0
  <2> HIDE DEF f
  <2> QED BY <2>1, <2>2, <2>3 DEF Bijection, Injection, Surjection, IsInjective
<1>4. Cardinality(refs) = Cardinality(Rows)
  BY <1>3, RowsFinite, FS_Bijection DEF ExistsBijection
<1> HIDE DEF rowsOf
<1>5. unset \cap rowsOf # {}
  BY <1>1, <1>2, <1>4 DEF Accepted, refs, rowsOf
<1> QED BY <1>2, <1>5

LEMMA PartsMade ==
    ASSUME IInv, NEW made, NEW chosen, Makes(made, chosen),
           UNCHANGED <<vars, stocked>>, part' = made, partref' = PartRefs(made)
    PROVE  PartsComplete'
<1> DEFINE refs == {[row |-> k, key |-> KeyFor(made, k), preferred |-> ref[k]] : k \in Rows}
<1>1. /\ item' = item /\ ref' = ref /\ maker' = maker /\ same' = same
      /\ Stock' = Stock /\ Rows' = Rows
  BY DEF vars, stock, references, stocked, Stock, Rows
<1>2. \A i \in Stock : /\ Cardinality(made[i].preferred) = 1
                       /\ made[i].preferred \subseteq made[i].known
                       /\ maker[i] # Null => made[i].preferred = {KeyOf(maker[i])}
  BY MadePreferred
<1>3. /\ partref' = refs
      /\ \A k \in Rows : /\ KeyFor(made, k) \in made[k[1]].known
                         /\ maker[k] # Null => KeyFor(made, k) = KeyOf(maker[k])
  BY MadeRefs
<1>4. ASSUME NEW k \in Rows PROVE Cardinality({r \in refs : r.row = k}) = 1
  <2>1. {r \in refs : r.row = k}
            = {[row |-> k, key |-> KeyFor(made, k), preferred |-> ref[k]]}
    OBVIOUS
  <2> QED BY <2>1, FS_Singleton
<1>5. \A r \in refs : /\ r.row \in Rows /\ r.preferred = ref[r.row]
                      /\ r.key \in made[r.row[1]].known
                      /\ maker[r.row] # Null => r.key = KeyOf(maker[r.row])
  BY <1>3
<1> HIDE DEF refs
<1>6. \A i \in Stock' : /\ Cardinality(part'[i].preferred) = 1
                        /\ part'[i].preferred \subseteq part'[i].known
                        /\ maker'[i] # Null => part'[i].preferred = {KeyOf(maker[i])'}
  BY <1>1, <1>2, Zenon DEF KeyOf
<1>7. \A k \in Rows' : Cardinality({r \in partref' : r.row = k}) = 1
  BY <1>1, <1>3, <1>4
<1>8. \A r \in partref' : /\ r.row \in Rows' /\ r.preferred = ref'[r.row]
                          /\ r.key \in part'[r.row[1]].known
                          /\ maker'[r.row] # Null => r.key = KeyOf(maker[r.row])'
  BY <1>1, <1>3, <1>5 DEF KeyOf
<1> QED BY <1>6, <1>7, <1>8 DEF PartsComplete

------------------------------------------------------------------------------
(* One step *)

\* What a step does to the two rows and their stock, when it is no migration of them.
LEMMA StockKept == item' = item => Stock' = Stock
BY DEF Stock

\* Upgrade009
LEMMA Upgrade009Inv ==
    ASSUME MInv, Upgrade009, UNCHANGED <<vars, writes>>
    PROVE  KeepsData /\ MigrationTyped' /\ Revised'
<1>1. /\ revision = 6 /\ item' = item /\ request.part = Null /\ line.part = Null
      /\ request \in RowNames /\ line \in RowNames
      /\ maker' = maker /\ same' = same /\ unset' = unset /\ link' = link /\ demand' = demand
  BY DEF Upgrade009, stocked, linked, vars, stock, MInv, Revised, MigrationTyped
<1>2. PICK chosen \in [Stock -> UNION {Elect(i) : i \in Stock}] :
        /\ \A i \in Stock : chosen[i] \in Elect(i)
        /\ LET made == [o \in Owners |-> IF o \notin Stock THEN Null
                            ELSE [known |-> Known(o), preferred |-> chosen[o]]]
               refs == PartRefs(made)
           IN IF Accepted(made, refs)
              THEN /\ part' = made /\ partref' = refs
                   /\ request' = [request EXCEPT !.part = request.item]
                   /\ line' = [line EXCEPT !.part = line.item]
                   /\ revision' = 9 /\ UNCHANGED refused
              ELSE refused' = TRUE /\ UNCHANGED <<part, partref, request, line, revision>>
  BY DEF Upgrade009, MakeParts
<1> DEFINE made == [o \in Owners |-> IF o \notin Stock THEN Null
                        ELSE [known |-> Known(o), preferred |-> chosen[o]]]
<1>3. Makes(made, chosen)
  BY <1>2 DEF Makes
<1>4. IF Accepted(made, PartRefs(made))
      THEN /\ part' = made /\ partref' = PartRefs(made)
           /\ request' = [request EXCEPT !.part = request.item]
           /\ line' = [line EXCEPT !.part = line.item]
           /\ revision' = 9 /\ UNCHANGED refused
      ELSE refused' = TRUE /\ UNCHANGED <<part, partref, request, line, revision>>
  BY <1>2
<1> HIDE DEF made
<1>5. CASE Accepted(made, PartRefs(made))
  <2>1. PartsComplete'
    BY <1>1, <1>3, <1>4, <1>5, PartsMade DEF MInv, stocked
  <2>2. ASSUME NEW row \in RowNames, row.part = Null
        PROVE  /\ KeepsName(row, [row EXCEPT !.part = row.item])
               /\ [row EXCEPT !.part = row.item] \in RowNames
    <3>1. /\ [row EXCEPT !.part = row.item] \in RowNames
          /\ [row EXCEPT !.part = row.item].item = row.item
          /\ [row EXCEPT !.part = row.item].part = row.item
      BY NullIsNoId DEF RowNames
    <3>2. Named([row EXCEPT !.part = row.item]) = Named(row)
      BY <2>2, <3>1 DEF Named
    <3> QED BY <3>1, <3>2 DEF KeepsName
  <2>3. /\ KeepsName(request, request') /\ KeepsName(line, line')
        /\ request' \in RowNames /\ line' \in RowNames
    BY <1>1, <1>4, <1>5, <2>2
  <2>4. /\ request'.part = request'.item /\ line'.part = line'.item
    BY <1>1, <1>4, <1>5 DEF RowNames
  <2>5. Stock' = Stock
    BY <1>1, StockKept
  <2>6. KeepsData
    BY <1>1, <1>4, <1>5, <2>1, <2>3 DEF KeepsData, Pairs
  <2>7. MigrationTyped'
    BY <1>1, <1>4, <1>5, <2>3 DEF MInv, MigrationTyped
  <2>8. Revised'
    BY <1>1, <1>4, <1>5, <2>4, <2>5, NullIsNoId DEF MInv, Revised
  <2> QED BY <2>6, <2>7, <2>8
<1>6. CASE ~ Accepted(made, PartRefs(made))
  <2>1. unset \cap Rows # {}
    BY <1>3, <1>6, RefusedForFlag DEF MInv
  <2>2. /\ request' = request /\ line' = line /\ revision' = revision
    BY <1>4, <1>6
  <2>3. KeepsData
    BY <1>1, <2>1, <2>2 DEF KeepsData, Head
  <2>4. MigrationTyped' /\ Revised'
    BY <1>1, <2>2, StockKept DEF MInv, MigrationTyped, Revised
  <2> QED BY <2>3, <2>4
<1> QED BY <1>5, <1>6

LEMMA Downgrade009Inv ==
    ASSUME MInv, Downgrade009, UNCHANGED <<vars, writes>>
    PROVE  KeepsData /\ MigrationTyped' /\ Revised'
<1>1. /\ revision = 9 /\ revision' = 6 /\ refused' = refused /\ item' = item
      /\ request \in RowNames /\ line \in RowNames
      /\ request.item = Null => request.part \notin Stock
      /\ line.item = Null => line.part = Null
      /\ request' = [request EXCEPT !.part = Null] /\ line' = [line EXCEPT !.part = Null]
      /\ link' = link /\ demand' = demand
  BY DEF Downgrade009, DropParts, stocked, linked, vars, stock, MInv, Revised, MigrationTyped
<1>2. ASSUME NEW row \in RowNames, row.item = Null => row.part \notin Stock
      PROVE  /\ KeepsName(row, [row EXCEPT !.part = Null])
             /\ [row EXCEPT !.part = Null] \in RowNames
             /\ [row EXCEPT !.part = Null].part = Null
  <2>1. /\ [row EXCEPT !.part = Null] \in RowNames
        /\ [row EXCEPT !.part = Null].item = row.item
        /\ [row EXCEPT !.part = Null].part = Null
    BY DEF RowNames
  <2>2. ASSUME NEW x \in Stock, Named(row) = {x}
        PROVE  Named([row EXCEPT !.part = Null]) = {x}
    <3>1. x # Null
      BY NullIsNoId
    <3>2. row.item = x
      BY <1>2, <2>2, <3>1 DEF Named
    <3> QED BY <2>1, <3>1, <3>2 DEF Named
  <2> QED BY <2>1, <2>2, SameName
<1>3. /\ KeepsName(request, request') /\ KeepsName(line, line')
      /\ request' \in RowNames /\ line' \in RowNames /\ request'.part = Null /\ line'.part = Null
  BY <1>1, <1>2, NullIsNoId
<1>4. KeepsData
  BY <1>1, <1>3 DEF KeepsData
<1>5. MigrationTyped'
  BY <1>1, <1>3 DEF MInv, MigrationTyped
<1>6. Revised'
  BY <1>1, <1>3, NullIsNoId, StockKept DEF MInv, Revised
<1> QED BY <1>4, <1>5, <1>6

LEMMA Upgrade011Inv ==
    ASSUME MInv, Upgrade011, UNCHANGED <<vars, writes>>
    PROVE  KeepsData /\ MigrationTyped' /\ Revised'
<1>1. /\ revision = 9 /\ revision' = 11 /\ refused' = refused /\ item' = item
      /\ request \in RowNames /\ line \in RowNames /\ line' = line
      /\ link' = link /\ demand' = demand
  BY DEF Upgrade011, others, stocked, linked, parts, vars, stock, MInv, Revised, MigrationTyped
<1>2. KeepsName(request, request') /\ request' \in RowNames
  <2>1. CASE request' = request
    BY <1>1, <2>1, RowUnchanged
  <2>2. CASE /\ request.item # Null /\ request.part \in {Null, request.item}
             /\ request' = [item |-> Null, part |-> request.item]
    <3>1. request' \in RowNames /\ request'.item = Null /\ request'.part = request.item
      BY <1>1, <2>2, NullIsNoId DEF RowNames
    <3>2. Named(request') = Named(request)
      BY <2>2, <3>1 DEF Named
    <3> QED BY <3>1, <3>2 DEF KeepsName
  <2> QED BY <2>1, <2>2 DEF Upgrade011
<1>3. KeepsData
  BY <1>1, <1>2, RowUnchanged DEF KeepsData
<1>4. MigrationTyped'
  BY <1>1, <1>2 DEF MInv, MigrationTyped
<1>5. Revised'
  BY <1>1 DEF MInv, Revised
<1> QED BY <1>3, <1>4, <1>5

LEMMA Downgrade011Inv ==
    ASSUME MInv, Downgrade011, UNCHANGED <<vars, writes>>
    PROVE  KeepsData /\ MigrationTyped' /\ Revised'
<1>1. /\ revision = 11 /\ revision' = 9 /\ refused' = refused /\ item' = item
      /\ request \in RowNames /\ line \in RowNames /\ line' = line
      /\ link' = link /\ demand' = demand
  BY DEF Downgrade011, others, stocked, linked, parts, vars, stock, MInv, Revised, MigrationTyped
<1>2. /\ KeepsName(request, request') /\ request' \in RowNames
      /\ request'.item = Null => request'.part \notin Stock
  <2>1. CASE request' = request /\ ~ (request.item = Null /\ request.part \in Stock)
    BY <1>1, <2>1, RowUnchanged
  <2>2. CASE /\ request.item = Null /\ request.part \in Stock
             /\ request' = [item |-> request.part, part |-> Null]
    <3>1. request' \in RowNames /\ request'.item = request.part /\ request'.part = Null
      BY <1>1, <2>2, NullIsNoId DEF RowNames
    <3>2. Named(request') = Named(request)
      BY <2>2, <3>1 DEF Named
    <3> QED BY <3>1, <3>2, NullIsNoId DEF KeepsName
  <2> QED BY <2>1, <2>2 DEF Downgrade011
<1>3. KeepsData
  BY <1>1, <1>2, RowUnchanged DEF KeepsData
<1>4. MigrationTyped'
  BY <1>1, <1>2 DEF MInv, MigrationTyped
<1>5. Revised'
  BY <1>1, <1>2, StockKept DEF MInv, Revised
<1> QED BY <1>3, <1>4, <1>5

LEMMA LinesInv ==
    ASSUME MInv, Upgrade012 \/ Downgrade012, UNCHANGED <<vars, writes>>
    PROVE  KeepsData /\ MigrationTyped' /\ Revised'
<1>1. /\ revision \in {11, 12} /\ revision' \in {11, 12} /\ item' = item
      /\ request' = request /\ line' = line /\ link' = link /\ demand' = demand
      /\ revision' = 11 => (line.item = Null => line.part = Null)
      /\ refused' # refused => revision = 12 /\ line.item = Null
  BY DEF Upgrade012, Downgrade012, others, stocked, linked, parts, vars, stock, MInv
<1>2. KeepsData
  BY <1>1, RowUnchanged DEF KeepsData, Head
<1>3. MigrationTyped'
  BY <1>1 DEF MInv, MigrationTyped
<1>4. Revised'
  BY <1>1 DEF MInv, Revised
<1> QED BY <1>2, <1>3, <1>4

\* A finite set of naturals has a greatest one: a smallest set without would become one
\* with, were one element taken out.
LEMMA FiniteMax ==
    ASSUME NEW S \in SUBSET Nat, S # {}, IsFiniteSet(S)
    PROVE  Max(S) \in S
<1> DEFINE Top(U) == \E x \in U : \A y \in U : x >= y
           Bad == {n \in Nat : \E U \in SUBSET Nat :
                       U # {} /\ IsFiniteSet(U) /\ Cardinality(U) = n /\ ~ Top(U)}
           R == {ss \in Nat \X Nat : ss[1] < ss[2]}
<1>1. IsWellFoundedOn(R, Nat)
  BY NatLessThanWellFounded DEF OpToRel
<1>2. ASSUME Bad # {} PROVE FALSE
  <2> HIDE DEF R, Bad
  <2>1. Bad \subseteq Nat
    BY DEF Bad
  <2>2. PICK n \in Bad : \A m \in Bad : <<m, n>> \notin R
    BY <1>1, <1>2, <2>1, WFMin
  <2> HIDE DEF Top
  <2>3. PICK U \in SUBSET Nat : U # {} /\ IsFiniteSet(U) /\ Cardinality(U) = n /\ ~ Top(U)
    BY <2>2 DEF Bad
  <2>4. PICK x \in U : TRUE
    BY <2>3
  <2>5. /\ IsFiniteSet(U \ {x}) /\ Cardinality(U \ {x}) = n - 1
        /\ n \in Nat /\ n - 1 \in Nat /\ n - 1 < n
    <3>1. IsFiniteSet(U \ {x}) /\ Cardinality(U \ {x}) = n - 1
      BY <2>3, <2>4, FS_RemoveElement
    <3>2. n \in Nat /\ n - 1 \in Nat
      BY <2>3, <3>1, FS_CardinalityType
    <3> QED BY <3>1, <3>2
  <2>6. n - 1 \notin Bad
    <3>1. <<n - 1, n>> \in Nat \X Nat /\ <<n - 1, n>>[1] = n - 1 /\ <<n - 1, n>>[2] = n
      BY <2>5
    <3> QED BY <2>2, <2>5, <3>1 DEF R
  <2>7. U \ {x} = {} \/ Top(U \ {x})
    BY <2>5, <2>6 DEF Bad
  <2>8. CASE U \ {x} = {}
    <3>1. \A y \in U : x >= y
      BY <2>8
    <3> QED BY <2>3, <3>1 DEF Top
  <2>9. CASE Top(U \ {x})
    <3>1. PICK z \in U \ {x} : \A y \in U \ {x} : z >= y
      BY <2>9 DEF Top
    <3>2. CASE x >= z
      <4>1. \A y \in U : x >= y
        BY <2>3, <3>1, <3>2
      <4> QED BY <2>3, <4>1 DEF Top
    <3>3. CASE ~ (x >= z)
      <4>1. \A y \in U : z >= y
        BY <2>3, <3>1, <3>3
      <4> QED BY <2>3, <3>1, <4>1 DEF Top
    <3> QED BY <3>2, <3>3
  <2> QED BY <2>7, <2>8, <2>9
<1>3. Cardinality(S) \in Nat
  BY FS_CardinalityType
<1>4. Top(S)
  BY <1>2, <1>3
<1> QED BY <1>4 DEF Max

\* A pair of either form
LEMMA InPairs ==
    ASSUME NEW l, NEW p
    PROVE  p \in Pairs(l) <=>
               \/ p \in l.rows
               \/ \E t \in Tasks : l.action[t] # Null /\ p = <<l.action[t], t>>
               \/ \E a \in Actions : l.task[a] # Null /\ p = <<a, l.task[a]>>
BY DEF Pairs

LEMMA Upgrade003Inv ==
    ASSUME MInv, Upgrade003, UNCHANGED <<vars, writes>>
    PROVE  KeepsData /\ MigrationTyped' /\ Revised'
<1>1. /\ revision = 2 /\ revision' = 3 /\ refused' = refused /\ item' = item
      /\ request' = request /\ line' = line /\ demand' = demand /\ link.rows = {}
      /\ link \in [rows : SUBSET (Actions \X Tasks), action : [Tasks -> Actions \cup {Null}],
                   task : [Actions -> Tasks \cup {Null}]]
      /\ link' = [rows |-> {<<link.action[t], t>> : t \in {u \in Tasks : link.action[u] # Null}}
                        \cup {<<a, link.task[a]>> : a \in {b \in Actions : link.task[b] # Null}},
                  action |-> [t \in Tasks |-> Null], task |-> [a \in Actions |-> Null]]
  BY DEF Upgrade003, others, stocked, vars, stock, MInv, Revised, MigrationTyped
<1>2. /\ link' \in [rows : SUBSET (Actions \X Tasks), action : [Tasks -> Actions \cup {Null}],
                    task : [Actions -> Tasks \cup {Null}]]
      /\ \A t \in Tasks : link'.action[t] = Null
      /\ \A a \in Actions : link'.task[a] = Null
      /\ link'.rows = Pairs(link)
  BY <1>1 DEF Pairs
<1>3. Pairs(link') = link'.rows
  BY <1>2 DEF Pairs
<1>4. KeepsData
  BY <1>1, <1>2, <1>3, RowUnchanged DEF KeepsData
<1>5. MigrationTyped'
  BY <1>1, <1>2 DEF MInv, MigrationTyped
<1>6. Revised'
  BY <1>1, <1>2, StockKept DEF MInv, Revised
<1> QED BY <1>4, <1>5, <1>6

LEMMA Downgrade003Inv ==
    ASSUME MInv, Downgrade003, UNCHANGED <<vars, writes>>
    PROVE  KeepsData /\ MigrationTyped' /\ Revised'
<1> DEFINE last == [t \in Tasks |-> IF LinksOf(t) = {} THEN Null ELSE Max(LinksOf(t))]
<1>1. /\ revision = 3 /\ revision' = 2 /\ refused' = refused /\ item' = item
      /\ request' = request /\ line' = line /\ demand' = demand
      /\ \A t \in Tasks : link.action[t] = Null
      /\ \A a \in Actions : link.task[a] = Null
      /\ link.rows \subseteq Actions \X Tasks
      /\ link' = [rows |-> {}, action |-> last, task |-> [a \in Actions |-> Null]]
  BY DEF Downgrade003, others, stocked, vars, stock, MInv, Revised, MigrationTyped
<1>2. ASSUME NEW t \in Tasks
      PROVE  /\ LinksOf(t) # {} => last[t] \in Actions /\ <<last[t], t>> \in link.rows
             /\ LinksOf(t) = {} => last[t] = Null
  <2>1. CASE LinksOf(t) # {}
    <3>1. LinksOf(t) \in SUBSET Nat /\ LinksOf(t) \subseteq Actions
             /\ IsFiniteSet(LinksOf(t))
      BY MigrationsAssumption, FS_Subset DEF LinksOf
    <3>2. Max(LinksOf(t)) \in LinksOf(t)
      BY <2>1, <3>1, FiniteMax
    <3> QED BY <2>1, <3>1, <3>2 DEF LinksOf
  <2> QED BY <2>1
<1> HIDE DEF last
<1>3. last \in [Tasks -> Actions \cup {Null}]
  <2>1. \A t \in Tasks : last[t] \in Actions \cup {Null}
    BY <1>2
  <2> QED BY <2>1 DEF last
<1>4. /\ link'.rows = {} /\ link'.action = last /\ \A a \in Actions : link'.task[a] = Null
      /\ link' \in [rows : SUBSET (Actions \X Tasks), action : [Tasks -> Actions \cup {Null}],
                    task : [Actions -> Tasks \cup {Null}]]
  BY <1>1, <1>3
<1>5. Pairs(link) = link.rows
  BY <1>1 DEF Pairs
<1>6. ASSUME NEW p \in Pairs(link')
      PROVE  p \in link.rows
  <2>1. PICK t \in Tasks : last[t] # Null /\ p = <<last[t], t>>
    BY <1>4, InPairs
  <2> QED BY <1>2, <2>1
<1>7. ASSUME NEW p \in link.rows
      PROVE  \E q \in Pairs(link') : q[2] = p[2]
  <2>1. p = <<p[1], p[2]>> /\ p[1] \in Actions /\ p[2] \in Tasks
    BY <1>1
  <2>2. p[1] \in LinksOf(p[2])
    BY <2>1 DEF LinksOf
  <2>3. last[p[2]] # Null
    BY <1>2, <2>1, <2>2, NullIsNoId
  <2>4. <<last[p[2]], p[2]>> \in Pairs(link')
    BY <1>4, <2>1, <2>3, InPairs
  <2> QED BY <2>4
<1>8. {p[2] : p \in Pairs(link')} = {p[2] : p \in Pairs(link)}
  BY <1>5, <1>6, <1>7
<1>9. KeepsData
  <2>1. Pairs(link') \subseteq Pairs(link)
    BY <1>5, <1>6
  <2>2. /\ refused' = refused /\ ~ (revision = 6) /\ ~ (revision' > revision)
        /\ KeepsName(request, request') /\ KeepsName(line, line')
        /\ ~ (demand.intervention # Null /\ demand'.intervention = Null)
    BY <1>1, RowUnchanged
  <2> QED BY <1>8, <2>1, <2>2, Zenon DEF KeepsData
<1>10. MigrationTyped'
  BY <1>1, <1>4 DEF MInv, MigrationTyped
<1>11. Revised'
  BY <1>1, <1>4, StockKept DEF MInv, Revised
<1> QED BY <1>9, <1>10, <1>11

LEMMA DemandInv ==
    ASSUME MInv, Upgrade006 \/ Downgrade006, UNCHANGED <<vars, writes>>
    PROVE  KeepsData /\ MigrationTyped' /\ Revised'
<1>1. /\ revision \in {3, 6} /\ revision' \in {3, 6} /\ refused' = refused /\ item' = item
      /\ request' = request /\ line' = line /\ link' = link
      /\ demand \in [intervention : Interventions \cup {Null}, actions : SUBSET Actions,
                     on : [Actions -> Interventions \cup {Null}]]
  BY DEF Upgrade006, Downgrade006, others, stocked, linked, vars, stock, MInv, MigrationTyped
<1> DEFINE own == ActionsOf(demand.intervention)
<1>2. /\ demand' \in [intervention : Interventions \cup {Null}, actions : SUBSET Actions,
                      on : [Actions -> Interventions \cup {Null}]]
      /\ demand.intervention # Null /\ demand'.intervention = Null =>
             demand'.actions \cap own # {} \/ own = {}
  <2>1. CASE demand' = demand
    BY <1>1, <2>1
  <2>2. CASE Upgrade006
    <3>1. own \in SUBSET Nat /\ own \subseteq Actions
      BY MigrationsAssumption DEF ActionsOf
    <3>2. own # {} => Min(own) \in own
      BY <3>1, HasMin
    <3>3. demand' = [demand EXCEPT !.intervention = Null,
                        !.actions = IF demand.intervention = Null \/ own = {}
                                       \/ demand.actions \cap own # {} THEN demand.actions
                                    ELSE demand.actions \cup {Min(own)}]
      BY <1>1, <2>2 DEF Upgrade006
    <3> HIDE DEF own
    <3> QED BY <1>1, <3>1, <3>2, <3>3
  <2> QED BY <2>1, <2>2 DEF Downgrade006, linked
<1>3. KeepsData
  BY <1>1, <1>2, RowUnchanged DEF KeepsData
<1>4. MigrationTyped'
  BY <1>1, <1>2 DEF MInv, MigrationTyped
<1>5. Revised'
  BY <1>1, StockKept DEF MInv, Revised
<1> QED BY <1>3, <1>4, <1>5

------------------------------------------------------------------------------
(* The application's writes, and every step *)

LEMMA WritesInv ==
    ASSUME MInv, revision = Head, UNCHANGED vars,
           \/ Requalify \/ ReplaceLine \/ \E p \in Parts : CreatePart(p)
           \/ \E a \in Actions, t \in Tasks : LinkTask(a, t)
    PROVE  KeepsData /\ MigrationTyped' /\ Revised'
<1>1. revision = 12 /\ revision' = 12 /\ refused' = refused /\ demand' = demand
  BY DEF Head, Requalify, ReplaceLine, CreatePart, LinkTask, linked, others
<1>2. PartRows \subseteq Owners /\ Stock \subseteq Items
  BY DEF PartRows, Stock
<1>3. request' \in RowNames /\ line' \in RowNames
  <2>1. request \in RowNames /\ line \in RowNames
    BY DEF MInv, MigrationTyped
  <2>2. CASE Requalify
    BY <1>2, <2>1, <2>2 DEF Requalify, RowNames
  <2>3. CASE ReplaceLine
    BY <1>2, <2>1, <2>3 DEF ReplaceLine, RowNames
  <2> QED BY <2>1, <2>2, <2>3 DEF CreatePart, LinkTask, others
<1>4. /\ link' \in [rows : SUBSET (Actions \X Tasks), action : [Tasks -> Actions \cup {Null}],
                    task : [Actions -> Tasks \cup {Null}]]
      /\ link'.action = link.action /\ link'.task = link.task
  <2>1. link \in [rows : SUBSET (Actions \X Tasks), action : [Tasks -> Actions \cup {Null}],
                  task : [Actions -> Tasks \cup {Null}]]
    BY DEF MInv, MigrationTyped
  <2>2. CASE \E a \in Actions, t \in Tasks : LinkTask(a, t)
    BY <2>1, <2>2 DEF LinkTask
  <2>3. CASE link' = link
    BY <2>1, <2>3
  <2> QED BY <2>2, <2>3 DEF Requalify, ReplaceLine, CreatePart, linked
<1>5. KeepsData
  BY <1>1 DEF KeepsData
<1>6. MigrationTyped'
  BY <1>1, <1>3, <1>4 DEF MInv, MigrationTyped
<1>7. Revised'
  BY <1>1, <1>4 DEF MInv, Revised
<1> QED BY <1>5, <1>6, <1>7

\* A call of the catalogue, at the last revision
LEMMA CatalogueStepInv ==
    ASSUME MInv, revision = Head, CatalogueStep
    PROVE  KeepsData /\ MigrationTyped' /\ Revised'
<1>1. /\ revision = 12 /\ revision' = 12 /\ refused' = refused
      /\ demand' = demand /\ link' = link /\ line' = line
      /\ request \in RowNames
  BY DEF Head, CatalogueStep, linked, MInv, MigrationTyped
<1>2. request' \in RowNames
  BY <1>1 DEF CatalogueStep, RowNames
<1>3. KeepsData
  BY <1>1 DEF KeepsData
<1>4. MigrationTyped'
  BY <1>1, <1>2 DEF MInv, MigrationTyped
<1>5. Revised'
  BY <1>1 DEF MInv, Revised
<1> QED BY <1>3, <1>4, <1>5

LEMMA LegacyRows ==
    ASSUME NEW name \in Items \cup {Null}
    PROVE  [item |-> name, part |-> Null] \in RowNames
BY NullIsNoId DEF RowNames

LEMMA NothingLinked ==
    /\ NoLinks \in [rows : SUBSET (Actions \X Tasks), action : [Tasks -> Actions \cup {Null}],
                    task : [Actions -> Tasks \cup {Null}]]
    /\ \A t \in Tasks : NoLinks.action[t] = Null
    /\ \A a \in Actions : NoLinks.task[a] = Null
    /\ NoDemand \in [intervention : Interventions \cup {Null}, actions : SUBSET Actions,
                     on : [Actions -> Interventions \cup {Null}]]
    /\ NoRow \in RowNames /\ NoRow.item = Null /\ NoRow.part = Null
BY NullIsNoId DEF NoLinks, NoDemand, NoRow, RowNames

LEMMA MigrationInitRevised == MigrationInit => MInv
<1> SUFFICES ASSUME MigrationInit PROVE MigrationTyped /\ Revised
  BY MigrationInitInv DEF MInv
<1>1. CASE /\ revision = Head /\ request = NoRow /\ line = NoRow
           /\ link = NoLinks /\ demand = NoDemand
  BY <1>1, NothingLinked DEF Head, MigrationTyped, Revised
<1>2. CASE LegacyStock
  <2>1. /\ revision = 6 /\ link = NoLinks /\ demand = NoDemand
        /\ request \in [item : Items \cup {Null}, part : {Null}]
        /\ line \in [item : Items \cup {Null}, part : {Null}]
    BY <1>2 DEF LegacyStock
  <2>2. /\ request \in RowNames /\ request.part = Null /\ Null \notin Stock
        /\ line \in RowNames /\ line.part = Null
    BY <2>1, NullIsNoId DEF RowNames
  <2> QED BY <2>1, <2>2, NothingLinked DEF MigrationTyped, Revised
<1>3. CASE LegacyLinks
  <2>1. /\ revision = 2 /\ request = NoRow /\ line = NoRow /\ link.rows = {}
        /\ link \in [rows : {{}}, action : [Tasks -> Actions \cup {Null}],
                     task : [Actions -> Tasks \cup {Null}]]
        /\ demand \in [intervention : Interventions \cup {Null}, actions : SUBSET Actions,
                       on : [Actions -> Interventions]]
    BY <1>3 DEF LegacyLinks
  <2>2. /\ link \in [rows : SUBSET (Actions \X Tasks), action : [Tasks -> Actions \cup {Null}],
                     task : [Actions -> Tasks \cup {Null}]]
        /\ demand \in [intervention : Interventions \cup {Null}, actions : SUBSET Actions,
                       on : [Actions -> Interventions \cup {Null}]]
    BY <2>1
  <2> QED BY <2>1, <2>2, NothingLinked, NullIsNoId DEF MigrationTyped, Revised
<1> QED BY <1>1, <1>2, <1>3 DEF MigrationInit, Empty

LEMMA MigrationNextInv == MInv /\ [MigrationNext]_<<vars, mvars>> => MInv' /\ [KeepsData]_mvars
<1> SUFFICES ASSUME MInv, [MigrationNext]_<<vars, mvars>> PROVE MInv' /\ [KeepsData]_mvars
  OBVIOUS
<1>1. IInv'
  BY MigrationStep, NextInv DEF MInv
<1>2. CASE revision = Head /\ CatalogueStep
  BY <1>1, <1>2, CatalogueStepInv DEF MInv
<1>3. CASE Migrate /\ UNCHANGED writes /\ UNCHANGED vars
  BY <1>1, <1>3, Upgrade003Inv, Downgrade003Inv, DemandInv, Upgrade009Inv, Downgrade009Inv,
     Upgrade011Inv, Downgrade011Inv, LinesInv DEF MInv, Migrate
<1>4. CASE Writes /\ UNCHANGED vars
  BY <1>1, <1>4, WritesInv DEF MInv, Writes
<1>5. CASE UNCHANGED <<vars, mvars>>
  <2>1. UNCHANGED mvars /\ Stock' = Stock
    BY <1>5 DEF vars, stock, Stock
  <2>2. MigrationTyped' /\ Revised'
    BY <2>1 DEF mvars, linked, MInv, MigrationTyped, Revised
  <2> QED BY <1>1, <2>1, <2>2 DEF MInv
<1> QED BY <1>2, <1>3, <1>4, <1>5 DEF MigrationNext

\* However much was written before and between them, the migrations make complete parts,
\* lose no name, no link and no demand, and are refused for nothing else than what the
\* schema forbids.
THEOREM MigrationsKeepData == MigrationSpec => MigrationsKeep
<1> QED BY MigrationInitRevised, MigrationNextInv, PTL DEF MigrationSpec, MigrationsKeep

==============================================================================

---------------------------------- MODULE Catalog ----------------------------------
(***************************************************************************)
(* Templates and their categories: TemplateService and the controller of   *)
(* the categories.  A slug is looked up with one query and written with    *)
(* another, and the categories of a template are replaced in a transaction *)
(* of several statements.  Unique indexes, foreign keys, row locks and the *)
(* snapshot of a statement are those of PostgreSQL at read committed.      *)
(***************************************************************************)
EXTENDS Integers, FiniteSets

CONSTANTS
  Templates, Categories,   \* ids
  Slugs,
  NoSlug, Deleted,         \* in place of the slug of a row not yet there or gone
  NoId,                    \* neither a template nor a category
  CatalogSlots             \* requests being served

\* The id of a row that is gone is never given again.
ASSUME CatalogAssumption ==
  /\ NoSlug # Deleted /\ {NoSlug, Deleted} \cap Slugs = {}
  /\ NoId \notin Templates \cup Categories

VARIABLES
  template, category,   \* the slug of a row
  links,        \* links[t]: the categories of a template
  locked,       \* templates whose row a transaction has updated
  editPc, edit, \* the step a slot takes next; its request, and the links its
                \* delete saw and deleted
  asked,        \* asked[t]: the categories the last transaction asked for (history)
  mingled       \* templates of which two transactions replaced the categories at
                \* once, one of them without updating the row (history)

slotVars == <<editPc, edit>>
catalogVars == <<template, category, links, locked, slotVars, asked, mingled>>

NoEdit == [id |-> NoId, slug |-> NoSlug, cats |-> {}, touches |-> FALSE, seen |-> {},
           deleted |-> {}]

CatalogTypeOK ==
  /\ template \in [Templates -> Slugs \cup {NoSlug, Deleted}]
  /\ category \in [Categories -> Slugs \cup {NoSlug, Deleted}]
  /\ links \in [Templates -> SUBSET Categories] /\ asked \in [Templates -> SUBSET Categories]
  /\ locked \subseteq Templates /\ mingled \subseteq Templates
  /\ editPc \in [CatalogSlots -> {"idle", "create", "row", "see", "delete", "insert",
                                  "category"}]
  /\ edit \in [CatalogSlots -> [id : Templates \cup Categories \cup {NoId},
                                slug : Slugs \cup {NoSlug}, cats : SUBSET Categories,
                                touches : BOOLEAN, seen : SUBSET Categories,
                                deleted : SUBSET Categories]]

CatalogInit ==
  /\ template = [t \in Templates |-> NoSlug] /\ category = [c \in Categories |-> NoSlug]
  /\ links = [t \in Templates |-> {}] /\ asked = [t \in Templates |-> {}]
  /\ locked = {} /\ mingled = {}
  /\ editPc = [s \in CatalogSlots |-> "idle"] /\ edit = [s \in CatalogSlots |-> NoEdit]

\* No other row than i has the slug.
Free(rows, i, slug) == \A j \in DOMAIN rows \ {i} : rows[j] # slug
Exists(rows, i) == rows[i] \in Slugs

EditStart(s, next, r) ==
  /\ editPc[s] = "idle"
  /\ editPc' = [editPc EXCEPT ![s] = next] /\ edit' = [edit EXCEPT ![s] = r]

EditDone(s) ==
  /\ editPc' = [editPc EXCEPT ![s] = "idle"] /\ edit' = [edit EXCEPT ![s] = NoEdit]
-------------------------------------------------------------------------------
(* Templates. *)

CheckNewTemplate(s, slug, cats) ==
  /\ Free(template, NoId, slug)
  /\ EditStart(s, "create", [NoEdit EXCEPT !.slug = slug, !.cats = cats])
  /\ UNCHANGED <<template, category, links, locked, asked, mingled>>

\* The row and its categories; a slug taken meanwhile or a category that does not
\* exist fails them all.
CreateTemplate(s, t) ==
  LET r == edit[s]
  IN /\ editPc[s] = "create" /\ template[t] = NoSlug
     /\ IF Free(template, t, r.slug) /\ \A c \in r.cats : Exists(category, c)
        THEN /\ template' = [template EXCEPT ![t] = r.slug]
             /\ links' = [links EXCEPT ![t] = r.cats] /\ asked' = [asked EXCEPT ![t] = r.cats]
        ELSE UNCHANGED <<template, links, asked>>
     /\ EditDone(s)
     /\ UNCHANGED <<category, locked, mingled>>

\* New categories, and a new slug or title besides or not.
CheckTemplate(s, t, slug, cats, touches) ==
  /\ Exists(template, t)
  /\ slug # template[t] => touches /\ Free(template, t, slug)
  /\ EditStart(s, "row", [NoEdit EXCEPT !.id = t, !.slug = slug, !.cats = cats,
                                        !.touches = touches])
  /\ UNCHANGED <<template, category, links, locked, asked, mingled>>

\* Mutant of UpdateRow: the row is updated before the transaction begins.
UpdateRowBefore(s) ==
  /\ editPc[s] = "row" /\ Exists(template, edit[s].id)
  /\ editPc' = [editPc EXCEPT ![s] = "see"]
  /\ UNCHANGED <<template, category, links, locked, edit, asked, mingled>>

\* The update that begins the transaction locks the row; given nothing to write
\* it only reads it.
UpdateRow(s) ==
  LET t == edit[s].id
  IN /\ editPc[s] = "row" /\ Exists(template, t)
     /\ edit[s].touches => t \notin locked
     /\ locked' = IF edit[s].touches THEN locked \cup {t} ELSE locked
     /\ editPc' = [editPc EXCEPT ![s] = "see"]
     /\ UNCHANGED <<template, category, links, edit, asked, mingled>>

\* Transactions that replace the categories of t.
Replacing(t) == {s \in CatalogSlots : editPc[s] \in {"delete", "insert"} /\ edit[s].id = t}

\* The delete sees the links there are when it starts,
SeeLinks(s) ==
  LET t == edit[s].id
  IN /\ editPc[s] = "see"
     /\ editPc' = [editPc EXCEPT ![s] = "delete"]
     /\ edit' = [edit EXCEPT ![s].seen = links[t]]
     /\ mingled' = IF \E r \in Replacing(t) : ~(edit[r].touches /\ edit[s].touches)
                   THEN mingled \cup {t} ELSE mingled
     /\ UNCHANGED <<template, category, links, locked, asked>>

\* The links another transaction deleted and may bring back.
HeldByOthers(s) ==
  UNION {edit[r].deleted : r \in Replacing(edit[s].id) \ {s}} \cap links[edit[s].id]

\* waits for those that another transaction is deleting, and deletes the rest.
DeleteLinks(s) ==
  LET r == edit[s]
  IN /\ editPc[s] = "delete"
     /\ r.seen \cap HeldByOthers(s) = {}
     /\ editPc' = [editPc EXCEPT ![s] = "insert"]
     /\ edit' = [edit EXCEPT ![s].deleted = r.seen \cap links[r.id]]
     /\ UNCHANGED <<template, category, links, locked, asked, mingled>>

\* The request ends.  The links it deleted are gone for every delete that saw them,
\* whoever inserts the same ones again: those are other rows.
LinksReplaced(s) ==
  /\ editPc' = [editPc EXCEPT ![s] = "idle"]
  /\ edit' = [o \in CatalogSlots |->
       IF o = s THEN NoEdit
       ELSE IF edit[o].id = edit[s].id THEN [edit[o] EXCEPT !.seen = @ \ edit[s].deleted]
       ELSE edit[o]]

Unlock(s) == locked' = IF edit[s].touches THEN locked \ {edit[s].id} ELSE locked

\* A link or a slug that is there already, and a row that is not, fail them all.
InsertLinks(s) ==
  LET r == edit[s]
      kept == links[r.id] \ r.deleted
      taken == r.cats \cap kept # {} \/ ~Free(template, r.id, r.slug)
      missing == (r.cats # {} /\ ~Exists(template, r.id)) \/ \E c \in r.cats : ~Exists(category, c)
  IN /\ editPc[s] = "insert"
     /\ (r.cats \cap kept) \cap HeldByOthers(s) = {}
     /\ IF taken \/ missing THEN UNCHANGED <<template, links, asked>> /\ EditDone(s)
        ELSE /\ LinksReplaced(s)
             /\ template' = IF r.touches THEN [template EXCEPT ![r.id] = r.slug] ELSE template
             /\ links' = [links EXCEPT ![r.id] = kept \cup r.cats]
             /\ asked' = [asked EXCEPT ![r.id] = r.cats]
     /\ Unlock(s)
     /\ UNCHANGED <<category, mingled>>

\* A template with categories cannot be deleted.
DeleteTemplate(t) ==
  /\ Exists(template, t) /\ t \notin locked /\ links[t] = {}
  /\ template' = [template EXCEPT ![t] = Deleted]
  /\ asked' = [asked EXCEPT ![t] = {}]
  /\ UNCHANGED <<category, links, locked, slotVars, mingled>>
-------------------------------------------------------------------------------
(* Categories. *)

CheckNewCategory(s, slug) ==
  /\ Free(category, NoId, slug)
  /\ EditStart(s, "category", [NoEdit EXCEPT !.slug = slug])
  /\ UNCHANGED <<template, category, links, locked, asked, mingled>>

CheckCategory(s, c, slug) ==
  /\ Exists(category, c) /\ Free(category, c, slug)
  /\ EditStart(s, "category", [NoEdit EXCEPT !.id = c, !.slug = slug])
  /\ UNCHANGED <<template, category, links, locked, asked, mingled>>

\* A slug taken meanwhile, or a category gone, fails.
WriteCategory(s, c) ==
  LET r == edit[s]
  IN /\ editPc[s] = "category"
     /\ IF r.id = NoId THEN category[c] = NoSlug ELSE c = r.id
     /\ category' = IF Free(category, c, r.slug) /\ category[c] # Deleted
                    THEN [category EXCEPT ![c] = r.slug] ELSE category
     /\ EditDone(s)
     /\ UNCHANGED <<template, links, locked, asked, mingled>>

\* A category of a template cannot be deleted.
DeleteCategory(c) ==
  /\ Exists(category, c) /\ \A t \in Templates : c \notin links[t]
  /\ category' = [category EXCEPT ![c] = Deleted]
  /\ UNCHANGED <<template, links, locked, slotVars, asked, mingled>>

\* A database error or a crash; the transaction leaves nothing.
CatalogAbort(s) ==
  /\ editPc[s] # "idle"
  /\ IF editPc[s] \in {"see", "delete", "insert"} THEN Unlock(s) ELSE UNCHANGED locked
  /\ EditDone(s)
  /\ UNCHANGED <<template, category, links, asked, mingled>>

CatalogNext ==
  \/ \E s \in CatalogSlots :
       \/ \E slug \in Slugs :
            \/ CheckNewCategory(s, slug)
            \/ \E c \in Categories : CheckCategory(s, c, slug)
            \/ \E cats \in SUBSET Categories :
                 \/ CheckNewTemplate(s, slug, cats)
                 \/ \E t \in Templates, touches \in BOOLEAN :
                      CheckTemplate(s, t, slug, cats, touches)
       \/ \E t \in Templates : CreateTemplate(s, t)
       \/ UpdateRow(s) \/ SeeLinks(s) \/ DeleteLinks(s) \/ InsertLinks(s)
       \/ \E c \in Categories : WriteCategory(s, c)
       \/ CatalogAbort(s)
  \/ \E t \in Templates : DeleteTemplate(t)
  \/ \E c \in Categories : DeleteCategory(c)

CatalogSpec == CatalogInit /\ [][CatalogNext]_catalogVars
-------------------------------------------------------------------------------
\* A template has the categories of the last request that changed them, all of
\* which exist; only two requests that replaced them at once, one of them without
\* another change to the template, leave a mixture.  Slugs name one row.
LinksAsAsked ==
  /\ \A t \in Templates :
       /\ t \in mingled \/ links[t] = asked[t]
       /\ \A c \in links[t] : Exists(template, t) /\ Exists(category, c)
  /\ \A t \in Templates : Exists(template, t) => Free(template, t, template[t])
  /\ \A c \in Categories : Exists(category, c) => Free(category, c, category[c])
===================================================================================

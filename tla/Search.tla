--------------------------------- MODULE Search ---------------------------------
(***************************************************************************)
(* The search (search.service.ts) as a client sees it who asks for one     *)
(* page after another until hasMore is false, while templates are          *)
(* published and withdrawn and designers come and go.  For each kind of    *)
(* row two statements run side by side: one reads the page, one counts.    *)
(***************************************************************************)
EXTENDS Integers, Sequences, FiniteSets

CONSTANTS
  MaxRows,      \* rows of a kind that could match the search
  Limits,       \* page sizes a client may ask for
  MaxPage,      \* the schema's greatest page number
  MaxChanges,   \* bound on the rows that come or go during a search
  CreatedAt     \* CreatedAt[r]: when row r was created

ASSUME SearchAssumption ==
  /\ MaxRows \in Nat /\ MaxPage \in Nat \ {0} /\ MaxChanges \in Nat
  /\ Limits \subseteq Nat \ {0}
  /\ \A r, s \in 1 .. MaxRows : r <= s => CreatedAt[r] <= CreatedAt[s]

Kinds == {"templates", "designers"}
Rows == 1 .. MaxRows     \* from the oldest to the newest
Types == {"all", "templates", "designers", "projects"}

VARIABLES
  matching,     \* of each kind the rows that meet the where clause
  search,       \* the request: type, limit and page; the kinds still to read, the
                \* statements of the first one still to run, the sum of the counts,
                \* the number of rows on the page, and the last answer's hasMore
  viewed,        \* rows the client has been shown
  stayed,       \* history: rows that matched ever since the client began
  slipped,      \* history: kinds of which a row went from among those passed, or of
                \* which a page cut rows of one time in another order
  pushed,       \* history: kinds of which a row came among those passed, or of which
                \* a page cut rows of one time in another order
  mixed,        \* history: kinds of which a row came between count and page
  fewer,        \* history: a row went
  again,        \* history: kinds of which a row was shown twice
  changes

searchVars == <<matching, search, viewed, stayed, slipped, pushed, mixed, fewer,
                again, changes>>

Sets == [Kinds -> SUBSET Rows]

SearchTypeOK ==
  /\ matching \in Sets /\ viewed \in Sets /\ stayed \in Sets
  /\ search.type \in Types /\ search.limit \in Limits /\ search.page \in 1 .. MaxPage
  /\ search.kinds \in Seq(Kinds) /\ search.left \subseteq {"items", "count"}
  /\ search.total \in Nat /\ search.rows \in Nat
  /\ search.answer \in {"none", "more", "last"}
  /\ slipped \subseteq Kinds /\ pushed \subseteq Kinds /\ mixed \subseteq Kinds
  /\ again \subseteq Kinds /\ fewer \in BOOLEAN /\ changes \in 0 .. MaxChanges
-------------------------------------------------------------------------------
\* The kinds in the order they are read.  The route attaches no user, so projects
\* are never searched.
Searched(type) ==
  CASE type = "all" -> <<"templates", "designers">>
    [] type = "projects" -> <<>>
    [] OTHER -> <<type>>

Ask(type, limit, page) ==
  [type |-> type, limit |-> limit, page |-> page, kinds |-> Searched(type),
   left |-> {"items", "count"}, total |-> 0, rows |-> 0, answer |-> "none"]

SearchInit ==
  /\ matching \in Sets
  /\ search \in {Ask(type, limit, 1) : type \in Types, limit \in Limits}
  /\ viewed = [k \in Kinds |-> {}] /\ stayed = matching
  /\ slipped = {} /\ pushed = {} /\ mixed = {} /\ again = {}
  /\ fewer = FALSE /\ changes = 0

\* Newest first: a row's place, and the rows of a page, were rows of one time in the
\* order of their numbers.
Place(k, r) == Cardinality({x \in matching[k] : x >= r})
Skip(req) == (req.page - 1) * req.limit
Page(k) ==
  {r \in matching[k] : Skip(search) < Place(k, r) /\ Place(k, r) <= Skip(search) + search.limit}

\* Nothing but createdAt orders the rows: of those created at one time a page has as
\* many as Page(k), and any of them.
Twins(k, r) == {x \in matching[k] : CreatedAt[x] = CreatedAt[r]}
Pages(k) ==
  {rows \in SUBSET matching[k] :
     \A r \in matching[k] :
       Cardinality(rows \cap Twins(k, r)) = Cardinality(Page(k) \cap Twins(k, r))}

Current(k) == search.kinds # <<>> /\ Head(search.kinds) = k

\* Both statements done: the next kind.
Ran(query, req) ==
  IF req.left = {query}
    THEN [req EXCEPT !.kinds = Tail(req.kinds), !.left = {"items", "count"}]
    ELSE [req EXCEPT !.left = req.left \ {query}]

ReadPage(k) ==
  /\ Current(k) /\ "items" \in search.left
  /\ \E rows \in Pages(k) :
       /\ search' = Ran("items", [search EXCEPT !.rows = search.rows + Cardinality(rows)])
       /\ viewed' = [viewed EXCEPT ![k] = viewed[k] \cup rows]
       /\ again' = IF viewed[k] \cap rows = {} THEN again ELSE again \cup {k}
       /\ IF rows = Page(k) THEN UNCHANGED <<slipped, pushed>>
          ELSE slipped' = slipped \cup {k} /\ pushed' = pushed \cup {k}
  /\ UNCHANGED <<matching, stayed, mixed, fewer, changes>>

\* Mutant of CountRows: the count replaces that of the kind before.
CountRowsAnew(k) ==
  /\ Current(k) /\ "count" \in search.left
  /\ search' = Ran("count", [search EXCEPT !.total = Cardinality(matching[k])])
  /\ UNCHANGED <<matching, viewed, stayed, slipped, pushed, mixed, fewer, again, changes>>

CountRows(k) ==
  /\ Current(k) /\ "count" \in search.left
  /\ search' = Ran("count", [search EXCEPT !.total = search.total + Cardinality(matching[k])])
  /\ UNCHANGED <<matching, viewed, stayed, slipped, pushed, mixed, fewer, again, changes>>

hasMore(req) == req.total > Skip(req) + req.limit

Answered == search.answer # "none"

Reply ==
  /\ search.kinds = <<>> /\ ~Answered
  /\ search' = [search EXCEPT !.answer = IF hasMore(search) THEN "more" ELSE "last"]
  /\ UNCHANGED <<matching, viewed, stayed, slipped, pushed, mixed, fewer, again, changes>>

NextPage ==
  /\ search.answer = "more" /\ search.page < MaxPage
  /\ search' = Ask(search.type, search.limit, search.page + 1)
  /\ mixed' = {}
  /\ UNCHANGED <<matching, viewed, stayed, slipped, pushed, fewer, again, changes>>
-------------------------------------------------------------------------------
(* Others change the rows: publish or withdraw a template, edit a profile. *)

\* r is among the rows the client has passed.
Passed(k, r) == \E s \in viewed[k] : s <= r
Changed == changes < MaxChanges /\ changes' = changes + 1

Comes(k, r) ==
  /\ Changed /\ r \notin matching[k]
  /\ matching' = [matching EXCEPT ![k] = matching[k] \cup {r}]
  /\ pushed' = IF Passed(k, r) THEN pushed \cup {k} ELSE pushed
  /\ mixed' = IF Current(k) /\ search.left = {"items"} THEN mixed \cup {k} ELSE mixed
  /\ UNCHANGED <<search, viewed, stayed, slipped, fewer, again>>

Goes(k, r) ==
  /\ Changed /\ r \in matching[k]
  /\ matching' = [matching EXCEPT ![k] = matching[k] \ {r}]
  /\ stayed' = [stayed EXCEPT ![k] = stayed[k] \ {r}]
  /\ slipped' = IF Passed(k, r) THEN slipped \cup {k} ELSE slipped
  /\ fewer' = TRUE
  /\ UNCHANGED <<search, viewed, pushed, mixed, again>>

SearchNext ==
  \/ \E k \in Kinds : ReadPage(k) \/ CountRows(k)
  \/ Reply \/ NextPage
  \/ \E k \in Kinds, r \in Rows : Comes(k, r) \/ Goes(k, r)

SearchSpec == SearchInit /\ [][SearchNext]_searchVars
-------------------------------------------------------------------------------
InSearched(k) == \E i \in DOMAIN Searched(search.type) : Searched(search.type)[i] = k

\* Who reads until the last page has seen every row that matched all the time,
\* unless a row went from the pages already read, one came between the count and the
\* rows of the last page, or a page cut rows of one time in another order.
NothingMissed ==
  search.answer = "last" =>
    \A k \in Kinds : InSearched(k) => \/ k \in slipped \cup mixed
                                      \/ stayed[k] \subseteq viewed[k]

\* A row is shown twice only when another came on the pages already read, or a page
\* cut rows of one time in another order.
NothingTwice == again \subseteq pushed

\* A page that hasMore announced is not empty, unless rows went or the search
\* is for all kinds, whose counts are added up but whose pages are not.
NoEmptyPage ==
  Answered /\ search.page > 1 /\ search.type # "all" => search.rows > 0 \/ fewer

PagesComplete == NothingMissed /\ NothingTwice /\ NoEmptyPage
================================================================================

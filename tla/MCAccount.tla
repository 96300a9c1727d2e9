------------------------------- MODULE MCAccount -------------------------------
(* Instances of Sessions, OneTimeCodes, Addresses, RateLimits, Catalog,        *)
(* Designers and Search for TLC.  They share no state, so a behaviour runs one *)
(* of them.                                                                    *)
EXTENDS Sessions, OneTimeCodes, Addresses, RateLimits, Catalog, Designers, Search,
        TLC

CONSTANTS i1, i2, o1, o2   \* clients and objects

VARIABLE part

allVars == <<part, sessionVars, codeVars, addressVars, limitVars, catalogVars,
             designerVars, searchVars>>

\* o1 and o2 are two spellings of one e-mail, and two carriers or drafts.
MCLowerCase == [o \in Objects |-> o1]
MCPoints == [l \in Limiters |-> IF l = "tracking" THEN 2 ELSE 1]
RequestsNaming(routes, c, n, o) ==
  [route : routes, client : {c}, named : {n}, object : {o}]
RequestsFrom(routes, c, o) == RequestsNaming(routes, c, NoOne, o)
\* In search i1 comes under two addresses, and under each of them both clients come.
MCRequests ==
  RequestsFrom({"login", "contact", "phone", "search", "toggle", "purchase", "track"},
               i1, NoOne)
  \cup RequestsFrom({"search"}, i2, NoOne)
  \cup RequestsFrom({"forgot", "resend", "generate", "report"}, i1, o1)
  \cup RequestsFrom({"generate", "report"}, i1, o2) \cup RequestsFrom({"forgot"}, i2, o2)
  \cup RequestsNaming({"contact", "search", "track"}, i2, i1, NoOne)
  \cup RequestsNaming({"search"}, i1, i2, NoOne)
  \cup RequestsNaming({"report"}, i2, i1, o1)

\* The two newest rows were created at one time.
MCCreatedAt == [r \in 1 .. MaxRows |-> IF r = 1 THEN 1 ELSE 2]

Init ==
  /\ part \in {"sessions", "codes", "addresses", "limits", "catalog", "designers",
              "search"}
  /\ SessionsInit /\ CodesInit /\ AddressesInit /\ LimitsInit /\ CatalogInit
  /\ DesignersInit /\ SearchInit
  /\ part # "sessions" => lowerCase
  /\ part # "limits" => store = "redis" /\ served = {"login"}
  /\ part # "search" =>
       search.type = "all" /\ search.limit = 1 /\ matching = [k \in Kinds |-> {}]
  /\ matching["designers"] \in {{}, {1, 2}}

Next ==
  /\ UNCHANGED part
  /\ \/ part = "sessions" /\ SessionsNext
        /\ UNCHANGED <<codeVars, addressVars, limitVars, catalogVars, designerVars,
                       searchVars>>
     \/ part = "codes" /\ CodesNext
        /\ UNCHANGED <<sessionVars, addressVars, limitVars, catalogVars, designerVars,
                       searchVars>>
     \/ part = "addresses" /\ AddressesNext
        /\ UNCHANGED <<sessionVars, codeVars, limitVars, catalogVars, designerVars,
                       searchVars>>
     \/ part = "limits" /\ LimitsNext
        /\ UNCHANGED <<sessionVars, codeVars, addressVars, catalogVars, designerVars,
                       searchVars>>
     \/ part = "catalog" /\ CatalogNext
        /\ UNCHANGED <<sessionVars, codeVars, addressVars, limitVars, designerVars,
                       searchVars>>
     \/ part = "designers" /\ DesignersNext
        /\ UNCHANGED <<sessionVars, codeVars, addressVars, limitVars, catalogVars,
                       searchVars>>
     \/ part = "search" /\ SearchNext
        /\ UNCHANGED <<sessionVars, codeVars, addressVars, limitVars, catalogVars,
                       designerVars>>

Spec == Init /\ [][Next]_allVars

\* Exchanges the two members of S, or leaves them.
Exchange(S, swap) == [x \in S |-> IF swap THEN CHOOSE y \in S : y # x ELSE x]

\* The slots of each module are interchangeable, and so are devices, phone numbers,
\* slugs and categories; every property of this run is an invariant.
Symmetry ==
  {Exchange(AuthSlots, a) @@ Exchange(CodeSlots, a) @@ Exchange(AddressSlots, a)
     @@ Exchange(CatalogSlots, a) @@ Exchange(Devices, b) @@ Exchange(Phones, b)
     @@ Exchange(Slugs, b) @@ Exchange(Categories, b) : a \in BOOLEAN, b \in BOOLEAN}

\* Every variable of the module that runs has its type.
AccountTypeOK ==
  CASE part = "sessions" -> SessionsTypeOK
    [] part = "codes" -> CodesTypeOK
    [] part = "addresses" -> AddressesTypeOK
    [] part = "limits" -> LimitsTypeOK
    [] part = "catalog" -> CatalogTypeOK
    [] part = "designers" -> DesignersTypeOK
    [] part = "search" -> SearchTypeOK

\* Guessing is bounded on both sides: the failed logins of an account, but for
\* those checked at once, and the requests in a window that a limiter counts together:
\* of a client or an object, or under one address as the header names it.
GuessesBounded == FailuresBounded /\ RateLimited

\* Nobody is left out: no designer without cause from the slate, and no row from
\* the pages of a search, but for the changes that are named.
ListsComplete == SlateFair /\ PagesComplete
================================================================================

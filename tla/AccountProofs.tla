---------------------------- MODULE AccountProofs -----------------------------
(***************************************************************************)
(* Theorems about Addresses, RateLimits, Catalog, Designers and Search, and *)
(* about the run of all modules of the account.                             *)
(***************************************************************************)
EXTENDS SignInProofs, MCAccount, FiniteSums
-------------------------------------------------------------------------------
(* What holds of Addresses for every number of addresses and requests. *)

Asking(s) == addressPc[s] # "idle"

\* Creations that have counted the addresses and not added theirs.
Adding == {s \in AddressSlots : addressPc[s] \in {"begin", "write"} /\ addressReq[s].id = 0}

\* While one request at a time is served, it knows the book.
AskTrue(s) ==
  LET r == addressReq[s]
  IN /\ addressPc[s] = "begin" => r.default
     /\ addressPc[s] \in {"begin", "write"} => r.id = 0 \/ r.id \in book
     /\ addressPc[s] = "write" =>
          IF r.default THEN r.seen = book ELSE r.seen = {} /\ (r.id = 0 => book # {})
     /\ addressPc[s] = "delete" =>
          r.id \in book /\ (r.default <=> r.id \in defaults /\ Cardinality(book) > 1)

OneDefault == IF book = {} THEN defaults = {} ELSE \E d \in book : defaults = {d}

Orderly ==
  ~disturbed =>
    /\ OneDefault
    /\ \A s, o \in AddressSlots : Asking(s) /\ Asking(o) => s = o
    /\ \A s \in AddressSlots : AskTrue(s)

BelowLimit ==
  Cardinality(book) + Cardinality(Adding) < MaxUserAddresses + Cardinality(AddressSlots)

AddressInv == AddressesTypeOK /\ Orderly /\ BelowLimit

LEMMA BookFinite ==
  ASSUME AddressesTypeOK
  PROVE  /\ IsFiniteSet(book) /\ Cardinality(book) \in Nat
         /\ IsFiniteSet(Adding) /\ Cardinality(Adding) \in Nat
         /\ Cardinality(AddressSlots) \in Nat
         /\ Cardinality(Adding) <= Cardinality(AddressSlots)
  <1>1. IsFiniteSet(1 .. created)
    BY FS_Interval DEF AddressesTypeOK
  <1>2. IsFiniteSet(book) /\ IsFiniteSet(Adding)
        /\ Cardinality(Adding) <= Cardinality(AddressSlots)
    BY <1>1, FS_Subset, AddressesAssumption DEF AddressesTypeOK, Adding
  <1>3. QED BY <1>2, FS_CardinalityType, AddressesAssumption

LEMMA AddingFinite ==
  /\ IsFiniteSet(Adding') /\ Cardinality(Adding') \in Nat
  /\ Cardinality(Adding') <= Cardinality(AddressSlots)
  <1>1. Adding' \subseteq AddressSlots
    BY DEF Adding
  <1>2. QED BY <1>1, FS_Subset, FS_CardinalityType, AddressesAssumption

\* Where the request of slot s goes: it alone is at another step.
LEMMA StartShape ==
  ASSUME AddressesTypeOK, NEW s \in AddressSlots, NEW next \in {"begin", "write", "delete"},
         NEW r \in AddressRequests, AddressStart(s, next, r)
  PROVE  /\ AddressesTypeOK'
         /\ UNCHANGED <<book, defaults, created>>
         /\ addressPc'[s] = next /\ addressReq'[s] = r
         /\ \A o \in AddressSlots \ {s} :
              addressPc'[o] = addressPc[o] /\ addressReq'[o] = addressReq[o]
         /\ ~disturbed' => ~disturbed /\ \A o \in AddressSlots : addressPc[o] = "idle"
  BY DEF AddressesTypeOK, AddressStart

LEMMA DoneShape ==
  ASSUME AddressesTypeOK, NEW s \in AddressSlots, AddressDone(s)
  PROVE  /\ addressPc' \in [AddressSlots -> {"idle", "begin", "write", "delete"}]
         /\ addressReq' \in [AddressSlots -> AddressRequests]
         /\ addressPc'[s] = "idle"
         /\ \A o \in AddressSlots \ {s} :
              addressPc'[o] = addressPc[o] /\ addressReq'[o] = addressReq[o]
  <1>1. NoAddressRequest \in AddressRequests
    BY AddressesAssumption DEF NoAddressRequest, AddressRequests
  <1>2. QED BY <1>1 DEF AddressesTypeOK, AddressDone

\* A request starts.
LEMMA AddressStartKeeps ==
  ASSUME AddressInv, NEW s \in AddressSlots, NEW next \in {"begin", "write", "delete"},
         NEW r \in AddressRequests, AddressStart(s, next, r),
         r.seen = {},
         next = "begin" <=> r.default /\ next # "delete",
         next # "delete" =>
           IF r.id = 0 THEN Cardinality(book) < MaxUserAddresses /\ (book = {} => r.default)
           ELSE r.id \in book,
         next = "delete" =>
           r.id \in book /\ (r.default <=> r.id \in defaults /\ Cardinality(book) > 1)
  PROVE  AddressInv'
  <1>1. /\ AddressesTypeOK'
        /\ UNCHANGED <<book, defaults, created>>
        /\ addressPc'[s] = next /\ addressReq'[s] = r
        /\ \A o \in AddressSlots \ {s} :
             addressPc'[o] = addressPc[o] /\ addressReq'[o] = addressReq[o]
        /\ ~disturbed' => ~disturbed /\ \A o \in AddressSlots : addressPc[o] = "idle"
    BY StartShape DEF AddressInv
  <1>2. Orderly'
    <2> SUFFICES ASSUME ~disturbed' PROVE Orderly'
      BY DEF Orderly
    <2>1. OneDefault'
      BY <1>1 DEF AddressInv, Orderly, OneDefault
    <2>2. \A o \in AddressSlots \ {s} : ~Asking(o)'
      BY <1>1 DEF Asking
    <2>3. \A o \in AddressSlots \ {s} : AskTrue(o)'
      BY <2>2 DEF Asking, AskTrue
    <2>4. AskTrue(s)'
      BY <1>1 DEF AskTrue
    <2>5. QED BY <2>1, <2>2, <2>3, <2>4 DEF Orderly
  <1>3. BelowLimit'
    <2>1. /\ Cardinality(book) \in Nat /\ MaxUserAddresses \in Nat
          /\ Cardinality(AddressSlots) \in Nat /\ Cardinality(Adding') \in Nat
          /\ Cardinality(Adding') <= Cardinality(AddressSlots)
      BY BookFinite, AddingFinite, AddressesAssumption DEF AddressInv
    <2>2. CASE next # "delete" /\ r.id = 0
      <3>1. Cardinality(book') < MaxUserAddresses
        BY <1>1, <2>2
      <3>2. book' = book
        BY <1>1
      <3>3. QED BY <2>1, <3>1, <3>2 DEF BelowLimit
    <2>3. CASE next = "delete" \/ r.id # 0
      <3>1. addressPc[s] = "idle"
        BY DEF AddressStart
      <3>2. Adding' = Adding
        BY <1>1, <2>3, <3>1 DEF Adding
      <3>3. QED BY <1>1, <3>2 DEF AddressInv, BelowLimit
    <2>4. QED BY <2>2, <2>3
  <1>4. QED BY <1>1, <1>2, <1>3 DEF AddressInv
\* A request that ends, having added an address or not, and left the flags in order
\* or not.
LEMMA DoneKeeps ==
  ASSUME AddressInv, NEW s \in AddressSlots, Asking(s), AddressDone(s),
         created' \in 0 .. MaxCreated, disturbed' \in BOOLEAN,
         book' \subseteq 1 .. created', defaults' \subseteq book',
         \/ book' \subseteq book
         \/ /\ addressPc[s] = "write" /\ addressReq[s].id = 0
            /\ \E id : book' = book \cup {id},
         ~disturbed' =>
           /\ OneDefault'
           /\ ~disturbed \/ \A o \in AddressSlots \ {s} : addressPc[o] = "idle"
  PROVE  AddressInv'
  <1>1. /\ addressPc' \in [AddressSlots -> {"idle", "begin", "write", "delete"}]
        /\ addressReq' \in [AddressSlots -> AddressRequests]
        /\ addressPc'[s] = "idle"
        /\ \A o \in AddressSlots \ {s} :
             addressPc'[o] = addressPc[o] /\ addressReq'[o] = addressReq[o]
    BY DoneShape DEF AddressInv
  <1>2. AddressesTypeOK'
    BY <1>1 DEF AddressesTypeOK
  <1>3. Orderly'
    <2> SUFFICES ASSUME ~disturbed' PROVE Orderly'
      BY DEF Orderly
    <2>1. \A o \in AddressSlots : addressPc'[o] = "idle"
      BY <1>1 DEF AddressInv, Orderly, Asking
    <2>2. QED
      BY <2>1 DEF Orderly, Asking, AskTrue
  <1>4. BelowLimit'
    <2>1. /\ IsFiniteSet(book) /\ Cardinality(book) \in Nat /\ MaxUserAddresses \in Nat
          /\ IsFiniteSet(Adding) /\ Cardinality(Adding) \in Nat
          /\ Cardinality(AddressSlots) \in Nat /\ Cardinality(Adding') \in Nat
      BY BookFinite, AddingFinite, AddressesAssumption DEF AddressInv
    <2>2. Adding' = Adding \ {s}
      BY <1>1 DEF Adding
    <2>3. Cardinality(Adding') =
            IF s \in Adding THEN Cardinality(Adding) - 1 ELSE Cardinality(Adding)
      BY <2>1, <2>2, FS_RemoveElement
    <2>4. CASE book' \subseteq book
      <3>1. Cardinality(book') \in Nat /\ Cardinality(book') <= Cardinality(book)
        BY <2>1, <2>4, FS_Subset, FS_CardinalityType
      <3>2. QED BY <2>1, <2>3, <3>1 DEF AddressInv, BelowLimit
    <2>5. CASE /\ addressPc[s] = "write" /\ addressReq[s].id = 0
               /\ \E id : book' = book \cup {id}
      <3>1. s \in Adding
        BY <2>5 DEF Adding
      <3>2. PICK id : book' = book \cup {id}
        BY <2>5
      <3>3. Cardinality(book') \in {Cardinality(book), Cardinality(book) + 1}
        BY <2>1, <3>2, FS_AddElement
      <3>4. QED BY <2>1, <2>3, <3>1, <3>3 DEF AddressInv, BelowLimit
    <2>6. QED BY <2>4, <2>5
  <1>5. QED BY <1>2, <1>3, <1>4 DEF AddressInv

LEMMA AddressStepKeeps ==
  ASSUME AddressInv, [AddressesNext]_addressVars
  PROVE  AddressInv'
  <1>0. /\ AddressesTypeOK /\ MaxCreated \in Nat
        /\ book \subseteq AddressIds /\ 0 \notin book
        /\ {} \in SUBSET AddressIds
    BY AddressesAssumption DEF AddressInv, AddressesTypeOK, AddressIds
  <1>1. ASSUME NEW s \in AddressSlots, NEW wants \in BOOLEAN, CreateAddress(s, wants)
        PROVE  AddressInv'
    <2>1. PICK default \in BOOLEAN : default = (wants \/ book = {})
      OBVIOUS
    <2> DEFINE r == [id |-> 0, default |-> default, seen |-> {}]
               next == IF default THEN "begin" ELSE "write"
    <2>2. r \in AddressRequests /\ next \in {"begin", "write", "delete"}
      BY <1>0 DEF AddressRequests
    <2>3. Cardinality(book) < MaxUserAddresses /\ AddressStart(s, next, r)
      BY <1>1, <2>1 DEF CreateAddress
    <2>4. /\ r.id = 0 /\ r.seen = {} /\ r.default = default
          /\ next = "begin" <=> r.default /\ next # "delete"
          /\ next # "delete" /\ (book = {} => r.default)
      BY <2>1
    <2> HIDE DEF r, next
    <2>5. QED BY <2>2, <2>3, <2>4, AddressStartKeeps
  <1>2. ASSUME NEW s \in AddressSlots, NEW id \in book, NEW default \in BOOLEAN,
               UpdateAddress(s, id, default)
        PROVE  AddressInv'
    <2> DEFINE r == [id |-> id, default |-> default, seen |-> {}]
               next == IF default THEN "begin" ELSE "write"
    <2>1. r \in AddressRequests /\ next \in {"begin", "write", "delete"} /\ id # 0
      BY <1>0 DEF AddressRequests, AddressIds
    <2>2. AddressStart(s, next, r)
      BY <1>2 DEF UpdateAddress
    <2>3. /\ r.id = id /\ r.seen = {} /\ r.default = default
          /\ next = "begin" <=> r.default /\ next # "delete"
          /\ next # "delete"
      OBVIOUS
    <2> HIDE DEF r, next
    <2>4. QED BY <2>1, <2>2, <2>3, AddressStartKeeps
  <1>3. ASSUME NEW s \in AddressSlots, NEW id \in book, DeleteRead(s, id)
        PROVE  AddressInv'
    <2>1. PICK default \in BOOLEAN : default = (id \in defaults /\ Cardinality(book) > 1)
      OBVIOUS
    <2> DEFINE r == [id |-> id, default |-> default, seen |-> {}]
    <2>2. r \in AddressRequests
      BY <1>0 DEF AddressRequests, AddressIds
    <2>3. AddressStart(s, "delete", r)
      BY <1>3, <2>1 DEF DeleteRead
    <2>4. r.id = id /\ r.seen = {} /\ r.default = default
      OBVIOUS
    <2> HIDE DEF r
    <2>5. QED BY <2>1, <2>2, <2>3, <2>4, AddressStartKeeps
  <1>4. ASSUME NEW s \in AddressSlots, BeginDefault(s) PROVE AddressInv'
    <2>1. /\ UNCHANGED <<book, defaults, created, disturbed>>
          /\ addressPc[s] = "begin" /\ addressPc'[s] = "write"
          /\ addressReq'[s].id = addressReq[s].id /\ addressReq'[s].seen = book
          /\ addressReq'[s].default = addressReq[s].default
          /\ \A o \in AddressSlots \ {s} :
               addressPc'[o] = addressPc[o] /\ addressReq'[o] = addressReq[o]
      BY <1>0, <1>4 DEF BeginDefault, AddressesTypeOK, AddressRequests
    <2>2. AddressesTypeOK'
      BY <1>0, <1>4, <2>1 DEF BeginDefault, AddressesTypeOK, AddressRequests
    <2>3. Orderly'
      <3>1. ASSUME NEW o \in AddressSlots PROVE Asking(o)' <=> Asking(o)
        BY <2>1 DEF Asking
      <3>2. ASSUME NEW o \in AddressSlots, AskTrue(o) PROVE AskTrue(o)'
        BY <2>1, <3>2 DEF AskTrue
      <3>3. QED BY <2>1, <3>1, <3>2 DEF AddressInv, Orderly, OneDefault
    <2>4. Adding' = Adding
      BY <2>1 DEF Adding
    <2>5. QED BY <2>1, <2>2, <2>3, <2>4 DEF AddressInv, BelowLimit
  <1>5. ASSUME NEW s \in AddressSlots, InsertAddress(s) PROVE AddressInv'
    <2>1. PICK r \in AddressRequests : r = addressReq[s]
      BY <1>0 DEF AddressesTypeOK
    <2>2. /\ addressPc[s] = "write" /\ r.id = 0 /\ created < MaxCreated
          /\ created' = created + 1 /\ book' = book \cup {created'}
          /\ defaults' = (defaults \ r.seen) \cup (IF r.default THEN {created'} ELSE {})
          /\ disturbed' = (disturbed /\ ~(r.default /\ Alone(s)))
          /\ AddressDone(s)
      BY <1>5, <2>1 DEF InsertAddress
    <2>3. /\ created \in Nat /\ created' \in 0 .. MaxCreated /\ disturbed' \in BOOLEAN
          /\ defaults \subseteq book /\ book' \subseteq 1 .. created'
      BY <1>0, <2>2 DEF AddressesTypeOK
    <2>4. defaults' \subseteq book'
      BY <2>2, <2>3
    <2>5. ASSUME ~disturbed'
          PROVE  /\ OneDefault'
                 /\ ~disturbed \/ \A o \in AddressSlots \ {s} : addressPc[o] = "idle"
      <3>1. CASE r.default /\ r.seen = book
        BY <2>2, <2>3, <2>5, <3>1 DEF OneDefault, Alone
      <3>2. CASE ~(r.default /\ r.seen = book)
        <4>1. ~disturbed
          BY <2>1, <2>2, <2>5, <3>2 DEF Alone
        <4>2. ~r.default /\ r.seen = {} /\ book # {}
          BY <2>1, <2>2, <3>2, <4>1 DEF AddressInv, Orderly, AskTrue
        <4>3. PICK d \in book : defaults = {d}
          BY <4>1, <4>2 DEF AddressInv, Orderly, OneDefault
        <4>4. QED BY <2>2, <4>1, <4>2, <4>3 DEF OneDefault
      <3>3. QED BY <3>1, <3>2
    <2>6. Asking(s)
      BY <2>2 DEF Asking
    <2>7. QED BY <2>1, <2>2, <2>3, <2>4, <2>5, <2>6, DoneKeeps
  <1>6. ASSUME NEW s \in AddressSlots, WriteAddress(s) PROVE AddressInv'
    <2>1. PICK r \in AddressRequests : r = addressReq[s]
      BY <1>0 DEF AddressesTypeOK
    <2>2. /\ addressPc[s] = "write" /\ r.id # 0 /\ AddressDone(s)
          /\ book' = book /\ created' = created
          /\ r.id \notin book => UNCHANGED <<defaults, disturbed>>
          /\ r.id \in book =>
               /\ defaults' = IF r.default THEN (defaults \ r.seen) \cup {r.id}
                              ELSE defaults \ {r.id}
               /\ disturbed' = IF r.default THEN disturbed /\ ~Alone(s)
                               ELSE disturbed \/ r.id \in defaults
      BY <1>6, <2>1 DEF WriteAddress
    <2>3. /\ created' \in 0 .. MaxCreated /\ disturbed' \in BOOLEAN
          /\ defaults \subseteq book /\ book' \subseteq 1 .. created'
      BY <1>0, <2>2 DEF AddressesTypeOK
    <2>4. defaults' \subseteq book'
      BY <2>2, <2>3
    <2>5. ASSUME ~disturbed'
          PROVE  /\ OneDefault'
                 /\ ~disturbed \/ \A o \in AddressSlots \ {s} : addressPc[o] = "idle"
      <3>1. CASE r.id \notin book
        BY <2>2, <2>5, <3>1 DEF AddressInv, Orderly, OneDefault
      <3>2. CASE r.id \in book /\ r.default
        <4>1. r.seen = book
          BY <2>1, <2>2, <2>5, <3>2 DEF AddressInv, Orderly, AskTrue, Alone
        <4>2. defaults' = {r.id}
          BY <2>2, <2>3, <3>2, <4>1
        <4>3. QED BY <2>2, <2>5, <3>2, <4>2 DEF OneDefault, Alone
      <3>3. CASE r.id \in book /\ ~r.default
        <4>1. ~disturbed /\ defaults' = defaults
          BY <2>2, <2>5, <3>3
        <4>2. QED BY <2>2, <4>1 DEF AddressInv, Orderly, OneDefault
      <3>4. QED BY <3>1, <3>2, <3>3
    <2>6. Asking(s)
      BY <2>2 DEF Asking
    <2>7. QED BY <2>1, <2>2, <2>3, <2>4, <2>5, <2>6, DoneKeeps
  <1>7. ASSUME NEW s \in AddressSlots, DeleteWrite(s) PROVE AddressInv'
    <2>1. PICK r \in AddressRequests : r = addressReq[s]
      BY <1>0 DEF AddressesTypeOK
    <2> DEFINE rest == book \ {r.id}
               newest == {id \in rest : \A other \in rest : other <= id}
    <2>2. /\ addressPc[s] = "delete" /\ AddressDone(s) /\ UNCHANGED <<created, disturbed>>
          /\ r.id \notin book => UNCHANGED <<book, defaults>>
          /\ r.id \in book =>
               /\ book' = rest
               /\ defaults' = (defaults \ {r.id}) \cup (IF r.default THEN newest ELSE {})
      BY <1>7, <2>1 DEF DeleteWrite
    <2>3. /\ created' \in 0 .. MaxCreated /\ disturbed' \in BOOLEAN /\ created \in Nat
          /\ defaults \subseteq book /\ book \subseteq 1 .. created
      BY <1>0, <2>2 DEF AddressesTypeOK
    <2>4. book' \subseteq 1 .. created' /\ defaults' \subseteq book' /\ book' \subseteq book
      BY <2>2, <2>3
    <2>5. ASSUME ~disturbed' PROVE ~disturbed /\ OneDefault'
      <3>1. ~disturbed /\ OneDefault /\ r.id \in book
            /\ (r.default <=> r.id \in defaults /\ Cardinality(book) > 1)
        BY <2>1, <2>2, <2>5 DEF AddressInv, Orderly, AskTrue
      <3>2. PICK d \in book : defaults = {d}
        BY <3>1 DEF OneDefault
      <3>3. CASE d # r.id
        BY <2>2, <3>1, <3>2, <3>3 DEF OneDefault
      <3>4. CASE d = r.id /\ rest = {}
        BY <2>2, <3>1, <3>2, <3>4 DEF OneDefault
      <3>5. CASE d = r.id /\ rest # {}
        <4>1. Cardinality(book) > 1
          <5>1. IsFiniteSet(rest)
            BY <1>0, BookFinite, FS_RemoveElement
          <5>2. Cardinality(rest) \in Nat /\ Cardinality(rest) # 0
            BY <3>5, <5>1, FS_CardinalityType, FS_EmptySet
          <5>3. Cardinality(rest) = Cardinality(book) - 1
            <6>1. IsFiniteSet(book) /\ r.id \in book
              BY <1>0, <3>1, BookFinite
            <6>2. QED BY <6>1, FS_RemoveElement
          <5>4. QED BY <1>0, <5>2, <5>3, BookFinite
        <4>2. ASSUME NEW x \in rest PROVE x \in 0 .. created
          BY <2>3
        <4>3. PICK id \in rest : \A other \in rest : other <= id
          BY <2>3, <3>5, <4>2, GreatestNumber
        <4>4. newest = {id}
          <5>1. ASSUME NEW x \in newest PROVE x = id
            <6>1. x \in Nat /\ id \in Nat /\ x <= id /\ id <= x
              BY <2>3, <4>3
            <6>2. QED BY <6>1
          <5>2. QED BY <4>3, <5>1
        <4>5. defaults' = {id} /\ book' = rest
          BY <2>2, <3>1, <3>2, <3>5, <4>1, <4>4
        <4>6. QED BY <3>1, <4>5 DEF OneDefault
      <3>6. QED BY <3>3, <3>4, <3>5
    <2>6. Asking(s)
      BY <2>2 DEF Asking
    <2>7. QED BY <2>2, <2>3, <2>4, <2>5, <2>6, DoneKeeps
  <1>8. ASSUME NEW s \in AddressSlots, AddressAbort(s) PROVE AddressInv'
    <2>1. /\ Asking(s) /\ AddressDone(s)
          /\ UNCHANGED <<book, defaults, created, disturbed>>
      BY <1>8 DEF AddressAbort, Asking
    <2>2. ~disturbed => OneDefault'
      BY <2>1 DEF AddressInv, Orderly, OneDefault
    <2>3. QED BY <1>0, <2>1, <2>2, DoneKeeps DEF AddressesTypeOK
  <1>9. CASE UNCHANGED addressVars
    BY <1>9 DEF addressVars, AddressInv, AddressesTypeOK, Orderly, OneDefault, Asking,
                AskTrue, BelowLimit, Adding
  <1>10. QED
    BY <1>1, <1>2, <1>3, <1>4, <1>5, <1>6, <1>7, <1>8, <1>9 DEF AddressesNext, SetDefault

LEMMA AddressInvHolds == AddressesSpec => []AddressInv
  <1>1. AddressesInit => AddressInv
    <2> SUFFICES ASSUME AddressesInit PROVE AddressInv
      OBVIOUS
    <2>1. AddressesTypeOK
      <3>1. NoAddressRequest \in AddressRequests
        BY AddressesAssumption DEF NoAddressRequest, AddressRequests
      <3>2. 0 \in 0 .. MaxCreated
        BY AddressesAssumption
      <3>3. created \in 0 .. MaxCreated
        BY <3>2 DEF AddressesInit
      <3>4. book \subseteq 1 .. created /\ defaults \subseteq book
        BY DEF AddressesInit
      <3>5. disturbed \in BOOLEAN
        BY DEF AddressesInit
      <3>6. QED BY <3>1, <3>3, <3>4, <3>5 DEF AddressesInit, AddressesTypeOK
    <2>2. Orderly
      BY DEF AddressesInit, Orderly, OneDefault, Asking, AskTrue
    <2>3. book = {} /\ Adding = {}
      BY DEF AddressesInit, Adding
    <2>4. BelowLimit
      BY <2>1, <2>3, FS_EmptySet, BookFinite, AddressesAssumption DEF BelowLimit
    <2>5. QED BY <2>1, <2>2, <2>4 DEF AddressInv
  <1>2. QED BY <1>1, AddressStepKeeps, PTL DEF AddressesSpec

\* The address book and the requests about it keep their types.
THEOREM AddressesTypeCorrect == AddressesSpec => []AddressesTypeOK
  <1>1. AddressInv => AddressesTypeOK
    BY DEF AddressInv
  <1>2. QED BY <1>1, AddressInvHolds, PTL

\* A user with addresses has exactly one default, for any number of addresses and of
\* requests at once, unless requests overlapped or an update took the flag away, and
\* again as soon as a default was set alone; the limit is exceeded at most by the
\* requests served at once.
THEOREM OneIsDefault == AddressesSpec => []OneDefaultAddress
  <1>1. AddressInv => OneDefaultAddress
    <2> SUFFICES ASSUME AddressInv PROVE OneDefaultAddress
      OBVIOUS
    <2>1. Cardinality(book) < MaxUserAddresses + Cardinality(AddressSlots)
      BY BookFinite, AddressesAssumption DEF AddressInv, BelowLimit
    <2>2. ~disturbed => Cardinality(defaults) = (IF book = {} THEN 0 ELSE 1)
      BY FS_EmptySet, FS_Singleton DEF AddressInv, Orderly, OneDefault
    <2>3. QED BY <2>1, <2>2 DEF OneDefaultAddress, AddressInv, AddressesTypeOK
  <1>2. QED BY <1>1, AddressInvHolds, PTL
-------------------------------------------------------------------------------
(* What holds of Catalog for every number of templates, categories and requests. *)

EditSteps == {"idle", "create", "row", "see", "delete", "insert", "category"}
InEdit == {"row", "see", "delete", "insert"}
InTx == {"see", "delete", "insert"}
Edits == [id : Templates \cup Categories \cup {NoId}, slug : Slugs \cup {NoSlug},
          cats : SUBSET Categories, touches : BOOLEAN, seen : SUBSET Categories,
          deleted : SUBSET Categories]

\* What a request about to take its next step knows of the rows.
EditTrue(s) ==
  LET r == edit[s]
  IN /\ editPc[s] # "idle" => r.slug \in Slugs
     /\ editPc[s] \in InEdit => r.id \in Templates /\ template[r.id] # NoSlug
     /\ editPc[s] \in InTx /\ r.touches => r.id \in locked
     /\ editPc[s] = "delete" /\ r.id \notin mingled => r.seen = links[r.id]
     /\ editPc[s] = "insert" /\ r.id \notin mingled => r.deleted = links[r.id]

\* Transactions on one template take turns, or mingle and one takes no row lock.
TakeTurns(s, o) ==
  /\ s # o /\ editPc[s] \in InTx /\ editPc[o] \in InTx /\ edit[s].id = edit[o].id
  => /\ ~(edit[s].touches /\ edit[o].touches)
     /\ edit[s].id \in mingled \/ editPc[s] = "see" \/ editPc[o] = "see"

LinksExist ==
  \A t \in Templates : \A c \in links[t] : template[t] \in Slugs /\ category[c] \in Slugs
LinksAsked == \A t \in Templates : t \in mingled \/ links[t] = asked[t]

\* A slug is the slug of one row.
Unique(rows) == \A i \in DOMAIN rows : rows[i] \in Slugs => Free(rows, i, rows[i])

CatalogInv ==
  /\ CatalogTypeOK
  /\ \A s \in CatalogSlots : EditTrue(s)
  /\ \A s, o \in CatalogSlots : TakeTurns(s, o)
  /\ LinksExist /\ LinksAsked /\ Unique(template) /\ Unique(category)

LEMMA Typing ==
  ASSUME CatalogTypeOK
  PROVE  /\ template \in [Templates -> Slugs \cup {NoSlug, Deleted}]
         /\ category \in [Categories -> Slugs \cup {NoSlug, Deleted}]
         /\ links \in [Templates -> SUBSET Categories]
         /\ asked \in [Templates -> SUBSET Categories]
         /\ locked \subseteq Templates /\ mingled \subseteq Templates
         /\ editPc \in [CatalogSlots -> EditSteps] /\ edit \in [CatalogSlots -> Edits]
         /\ NoSlug \notin Slugs /\ Deleted \notin Slugs
         /\ NoId \notin Templates /\ NoId \notin Categories
         /\ NoEdit \in Edits
  BY CatalogAssumption DEF CatalogTypeOK, EditSteps, Edits, NoEdit

\* A row that gets a slug no other row has keeps the slugs apart.
LEMMA UniqueKept ==
  ASSUME NEW Ids, NEW rows \in [Ids -> Slugs \cup {NoSlug, Deleted}], Unique(rows),
         NEW i \in Ids, NEW slug, slug \in Slugs => Free(rows, i, slug)
  PROVE  Unique([rows EXCEPT ![i] = slug])
  BY DEF Unique, Free

\* Slot s moves to step next with the request r.
EditMoved(s, next, r) ==
  /\ editPc'[s] = next /\ edit'[s] = r
  /\ \A o \in CatalogSlots \ {s} : editPc'[o] = editPc[o] /\ edit'[o] = edit[o]

LEMMA StartMoves ==
  ASSUME CatalogTypeOK, NEW s \in CatalogSlots, NEW next \in EditSteps, NEW r \in Edits,
         EditStart(s, next, r)
  PROVE  /\ EditMoved(s, next, r) /\ editPc[s] = "idle"
         /\ editPc' \in [CatalogSlots -> EditSteps] /\ edit' \in [CatalogSlots -> Edits]
  BY Typing DEF EditStart, EditMoved

LEMMA EditDoneMoves ==
  ASSUME CatalogTypeOK, NEW s \in CatalogSlots, EditDone(s)
  PROVE  /\ EditMoved(s, "idle", NoEdit)
         /\ editPc' \in [CatalogSlots -> EditSteps] /\ edit' \in [CatalogSlots -> Edits]
  BY Typing DEF EditDone, EditMoved, EditSteps

\* The other requests still know the rows.
LEMMA OthersKnow ==
  ASSUME CatalogInv, NEW s \in CatalogSlots,
         \A o \in CatalogSlots \ {s} : editPc'[o] = editPc[o] /\ edit'[o] = edit[o],
         \A t \in Templates : template'[t] = NoSlug => template[t] = NoSlug,
         \A t \in locked \ locked' :
           editPc[s] \in InTx /\ edit[s].touches /\ edit[s].id = t,
         mingled \subseteq mingled',
         \A t \in Templates : \/ links'[t] = links[t] \/ template[t] = NoSlug
                              \/ editPc[s] \in {"delete", "insert"} /\ edit[s].id = t
  PROVE  /\ \A o \in CatalogSlots \ {s} : EditTrue(o)'
         /\ \A o, q \in CatalogSlots \ {s} : TakeTurns(o, q)'
  <1>1. ASSUME NEW o \in CatalogSlots \ {s} PROVE EditTrue(o)'
    <2>1. EditTrue(o) /\ TakeTurns(s, o) /\ editPc'[o] = editPc[o] /\ edit'[o] = edit[o]
      BY DEF CatalogInv
    <2>2. editPc[o] \in InTx /\ edit[o].touches => edit[o].id \in locked'
      BY <2>1 DEF EditTrue, TakeTurns
    <2>3. editPc[o] \in {"delete", "insert"} /\ edit[o].id \notin mingled =>
            links'[edit[o].id] = links[edit[o].id]
      BY <2>1 DEF EditTrue, TakeTurns, InEdit, InTx
    <2>4. QED BY <2>1, <2>2, <2>3 DEF EditTrue, InEdit
  <1>2. ASSUME NEW o \in CatalogSlots \ {s}, NEW q \in CatalogSlots \ {s}
        PROVE  TakeTurns(o, q)'
    BY DEF CatalogInv, TakeTurns
  <1>3. QED BY <1>1, <1>2

\* A request moves on its own: the rows of the others, and its own, are as before.
LEMMA MoveKeeps ==
  ASSUME CatalogInv, NEW s \in CatalogSlots, NEW next, NEW r, EditMoved(s, next, r),
         editPc' \in [CatalogSlots -> EditSteps], edit' \in [CatalogSlots -> Edits],
         EditTrue(s)', \A o \in CatalogSlots : TakeTurns(s, o)' /\ TakeTurns(o, s)',
         \A t \in locked \ locked' : editPc[s] \in InTx /\ edit[s].touches /\ edit[s].id = t,
         locked' \subseteq Templates, mingled' \subseteq Templates, mingled \subseteq mingled',
         UNCHANGED <<template, category, links, asked>>
  PROVE  CatalogInv'
  <1>1. \A o \in CatalogSlots : EditTrue(o)'
    BY OthersKnow DEF EditMoved
  <1>2. \A o, q \in CatalogSlots : TakeTurns(o, q)'
    BY OthersKnow DEF EditMoved
  <1>3. CatalogTypeOK'
    BY DEF CatalogInv, CatalogTypeOK, EditSteps, Edits
  <1>4. LinksExist' /\ LinksAsked' /\ Unique(template)' /\ Unique(category)'
    BY DEF CatalogInv, LinksExist, LinksAsked, Unique, Free
  <1>5. QED BY <1>1, <1>2, <1>3, <1>4 DEF CatalogInv

\* A request out of a transaction takes no turns.
LEMMA NoTurns ==
  ASSUME NEW s \in CatalogSlots, editPc'[s] \notin InTx
  PROVE  \A o \in CatalogSlots : TakeTurns(s, o)' /\ TakeTurns(o, s)'
  BY DEF TakeTurns

LEMMA EditStartKeeps ==
  ASSUME CatalogInv, NEW s \in CatalogSlots, NEW next \in {"create", "row", "category"},
         NEW r \in Edits, EditStart(s, next, r), r.slug \in Slugs,
         next = "row" => r.id \in Templates /\ template[r.id] # NoSlug,
         UNCHANGED <<template, category, links, locked, asked, mingled>>
  PROVE  CatalogInv'
  <1>1. /\ EditMoved(s, next, r) /\ editPc' \in [CatalogSlots -> EditSteps]
        /\ edit' \in [CatalogSlots -> Edits]
    BY StartMoves DEF CatalogInv, EditSteps
  <1>2. EditTrue(s)'
    BY <1>1 DEF EditTrue, EditMoved, InEdit, InTx
  <1>3. \A o \in CatalogSlots : TakeTurns(s, o)' /\ TakeTurns(o, s)'
    BY <1>1, NoTurns DEF EditMoved, InTx
  <1>4. QED BY <1>1, <1>2, <1>3, MoveKeeps, Typing DEF CatalogInv

LEMMA CheckNewTemplateKeeps ==
  ASSUME CatalogInv, NEW s \in CatalogSlots, NEW slug \in Slugs, NEW cats \in SUBSET Categories,
         CheckNewTemplate(s, slug, cats)
  PROVE  CatalogInv'
  <1> DEFINE r == [NoEdit EXCEPT !.slug = slug, !.cats = cats]
  <1>1. r \in Edits /\ r.slug = slug
    BY DEF Edits, NoEdit
  <1>2. EditStart(s, "create", r) /\ UNCHANGED <<template, category, links, locked, asked, mingled>>
    BY DEF CheckNewTemplate
  <1>3. QED
    <2> HIDE DEF r
    <2> QED BY <1>1, <1>2, EditStartKeeps

LEMMA CheckTemplateKeeps ==
  ASSUME CatalogInv, NEW s \in CatalogSlots, NEW t \in Templates, NEW slug \in Slugs,
         NEW cats \in SUBSET Categories, NEW touches \in BOOLEAN,
         CheckTemplate(s, t, slug, cats, touches)
  PROVE  CatalogInv'
  <1> DEFINE r == [NoEdit EXCEPT !.id = t, !.slug = slug, !.cats = cats, !.touches = touches]
  <1>1. r \in Edits /\ r.slug = slug /\ r.id = t
    BY DEF Edits, NoEdit
  <1>2. EditStart(s, "row", r) /\ UNCHANGED <<template, category, links, locked, asked, mingled>>
    BY DEF CheckTemplate
  <1>3. template[t] # NoSlug
    BY Typing DEF CheckTemplate, Exists, CatalogInv
  <1>4. QED
    <2> HIDE DEF r
    <2> QED BY <1>1, <1>2, <1>3, EditStartKeeps

LEMMA CheckCategoryKeeps ==
  ASSUME CatalogInv, NEW s \in CatalogSlots, NEW slug \in Slugs,
         CheckNewCategory(s, slug) \/ \E c \in Categories : CheckCategory(s, c, slug)
  PROVE  CatalogInv'
  <1>1. CASE CheckNewCategory(s, slug)
    <2> DEFINE r == [NoEdit EXCEPT !.slug = slug]
    <2>1. r \in Edits /\ r.slug = slug
      BY DEF Edits, NoEdit
    <2>2. /\ EditStart(s, "category", r)
          /\ UNCHANGED <<template, category, links, locked, asked, mingled>>
      BY <1>1 DEF CheckNewCategory
    <2> HIDE DEF r
    <2>3. QED BY <2>1, <2>2, EditStartKeeps
  <1>2. CASE \E c \in Categories : CheckCategory(s, c, slug)
    <2>1. PICK c \in Categories : CheckCategory(s, c, slug)
      BY <1>2
    <2> DEFINE r == [NoEdit EXCEPT !.id = c, !.slug = slug]
    <2>2. r \in Edits /\ r.slug = slug
      BY DEF Edits, NoEdit
    <2>3. /\ EditStart(s, "category", r)
          /\ UNCHANGED <<template, category, links, locked, asked, mingled>>
      BY <2>1 DEF CheckCategory
    <2> HIDE DEF r
    <2>4. QED BY <2>2, <2>3, EditStartKeeps
  <1>3. QED BY <1>1, <1>2

LEMMA UpdateRowKeeps ==
  ASSUME CatalogInv, NEW s \in CatalogSlots, UpdateRow(s)
  PROVE  CatalogInv'
  <1>1. EditTrue(s) /\ editPc[s] = "row" /\ edit[s] \in Edits
    BY Typing DEF CatalogInv, UpdateRow
  <1>2. /\ EditMoved(s, "see", edit[s]) /\ editPc' \in [CatalogSlots -> EditSteps]
        /\ edit' \in [CatalogSlots -> Edits]
    BY Typing DEF UpdateRow, EditMoved, CatalogInv, EditSteps
  <1>3. edit[s].id \in Templates
    BY <1>1 DEF EditTrue, InEdit
  <1>4. locked \subseteq locked' /\ locked' \subseteq Templates
    BY <1>3, Typing DEF UpdateRow, CatalogInv
  <1>5. EditTrue(s)'
    BY <1>1, <1>2 DEF EditTrue, UpdateRow, EditMoved, InEdit, InTx
  <1>6. ASSUME NEW o \in CatalogSlots PROVE TakeTurns(s, o)' /\ TakeTurns(o, s)'
    <2>1. EditTrue(o)
      BY DEF CatalogInv
    <2>2. QED BY <1>2, <2>1 DEF TakeTurns, EditMoved, EditTrue, UpdateRow
  <1>7. QED
    BY <1>2, <1>4, <1>5, <1>6, MoveKeeps, Typing DEF UpdateRow, CatalogInv

LEMMA SeeLinksKeeps ==
  ASSUME CatalogInv, NEW s \in CatalogSlots, SeeLinks(s)
  PROVE  CatalogInv'
  <1> DEFINE t == edit[s].id
             r == [edit[s] EXCEPT !.seen = links[t]]
  <1>1. EditTrue(s) /\ editPc[s] = "see" /\ edit[s] \in Edits
    BY Typing DEF CatalogInv, SeeLinks
  <1>2. t \in Templates
    BY <1>1 DEF EditTrue, InEdit
  <1>3. links[t] \subseteq Categories
    BY <1>2, Typing DEF CatalogInv
  <1>4. /\ r \in Edits /\ r.id = t /\ r.slug = edit[s].slug /\ r.touches = edit[s].touches
        /\ r.seen = links[t]
    BY <1>1, <1>3 DEF Edits
  <1>5. editPc' = [editPc EXCEPT ![s] = "delete"] /\ edit' = [edit EXCEPT ![s] = r]
    BY DEF SeeLinks
  <1>6. mingled \subseteq mingled' /\ mingled' \subseteq Templates
    BY <1>2, Typing DEF SeeLinks, CatalogInv
  <1>7. \A o \in Replacing(t) : ~(edit[o].touches /\ edit[s].touches) => t \in mingled'
    BY DEF SeeLinks
  <1>8. editPc \in [CatalogSlots -> EditSteps] /\ edit \in [CatalogSlots -> Edits]
    BY Typing DEF CatalogInv
  <1>9. UNCHANGED <<template, category, links, locked, asked>>
    BY DEF SeeLinks
  <1> HIDE DEF t, r
  <1>10. /\ EditMoved(s, "delete", r) /\ editPc' \in [CatalogSlots -> EditSteps]
         /\ edit' \in [CatalogSlots -> Edits]
    BY <1>4, <1>5, <1>8 DEF EditMoved, EditSteps
  <1>11. EditTrue(s)'
    BY <1>1, <1>4, <1>9, <1>10 DEF EditTrue, EditMoved, InEdit, InTx, t
  <1>12. ASSUME NEW o \in CatalogSlots PROVE TakeTurns(s, o)' /\ TakeTurns(o, s)'
    <2>1. CASE o = s
      BY <2>1 DEF TakeTurns
    <2>2. CASE o # s
      <3>1. TakeTurns(s, o) /\ editPc'[o] = editPc[o] /\ edit'[o] = edit[o]
        BY <1>10, <2>2 DEF EditMoved, CatalogInv
      <3>2. editPc[o] \in {"delete", "insert"} /\ edit[o].id = t => o \in Replacing(t)
        BY DEF Replacing
      <3>3. editPc[o] \in InTx /\ edit[o].id = t => ~(edit[s].touches /\ edit[o].touches)
        BY <1>1, <2>2, <3>1 DEF TakeTurns, InTx, t
      <3>4. editPc[o] \in InTx /\ edit[o].id = t => t \in mingled' \/ editPc[o] = "see"
        BY <3>2, <3>3, <1>7 DEF InTx
      <3>5. editPc'[s] = "delete" /\ edit'[s] = r
        BY <1>10 DEF EditMoved
      <3>6. QED BY <3>1, <3>3, <3>4, <3>5, <1>4 DEF TakeTurns
    <2>3. QED BY <2>1, <2>2
  <1>13. QED
    BY <1>6, <1>9, <1>10, <1>11, <1>12, MoveKeeps, Typing DEF CatalogInv

LEMMA DeleteLinksKeeps ==
  ASSUME CatalogInv, NEW s \in CatalogSlots, DeleteLinks(s)
  PROVE  CatalogInv'
  <1> DEFINE t == edit[s].id
             r == [edit[s] EXCEPT !.deleted = edit[s].seen \cap links[t]]
  <1>1. EditTrue(s) /\ editPc[s] = "delete" /\ edit[s] \in Edits
    BY Typing DEF CatalogInv, DeleteLinks
  <1>2. t \in Templates
    BY <1>1 DEF EditTrue, InEdit
  <1>3. links[t] \subseteq Categories
    BY <1>2, Typing DEF CatalogInv
  <1>4. /\ r \in Edits /\ r.id = t /\ r.slug = edit[s].slug /\ r.touches = edit[s].touches
        /\ r.deleted = edit[s].seen \cap links[t]
    BY <1>1, <1>3 DEF Edits
  <1>5. editPc' = [editPc EXCEPT ![s] = "insert"] /\ edit' = [edit EXCEPT ![s] = r]
    BY DEF DeleteLinks
  <1>6. editPc \in [CatalogSlots -> EditSteps] /\ edit \in [CatalogSlots -> Edits]
    BY Typing DEF CatalogInv
  <1>7. UNCHANGED <<template, category, links, locked, asked, mingled>>
    BY DEF DeleteLinks
  <1> HIDE DEF t, r
  <1>8. /\ EditMoved(s, "insert", r) /\ editPc' \in [CatalogSlots -> EditSteps]
        /\ edit' \in [CatalogSlots -> Edits]
    BY <1>4, <1>5, <1>6 DEF EditMoved, EditSteps
  <1>9. EditTrue(s)'
    BY <1>1, <1>4, <1>7, <1>8 DEF EditTrue, EditMoved, InEdit, InTx, t
  <1>10. ASSUME NEW o \in CatalogSlots PROVE TakeTurns(s, o)' /\ TakeTurns(o, s)'
    <2>1. TakeTurns(s, o) /\ TakeTurns(o, s)
      BY DEF CatalogInv
    <2>2. QED BY <1>1, <1>4, <1>7, <1>8, <2>1 DEF TakeTurns, EditMoved, InTx, t
  <1>11. QED
    BY <1>7, <1>8, <1>9, <1>10, MoveKeeps, Typing DEF CatalogInv

LEMMA CatalogAbortKeeps ==
  ASSUME CatalogInv, NEW s \in CatalogSlots, CatalogAbort(s)
  PROVE  CatalogInv'
  <1>1. /\ EditMoved(s, "idle", NoEdit) /\ editPc' \in [CatalogSlots -> EditSteps]
        /\ edit' \in [CatalogSlots -> Edits]
    BY EditDoneMoves DEF CatalogAbort, CatalogInv
  <1>2. EditTrue(s)'
    BY <1>1 DEF EditTrue, EditMoved, InEdit, InTx
  <1>3. \A o \in CatalogSlots : TakeTurns(s, o)' /\ TakeTurns(o, s)'
    BY <1>1, NoTurns DEF EditMoved, InTx
  <1>4. /\ locked' \subseteq locked
        /\ \A t \in locked \ locked' : editPc[s] \in InTx /\ edit[s].touches /\ edit[s].id = t
    BY DEF CatalogAbort, Unlock, InTx
  <1>5. QED
    BY <1>1, <1>2, <1>3, <1>4, MoveKeeps, Typing DEF CatalogAbort, CatalogInv

\* A request that ends leaves the others their turns.
LEMMA EndKeepsTurns ==
  ASSUME CatalogInv, NEW s \in CatalogSlots, EditDone(s),
         \A t \in Templates : template'[t] = NoSlug => template[t] = NoSlug,
         \A t \in locked \ locked' : editPc[s] \in InTx /\ edit[s].touches /\ edit[s].id = t,
         UNCHANGED mingled,
         \A t \in Templates : \/ links'[t] = links[t] \/ template[t] = NoSlug
                              \/ editPc[s] \in {"delete", "insert"} /\ edit[s].id = t
  PROVE  /\ \A o \in CatalogSlots : EditTrue(o)'
         /\ \A o, q \in CatalogSlots : TakeTurns(o, q)'
         /\ editPc' \in [CatalogSlots -> EditSteps] /\ edit' \in [CatalogSlots -> Edits]
  <1>1. /\ EditMoved(s, "idle", NoEdit) /\ editPc' \in [CatalogSlots -> EditSteps]
        /\ edit' \in [CatalogSlots -> Edits]
    BY EditDoneMoves DEF CatalogInv
  <1>2. EditTrue(s)'
    BY <1>1 DEF EditTrue, EditMoved, InEdit, InTx
  <1>3. \A o \in CatalogSlots : TakeTurns(s, o)' /\ TakeTurns(o, s)'
    BY <1>1, NoTurns DEF EditMoved, InTx
  <1>4. /\ \A o \in CatalogSlots \ {s} : EditTrue(o)'
        /\ \A o, q \in CatalogSlots \ {s} : TakeTurns(o, q)'
    BY <1>1, OthersKnow DEF EditMoved
  <1>5. QED BY <1>1, <1>2, <1>3, <1>4

\* So does one that replaced the links: a delete that saw them too has mingled with it.
LEMMA ReplacedKeepsTurns ==
  ASSUME CatalogInv, NEW s \in CatalogSlots, LinksReplaced(s), editPc[s] = "insert",
         \A t \in Templates : template'[t] = NoSlug => template[t] = NoSlug,
         \A t \in locked \ locked' : editPc[s] \in InTx /\ edit[s].touches /\ edit[s].id = t,
         UNCHANGED mingled,
         \A t \in Templates : links'[t] = links[t] \/ edit[s].id = t
  PROVE  /\ \A o \in CatalogSlots : EditTrue(o)'
         /\ \A o, q \in CatalogSlots : TakeTurns(o, q)'
         /\ editPc' \in [CatalogSlots -> EditSteps] /\ edit' \in [CatalogSlots -> Edits]
  <1>1. /\ editPc \in [CatalogSlots -> EditSteps] /\ edit \in [CatalogSlots -> Edits]
        /\ NoEdit \in Edits /\ edit[s] \in Edits
    BY Typing DEF CatalogInv
  <1>2. editPc'[s] = "idle" /\ edit'[s] = NoEdit /\ editPc' \in [CatalogSlots -> EditSteps]
    BY <1>1 DEF LinksReplaced, EditSteps
  <1>3. ASSUME NEW o \in CatalogSlots, o # s
        PROVE  /\ editPc'[o] = editPc[o] /\ edit'[o] \in Edits
               /\ edit'[o].id = edit[o].id /\ edit'[o].slug = edit[o].slug
               /\ edit'[o].touches = edit[o].touches /\ edit'[o].deleted = edit[o].deleted
               /\ edit[o].id # edit[s].id => edit'[o].seen = edit[o].seen
    <2>1. editPc'[o] = editPc[o] /\ edit[o] \in Edits
      BY <1>1, <1>3 DEF LinksReplaced
    <2>2. CASE edit[o].id = edit[s].id
      <3>1. edit'[o] = [edit[o] EXCEPT !.seen = edit[o].seen \ edit[s].deleted]
        BY <1>3, <2>2 DEF LinksReplaced
      <3>2. edit[o].seen \ edit[s].deleted \in SUBSET Categories
        BY <2>1 DEF Edits
      <3>3. QED BY <2>1, <2>2, <3>1, <3>2 DEF Edits
    <2>3. CASE edit[o].id # edit[s].id
      BY <1>3, <2>1, <2>3 DEF LinksReplaced
    <2>4. QED BY <2>2, <2>3
  <1>4. edit' \in [CatalogSlots -> Edits]
    BY <1>1, <1>2, <1>3 DEF LinksReplaced
  <1>5. EditTrue(s)'
    BY <1>2 DEF EditTrue, InEdit, InTx
  <1>6. \A o \in CatalogSlots : TakeTurns(s, o)' /\ TakeTurns(o, s)'
    BY <1>2, NoTurns DEF InTx
  <1>7. ASSUME NEW o \in CatalogSlots, o # s PROVE EditTrue(o)'
    <2>1. EditTrue(o) /\ TakeTurns(s, o)
      BY DEF CatalogInv
    <2>2. editPc[o] \in InTx /\ edit[o].touches => edit[o].id \in locked'
      BY <1>7, <2>1 DEF EditTrue, TakeTurns
    <2>3. edit[o].id = edit[s].id /\ editPc[o] \in {"delete", "insert"} => edit[o].id \in mingled
      BY <1>7, <2>1 DEF TakeTurns, InTx
    <2>4. editPc[o] \in {"delete", "insert"} /\ edit[o].id \notin mingled =>
            links'[edit[o].id] = links[edit[o].id]
      BY <2>1, <2>3 DEF EditTrue, InEdit
    <2>5. QED BY <1>3, <1>7, <2>1, <2>2, <2>3, <2>4 DEF EditTrue, InEdit
  <1>8. ASSUME NEW o \in CatalogSlots, NEW q \in CatalogSlots, o # s, q # s PROVE TakeTurns(o, q)'
    <2>1. TakeTurns(o, q)
      BY DEF CatalogInv
    <2>2. QED BY <1>3, <1>8, <2>1 DEF TakeTurns
  <1>9. QED BY <1>2, <1>4, <1>5, <1>6, <1>7, <1>8

LEMMA CreateTemplateKeeps ==
  ASSUME CatalogInv, NEW s \in CatalogSlots, NEW t \in Templates, CreateTemplate(s, t)
  PROVE  CatalogInv'
  <1> DEFINE r == edit[s]
             ok == Free(template, t, r.slug) /\ \A c \in r.cats : Exists(category, c)
  <1>1. EditTrue(s) /\ editPc[s] = "create" /\ template[t] = NoSlug /\ r \in Edits
    BY Typing DEF CatalogInv, CreateTemplate
  <1>2. r.slug \in Slugs /\ r.cats \subseteq Categories
    BY <1>1 DEF EditTrue, Edits
  <1>3. EditDone(s) /\ UNCHANGED <<category, locked, mingled>>
    BY DEF CreateTemplate
  <1>4. CASE ~ok
    <2>1. UNCHANGED <<template, links, asked>>
      BY <1>4 DEF CreateTemplate
    <2>2. /\ \A o \in CatalogSlots : EditTrue(o)'
          /\ \A o, q \in CatalogSlots : TakeTurns(o, q)'
          /\ editPc' \in [CatalogSlots -> EditSteps] /\ edit' \in [CatalogSlots -> Edits]
      BY <1>3, <2>1, EndKeepsTurns
    <2>3. CatalogTypeOK'
      BY <1>3, <2>1, <2>2 DEF CatalogInv, CatalogTypeOK, EditSteps, Edits
    <2>4. LinksExist' /\ LinksAsked' /\ Unique(template)' /\ Unique(category)'
      BY <1>3, <2>1 DEF CatalogInv, LinksExist, LinksAsked, Unique, Free
    <2>5. QED BY <2>2, <2>3, <2>4 DEF CatalogInv
  <1>5. CASE ok
    <2>1. /\ template' = [template EXCEPT ![t] = r.slug]
          /\ links' = [links EXCEPT ![t] = r.cats] /\ asked' = [asked EXCEPT ![t] = r.cats]
      BY <1>5 DEF CreateTemplate
    <2>2. /\ template \in [Templates -> Slugs \cup {NoSlug, Deleted}]
          /\ category \in [Categories -> Slugs \cup {NoSlug, Deleted}]
          /\ links \in [Templates -> SUBSET Categories]
          /\ asked \in [Templates -> SUBSET Categories]
      BY Typing DEF CatalogInv
    <2>3. Free(template, t, r.slug) /\ \A c \in r.cats : category[c] \in Slugs
      BY <1>5 DEF Exists
    <2> HIDE DEF r, ok
    <2>4. NoSlug \notin Slugs
      BY CatalogAssumption
    <2>5. \A u \in Templates : template'[u] = NoSlug => template[u] = NoSlug
      BY <1>2, <2>1, <2>2, <2>4
    <2>6. \A u \in Templates : links'[u] = links[u] \/ template[u] = NoSlug
      BY <1>1, <2>1, <2>2
    <2>7. /\ \A o \in CatalogSlots : EditTrue(o)'
          /\ \A o, q \in CatalogSlots : TakeTurns(o, q)'
          /\ editPc' \in [CatalogSlots -> EditSteps] /\ edit' \in [CatalogSlots -> Edits]
      BY <1>3, <2>5, <2>6, EndKeepsTurns
    <2>8. /\ template' \in [Templates -> Slugs \cup {NoSlug, Deleted}]
          /\ links' \in [Templates -> SUBSET Categories]
          /\ asked' \in [Templates -> SUBSET Categories]
      BY <1>2, <2>1, <2>2
    <2>9. CatalogTypeOK'
      BY <1>3, <2>7, <2>8 DEF CatalogInv, CatalogTypeOK, EditSteps, Edits
    <2>10. LinksExist'
      <3>1. ASSUME NEW u \in Templates, NEW c \in links'[u]
            PROVE  template'[u] \in Slugs /\ category'[c] \in Slugs
        <4>1. CASE u = t
          BY <1>2, <1>3, <2>1, <2>2, <2>3, <4>1
        <4>2. CASE u # t
          <5>1. c \in links[u] /\ template'[u] = template[u]
            BY <2>1, <2>2, <4>2
          <5>2. QED BY <1>3, <5>1 DEF LinksExist, CatalogInv
        <4>3. QED BY <4>1, <4>2
      <3>2. QED BY <3>1 DEF LinksExist
    <2>11. LinksAsked'
      BY <1>3, <2>1, <2>2 DEF LinksAsked, CatalogInv
    <2>12. Unique(template)'
      <3>1. Unique([template EXCEPT ![t] = r.slug])
        BY <2>2, <2>3, UniqueKept DEF CatalogInv
      <3>2. QED BY <2>1, <3>1 DEF Unique, Free
    <2>13. Unique(category)'
      BY <1>3 DEF CatalogInv, Unique, Free
    <2>14. QED BY <2>7, <2>9, <2>10, <2>11, <2>12, <2>13 DEF CatalogInv
  <1>6. QED BY <1>4, <1>5

LEMMA InsertLinksKeeps ==
  ASSUME CatalogInv, NEW s \in CatalogSlots, InsertLinks(s)
  PROVE  CatalogInv'
  <1> DEFINE r == edit[s]
             t == edit[s].id
             kept == links[t] \ r.deleted
             taken == r.cats \cap kept # {} \/ ~Free(template, t, r.slug)
             missing == \/ r.cats # {} /\ ~Exists(template, t)
                        \/ \E c \in r.cats : ~Exists(category, c)
  <1>1. EditTrue(s) /\ editPc[s] = "insert" /\ r \in Edits
    BY Typing DEF CatalogInv, InsertLinks
  <1>2. /\ r.slug \in Slugs /\ r.cats \subseteq Categories /\ t \in Templates
        /\ t \notin mingled => kept = {}
    BY <1>1 DEF EditTrue, Edits, InEdit
  <1>3. UNCHANGED <<category, mingled>>
    BY DEF InsertLinks
  <1>4. /\ locked' \subseteq Templates
        /\ \A u \in locked \ locked' : editPc[s] \in InTx /\ edit[s].touches /\ edit[s].id = u
    BY <1>1, Typing DEF InsertLinks, Unlock, InTx, CatalogInv
  <1>5. CASE taken \/ missing
    <2>1. UNCHANGED <<template, links, asked>> /\ EditDone(s)
      BY <1>5 DEF InsertLinks
    <2>2. /\ \A o \in CatalogSlots : EditTrue(o)'
          /\ \A o, q \in CatalogSlots : TakeTurns(o, q)'
          /\ editPc' \in [CatalogSlots -> EditSteps] /\ edit' \in [CatalogSlots -> Edits]
      BY <1>3, <1>4, <2>1, EndKeepsTurns
    <2>3. CatalogTypeOK'
      BY <1>3, <1>4, <2>1, <2>2 DEF CatalogInv, CatalogTypeOK, EditSteps, Edits
    <2>4. LinksExist' /\ LinksAsked' /\ Unique(template)' /\ Unique(category)'
      BY <1>3, <2>1 DEF CatalogInv, LinksExist, LinksAsked, Unique, Free
    <2>5. QED BY <2>2, <2>3, <2>4 DEF CatalogInv
  <1>6. CASE ~(taken \/ missing)
    <2>1. /\ template' = IF r.touches THEN [template EXCEPT ![t] = r.slug] ELSE template
          /\ links' = [links EXCEPT ![t] = kept \cup r.cats]
          /\ asked' = [asked EXCEPT ![t] = r.cats]
          /\ LinksReplaced(s)
      BY <1>6 DEF InsertLinks
    <2>2. /\ template \in [Templates -> Slugs \cup {NoSlug, Deleted}]
          /\ category \in [Categories -> Slugs \cup {NoSlug, Deleted}]
          /\ links \in [Templates -> SUBSET Categories]
          /\ asked \in [Templates -> SUBSET Categories]
          /\ NoSlug \notin Slugs
      BY Typing DEF CatalogInv
    <2>3. /\ Free(template, t, r.slug)
          /\ r.cats # {} => template[t] \in Slugs
          /\ \A c \in r.cats : category[c] \in Slugs
      BY <1>6 DEF Exists
    <2>4. kept \subseteq links[t]
      OBVIOUS
    <2>5. t = edit[s].id
      OBVIOUS
    <2> HIDE DEF r, t, kept, taken, missing
    <2>6. \A u \in Templates : /\ template'[u] = NoSlug => template[u] = NoSlug
                               /\ template[u] \in Slugs => template'[u] \in Slugs
      BY <1>2, <2>1, <2>2
    <2>7. \A u \in Templates : u = t \/ links'[u] = links[u]
      BY <2>1, <2>2
    <2>8. /\ \A o \in CatalogSlots : EditTrue(o)'
          /\ \A o, q \in CatalogSlots : TakeTurns(o, q)'
          /\ editPc' \in [CatalogSlots -> EditSteps] /\ edit' \in [CatalogSlots -> Edits]
      BY <1>1, <1>3, <1>4, <2>1, <2>5, <2>6, <2>7, ReplacedKeepsTurns
    <2>9. /\ template' \in [Templates -> Slugs \cup {NoSlug, Deleted}]
          /\ links' \in [Templates -> SUBSET Categories]
          /\ asked' \in [Templates -> SUBSET Categories]
      BY <1>2, <2>1, <2>2, <2>4
    <2>10. CatalogTypeOK'
      BY <1>3, <1>4, <2>8, <2>9 DEF CatalogInv, CatalogTypeOK, EditSteps, Edits
    <2>11. LinksExist'
      <3>1. ASSUME NEW u \in Templates, NEW c \in links'[u]
            PROVE  template'[u] \in Slugs /\ category'[c] \in Slugs
        <4>1. CASE c \in links[u]
          BY <1>3, <2>6, <4>1 DEF LinksExist, CatalogInv
        <4>2. CASE c \notin links[u]
          <5>1. u = t /\ c \in r.cats
            BY <2>1, <2>2, <2>4, <4>2
          <5>2. QED BY <1>2, <1>3, <2>3, <2>6, <5>1
        <4>3. QED BY <4>1, <4>2
      <3>2. QED BY <3>1 DEF LinksExist
    <2>12. LinksAsked'
      <3>1. ASSUME NEW u \in Templates, u \notin mingled PROVE links'[u] = asked'[u]
        <4>1. CASE u = t
          BY <1>2, <2>1, <2>2, <3>1, <4>1
        <4>2. CASE u # t
          BY <2>1, <2>2, <3>1, <4>2 DEF LinksAsked, CatalogInv
        <4>3. QED BY <4>1, <4>2
      <3>2. QED BY <1>3, <3>1 DEF LinksAsked
    <2>13. Unique(template)'
      <3>1. Unique([template EXCEPT ![t] = r.slug])
        BY <1>2, <2>2, <2>3, UniqueKept DEF CatalogInv
      <3>2. Unique(template)
        BY DEF CatalogInv
      <3>3. QED BY <2>1, <3>1, <3>2 DEF Unique, Free
    <2>14. Unique(category)'
      BY <1>3 DEF CatalogInv, Unique, Free
    <2>15. QED BY <2>8, <2>10, <2>11, <2>12, <2>13, <2>14 DEF CatalogInv
  <1>7. QED BY <1>5, <1>6

LEMMA DeleteTemplateKeeps ==
  ASSUME CatalogInv, NEW t \in Templates, DeleteTemplate(t)
  PROVE  CatalogInv'
  <1>1. /\ template[t] \in Slugs /\ t \notin locked /\ links[t] = {}
        /\ template' = [template EXCEPT ![t] = Deleted]
        /\ asked' = [asked EXCEPT ![t] = {}]
        /\ UNCHANGED <<category, links, locked, editPc, edit, mingled>>
    BY DEF DeleteTemplate, Exists, slotVars
  <1>2. /\ template \in [Templates -> Slugs \cup {NoSlug, Deleted}]
        /\ asked \in [Templates -> SUBSET Categories]
        /\ Deleted \notin Slugs
    BY Typing DEF CatalogInv
  <1>3. /\ template' \in [Templates -> Slugs \cup {NoSlug, Deleted}]
        /\ asked' \in [Templates -> SUBSET Categories]
    BY <1>1, <1>2
  <1>4. CatalogTypeOK'
    BY <1>1, <1>3 DEF CatalogInv, CatalogTypeOK
  <1>5. ASSUME NEW s \in CatalogSlots PROVE EditTrue(s)'
    <2>1. EditTrue(s)
      BY DEF CatalogInv
    <2>2. editPc[s] \in InEdit => template'[edit[s].id] # NoSlug
      <3>1. CASE t = edit[s].id
        BY <1>1, <1>2, <3>1, CatalogAssumption
      <3>2. CASE t # edit[s].id
        BY <1>1, <1>2, <2>1, <3>2 DEF EditTrue
      <3>3. QED BY <3>1, <3>2
    <2>3. QED BY <1>1, <2>1, <2>2 DEF EditTrue
  <1>6. \A s, o \in CatalogSlots : TakeTurns(s, o)'
    BY <1>1 DEF CatalogInv, TakeTurns
  <1>7. LinksExist'
    BY <1>1, <1>2 DEF CatalogInv, LinksExist
  <1>8. LinksAsked'
    BY <1>1, <1>2 DEF CatalogInv, LinksAsked
  <1>9. Unique(template)'
    <2>1. Unique([template EXCEPT ![t] = Deleted])
      BY <1>2, UniqueKept DEF CatalogInv
    <2>2. QED BY <1>1, <2>1 DEF Unique, Free
  <1>10. Unique(category)'
    BY <1>1 DEF CatalogInv, Unique, Free
  <1>11. QED BY <1>4, <1>5, <1>6, <1>7, <1>8, <1>9, <1>10 DEF CatalogInv

LEMMA WriteCategoryKeeps ==
  ASSUME CatalogInv, NEW s \in CatalogSlots, NEW c \in Categories, WriteCategory(s, c)
  PROVE  CatalogInv'
  <1>1. /\ EditDone(s) /\ UNCHANGED <<template, links, locked, asked, mingled>>
        /\ editPc[s] = "category" /\ EditTrue(s)
    BY DEF WriteCategory, CatalogInv
  <1>2. edit[s].slug \in Slugs
    BY <1>1 DEF EditTrue
  <1>3. category \in [Categories -> Slugs \cup {NoSlug, Deleted}]
    BY Typing DEF CatalogInv
  <1>4. /\ \A o \in CatalogSlots : EditTrue(o)'
        /\ \A o, q \in CatalogSlots : TakeTurns(o, q)'
        /\ editPc' \in [CatalogSlots -> EditSteps] /\ edit' \in [CatalogSlots -> Edits]
    BY <1>1, EndKeepsTurns
  <1>5. \/ category' = category
        \/ category' = [category EXCEPT ![c] = edit[s].slug] /\ Free(category, c, edit[s].slug)
    BY DEF WriteCategory
  <1>6. /\ category' \in [Categories -> Slugs \cup {NoSlug, Deleted}]
        /\ \A d \in Categories : category[d] \in Slugs => category'[d] \in Slugs
    BY <1>2, <1>3, <1>5
  <1>7. CatalogTypeOK'
    BY <1>1, <1>4, <1>6 DEF CatalogInv, CatalogTypeOK, EditSteps, Edits
  <1>8. LinksExist'
    <2>1. links \in [Templates -> SUBSET Categories]
      BY Typing DEF CatalogInv
    <2>2. QED BY <1>1, <1>6, <2>1 DEF CatalogInv, LinksExist
  <1>9. LinksAsked' /\ Unique(template)'
    BY <1>1 DEF CatalogInv, LinksAsked, Unique, Free
  <1>10. Unique(category)'
    <2>1. Unique(category)
      BY DEF CatalogInv
    <2>2. CASE category' = category
      BY <2>1, <2>2 DEF Unique, Free
    <2>3. CASE /\ category' = [category EXCEPT ![c] = edit[s].slug]
               /\ Free(category, c, edit[s].slug)
      <3>1. Unique([category EXCEPT ![c] = edit[s].slug])
        BY <1>3, <2>1, <2>3, UniqueKept
      <3>2. QED BY <2>3, <3>1 DEF Unique, Free
    <2>4. QED BY <1>5, <2>2, <2>3
  <1>11. QED BY <1>4, <1>7, <1>8, <1>9, <1>10 DEF CatalogInv

LEMMA DeleteCategoryKeeps ==
  ASSUME CatalogInv, NEW c \in Categories, DeleteCategory(c)
  PROVE  CatalogInv'
  <1>1. /\ \A t \in Templates : c \notin links[t]
        /\ category' = [category EXCEPT ![c] = Deleted]
        /\ UNCHANGED <<template, links, locked, editPc, edit, asked, mingled>>
    BY DEF DeleteCategory, slotVars
  <1>2. /\ category \in [Categories -> Slugs \cup {NoSlug, Deleted}]
        /\ links \in [Templates -> SUBSET Categories] /\ Deleted \notin Slugs
    BY Typing DEF CatalogInv
  <1>3. CatalogTypeOK'
    BY <1>1, <1>2 DEF CatalogInv, CatalogTypeOK
  <1>4. \A s \in CatalogSlots : EditTrue(s)'
    BY <1>1 DEF CatalogInv, EditTrue
  <1>5. \A s, o \in CatalogSlots : TakeTurns(s, o)'
    BY <1>1 DEF CatalogInv, TakeTurns
  <1>6. LinksExist'
    BY <1>1, <1>2 DEF CatalogInv, LinksExist
  <1>7. LinksAsked' /\ Unique(template)'
    BY <1>1 DEF CatalogInv, LinksAsked, Unique, Free
  <1>8. Unique(category)'
    <2>1. Unique([category EXCEPT ![c] = Deleted])
      BY <1>2, UniqueKept DEF CatalogInv
    <2>2. QED BY <1>1, <2>1 DEF Unique, Free
  <1>9. QED BY <1>3, <1>4, <1>5, <1>6, <1>7, <1>8 DEF CatalogInv

LEMMA CatalogStarts == CatalogInit => CatalogInv
  <1> SUFFICES ASSUME CatalogInit PROVE CatalogInv
    OBVIOUS
  <1>1. CatalogTypeOK
    BY DEF CatalogInit, CatalogTypeOK, NoEdit
  <1>2. \A s \in CatalogSlots : EditTrue(s)
    BY DEF CatalogInit, EditTrue, InEdit, InTx
  <1>3. \A s, o \in CatalogSlots : TakeTurns(s, o)
    BY DEF CatalogInit, TakeTurns, InTx
  <1>4. LinksExist /\ LinksAsked
    BY DEF CatalogInit, LinksExist, LinksAsked
  <1>5. Unique(template) /\ Unique(category)
    BY CatalogAssumption DEF CatalogInit, Unique
  <1>6. QED BY <1>1, <1>2, <1>3, <1>4, <1>5 DEF CatalogInv

LEMMA CatalogStepKeeps == CatalogInv /\ [CatalogNext]_catalogVars => CatalogInv'
  <1> SUFFICES ASSUME CatalogInv, [CatalogNext]_catalogVars PROVE CatalogInv'
    OBVIOUS
  <1>1. ASSUME NEW s \in CatalogSlots, NEW slug \in Slugs,
               \/ CheckNewCategory(s, slug)
               \/ \E c \in Categories : CheckCategory(s, c, slug)
        PROVE  CatalogInv'
    BY <1>1, CheckCategoryKeeps
  <1>2. ASSUME NEW s \in CatalogSlots, NEW slug \in Slugs, NEW cats \in SUBSET Categories,
               \/ CheckNewTemplate(s, slug, cats)
               \/ \E t \in Templates, touches \in BOOLEAN :
                    CheckTemplate(s, t, slug, cats, touches)
        PROVE  CatalogInv'
    BY <1>2, CheckNewTemplateKeeps, CheckTemplateKeeps
  <1>3. ASSUME NEW s \in CatalogSlots,
               \/ \E t \in Templates : CreateTemplate(s, t)
               \/ UpdateRow(s) \/ SeeLinks(s) \/ DeleteLinks(s) \/ InsertLinks(s)
               \/ \E c \in Categories : WriteCategory(s, c)
               \/ CatalogAbort(s)
        PROVE  CatalogInv'
    BY <1>3, CreateTemplateKeeps, UpdateRowKeeps, SeeLinksKeeps, DeleteLinksKeeps,
       InsertLinksKeeps, WriteCategoryKeeps, CatalogAbortKeeps
  <1>4. ASSUME \/ \E t \in Templates : DeleteTemplate(t)
               \/ \E c \in Categories : DeleteCategory(c)
        PROVE  CatalogInv'
    BY <1>4, DeleteTemplateKeeps, DeleteCategoryKeeps
  <1>5. CASE UNCHANGED catalogVars
    BY <1>5 DEF CatalogInv, CatalogTypeOK, EditTrue, TakeTurns, LinksExist, LinksAsked,
         Unique, Free, catalogVars, slotVars
  <1>6. QED BY <1>1, <1>2, <1>3, <1>4, <1>5 DEF CatalogNext

LEMMA CatalogInvHolds == CatalogSpec => []CatalogInv
  BY CatalogStarts, CatalogStepKeeps, PTL DEF CatalogSpec

\* Templates, categories, their links and the requests keep their types.
THEOREM CatalogTypeCorrect == CatalogSpec => []CatalogTypeOK
  <1>1. CatalogInv => CatalogTypeOK
    BY DEF CatalogInv
  <1>2. QED BY <1>1, CatalogInvHolds, PTL

\* Two administrators may edit one template, or give two rows one slug, at once:
\* a template still has the categories of the last request that changed them, links
\* lead to rows that exist, and a slug names one row, unless two transactions mingled
\* (TemplateService.updateTemplate replaces the categories without a lock of its own).
THEOREM LinksFollowRequests == CatalogSpec => []LinksAsAsked
  <1>1. CatalogInv => LinksAsAsked
    BY Typing DEF CatalogInv, LinksAsAsked, LinksExist, LinksAsked, Unique, Exists
  <1>2. QED BY <1>1, CatalogInvHolds, PTL
-------------------------------------------------------------------------------
(* What holds of RateLimits for every number of clients, points and ticks. *)

\* The points x was given in the last n ticks, whether or not it was given any.
GivenIn(x, n) == IF x \in DOMAIN spent THEN Spent(x, n) ELSE 0

\* The history of x, or of one who was given nothing.
History(x) == IF x \in DOMAIN spent THEN spent[x] ELSE [i \in 1 .. 2 * Window |-> 0]

HistoryTyped ==
  /\ DOMAIN spent \subseteq Keys
  /\ \A x \in DOMAIN spent : spent[x] \in [1 .. 2 * Window -> Nat]

LEMMA WindowIs == Window \in Nat \ {0} /\ 2 * Window \in Nat \ {0} /\ Window <= 2 * Window
  BY RateLimitsAssumption

LEMMA HistorySums ==
  ASSUME HistoryTyped, NEW x
  PROVE  /\ History(x) \in [1 .. 2 * Window -> Nat]
         /\ \A n \in 0 .. 2 * Window : GivenIn(x, n) = SumUpTo(History(x), n)
  <1>1. CASE x \in DOMAIN spent
    <2>1. \A n : Spent(x, n) = SumUpTo(spent[x], n)
      BY DEF Spent, SumUpTo, MapThenSumSet, MapThenFoldSet
    <2>2. QED BY <1>1, <2>1 DEF GivenIn, History, HistoryTyped
  <1>2. CASE x \notin DOMAIN spent
    <2>1. [i \in 1 .. 2 * Window |-> 0] \in [1 .. 2 * Window -> Nat]
      OBVIOUS
    <2>2. \A n \in 0 .. 2 * Window : SumUpTo([i \in 1 .. 2 * Window |-> 0], n) = 0
      BY WindowIs, SumUpToZero
    <2>3. QED BY <1>2, <2>1, <2>2 DEF GivenIn, History
  <1>3. QED BY <1>1, <1>2

LEMMA HistorySumsNext ==
  ASSUME HistoryTyped', NEW x
  PROVE  /\ History(x)' \in [1 .. 2 * Window -> Nat]
         /\ \A n \in 0 .. 2 * Window : GivenIn(x, n)' = SumUpTo(History(x)', n)
  <1>1. CASE x \in DOMAIN spent'
    <2>1. \A n : Spent(x, n)' = SumUpTo(spent'[x], n)
      BY DEF Spent, SumUpTo, MapThenSumSet, MapThenFoldSet
    <2>2. QED BY <1>1, <2>1 DEF GivenIn, History, HistoryTyped
  <1>2. CASE x \notin DOMAIN spent'
    <2>1. [i \in 1 .. 2 * Window |-> 0] \in [1 .. 2 * Window -> Nat]
      OBVIOUS
    <2>2. \A n \in 0 .. 2 * Window : SumUpTo([i \in 1 .. 2 * Window |-> 0], n) = 0
      BY WindowIs, SumUpToZero
    <2>3. QED BY <1>2, <2>1, <2>2 DEF GivenIn, History
  <1>3. QED BY <1>1, <1>2

\* A longer time gives no fewer points.
LEMMA GivenGrows ==
  ASSUME HistoryTyped, NEW x
  PROVE  /\ GivenIn(x, 0) = 0
         /\ \A n \in 0 .. 2 * Window : GivenIn(x, n) \in Nat
         /\ \A i, j \in 0 .. 2 * Window : i <= j => GivenIn(x, i) <= GivenIn(x, j)
  <1>1. /\ History(x) \in [1 .. 2 * Window -> Nat] /\ 2 * Window \in Nat
        /\ \A n \in 0 .. 2 * Window : GivenIn(x, n) = SumUpTo(History(x), n)
    BY HistorySums, WindowIs
  <1>2. 0 \in 0 .. 2 * Window
    BY <1>1
  <1>3. GivenIn(x, 0) = 0
    BY <1>1, <1>2, SumUpToNone
  <1>4. \A n \in 0 .. 2 * Window : GivenIn(x, n) \in Nat
    BY <1>1, SumUpToGrows
  <1>5. \A i, j \in 0 .. 2 * Window : i <= j => GivenIn(x, i) <= GivenIn(x, j)
    BY <1>1, SumUpToGrows
  <1>6. QED BY <1>3, <1>4, <1>5

\* A point is given in this tick.
LEMMA GivesOne ==
  ASSUME HistoryTyped, NEW x \in Keys, spent' = Give(x)
  PROVE  /\ HistoryTyped'
         /\ x \in DOMAIN spent'
         /\ \A y : y # x => (y \in DOMAIN spent' <=> y \in DOMAIN spent)
         /\ \A y \in DOMAIN spent : y # x => spent'[y] = spent[y]
         /\ spent'[x][1] = History(x)[1] + 1
         /\ \A i \in 2 .. 2 * Window : spent'[x][i] = History(x)[i]
         /\ GivenIn(x, 0)' = 0
         /\ \A n \in 1 .. 2 * Window : GivenIn(x, n)' = GivenIn(x, n) + 1
         /\ \A y, n : y # x => GivenIn(y, n)' = GivenIn(y, n)
  <1> DEFINE h == History(x)
             k == [h EXCEPT ![1] = h[1] + 1]
  <1>1. 2 * Window \in Nat /\ 1 \in 1 .. 2 * Window
    BY WindowIs
  <1>2. h \in [1 .. 2 * Window -> Nat]
    BY HistorySums
  <1>3. /\ k \in [1 .. 2 * Window -> Nat] /\ k[1] = h[1] + 1
        /\ \A i \in 2 .. 2 * Window : k[i] = h[i]
    <2> HIDE DEF h
    <2>1. QED BY <1>1, <1>2
  <1>4. spent' = [y \in DOMAIN spent \cup {x} |-> IF y = x THEN k ELSE spent[y]]
    BY DEF Give, History
  <1>5. /\ DOMAIN spent' = DOMAIN spent \cup {x} /\ spent'[x] = k
        /\ \A y \in DOMAIN spent : y # x => spent'[y] = spent[y]
    <2> HIDE DEF k
    <2>1. QED BY <1>4
  <1>6. HistoryTyped'
    BY <1>3, <1>5 DEF HistoryTyped
  <1>7. History(x)' = k
    BY <1>5 DEF History
  <1>8. GivenIn(x, 0)' = 0 /\ \A n \in 0 .. 2 * Window : GivenIn(x, n)' = SumUpTo(k, n)
    <2>1. \A n \in 0 .. 2 * Window : GivenIn(x, n)' = SumUpTo(k, n)
      <3> HIDE DEF k
      <3>1. QED BY <1>6, <1>7, HistorySumsNext
    <2>2. 0 \in 0 .. 2 * Window
      BY <1>1
    <2>3. QED BY <2>1, <2>2, SumUpToNone
  <1>9. ASSUME NEW n \in 1 .. 2 * Window PROVE GivenIn(x, n)' = GivenIn(x, n) + 1
    <2> HIDE DEF h, k
    <2>1. n \in 0 .. 2 * Window /\ 1 <= 2 * Window
      BY <1>1
    <2>2. SumUpTo(k, n) = SumUpTo(h, n) + 1
      BY <1>1, <1>2, <1>3, <2>1, SumUpToRaised
    <2>3. GivenIn(x, n) = SumUpTo(h, n)
      BY <2>1, HistorySums DEF h
    <2>4. QED BY <1>8, <2>1, <2>2, <2>3
  <1>10. ASSUME NEW y, NEW n, y # x PROVE GivenIn(y, n)' = GivenIn(y, n)
    <2>1. y \in DOMAIN spent' <=> y \in DOMAIN spent
      BY <1>5, <1>10
    <2>2. ASSUME y \in DOMAIN spent PROVE Spent(y, n)' = Spent(y, n)
      <3>1. spent'[y] = spent[y]
        BY <1>5, <1>10, <2>2
      <3>2. Spent(y, n) = SumUpTo(spent[y], n)
        BY DEF Spent, SumUpTo, MapThenSumSet, MapThenFoldSet
      <3>3. Spent(y, n)' = SumUpTo(spent'[y], n)
        BY DEF Spent, SumUpTo, MapThenSumSet, MapThenFoldSet
      <3>4. QED BY <3>1, <3>2, <3>3
    <2>3. QED BY <2>1, <2>2 DEF GivenIn
  <1>11. QED BY <1>3, <1>5, <1>6, <1>8, <1>9, <1>10

\* A tick passes.
LEMMA TickPasses ==
  ASSUME HistoryTyped, Tick
  PROVE  /\ HistoryTyped'
         /\ DOMAIN spent' \subseteq DOMAIN spent
         /\ \A x \in DOMAIN spent' :
              /\ spent'[x][1] = 0
              /\ \A i \in 2 .. 2 * Window : spent'[x][i] = spent[x][i - 1]
         /\ \A x : GivenIn(x, 0)' = 0
         /\ \A x, n : n \in 0 .. 2 * Window - 1 => GivenIn(x, n + 1)' = GivenIn(x, n)
  <1> DEFINE kept == {y \in DOMAIN spent : Spent(y, 2 * Window - 1) > 0}
  <1>1. /\ 2 * Window \in Nat \ {0} /\ 1 \in 1 .. 2 * Window
        /\ \A i \in 2 .. 2 * Window : i \in 1 .. 2 * Window /\ i - 1 \in 1 .. 2 * Window
    BY WindowIs
  <1>2. spent' = [x \in kept |-> [i \in 1 .. 2 * Window |-> IF i = 1 THEN 0 ELSE spent[x][i - 1]]]
    BY DEF Tick
  <1>3. DOMAIN spent' = kept /\ kept \subseteq DOMAIN spent
    BY <1>2
  <1>4. ASSUME NEW x \in kept
        PROVE  /\ spent'[x] = [i \in 1 .. 2 * Window |-> IF i = 1 THEN 0 ELSE spent[x][i - 1]]
               /\ spent[x] \in [1 .. 2 * Window -> Nat]
    BY <1>2 DEF HistoryTyped
  <1>5. ASSUME NEW x \in kept
        PROVE  /\ spent'[x] \in [1 .. 2 * Window -> Nat] /\ spent'[x][1] = 0
               /\ \A i \in 2 .. 2 * Window : spent'[x][i] = spent[x][i - 1]
    <2>1. PICK h \in [1 .. 2 * Window -> Nat] : h = spent[x]
      BY <1>4
    <2>2. spent'[x] = [i \in 1 .. 2 * Window |-> IF i = 1 THEN 0 ELSE h[i - 1]]
      BY <1>4, <2>1
    <2>3. \A i \in 1 .. 2 * Window : i # 1 => i \in 2 .. 2 * Window /\ h[i - 1] \in Nat
      BY <1>1, <2>1
    <2>4. QED BY <1>1, <2>1, <2>2, <2>3
  <1>6. HistoryTyped'
    BY <1>3, <1>5 DEF HistoryTyped
  <1>7. ASSUME NEW x PROVE GivenIn(x, 0)' = 0
    <2>1. 0 \in 0 .. 2 * Window
      BY <1>1
    <2>2. GivenIn(x, 0)' = SumUpTo(History(x)', 0)
      BY <1>6, <2>1, HistorySumsNext
    <2>3. QED BY <2>2, SumUpToNone
  <1>8. ASSUME NEW x, NEW n \in 0 .. 2 * Window - 1 PROVE GivenIn(x, n + 1)' = GivenIn(x, n)
    <2>1. /\ n \in Nat /\ n + 1 \in 0 .. 2 * Window /\ n \in 0 .. 2 * Window
          /\ n <= 2 * Window - 1 /\ 2 * Window - 1 \in 0 .. 2 * Window
      BY <1>1
    <2>2. CASE x \in kept
      <3> DEFINE h == spent[x]
                 k == spent'[x]
      <3>1. h \in [1 .. 2 * Window -> Nat] /\ k \in [1 .. 2 * Window -> Nat]
        BY <1>4, <1>5, <2>2
      <3>2. GivenIn(x, n) = SumUpTo(h, n)
        BY <1>3, <2>1, <2>2, HistorySums DEF History
      <3>3. GivenIn(x, n + 1)' = SumUpTo(k, n + 1)
        BY <1>3, <1>6, <2>1, <2>2, HistorySumsNext DEF History
      <3>4. k[1] = 0 /\ \A i \in 2 .. 2 * Window : k[i] = h[i - 1]
        BY <1>5, <2>2
      <3> HIDE DEF h, k
      <3>5. n < 2 * Window /\ 1 <= 2 * Window
        BY <1>1, <2>1
      <3>6. SumUpTo(k, n + 1) = SumUpTo(h, n)
        BY <1>1, <2>1, <3>1, <3>4, <3>5, SumUpToLater
      <3>7. QED BY <3>2, <3>3, <3>6
    <2>3. CASE x \notin kept
      <3>1. GivenIn(x, n + 1)' = 0
        BY <1>3, <2>3 DEF GivenIn
      <3>2. CASE x \in DOMAIN spent
        <4>1. ~(GivenIn(x, 2 * Window - 1) > 0)
          BY <2>3, <3>2 DEF GivenIn
        <4>2. /\ GivenIn(x, n) \in Nat /\ GivenIn(x, 2 * Window - 1) \in Nat
              /\ GivenIn(x, n) <= GivenIn(x, 2 * Window - 1)
          BY <2>1, GivenGrows
        <4>3. QED BY <3>1, <4>1, <4>2
      <3>3. CASE x \notin DOMAIN spent
        BY <3>1, <3>3 DEF GivenIn
      <3>4. QED BY <3>2, <3>3
    <2>4. QED BY <2>2, <2>3
  <1>9. QED BY <1>3, <1>5, <1>6, <1>7, <1>8

(* What one limiter of p points gives one subject.  The subject was given g[n]
   points in the last n ticks. *)

Rising(g) ==
  /\ g \in [0 .. 2 * Window -> Nat] /\ g[0] = 0
  /\ \A i, j \in 0 .. 2 * Window : i <= j => g[i] <= g[j]

\* No window of the last two durations gave twice the points.
Bounded(p, g) == \A i \in 0 .. Window : g[i + Window] - g[i] <= 2 * p - 1

\* No counter runs: the last window is over, and gave something only before its end.
Stopped(p, g) == g[Window] <= p - 1 /\ g[1] = 0

\* A counter runs, since a ticks: what it counted was given since then, and in the
\* duration before its start there was room for less than p.  A blocked counter has
\* given nothing since it was blocked, and all p points before.
Fewest(m, n) == IF m <= n THEN m ELSE n
Open(p, used, a, g) ==
  /\ g[a + 1] = Fewest(used, p) /\ g[a] < g[a + 1]
  /\ g[Window] - g[a + 1] <= p - 1
Shut(p, a, g) == g[a] = 0 /\ p <= g[a + Window]
Running(p, blocks, used, left, g) ==
  \A a \in 0 .. Window - 1 :
    a + left = Window => IF blocks /\ used > p THEN Shut(p, a, g) ELSE Open(p, used, a, g)

OneMore(g, f) == f[0] = 0 /\ \A n \in 1 .. 2 * Window : f[n] = g[n] + 1

LEMMA FirstPoint ==
  ASSUME NEW p \in Nat \ {0}, NEW blocks \in BOOLEAN, NEW g, Rising(g), NEW f, OneMore(g, f),
         Bounded(p, g), Stopped(p, g)
  PROVE  Bounded(p, f) /\ Running(p, blocks, 1, Window, f)
  <1>1. /\ Window \in Nat \ {0} /\ 0 \in 0 .. 2 * Window /\ Window \in 0 .. 2 * Window
        /\ Window \in 1 .. 2 * Window /\ 1 \in 1 .. 2 * Window /\ 1 \in 0 .. 2 * Window
    BY WindowIs
  <1>2. g[0] = 0 /\ f[0] = 0 /\ f[Window] = g[Window] + 1 /\ f[1] = g[1] + 1
        /\ g[Window] \in Nat /\ g[1] = 0 /\ g[Window] <= p - 1
    BY <1>1 DEF Rising, OneMore, Stopped
  <1>3. ASSUME NEW i \in 0 .. Window PROVE f[i + Window] - f[i] <= 2 * p - 1
    <2>1. CASE i = 0
      <3>1. i + Window = Window
        BY <1>1, <2>1
      <3>2. f[i + Window] = g[Window] + 1 /\ f[i] = 0
        BY <1>2, <2>1, <3>1
      <3>3. QED BY <1>2, <3>2
    <2>2. CASE i # 0
      <3>1. PICK j \in 1 .. 2 * Window : j = i + Window
        BY <1>1
      <3>2. i \in 1 .. 2 * Window /\ i \in 0 .. 2 * Window /\ j \in 0 .. 2 * Window
        BY <1>1, <2>2
      <3>3. f[j] = g[j] + 1 /\ f[i] = g[i] + 1 /\ g[i] \in Nat /\ g[j] \in Nat
        BY <3>1, <3>2 DEF OneMore, Rising
      <3>4. g[j] - g[i] <= 2 * p - 1
        BY <3>1 DEF Bounded
      <3>5. f[j] - f[i] <= 2 * p - 1
        BY <3>3, <3>4
      <3>6. QED BY <3>1, <3>5
    <2>3. QED BY <2>1, <2>2
  <1>4. ASSUME NEW a \in 0 .. Window - 1, a + Window = Window
        PROVE  ~(blocks /\ 1 > p) /\ Open(p, 1, a, f)
    <2>1. a = 0 /\ a + 1 = 1 /\ 1 <= p /\ ~(1 > p)
      BY <1>1, <1>4
    <2>2. f[a + 1] = 1 /\ f[a] = 0 /\ f[Window] - f[a + 1] <= p - 1
      BY <1>2, <2>1
    <2>3. QED BY <2>1, <2>2 DEF Open, Fewest
  <1>5. QED BY <1>3, <1>4 DEF Bounded, Running

LEMMA AnotherPoint ==
  ASSUME NEW p \in Nat \ {0}, NEW blocks \in BOOLEAN, NEW g, Rising(g), NEW f, OneMore(g, f),
         NEW used \in Nat, used < p, NEW left \in 1 .. Window,
         Bounded(p, g), Running(p, blocks, used, left, g)
  PROVE  Bounded(p, f) /\ Running(p, blocks, used + 1, left, f)
  <1>1. /\ Window \in Nat \ {0} /\ 0 \in 0 .. 2 * Window /\ Window \in 0 .. 2 * Window
        /\ Window \in 1 .. 2 * Window
    BY WindowIs
  <1>2. PICK a \in 0 .. Window - 1 : a + left = Window
    <2>1. Window - left \in 0 .. Window - 1 /\ (Window - left) + left = Window
      BY <1>1
    <2>2. QED BY <2>1
  <1>3. PICK b \in 1 .. 2 * Window : b = a + 1
    BY <1>1
  <1>4. b \in 0 .. 2 * Window /\ a \in 0 .. 2 * Window /\ a \in Nat
    BY <1>1
  <1>5. ~(used > p) /\ Fewest(used, p) = used
    BY DEF Fewest
  <1>6. Open(p, used, a, g)
    BY <1>2, <1>5 DEF Running
  <1>7. g[b] = used /\ g[a] < g[b] /\ g[Window] - g[b] <= p - 1
    BY <1>3, <1>5, <1>6 DEF Open
  <1>8. /\ g[0] = 0 /\ f[0] = 0 /\ f[Window] = g[Window] + 1 /\ f[b] = g[b] + 1
        /\ g[Window] \in Nat /\ g[b] \in Nat /\ g[a] \in Nat
    BY <1>1, <1>4 DEF Rising, OneMore
  <1>9. ASSUME NEW i \in 0 .. Window PROVE f[i + Window] - f[i] <= 2 * p - 1
    <2>1. CASE i = 0
      <3>1. i + Window = Window
        BY <1>1, <2>1
      <3>2. f[i + Window] = g[Window] + 1 /\ f[i] = 0
        BY <1>8, <2>1, <3>1
      <3>3. g[Window] + 1 <= 2 * p - 1
        BY <1>7, <1>8
      <3>4. QED BY <1>8, <3>2, <3>3
    <2>2. CASE i # 0
      <3>1. PICK j \in 1 .. 2 * Window : j = i + Window
        BY <1>1
      <3>2. i \in 1 .. 2 * Window /\ i \in 0 .. 2 * Window /\ j \in 0 .. 2 * Window
        BY <1>1, <2>2
      <3>3. f[j] = g[j] + 1 /\ f[i] = g[i] + 1 /\ g[i] \in Nat /\ g[j] \in Nat
        BY <3>1, <3>2 DEF OneMore, Rising
      <3>4. g[j] - g[i] <= 2 * p - 1
        BY <3>1 DEF Bounded
      <3>5. f[j] - f[i] <= 2 * p - 1
        BY <3>3, <3>4
      <3>6. QED BY <3>1, <3>5
    <2>3. QED BY <2>1, <2>2
  <1>10. Open(p, used + 1, a, f)
    <2>1. f[b] = used + 1 /\ Fewest(used + 1, p) = used + 1
      BY <1>7, <1>8 DEF Fewest
    <2>2. f[a] < f[b]
      <3>1. CASE a = 0
        BY <1>8, <3>1
      <3>2. CASE a # 0
        <4>1. a \in 1 .. 2 * Window
          BY <1>1, <3>2
        <4>2. f[a] = g[a] + 1
          BY <4>1 DEF OneMore
        <4>3. QED BY <1>7, <1>8, <4>2
      <3>3. QED BY <3>1, <3>2
    <2>3. f[Window] - f[b] <= p - 1
      BY <1>7, <1>8
    <2>4. QED BY <1>3, <2>1, <2>2, <2>3 DEF Open
  <1>11. \A c \in 0 .. Window - 1 : c + left = Window => c = a
    BY <1>1, <1>2
  <1>12. ~(used + 1 > p)
    OBVIOUS
  <1>13. QED BY <1>9, <1>10, <1>11, <1>12 DEF Bounded, Running

\* A point too many is refused: its subject was given all p points.
LEMMA OneTooMany ==
  ASSUME NEW p \in Nat \ {0}, NEW blocks \in BOOLEAN, NEW g, Rising(g),
         NEW used \in Nat, p <= used, NEW left \in 1 .. Window,
         Running(p, blocks, used, left, g), NEW more \in Nat, p < more
  PROVE  /\ p <= g[2 * Window]
         /\ Running(p, blocks, more, IF blocks /\ used = p THEN Window ELSE left, g)
  <1>1. /\ Window \in Nat \ {0} /\ 0 \in 0 .. 2 * Window /\ Window \in 0 .. 2 * Window
        /\ 2 * Window \in 0 .. 2 * Window
    BY WindowIs
  <1>2. PICK a \in 0 .. Window - 1 : a + left = Window
    <2>1. Window - left \in 0 .. Window - 1 /\ (Window - left) + left = Window
      BY <1>1
    <2>2. QED BY <2>1
  <1>3. PICK b \in 0 .. 2 * Window : b = a + 1 /\ b <= Window /\ b <= 2 * Window
    <2>1. a + 1 \in 0 .. 2 * Window /\ a + 1 <= Window /\ a + 1 <= 2 * Window
      BY <1>1
    <2>2. QED BY <2>1
  <1>4. PICK c \in 0 .. 2 * Window : c = a + Window /\ c <= 2 * Window
    <2>1. a + Window \in 0 .. 2 * Window /\ a + Window <= 2 * Window
      BY <1>1
    <2>2. QED BY <2>1
  <1>5. Fewest(used, p) = p /\ Fewest(more, p) = p /\ more > p
    BY DEF Fewest
  <1>6. \A i \in 0 .. Window - 1 : i + left = Window => i = a
    BY <1>1, <1>2
  <1>7. /\ g[b] \in Nat /\ g[c] \in Nat /\ g[2 * Window] \in Nat /\ g[Window] \in Nat
        /\ g[b] <= g[2 * Window] /\ g[c] <= g[2 * Window] /\ g[b] <= g[Window] /\ g[0] = 0
    BY <1>1, <1>3, <1>4 DEF Rising
  <1>8. CASE blocks /\ used > p
    <2>1. Shut(p, a, g)
      BY <1>2, <1>8 DEF Running
    <2>2. p <= g[2 * Window]
      BY <1>4, <1>7, <2>1 DEF Shut
    <2>3. ~(used = p)
      BY <1>8
    <2>4. QED BY <1>5, <1>6, <1>8, <2>1, <2>2, <2>3 DEF Running
  <1>9. CASE ~(blocks /\ used > p)
    <2>1. Open(p, used, a, g)
      BY <1>2, <1>9 DEF Running
    <2>2. g[b] = p
      BY <1>3, <1>5, <2>1 DEF Open
    <2>3. p <= g[2 * Window] /\ p <= g[Window]
      BY <1>7, <2>2
    <2>4. CASE blocks
      <3>1. used = p
        BY <1>9, <2>4
      <3>2. \A i \in 0 .. Window - 1 : i + Window = Window => i = 0
        BY <1>1
      <3>3. 0 + Window = Window
        BY <1>1
      <3>4. Shut(p, 0, g)
        BY <1>7, <2>3, <3>3 DEF Shut
      <3>5. QED BY <1>5, <2>3, <2>4, <3>1, <3>2, <3>4 DEF Running
    <2>5. CASE ~blocks
      <3>1. Open(p, more, a, g)
        BY <1>5, <2>1 DEF Open
      <3>2. QED BY <1>6, <2>3, <2>5, <3>1 DEF Running
    <2>6. QED BY <2>4, <2>5
  <1>10. QED BY <1>8, <1>9

\* A tick later, what was given in n ticks was given in n + 1.
OneLater(g, f) == f[0] = 0 /\ \A n \in 0 .. 2 * Window - 1 : f[n + 1] = g[n]

LEMMA LaterBounded ==
  ASSUME NEW p \in Nat \ {0}, NEW g, Rising(g), NEW f, OneLater(g, f), Bounded(p, g)
  PROVE  Bounded(p, f) /\ (Stopped(p, g) => Stopped(p, f))
  <1>1. /\ Window \in Nat \ {0} /\ 0 \in 0 .. 2 * Window /\ Window \in 0 .. 2 * Window
        /\ 0 \in 0 .. 2 * Window - 1 /\ 0 + 1 = 1 /\ 0 + Window = Window /\ 0 \in 0 .. Window
    BY WindowIs
  <1>2. PICK w \in 0 .. 2 * Window - 1 : w + 1 = Window /\ w <= Window /\ w \in 0 .. 2 * Window
    <2>1. /\ Window - 1 \in 0 .. 2 * Window - 1 /\ (Window - 1) + 1 = Window
          /\ Window - 1 <= Window /\ Window - 1 \in 0 .. 2 * Window
      BY <1>1
    <2>2. QED BY <2>1
  <1>3. f[Window] = g[w] /\ g[w] \in Nat /\ g[Window] \in Nat /\ g[w] <= g[Window]
        /\ g[0] = 0 /\ f[0] = 0
    BY <1>1, <1>2 DEF Rising, OneLater
  <1>4. f[1] = 0
    <2>1. f[0 + 1] = g[0]
      BY <1>1 DEF OneLater
    <2>2. QED BY <1>1, <1>3, <2>1
  <1>5. ASSUME NEW i \in 0 .. Window PROVE f[i + Window] - f[i] <= 2 * p - 1
    <2>1. CASE i = 0
      <3>1. f[i + Window] = g[w] /\ f[i] = 0
        BY <1>1, <1>3, <2>1
      <3>2. g[0 + Window] - g[0] <= 2 * p - 1
        BY <1>1 DEF Bounded
      <3>3. g[Window] <= 2 * p - 1
        BY <1>1, <1>3, <3>2
      <3>4. QED BY <1>3, <3>1, <3>3
    <2>2. CASE i # 0
      <3>1. PICK j \in 0 .. Window : j + 1 = i /\ j \in 0 .. 2 * Window - 1 /\ j \in Nat
        <4>1. i - 1 \in 0 .. Window /\ (i - 1) + 1 = i /\ i - 1 \in 0 .. 2 * Window - 1 /\ i - 1 \in Nat
          BY <1>1, <2>2
        <4>2. QED BY <4>1
      <3>2. PICK l \in 0 .. 2 * Window - 1 : l = j + Window /\ l + 1 = i + Window
        <4>1. j + Window \in 0 .. 2 * Window - 1 /\ (j + Window) + 1 = i + Window
          BY <1>1, <3>1
        <4>2. QED BY <4>1
      <3>3. f[i] = g[j] /\ f[i + Window] = g[l]
        BY <3>1, <3>2 DEF OneLater
      <3>4. g[l] - g[j] <= 2 * p - 1
        BY <3>1, <3>2 DEF Bounded
      <3>5. QED BY <3>3, <3>4
    <2>3. QED BY <2>1, <2>2
  <1>6. Stopped(p, g) => Stopped(p, f)
    BY <1>3, <1>4 DEF Stopped
  <1>7. QED BY <1>5, <1>6 DEF Bounded

LEMMA LaterRuns ==
  ASSUME NEW p \in Nat \ {0}, NEW blocks \in BOOLEAN, NEW g, Rising(g), NEW f, OneLater(g, f),
         NEW used \in Nat, NEW left \in 1 .. Window, Running(p, blocks, used, left, g)
  PROVE  /\ left > 1 => Running(p, blocks, used, left - 1, f)
         /\ left = 1 => Stopped(p, f)
  <1>1. /\ Window \in Nat \ {0} /\ 0 \in 0 .. 2 * Window /\ Window \in 0 .. 2 * Window
        /\ 0 \in 0 .. 2 * Window - 1 /\ 0 + 1 = 1
    BY WindowIs
  <1>2. PICK a \in 0 .. Window - 1 : a + left = Window
    <2>1. Window - left \in 0 .. Window - 1 /\ (Window - left) + left = Window
      BY <1>1
    <2>2. QED BY <2>1
  <1>3. PICK w \in 0 .. 2 * Window - 1 : w + 1 = Window /\ w <= Window /\ w \in 0 .. 2 * Window
    <2>1. /\ Window - 1 \in 0 .. 2 * Window - 1 /\ (Window - 1) + 1 = Window
          /\ Window - 1 <= Window /\ Window - 1 \in 0 .. 2 * Window
      BY <1>1
    <2>2. QED BY <2>1
  <1>4. /\ f[Window] = g[w] /\ g[w] \in Nat /\ g[Window] \in Nat /\ g[w] <= g[Window]
        /\ g[0] = 0 /\ f[0] = 0
    BY <1>1, <1>3 DEF Rising, OneLater
  <1>5. f[1] = 0
    <2>1. f[0 + 1] = g[0]
      BY <1>1 DEF OneLater
    <2>2. QED BY <1>1, <1>4, <2>1
  <1>6. /\ a \in 0 .. 2 * Window - 1 /\ a \in 0 .. 2 * Window /\ a \in Nat
        /\ a + 1 \in 0 .. 2 * Window /\ a + Window \in 0 .. 2 * Window - 1
    BY <1>1
  <1>7. g[a] \in Nat /\ g[a + 1] \in Nat
    BY <1>6 DEF Rising
  <1>8. IF blocks /\ used > p THEN Shut(p, a, g) ELSE Open(p, used, a, g)
    BY <1>2 DEF Running
  <1>9. ASSUME left > 1 PROVE Running(p, blocks, used, left - 1, f)
    <2>1. ASSUME NEW b \in 0 .. Window - 1, b + (left - 1) = Window
          PROVE  IF blocks /\ used > p THEN Shut(p, b, f) ELSE Open(p, used, b, f)
      <3>1. b = a + 1 /\ b \in 0 .. 2 * Window - 1
        BY <1>1, <1>2, <2>1
      <3>2. f[b] = g[a] /\ f[b + 1] = g[a + 1]
        BY <1>6, <3>1 DEF OneLater
      <3>3. f[b + Window] = g[a + Window]
        <4>1. b + Window = (a + Window) + 1
          BY <1>1, <3>1
        <4>2. f[(a + Window) + 1] = g[a + Window]
          BY <1>6 DEF OneLater
        <4>3. QED BY <4>1, <4>2
      <3>4. CASE blocks /\ used > p
        <4>1. Shut(p, a, g)
          BY <1>8, <3>4
        <4>2. QED BY <3>2, <3>3, <3>4, <4>1 DEF Shut
      <3>5. CASE ~(blocks /\ used > p)
        <4>1. Open(p, used, a, g)
          BY <1>8, <3>5
        <4>2. f[b + 1] = Fewest(used, p) /\ f[b] < f[b + 1]
          BY <3>2, <4>1 DEF Open
        <4>3. g[Window] - g[a + 1] <= p - 1
          BY <4>1 DEF Open
        <4>4. f[Window] - f[b + 1] <= p - 1
          BY <1>4, <1>7, <3>2, <4>3
        <4>5. QED BY <3>5, <4>2, <4>4 DEF Open
      <3>6. QED BY <3>4, <3>5
    <2>2. QED BY <2>1 DEF Running
  <1>10. ASSUME left = 1 PROVE Stopped(p, f)
    <2>1. a = w /\ a + 1 = Window
      BY <1>1, <1>2, <1>3, <1>10
    <2>2. CASE blocks /\ used > p
      <3>1. g[a] = 0
        BY <1>8, <2>2 DEF Shut
      <3>2. QED BY <1>4, <1>5, <2>1, <3>1 DEF Stopped
    <2>3. CASE ~(blocks /\ used > p)
      <3>1. g[a + 1] = Fewest(used, p) /\ g[a] < g[a + 1]
        BY <1>8, <2>3 DEF Open
      <3>2. Fewest(used, p) <= p /\ Fewest(used, p) \in Nat
        BY DEF Fewest
      <3>3. g[a] <= p - 1
        BY <1>7, <3>1, <3>2
      <3>4. QED BY <1>4, <1>5, <2>1, <3>3 DEF Stopped
    <2>4. QED BY <2>2, <2>3
  <1>11. QED BY <1>9, <1>10

(* The keys of a request count it for its subject. *)

Asked(r) ==
  /\ r.route \in Routes /\ r.client \in Clients /\ r.named \in Clients \cup {NoOne}
  /\ r.object \in IF r.route \in {"forgot", "resend", "generate", "report"}
                 THEN Objects ELSE {NoOne}

\* The keys of one middleware for r.
KeysFor(r, ks) == ks \subseteq Keys /\ \A k \in ks : k = Subject(k.limiter, r)

LEMMA KeyFor ==
  ASSUME NEW r, NEW l \in Limiters, NEW c \in Clients \cup {NoOne}, NEW o \in Objects \cup {NoOne},
         Key(l, c, o) = Subject(l, r)
  PROVE  KeysFor(r, {Key(l, c, o)})
  <1>1. Key(l, c, o) \in Keys /\ Key(l, c, o).limiter = l
    BY DEF Key, Keys
  <1>2. QED BY <1>1 DEF KeysFor

LEMMA StageKeys ==
  ASSUME NEW r, Asked(r)
  PROVE  /\ Stages(r) \in Seq(SUBSET Keys) /\ Len(Stages(r)) \in 1 .. 2
         /\ \A i \in 1 .. Len(Stages(r)) : KeysFor(r, Stages(r)[i])
  <1> DEFINE Fine(t) == /\ t \in Seq(SUBSET Keys) /\ Len(t) \in 1 .. 2
                        /\ \A i \in 1 .. Len(t) : KeysFor(r, t[i])
             ByAddress == {"search", "contact", "tracking"}
             Plain == Limiters \ ({"verification", "reset", "aiDraft", "webhook"} \cup ByAddress)
             Named == r.route \in {"forgot", "resend", "generate", "report"}
  <1>1. ASSUME NEW l \in Plain PROVE KeysFor(r, {Key(l, r.client, NoOne)})
    <2>1. Subject(l, r) = Key(l, r.client, NoOne)
      BY DEF Subject
    <2>2. r.client \in Clients \cup {NoOne} /\ NoOne \in Objects \cup {NoOne}
      BY DEF Asked
    <2>3. QED BY <2>1, <2>2, KeyFor
  <1>2. ASSUME NEW l \in {"verification", "reset"}, Named
        PROVE  KeysFor(r, {Key(l, NoOne, LowerCase[r.object])})
    <2>1. Subject(l, r) = Key(l, NoOne, LowerCase[r.object]) /\ l \in Limiters
      BY DEF Subject, Limiters, Blocking
    <2>2. LowerCase[r.object] \in Objects \cup {NoOne} /\ NoOne \in Clients \cup {NoOne}
      BY <1>2, RateLimitsAssumption DEF Asked
    <2>3. QED BY <2>1, <2>2, KeyFor
  <1>3. Named => /\ KeysFor(r, {Key("aiDraft", r.client, r.object)})
                 /\ KeysFor(r, {Key("webhook", Address(r), r.object)})
    <2>1. /\ Subject("aiDraft", r) = Key("aiDraft", r.client, r.object) /\ "aiDraft" \in Limiters
          /\ Subject("webhook", r) = Key("webhook", Address(r), r.object) /\ "webhook" \in Limiters
      BY DEF Subject, Limiters
    <2>2. /\ r.client \in Clients \cup {NoOne} /\ Address(r) \in Clients \cup {NoOne}
          /\ Named => r.object \in Objects \cup {NoOne}
      BY DEF Asked, Address
    <2>3. QED BY <2>1, <2>2, KeyFor
  <1>3a. ASSUME NEW l \in ByAddress PROVE KeysFor(r, {Key(l, Address(r), NoOne)})
    <2>1. Subject(l, r) = Key(l, Address(r), NoOne) /\ l \in Limiters
      BY DEF Subject, Limiters, Blocking
    <2>2. Address(r) \in Clients \cup {NoOne} /\ NoOne \in Objects \cup {NoOne}
      BY DEF Asked, Address
    <2>3. QED BY <2>1, <2>2, KeyFor
  <1>4. ASSUME NEW a, KeysFor(r, a) PROVE Fine(<<a>>)
    <2>1. a \in SUBSET Keys
      BY <1>4 DEF KeysFor
    <2>2. \A i \in 1 .. Len(<<a>>) : <<a>>[i] = a
      OBVIOUS
    <2>3. <<a>> \in Seq(SUBSET Keys) /\ Len(<<a>>) = 1
      BY <2>1
    <2>4. QED BY <1>4, <2>2, <2>3
  <1>5. ASSUME NEW a, NEW b, KeysFor(r, a), KeysFor(r, b) PROVE Fine(<<a, b>>)
    <2>1. a \in SUBSET Keys /\ b \in SUBSET Keys
      BY <1>5 DEF KeysFor
    <2>2. \A i \in 1 .. Len(<<a, b>>) : <<a, b>>[i] = a \/ <<a, b>>[i] = b
      OBVIOUS
    <2>3. <<a, b>> \in Seq(SUBSET Keys) /\ Len(<<a, b>>) = 2
      BY <2>1
    <2>4. QED BY <1>5, <2>2, <2>3
  <1>6. KeysFor(r, GlobalKeys(r)) /\ KeysFor(r, PhoneVerifyKeys(r)) /\ KeysFor(r, SearchKeys(r))
        /\ KeysFor(r, LikeKeys(r)) /\ KeysFor(r, WalletKeys(r)) /\ KeysFor(r, ContactKeys(r))
        /\ KeysFor(r, ShipmentKeys(r))
    <2>1. {"global", "phone", "like", "wallet", "aiUser"} \subseteq Plain
          /\ "search" \in ByAddress /\ "contact" \in ByAddress /\ "tracking" \in ByAddress
      BY DEF Limiters, Blocking
    <2> HIDE DEF Plain, ByAddress
    <2>2. QED BY <1>1, <1>3a, <2>1 DEF GlobalKeys, PhoneVerifyKeys, SearchKeys, LikeKeys, WalletKeys,
                               ContactKeys, ShipmentKeys
  <1>7. Named => /\ KeysFor(r, PasswordResetKeys(r)) /\ KeysFor(r, EmailVerificationKeys(r))
                 /\ KeysFor(r, WebhookKeys(r)) /\ KeysFor(r, AiKeys(r))
    <2>1. "aiUser" \in Plain
      BY DEF Limiters, Blocking
    <2>2. KeysFor(r, {Key("aiUser", r.client, NoOne)})
      BY <1>1, <2>1
    <2>3. Named => KeysFor(r, {Key("aiDraft", r.client, r.object)})
      BY <1>3
    <2>4. Named => KeysFor(r, AiKeys(r))
      BY <2>2, <2>3 DEF AiKeys, KeysFor
    <2>5. QED BY <1>2, <1>3, <2>4 DEF PasswordResetKeys, EmailVerificationKeys, WebhookKeys
  <1> HIDE DEF Fine
  <1>8. CASE r.route \in {"login", "phone", "search", "toggle", "purchase", "track"}
    <2>1. CASE r.route = "login"
      <3>1. Stages(r) = <<GlobalKeys(r)>>
        BY <2>1 DEF Stages
      <3>2. QED BY <1>4, <1>6, <3>1 DEF Fine
    <2>2. CASE r.route = "phone"
      <3>1. Stages(r) = <<PhoneVerifyKeys(r)>>
        BY <2>2 DEF Stages
      <3>2. QED BY <1>4, <1>6, <3>1 DEF Fine
    <2>3. CASE r.route = "search"
      <3>1. Stages(r) = <<SearchKeys(r)>>
        BY <2>3 DEF Stages
      <3>2. QED BY <1>4, <1>6, <3>1 DEF Fine
    <2>4. CASE r.route = "toggle"
      <3>1. Stages(r) = <<LikeKeys(r)>>
        BY <2>4 DEF Stages
      <3>2. QED BY <1>4, <1>6, <3>1 DEF Fine
    <2>5. CASE r.route = "purchase"
      <3>1. Stages(r) = <<WalletKeys(r)>>
        BY <2>5 DEF Stages
      <3>2. QED BY <1>4, <1>6, <3>1 DEF Fine
    <2>6. CASE r.route = "track"
      <3>1. Stages(r) = <<ShipmentKeys(r)>>
        BY <2>6 DEF Stages
      <3>2. QED BY <1>4, <1>6, <3>1 DEF Fine
    <2>7. QED BY <1>8, <2>1, <2>2, <2>3, <2>4, <2>5, <2>6
  <1>9. CASE r.route = "contact"
    <2>1. Stages(r) = <<GlobalKeys(r), ContactKeys(r)>>
      BY <1>9 DEF Stages
    <2>2. QED BY <1>5, <1>6, <2>1 DEF Fine
  <1>10. CASE Named
    <2>1. CASE r.route = "forgot"
      <3>1. Stages(r) = <<GlobalKeys(r), PasswordResetKeys(r)>>
        BY <2>1 DEF Stages
      <3>2. QED BY <1>5, <1>6, <1>7, <1>10, <3>1 DEF Fine
    <2>2. CASE r.route = "resend"
      <3>1. Stages(r) = <<GlobalKeys(r), EmailVerificationKeys(r)>>
        BY <2>2 DEF Stages
      <3>2. QED BY <1>5, <1>6, <1>7, <1>10, <3>1 DEF Fine
    <2>3. CASE r.route = "generate"
      <3>1. Stages(r) = <<AiKeys(r)>>
        BY <2>3 DEF Stages
      <3>2. QED BY <1>4, <1>7, <1>10, <3>1 DEF Fine
    <2>4. CASE r.route = "report"
      <3>1. Stages(r) = <<WebhookKeys(r)>>
        BY <2>4 DEF Stages
      <3>2. QED BY <1>4, <1>7, <1>10, <3>1 DEF Fine
    <2>5. QED BY <1>10, <2>1, <2>2, <2>3, <2>4
  <1>11. QED BY <1>8, <1>9, <1>10 DEF Asked, Routes

\* They are those of its route, client, header and object.
LEMMA StagesSame ==
  ASSUME NEW r, NEW q, r.route = q.route, r.client = q.client, r.named = q.named,
         r.object = q.object
  PROVE  /\ Stages(r) = Stages(q)
         /\ \A l : Subject(l, r) = Subject(l, q)
         /\ Asked(r) <=> Asked(q)
         /\ \A ks : KeysFor(r, ks) <=> KeysFor(q, ks)
  <1>1. Address(r) = Address(q) /\ \A l : Subject(l, r) = Subject(l, q)
    BY DEF Subject, Key, Address
  <1>2. QED BY <1>1 DEF Stages, Asked, KeysFor, GlobalKeys, PasswordResetKeys, EmailVerificationKeys,
                       ContactKeys, AiKeys, PhoneVerifyKeys, SearchKeys, LikeKeys, WalletKeys,
                       ShipmentKeys, WebhookKeys, Key

\* MostSpent is twice the most points of a limiter.
LEMMA MostIs == MostSpent \in Nat /\ \A l \in Limiters : 2 * Points[l] <= MostSpent
  <1> DEFINE T == {Points[l] : l \in Limiters}
  <1>1. IsFiniteSet(Limiters)
    <2>1. \A S, x : IsFiniteSet(S) => IsFiniteSet(S \cup {x})
      BY FS_AddElement
    <2>2. IsFiniteSet({"global"} \cup {"verification"} \cup {"reset"} \cup {"phone"} \cup {"contact"})
      BY <2>1, FS_Singleton
    <2>3. IsFiniteSet({"aiUser"} \cup {"aiDraft"} \cup {"search"} \cup {"like"} \cup {"wallet"}
                      \cup {"tracking"} \cup {"webhook"})
      BY <2>1, FS_Singleton
    <2>4. Limiters = ({"global"} \cup {"verification"} \cup {"reset"} \cup {"phone"} \cup {"contact"})
                     \cup ({"aiUser"} \cup {"aiDraft"} \cup {"search"} \cup {"like"} \cup {"wallet"}
                           \cup {"tracking"} \cup {"webhook"})
      BY DEF Limiters, Blocking
    <2>5. \A S, R : IsFiniteSet(S) /\ IsFiniteSet(R) => IsFiniteSet(S \cup R)
      BY FS_Union
    <2>6. QED BY <2>2, <2>3, <2>4, <2>5
  <1>2. IsFiniteSet(T)
    <2> DEFINE f == [l \in Limiters |-> Points[l]]
    <2>1. f \in Surjection(Limiters, T)
      BY DEF Surjection
    <2>2. QED BY <1>1, <2>1, FS_Surjection
  <1>3. T \subseteq Nat \ {0}
    BY RateLimitsAssumption
  <1>4. T # {}
    <2>1. "global" \in Limiters
      BY DEF Limiters, Blocking
    <2>2. QED BY <2>1
  <1>5. \A l \in Limiters : Points[l] \in T
    OBVIOUS
  <1> HIDE DEF T
  <1>6. \E x \in T : \A y \in T : x >= y
    <2>1. T \subseteq Int
      BY <1>3
    <2>2. PICK x \in T : \A y \in T : y <= x
      BY <1>2, <1>4, <2>1, GreatestOfFinite
    <2>3. QED BY <2>1, <2>2
  <1>7. PICK m \in T : m = Max(T) /\ \A y \in T : m >= y
    BY <1>6 DEF Max
  <1>8. MostSpent = 2 * m
    BY <1>7 DEF MostSpent, T
  <1>9. m \in Nat /\ \A y \in T : y \in Nat
    BY <1>3
  <1>10. \A y \in T : 2 * y <= 2 * m
    BY <1>7, <1>9
  <1>11. MostSpent \in Nat
    BY <1>8, <1>9
  <1>12. QED BY <1>5, <1>8, <1>10, <1>11

(* The inductive invariant: what each limiter gave each subject is what its counter
   tells, and the keys of a request count it for its subject. *)

Gives(x) == [n \in 0 .. 2 * Window |-> GivenIn(x, n)]
KeySound(x) ==
  /\ Bounded(Points[x.limiter], Gives(x))
  /\ IF x \in DOMAIN counter
     THEN Running(Points[x.limiter], x.limiter \in Blocking, counter[x].used, counter[x].left, Gives(x))
     ELSE Stopped(Points[x.limiter], Gives(x))
RequestSound(s) ==
  /\ limitReq[s].stage = 0 => limitReq[s].keys = {}
  /\ limitReq[s].stage > 0 => /\ Asked(limitReq[s]) /\ KeysFor(limitReq[s], limitReq[s].keys)
                              /\ limitReq[s].stage <= Len(Stages(limitReq[s]))
LimitRequests ==
  [route : Routes, client : Clients \cup {NoOne}, named : Clients \cup {NoOne},
   object : Objects \cup {NoOne}, stage : 0 .. 2, keys : SUBSET Keys, refused : BOOLEAN]
CounterTyped ==
  /\ DOMAIN counter \subseteq Keys
  /\ \A k \in DOMAIN counter :
       counter[k] \in [used : 1 .. Points[k.limiter] + 2, left : 1 .. Window]
Refusals ==
  /\ grounds \in [limiter : Limiters, given : 0 .. 2 * MostSpent]
  /\ grounds.given >= Points[grounds.limiter]
LimitsInv ==
  /\ store \in {"redis", "memory"} /\ served \subseteq Routes
  /\ HistoryTyped /\ CounterTyped /\ Refusals
  /\ limitReq \in [LimitSlots -> LimitRequests]
  /\ \A x \in Keys : KeySound(x)
  /\ \A s \in LimitSlots : RequestSound(s)

LEMMA PointsAre ==
  ASSUME NEW x \in Keys
  PROVE  /\ x.limiter \in Limiters /\ Points[x.limiter] \in Nat \ {0}
         /\ (x.limiter \in Blocking) \in BOOLEAN
  <1>1. x.limiter \in Limiters
    BY DEF Keys
  <1>2. QED BY <1>1, RateLimitsAssumption

LEMMA GivesRising == ASSUME HistoryTyped, NEW x PROVE Rising(Gives(x))
  <1>1. 0 \in 0 .. 2 * Window
    BY WindowIs
  <1>2. QED BY <1>1, GivenGrows DEF Rising, Gives

\* Who was given nothing can be given a window's points.
LEMMA NothingGiven ==
  ASSUME NEW p \in Nat \ {0}
  PROVE  Bounded(p, [n \in 0 .. 2 * Window |-> 0]) /\ Stopped(p, [n \in 0 .. 2 * Window |-> 0])
  <1> DEFINE g == [n \in 0 .. 2 * Window |-> 0]
  <1>1. \A n \in 0 .. 2 * Window : g[n] = 0
    OBVIOUS
  <1>2. Window \in Nat \ {0} /\ Window \in 0 .. 2 * Window /\ 1 \in 0 .. 2 * Window
    BY WindowIs
  <1>3. \A i \in 0 .. Window : i \in 0 .. 2 * Window /\ i + Window \in 0 .. 2 * Window
    BY <1>2
  <1> HIDE DEF g
  <1>4. Stopped(p, g)
    BY <1>1, <1>2 DEF Stopped
  <1>5. Bounded(p, g)
    BY <1>1, <1>3 DEF Bounded
  <1>6. QED BY <1>4, <1>5 DEF g

\* What is left alone stays sound.
LEMMA KeyKept ==
  ASSUME NEW x, KeySound(x), \A n : GivenIn(x, n)' = GivenIn(x, n),
         x \in DOMAIN counter' <=> x \in DOMAIN counter,
         x \in DOMAIN counter => counter'[x] = counter[x]
  PROVE  KeySound(x)'
  <1>1. Gives(x)' = Gives(x)
    BY DEF Gives
  <1>2. QED BY <1>1 DEF KeySound

LEMMA RequestKept ==
  ASSUME NEW s, RequestSound(s), limitReq'[s] = limitReq[s]
  PROVE  RequestSound(s)'
  BY DEF RequestSound

LEMMA HistoryKept ==
  ASSUME HistoryTyped, UNCHANGED spent
  PROVE  HistoryTyped' /\ \A x, n : GivenIn(x, n)' = GivenIn(x, n)
  <1>1. HistoryTyped'
    BY DEF HistoryTyped
  <1>2. ASSUME NEW x, NEW n PROVE GivenIn(x, n)' = GivenIn(x, n)
    <2>1. Spent(x, n)' = Spent(x, n)
      BY DEF Spent, MapThenSumSet, MapThenFoldSet
    <2>2. QED BY <2>1 DEF GivenIn
  <1>3. QED BY <1>1, <1>2

LEMMA LimitsInitInv == LimitsInit => LimitsInv
  <1> SUFFICES ASSUME LimitsInit PROVE LimitsInv
    OBVIOUS
  <1>1. DOMAIN counter = {} /\ DOMAIN spent = {}
    BY DEF LimitsInit
  <1>2. store \in {"redis", "memory"} /\ served \subseteq Routes /\ HistoryTyped /\ CounterTyped
    <2>1. \A r \in Routes : {r} \subseteq Routes
      OBVIOUS
    <2>2. {"login", "contact"} \subseteq Routes
      BY DEF Routes
    <2>3. QED BY <1>1, <2>1, <2>2 DEF LimitsInit, HistoryTyped, CounterTyped
  <1>3. Refusals
    <2>1. "global" \in Limiters
      BY DEF Limiters, Blocking
    <2>2. PICK m \in Nat : m = MostSpent
      BY MostIs
    <2>3. PICK p \in Nat \ {0} : p = Points["global"]
      BY <2>1, RateLimitsAssumption
    <2>4. 2 * p <= m
      BY <2>1, <2>2, <2>3, MostIs
    <2>5. grounds = [limiter |-> "global", given |-> p]
      BY <2>3 DEF LimitsInit
    <2>6. p \in 0 .. 2 * m /\ p >= p
      BY <2>4
    <2>7. QED BY <2>1, <2>2, <2>3, <2>5, <2>6 DEF Refusals
  <1>4. NoRequest \in LimitRequests
    BY DEF LimitRequests, NoRequest, Routes
  <1>5. limitReq \in [LimitSlots -> LimitRequests] /\ \A s \in LimitSlots : RequestSound(s)
    BY <1>4 DEF LimitsInit, RequestSound, NoRequest
  <1>6. ASSUME NEW x \in Keys PROVE KeySound(x)
    <2>1. Gives(x) = [n \in 0 .. 2 * Window |-> 0]
      BY <1>1 DEF Gives, GivenIn
    <2>2. Bounded(Points[x.limiter], Gives(x)) /\ Stopped(Points[x.limiter], Gives(x))
      BY <2>1, NothingGiven, PointsAre
    <2>3. QED BY <1>1, <2>2 DEF KeySound
  <1>7. QED BY <1>2, <1>3, <1>5, <1>6 DEF LimitsInv

LEMMA ArriveKeeps ==
  ASSUME LimitsInv, NEW s \in LimitSlots, NEW r \in Requests, RequestArrives(s, r)
  PROVE  LimitsInv'
  <1> DEFINE q == [route |-> r.route, client |-> r.client, named |-> r.named, object |-> r.object,
                   stage |-> 1, keys |-> Stages(r)[1], refused |-> FALSE]
  <1>1. Asked(r)
    BY RateLimitsAssumption DEF Asked
  <1>2. Len(Stages(r)) \in 1 .. 2 /\ 1 \in 1 .. Len(Stages(r)) /\ KeysFor(r, Stages(r)[1])
    BY <1>1, StageKeys
  <1>3. /\ q.route = r.route /\ q.client = r.client /\ q.named = r.named /\ q.object = r.object
        /\ q.stage = 1 /\ q.keys = Stages(r)[1]
    OBVIOUS
  <1>4. q \in LimitRequests
    <2>1. /\ r.route \in Routes /\ r.client \in Clients \cup {NoOne}
          /\ r.named \in Clients \cup {NoOne} /\ r.object \in Objects \cup {NoOne}
      BY <1>1 DEF Asked
    <2>2. Stages(r)[1] \in SUBSET Keys
      BY <1>2 DEF KeysFor
    <2>3. QED BY <2>1, <2>2 DEF LimitRequests
  <1> HIDE DEF q
  <1>5. limitReq' = [limitReq EXCEPT ![s] = q]
    BY DEF RequestArrives, q
  <1>6. Asked(q) /\ KeysFor(q, q.keys) /\ 1 <= Len(Stages(q))
    <2>1. Stages(q) = Stages(r) /\ (Asked(q) <=> Asked(r)) /\ \A ks : KeysFor(q, ks) <=> KeysFor(r, ks)
      BY <1>3, StagesSame
    <2>2. QED BY <1>1, <1>2, <1>3, <2>1
  <1>7. ASSUME NEW t \in LimitSlots PROVE RequestSound(t)'
    <2>1. CASE t = s
      <3>1. limitReq'[t] = q
        BY <1>5, <2>1 DEF LimitsInv
      <3>2. QED BY <1>3, <1>6, <3>1 DEF RequestSound
    <2>2. CASE t # s
      <3>1. limitReq'[t] = limitReq[t] /\ RequestSound(t)
        BY <1>5, <2>2 DEF LimitsInv
      <3>2. QED BY <3>1, RequestKept
    <2>3. QED BY <2>1, <2>2
  <1>8. HistoryTyped' /\ \A x \in Keys : KeySound(x)'
    <2>1. UNCHANGED <<counter, spent>>
      BY DEF RequestArrives
    <2>2. QED BY <2>1, HistoryKept, KeyKept DEF LimitsInv
  <1>9. limitReq' \in [LimitSlots -> LimitRequests]
    BY <1>4, <1>5 DEF LimitsInv
  <1>10. CounterTyped' /\ Refusals' /\ store' \in {"redis", "memory"} /\ served' \subseteq Routes
    BY DEF RequestArrives, LimitsInv, CounterTyped, Refusals
  <1>11. QED BY <1>7, <1>8, <1>9, <1>10 DEF LimitsInv

LEMMA NextMiddlewareKeeps ==
  ASSUME LimitsInv, NEW s \in LimitSlots, NextMiddleware(s)
  PROVE  LimitsInv'
  <1>1. PICK r \in LimitRequests : r = limitReq[s]
    BY DEF LimitsInv
  <1>2. r.stage > 0 /\ r.stage \in 0 .. 2 /\ Asked(r) /\ r.stage <= Len(Stages(r))
    BY <1>1 DEF NextMiddleware, LimitsInv, RequestSound, LimitRequests
  <1>3. PICK q : /\ limitReq' = [limitReq EXCEPT ![s] = q]
                 /\ \/ q = NoRequest
                    \/ /\ r.stage # Len(Stages(r))
                       /\ q = [r EXCEPT !.stage = r.stage + 1, !.keys = Stages(r)[r.stage + 1]]
    BY <1>1 DEF NextMiddleware
  <1>4. q \in LimitRequests
        /\ (q.stage = 0 => q.keys = {})
        /\ (q.stage > 0 => Asked(q) /\ KeysFor(q, q.keys) /\ q.stage <= Len(Stages(q)))
    <2>1. CASE q = NoRequest
      BY <2>1 DEF LimitRequests, NoRequest, Routes
    <2>2. CASE /\ r.stage # Len(Stages(r))
               /\ q = [r EXCEPT !.stage = r.stage + 1, !.keys = Stages(r)[r.stage + 1]]
      <3>1. PICK n \in 1 .. 2 : n = r.stage + 1 /\ n \in 1 .. Len(Stages(r))
        <4>1. Len(Stages(r)) \in 1 .. 2
          BY <1>2, StageKeys
        <4>2. PICK m \in 1 .. 2 : m = Len(Stages(r))
          BY <4>1
        <4>3. PICK i \in 0 .. 2 : i = r.stage
          BY <1>2
        <4>4. i > 0 /\ i <= m /\ i # m
          BY <1>2, <2>2, <4>2, <4>3
        <4>5. i + 1 \in 1 .. 2 /\ i + 1 \in 1 .. m
          BY <4>4
        <4>6. QED BY <4>2, <4>3, <4>5
      <3>2. KeysFor(r, Stages(r)[n])
        BY <1>2, <3>1, StageKeys
      <3>3. PICK ks \in SUBSET Keys : ks = Stages(r)[n]
        BY <3>2 DEF KeysFor
      <3>4. q = [r EXCEPT !.stage = n, !.keys = ks]
        BY <2>2, <3>1, <3>3
      <3>5. q \in LimitRequests /\ q.route = r.route /\ q.client = r.client /\ q.named = r.named
            /\ q.object = r.object /\ q.stage = n /\ q.keys = ks
        <4>1. n \in 0 .. 2
          OBVIOUS
        <4>2. r \in LimitRequests
          OBVIOUS
        <4>3. QED BY <3>4, <4>1, <4>2 DEF LimitRequests
      <3>6. Stages(q) = Stages(r) /\ (Asked(q) <=> Asked(r)) /\ \A k : KeysFor(q, k) <=> KeysFor(r, k)
        BY <3>5, StagesSame
      <3>7. n > 0 /\ n # 0 /\ n <= Len(Stages(r))
        BY <3>1
      <3>8. QED BY <1>2, <3>2, <3>3, <3>5, <3>6, <3>7
    <2>3. QED BY <1>3, <2>1, <2>2
  <1>5. ASSUME NEW t \in LimitSlots PROVE RequestSound(t)'
    <2>1. CASE t = s
      <3>1. limitReq'[t] = q
        BY <1>3, <2>1 DEF LimitsInv
      <3>2. QED BY <1>4, <3>1 DEF RequestSound
    <2>2. CASE t # s
      <3>1. limitReq'[t] = limitReq[t] /\ RequestSound(t)
        BY <1>3, <2>2 DEF LimitsInv
      <3>2. QED BY <3>1, RequestKept
    <2>3. QED BY <2>1, <2>2
  <1>6. HistoryTyped' /\ \A x \in Keys : KeySound(x)'
    <2>1. UNCHANGED <<counter, spent>>
      BY DEF NextMiddleware
    <2>2. QED BY <2>1, HistoryKept, KeyKept DEF LimitsInv
  <1>7. limitReq' \in [LimitSlots -> LimitRequests]
    BY <1>3, <1>4 DEF LimitsInv
  <1>8. CounterTyped' /\ Refusals' /\ store' \in {"redis", "memory"} /\ served' \subseteq Routes
    BY DEF NextMiddleware, LimitsInv, CounterTyped, Refusals
  <1>9. QED BY <1>5, <1>6, <1>7, <1>8 DEF LimitsInv

LEMMA TickKeeps == ASSUME LimitsInv, Tick PROVE LimitsInv'
  <1>1. HistoryTyped /\ CounterTyped
    BY DEF LimitsInv
  <1>2. HistoryTyped'
    BY <1>1, TickPasses
  <1>3. ASSUME NEW x \in Keys PROVE OneLater(Gives(x), Gives(x)')
    <2>1. GivenIn(x, 0)' = 0 /\ \A n \in 0 .. 2 * Window - 1 : GivenIn(x, n + 1)' = GivenIn(x, n)
      BY <1>1, TickPasses
    <2>2. /\ 0 \in 0 .. 2 * Window
          /\ \A n \in 0 .. 2 * Window - 1 : n \in 0 .. 2 * Window /\ n + 1 \in 0 .. 2 * Window
      BY WindowIs
    <2>3. Gives(x)'[0] = 0
      BY <2>1, <2>2 DEF Gives
    <2>4. ASSUME NEW n \in 0 .. 2 * Window - 1 PROVE Gives(x)'[n + 1] = Gives(x)[n]
      <3>1. Gives(x)[n] = GivenIn(x, n)
        BY <2>2 DEF Gives
      <3>2. PICK m \in 0 .. 2 * Window : m = n + 1
        BY <2>2
      <3>3. Gives(x)'[m] = GivenIn(x, m)'
        BY DEF Gives
      <3>4. GivenIn(x, m)' = GivenIn(x, n)
        BY <2>1, <3>2
      <3>5. QED BY <3>1, <3>2, <3>3, <3>4
    <2>5. QED BY <2>3, <2>4 DEF OneLater
  <1>4. DOMAIN counter' = {k \in DOMAIN counter : counter[k].left > 1}
    BY DEF Tick
  <1>5. ASSUME NEW k \in DOMAIN counter, counter[k].left > 1
        PROVE  /\ counter'[k] = [counter[k] EXCEPT !.left = counter[k].left - 1]
               /\ counter'[k] \in [used : 1 .. Points[k.limiter] + 2, left : 1 .. Window]
               /\ counter'[k].used = counter[k].used /\ counter'[k].left = counter[k].left - 1
    <2>1. counter'[k] = [counter[k] EXCEPT !.left = counter[k].left - 1]
      BY <1>5 DEF Tick
    <2>2. PICK c \in [used : 1 .. Points[k.limiter] + 2, left : 1 .. Window] : c = counter[k]
      BY <1>1 DEF CounterTyped
    <2>3. c.left \in 1 .. Window /\ c.left > 1
      BY <1>5, <2>2
    <2>4. c.left - 1 \in 1 .. Window
      BY <2>3, WindowIs
    <2>5. QED BY <2>1, <2>2, <2>4
  <1>6. CounterTyped'
    BY <1>1, <1>4, <1>5 DEF CounterTyped
  <1>7. ASSUME NEW x \in Keys PROVE KeySound(x)'
    <2> DEFINE p == Points[x.limiter]
               b == x.limiter \in Blocking
    <2>1. PICK g : g = Gives(x)
      OBVIOUS
    <2>2. PICK f : f = Gives(x)'
      OBVIOUS
    <2>3. Rising(g) /\ OneLater(g, f)
      BY <1>1, <1>3, <2>1, <2>2, GivesRising
    <2>4. Bounded(p, g) /\ KeySound(x) /\ p \in Nat \ {0} /\ b \in BOOLEAN
      BY <2>1, PointsAre DEF LimitsInv, KeySound
    <2> HIDE DEF p, b
    <2>5. Bounded(p, f) /\ (Stopped(p, g) => Stopped(p, f))
      BY <2>3, <2>4, LaterBounded
    <2>6. CASE x \notin DOMAIN counter
      <3>1. x \notin DOMAIN counter' /\ Stopped(p, g)
        BY <1>4, <2>1, <2>4, <2>6 DEF KeySound, p
      <3>2. QED BY <2>2, <2>5, <3>1 DEF KeySound, p
    <2>7. CASE x \in DOMAIN counter
      <3>1. PICK used \in Nat : used = counter[x].used
        <4>1. counter[x].used \in 1 .. p + 2
          BY <1>1, <2>7 DEF CounterTyped, p
        <4>2. QED BY <2>4, <4>1
      <3>2. PICK left \in 1 .. Window : left = counter[x].left
        BY <1>1, <2>7 DEF CounterTyped
      <3>3. Running(p, b, used, left, g)
        BY <2>1, <2>4, <2>7, <3>1, <3>2 DEF KeySound, p, b
      <3>4. (left > 1 => Running(p, b, used, left - 1, f)) /\ (left = 1 => Stopped(p, f))
        BY <2>3, <2>4, <3>3, LaterRuns
      <3>5. CASE left > 1
        <4>1. x \in DOMAIN counter' /\ counter'[x].used = used /\ counter'[x].left = left - 1
          BY <1>4, <1>5, <2>7, <3>1, <3>2, <3>5
        <4>2. QED BY <2>2, <2>5, <3>4, <3>5, <4>1 DEF KeySound, p, b
      <3>6. CASE ~(left > 1)
        <4>1. left = 1
          BY <3>6, WindowIs
        <4>2. x \notin DOMAIN counter'
          BY <1>4, <3>2, <3>6
        <4>3. QED BY <2>2, <2>5, <3>4, <4>1, <4>2 DEF KeySound, p
      <3>7. QED BY <3>5, <3>6
    <2>8. QED BY <2>6, <2>7
  <1>8. \A s \in LimitSlots : RequestSound(s)'
    BY DEF Tick, LimitsInv, RequestSound
  <1>9. /\ limitReq' \in [LimitSlots -> LimitRequests] /\ Refusals'
        /\ store' \in {"redis", "memory"} /\ served' \subseteq Routes
    BY DEF Tick, LimitsInv, Refusals
  <1>10. QED BY <1>2, <1>6, <1>7, <1>8, <1>9 DEF LimitsInv

LEMMA LimitsRestartKeeps == ASSUME LimitsInv, LimitsRestart PROVE LimitsInv'
  <1>1. NoRequest \in LimitRequests
    BY DEF LimitRequests, NoRequest, Routes
  <1>2. limitReq' \in [LimitSlots -> LimitRequests] /\ \A s \in LimitSlots : RequestSound(s)'
    BY <1>1 DEF LimitsRestart, RequestSound, NoRequest
  <1>3. store' \in {"redis", "memory"} /\ served' \subseteq Routes /\ Refusals'
    BY DEF LimitsRestart, LimitsInv, Refusals
  <1>4. CASE UNCHANGED <<counter, spent>>
    <2>1. HistoryTyped' /\ \A x \in Keys : KeySound(x)'
      BY <1>4, HistoryKept, KeyKept DEF LimitsInv
    <2>2. CounterTyped'
      BY <1>4 DEF LimitsInv, CounterTyped
    <2>3. QED BY <1>2, <1>3, <2>1, <2>2 DEF LimitsInv
  <1>5. CASE counter' = [k \in {} |-> {}] /\ spent' = [x \in {} |-> {}]
    <2>1. DOMAIN counter' = {} /\ DOMAIN spent' = {}
      BY <1>5
    <2>2. HistoryTyped' /\ CounterTyped'
      BY <2>1 DEF HistoryTyped, CounterTyped
    <2>3. ASSUME NEW x \in Keys PROVE KeySound(x)'
      <3>1. PICK f : f = Gives(x)'
        OBVIOUS
      <3>2. f = [n \in 0 .. 2 * Window |-> 0]
        BY <2>1, <3>1 DEF Gives, GivenIn
      <3>3. Bounded(Points[x.limiter], f) /\ Stopped(Points[x.limiter], f)
        BY <3>2, NothingGiven, PointsAre
      <3>4. QED BY <2>1, <3>1, <3>3 DEF KeySound
    <2>4. QED BY <1>2, <1>3, <2>2, <2>3 DEF LimitsInv
  <1>6. QED BY <1>4, <1>5 DEF LimitsRestart

\* Twice the points at most in each of the last two durations.
LEMMA GivenInTwo ==
  ASSUME NEW p \in Nat \ {0}, NEW g, Rising(g), Bounded(p, g)
  PROVE  /\ g[Window] \in Nat /\ g[2 * Window] \in Nat
         /\ g[Window] <= 2 * p - 1 /\ g[2 * Window] - g[Window] <= 2 * p - 1
  <1>1. /\ Window \in 0 .. Window /\ 0 \in 0 .. Window /\ 0 + Window = Window
        /\ Window + Window = 2 * Window /\ Window \in 0 .. 2 * Window
        /\ 2 * Window \in 0 .. 2 * Window
    BY WindowIs
  <1>2. g[0] = 0 /\ g[Window] \in Nat /\ g[2 * Window] \in Nat
    BY <1>1 DEF Rising
  <1>3. g[0 + Window] - g[0] <= 2 * p - 1
    BY <1>1 DEF Bounded
  <1>4. g[Window + Window] - g[Window] <= 2 * p - 1
    BY <1>1 DEF Bounded
  <1>5. QED BY <1>1, <1>2, <1>3, <1>4

LEMMA ConsumeKeeps ==
  ASSUME LimitsInv, NEW s \in LimitSlots, NEW k \in limitReq[s].keys, Consume(s, k)
  PROVE  LimitsInv'
  <1>1. PICK r \in LimitRequests : r = limitReq[s]
    BY DEF LimitsInv
  <1>2. k \in r.keys /\ r.keys \in SUBSET Keys /\ r.stage \in 0 .. 2 /\ r.refused \in BOOLEAN
    BY <1>1 DEF LimitRequests
  <1>3. r.stage > 0 /\ Asked(r) /\ KeysFor(r, r.keys) /\ r.stage <= Len(Stages(r))
    <2>1. r.stage # 0
      BY <1>1, <1>2 DEF LimitsInv, RequestSound
    <2>2. r.stage > 0
      BY <1>2, <2>1
    <2>3. QED BY <1>1, <2>2 DEF LimitsInv, RequestSound
  <1>4. k \in Keys /\ Subject(k.limiter, limitReq[s]) = k
    BY <1>1, <1>2, <1>3 DEF KeysFor
  <1>5. PICK answer \in BOOLEAN :
          limitReq' = [limitReq EXCEPT ![s].keys = @ \ {k}, ![s].refused = @ \/ answer]
    <2>1. \E answer \in BOOLEAN :
            limitReq' = [limitReq EXCEPT ![s].keys = @ \ {k}, ![s].refused = @ \/ answer]
      <3>1. (~(Counted(k).used <= Points[k.limiter])) \in BOOLEAN /\ TRUE \in BOOLEAN
        OBVIOUS
      <3>2. QED BY <3>1 DEF Consume
    <2>2. QED BY <2>1
  <1>6. PICK q \in LimitRequests :
          /\ q.route = r.route /\ q.client = r.client /\ q.named = r.named /\ q.object = r.object
          /\ q.stage = r.stage /\ q.keys = r.keys \ {k}
          /\ limitReq' = [limitReq EXCEPT ![s] = q]
    <2> DEFINE q == [r EXCEPT !.keys = r.keys \ {k}, !.refused = r.refused \/ answer]
    <2>1. limitReq' = [limitReq EXCEPT ![s] = q]
      BY <1>1, <1>5
    <2>2. r.keys \ {k} \in SUBSET Keys /\ (r.refused \/ answer) \in BOOLEAN
      BY <1>2
    <2>3. /\ q \in LimitRequests
          /\ q.route = r.route /\ q.client = r.client /\ q.named = r.named /\ q.object = r.object
          /\ q.stage = r.stage /\ q.keys = r.keys \ {k}
      <3>1. r \in LimitRequests
        OBVIOUS
      <3>2. QED BY <2>2, <3>1 DEF LimitRequests
    <2> HIDE DEF q
    <2>4. QED BY <2>1, <2>3
  <1>7. limitReq' \in [LimitSlots -> LimitRequests]
    BY <1>6 DEF LimitsInv
  <1>8. ASSUME NEW t \in LimitSlots PROVE RequestSound(t)'
    <2>1. CASE t = s
      <3>1. limitReq'[t] = q
        BY <1>6, <2>1 DEF LimitsInv
      <3>2. Stages(q) = Stages(r) /\ (Asked(q) <=> Asked(r)) /\ \A ks : KeysFor(q, ks) <=> KeysFor(r, ks)
        BY <1>6, StagesSame
      <3>3. KeysFor(r, q.keys)
        BY <1>3, <1>6 DEF KeysFor
      <3>4. q.stage # 0
        BY <1>2, <1>3, <1>6
      <3>5. QED BY <1>3, <1>6, <3>1, <3>2, <3>3, <3>4 DEF RequestSound
    <2>2. CASE t # s
      <3>1. limitReq'[t] = limitReq[t] /\ RequestSound(t)
        BY <1>6, <2>2 DEF LimitsInv
      <3>2. QED BY <3>1, RequestKept
    <2>3. QED BY <2>1, <2>2
  <1>9. store' \in {"redis", "memory"} /\ served' \subseteq Routes
    BY DEF Consume, LimitsInv
  <1>10. CASE UNCHANGED <<counter, spent, grounds>>
    <2>1. HistoryTyped' /\ \A x \in Keys : KeySound(x)'
      BY <1>10, HistoryKept, KeyKept DEF LimitsInv
    <2>2. CounterTyped' /\ Refusals'
      BY <1>10 DEF LimitsInv, CounterTyped, Refusals
    <2>3. QED BY <1>7, <1>8, <1>9, <2>1, <2>2 DEF LimitsInv
  <1> DEFINE p == Points[k.limiter]
             b == k.limiter \in Blocking
             within == Counted(k).used <= p
             counted == [j \in DOMAIN counter \cup {k} |-> IF j = k THEN Counted(k) ELSE counter[j]]
  <1>11. CASE /\ counter' = counted
              /\ spent' = IF within THEN Give(k) ELSE spent
              /\ grounds' = IF within THEN grounds
                            ELSE [limiter |-> k.limiter,
                                  given |-> IF k \in DOMAIN spent THEN Spent(k, 2 * Window) ELSE 0]
    <2>1. PICK g : g = Gives(k)
      OBVIOUS
    <2>2. PICK f : f = Gives(k)'
      OBVIOUS
    <2>3. PICK c : c = Counted(k)
      OBVIOUS
    <2>4. HistoryTyped /\ CounterTyped /\ KeySound(k) /\ Refusals
      BY <1>4 DEF LimitsInv
    <2>5. k.limiter \in Limiters /\ p \in Nat \ {0} /\ b \in BOOLEAN /\ Rising(g)
      BY <1>4, <2>1, <2>4, GivesRising, PointsAre
    <2>6. Bounded(p, g)
      BY <2>1, <2>4 DEF KeySound
    <2>7. DOMAIN counter' = DOMAIN counter \cup {k} /\ counter'[k] = c
          /\ \A j \in DOMAIN counter : j # k => counter'[j] = counter[j]
      <3>1. counter' = [j \in DOMAIN counter \cup {k} |-> IF j = k THEN c ELSE counter[j]]
        BY <1>11, <2>3
      <3>2. QED BY <3>1
    <2>8. Window \in 1 .. Window
      BY WindowIs
    <2>9. /\ c \in [used : 1 .. p + 2, left : 1 .. Window]
          /\ (k \notin DOMAIN counter => c.used = 1 /\ c.left = Window)
          /\ (k \in DOMAIN counter =>
                /\ counter[k].used \in 1 .. p + 2 /\ counter[k].left \in 1 .. Window
                /\ (counter[k].used < p => c.used = counter[k].used + 1 /\ c.left = counter[k].left)
                /\ (p <= counter[k].used =>
                      c.used > p /\ c.left = IF b /\ counter[k].used = p THEN Window
                                             ELSE counter[k].left))
      <3>1. CASE k \notin DOMAIN counter
        <4>1. ~(1 > p + 2)
          BY <2>5
        <4>2. c = [used |-> 1, left |-> Window]
          <5> HIDE DEF p
          <5>1. QED BY <2>3, <3>1, <4>1 DEF Counted, p
        <4>3. 1 \in 1 .. p + 2
          BY <2>5
        <4>4. QED BY <2>8, <3>1, <4>2, <4>3
      <3>2. CASE k \in DOMAIN counter
        <4>1. PICK d \in [used : 1 .. p + 2, left : 1 .. Window] : d = counter[k]
          BY <2>4, <3>2 DEF CounterTyped
        <4>2. PICK u \in 1 .. p + 2 : u = d.used
          BY <4>1
        <4>3. PICK l \in 1 .. Window : l = d.left
          BY <4>1
        <4>4. c = [used |-> IF u + 1 > p + 2 THEN p + 2 ELSE u + 1,
                   left |-> IF b /\ u + 1 = p + 1 THEN Window ELSE l]
          BY <2>3, <3>2, <4>1, <4>2, <4>3 DEF Counted
        <4>5. u \in Nat /\ p \in Nat
          BY <2>5
        <4> HIDE DEF p, b
        <4>6. (IF u + 1 > p + 2 THEN p + 2 ELSE u + 1) \in 1 .. p + 2
          BY <4>5
        <4>7. (u + 1 = p + 1) <=> (u = p)
          BY <4>5
        <4>8. c.left = IF b /\ u = p THEN Window ELSE l
          BY <4>4, <4>7
        <4>9. c \in [used : 1 .. p + 2, left : 1 .. Window]
          BY <2>8, <4>4, <4>6
        <4>10. u < p => c.used = u + 1 /\ u # p
          BY <4>4, <4>5
        <4>11. p <= u => c.used > p
          BY <4>4, <4>5
        <4>12. QED BY <3>2, <4>1, <4>2, <4>3, <4>8, <4>9, <4>10, <4>11
      <3>3. QED BY <3>1, <3>2
    <2>10. CounterTyped'
      BY <1>4, <2>4, <2>7, <2>9 DEF CounterTyped
    <2>11. CASE within
      <3>1. c.used <= p /\ spent' = Give(k) /\ grounds' = grounds
        BY <1>11, <2>3, <2>11
      <3>2. HistoryTyped'
        BY <1>4, <2>4, <3>1, GivesOne
      <3>3. OneMore(g, f)
        <4>1. GivenIn(k, 0)' = 0 /\ \A n \in 1 .. 2 * Window : GivenIn(k, n)' = GivenIn(k, n) + 1
          BY <1>4, <2>4, <3>1, GivesOne
        <4>2. 0 \in 0 .. 2 * Window /\ \A n \in 1 .. 2 * Window : n \in 0 .. 2 * Window
          BY WindowIs
        <4>3. f[0] = 0
          BY <2>2, <4>1, <4>2 DEF Gives
        <4>4. ASSUME NEW n \in 1 .. 2 * Window PROVE f[n] = g[n] + 1
          <5>1. f[n] = GivenIn(k, n)' /\ g[n] = GivenIn(k, n)
            BY <2>1, <2>2, <4>2 DEF Gives
          <5>2. QED BY <4>1, <5>1
        <4>5. QED BY <4>3, <4>4 DEF OneMore
      <3>4. KeySound(k)'
        <4>1. CASE k \notin DOMAIN counter
          <5>1. Stopped(p, g)
            BY <2>1, <2>4, <4>1 DEF KeySound
          <5> HIDE DEF p, b
          <5>2. Bounded(p, f) /\ Running(p, b, 1, Window, f)
            BY <2>5, <2>6, <3>3, <5>1, FirstPoint
          <5>3. QED BY <2>2, <2>7, <2>9, <4>1, <5>2 DEF KeySound, p, b
        <4>2. CASE k \in DOMAIN counter
          <5>1. PICK u \in Nat : u = counter[k].used
            BY <2>5, <2>9, <4>2
          <5>2. PICK l \in 1 .. Window : l = counter[k].left
            BY <2>9, <4>2
          <5>3. u < p
            <6>1. p <= u => c.used > p
              BY <2>9, <4>2, <5>1
            <6>2. c.used \in Nat /\ p \in Nat
              BY <2>5, <2>9
            <6> HIDE DEF p
            <6>3. QED BY <3>1, <6>1, <6>2
          <5>4. Running(p, b, u, l, g)
            BY <2>1, <2>4, <4>2, <5>1, <5>2 DEF KeySound
          <5>5. c.used = u + 1 /\ c.left = l
            BY <2>9, <4>2, <5>1, <5>2, <5>3
          <5> HIDE DEF p, b
          <5>6. Bounded(p, f) /\ Running(p, b, u + 1, l, f)
            BY <2>5, <2>6, <3>3, <5>3, <5>4, AnotherPoint
          <5>7. QED BY <2>2, <2>7, <5>5, <5>6 DEF KeySound, p, b
        <4>3. QED BY <4>1, <4>2
      <3>5. ASSUME NEW x \in Keys, x # k PROVE KeySound(x)'
        <4>1. \A n : GivenIn(x, n)' = GivenIn(x, n)
          BY <1>4, <2>4, <3>1, <3>5, GivesOne
        <4>2. /\ x \in DOMAIN counter' <=> x \in DOMAIN counter
              /\ x \in DOMAIN counter => counter'[x] = counter[x]
          BY <2>7, <3>5
        <4>3. KeySound(x)
          BY DEF LimitsInv
        <4>4. QED BY <4>1, <4>2, <4>3, KeyKept
      <3>6. \A x \in Keys : KeySound(x)'
        BY <3>4, <3>5
      <3>7. Refusals'
        BY <2>4, <3>1 DEF Refusals
      <3>8. QED BY <1>7, <1>8, <1>9, <2>10, <3>2, <3>6, <3>7 DEF LimitsInv
    <2>12. CASE ~within
      <3>1. ~(c.used <= p) /\ spent' = spent
            /\ grounds' = [limiter |-> k.limiter,
                           given |-> IF k \in DOMAIN spent THEN Spent(k, 2 * Window) ELSE 0]
        BY <1>11, <2>3, <2>12
      <3>2. HistoryTyped' /\ \A x, n : GivenIn(x, n)' = GivenIn(x, n)
        BY <2>4, <3>1, HistoryKept
      <3>3. f = g
        BY <2>1, <2>2, <3>2 DEF Gives
      <3>4. PICK m \in Nat : m = c.used /\ p < m
        <4>1. c.used \in Nat /\ p \in Nat
          BY <2>5, <2>9
        <4>2. p < c.used
          <5> HIDE DEF p
          <5>1. QED BY <3>1, <4>1
        <4>3. QED BY <4>1, <4>2
      <3>5. k \in DOMAIN counter
        <4>1. ~(p < 1)
          BY <2>5
        <4>2. QED BY <2>9, <3>4, <4>1
      <3>6. PICK u \in Nat : u = counter[k].used
        BY <2>5, <2>9, <3>5
      <3>7. PICK l \in 1 .. Window : l = counter[k].left
        BY <2>9, <3>5
      <3>8. p <= u
        <4>1. u < p => c.used = u + 1
          BY <2>9, <3>5, <3>6
        <4>2. p \in Nat
          BY <2>5
        <4> HIDE DEF p
        <4>3. QED BY <3>4, <4>1, <4>2
      <3>9. c.left = IF b /\ u = p THEN Window ELSE l
        BY <2>9, <3>5, <3>6, <3>7, <3>8
      <3>10. Running(p, b, u, l, g)
        BY <2>1, <2>4, <3>5, <3>6, <3>7 DEF KeySound
      <3>11. p <= g[2 * Window] /\ Running(p, b, m, IF b /\ u = p THEN Window ELSE l, g)
        <4> HIDE DEF p, b
        <4>1. QED BY <2>5, <3>4, <3>8, <3>10, OneTooMany
      <3>12. KeySound(k)'
        <4> HIDE DEF p, b
        <4>1. QED BY <2>2, <2>6, <2>7, <3>3, <3>4, <3>9, <3>11 DEF KeySound, p, b
      <3>13. ASSUME NEW x \in Keys, x # k PROVE KeySound(x)'
        <4>1. \A n : GivenIn(x, n)' = GivenIn(x, n)
          BY <3>2
        <4>2. /\ x \in DOMAIN counter' <=> x \in DOMAIN counter
              /\ x \in DOMAIN counter => counter'[x] = counter[x]
          BY <2>7, <3>13
        <4>3. KeySound(x)
          BY DEF LimitsInv
        <4>4. QED BY <4>1, <4>2, <4>3, KeyKept
      <3>14. Refusals'
        <4>1. PICK n : n = g[2 * Window]
          OBVIOUS
        <4>2. 2 * Window \in 0 .. 2 * Window
          BY WindowIs
        <4>3. grounds' = [limiter |-> k.limiter, given |-> n]
          BY <2>1, <3>1, <4>1, <4>2 DEF Gives, GivenIn
        <4>4. PICK most \in Nat : most = MostSpent
          BY MostIs
        <4>5. 2 * p <= most
          BY <2>5, <4>4, MostIs
        <4> HIDE DEF p
        <4>6. n \in Nat /\ n <= 2 * (2 * p)
          <5>1. /\ g[Window] \in Nat /\ g[2 * Window] \in Nat
                /\ g[Window] <= 2 * p - 1 /\ g[2 * Window] - g[Window] <= 2 * p - 1
            BY <2>5, <2>6, GivenInTwo
          <5>2. QED BY <2>5, <4>1, <5>1
        <4>7. n \in 0 .. 2 * most /\ n >= p
          BY <2>5, <3>11, <4>1, <4>5, <4>6
        <4>8. QED BY <2>5, <4>3, <4>4, <4>7 DEF Refusals, p
      <3>15. \A x \in Keys : KeySound(x)'
        BY <3>12, <3>13
      <3>16. QED BY <1>7, <1>8, <1>9, <2>10, <3>2, <3>14, <3>15 DEF LimitsInv
    <2>13. QED BY <2>11, <2>12
  <1>12. QED BY <1>4, <1>10, <1>11 DEF Consume

LEMMA LimitsNextInv == ASSUME LimitsInv, [LimitsNext]_limitVars PROVE LimitsInv'
  <1>1. ASSUME NEW s \in LimitSlots, NEW r \in Requests, RequestArrives(s, r) PROVE LimitsInv'
    BY <1>1, ArriveKeeps
  <1>2. ASSUME NEW s \in LimitSlots, NEW k \in limitReq[s].keys, Consume(s, k) PROVE LimitsInv'
    BY <1>2, ConsumeKeeps
  <1>3. ASSUME NEW s \in LimitSlots, NextMiddleware(s) PROVE LimitsInv'
    BY <1>3, NextMiddlewareKeeps
  <1>4. ASSUME UNCHANGED limitVars PROVE LimitsInv'
    <2>1. UNCHANGED <<store, served, counter, limitReq, spent, grounds>>
      BY <1>4 DEF limitVars
    <2>2. HistoryTyped' /\ \A x \in Keys : KeySound(x)'
      BY <2>1, HistoryKept, KeyKept DEF LimitsInv
    <2>3. QED BY <2>1, <2>2 DEF LimitsInv, CounterTyped, Refusals, RequestSound
  <1>5. QED BY <1>1, <1>2, <1>3, <1>4, TickKeeps, LimitsRestartKeeps DEF LimitsNext

LEMMA LimitsHold == LimitsSpec => []LimitsInv
  BY LimitsInitInv, LimitsNextInv, PTL DEF LimitsSpec

\* The entries of the history are within bounds.
LEMMA HistoryBounded ==
  ASSUME LimitsInv
  PROVE  \A x \in DOMAIN spent : spent[x] \in [1 .. 2 * Window -> 0 .. MostSpent]
  <1> SUFFICES ASSUME NEW x \in DOMAIN spent
               PROVE  spent[x] \in [1 .. 2 * Window -> 0 .. MostSpent]
    OBVIOUS
  <1>1. x \in Keys /\ HistoryTyped
    BY DEF LimitsInv, HistoryTyped
  <1>2. PICK h \in [1 .. 2 * Window -> Nat] : h = spent[x]
    BY <1>1 DEF HistoryTyped
  <1>3. PICK p \in Nat \ {0} : p = Points[x.limiter]
    BY <1>1, PointsAre
  <1>4. PICK most \in Nat : most = MostSpent /\ 2 * p <= most
    BY <1>1, <1>3, MostIs, PointsAre
  <1>5. PICK g : g = Gives(x)
    OBVIOUS
  <1>6. Rising(g) /\ Bounded(p, g)
    BY <1>1, <1>3, <1>5, GivesRising DEF LimitsInv, KeySound
  <1>7. \A n \in 0 .. 2 * Window : g[n] = SumUpTo(h, n)
    BY <1>1, <1>2, <1>5, HistorySums DEF Gives, History
  <1>8. Window \in Nat \ {0} /\ 2 * Window \in Nat \ {0}
    BY WindowIs
  <1>9. ASSUME NEW i \in 1 .. 2 * Window PROVE h[i] \in 0 .. most
    <2>1. PICK e \in 0 .. 2 * Window : i = e + 1 /\ e < 2 * Window
      <3>1. i - 1 \in 0 .. 2 * Window /\ i = (i - 1) + 1 /\ i - 1 < 2 * Window
        BY <1>8
      <3>2. QED BY <3>1
    <2>2. SumUpTo(h, e + 1) = SumUpTo(h, e) + h[e + 1]
      BY <1>8, <2>1, SumUpToGrows
    <2>3. i \in 0 .. 2 * Window
      BY <1>8
    <2>4. g[i] = g[e] + h[i] /\ g[i] \in Nat /\ g[e] \in Nat /\ h[i] \in Nat
      <3>1. g[i] = g[e] + h[i]
        BY <1>7, <2>1, <2>2, <2>3
      <3>2. QED BY <2>3, <3>1, <1>6 DEF Rising
    <2>5. /\ g[Window] \in Nat /\ g[2 * Window] \in Nat
          /\ g[Window] <= 2 * p - 1 /\ g[2 * Window] - g[Window] <= 2 * p - 1
      BY <1>6, GivenInTwo
    <2>6. h[i] <= 2 * p - 1
      <3>1. CASE i <= Window
        <4>1. Window \in 0 .. 2 * Window
          BY <1>8
        <4>2. g[i] <= g[Window]
          BY <1>6, <2>3, <3>1, <4>1 DEF Rising
        <4>3. QED BY <2>4, <2>5, <4>2
      <3>2. CASE ~(i <= Window)
        <4>1. /\ Window \in 0 .. 2 * Window /\ 2 * Window \in 0 .. 2 * Window
              /\ Window <= e /\ i <= 2 * Window
          BY <1>8, <2>1, <3>2
        <4>2. g[i] <= g[2 * Window] /\ g[Window] <= g[e]
          BY <1>6, <2>3, <4>1 DEF Rising
        <4>3. QED BY <2>4, <2>5, <4>2
      <3>3. QED BY <3>1, <3>2
    <2>7. QED BY <1>4, <2>4, <2>6
  <1>10. QED BY <1>2, <1>4, <1>9

\* The counters, the requests and the histories of the rate limiters have their types.
THEOREM LimitsTypeCorrect == LimitsSpec => []LimitsTypeOK
  <1>1. LimitsInv => LimitsTypeOK
    <2> SUFFICES ASSUME LimitsInv PROVE LimitsTypeOK
      OBVIOUS
    <2>1. \A x \in DOMAIN spent : spent[x] \in [1 .. 2 * Window -> 0 .. MostSpent]
      BY HistoryBounded
    <2>2. QED BY <2>1 DEF LimitsInv, LimitsTypeOK, HistoryTyped, CounterTyped, Refusals, LimitRequests
  <1>2. QED BY <1>1, LimitsHold, PTL

\* However requests, ticks, failures of the store and restarts interleave, within any
\* duration a limiter lets less than twice its points of one subject pass, and
\* refuses one only if it gave all its points to that subject in the last two.  The
\* subject of the contact form, the search, the tracking and the webhook is the address
\* that the header names, so of these nothing is bounded for a client that names many.
THEOREM GuessesAreSlowed == LimitsSpec => []RateLimited
  <1>1. LimitsInv => RateLimited
    <2> SUFFICES ASSUME LimitsInv PROVE RateLimited
      OBVIOUS
    <2>1. ASSUME NEW x \in DOMAIN spent PROVE Spent(x, Window) <= 2 * Points[x.limiter] - 1
      <3>1. x \in Keys /\ HistoryTyped
        BY DEF LimitsInv, HistoryTyped
      <3>2. PICK p \in Nat \ {0} : p = Points[x.limiter]
        BY <3>1, PointsAre
      <3>3. Bounded(p, Gives(x)) /\ Rising(Gives(x))
        BY <3>1, <3>2, GivesRising DEF LimitsInv, KeySound
      <3>4. Gives(x)[Window] <= 2 * p - 1
        BY <3>3, GivenInTwo
      <3>5. Window \in 0 .. 2 * Window
        BY WindowIs
      <3>6. QED BY <3>2, <3>4, <3>5 DEF Gives, GivenIn
    <2>2. QED BY <2>1 DEF RateLimited, LimitsInv, Refusals
  <1>2. QED BY <1>1, LimitsHold, PTL
-------------------------------------------------------------------------------
(* What holds of Designers for every number of designers. *)

\* A slate of different members of S.
SlateOf(t, S) == /\ t \in Seq(S) /\ Range(t) \subseteq S
                 /\ IsFiniteSet(Range(t)) /\ Cardinality(Range(t)) = Len(t)

\* A pick adds one of the best that are not on the slate yet, or finds nobody.
LEMMA Picked ==
  ASSUME NEW S, NEW candidates \in SUBSET S, NEW score, NEW s, SlateOf(s, S),
         NEW t \in Pick(s, candidates, score)
  PROVE  /\ SlateOf(t, S)
         /\ \/ t = s /\ candidates \subseteq Range(s)
            \/ \E d \in Best(candidates \ Range(s), score) : Range(t) = Range(s) \cup {d}
  <1>1. CASE candidates \ Range(s) = {}
    <2>1. t = s
      BY <1>1 DEF Pick
    <2>2. QED BY <1>1, <2>1
  <1>2. CASE candidates \ Range(s) # {}
    <2>1. PICK d \in Best(candidates \ Range(s), score) : t = Append(s, d)
      BY <1>2 DEF Pick
    <2>2. PICK n \in Nat : n = Len(s)
      BY DEF SlateOf
    <2>3. d \in S /\ d \notin Range(s) /\ s \in Seq(S) /\ Len(s) = n
      BY <2>2 DEF Best, SlateOf
    <2>4. t \in Seq(S) /\ Len(t) = n + 1
      BY <2>1, <2>3
    <2>5. Range(t) = Range(s) \cup {d}
      <3>1. DOMAIN t = 1 .. n + 1 /\ DOMAIN s = 1 .. n
        BY <2>1, <2>3, <2>4
      <3>2. \A i \in 1 .. n : t[i] = s[i]
        BY <2>1, <2>3
      <3>3. t[n + 1] = d
        BY <2>1, <2>3
      <3>4. 1 .. n + 1 = (1 .. n) \cup {n + 1}
        OBVIOUS
      <3>5. QED BY <3>1, <3>2, <3>3, <3>4 DEF Range
    <2>6. IsFiniteSet(Range(t)) /\ Cardinality(Range(t)) = n + 1
      <3>1. /\ IsFiniteSet(Range(s) \cup {d})
            /\ Cardinality(Range(s) \cup {d}) = Cardinality(Range(s)) + 1
        BY <2>3, FS_AddElement DEF SlateOf
      <3>2. Cardinality(Range(s)) = n
        BY <2>3 DEF SlateOf
      <3>3. QED BY <2>5, <3>1, <3>2
    <2>7. Range(t) \subseteq S
      BY <2>3, <2>5 DEF SlateOf
    <2>8. QED BY <2>4, <2>5, <2>6, <2>7 DEF SlateOf
  <1>3. QED BY <1>1, <1>2

LEMMA BlankSlate == ASSUME NEW S PROVE SlateOf(<<>>, S) /\ Range(<<>>) = {}
  <1>1. Range(<<>>) = {}
    BY DEF Range
  <1>2. QED BY <1>1, FS_EmptySet DEF SlateOf

\* The figures have their types, and there are finitely many designers.
DesignersInv ==
  /\ DesignersTypeOK
  /\ IsFiniteSet(Designing)
  /\ SlateFair

\* Every slate that a request can make is fair.
LEMMA SlatesFair ==
  ASSUME IsFiniteSet(Designing), stats \in [Designing -> Stats], NEW slate \in Slates
  PROVE  /\ SlateOf(slate, Designing)
         /\ Len(slate) = Lower(3, Cardinality(Designing)) /\ Len(slate) <= 3
         /\ NewOrLow # {} => Range(slate) \cap NewOrLow # {}
         /\ \A d \in Designing \ Range(slate) : \E e \in Range(slate) :
              Lower(5, stats[e].recentJobs30d) <= Lower(5, stats[d].recentJobs30d)
  <1> DEFINE new == [d \in Designing |-> scoreNew(d)]
             under == [d \in Designing |-> scoreUnder(d)]
             top == Pick(<<>>, Designing, AnyScore)
             second == UNION {Pick(t, NewOrLow, new) : t \in top}
             third == UNION {Pick(t, Designing, under) : t \in second}
             all == UNION {IF Len(t) < 3 THEN Pick(t, Designing, AnyScore) ELSE {t} : t \in third}
  <1>1. PICK t1, t2, t3 :
          /\ t1 \in Pick(<<>>, Designing, AnyScore) /\ t2 \in Pick(t1, NewOrLow, new)
          /\ t3 \in Pick(t2, Designing, under)
          /\ slate \in IF Len(t3) < 3 THEN Pick(t3, Designing, AnyScore) ELSE {t3}
    <2>1. slate \in all
      BY DEF Slates
    <2>2. PICK t3 \in third : slate \in IF Len(t3) < 3 THEN Pick(t3, Designing, AnyScore) ELSE {t3}
      <3> HIDE DEF third
      <3>1. QED BY <2>1
    <2>3. PICK t2 \in second : t3 \in Pick(t2, Designing, under)
      <3> HIDE DEF second, under
      <3>1. QED BY <2>2
    <2>4. PICK t1 \in top : t2 \in Pick(t1, NewOrLow, new)
      <3> HIDE DEF top, new
      <3>1. QED BY <2>3
    <2> HIDE DEF new, under
    <2>5. QED BY <2>2, <2>3, <2>4
  <1>2. NewOrLow \in SUBSET Designing /\ Designing \in SUBSET Designing
    BY DEF NewOrLow
  <1> HIDE DEF new, under, top, second, third, all
  <1>3. /\ SlateOf(t1, Designing)
        /\ \E n \in Nat : n = Cardinality(Range(t1)) /\ n <= 1 /\ (n = 0 => Designing = {})
    <2>1. PICK t0 : t0 = <<>>
      OBVIOUS
    <2>2. SlateOf(t0, Designing) /\ Range(t0) = {}
      BY <2>1, BlankSlate
    <2>3. t1 \in Pick(t0, Designing, AnyScore)
      BY <1>1, <2>1
    <2>4. /\ SlateOf(t1, Designing)
          /\ \/ t1 = t0 /\ Designing \subseteq Range(t0)
             \/ \E d \in Best(Designing \ Range(t0), AnyScore) : Range(t1) = Range(t0) \cup {d}
      BY <1>2, <2>2, <2>3, Picked
    <2>5. CASE t1 = t0 /\ Designing \subseteq Range(t0)
      <3>1. Cardinality(Range(t1)) = 0 /\ Designing = {}
        BY <2>2, <2>5, FS_EmptySet
      <3>2. QED BY <2>4, <3>1
    <2>6. CASE \E d : Range(t1) = {d}
      <3>1. Cardinality(Range(t1)) = 1
        BY <2>6, FS_Singleton
      <3>2. QED BY <2>4, <3>1
    <2>7. QED BY <2>2, <2>4, <2>5, <2>6
  <1>4. PICK n \in Nat : n = Cardinality(Range(t1)) /\ n <= 1 /\ (n = 0 => Designing = {})
    BY <1>3
  <1>5. /\ SlateOf(t2, Designing)
        /\ \/ t2 = t1 /\ NewOrLow \subseteq Range(t1)
           \/ \E d \in Best(NewOrLow \ Range(t1), new) : Range(t2) = Range(t1) \cup {d}
    <2>1. t2 \in Pick(t1, NewOrLow, new)
      BY <1>1
    <2>2. SlateOf(t1, Designing)
      BY <1>3
    <2>3. QED BY <1>2, <2>1, <2>2, Picked
  <1>6. /\ Range(t1) \subseteq Range(t2)
        /\ NewOrLow # {} => Range(t2) \cap NewOrLow # {}
        /\ Cardinality(Range(t2)) = n \/ Cardinality(Range(t2)) = n + 1
    <2>1. CASE t2 = t1 /\ NewOrLow \subseteq Range(t1)
      BY <1>4, <2>1
    <2>2. ASSUME NEW d \in Best(NewOrLow \ Range(t1), new), Range(t2) = Range(t1) \cup {d}
          PROVE  /\ Range(t1) \subseteq Range(t2) /\ Range(t2) \cap NewOrLow # {}
                 /\ Cardinality(Range(t2)) = n + 1
      <3>1. d \in NewOrLow \ Range(t1) /\ IsFiniteSet(Range(t1))
        BY <1>3 DEF Best, SlateOf
      <3>2. Cardinality(Range(t2)) = n + 1
        BY <1>4, <2>2, <3>1, FS_AddElement
      <3>3. QED BY <2>2, <3>1, <3>2
    <2>3. QED BY <1>5, <2>1, <2>2
  <1>7. PICK m \in Nat : m = Cardinality(Range(t2)) /\ (m = n \/ m = n + 1)
    BY <1>6
  <1>8. /\ SlateOf(t3, Designing)
        /\ \/ t3 = t2 /\ Designing \subseteq Range(t2)
           \/ \E d \in Best(Designing \ Range(t2), under) : Range(t3) = Range(t2) \cup {d}
    <2>1. PICK among \in SUBSET Designing : among = Designing
      OBVIOUS
    <2>2. SlateOf(t2, Designing) /\ t3 \in Pick(t2, among, under)
      BY <1>1, <1>5, <2>1
    <2>3. /\ SlateOf(t3, Designing)
          /\ \/ t3 = t2 /\ among \subseteq Range(t2)
             \/ \E d \in Best(among \ Range(t2), under) : Range(t3) = Range(t2) \cup {d}
      <3>1. SlateOf(t3, Designing)
        BY <2>2, Picked
      <3>2. \/ t3 = t2 /\ among \subseteq Range(t2)
            \/ \E d \in Best(among \ Range(t2), under) : Range(t3) = Range(t2) \cup {d}
        BY <2>2, Picked
      <3>3. QED BY <3>1, <3>2
    <2>4. QED BY <2>1, <2>3
  <1>9. /\ Range(t2) \subseteq Range(t3)
        /\ \/ Cardinality(Range(t3)) = m /\ Designing \subseteq Range(t2)
           \/ Cardinality(Range(t3)) = m + 1
    <2>1. CASE t3 = t2 /\ Designing \subseteq Range(t2)
      BY <1>7, <2>1
    <2>2. ASSUME NEW d \in Best(Designing \ Range(t2), under), Range(t3) = Range(t2) \cup {d}
          PROVE  Range(t2) \subseteq Range(t3) /\ Cardinality(Range(t3)) = m + 1
      <3>1. d \notin Range(t2) /\ IsFiniteSet(Range(t2))
        BY <1>5 DEF Best, SlateOf
      <3>2. Cardinality(Range(t3)) = m + 1
        BY <1>7, <2>2, <3>1, FS_AddElement
      <3>3. QED BY <2>2, <3>2
    <2>3. QED BY <1>8, <2>1, <2>2
  <1>10. PICK k \in Nat : /\ k = Cardinality(Range(t3))
                          /\ (k = m /\ Designing \subseteq Range(t2)) \/ k = m + 1
    BY <1>9
  <1>11. t3 \in Seq(Designing) /\ Len(t3) = k /\ k <= 3
    BY <1>4, <1>7, <1>8, <1>10 DEF SlateOf
  <1>12. /\ SlateOf(slate, Designing) /\ Range(t3) \subseteq Range(slate)
         /\ \/ Cardinality(Range(slate)) = k /\ (k = 3 \/ Designing \subseteq Range(t3))
            \/ Cardinality(Range(slate)) = k + 1 /\ k < 3
    <2>1. CASE k < 3
      <3>1. slate \in Pick(t3, Designing, AnyScore)
        BY <1>1, <1>11, <2>1
      <3>2. /\ SlateOf(slate, Designing)
            /\ \/ slate = t3 /\ Designing \subseteq Range(t3)
               \/ \E d \in Best(Designing \ Range(t3), AnyScore) : Range(slate) = Range(t3) \cup {d}
        <4>1. PICK among \in SUBSET Designing : among = Designing
          OBVIOUS
        <4>2. SlateOf(t3, Designing) /\ slate \in Pick(t3, among, AnyScore)
          BY <1>8, <3>1, <4>1
        <4>3. /\ SlateOf(slate, Designing)
              /\ \/ slate = t3 /\ among \subseteq Range(t3)
                 \/ \E d \in Best(among \ Range(t3), AnyScore) : Range(slate) = Range(t3) \cup {d}
          <5>1. SlateOf(slate, Designing)
            BY <4>2, Picked
          <5>2. \/ slate = t3 /\ among \subseteq Range(t3)
                \/ \E d \in Best(among \ Range(t3), AnyScore) : Range(slate) = Range(t3) \cup {d}
            BY <4>2, Picked
          <5>3. QED BY <5>1, <5>2
        <4>4. QED BY <4>1, <4>3
      <3>3. CASE slate = t3 /\ Designing \subseteq Range(t3)
        BY <1>10, <3>2, <3>3
      <3>4. ASSUME NEW d \in Best(Designing \ Range(t3), AnyScore), Range(slate) = Range(t3) \cup {d}
            PROVE  Range(t3) \subseteq Range(slate) /\ Cardinality(Range(slate)) = k + 1
        <4>1. d \notin Range(t3) /\ IsFiniteSet(Range(t3))
          BY <1>8 DEF Best, SlateOf
        <4>2. Cardinality(Range(slate)) = k + 1
          BY <1>10, <3>4, <4>1, FS_AddElement
        <4>3. QED BY <3>4, <4>2
      <3>5. QED BY <2>1, <3>2, <3>3, <3>4
    <2>2. CASE ~(k < 3)
      <3>1. slate = t3 /\ k = 3
        BY <1>1, <1>11, <2>2
      <3>2. QED BY <1>8, <1>10, <3>1
    <2>3. QED BY <2>1, <2>2
  <1>13. PICK l \in Nat : /\ Cardinality(Range(slate)) = l /\ Len(slate) = l
                          /\ \/ l = k /\ (k = 3 \/ Designing \subseteq Range(t3))
                             \/ l = k + 1 /\ k < 3
    BY <1>12 DEF SlateOf
  <1>14. Len(slate) = Lower(3, Cardinality(Designing)) /\ Len(slate) <= 3
    <2>1. l <= 3
      BY <1>11, <1>13
    <2>2. Range(slate) \subseteq Designing
      BY <1>12 DEF SlateOf
    <2>3. PICK c \in Nat : c = Cardinality(Designing)
      BY FS_CardinalityType
    <2>4. l <= c
      BY <1>13, <2>2, <2>3, FS_Subset
    <2>5. CASE Designing \subseteq Range(slate)
      <3>1. Designing = Range(slate)
        BY <2>2, <2>5
      <3>2. c = l
        BY <1>13, <2>3, <3>1
      <3>3. QED BY <1>13, <2>1, <2>3, <3>2 DEF Lower
    <2>6. CASE ~(Designing \subseteq Range(slate))
      <3>1. ~(Designing \subseteq Range(t3)) /\ ~(Designing \subseteq Range(t2)) /\ Designing # {}
        BY <1>9, <1>12, <2>6
      <3>2. n = 1 /\ k = m + 1 /\ ((l = k /\ k = 3) \/ l = k + 1)
        BY <1>4, <1>10, <1>13, <3>1
      <3>3. l = 3
        BY <1>7, <2>1, <3>2
      <3>4. QED BY <1>13, <2>3, <2>4, <3>3 DEF Lower
    <2>7. QED BY <2>5, <2>6
  <1>15. NewOrLow # {} => Range(slate) \cap NewOrLow # {}
    BY <1>6, <1>9, <1>12
  <1>16. ASSUME NEW d \in Designing \ Range(slate)
        PROVE  \E e \in Range(slate) :
                 Lower(5, stats[e].recentJobs30d) <= Lower(5, stats[d].recentJobs30d)
    <2>1. d \notin Range(t2) /\ d \in Designing
      BY <1>9, <1>12
    <2>2. PICK e \in Best(Designing \ Range(t2), under) : Range(t3) = Range(t2) \cup {e}
      BY <1>8, <2>1
    <2>3. e \in Designing /\ e \in Range(slate) /\ under[e] >= under[d]
      BY <1>12, <2>1, <2>2 DEF Best
    <2>4. ASSUME NEW x \in Designing PROVE stats[x].recentJobs30d \in Nat
      BY DesignersAssumption DEF Stats
    <2>5. PICK me \in Nat, md \in Nat :
            me = Lower(5, stats[e].recentJobs30d) /\ md = Lower(5, stats[d].recentJobs30d)
      BY <2>1, <2>3, <2>4 DEF Lower
    <2>6. 6 * (5 - me) >= 6 * (5 - md)
      BY <2>1, <2>3, <2>5 DEF scoreUnder, under
    <2>7. me <= md
      BY <2>5, <2>6
    <2>8. QED BY <2>3, <2>5, <2>7
  <1>17. QED BY <1>12, <1>15, <1>16, <1>14

LEMMA NoOfferIsTyped == NoOffer.slate \in Seq(DesignerIds) /\ Len(NoOffer.slate) <= 3
                        /\ NoOffer.rest \subseteq DesignerIds
  BY DEF NoOffer

LEMMA DesignersStart == DesignersInit => DesignersInv
  <1> SUFFICES ASSUME DesignersInit PROVE DesignersInv
    OBVIOUS
  <1>1. stats = <<>> /\ offer = NoOffer
    BY DEF DesignersInit
  <1>2. Designing = {}
    BY <1>1 DEF Designing
  <1>3. stats \in [Designing -> Stats]
    BY <1>1, <1>2
  <1>4. IsFiniteSet(Designing) /\ SlateFair
    BY <1>1, <1>2, FS_EmptySet DEF SlateFair
  <1>5. QED BY <1>1, <1>2, <1>3, <1>4, NoOfferIsTyped DEF DesignersInv, DesignersTypeOK

LEMMA DesignersStepKeeps == DesignersInv /\ [DesignersNext]_designerVars => DesignersInv'
  <1> SUFFICES ASSUME DesignersInv, [DesignersNext]_designerVars PROVE DesignersInv'
    OBVIOUS
  <1>1. /\ Designing \subseteq DesignerIds /\ stats \in [Designing -> Stats]
        /\ IsFiniteSet(Designing)
    BY DEF DesignersInv, DesignersTypeOK
  <1>2. ASSUME NEW T \in SUBSET DesignerIds, IsFiniteSet(T), stats' \in [T -> Stats],
               offer' = NoOffer
        PROVE  DesignersInv'
    <2>1. Designing' = T
      BY <1>2 DEF Designing
    <2>2. SlateFair'
      BY <1>2 DEF SlateFair, NoOffer
    <2>3. QED BY <1>2, <2>1, <2>2, NoOfferIsTyped DEF DesignersInv, DesignersTypeOK
  <1>3. ASSUME NEW d \in DesignerIds, Join(d) PROVE DesignersInv'
    <2> DEFINE fresh == [joined |-> "lately", reviews |-> "few", recentJobs30d |-> 0]
    <2>1. fresh \in Stats
      BY DesignersAssumption DEF Stats
    <2>2. stats' = [x \in Designing \cup {d} |-> IF x \in Designing THEN stats[x] ELSE fresh]
          /\ offer' = NoOffer
      BY <1>3 DEF Join
    <2> HIDE DEF fresh
    <2>3. stats' \in [Designing \cup {d} -> Stats]
      BY <1>1, <2>1, <2>2
    <2>4. Designing \cup {d} \in SUBSET DesignerIds /\ IsFiniteSet(Designing \cup {d})
      BY <1>1, FS_AddElement
    <2>5. QED BY <1>2, <2>2, <2>3, <2>4
  <1>4. ASSUME NEW d \in Designing, NEW s \in Stats, Change(d, s) PROVE DesignersInv'
    <2>1. stats' \in [Designing -> Stats] /\ offer' = NoOffer
      BY <1>1, <1>4 DEF Change
    <2>2. QED BY <1>1, <1>2, <2>1
  <1>5. ASSUME NEW d \in Designing, MonthPasses(d) \/ CreateReview(d) \/ Assign(d)
        PROVE  \E s \in Stats : Change(d, s)
    <2>1. stats[d] \in Stats
      BY <1>1
    <2>2. CASE MonthPasses(d)
      <3>1. PICK jobs \in JobCounts :
              Change(d, [stats[d] EXCEPT !.joined = "before", !.recentJobs30d = jobs])
        BY <2>2 DEF MonthPasses
      <3>2. [stats[d] EXCEPT !.joined = "before", !.recentJobs30d = jobs] \in Stats
        BY <2>1 DEF Stats
      <3>3. QED BY <3>1, <3>2
    <2>3. CASE Assign(d)
      <3>1. PICK jobs \in JobCounts : Change(d, [stats[d] EXCEPT !.recentJobs30d = jobs])
        BY <2>3 DEF Assign
      <3>2. [stats[d] EXCEPT !.recentJobs30d = jobs] \in Stats
        BY <2>1 DEF Stats
      <3>3. QED BY <3>1, <3>2
    <2>4. CASE CreateReview(d)
      <3>1. Change(d, [stats[d] EXCEPT !.reviews = "many"])
        BY <2>4 DEF CreateReview
      <3>2. [stats[d] EXCEPT !.reviews = "many"] \in Stats
        BY <2>1 DEF Stats
      <3>3. QED BY <3>1, <3>2
    <2>5. QED BY <1>5, <2>2, <2>3, <2>4
  <1>6. CASE Recommend
    <2>1. PICK slate \in Slates : offer' = [slate |-> slate, rest |-> Designing \ Range(slate)]
      BY <1>6 DEF Recommend
    <2>2. stats' = stats /\ Designing' = Designing
      BY <1>6 DEF Recommend, Designing
    <2>3. /\ SlateOf(slate, Designing)
          /\ Len(slate) = Lower(3, Cardinality(Designing)) /\ Len(slate) <= 3
          /\ NewOrLow # {} => Range(slate) \cap NewOrLow # {}
          /\ \A d \in Designing \ Range(slate) : \E e \in Range(slate) :
               Lower(5, stats[e].recentJobs30d) <= Lower(5, stats[d].recentJobs30d)
      BY <1>1, SlatesFair
    <2>4. offer'.slate = slate /\ offer'.rest = Designing \ Range(slate)
      BY <2>1
    <2>5. slate \in Seq(DesignerIds) /\ Range(slate) \subseteq Designing
          /\ Cardinality(Range(slate)) = Len(slate)
      <3>1. slate \in Seq(Designing)
        BY <2>3 DEF SlateOf
      <3>2. QED BY <1>1, <2>3, <3>1 DEF SlateOf
    <2>6. DesignersTypeOK'
      BY <1>1, <2>2, <2>3, <2>4, <2>5 DEF DesignersTypeOK
    <2>7. NewOrLow' = NewOrLow
      BY <2>2 DEF NewOrLow
    <2>8. SlateFair'
      <3>1. Range(slate) \cap (Designing \ Range(slate)) = {}
            /\ Range(slate) \cup (Designing \ Range(slate)) = Designing
        BY <2>5
      <3>2. QED BY <2>2, <2>3, <2>4, <2>5, <2>7, <3>1 DEF SlateFair
    <2>9. QED BY <1>1, <2>2, <2>6, <2>8 DEF DesignersInv
  <1>7. CASE UNCHANGED designerVars
    BY <1>7 DEF designerVars, DesignersInv, DesignersTypeOK, SlateFair, NewOrLow, Designing
  <1>8. QED
    <2>1. ASSUME NEW d \in Designing, MonthPasses(d) \/ CreateReview(d) \/ Assign(d)
          PROVE  DesignersInv'
      BY <1>4, <1>5, <2>1
    <2>2. QED BY <1>3, <1>6, <1>7, <2>1 DEF DesignersNext

LEMMA DesignersInvHolds == DesignersSpec => []DesignersInv
  BY DesignersStart, DesignersStepKeeps, PTL DEF DesignersSpec

\* The figures of designers and the offer keep their types.
THEOREM DesignersTypeCorrect == DesignersSpec => []DesignersTypeOK
  <1>1. DesignersInv => DesignersTypeOK
    BY DEF DesignersInv
  <1>2. QED BY <1>1, DesignersInvHolds, PTL

\* Whatever the number of designers and their figures, an offer is fair: nobody is
\* shown twice or lost between the slate and the rest, somebody new is shown when
\* there is one, and nobody left out has fewer jobs than everybody shown
\* (buildRecommendedSlate).
THEOREM SlatesAreFair == DesignersSpec => []SlateFair
  <1>1. DesignersInv => SlateFair
    BY DEF DesignersInv
  <1>2. QED BY <1>1, DesignersInvHolds, PTL
-------------------------------------------------------------------------------
(* What holds of Search for every number of rows, every page size and every    *)
(* number of changes.                                                          *)

\* A row's place among the rows S, the newest first.
PlaceIn(S, r) == Cardinality({x \in S : x >= r})

LEMMA FiniteRows ==
  ASSUME NEW m \in Nat, NEW S, S \subseteq 1 .. m
  PROVE  IsFiniteSet(S) /\ Cardinality(S) \in Nat
  <1>1. IsFiniteSet(1 .. m)
    BY FS_Interval
  <1>2. IsFiniteSet(S)
    BY <1>1, FS_Subset
  <1>3. QED BY <1>2, FS_CardinalityType

\* Of two sets of rows the one in the other is not the larger, and smaller if they differ.
LEMMA FewerRows ==
  ASSUME NEW m \in Nat, NEW T, T \subseteq 1 .. m, NEW S, S \subseteq T
  PROVE  /\ Cardinality(S) \in Nat /\ Cardinality(T) \in Nat
         /\ Cardinality(S) <= Cardinality(T)
         /\ \A r \in T \ S : Cardinality(S) < Cardinality(T)
  <1>1. IsFiniteSet(T) /\ Cardinality(T) \in Nat
    BY FiniteRows
  <1>2. IsFiniteSet(S) /\ Cardinality(S) \in Nat
    BY FiniteRows
  <1>3. Cardinality(S) <= Cardinality(T)
    BY <1>1, FS_Subset
  <1>4. ASSUME NEW r \in T \ S PROVE Cardinality(S) < Cardinality(T)
    <2>1. S # T
      OBVIOUS
    <2>2. Cardinality(T) # Cardinality(S)
      BY <1>1, <2>1, FS_Subset
    <2>3. QED BY <1>1, <1>2, <1>3, <2>2
  <1>5. QED BY <1>1, <1>2, <1>3, <1>4

LEMMA PlaceBounds ==
  ASSUME NEW m \in Nat, NEW S, S \subseteq 1 .. m, NEW r \in S
  PROVE  PlaceIn(S, r) \in Nat /\ 1 <= PlaceIn(S, r) /\ PlaceIn(S, r) <= Cardinality(S)
  <1> DEFINE A == {x \in S : x >= r}
  <1>0. r \in 1 .. m /\ r >= r
    OBVIOUS
  <1>1. A \subseteq S /\ A \subseteq 1 .. m /\ r \in A /\ {} \subseteq A
    BY <1>0
  <1>2. Cardinality(A) \in Nat /\ Cardinality(A) <= Cardinality(S)
    BY <1>1, FewerRows
  <1>3. Cardinality({}) < Cardinality(A)
    <2> HIDE DEF A
    <2>1. QED BY <1>1, FewerRows
  <1>4. Cardinality({}) = 0
    BY FS_EmptySet
  <1>5. QED BY <1>2, <1>3, <1>4 DEF PlaceIn

\* An older row comes later.
LEMMA OlderLater ==
  ASSUME NEW m \in Nat, NEW S, S \subseteq 1 .. m, NEW r \in S, NEW s \in S, r < s
  PROVE  PlaceIn(S, s) < PlaceIn(S, r)
  <1> DEFINE A == {x \in S : x >= s}
             B == {x \in S : x >= r}
  <1>0. r \in Int /\ s \in Int /\ \A x \in S : x \in Int
    OBVIOUS
  <1>1. A \subseteq B /\ B \subseteq S /\ r \in B \ A
    <2>1. ASSUME NEW x \in S, x >= s PROVE x >= r
      BY <1>0, <2>1
    <2>2. r >= r /\ ~(r >= s)
      BY <1>0
    <2>3. QED BY <2>1, <2>2
  <1>2. Cardinality(A) < Cardinality(B)
    <2> HIDE DEF A, B
    <2>1. B \subseteq 1 .. m
      BY <1>1
    <2>2. QED BY <1>1, <2>1, FewerRows
  <1>3. QED BY <1>2 DEF PlaceIn

\* A set of rows that holds every newer row too, but not r, is smaller than r's place.
LEMMA NewerThan ==
  ASSUME NEW m \in Nat, NEW S, S \subseteq 1 .. m, NEW r \in S,
         NEW P, P \subseteq S, r \notin P, \A x \in P, y \in S : x <= y => y \in P
  PROVE  Cardinality(P) < PlaceIn(S, r)
  <1> DEFINE A == {x \in S : x >= r}
  <1>0. r \in Int /\ \A x \in S : x \in Int
    OBVIOUS
  <1>1. ASSUME NEW x \in P PROVE x \in A
    BY <1>0
  <1>2. P \subseteq A /\ A \subseteq S /\ r \in A \ P
    BY <1>0, <1>1
  <1>3. Cardinality(P) < Cardinality(A)
    <2> HIDE DEF A
    <2>1. A \subseteq 1 .. m
      BY <1>2
    <2>2. QED BY <1>2, <2>1, FewerRows
  <1>4. QED BY <1>3 DEF PlaceIn

\* The places are 1 to the number of rows, without a gap.
LEMMA PlaceTaken ==
  ASSUME NEW m \in Nat, NEW S, S \subseteq 1 .. m, NEW n \in Nat, 1 <= n,
         n <= Cardinality(S)
  PROVE  \E x \in S : PlaceIn(S, x) = n
  <1> DEFINE U == {x \in S : n <= PlaceIn(S, x)}
  <1>1. S # {}
    BY FS_EmptySet
  <1>2. PICK first \in S : \A y \in S : first <= y
    <2>1. S \subseteq Nat
      OBVIOUS
    <2>2. QED BY <1>1, <2>1, LeastNumber
  <1>3. first \in U
    <2>1. {x \in S : x >= first} = S
      BY <1>2
    <2>2. QED BY <2>1 DEF PlaceIn
  <1>4. PICK x \in U : \A y \in U : y <= x
    <2>1. U \subseteq S /\ S \subseteq 0 .. m
      OBVIOUS
    <2>2. U \subseteq 0 .. m /\ U # {}
      BY <1>3, <2>1
    <2>3. QED BY <2>2, GreatestNumber
  <1>5. x \in S /\ n <= PlaceIn(S, x) /\ PlaceIn(S, x) \in Nat
    BY PlaceBounds
  <1>6. SUFFICES ASSUME n < PlaceIn(S, x) PROVE FALSE
    BY <1>5
  <1> DEFINE A == {z \in S : z >= x}
             N == {z \in S : z > x}
  <1>7. IsFiniteSet(A) /\ A \subseteq 1 .. m /\ x \in A /\ N = A \ {x}
    <2>1. A \subseteq 1 .. m
      OBVIOUS
    <2>2. IsFiniteSet(A)
      BY <2>1, FiniteRows
    <2>3. x \in S /\ \A z \in S : z \in Int
      BY <1>5
    <2>4. ASSUME NEW z \in S PROVE z >= x /\ z # x <=> z > x
      BY <2>3
    <2>5. x \in A
      BY <2>3
    <2>6. N = A \ {x}
      BY <2>4
    <2>7. QED BY <2>1, <2>2, <2>5, <2>6
  <1>8. Cardinality(N) = PlaceIn(S, x) - 1
    <2>1. Cardinality(A \ {x}) = Cardinality(A) - 1
      <3> HIDE DEF A
      <3>1. QED BY <1>7, FS_RemoveElement
    <2>2. QED BY <1>7, <2>1 DEF PlaceIn
  <1>9. N # {} /\ N \subseteq Nat
    <2>1. N # {}
      <3> HIDE DEF N
      <3>1. QED BY <1>5, <1>6, <1>8, FS_EmptySet
    <2>2. N \subseteq S /\ S \subseteq Nat
      OBVIOUS
    <2>3. QED BY <2>1, <2>2
  <1>10. PICK y \in N : \A z \in N : y <= z
    <2> HIDE DEF N
    <2>1. QED BY <1>9, LeastNumber
  <1>11. {z \in S : z >= y} = N
    <2>1. ASSUME NEW z \in S, z >= y PROVE z \in N
      BY <2>1, x \in 1 .. m, y \in 1 .. m, z \in 1 .. m
    <2>2. ASSUME NEW z \in N PROVE z >= y
      BY <1>10, z \in 1 .. m, y \in 1 .. m
    <2>3. QED BY <2>1, <2>2
  <1>12. y \in U
    BY <1>5, <1>6, <1>8, <1>11 DEF PlaceIn
  <1>13. QED BY <1>4, <1>12, x \in 1 .. m, y \in 1 .. m

\* The rows S that a client has passed who was shown U, and a page of l of them
\* after the first n.
PassedOf(S, U) == {x \in S : \E s \in U : s <= x}
PageOf(S, n, l) == {r \in S : n < PlaceIn(S, r) /\ PlaceIn(S, r) <= n + l}

\* Who has passed n rows has passed the first n.
LEMMA FirstPassed ==
  ASSUME NEW m \in Nat, NEW S, S \subseteq 1 .. m, NEW U, U \subseteq 1 .. m, NEW n \in Nat,
         n <= Cardinality(PassedOf(S, U)), NEW r \in S, PlaceIn(S, r) <= n
  PROVE  r \in PassedOf(S, U)
  <1> SUFFICES ASSUME r \notin PassedOf(S, U) PROVE FALSE
    OBVIOUS
  <1>1. PassedOf(S, U) \subseteq S
    BY DEF PassedOf
  <1>2. \A x \in PassedOf(S, U), y \in S : x <= y => y \in PassedOf(S, U)
    <2>1. ASSUME NEW x \in PassedOf(S, U), NEW y \in S, x <= y PROVE y \in PassedOf(S, U)
      <3>1. PICK s \in U : s <= x
        BY DEF PassedOf
      <3>2. s \in Int /\ x \in Int /\ y \in Int
        <4>1. x \in S
          BY <1>1
        <4>2. s \in 1 .. m /\ x \in 1 .. m /\ y \in 1 .. m
          BY <4>1
        <4>3. QED BY <4>2
      <3>3. s <= y
        BY <2>1, <3>1, <3>2
      <3>4. QED BY <3>3 DEF PassedOf
    <2>2. QED BY <2>1
  <1>3. Cardinality(PassedOf(S, U)) < PlaceIn(S, r)
    BY <1>1, <1>2, NewerThan
  <1>4. Cardinality(PassedOf(S, U)) \in Nat /\ PlaceIn(S, r) \in Nat
    BY <1>1, FewerRows, PlaceBounds
  <1>5. QED BY <1>3, <1>4

\* Who is shown a page has passed all of it, or there are no more rows than that.
LEMMA PageReaches ==
  ASSUME NEW m \in Nat, NEW S, S \subseteq 1 .. m, NEW U, U \subseteq 1 .. m,
         NEW n \in Nat, NEW l \in Nat \ {0}
  PROVE  \/ n + l <= Cardinality(PassedOf(S, U \cup PageOf(S, n, l)))
         \/ \A r \in S : PlaceIn(S, r) <= n + l
  <1>0. Cardinality(S) \in Nat /\ n + l \in Nat /\ 1 <= n + l /\ n < n + l
    <2>1. Cardinality(S) \in Nat
      BY FiniteRows
    <2>2. QED BY <2>1
  <1>1. CASE n + l <= Cardinality(S)
    <2>1. PICK x \in S : PlaceIn(S, x) = n + l
      BY <1>0, <1>1, PlaceTaken
    <2>2. x \in PageOf(S, n, l)
      BY <1>0, <2>1 DEF PageOf
    <2> DEFINE A == {y \in S : y >= x}
               P == PassedOf(S, U \cup PageOf(S, n, l))
    <2>3. A \subseteq P
      <3>1. \A y \in S : y \in Int
        OBVIOUS
      <3>2. ASSUME NEW y \in S, y >= x PROVE x <= y
        BY <3>1, <3>2
      <3>3. QED BY <2>2, <3>2 DEF PassedOf
    <2>4. P \subseteq 1 .. m
      BY DEF PassedOf
    <2>5. Cardinality(A) <= Cardinality(P)
      <3> HIDE DEF A, P
      <3>1. QED BY <2>3, <2>4, FewerRows
    <2>6. QED BY <2>1, <2>5 DEF PlaceIn
  <1>2. CASE Cardinality(S) < n + l
    <2>1. ASSUME NEW r \in S PROVE PlaceIn(S, r) <= n + l
      <3>1. PlaceIn(S, r) \in Nat /\ PlaceIn(S, r) <= Cardinality(S)
        BY PlaceBounds
      <3>2. QED BY <1>0, <1>2, <3>1
    <2>2. QED BY <2>1
  <1>3. QED BY <1>0, <1>1, <1>2

\* A page that starts before the last row is not empty.
LEMMA PageNotEmpty ==
  ASSUME NEW m \in Nat, NEW S, S \subseteq 1 .. m, NEW n \in Nat, NEW l \in Nat \ {0},
         n < Cardinality(S)
  PROVE  Cardinality(PageOf(S, n, l)) \in Nat \ {0}
  <1>1. Cardinality(S) \in Nat
    BY FiniteRows
  <1>2. PICK x \in S : PlaceIn(S, x) = n + 1
    <2>1. n + 1 \in Nat /\ 1 <= n + 1 /\ n + 1 <= Cardinality(S)
      BY <1>1
    <2>2. QED BY <2>1, PlaceTaken
  <1>3. x \in PageOf(S, n, l)
    BY <1>2 DEF PageOf
  <1>4. PageOf(S, n, l) \subseteq S
    BY DEF PageOf
  <1>5. IsFiniteSet(PageOf(S, n, l)) /\ Cardinality(PageOf(S, n, l)) \in Nat
    BY <1>4, FiniteRows
  <1>6. QED BY <1>3, <1>5, FS_EmptySet

\* Who was shown U was shown every row of T that is passed, and has passed n rows
\* unless T was shown completely.
NoneLeft(S, U, T, n) ==
  /\ T \cap PassedOf(S, U) \subseteq U
  /\ T \subseteq U \/ n <= Cardinality(PassedOf(S, U))

\* That remains so when the client reads a page more.
LEMMA PageSkipsNothing ==
  ASSUME NEW m \in Nat, NEW S, S \subseteq 1 .. m, NEW U, U \subseteq 1 .. m,
         NEW n \in Nat, NEW l \in Nat \ {0}, NEW T, T \subseteq S,
         NoneLeft(S, U, T, n)
  PROVE  NoneLeft(S, U \cup PageOf(S, n, l), T, n + l)
  <1> DEFINE W == U \cup PageOf(S, n, l)
  <1>1. ASSUME NEW r \in T, PlaceIn(S, r) <= n + l PROVE r \in W
    <2>1. PlaceIn(S, r) \in Nat
      BY PlaceBounds
    <2>2. CASE n < PlaceIn(S, r)
      BY <1>1, <2>2 DEF PageOf
    <2>3. CASE PlaceIn(S, r) <= n
      <3>1. n <= Cardinality(PassedOf(S, U)) => r \in PassedOf(S, U)
        BY <2>3, FirstPassed
      <3>2. QED BY <3>1 DEF NoneLeft
    <2>4. QED BY <2>1, <2>2, <2>3
  <1>2. ASSUME NEW r \in T \cap PassedOf(S, W) PROVE r \in W
    <2>1. PICK s \in W : s <= r
      BY DEF PassedOf
    <2>2. CASE s \in U
      BY <2>1, <2>2 DEF PassedOf, NoneLeft
    <2>3. CASE s \in PageOf(S, n, l)
      <3>1. s \in S /\ PlaceIn(S, s) <= n + l
        BY <2>3 DEF PageOf
      <3>2. r \in S /\ s \in Int /\ r \in Int
        BY <3>1
      <3>3. CASE s = r
        BY <1>1, <3>1, <3>3
      <3>4. CASE s < r
        <4>1. PlaceIn(S, r) < PlaceIn(S, s)
          BY <3>1, <3>2, <3>4, OlderLater
        <4>2. PlaceIn(S, r) \in Nat /\ PlaceIn(S, s) \in Nat
          BY <3>1, <3>2, PlaceBounds
        <4>3. QED BY <1>1, <3>1, <4>1, <4>2
      <3>5. QED BY <2>1, <3>2, <3>3, <3>4
    <2>4. QED BY <2>2, <2>3
  <1>3. T \subseteq W \/ n + l <= Cardinality(PassedOf(S, W))
    BY <1>1, PageReaches
  <1>4. QED BY <1>2, <1>3 DEF NoneLeft

\* Who was not shown a row of T has not passed all rows.
LEMMA MoreToCome ==
  ASSUME NEW m \in Nat, NEW S, S \subseteq 1 .. m, NEW U, U \subseteq 1 .. m, NEW T, T \subseteq S,
         T \cap PassedOf(S, U) \subseteq U, ~(T \subseteq U)
  PROVE  /\ Cardinality(PassedOf(S, U)) \in Nat /\ Cardinality(S) \in Nat
         /\ Cardinality(PassedOf(S, U)) < Cardinality(S)
  <1>1. PassedOf(S, U) \subseteq S
    BY DEF PassedOf
  <1>2. PICK r \in T : r \notin U
    OBVIOUS
  <1>3. r \in S \ PassedOf(S, U)
    BY <1>2
  <1>4. QED BY <1>1, <1>3, FewerRows

\* A kind that is still to be read, wholly or in part; one whose page has been read.
Pending(k) == \E i \in DOMAIN search.kinds : search.kinds[i] = k
HasRead(k) == InSearched(k) /\ (Pending(k) => Current(k) /\ "items" \notin search.left)

\* How many rows of the kind the client has been led past.
LedPast(k) == Skip(search) + (IF HasRead(k) THEN search.limit ELSE 0)

SearchRequests ==
  [type : Types, limit : Limits, page : 1 .. MaxPage, kinds : Seq(Kinds),
   left : SUBSET {"items", "count"}, total : Nat, rows : Nat,
   answer : {"none", "more", "last"}]

\* The kinds are read one after another, and then comes the answer.
SearchShape ==
  /\ search \in SearchRequests
  /\ search.kinds \in {Searched(search.type), <<>>}
       \cup (IF search.type = "all" THEN {<<"designers">>} ELSE {})
  /\ search.left \in {{"items", "count"}, {"items"}, {"count"}}
  /\ search.kinds = <<>> => search.left = {"items", "count"}
  /\ Answered => search.kinds = <<>>
  /\ search.answer = "more" => hasMore(search)
  /\ search.answer = "last" => ~hasMore(search)

\* What is to be read is what was searched for.
LEMMA KindsToRead ==
  ASSUME SearchShape, NEW k \in Kinds
  PROVE  /\ Current(k) => Pending(k)
         /\ Pending(k) => InSearched(k)
         /\ search.kinds = <<>> => ~Pending(k) /\ ~Current(k)
         /\ search.kinds = Searched(search.type) => (Pending(k) <=> InSearched(k))
         /\ InSearched(k) <=> search.type \in {"all", k}
  <1>1. search.type \in Types
    BY DEF SearchShape, SearchRequests
  <1>2. CASE search.type = "all"
    <2>1. search.kinds \in {<<"templates", "designers">>, <<"designers">>, <<>>}
      BY <1>2 DEF SearchShape, Searched
    <2>2. Searched(search.type) = <<"templates", "designers">>
      BY <1>2 DEF Searched
    <2>3. QED BY <1>2, <2>1, <2>2 DEF Pending, Current, InSearched, Kinds
  <1>3. CASE search.type = "projects"
    <2>1. search.kinds = <<>> /\ Searched(search.type) = <<>>
      BY <1>3 DEF SearchShape, Searched
    <2>2. QED BY <1>3, <2>1 DEF Pending, Current, InSearched, Kinds
  <1>4. CASE search.type \in Kinds
    <2>1. Searched(search.type) = <<search.type>>
      BY <1>4 DEF Searched, Kinds
    <2>2. search.kinds \in {<<search.type>>, <<>>}
      BY <1>4, <2>1 DEF SearchShape, Kinds
    <2>3. QED BY <1>4, <2>1, <2>2 DEF Pending, Current, InSearched, Kinds
  <1>5. QED BY <1>1, <1>2, <1>3, <1>4 DEF Types, Kinds

\* When both statements about a kind have run it is no longer to be read.
LEMMA StatementRuns ==
  ASSUME SearchShape, NEW k \in Kinds, Current(k), NEW query \in {"items", "count"},
         query \in search.left, NEW req \in SearchRequests,
         req.type = search.type, req.limit = search.limit, req.page = search.page,
         req.kinds = search.kinds, req.left = search.left, req.answer = search.answer,
         search' = Ran(query, req)
  PROVE  /\ SearchShape'
         /\ search'.type = search.type /\ search'.limit = search.limit
         /\ search'.page = search.page /\ search.answer = "none" /\ search'.answer = "none"
         /\ search'.total = req.total /\ search'.rows = req.rows
         /\ IF search.left = {query}
              THEN /\ search'.left = {"items", "count"} /\ ~Current(k)'
                   /\ \A j \in Kinds : Pending(j)' <=> (Pending(j) /\ j # k)
              ELSE /\ search'.left = search.left \ {query} /\ Current(k)'
                   /\ \A j \in Kinds : Pending(j)' <=> Pending(j)
  <1>1. search.kinds # <<>> /\ search.answer = "none" /\ search.type \in Types
    BY DEF Current, SearchShape, Answered, SearchRequests
  <1>2. CASE search.left = {query}
    <2>1. search' = [req EXCEPT !.kinds = Tail(req.kinds), !.left = {"items", "count"}]
      BY <1>2 DEF Ran
    <2>2. search.kinds \in Seq(Kinds) /\ Tail(search.kinds) \in Seq(Kinds)
      BY <1>1 DEF SearchShape, SearchRequests
    <2>3. /\ search'.kinds = Tail(search.kinds) /\ search'.left = {"items", "count"}
          /\ search'.type = search.type /\ search'.limit = search.limit
          /\ search'.page = search.page /\ search'.answer = "none"
          /\ search'.total = req.total /\ search'.rows = req.rows /\ search' \in SearchRequests
      <3>1. ASSUME NEW kinds \in Seq(Kinds),
                   search' = [req EXCEPT !.kinds = kinds, !.left = {"items", "count"}]
            PROVE  /\ search'.kinds = kinds /\ search'.left = {"items", "count"}
                   /\ search'.type = req.type /\ search'.limit = req.limit
                   /\ search'.page = req.page /\ search'.answer = req.answer
                   /\ search'.total = req.total /\ search'.rows = req.rows
                   /\ search' \in SearchRequests
        BY <3>1 DEF SearchRequests
      <3>2. search' = [req EXCEPT !.kinds = Tail(search.kinds), !.left = {"items", "count"}]
        BY <2>1
      <3>3. QED BY <1>1, <2>2, <3>1, <3>2
    <2>4. /\ search'.kinds \in {Searched(search'.type), <<>>}
                \cup (IF search'.type = "all" THEN {<<"designers">>} ELSE {})
          /\ ~Current(k)'
          /\ \A j \in Kinds : Pending(j)' <=> (Pending(j) /\ j # k)
      <3>1. CASE search.kinds = <<"templates", "designers">>
        <4>1. k = "templates" /\ search'.kinds = <<"designers">> /\ search.type = "all"
          BY <1>1, <2>3, <3>1 DEF Current, SearchShape, Searched, Types
        <4>2. ~Current(k)'
          BY <4>1 DEF Current
        <4>3. ASSUME NEW j \in Kinds PROVE Pending(j)' <=> (Pending(j) /\ j # k)
          <5>1. Pending(j)' <=> j = "designers"
            BY <4>1 DEF Pending
          <5>2. Pending(j) <=> j \in {"templates", "designers"}
            BY <3>1 DEF Pending
          <5>3. QED BY <4>1, <5>1, <5>2 DEF Kinds
        <4>4. QED BY <2>3, <4>1, <4>2, <4>3
      <3>2. CASE search.kinds = <<"designers">>
        <4>1. k = "designers" /\ search'.kinds = <<>>
          BY <2>3, <3>2 DEF Current
        <4>2. QED BY <2>3, <3>2, <4>1 DEF Current, Pending, Kinds
      <3>3. CASE search.kinds = <<"templates">>
        <4>1. k = "templates" /\ search'.kinds = <<>>
          BY <2>3, <3>3 DEF Current
        <4>2. QED BY <2>3, <3>3, <4>1 DEF Current, Pending, Kinds
      <3>4. search.kinds \in {<<"templates", "designers">>, <<"designers">>, <<"templates">>}
        BY <1>1 DEF SearchShape, Searched, Types
      <3>5. QED BY <3>1, <3>2, <3>3, <3>4
    <2>5. SearchShape'
      BY <2>3, <2>4 DEF SearchShape, Answered
    <2>6. QED BY <1>1, <1>2, <2>3, <2>4, <2>5
  <1>3. CASE search.left # {query}
    <2>1. /\ search' = [req EXCEPT !.left = req.left \ {query}]
          /\ req.left \ {query} \in SUBSET {"items", "count"}
      BY <1>3 DEF Ran, SearchRequests
    <2>2. /\ search'.kinds = search.kinds /\ search'.left = search.left \ {query}
          /\ search'.type = search.type /\ search'.limit = search.limit
          /\ search'.page = search.page /\ search'.answer = "none"
          /\ search'.total = req.total /\ search'.rows = req.rows /\ search' \in SearchRequests
      BY <1>1, <2>1 DEF SearchRequests
    <2>3. search'.left \in {{"items"}, {"count"}}
      BY <1>3, <2>2 DEF SearchShape
    <2>4. SearchShape'
      BY <1>1, <2>2, <2>3 DEF SearchShape, Answered
    <2>5. Current(k)' /\ \A j \in Kinds : Pending(j)' <=> Pending(j)
      BY <2>2 DEF Current, Pending
    <2>6. QED BY <1>1, <1>3, <2>2, <2>4, <2>5
  <1>4. QED BY <1>2, <1>3

\* A row is shown again only if it moved, and passed over only if another went.
NoneTwice(k) ==
  k \notin pushed =>
    \A r \in viewed[k] \cap matching[k] : PlaceIn(matching[k], r) <= LedPast(k)
NoneSkipped(k) ==
  k \notin slipped /\ InSearched(k) =>
    NoneLeft(matching[k], viewed[k], stayed[k], LedPast(k))

\* The sum of the counts is not too small: for a kind that was counted and not read,
\* and for one that was counted and read.
CountTold(k) ==
  k \notin mixed =>
    /\ Current(k) /\ search.left = {"items"} => Cardinality(matching[k]) <= search.total
    /\ InSearched(k) /\ ~Pending(k) /\ k \notin slipped =>
         \/ stayed[k] \subseteq viewed[k]
         \/ Skip(search) + search.limit < search.total

KindInv(k) ==
  /\ stayed[k] \subseteq matching[k]
  /\ ~InSearched(k) => viewed[k] = {}
  /\ NoneTwice(k) /\ NoneSkipped(k) /\ CountTold(k)

\* While no row goes, a search for one kind counts no more rows than there are, and
\* comes to a page only if it has rows.
PagesFilled ==
  ~fewer /\ search.type # "all" =>
    /\ search.type = "projects" => search.page = 1 /\ search.total = 0
    /\ \A k \in Kinds : search.type = k =>
         /\ search.total <= Cardinality(matching[k])
         /\ Pending(k) /\ "count" \in search.left => search.total = 0
         /\ search.page > 1 => Skip(search) < Cardinality(matching[k])
         /\ search.page > 1 /\ HasRead(k) => search.rows > 0

SearchInv ==
  /\ SearchTypeOK /\ SearchShape /\ again \subseteq pushed
  /\ \A k \in Kinds : KindInv(k)
  /\ PagesFilled

LEMMA Skipped ==
  ASSUME NEW page \in Nat \ {0}, NEW limit \in Nat \ {0}, NEW next \in Nat, next = page + 1
  PROVE  /\ (page - 1) * limit \in Nat
         /\ (next - 1) * limit = (page - 1) * limit + limit
  <1>1. PICK p \in Nat : page = p + 1
    <2>1. page - 1 \in Nat /\ page = (page - 1) + 1
      OBVIOUS
    <2>2. QED BY <2>1
  <1>2. page - 1 = p /\ next - 1 = p + 1
    BY <1>1
  <1>3. p * limit \in Nat /\ (p + 1) * limit = p * limit + limit
    OBVIOUS
  <1>4. QED BY <1>2, <1>3

LEMMA NoneSkippedYet == ASSUME NEW limit \in Nat \ {0} PROVE (1 - 1) * limit = 0
  OBVIOUS

LEMMA SearchNumbers ==
  ASSUME SearchTypeOK, SearchShape
  PROVE  /\ MaxRows \in Nat /\ search.page \in Nat \ {0} /\ search.limit \in Nat \ {0}
         /\ Skip(search) \in Nat /\ search.total \in Nat /\ search.rows \in Nat
         /\ \A k \in Kinds :
              /\ matching[k] \subseteq 1 .. MaxRows /\ viewed[k] \subseteq 1 .. MaxRows
              /\ Cardinality(matching[k]) \in Nat
              /\ LedPast(k) \in Nat /\ LedPast(k) <= Skip(search) + search.limit
              /\ LedPast(k) = IF HasRead(k) THEN Skip(search) + search.limit ELSE Skip(search)
  <1>1. MaxRows \in Nat /\ search.page \in Nat \ {0} /\ search.limit \in Nat \ {0}
    <2>1. search.page \in 1 .. MaxPage /\ search.limit \in Limits
      BY DEF SearchShape, SearchRequests
    <2>2. MaxRows \in Nat /\ MaxPage \in Nat /\ Limits \subseteq Nat \ {0}
      BY SearchAssumption
    <2>3. ASSUME NEW p \in 1 .. MaxPage PROVE p \in Nat \ {0}
      BY <2>2
    <2>4. search.page \in Nat \ {0}
      BY <2>1, <2>3
    <2>5. QED BY <2>1, <2>2, <2>4
  <1>2. Skip(search) \in Nat
    <2>1. PICK next \in Nat : next = search.page + 1
      BY <1>1
    <2>2. QED BY <1>1, <2>1, Skipped DEF Skip
  <1>3. ASSUME NEW k \in Kinds
        PROVE  /\ matching[k] \subseteq 1 .. MaxRows /\ viewed[k] \subseteq 1 .. MaxRows
               /\ Cardinality(matching[k]) \in Nat
    <2>1. matching[k] \subseteq 1 .. MaxRows /\ viewed[k] \subseteq 1 .. MaxRows
      BY DEF SearchTypeOK, Sets, Rows
    <2>2. QED BY <1>1, <2>1, FiniteRows
  <1>4. ASSUME NEW k \in Kinds
        PROVE  /\ LedPast(k) \in Nat /\ LedPast(k) <= Skip(search) + search.limit
               /\ LedPast(k) = IF HasRead(k) THEN Skip(search) + search.limit ELSE Skip(search)
    BY <1>1, <1>2 DEF LedPast
  <1>5. search.total \in Nat /\ search.rows \in Nat
    BY DEF SearchShape, SearchRequests
  <1>6. QED BY <1>1, <1>2, <1>3, <1>4, <1>5

\* What does not concern a kind leaves what holds of it.
LEMMA KindKept ==
  ASSUME NEW k \in Kinds, KindInv(k), SearchTypeOK, SearchShape, SearchTypeOK', SearchShape',
         search'.type = search.type, search'.limit = search.limit, search'.page = search.page,
         search.total <= search'.total,
         matching'[k] = matching[k], viewed'[k] = viewed[k], stayed'[k] = stayed[k],
         k \in pushed => k \in pushed', k \in slipped => k \in slipped',
         k \in mixed => k \in mixed',
         Pending(k)' <=> Pending(k), HasRead(k)' <=> HasRead(k),
         Current(k)' /\ search'.left = {"items"} => Current(k) /\ search.left = {"items"}
  PROVE  KindInv(k)'
  <1>1. InSearched(k)' <=> InSearched(k)
    BY DEF InSearched, Searched
  <1>2. Skip(search)' = Skip(search)
    BY DEF Skip
  <1>3. LedPast(k)' = LedPast(k)
    BY <1>2 DEF LedPast
  <1>4. /\ Skip(search) \in Nat /\ search.limit \in Nat /\ search.total \in Nat
        /\ search'.total \in Nat /\ Cardinality(matching[k]) \in Nat
    BY SearchNumbers DEF SearchShape, SearchRequests
  <1>5. NoneTwice(k)'
    BY <1>3 DEF KindInv, NoneTwice
  <1>6. NoneSkipped(k)'
    BY <1>1, <1>3 DEF KindInv, NoneSkipped
  <1>7. CountTold(k)'
    BY <1>1, <1>2, <1>4 DEF KindInv, CountTold
  <1>8. QED BY <1>1, <1>5, <1>6, <1>7 DEF KindInv

LEMMA ReadPageKeeps == ASSUME SearchInv, NEW k \in Kinds, ReadPage(k) PROVE SearchInv'
  <1> DEFINE S == matching[k]
             U == viewed[k]
             n == Skip(search)
             l == search.limit
  <1>1. /\ SearchTypeOK /\ SearchShape /\ PagesFilled /\ again \subseteq pushed
        /\ \A j \in Kinds : KindInv(j)
    BY DEF SearchInv
  <1>2. /\ MaxRows \in Nat /\ n \in Nat /\ l \in Nat \ {0} /\ search.total \in Nat
        /\ search.rows \in Nat /\ S \subseteq 1 .. MaxRows /\ U \subseteq 1 .. MaxRows
        /\ Cardinality(S) \in Nat
    BY <1>1, SearchNumbers
  <1>0. PICK page \in Pages(k) :
          /\ search' = Ran("items", [search EXCEPT !.rows = search.rows + Cardinality(page)])
          /\ viewed' = [viewed EXCEPT ![k] = viewed[k] \cup page]
          /\ again' = IF viewed[k] \cap page = {} THEN again ELSE again \cup {k}
          /\ IF page = Page(k) THEN UNCHANGED <<slipped, pushed>>
             ELSE slipped' = slipped \cup {k} /\ pushed' = pushed \cup {k}
    BY DEF ReadPage
  <1> DEFINE W == U \cup page
  <1>3. /\ Page(k) = PageOf(S, n, l) /\ page \subseteq S /\ Cardinality(page) \in Nat
        /\ Page(k) # {} => Cardinality(page) \in Nat \ {0}
    <2>1. Page(k) = PageOf(S, n, l) /\ page \subseteq S
      BY DEF Page, Place, PageOf, PlaceIn, Pages
    <2>2. page \subseteq 1 .. MaxRows
      BY <1>2, <2>1
    <2>3. IsFiniteSet(page) /\ Cardinality(page) \in Nat
      BY <1>2, <2>2, FiniteRows
    <2>4. ASSUME NEW r \in Page(k) PROVE page # {}
      <3>1. r \in S /\ Page(k) \subseteq S /\ r \in Page(k) \cap Twins(k, r)
        BY <2>1 DEF Page, Twins
      <3>2. Cardinality(page \cap Twins(k, r)) = Cardinality(Page(k) \cap Twins(k, r))
        BY <3>1 DEF Pages
      <3>3. IsFiniteSet(Page(k) \cap Twins(k, r))
        <4>1. Page(k) \cap Twins(k, r) \subseteq 1 .. MaxRows
          BY <1>2, <3>1
        <4>2. QED BY <1>2, <4>1, FiniteRows
      <3>4. Cardinality(Page(k) \cap Twins(k, r)) # 0
        BY <3>1, <3>3, FS_EmptySet
      <3>5. QED BY <3>2, <3>4, FS_EmptySet
    <2>5. QED BY <2>1, <2>3, <2>4, FS_EmptySet
  <1>4. /\ Current(k) /\ "items" \in search.left
        /\ UNCHANGED <<matching, stayed, mixed, fewer, changes>>
        /\ viewed' = [viewed EXCEPT ![k] = W]
        /\ again' = IF U \cap page = {} THEN again ELSE again \cup {k}
        /\ slipped \subseteq slipped' /\ slipped' \subseteq slipped \cup {k}
        /\ pushed \subseteq pushed' /\ pushed' \subseteq pushed \cup {k}
        /\ k \notin pushed' \/ k \notin slipped' => page = PageOf(S, n, l)
    BY <1>0, <1>3 DEF ReadPage
  <1>5. /\ SearchShape'
        /\ search'.type = search.type /\ search'.limit = search.limit
        /\ search'.page = search.page /\ search.answer = "none" /\ search'.answer = "none"
        /\ search'.total = search.total /\ search'.rows = search.rows + Cardinality(page)
        /\ IF search.left = {"items"}
              THEN /\ search'.left = {"items", "count"} /\ ~Current(k)'
                   /\ \A j \in Kinds : Pending(j)' <=> (Pending(j) /\ j # k)
              ELSE /\ search'.left = search.left \ {"items"} /\ Current(k)'
                   /\ \A j \in Kinds : Pending(j)' <=> Pending(j)
    <2>1. search.rows + Cardinality(page) \in Nat
      BY <1>2, <1>3
    <2>2. PICK req : /\ req = [search EXCEPT !.rows = search.rows + Cardinality(page)]
                     /\ search' = Ran("items", req)
      BY <1>0
    <2>3. /\ req \in SearchRequests
          /\ req.type = search.type /\ req.limit = search.limit /\ req.page = search.page
          /\ req.kinds = search.kinds /\ req.left = search.left /\ req.answer = search.answer
          /\ req.total = search.total /\ req.rows = search.rows + Cardinality(page)
      BY <1>1, <2>1, <2>2 DEF SearchShape, SearchRequests
    <2>4. QED BY <1>1, <1>4, <2>2, <2>3, StatementRuns
  <1>6. InSearched(k) /\ ~HasRead(k) /\ HasRead(k)'
    <2>1. Pending(k) /\ InSearched(k)
      BY <1>1, <1>4, KindsToRead
    <2>2. InSearched(k)'
      BY <1>5, <2>1 DEF InSearched
    <2>3. QED BY <1>4, <1>5, <2>1, <2>2 DEF HasRead
  <1>7. ASSUME NEW j \in Kinds, j # k PROVE HasRead(j)' <=> HasRead(j)
    <2>1. ~Current(j)
      BY <1>4, <1>7 DEF Current
    <2>2. InSearched(j)' <=> InSearched(j)
      BY <1>5 DEF InSearched
    <2>3. Pending(j)' <=> Pending(j)
      BY <1>5, <1>7
    <2>4. Current(j)' => "items" \in search'.left
      BY <1>5, <1>7 DEF Current
    <2>5. QED BY <2>1, <2>2, <2>3, <2>4 DEF HasRead
  <1>8. SearchTypeOK'
    <2>1. U \in SUBSET Rows /\ page \in SUBSET Rows
      BY <1>2, <1>3 DEF Rows
    <2>2. viewed' \in Sets
      BY <1>1, <1>4, <2>1 DEF SearchTypeOK, Sets
    <2>3. again' \subseteq Kinds /\ slipped' \subseteq Kinds /\ pushed' \subseteq Kinds
      BY <1>1, <1>4 DEF SearchTypeOK
    <2>4. QED BY <1>1, <1>4, <1>5, <2>2, <2>3 DEF SearchTypeOK, SearchShape, SearchRequests
  <1>9. viewed'[k] = W /\ \A j \in Kinds \ {k} : viewed'[j] = viewed[j]
    BY <1>1, <1>4 DEF SearchTypeOK, Sets
  <1>10. ASSUME NEW j \in Kinds, j # k PROVE KindInv(j)'
    <2>1. ~(Current(j)' /\ search'.left = {"items"})
      <3>1. CASE search.left = {"items"}
        BY <1>5, <3>1
      <3>2. CASE search.left # {"items"}
        <4>1. Current(k)'
          BY <1>5, <3>2
        <4>2. ~Current(j)'
          BY <1>10, <4>1 DEF Current
        <4>3. QED BY <4>2
      <3>3. QED BY <3>1, <3>2
    <2>2. Pending(j)' <=> Pending(j)
      BY <1>5, <1>10
    <2>3. search.total <= search'.total
      BY <1>2, <1>5
    <2>4. QED BY <1>1, <1>4, <1>5, <1>7, <1>8, <1>9, <1>10, <2>1, <2>2, <2>3, KindKept
  <1>11. LedPast(k) = n /\ LedPast(k)' = n + l /\ Skip(search)' = n
    <2>1. Skip(search)' = n
      BY <1>5 DEF Skip
    <2>2. LedPast(k) = n
      BY <1>1, <1>6, SearchNumbers
    <2>3. LedPast(k)' = n + l
      BY <1>5, <1>6, <2>1 DEF LedPast
    <2>4. QED BY <2>1, <2>2, <2>3
  <1>12. KindInv(k)'
    <2>1. stayed[k] \subseteq S /\ NoneTwice(k) /\ NoneSkipped(k) /\ CountTold(k)
      BY <1>1 DEF KindInv
    <2>2. NoneTwice(k)'
      <3> SUFFICES ASSUME k \notin pushed', NEW r \in W \cap S
                   PROVE  PlaceIn(S, r) <= n + l
        BY <1>4, <1>9, <1>11 DEF NoneTwice
      <3>0. k \notin pushed /\ page = PageOf(S, n, l)
        BY <1>4
      <3>1. CASE r \in U
        <4>1. PlaceIn(S, r) <= n
          BY <2>1, <1>11, <3>0, <3>1 DEF NoneTwice
        <4>2. PlaceIn(S, r) \in Nat
          BY <1>2, PlaceBounds
        <4>3. QED BY <1>2, <4>1, <4>2
      <3>2. CASE r \in page
        BY <3>0, <3>2 DEF PageOf
      <3>3. QED BY <3>1, <3>2
    <2>3. ASSUME k \notin slipped' PROVE NoneLeft(S, W, stayed[k], n + l)
      <3>1. NoneLeft(S, U, stayed[k], n) /\ page = PageOf(S, n, l)
        BY <1>4, <1>6, <1>11, <2>1, <2>3 DEF NoneSkipped
      <3> HIDE DEF S, U, n, l
      <3>2. QED BY <1>2, <2>1, <3>1, PageSkipsNothing
    <2>4. NoneSkipped(k)'
      BY <1>4, <1>9, <1>11, <2>3 DEF NoneSkipped
    <2>5. CountTold(k)'
      <3>1. ~(Current(k)' /\ search'.left = {"items"})
        BY <1>1, <1>5 DEF SearchShape
      <3>2. ASSUME k \notin mixed, ~Pending(k)', k \notin slipped', ~(stayed[k] \subseteq W)
            PROVE  n + l < search.total
        <4>1. search.left = {"items"}
          BY <1>1, <1>4, <1>5, <3>2, KindsToRead
        <4>2. Cardinality(S) <= search.total
          BY <1>4, <2>1, <3>2, <4>1 DEF CountTold
        <4>3. /\ stayed[k] \cap PassedOf(S, W) \subseteq W
              /\ n + l <= Cardinality(PassedOf(S, W))
          BY <2>3, <3>2 DEF NoneLeft
        <4>4. W \subseteq 1 .. MaxRows
          BY <1>2, <1>3
        <4>5. /\ Cardinality(PassedOf(S, W)) \in Nat
              /\ Cardinality(PassedOf(S, W)) < Cardinality(S)
          <5> HIDE DEF S, W
          <5>1. QED BY <1>2, <2>1, <3>2, <4>3, <4>4, MoreToCome
        <4>6. QED BY <1>2, <4>2, <4>3, <4>5
      <3>3. QED BY <1>4, <1>5, <1>9, <1>11, <3>1, <3>2 DEF CountTold
    <2>6. InSearched(k)'
      BY <1>6 DEF HasRead
    <2>7. QED BY <1>4, <2>1, <2>2, <2>4, <2>5, <2>6 DEF KindInv
  <1>13. again' \subseteq pushed'
    <2>1. ASSUME k \notin pushed', NEW r \in U \cap page PROVE FALSE
      <3>0. k \notin pushed /\ page = PageOf(S, n, l)
        BY <1>4, <2>1
      <3>1. n < PlaceIn(S, r) /\ r \in S
        BY <3>0 DEF PageOf
      <3>2. PlaceIn(S, r) <= n
        BY <1>1, <1>11, <3>0, <3>1 DEF KindInv, NoneTwice
      <3>3. PlaceIn(S, r) \in Nat
        BY <1>2, <3>1, PlaceBounds
      <3>4. QED BY <1>2, <3>1, <3>2, <3>3
    <2>2. QED BY <1>1, <1>4, <2>1
  <1>14. PagesFilled'
    <2> SUFFICES ASSUME ~fewer, search.type # "all" PROVE PagesFilled'
      BY <1>4, <1>5 DEF PagesFilled
    <2>1. search.type = k
      BY <1>1, <1>6, KindsToRead
    <2>2. /\ search.total <= Cardinality(S)
          /\ Pending(k) /\ "count" \in search.left => search.total = 0
          /\ search.page > 1 => n < Cardinality(S)
      BY <1>1, <2>1 DEF PagesFilled
    <2>3. search.page > 1 => search'.rows > 0
      <3>1. SUFFICES ASSUME search.page > 1 PROVE search'.rows > 0
        OBVIOUS
      <3>2. Cardinality(page) \in Nat \ {0}
        <4> HIDE DEF S, n, l
        <4>1. Cardinality(PageOf(S, n, l)) \in Nat \ {0}
          BY <1>2, <2>2, <3>1, PageNotEmpty
        <4>2. QED BY <1>3, <4>1, FS_EmptySet
      <3>3. QED BY <1>2, <1>5, <3>2
    <2>4. Pending(k)' /\ "count" \in search'.left => Pending(k) /\ "count" \in search.left
      BY <1>5
    <2>5. k # "projects"
      BY DEF Kinds
    <2>6. QED BY <1>4, <1>5, <1>11, <2>1, <2>2, <2>3, <2>4, <2>5 DEF PagesFilled
  <1>15. QED BY <1>5, <1>8, <1>10, <1>12, <1>13, <1>14 DEF SearchInv

LEMMA CountRowsKeeps == ASSUME SearchInv, NEW k \in Kinds, CountRows(k) PROVE SearchInv'
  <1> DEFINE S == matching[k]
             U == viewed[k]
             n == Skip(search)
             l == search.limit
  <1>1. /\ SearchTypeOK /\ SearchShape /\ PagesFilled /\ again \subseteq pushed
        /\ \A j \in Kinds : KindInv(j)
    BY DEF SearchInv
  <1>2. /\ MaxRows \in Nat /\ n \in Nat /\ l \in Nat \ {0} /\ search.total \in Nat
        /\ S \subseteq 1 .. MaxRows /\ U \subseteq 1 .. MaxRows /\ Cardinality(S) \in Nat
    BY <1>1, SearchNumbers
  <1>3. /\ Current(k) /\ "count" \in search.left
        /\ UNCHANGED <<matching, viewed, stayed, slipped, pushed, mixed, fewer, again, changes>>
    BY DEF CountRows
  <1>4. /\ SearchShape'
        /\ search'.type = search.type /\ search'.limit = search.limit
        /\ search'.page = search.page /\ search.answer = "none" /\ search'.answer = "none"
        /\ search'.total = search.total + Cardinality(S) /\ search'.rows = search.rows
        /\ IF search.left = {"count"}
              THEN /\ search'.left = {"items", "count"} /\ ~Current(k)'
                   /\ \A j \in Kinds : Pending(j)' <=> (Pending(j) /\ j # k)
              ELSE /\ search'.left = search.left \ {"count"} /\ Current(k)'
                   /\ \A j \in Kinds : Pending(j)' <=> Pending(j)
    <2>1. search.total + Cardinality(S) \in Nat
      BY <1>2
    <2>2. PICK req : /\ req = [search EXCEPT !.total = search.total + Cardinality(S)]
                     /\ search' = Ran("count", req)
      BY DEF CountRows
    <2>3. /\ req \in SearchRequests
          /\ req.type = search.type /\ req.limit = search.limit /\ req.page = search.page
          /\ req.kinds = search.kinds /\ req.left = search.left /\ req.answer = search.answer
          /\ req.total = search.total + Cardinality(S) /\ req.rows = search.rows
      <3> HIDE DEF S
      <3>1. QED BY <1>1, <2>1, <2>2 DEF SearchShape, SearchRequests
    <2> HIDE DEF S
    <2>4. QED BY <1>1, <1>3, <2>2, <2>3, StatementRuns
  <1>5. /\ Pending(k) /\ InSearched(k)
        /\ \A j \in Kinds : InSearched(j)' <=> InSearched(j)
    BY <1>1, <1>3, <1>4, KindsToRead DEF InSearched
  <1>6. ASSUME NEW j \in Kinds PROVE HasRead(j)' <=> HasRead(j)
    <2>1. CASE j = k
      <3>1. CASE search.left = {"count"}
        BY <1>3, <1>4, <1>5, <2>1, <3>1 DEF HasRead
      <3>2. CASE search.left # {"count"}
        <4>1. "items" \in search.left /\ "items" \in search'.left
          BY <1>1, <1>4, <3>2 DEF SearchShape
        <4>2. Pending(k)'
          BY <1>4, <1>5, <3>2
        <4>3. QED BY <1>5, <2>1, <4>1, <4>2 DEF HasRead
      <3>3. QED BY <3>1, <3>2
    <2>2. CASE j # k
      <3>1. ~Current(j)
        BY <1>3, <2>2 DEF Current
      <3>2. Pending(j)' <=> Pending(j)
        BY <1>4, <2>2
      <3>3. Current(j)' => "items" \in search'.left
        BY <1>4, <2>2 DEF Current
      <3>4. QED BY <1>5, <3>1, <3>2, <3>3 DEF HasRead
    <2>3. QED BY <2>1, <2>2
  <1>7. SearchTypeOK'
    BY <1>1, <1>3, <1>4 DEF SearchTypeOK, SearchShape, SearchRequests
  <1>8. ASSUME NEW j \in Kinds, j # k PROVE KindInv(j)'
    <2>1. ~(Current(j)' /\ search'.left = {"items"})
      <3>1. CASE search.left = {"count"}
        BY <1>4, <3>1
      <3>2. CASE search.left # {"count"}
        <4>1. Current(k)'
          BY <1>4, <3>2
        <4>2. ~Current(j)'
          BY <1>8, <4>1 DEF Current
        <4>3. QED BY <4>2
      <3>3. QED BY <3>1, <3>2
    <2>2. Pending(j)' <=> Pending(j)
      BY <1>4, <1>8
    <2>3. search.total <= search'.total
      BY <1>2, <1>4
    <2>4. QED BY <1>1, <1>3, <1>4, <1>6, <1>7, <2>1, <2>2, <2>3, KindKept
  <1>9. Skip(search)' = n /\ LedPast(k)' = LedPast(k)
    <2>1. Skip(search)' = n
      BY <1>4 DEF Skip
    <2>2. QED BY <1>4, <1>6, <2>1 DEF LedPast
  <1>10. KindInv(k)'
    <2>1. stayed[k] \subseteq S /\ NoneTwice(k) /\ NoneSkipped(k) /\ CountTold(k)
      BY <1>1 DEF KindInv
    <2>2. NoneTwice(k)' /\ NoneSkipped(k)'
      BY <1>3, <1>5, <1>9, <2>1 DEF NoneTwice, NoneSkipped
    <2>3. ASSUME ~Pending(k)', k \notin slipped, ~(stayed[k] \subseteq U)
          PROVE  n + l < search'.total
      <3>1. HasRead(k)
        BY <1>5, <1>6, <2>3 DEF HasRead
      <3>2. NoneLeft(S, U, stayed[k], n + l)
        BY <1>1, <1>5, <2>1, <2>3, <3>1, SearchNumbers DEF NoneSkipped
      <3>3. /\ Cardinality(PassedOf(S, U)) \in Nat
            /\ Cardinality(PassedOf(S, U)) < Cardinality(S)
        <4> HIDE DEF S, U
        <4>1. QED BY <1>2, <2>1, <2>3, <3>2, MoreToCome DEF NoneLeft
      <3>4. n + l <= Cardinality(PassedOf(S, U))
        BY <2>3, <3>2 DEF NoneLeft
      <3>5. QED BY <1>2, <1>4, <3>3, <3>4
    <2>4. Cardinality(S) <= search'.total
      BY <1>2, <1>4
    <2>5. CountTold(k)'
      BY <1>3, <1>4, <1>9, <2>3, <2>4 DEF CountTold
    <2>6. QED BY <1>3, <1>5, <2>1, <2>2, <2>5 DEF KindInv
  <1>11. PagesFilled'
    <2> SUFFICES ASSUME ~fewer, search.type # "all" PROVE PagesFilled'
      BY <1>3, <1>4 DEF PagesFilled
    <2>1. search.type = k /\ k # "projects"
      BY <1>1, <1>5, KindsToRead DEF Kinds
    <2>2. /\ search.total = 0
          /\ search.page > 1 => n < Cardinality(S)
          /\ search.page > 1 /\ HasRead(k) => search.rows > 0
      BY <1>1, <1>3, <1>5, <2>1 DEF PagesFilled
    <2>3. search'.total <= Cardinality(S)
      BY <1>2, <1>4, <2>2
    <2>4. ~(Pending(k)' /\ "count" \in search'.left)
      BY <1>4
    <2>5. QED BY <1>3, <1>4, <1>6, <1>9, <2>1, <2>2, <2>3, <2>4 DEF PagesFilled
  <1>12. again' \subseteq pushed'
    BY <1>1, <1>3
  <1>13. QED BY <1>4, <1>7, <1>8, <1>10, <1>11, <1>12 DEF SearchInv

LEMMA ReplyKeeps == ASSUME SearchInv, Reply PROVE SearchInv'
  <1>1. /\ SearchTypeOK /\ SearchShape /\ PagesFilled /\ again \subseteq pushed
        /\ \A j \in Kinds : KindInv(j)
    BY DEF SearchInv
  <1>2. /\ search.kinds = <<>>
        /\ search' = [search EXCEPT !.answer = IF hasMore(search) THEN "more" ELSE "last"]
        /\ UNCHANGED <<matching, viewed, stayed, slipped, pushed, mixed, fewer, again, changes>>
    BY DEF Reply
  <1>3. /\ search' \in SearchRequests /\ search'.type = search.type
        /\ search'.limit = search.limit /\ search'.page = search.page
        /\ search'.total = search.total /\ search'.rows = search.rows
        /\ search'.kinds = search.kinds /\ search'.left = search.left
        /\ search'.answer = IF hasMore(search) THEN "more" ELSE "last"
    BY <1>1, <1>2 DEF SearchShape, SearchRequests
  <1>4. Skip(search)' = Skip(search) /\ (hasMore(search)' <=> hasMore(search))
    BY <1>3 DEF Skip, hasMore
  <1>5. SearchShape'
    BY <1>1, <1>2, <1>3, <1>4 DEF SearchShape
  <1>6. SearchTypeOK'
    BY <1>1, <1>2, <1>3 DEF SearchTypeOK, SearchRequests
  <1>7. ASSUME NEW k \in Kinds
        PROVE  /\ Pending(k)' <=> Pending(k)
               /\ Current(k)' <=> Current(k)
               /\ HasRead(k)' <=> HasRead(k)
    <2>1. (Pending(k)' <=> Pending(k)) /\ (Current(k)' <=> Current(k))
      BY <1>3 DEF Pending, Current
    <2>2. InSearched(k)' <=> InSearched(k)
      BY <1>3 DEF InSearched
    <2>3. QED BY <1>3, <2>1, <2>2 DEF HasRead
  <1>8. ASSUME NEW k \in Kinds PROVE KindInv(k)'
    <2>1. search.total <= search'.total
      BY <1>1, <1>3, SearchNumbers
    <2>2. QED BY <1>1, <1>2, <1>3, <1>5, <1>6, <1>7, <2>1, KindKept
  <1>9. PagesFilled'
    BY <1>1, <1>2, <1>3, <1>4, <1>7 DEF PagesFilled
  <1>10. QED BY <1>1, <1>2, <1>5, <1>6, <1>8, <1>9 DEF SearchInv

LEMMA SearchedKinds == ASSUME NEW type \in Types PROVE Searched(type) \in Seq(Kinds)
  <1>1. CASE type = "all"
    <2>1. Searched(type) = <<"templates", "designers">>
      BY <1>1 DEF Searched
    <2>2. "templates" \in Kinds /\ "designers" \in Kinds
      BY DEF Kinds
    <2>3. QED BY <2>1, <2>2
  <1>2. CASE type = "projects"
    BY <1>2 DEF Searched
  <1>3. CASE type \in Kinds
    BY <1>3 DEF Searched, Kinds
  <1>4. QED BY <1>1, <1>2, <1>3 DEF Types, Kinds

\* What a request that begins has read.
LEMMA NothingReadYet ==
  ASSUME SearchShape', search'.kinds = Searched(search'.type),
         search'.left = {"items", "count"}, NEW k \in Kinds
  PROVE  ~HasRead(k)' /\ (InSearched(k)' => Pending(k)')
  <1>1. Pending(k)' <=> InSearched(k)'
    BY DEF Pending, InSearched
  <1>2. QED BY <1>1 DEF HasRead

LEMMA NextPageKeeps == ASSUME SearchInv, NextPage PROVE SearchInv'
  <1> DEFINE n == Skip(search)
             l == search.limit
  <1>1. /\ SearchTypeOK /\ SearchShape /\ PagesFilled /\ again \subseteq pushed
        /\ \A j \in Kinds : KindInv(j)
    BY DEF SearchInv
  <1>2. /\ MaxRows \in Nat /\ n \in Nat /\ l \in Nat \ {0} /\ search.total \in Nat
        /\ search.page \in Nat \ {0}
        /\ \A k \in Kinds : Cardinality(matching[k]) \in Nat
    BY <1>1, SearchNumbers
  <1>3. /\ search.answer = "more" /\ search.page < MaxPage /\ mixed' = {}
        /\ search' = Ask(search.type, search.limit, search.page + 1)
        /\ UNCHANGED <<matching, viewed, stayed, slipped, pushed, fewer, again, changes>>
    BY DEF NextPage
  <1>4. search.kinds = <<>> /\ n + l < search.total
    BY <1>1, <1>3 DEF SearchShape, Answered, hasMore
  <1>5. /\ search' \in SearchRequests /\ search'.type = search.type
        /\ search'.limit = search.limit /\ search'.page = search.page + 1
        /\ search'.kinds = Searched(search.type) /\ search'.left = {"items", "count"}
        /\ search'.total = 0 /\ search'.rows = 0 /\ search'.answer = "none"
    <2>1. search.type \in Types /\ search.limit \in Limits
      BY <1>1 DEF SearchShape, SearchRequests
    <2>2. search.page + 1 \in 1 .. MaxPage
      <3>1. search.page \in 1 .. MaxPage /\ MaxPage \in Nat
        BY <1>1, SearchAssumption DEF SearchShape, SearchRequests
      <3>2. QED BY <1>3, <3>1
    <2>3. Searched(search.type) \in Seq(Kinds)
      BY <2>1, SearchedKinds
    <2>4. QED BY <1>3, <2>1, <2>2, <2>3 DEF Ask, SearchRequests
  <1>6. SearchShape'
    BY <1>5 DEF SearchShape, Answered
  <1>7. SearchTypeOK'
    BY <1>1, <1>3, <1>5 DEF SearchTypeOK, SearchRequests
  <1>8. Skip(search)' = n + l
    <2>1. search'.page \in Nat
      BY <1>2, <1>5
    <2>2. (search'.page - 1) * search.limit = (search.page - 1) * search.limit + search.limit
      BY <1>2, <1>5, <2>1, Skipped
    <2>3. QED BY <1>5, <2>2 DEF Skip
  <1>9. ASSUME NEW k \in Kinds
        PROVE  ~HasRead(k)' /\ (InSearched(k)' => Pending(k)')
    BY <1>5, <1>6, NothingReadYet
  <1>10. ASSUME NEW k \in Kinds PROVE KindInv(k)'
    <2>1. /\ stayed[k] \subseteq matching[k] /\ (~InSearched(k) => viewed[k] = {})
          /\ NoneTwice(k) /\ NoneSkipped(k)
      BY <1>1 DEF KindInv
    <2>2. InSearched(k)' <=> InSearched(k)
      BY <1>5 DEF InSearched
    <2>3. LedPast(k)' = n + l
      BY <1>2, <1>6, <1>7, <1>8, <1>9 DEF LedPast
    <2>4. ASSUME InSearched(k) PROVE LedPast(k) = n + l
      <3>1. HasRead(k)
        BY <1>1, <1>4, <2>4, KindsToRead DEF HasRead
      <3>2. QED BY <1>1, <3>1, SearchNumbers
    <2>5. NoneTwice(k)'
      BY <1>3, <2>1, <2>3, <2>4 DEF NoneTwice
    <2>6. NoneSkipped(k)'
      BY <1>3, <2>1, <2>2, <2>3, <2>4 DEF NoneSkipped
    <2>7. CountTold(k)'
      BY <1>5, <1>9 DEF CountTold
    <2>8. QED BY <1>3, <2>1, <2>2, <2>5, <2>6, <2>7 DEF KindInv
  <1>11. PagesFilled'
    <2> SUFFICES ASSUME ~fewer, search.type # "all" PROVE PagesFilled'
      BY <1>3, <1>5 DEF PagesFilled
    <2>1. search.type # "projects"
      BY <1>1, <1>2, <1>4 DEF PagesFilled
    <2>2. ASSUME NEW k \in Kinds, search.type = k PROVE n + l < Cardinality(matching[k])
      <3>1. search.total <= Cardinality(matching[k])
        BY <1>1, <2>2 DEF PagesFilled
      <3>2. QED BY <1>2, <1>4, <3>1
    <2>3. \A k \in Kinds : 0 <= Cardinality(matching[k])
      BY <1>2
    <2>4. QED BY <1>3, <1>5, <1>8, <1>9, <2>1, <2>2, <2>3 DEF PagesFilled
  <1>12. QED BY <1>1, <1>3, <1>6, <1>7, <1>10, <1>11 DEF SearchInv

\* Nothing but the rows of kind k changes: the request stays as it is.
LEMMA RowsChange ==
  ASSUME SearchInv, SearchTypeOK', NEW k \in Kinds, search' = search, viewed' = viewed,
         again' = again, pushed \subseteq pushed', slipped \subseteq slipped',
         mixed \subseteq mixed', fewer => fewer',
         \A j \in Kinds \ {k} : matching'[j] = matching[j] /\ stayed'[j] = stayed[j],
         stayed'[k] \subseteq matching'[k], NoneTwice(k)', NoneSkipped(k)', CountTold(k)',
         ~fewer' => Cardinality(matching[k]) <= Cardinality(matching'[k])
  PROVE  SearchInv'
  <1>1. /\ SearchTypeOK /\ SearchShape /\ PagesFilled /\ again \subseteq pushed
        /\ \A j \in Kinds : KindInv(j)
    BY DEF SearchInv
  <1>2. SearchShape'
    BY <1>1 DEF SearchShape, Answered
  <1>3. Skip(search)' = Skip(search)
    OBVIOUS
  <1>4. ASSUME NEW j \in Kinds
        PROVE  /\ Pending(j)' <=> Pending(j)
               /\ HasRead(j)' <=> HasRead(j)
               /\ Current(j)' <=> Current(j)
               /\ InSearched(j)' <=> InSearched(j)
    BY DEF Pending, HasRead, Current, InSearched
  <1>5. ASSUME NEW j \in Kinds, j # k PROVE KindInv(j)'
    <2>1. search.total <= search'.total
      BY <1>1, SearchNumbers
    <2>2. QED BY <1>1, <1>2, <1>4, <1>5, <2>1, KindKept
  <1>6. KindInv(k)'
    BY <1>1, <1>4 DEF KindInv
  <1>7. PagesFilled'
    <2>1. ASSUME NEW j \in Kinds, ~fewer'
          PROVE  /\ Cardinality(matching[j]) <= Cardinality(matching'[j])
                 /\ Cardinality(matching[j]) \in Nat /\ Cardinality(matching'[j]) \in Nat
      <3>1. Cardinality(matching[j]) \in Nat /\ Cardinality(matching'[j]) \in Nat
        <4>1. /\ matching[j] \subseteq 1 .. MaxRows /\ matching'[j] \subseteq 1 .. MaxRows
              /\ MaxRows \in Nat
          BY <1>1, SearchAssumption DEF SearchTypeOK, Sets, Rows
        <4>2. QED BY <4>1, FiniteRows
      <3>2. CASE j = k
        BY <2>1, <3>1, <3>2
      <3>3. CASE j # k
        BY <3>1, <3>3
      <3>4. QED BY <3>2, <3>3
    <2>2. Skip(search) \in Nat /\ search.total \in Nat
      BY <1>1, SearchNumbers
    <2> SUFFICES ASSUME ~fewer', search.type # "all" PROVE PagesFilled'
      BY DEF PagesFilled
    <2>3. search.type = "projects" => search.page = 1 /\ search.total = 0
      BY <1>1 DEF PagesFilled
    <2>4. ASSUME NEW j \in Kinds, search.type = j
          PROVE  /\ search.total <= Cardinality(matching'[j])
                 /\ Pending(j)' /\ "count" \in search.left => search.total = 0
                 /\ search.page > 1 => Skip(search) < Cardinality(matching'[j])
                 /\ search.page > 1 /\ HasRead(j)' => search.rows > 0
      <3>1. /\ search.total <= Cardinality(matching[j])
            /\ Pending(j) /\ "count" \in search.left => search.total = 0
            /\ search.page > 1 => Skip(search) < Cardinality(matching[j])
            /\ search.page > 1 /\ HasRead(j) => search.rows > 0
        BY <1>1, <2>4 DEF PagesFilled
      <3>2. QED BY <1>4, <2>1, <2>2, <3>1
    <2>5. QED BY <1>3, <2>3, <2>4 DEF PagesFilled
  <1>8. again' \subseteq pushed'
    BY <1>1
  <1>9. QED BY <1>2, <1>5, <1>6, <1>7, <1>8 DEF SearchInv

LEMMA ComesKeeps ==
  ASSUME SearchInv, NEW k \in Kinds, NEW r \in Rows, Comes(k, r) PROVE SearchInv'
  <1> DEFINE S == matching[k]
             U == viewed[k]
             T == stayed[k]
             R == S \cup {r}
  <1>1. SearchTypeOK /\ SearchShape /\ KindInv(k)
    BY DEF SearchInv
  <1>2. /\ MaxRows \in Nat /\ S \subseteq 1 .. MaxRows /\ U \subseteq 1 .. MaxRows
        /\ R \subseteq 1 .. MaxRows
    BY <1>1, SearchNumbers DEF Rows
  <1>3. /\ r \notin S /\ matching' = [matching EXCEPT ![k] = R]
        /\ pushed' = IF Passed(k, r) THEN pushed \cup {k} ELSE pushed
        /\ mixed' = IF Current(k) /\ search.left = {"items"} THEN mixed \cup {k} ELSE mixed
        /\ changes < MaxChanges /\ changes' = changes + 1
        /\ UNCHANGED <<search, viewed, stayed, slipped, fewer, again>>
    BY DEF Comes, Changed
  <1>4. SearchTypeOK'
    <2>1. changes' \in 0 .. MaxChanges
      BY <1>1, <1>3, SearchAssumption DEF SearchTypeOK
    <2>2. matching' \in Sets
      BY <1>1, <1>3 DEF SearchTypeOK, Sets
    <2>3. pushed' \subseteq Kinds /\ mixed' \subseteq Kinds
      BY <1>1, <1>3 DEF SearchTypeOK
    <2>4. QED BY <1>1, <1>3, <2>1, <2>2, <2>3 DEF SearchTypeOK
  <1>5. matching'[k] = R /\ \A j \in Kinds \ {k} : matching'[j] = matching[j]
    BY <1>1, <1>3 DEF SearchTypeOK, Sets
  <1>6. LedPast(k)' = LedPast(k) /\ Skip(search)' = Skip(search)
    BY <1>3 DEF LedPast, HasRead, Pending, Current, InSearched
  <1>7. /\ InSearched(k)' <=> InSearched(k)
        /\ Pending(k)' <=> Pending(k)
        /\ Current(k)' <=> Current(k)
    BY <1>3 DEF InSearched, Pending, Current
  <1>8. T \subseteq S /\ NoneTwice(k) /\ NoneSkipped(k) /\ CountTold(k)
    BY <1>1 DEF KindInv
  <1>9. NoneTwice(k)'
    <2> SUFFICES ASSUME k \notin pushed', NEW x \in U \cap R
                 PROVE  PlaceIn(R, x) <= LedPast(k)
      BY <1>3, <1>5, <1>6 DEF NoneTwice
    <2>1. k \notin pushed /\ ~(x <= r)
      BY <1>3 DEF Passed
    <2>2. x \in Int /\ r \in Int
      BY <1>2
    <2>3. x \in S /\ {y \in R : y >= x} = {y \in S : y >= x}
      BY <2>1, <2>2
    <2>4. PlaceIn(R, x) = PlaceIn(S, x)
      BY <2>3 DEF PlaceIn
    <2>5. QED BY <1>8, <2>1, <2>3, <2>4 DEF NoneTwice
  <1>10. NoneSkipped(k)'
    <2> SUFFICES ASSUME k \notin slipped, InSearched(k)
                 PROVE  NoneLeft(R, U, T, LedPast(k))
      BY <1>3, <1>5, <1>6, <1>7 DEF NoneSkipped
    <2>1. NoneLeft(S, U, T, LedPast(k))
      BY <1>8 DEF NoneSkipped
    <2>2. PassedOf(S, U) \subseteq PassedOf(R, U) /\ PassedOf(R, U) \subseteq R
      BY DEF PassedOf
    <2>3. /\ Cardinality(PassedOf(S, U)) \in Nat /\ Cardinality(PassedOf(R, U)) \in Nat
          /\ Cardinality(PassedOf(S, U)) <= Cardinality(PassedOf(R, U))
      <3>1. PassedOf(R, U) \subseteq 1 .. MaxRows
        BY <1>2, <2>2
      <3>2. QED BY <1>2, <2>2, <3>1, FewerRows
    <2>4. T \cap PassedOf(R, U) \subseteq U
      BY <1>8, <2>1 DEF NoneLeft, PassedOf
    <2>5. LedPast(k) \in Nat
      BY <1>1, SearchNumbers
    <2>6. T \subseteq U \/ LedPast(k) <= Cardinality(PassedOf(R, U))
      BY <2>1, <2>3, <2>5 DEF NoneLeft
    <2>7. QED BY <2>4, <2>6 DEF NoneLeft
  <1>11. CountTold(k)'
    BY <1>3, <1>6, <1>7, <1>8 DEF CountTold
  <1>12. Cardinality(S) <= Cardinality(matching'[k])
    <2> HIDE DEF S, R
    <2>1. S \subseteq R
      BY DEF R
    <2>2. QED BY <1>2, <1>5, <2>1, FewerRows
  <1>13. T \subseteq R
    BY <1>8
  <1>14. QED BY <1>3, <1>4, <1>5, <1>9, <1>10, <1>11, <1>12, <1>13, RowsChange

LEMMA GoesKeeps ==
  ASSUME SearchInv, NEW k \in Kinds, NEW r \in Rows, Goes(k, r) PROVE SearchInv'
  <1> DEFINE S == matching[k]
             U == viewed[k]
             T == stayed[k]
             R == S \ {r}
  <1>1. SearchTypeOK /\ SearchShape /\ KindInv(k)
    BY DEF SearchInv
  <1>2. /\ MaxRows \in Nat /\ S \subseteq 1 .. MaxRows /\ U \subseteq 1 .. MaxRows
        /\ R \subseteq S /\ search.total \in Nat
    BY <1>1, SearchNumbers DEF Rows
  <1>3. /\ r \in S /\ matching' = [matching EXCEPT ![k] = R]
        /\ stayed' = [stayed EXCEPT ![k] = T \ {r}]
        /\ slipped' = IF Passed(k, r) THEN slipped \cup {k} ELSE slipped
        /\ fewer' = TRUE /\ changes < MaxChanges /\ changes' = changes + 1
        /\ UNCHANGED <<search, viewed, pushed, mixed, again>>
    BY DEF Goes, Changed
  <1>4. SearchTypeOK'
    <2>1. changes' \in 0 .. MaxChanges
      BY <1>1, <1>3, SearchAssumption DEF SearchTypeOK
    <2>2. matching' \in Sets /\ stayed' \in Sets
      BY <1>1, <1>3 DEF SearchTypeOK, Sets
    <2>3. slipped' \subseteq Kinds
      BY <1>1, <1>3 DEF SearchTypeOK
    <2>4. QED BY <1>1, <1>3, <2>1, <2>2, <2>3 DEF SearchTypeOK
  <1>5. /\ matching'[k] = R /\ stayed'[k] = T \ {r}
        /\ \A j \in Kinds \ {k} : matching'[j] = matching[j] /\ stayed'[j] = stayed[j]
    BY <1>1, <1>3 DEF SearchTypeOK, Sets
  <1>6. LedPast(k)' = LedPast(k) /\ Skip(search)' = Skip(search)
    BY <1>3 DEF LedPast, HasRead, Pending, Current, InSearched
  <1>7. /\ InSearched(k)' <=> InSearched(k)
        /\ Pending(k)' <=> Pending(k)
        /\ Current(k)' <=> Current(k)
    BY <1>3 DEF InSearched, Pending, Current
  <1>8. T \subseteq S /\ NoneTwice(k) /\ NoneSkipped(k) /\ CountTold(k)
    BY <1>1 DEF KindInv
  <1>9. NoneTwice(k)'
    <2> SUFFICES ASSUME k \notin pushed, NEW x \in U \cap R
                 PROVE  PlaceIn(R, x) <= LedPast(k)
      BY <1>3, <1>5, <1>6 DEF NoneTwice
    <2>1. PlaceIn(S, x) <= LedPast(k)
      BY <1>8 DEF NoneTwice
    <2> DEFINE A == {y \in R : y >= x}
               B == {y \in S : y >= x}
    <2>2. A \subseteq B /\ B \subseteq S
      OBVIOUS
    <2>3. /\ Cardinality(A) \in Nat /\ Cardinality(B) \in Nat
          /\ Cardinality(A) <= Cardinality(B)
      <3> HIDE DEF A, B
      <3>1. B \subseteq 1 .. MaxRows
        BY <1>2, <2>2
      <3>2. QED BY <1>2, <2>2, <3>1, FewerRows
    <2>4. LedPast(k) \in Nat
      BY <1>1, SearchNumbers
    <2>5. PlaceIn(S, x) = Cardinality(B) /\ PlaceIn(R, x) = Cardinality(A)
      BY DEF PlaceIn
    <2> HIDE DEF A, B
    <2>6. QED BY <2>1, <2>3, <2>4, <2>5
  <1>10. NoneSkipped(k)'
    <2> SUFFICES ASSUME k \notin slipped', InSearched(k)
                 PROVE  NoneLeft(R, U, T \ {r}, LedPast(k))
      BY <1>3, <1>5, <1>6, <1>7 DEF NoneSkipped
    <2>1. k \notin slipped /\ ~Passed(k, r)
      BY <1>3
    <2>2. NoneLeft(S, U, T, LedPast(k))
      BY <1>8, <2>1 DEF NoneSkipped
    <2>3. PassedOf(R, U) = PassedOf(S, U)
      BY <2>1 DEF Passed, PassedOf
    <2>4. QED BY <2>2, <2>3 DEF NoneLeft
  <1>11. CountTold(k)'
    <2>1. /\ Cardinality(R) \in Nat /\ Cardinality(S) \in Nat
          /\ Cardinality(R) <= Cardinality(S)
      BY <1>2, FewerRows
    <2>2. Cardinality(S) <= search.total => Cardinality(R) <= search.total
      <3> HIDE DEF R, S
      <3>1. QED BY <1>2, <2>1
    <2>3. T \subseteq U => T \ {r} \subseteq U
      OBVIOUS
    <2>4. k \notin slipped' => k \notin slipped
      BY <1>3
    <2>5. QED BY <1>3, <1>5, <1>6, <1>7, <1>8, <2>2, <2>3, <2>4 DEF CountTold
  <1>12. T \ {r} \subseteq R
    BY <1>8
  <1>13. slipped \subseteq slipped'
    BY <1>3
  <1>14. QED BY <1>3, <1>4, <1>5, <1>9, <1>10, <1>11, <1>12, <1>13, RowsChange

LEMMA SearchStarts == SearchInit => SearchInv
  <1> SUFFICES ASSUME SearchInit PROVE SearchInv
    OBVIOUS
  <1>1. PICK type \in Types, limit \in Limits : search = Ask(type, limit, 1)
    BY DEF SearchInit
  <1>2. /\ search \in SearchRequests /\ search.limit = limit /\ search.page = 1
        /\ search.kinds = Searched(search.type) /\ search.left = {"items", "count"}
        /\ search.total = 0 /\ search.rows = 0 /\ search.answer = "none"
    <2>1. Searched(type) \in Seq(Kinds) /\ 1 \in 1 .. MaxPage
      BY SearchedKinds, SearchAssumption
    <2>2. QED BY <1>1, <2>1 DEF Ask, SearchRequests
  <1>3. SearchShape
    BY <1>2 DEF SearchShape, Answered
  <1>4. SearchTypeOK
    <2>1. [k \in Kinds |-> {}] \in Sets
      BY DEF Sets
    <2>2. 0 \in 0 .. MaxChanges
      BY SearchAssumption
    <2>3. /\ matching \in Sets /\ viewed \in Sets /\ stayed \in Sets
          /\ changes \in 0 .. MaxChanges /\ slipped = {} /\ pushed = {} /\ mixed = {}
          /\ again = {}
      BY <2>1, <2>2 DEF SearchInit
    <2>4. /\ search.type \in Types /\ search.limit \in Limits /\ search.page \in 1 .. MaxPage
          /\ search.kinds \in Seq(Kinds) /\ search.left \subseteq {"items", "count"}
          /\ search.total \in Nat /\ search.rows \in Nat
          /\ search.answer \in {"none", "more", "last"}
      BY <1>2 DEF SearchRequests
    <2>5. fewer = FALSE
      BY DEF SearchInit
    <2>6. QED BY <2>3, <2>4, <2>5 DEF SearchTypeOK
  <1>5. Skip(search) = 0
    <2>1. search.limit \in Nat \ {0}
      BY <1>2, SearchAssumption
    <2>2. (1 - 1) * search.limit = 0
      BY <2>1, NoneSkippedYet
    <2>3. QED BY <1>2, <2>2 DEF Skip
  <1>6. ASSUME NEW k \in Kinds PROVE ~HasRead(k) /\ (InSearched(k) => Pending(k))
    BY <1>2 DEF HasRead, Pending, InSearched
  <1>7. ASSUME NEW k \in Kinds PROVE KindInv(k)
    <2>1. viewed[k] = {} /\ stayed[k] = matching[k]
      BY DEF SearchInit
    <2>2. LedPast(k) = 0
      BY <1>3, <1>4, <1>5, <1>6, SearchNumbers
    <2>3. PassedOf(matching[k], viewed[k]) = {}
      BY <2>1 DEF PassedOf
    <2>4. NoneTwice(k) /\ NoneSkipped(k)
      BY <2>1, <2>2, <2>3, FS_EmptySet DEF NoneTwice, NoneSkipped, NoneLeft
    <2>5. CountTold(k)
      BY <1>2, <1>6 DEF CountTold
    <2>6. QED BY <2>1, <2>4, <2>5 DEF KindInv
  <1>8. PagesFilled
    <2>1. \A k \in Kinds : 0 <= Cardinality(matching[k])
      BY <1>3, <1>4, SearchNumbers
    <2>2. QED BY <1>2, <1>6, <2>1 DEF PagesFilled
  <1>9. again \subseteq pushed
    BY DEF SearchInit
  <1>10. QED BY <1>3, <1>4, <1>7, <1>8, <1>9 DEF SearchInv

LEMMA SearchStepKeeps == SearchInv /\ [SearchNext]_searchVars => SearchInv'
  <1> SUFFICES ASSUME SearchInv, [SearchNext]_searchVars PROVE SearchInv'
    OBVIOUS
  <1>1. CASE \E k \in Kinds : ReadPage(k) \/ CountRows(k)
    BY <1>1, ReadPageKeeps, CountRowsKeeps
  <1>2. CASE Reply \/ NextPage
    BY <1>2, ReplyKeeps, NextPageKeeps
  <1>3. CASE \E k \in Kinds, r \in Rows : Comes(k, r) \/ Goes(k, r)
    BY <1>3, ComesKeeps, GoesKeeps
  <1>4. CASE UNCHANGED searchVars
    <2>1. /\ SearchTypeOK' /\ SearchShape' /\ again' \subseteq pushed'
      BY <1>4 DEF searchVars, SearchInv, SearchTypeOK, SearchShape, Answered
    <2>2. \A k \in Kinds : (InSearched(k)' <=> InSearched(k)) /\ (Pending(k)' <=> Pending(k))
                           /\ (Current(k)' <=> Current(k)) /\ (HasRead(k)' <=> HasRead(k))
                           /\ LedPast(k)' = LedPast(k) /\ Skip(search)' = Skip(search)
      BY <1>4 DEF searchVars, InSearched, Pending, Current, HasRead, LedPast, Skip
    <2>3. ASSUME NEW k \in Kinds PROVE KindInv(k)'
      <3>1. KindInv(k)
        BY DEF SearchInv
      <3>2. NoneTwice(k)' /\ NoneSkipped(k)' /\ CountTold(k)'
        BY <1>4, <2>2, <3>1 DEF searchVars, KindInv, NoneTwice, NoneSkipped, CountTold
      <3>3. QED BY <1>4, <2>2, <3>1, <3>2 DEF searchVars, KindInv
    <2>4. PagesFilled'
      BY <1>4, <2>2 DEF searchVars, SearchInv, PagesFilled
    <2>5. QED BY <2>1, <2>3, <2>4 DEF SearchInv
  <1>5. QED BY <1>1, <1>2, <1>3, <1>4 DEF SearchNext

LEMMA SearchInvHolds == SearchSpec => []SearchInv
  BY SearchStarts, SearchStepKeeps, PTL DEF SearchSpec

\* Rows, pages, counts and answers keep their types.
THEOREM SearchTypeCorrect == SearchSpec => []SearchTypeOK
  <1>1. SearchInv => SearchTypeOK
    BY DEF SearchInv
  <1>2. QED BY <1>1, SearchInvHolds, PTL

\* However many rows there are, whatever the page size, and however many of them come
\* and go: reading page after page shows every row that matched all the time, and none
\* twice, and no page is empty, but for the changes that the property names.
THEOREM PagesAreComplete == SearchSpec => []PagesComplete
  <1> SUFFICES SearchInv => PagesComplete
    BY SearchInvHolds, PTL
  <1> SUFFICES ASSUME SearchInv PROVE PagesComplete
    OBVIOUS
  <1>1. SearchTypeOK /\ SearchShape /\ PagesFilled /\ again \subseteq pushed
    BY DEF SearchInv
  <1>2. NothingMissed
    <2> SUFFICES ASSUME search.answer = "last", NEW k \in Kinds, InSearched(k),
                        k \notin slipped, k \notin mixed
                 PROVE  stayed[k] \subseteq viewed[k]
      BY DEF NothingMissed
    <2>1. ~Pending(k)
      BY <1>1, KindsToRead DEF SearchShape, Answered
    <2>2. \/ stayed[k] \subseteq viewed[k]
          \/ Skip(search) + search.limit < search.total
      BY <2>1 DEF SearchInv, KindInv, CountTold
    <2>3. ~hasMore(search)
      BY <1>1 DEF SearchShape
    <2>4. /\ Skip(search) \in Nat /\ search.limit \in Nat /\ search.total \in Nat
      BY <1>1, SearchNumbers
    <2>5. QED BY <2>2, <2>3, <2>4 DEF hasMore
  <1>3. NoEmptyPage
    <2> SUFFICES ASSUME Answered, search.page > 1, search.type # "all", ~fewer
                 PROVE  search.rows > 0
      BY DEF NoEmptyPage
    <2>1. search.type \in Kinds
      <3>1. search.type # "projects"
        BY <1>1 DEF PagesFilled
      <3>2. QED BY <1>1, <3>1 DEF SearchShape, SearchRequests, Types, Kinds
    <2>2. HasRead(search.type)
      BY <1>1, <2>1, KindsToRead DEF SearchShape, HasRead
    <2>3. QED BY <1>1, <2>1, <2>2 DEF PagesFilled
  <1>4. QED BY <1>1, <1>2, <1>3 DEF PagesComplete, NothingTwice
-------------------------------------------------------------------------------
(* All of them, as MCAccount runs them: each module takes its own steps. *)

LEMMA AccountRunsAll ==
  Spec => SessionsSpec /\ CodesSpec /\ AddressesSpec /\ LimitsSpec /\ CatalogSpec
          /\ DesignersSpec /\ SearchSpec
  <1>1. Init => /\ SessionsInit /\ CodesInit /\ AddressesInit /\ LimitsInit /\ CatalogInit
                /\ DesignersInit /\ SearchInit
    BY DEF Init
  <1>2. [Next]_allVars => /\ [SessionsNext]_sessionVars /\ [CodesNext]_codeVars
                          /\ [AddressesNext]_addressVars /\ [LimitsNext]_limitVars
                          /\ [CatalogNext]_catalogVars /\ [DesignersNext]_designerVars
                          /\ [SearchNext]_searchVars
    <2>1. UNCHANGED allVars => /\ UNCHANGED sessionVars /\ UNCHANGED codeVars
                               /\ UNCHANGED addressVars /\ UNCHANGED limitVars
                               /\ UNCHANGED catalogVars /\ UNCHANGED designerVars
                               /\ UNCHANGED searchVars
      BY DEF allVars
    <2>2. QED BY <2>1 DEF Next
  <1>3. QED BY <1>1, <1>2, PTL
            DEF Spec, SessionsSpec, CodesSpec, AddressesSpec, LimitsSpec, CatalogSpec,
                DesignersSpec, SearchSpec

\* Every variable of the module that runs has its type in every behaviour.
THEOREM AccountTypeCorrect == Spec => []AccountTypeOK
  <1> DEFINE parts == {"sessions", "codes", "addresses", "limits", "catalog", "designers", "search"}
  <1>1. SessionsTypeOK /\ CodesTypeOK /\ AddressesTypeOK /\ LimitsTypeOK /\ CatalogTypeOK
          /\ DesignersTypeOK /\ SearchTypeOK /\ part \in parts => AccountTypeOK
    BY DEF AccountTypeOK
  <1>2. Init => part \in parts
    BY DEF Init
  <1>3. [Next]_allVars /\ part \in parts => (part \in parts)'
    BY DEF Next, allVars
  <1>4. QED BY <1>1, <1>2, <1>3, AccountRunsAll, SessionsTypeCorrect, CodesTypeCorrect,
               AddressesTypeCorrect, LimitsTypeCorrect, CatalogTypeCorrect,
               DesignersTypeCorrect, SearchTypeCorrect, PTL DEF Spec

\* Guessing is bounded on both sides: however logins interleave, the failures of an
\* account stay within those checked at once, and however requests interleave, what
\* the limiters let pass of one subject, as each of them knows it, stays within twice
\* their points.
THEOREM GuessingIsBounded == Spec => []GuessesBounded
  <1>1. FailuresBounded /\ RateLimited => GuessesBounded
    BY DEF GuessesBounded
  <1>2. QED BY <1>1, AccountRunsAll, LockBoundsGuesses, GuessesAreSlowed, PTL

\* Nobody is left out of the designers' slates and no row of the pages of a search,
\* but for the changes that ListsComplete names.
THEOREM ListsAreComplete == Spec => []ListsComplete
  <1>1. SlateFair /\ PagesComplete => ListsComplete
    BY DEF ListsComplete
  <1>2. QED BY <1>1, AccountRunsAll, SlatesAreFair, PagesAreComplete, PTL
===============================================================================

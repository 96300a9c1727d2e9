-------------------------------- MODULE Addresses --------------------------------
(***************************************************************************)
(* The address book of one user: AddressService behind its routes.  Each   *)
(* operation reads first and writes in a transaction.  The updateMany that *)
(* unsets the other defaults acts on the rows there are when it starts: a  *)
(* row inserted by a transaction that commits later escapes it.            *)
(***************************************************************************)
EXTENDS Integers, FiniteSets

CONSTANTS
  AddressSlots,       \* requests being served
  MaxUserAddresses,   \* env.MAX_USER_ADDRESSES
  MaxCreated          \* bound: addresses ever created

ASSUME AddressesAssumption ==
  /\ MaxUserAddresses \in Nat \ {0} /\ MaxCreated \in Nat
  /\ IsFiniteSet(AddressSlots)

VARIABLES
  book,         \* the ids of the rows; a later row has a larger id
  defaults,     \* the ids of those whose isDefault is set
  created,      \* the id given last
  addressPc, addressReq,   \* the step a slot takes next, and for what
  disturbed     \* since the last time that a default was set alone, two requests
                \* overlapped or an update took the flag away (history)

addressVars == <<book, defaults, created, addressPc, addressReq, disturbed>>

AddressIds == 1 .. MaxCreated

\* default is the flag to write or, for a deletion, to pass on; seen is what the
\* updateMany acts on.
AddressRequests == [id : 0 .. MaxCreated, default : BOOLEAN, seen : SUBSET AddressIds]
NoAddressRequest == [id |-> 0, default |-> FALSE, seen |-> {}]

AddressesTypeOK ==
  /\ book \subseteq 1 .. created /\ defaults \subseteq book
  /\ created \in 0 .. MaxCreated
  /\ addressPc \in [AddressSlots -> {"idle", "begin", "write", "delete"}]
  /\ addressReq \in [AddressSlots -> AddressRequests]
  /\ disturbed \in BOOLEAN

AddressesInit ==
  /\ book = {} /\ defaults = {} /\ created = 0
  /\ addressPc = [s \in AddressSlots |-> "idle"]
  /\ addressReq = [s \in AddressSlots |-> NoAddressRequest]
  /\ disturbed = FALSE

AddressStart(s, next, r) ==
  /\ addressPc[s] = "idle"
  /\ addressPc' = [addressPc EXCEPT ![s] = next]
  /\ addressReq' = [addressReq EXCEPT ![s] = r]
  /\ disturbed' = (disturbed \/ \E o \in AddressSlots : addressPc[o] # "idle")
  /\ UNCHANGED <<book, defaults, created>>

AddressDone(s) ==
  /\ addressPc' = [addressPc EXCEPT ![s] = "idle"]
  /\ addressReq' = [addressReq EXCEPT ![s] = NoAddressRequest]
-------------------------------------------------------------------------------
\* The addresses are counted: below the limit, and the first one is default.
CreateAddress(s, asked) ==
  /\ Cardinality(book) < MaxUserAddresses
  /\ LET default == asked \/ book = {}
     IN AddressStart(s, IF default THEN "begin" ELSE "write",
                     [id |-> 0, default |-> default, seen |-> {}])

\* The schema gives an update without isDefault the value false.
UpdateAddress(s, id, default) ==
  /\ id \in book
  /\ AddressStart(s, IF default THEN "begin" ELSE "write",
                  [id |-> id, default |-> default, seen |-> {}])

SetDefault(s, id) == UpdateAddress(s, id, TRUE)

\* The transaction starts: its updateMany takes the rows there are.
BeginDefault(s) ==
  /\ addressPc[s] = "begin"
  /\ addressPc' = [addressPc EXCEPT ![s] = "write"]
  /\ addressReq' = [addressReq EXCEPT ![s].seen = book]
  /\ UNCHANGED <<book, defaults, created, disturbed>>

\* A default set while no one else was at work puts the book in order again.
Alone(s) ==
  /\ addressReq[s].seen = book
  /\ \A o \in AddressSlots \ {s} : addressPc[o] = "idle"

InsertAddress(s) ==
  LET r  == addressReq[s]
      id == created + 1
  IN /\ addressPc[s] = "write" /\ r.id = 0
     /\ created < MaxCreated
     /\ created' = id
     /\ book' = book \cup {id}
     /\ defaults' = (defaults \ r.seen) \cup (IF r.default THEN {id} ELSE {})
     /\ disturbed' = (disturbed /\ ~(r.default /\ Alone(s)))
     /\ AddressDone(s)

\* The update by id fails, and the transaction with it, when the row is gone.
WriteAddress(s) ==
  LET r == addressReq[s]
  IN /\ addressPc[s] = "write" /\ r.id # 0
     /\ IF r.id \notin book THEN UNCHANGED <<defaults, disturbed>>
        ELSE /\ defaults' = IF r.default THEN (defaults \ r.seen) \cup {r.id}
                            ELSE defaults \ {r.id}
             /\ disturbed' = IF r.default THEN disturbed /\ ~Alone(s)
                             ELSE disturbed \/ r.id \in defaults
     /\ AddressDone(s)
     /\ UNCHANGED <<book, created>>

\* The row is read, and the addresses counted.
DeleteRead(s, id) ==
  /\ id \in book
  /\ AddressStart(s, "delete",
                  [id |-> id, seen |-> {},
                   default |-> id \in defaults /\ Cardinality(book) > 1])

\* Mutant of DeleteWrite: the flag goes with the row.
DeleteRowOnly(s) ==
  LET r == addressReq[s]
  IN /\ addressPc[s] = "delete"
     /\ book' = book \ {r.id}
     /\ defaults' = defaults \ {r.id}
     /\ AddressDone(s)
     /\ UNCHANGED <<created, disturbed>>

\* One transaction: delete, and make the newest other address the default.
DeleteWrite(s) ==
  LET r    == addressReq[s]
      rest == book \ {r.id}
      newest == {id \in rest : \A other \in rest : other <= id}
  IN /\ addressPc[s] = "delete"
     /\ IF r.id \notin book THEN UNCHANGED <<book, defaults>>
        ELSE /\ book' = rest
             /\ defaults' = (defaults \ {r.id}) \cup (IF r.default THEN newest ELSE {})
     /\ AddressDone(s)
     /\ UNCHANGED <<created, disturbed>>

AddressAbort(s) ==
  /\ addressPc[s] # "idle"
  /\ AddressDone(s)
  /\ UNCHANGED <<book, defaults, created, disturbed>>

AddressesNext ==
  \E s \in AddressSlots :
    \/ \E asked \in BOOLEAN : CreateAddress(s, asked)
    \/ \E id \in book : \/ \E default \in BOOLEAN : UpdateAddress(s, id, default)
                        \/ SetDefault(s, id) \/ DeleteRead(s, id)
    \/ BeginDefault(s) \/ InsertAddress(s) \/ WriteAddress(s) \/ DeleteWrite(s)
    \/ AddressAbort(s)

AddressesSpec == AddressesInit /\ [][AddressesNext]_addressVars
-------------------------------------------------------------------------------
\* A user with addresses has exactly one default one, whatever was created,
\* edited and deleted; only requests that overlapped, or an update that took the
\* flag away, break it, and setting a default alone repairs it.  The limit is
\* exceeded at most by the requests that were served at once.
OneDefaultAddress ==
  /\ disturbed \/ Cardinality(defaults) = (IF book = {} THEN 0 ELSE 1)
  /\ Cardinality(book) < MaxUserAddresses + Cardinality(AddressSlots)
===============================================================================

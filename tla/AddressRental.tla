---------------------------- MODULE AddressRental ----------------------------
(***************************************************************************)
(* What IP address management promises, without controllers and caches: an *)
(* address is rented by one namespace at a time, and one vmip of that      *)
(* namespace at a time holds it (is Bound to it).  The rent outlives the   *)
(* holder, and ends only when nobody holds the address.                    *)
(***************************************************************************)
CONSTANTS Names, NamespaceOf, Addrs, None

VARIABLES rent,   \* the namespace that rents the address, or None
          holder  \* the vmip Bound to the address, or None

RentalInit == rent = [a \in Addrs |-> None] /\ holder = [a \in Addrs |-> None]

\* a namespace rents a free address
StartRent(a) ==
  /\ rent[a] = None
  /\ \E n \in Names : rent' = [rent EXCEPT ![a] = NamespaceOf[n]]
  /\ UNCHANGED holder

\* the rent ends, the address being held by no one
EndRent(a) ==
  /\ rent[a] # None /\ holder[a] = None
  /\ rent' = [rent EXCEPT ![a] = None]
  /\ UNCHANGED holder

\* a vmip that holds no other address comes to hold one its namespace rents
Hold(a, n) ==
  /\ rent[a] = NamespaceOf[n] /\ holder[a] = None
  /\ \A b \in Addrs : holder[b] # n
  /\ holder' = [holder EXCEPT ![a] = n]
  /\ UNCHANGED rent

\* the vmip is deleted, or ceases to be Bound
Yield(a) ==
  /\ holder[a] # None
  /\ holder' = [holder EXCEPT ![a] = None]
  /\ UNCHANGED rent

RentalNext == \E a \in Addrs :
                StartRent(a) \/ EndRent(a) \/ Yield(a) \/ \E n \in Names : Hold(a, n)

RentalSpec == RentalInit /\ [][RentalNext]_<<rent, holder>>
=============================================================================

-------------------------- MODULE ListingLifecycle --------------------------
(***************************************************************************)
(* What the marketplace promises about one surplus listing, with no        *)
(* requests, jobs, clocks or crashes in sight: a seller offers food, the   *)
(* offer may move once from the paid tier to the donation tier, at most    *)
(* one eligible taker holds it at a time, and it ends exactly once.        *)
(*                                                                         *)
(* Marketplace.tla implements this specification.                          *)
(***************************************************************************)
CONSTANTS
  Listing,      \* identifiers of surplus listings
  Restaurants,  \* tenants that sell, and may buy
  Ngos,         \* tenants that only take donations
  None          \* no tenant

VARIABLES
  phase,   \* where each listing stands
  tier,    \* "b2b" (paid, restaurants only) or "ngo" (donation)
  seller,  \* the restaurant that offered it
  holder   \* the tenant that has taken it, or None

vars == <<phase, tier, seller, holder>>

Init ==
  /\ phase  = [l \in Listing |-> "absent"]
  /\ tier   = [l \in Listing |-> "b2b"]
  /\ seller = [l \in Listing |-> None]
  /\ holder = [l \in Listing |-> None]

(***************************************************************************)
(* A seller puts up new listings, some for sale and some as donations.     *)
(***************************************************************************)
Offer(s, sell, donate) ==
  /\ sell \cup donate # {}
  /\ sell \cap donate = {}
  /\ \A l \in sell \cup donate : phase[l] = "absent"
  /\ phase'  = [l \in Listing |->
                  IF l \in sell \cup donate THEN "open" ELSE phase[l]]
  /\ tier'   = [l \in Listing |-> IF l \in donate THEN "ngo" ELSE tier[l]]
  /\ seller' = [l \in Listing |->
                  IF l \in sell \cup donate THEN s ELSE seller[l]]
  /\ UNCHANGED holder

\* Nobody bought it: from now on it is a donation.
Escalate(l) ==
  /\ phase[l] = "open"
  /\ tier[l] = "b2b"
  /\ tier' = [tier EXCEPT ![l] = "ngo"]
  /\ UNCHANGED <<phase, seller, holder>>

\* Nobody takes its own listing, and only restaurants buy.
Eligible(t, l) ==
  /\ t # seller[l]
  /\ tier[l] = "b2b" => t \in Restaurants

Take(l, t) ==
  /\ phase[l] = "open"
  /\ Eligible(t, l)
  /\ phase'  = [phase EXCEPT ![l] = "claimed"]
  /\ holder' = [holder EXCEPT ![l] = t]
  /\ UNCHANGED <<tier, seller>>

\* The taker gives it back, or the seller reports that nobody came.
GiveBack(l) ==
  /\ phase[l] = "claimed"
  /\ phase'  = [phase EXCEPT ![l] = "open"]
  /\ holder' = [holder EXCEPT ![l] = None]
  /\ UNCHANGED <<tier, seller>>

Collect(l) ==
  /\ phase[l] = "claimed"
  /\ phase' = [phase EXCEPT ![l] = "completed"]
  /\ UNCHANGED <<tier, seller, holder>>

Withdraw(l) ==
  /\ phase[l] \in {"open", "claimed"}
  /\ phase'  = [phase EXCEPT ![l] = "cancelled"]
  /\ holder' = [holder EXCEPT ![l] = None]
  /\ UNCHANGED <<tier, seller>>

Next ==
  \/ \E s \in Restaurants, sell, donate \in SUBSET Listing : Offer(s, sell, donate)
  \/ \E l \in Listing : Escalate(l) \/ GiveBack(l) \/ Collect(l) \/ Withdraw(l)
  \/ \E l \in Listing, t \in Restaurants \cup Ngos : Take(l, t)

Spec == Init /\ [][Next]_vars
=============================================================================

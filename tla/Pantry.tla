------------------------------- MODULE Pantry -------------------------------
(***************************************************************************)
(* What the kitchen promises about its stock: a dish is cooked out of all  *)
(* its ingredients at once or not at all, nothing is used that is not      *)
(* there, and no request to cook takes its ingredients twice.              *)
(*                                                                         *)
(* Kitchen.tla implements this specification.                              *)
(***************************************************************************)
EXTENDS Integers

CONSTANTS
  Ingredient,  \* ingredient ids
  Dish,        \* dish ids
  recipe,      \* what each dish needs of each ingredient
  Request      \* requests to the kitchen

VARIABLES
  stock,   \* quantity on hand of each ingredient
  cooked   \* the requests that were cooked

vars == <<stock, cooked>>

Init == stock \in [Ingredient -> Nat] /\ cooked = {}

Cook(r, d) ==
  /\ r \notin cooked
  /\ \A i \in Ingredient : recipe[d][i] <= stock[i]
  /\ stock' = [i \in Ingredient |-> stock[i] - recipe[d][i]]
  /\ cooked' = cooked \cup {r}

\* A purchase, a stock count or spoilage: one ingredient changes.
Correct(i) ==
  /\ stock'[i] \in Nat
  /\ stock' = [stock EXCEPT ![i] = stock'[i]]
  /\ UNCHANGED cooked

Next ==
  \/ \E r \in Request, d \in Dish : Cook(r, d)
  \/ \E i \in Ingredient : Correct(i)

Spec == Init /\ [][Next]_vars
=============================================================================

----------------------------- MODULE MCKitchen -----------------------------
(***************************************************************************)
(* Small instances of Kitchen for TLC: two ingredients, two dishes whose   *)
(* preps draw the same lots, and room for one more lot to be bought.       *)
(***************************************************************************)
EXTENDS Kitchen, TLC

CONSTANTS rice, oil, pulao, khichdi, old, fresh, tin, spare

MCRecipe ==
  pulao :> (rice :> 4 @@ oil :> 2) @@ khichdi :> (rice :> 2 @@ oil :> 2)

\* Half a thousandth comes out of 1.5 portions of 0.333.
OddRecipe == pulao :> (rice :> 3 @@ oil :> 0) @@ khichdi :> (rice :> 0 @@ oil :> 1)

Shelved(i, expiry, bought, remaining) ==
  [ingredient |-> i, expiry |-> expiry, bought |-> bought, remaining |-> remaining]

\* The fresh rice was bought first and expires last.
MCOnHand ==
  fresh :> Shelved(rice, 2, 0, 4) @@ old :> Shelved(rice, 1, 1, 2)
    @@ tin :> Shelved(oil, 1, 2, 4) @@ spare :> NoLot

MCDeltas == {-2}
=============================================================================

---------------------------- MODULE MCLeftovers ----------------------------
(***************************************************************************)
(* Small instances of Leftovers for TLC, with what is suggested for them   *)
(* and what is reported about them.                                        *)
(***************************************************************************)
EXTENDS Suggestion, Analytics, TLC

CONSTANTS biryani, dal

Cut(retain, sell, donate, waste) ==
  [retain |-> retain, sell |-> sell, donate |-> donate, waste |-> waste]

\* Splits of four units: some sold and given, in halves of a unit; a unit over in
\* what is sent and two more by rounding; and so little kept that the row says 0.
MCSplits == {Cut(0, 150, 250, 0), Cut(150, 150, 50, 150), Cut(30, 0, 0, 370)}

\* What rounds to all of it, and to a unit.
MCConfirmations == {160, 60}

\* Two kilograms, kept or sold, and the same with nine grams too many.
KiloSplits == {Cut(200000, 0, 0, 0), Cut(0, 200900, 0, 0)}

KiloConfirmations == {100000}

\* A dish by the kilogram that is still sold, and one by the plate that is not;
\* the week between them has a month's end.
MCMenu ==
  [dish |-> biryani :> "rice" @@ dal :> "plate",
   weight |-> "rice" :> 1000 @@ "plate" :> 250,
   archived |-> {"plate"}]

MCServedOn == biryani :> 1 @@ dal :> 3

\* Nothing tells the people of the kitchen apart.
Alike == Permutations(User)

MCRanges == {[from |-> 1, to |-> 3], [from |-> 0, to |-> 1]}
=============================================================================

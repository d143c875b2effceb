----------------------------- MODULE SplitOnce -----------------------------
(***************************************************************************)
(* What the nightly close promises about surplus food: a batch of          *)
(* leftovers is split together or not at all, each leftover is split       *)
(* exactly once, what is put on the market is what the split says, and     *)
(* only food that the split kept back is ever reused.                      *)
(*                                                                         *)
(* Leftovers.tla implements this specification.                            *)
(***************************************************************************)
EXTENDS Naturals

CONSTANTS
  Leftover,  \* identifiers of recorded leftovers
  Split,     \* the ways to split one: records with sell, donate, retain
  Undecided  \* no split yet

VARIABLES
  decision,  \* the split of each leftover, or Undecided
  offered,   \* what of it went to market, by channel
  reused     \* the leftovers of which some was reused

vars == <<decision, offered, reused>>

Nothing == [b2b |-> 0, ngo |-> 0]

Init ==
  /\ decision = [l \in Leftover |-> Undecided]
  /\ offered = [l \in Leftover |-> Nothing]
  /\ reused = {}

\* The close: all of S is decided in one go.
Decide(S, split) ==
  /\ \A l \in S : decision[l] = Undecided
  /\ decision' = [l \in Leftover |-> IF l \in S THEN split[l] ELSE decision[l]]
  /\ offered' = [l \in Leftover |->
       IF l \in S THEN [b2b |-> split[l].sell, ngo |-> split[l].donate]
       ELSE offered[l]]
  /\ UNCHANGED reused

Reuse(l) ==
  /\ decision[l] # Undecided
  /\ decision[l].retain > 0
  /\ reused' = reused \cup {l}
  /\ UNCHANGED <<decision, offered>>

Next ==
  \/ \E S \in (SUBSET Leftover) \ {{}} : \E split \in [S -> Split] : Decide(S, split)
  \/ \E l \in Leftover : Reuse(l)

Spec == Init /\ [][Next]_vars
=============================================================================

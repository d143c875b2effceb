----------------------------- MODULE Suggestion -----------------------------
(***************************************************************************)
(* suggestDisposition: how main-service proposes to split a leftover. The  *)
(* agent service answers with an estimate, a model's or its own, checked   *)
(* against the recorded quantity; main-service clamps it. Without an       *)
(* answer main-service splits by itself, and food that nobody can collect  *)
(* in time is waste whatever the agent would say.                          *)
(*                                                                         *)
(* Quantities are thousandths, the units of what is stored; parts of a     *)
(* unit are hundredths.                                                    *)
(***************************************************************************)
EXTENDS Leftovers

CONSTANTS
  NgoBuffer,      \* NGO_BUFFER_HOURS, of main-service and of the agent
  ReuseMinHours,  \* REUSE_MIN_HOURS
  Unavailable     \* no answer from the agent

ASSUME SuggestionAssumption ==
  /\ NgoBuffer \in Nat \ {0}
  /\ ReuseMinHours \in Nat
  /\ Unavailable \notin [retain : Nat, sell : Nat, donate : Nat]

Least(a, b) == IF a < b THEN a ELSE b
Most(a, b) == IF a > b THEN a ELSE b

Between(x, low, high) == Least(Most(x, low), high)

\* Faulty variant: what is sold is not limited by what is kept.
ClampEach(qty, retain, sell, donate) ==
  LET kept == Round3(Between(retain, 0, 100 * qty))
      sold == Round3(Between(sell, 0, 100 * qty))
      given == Round3(Between(donate, 0, 100 * qty))
  IN [retain |-> kept, sell |-> sold, donate |-> given, waste |-> qty - kept - sold - given]

\* clampSplit
ClampSplit(qty, retain, sell, donate) ==
  LET kept == Round3(Between(retain, 0, 100 * qty))
      sold == Round3(Between(sell, 0, 100 * (qty - kept)))
      given == Round3(Between(donate, 0, 100 * (qty - kept - sold)))
  IN [retain |-> kept, sell |-> sold, donate |-> given, waste |-> qty - kept - sold - given]

-----------------------------------------------------------------------------
\* The agent's deterministic estimate; past is the median of what was reused.
DeterministicRetain(row, dish, past) ==
  IF ~dish.reusable \/ ~dish.hasRoute \/ row.safeUntil - now < ReuseMinHours THEN 0
  ELSE IF past = {} THEN Round3(40 * row.qty)
  ELSE CHOOSE q \in {Least(row.qty, p) : p \in past} : TRUE

DeterministicEstimate(row, dish, past) ==
  LET retain == DeterministicRetain(row, dish, past)
      rest == row.qty - retain
      sell == IF row.safeUntil - now > NgoBuffer THEN Round3(70 * rest) ELSE 0
  IN [retain |-> retain, sell |-> sell, donate |-> rest - sell]

\* enforce_bounds: whatever a model makes up, it adds up within the tolerance.
WithinBounds(e, qty) ==
  e.retain + e.sell + e.donate - qty \in -SplitTolerance .. SplitTolerance

ModelEstimates(qty) ==
  LET parts == 0 .. qty + SplitTolerance
  IN {e \in [retain : parts, sell : parts, donate : parts] : WithinBounds(e, qty)}

\* reuse_estimate: the model's answer, or the deterministic one when it fails.
Answers(row, dish) ==
  {Unavailable} \cup ModelEstimates(row.qty)
    \cup {DeterministicEstimate(row, dish, past) : past \in {{}} \cup {{p} : p \in 0 .. row.qty + 1}}

-----------------------------------------------------------------------------
LocalFallback(row, dish) ==
  LET retain == IF dish.reusable THEN 40 * row.qty ELSE 0
      rest == 100 * row.qty - retain
      sell == 100 * Round3((rest * 70) \div 100)
  IN ClampSplit(row.qty, retain, sell, rest - sell)

PastSafeWindow(row) == [retain |-> 0, sell |-> 0, donate |-> 0, waste |-> row.qty]

FromEstimate(row, e) == ClampSplit(row.qty, 100 * e.retain, 100 * e.sell, 100 * e.donate)

SuggestDisposition(row, dish, answer) ==
  IF row.safeUntil - now < NgoBuffer THEN PastSafeWindow(row)
  ELSE IF answer = Unavailable THEN LocalFallback(row, dish)
  ELSE FromEstimate(row, answer)

\* allocationSchema
IsAllocation(s) == s \in Split

\* A suggestion sent back as it stands.
AsSent(s) == [retain |-> 100 * s.retain, sell |-> 100 * s.sell,
              donate |-> 100 * s.donate, waste |-> 100 * s.waste]

DishKinds == [reusable : BOOLEAN, hasRoute : BOOLEAN]

(***************************************************************************)
(* A suggestion taken over as it stands is accepted by the close for as    *)
(* long as an NGO needs to collect: it adds up to what was recorded        *)
(* whatever the agent answers, however it rounds, and it offers no food    *)
(* that goes off before somebody can come for it.                          *)
(***************************************************************************)
SuggestionIsAccepted ==
  \A l \in Leftover :
    leftover[l].status = "pending_disposition" =>
      \A dish \in DishKinds : \A answer \in Answers(leftover[l], dish) :
        LET s == SuggestDisposition(leftover[l], dish, answer)
        IN  /\ IsAllocation(s)
            /\ MaySplit(l, AsSent(s))
            /\ Offers(s) => now + NgoBuffer <= leftover[l].safeUntil
=============================================================================

----------------------------- MODULE MCDelivery -----------------------------
(***************************************************************************)
(* Small instances of Delivery for TLC: a restaurant and an NGO.           *)
(* Either the NGO claims often and no bot listens, or a bot listens and    *)
(* little is published, or the restaurant's chat asks for reports.         *)
(***************************************************************************)
EXTENDS Delivery, TLC

CONSTANTS kitchen, trust, dal, rice, c1, c2, c3, waste

Quiet == [c \in Call |-> <<>>]

\* Dal is claimed, released and claimed again, and rice is claimed: with two
\* places the third finds none, if the token of the first is gone by then.
Busy ==
  c1 :> ClaimEvents(dal, kitchen, trust) @@ c2 :> ClaimEvents(dal, kitchen, trust)
    @@ c3 :> ClaimEvents(rice, kitchen, trust)

\* An offer nobody takes, and one that is picked up.
Calm ==
  c1 :> EscalationEvents(dal, kitchen, <<trust>>) @@ c2 :> PickupEvents(rice, kitchen, trust)
    @@ c3 :> <<>>

MCAgendas == {Quiet, Busy, Calm}

Case(agenda, tenants, reports) == [agenda |-> agenda, linkable |-> tenants, wanted |-> reports]

MCCases ==
  { Case(Busy, {}, {}), Case(Calm, {trust}, {}), Case(Quiet, {kitchen, trust}, {}),
    Case(Quiet, {kitchen}, {waste}) }

MCRowCount == waste :> 47
=============================================================================

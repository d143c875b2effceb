--------------------------- MODULE MCMarketplace ---------------------------
(***************************************************************************)
(* Small instances of Marketplace for TLC.                                 *)
(***************************************************************************)
EXTENDS Marketplace

CONSTANTS r1, r2, n1, asha, meera, ravi

MCTenantOf == [u \in User |-> IF u = asha THEN r1 ELSE IF u = meera THEN r2 ELSE n1]
=============================================================================

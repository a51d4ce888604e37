------------------------------ MODULE MCManager ------------------------------
(***************************************************************************)
(* Instances of ConnectionManager for TLC.                                 *)
(***************************************************************************)
EXTENDS ConnectionManager, TLC

CONSTANTS r1, r2, r3, e1, e2

OneEndpoint  == [q \in Requests |-> e1]
TwoEndpoints == [q \in Requests |-> IF q = r3 THEN e2 ELSE e1]

\* r1 and r2 are alike in every instance that is reduced by this symmetry.
Perms == Permutations({r1, r2})
=============================================================================

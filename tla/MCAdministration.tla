-------------------------- MODULE MCAdministration --------------------------
(* TLC's runs of the administration of tenants and of the platform: model   *)
(* values and bounds. Each component is explored while the other rests in    *)
(* its initial state: the interleavings of Administration left out differ    *)
(* from those explored only in the rows of the component that a property     *)
(* does not mention.                                                         *)
EXTENDS Administration, TLC

CONSTANTS u1, u2, r1, r2, guard, other, w1, w2
CONSTANTS p1, p2, t1, m1

MCNext ==
    \/ Next /\ Platform!Init /\ UNCHANGED platformVars
    \/ Platform!Next /\ Init /\ UNCHANGED vars

MCSpec == AdministrationInit /\ [][MCNext]_<<vars, platformVars>>

MCSymmetry == Permutations(Workers)
=============================================================================

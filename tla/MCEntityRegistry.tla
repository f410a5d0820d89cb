-------------------------- MODULE MCEntityRegistry --------------------------
(* Instances of EntityRegistry for TLC: two registrations at once on a     *)
(* target that answers, or one with faults, deletions and restarts.        *)
EXTENDS EntityRegistry, TLC

CONSTANTS r1, r2

OneRegistrar  == {r1}
TwoRegistrars == {r1, r2}
Symmetry      == Permutations(TwoRegistrars)
=============================================================================

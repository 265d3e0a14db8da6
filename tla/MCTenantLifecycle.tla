-------------------------- MODULE MCTenantLifecycle --------------------------
(* Instances of TenantLifecycle for TLC.                                    *)
EXTENDS TenantLifecycle, TLC

(* Domains whose slugs differ; a-b.example and a.b.example would share one.  *)
DistinctSlugs == [d \in Domains |-> d]

TwoPorts == 2201..2202

WorkerSymmetry == Permutations(Workers)
=============================================================================

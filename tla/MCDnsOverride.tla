---------------------------- MODULE MCDnsOverride ----------------------------
(***************************************************************************)
(* Model values for the TLC runs of DnsOverride.  The environment of a run *)
(* is chosen by Faults in its configuration.                               *)
(***************************************************************************)
EXTENDS DnsRefinement, TLC

\* Adapters are interchangeable, and so are the threads of the operators.
AdapterSymmetry == Permutations(Adapters)
Symmetry == Permutations(Adapters) \union Permutations(Users)
=============================================================================

--------------------------- MODULE MCRepositories ---------------------------
(* Instance of Repositories for TLC.                                        *)
EXTENDS Repositories, TLC

CONSTANTS e1, e2

TwoEndpoints == {e1, e2}
EndpointSymmetry == Permutations(TwoEndpoints)
=============================================================================

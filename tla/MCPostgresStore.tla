-------------------------- MODULE MCPostgresStore --------------------------
(* Instances of PostgresStore for TLC.                                      *)
EXTENDS PostgresStore, TLC

CONSTANTS c1, c2, c3, e1, e2

ThreeCallers == {c1, c2, c3}
OneEndpoint == {e1}
TwoEndpoints == {e1, e2}
(* Two endpoints whose identifiers have the same hash.                      *)
SameKey == [e \in Endpoint |-> 1]

CallerSymmetry == Permutations(ThreeCallers)
=============================================================================

--------------------------- MODULE MCConnections ----------------------------
(* Two connections, and two applications of different tenants.              *)
EXTENDS Connections, TLC

CONSTANTS t1, t2, p1, p2, school, company

MCHome == p1 :> t1 @@ p2 :> t2

\* The tenants are exchanged together with their applications, and neither
\* without the other.
Stay == t1 :> t1 @@ t2 :> t2 @@ p1 :> p1 @@ p2 :> p2
Swap == t1 :> t2 @@ t2 :> t1 @@ p1 :> p2 @@ p2 :> p1
MCSymmetry == {f @@ g : f \in {Stay, Swap}, g \in Permutations(Alias)}
=============================================================================

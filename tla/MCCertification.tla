--------------------------- MODULE MCCertification ---------------------------
(* Three nodes: two compete for one provider, two for the other, and the   *)
(* last one in order depends on the first.                                 *)
EXTENDS Certification, TLC

CONSTANTS a, b, c, p, q

MCGroups == a :> {p} @@ b :> {p, q} @@ c :> {q}
MCNeeds == a :> {} @@ b :> {} @@ c :> {a}
MCRank == a :> 1 @@ b :> 2 @@ c :> 3
MCCapacity == p :> 1 @@ q :> 1
=============================================================================

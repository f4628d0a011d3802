--------------------------- MODULE MC_GemdosSearch ---------------------------
(* Two find storages and three DTAs, so the table can fill; a search that *)
(* matches nothing, one of a single entry and one of 23 entries (one more *)
(* than a reply holds, so it takes two replies), and a foreign search.    *)
EXTENDS GemdosSearch, TLC

CONSTANTS d1, d2, d3, s0, s1, s23, sx

Perms == Permutations({d1, d2, d3})

MC_Found == (s0 :> NOMATCH) @@ (s1 :> 1) @@ (s23 :> 23)
====

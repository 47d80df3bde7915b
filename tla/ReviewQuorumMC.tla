--------------------------- MODULE ReviewQuorumMC ----------------------------
(* ReviewQuorum with three agents on two providers, for TLC. *)
EXTENDS ReviewQuorum, TLC

CONSTANTS a, b, c, east, west

Agents == {a, b, c}

Providers == (a :> east) @@ (b :> west) @@ (c :> east)

\* a and c are on the same provider.
Interchangeable == Permutations({a, c}) \cup Permutations(Nonce)
                       \cup Permutations(Boundary)
==============================================================================

----------------------------- MODULE MCInFlight -----------------------------
(* Small instances of InFlight: two backends, one of them capped at 1.     *)
(* Executors are interchangeable, and so are the runs of one backend.      *)
EXTENDS InFlight, TLC

CONSTANTS r1, r2, b1, b2

MCBackendOf == [r \in Runs |-> IF r \in {r1, r2} THEN b2 ELSE b1]
MCBackendCap == [b \in Backends |-> IF b = b1 THEN 1 ELSE 2]

Symmetry ==
  Permutations(Executors) \cup Permutations({r1, r2}) \cup Permutations(Runs \ {r1, r2})
============================================================================

-------------------------- MODULE MCReviewWatcher --------------------------
(* Small instances of ReviewWatcher.                                       *)
EXTENDS ReviewWatcher

\* Protection is verified where there is any.
Repo(g, p, c, s, hd, hr) ==
  [gated |-> g, protected |-> p, verify |-> p, unacked |-> FALSE,
   council |-> c, spec |-> s, heads |-> hd, hours |-> hr]
\* The fleet's own repository, with three heads at once and with two as an hour
\* passes, and with the council; one without protection; one with neither CI gate
\* nor protection nor spec files, and that with a sensitive path in the diff or
\* with a protection that it fails.
Bare == Repo(FALSE, FALSE, FALSE, FALSE, 1, 0)
Repos == {Repo(TRUE, TRUE, FALSE, TRUE, 3, 0), Repo(TRUE, TRUE, FALSE, TRUE, 2, 1),
          Repo(TRUE, TRUE, TRUE, TRUE, 2, 0), Repo(TRUE, FALSE, FALSE, FALSE, 2, 0),
          Bare, [Bare EXCEPT !.unacked = TRUE], [Bare EXCEPT !.verify = TRUE]}
\* A change to the fleet's guardrails, which the council reviews, or not.
Guarded == {Repo(TRUE, TRUE, c, TRUE, 2, 1) : c \in BOOLEAN}
\* A council that stays short of its quorum for hours.
Parked == {Repo(TRUE, TRUE, TRUE, TRUE, 1, 3)}
Waits == [c \in CiStates |-> IF c = "red" THEN 1 ELSE 2]
============================================================================

------------------------------ MODULE MCLineage ------------------------------
EXTENDS Lineage, TLC

\* With a cap of one, six tasks pass the bound the cap gives; without a cap a
\* lineage runs out of retries after five.  Four tasks make a chain whose last
\* one is at the retry cap, and a kill counts it past the cap.
MCBoards ==
  [first : {"goal"}, cap : {1}, room : {6}, kills : {0}, scene : {"stale"}]
    \cup [first : {"goal"}, cap : {1}, room : {5}, kills : {0}, scene : {"list"}]
    \cup [first : {"goal"}, cap : {0}, room : {5}, kills : {0}, scene : Scenes]
    \cup [first : {"goal"}, cap : {0}, room : {4}, kills : {MaxCount}, scene : {"requeue", "stale"}]
    \cup [first : {"improve", "test"}, cap : {0}, room : {4}, kills : {0}, scene : Scenes]
WorkerSymmetry == Permutations(Workers)
=============================================================================

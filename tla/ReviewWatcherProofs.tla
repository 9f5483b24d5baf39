------------------------ MODULE ReviewWatcherProofs ------------------------
(***************************************************************************)
(* The review watcher implements PrPromise, keeps its types, merges only    *)
(* what it looked at, never merges what it conceded and keeps to the fix   *)
(* budget, for every repository, every value of the limits and any number  *)
(* of pushes, faults and events.                                           *)
(*                                                                         *)
(* The refinement needs only where the watcher is in its closing sequence: *)
(* the task has left In Review before the receipt is written, and the      *)
(* watcher is behind a merge only if it made it.  The invariants need, one *)
(* after the other, the types (Within), what the watcher saw on its way to *)
(* a merge (Looked), which state file it carries and what a conceded one   *)
(* says (Paper, Kept), and how the passes it counted and those it started  *)
(* are related (Copies, Tracks, Spent).                                    *)
(***************************************************************************)
EXTENDS ReviewWatcher, TLAPS

HistOK == "taken" \in DOMAIN hist /\ hist.taken \in BOOLEAN

\* The order of the closing sequence and of the merge.
Ordered ==
  /\ HistOK
  /\ requeues \in 0..MaxRequeue
  /\ hist.taken => pr # "open"
  /\ pc \in {"receipt", "closing"} => task \in {"Ready", "Blocked"}
  /\ pc = "merged" => pr = "merged" /\ ~hist.taken

\* Nothing that PrPromise speaks of changes, and neither the closing sequence nor
\* the merge is entered.
Still ==
  /\ UNCHANGED <<pr, task, requeues>>
  /\ HistOK' /\ hist'.taken = hist.taken
  /\ pc' = pc \/ pc' \notin {"receipt", "closing", "merged"}

PromiseStep == [Promise!Next]_(Promise!vars)

LEMMA NotTaken == Hist0.taken = FALSE /\ "taken" \in DOMAIN Hist0
BY DEF Hist0

LEMMA InitOrdered == Init => Ordered
<1> SUFFICES ASSUME Init PROVE Ordered
  OBVIOUS
<1>1. MaxRequeue \in Nat
  BY LimitAssumption
<1>2. hist.taken = FALSE /\ "taken" \in DOMAIN hist
  BY NotTaken DEF Init
<1>3. requeues \in 0..MaxRequeue
  <2>1. requeues = 0
    BY DEF Init
  <2>2. QED
    BY <1>1, <2>1
<1>4. pc \notin {"receipt", "closing", "merged"}
  BY DEF Init
<1>5. QED
  BY <1>2, <1>3, <1>4, Zenon DEF Ordered, HistOK

LEMMA StillKeeps == Ordered /\ Still => Ordered' /\ PromiseStep
BY DEF Ordered, Still, HistOK, PromiseStep, Promise!vars

\* The steps that do neither end the pull request nor touch its task.
Elsewhere ==
  \/ ListOpen \/ CiSettles \/ CiFixGivesUp \/ RuffPush \/ RuffSave \/ AuditFixStarts \/ AuditFixEnds
  \/ HoldEscalated \/ RetractOnGreen \/ GoOn \/ CiGate \/ StartReview \/ Defer \/ CouncilParks
  \/ SourceUnclean \/ BackendFails \/ NoVerdict \/ Lgtm \/ Concerns \/ MergeOnCi \/ Concede
  \/ Exhausted \/ StartFix \/ FixNothing \/ FixPush \/ FixRecord \/ RebaseClean \/ RebaseSave
  \/ RebaseEscalates \/ RebaseFails \/ Refused \/ Permitted \/ MergeGate \/ Bless
  \/ MergeFails \/ CloseUnlinked \/ CloseFails
  \/ FinishClose \/ AuthorPush \/ BaseMoves \/ Crash
  \/ \E h \in Heads : CiReports(h)

LEMMA ElsewhereStill == ASSUME HistOK, Elsewhere PROVE Still
<1> USE DEF Still, HistOK, Goto, Done, Drop, Keep, Save, Forget, github, board, store
<1>1. ASSUME ListOpen PROVE Still
  BY <1>1 DEF ListOpen
<1>2. ASSUME CiSettles PROVE Still
  BY <1>2 DEF CiSettles, Reviewing
<1>3. ASSUME CiFixGivesUp PROVE Still
  BY <1>3 DEF CiFixGivesUp, Reviewing
<1>4. ASSUME RuffPush PROVE Still
  BY <1>4 DEF RuffPush, Push
<1>5. ASSUME RuffSave PROVE Still
  BY <1>5 DEF RuffSave
<1>6. ASSUME AuditFixStarts PROVE Still
  BY <1>6 DEF AuditFixStarts
<1>7. ASSUME AuditFixEnds PROVE Still
  BY <1>7 DEF AuditFixEnds, Push, Reviewing
<1>8. ASSUME HoldEscalated PROVE Still
  BY <1>8 DEF HoldEscalated
<1>9. ASSUME RetractOnGreen PROVE Still
  BY <1>9 DEF RetractOnGreen
<1>10. ASSUME GoOn PROVE Still
  BY <1>10 DEF GoOn
<1>11. ASSUME CiGate PROVE Still
  BY <1>11 DEF CiGate
<1>12. ASSUME StartReview PROVE Still
  BY <1>12 DEF StartReview
<1>13. ASSUME Defer PROVE Still
  BY <1>13 DEF Defer
<1>14. ASSUME CouncilParks PROVE Still
  BY <1>14 DEF CouncilParks
<1>15. ASSUME SourceUnclean PROVE Still
  BY <1>15 DEF SourceUnclean
<1>16. ASSUME BackendFails PROVE Still
  BY <1>16 DEF BackendFails
<1>17. ASSUME NoVerdict PROVE Still
  BY <1>17 DEF NoVerdict
<1>18. ASSUME Lgtm PROVE Still
  BY <1>18 DEF Lgtm
<1>19. ASSUME Concerns PROVE Still
  BY <1>19 DEF Concerns
<1>20. ASSUME MergeOnCi PROVE Still
  BY <1>20 DEF MergeOnCi
<1>21. ASSUME Concede PROVE Still
  BY <1>21 DEF Concede
<1>22. ASSUME Exhausted PROVE Still
  BY <1>22 DEF Exhausted
<1>23. ASSUME StartFix PROVE Still
  BY <1>23 DEF StartFix
<1>24. ASSUME FixNothing PROVE Still
  BY <1>24 DEF FixNothing
<1>25. ASSUME FixPush PROVE Still
  BY <1>25 DEF FixPush, Push
<1>26. ASSUME FixRecord PROVE Still
  BY <1>26 DEF FixRecord
<1>27. ASSUME RebaseClean PROVE Still
  BY <1>27 DEF RebaseClean, Push
<1>28. ASSUME RebaseSave PROVE Still
  BY <1>28 DEF RebaseSave
<1>29. ASSUME RebaseEscalates PROVE Still
  BY <1>29 DEF RebaseEscalates
<1>30. ASSUME RebaseFails PROVE Still
  BY <1>30 DEF RebaseFails
<1>31. ASSUME MergeGate PROVE Still
  BY <1>31 DEF MergeGate
<1>32. ASSUME Bless PROVE Still
  BY <1>32 DEF Bless
<1>33. ASSUME MergeFails PROVE Still
  BY <1>33 DEF MergeFails
<1>34. ASSUME CloseUnlinked PROVE Still
  BY <1>34 DEF CloseUnlinked
<1>35. ASSUME CloseFails PROVE Still
  BY <1>35 DEF CloseFails
<1>36. ASSUME FinishClose PROVE Still
  BY <1>36 DEF FinishClose
<1>37. ASSUME AuthorPush PROVE Still
  BY <1>37 DEF AuthorPush, Push
<1>38. ASSUME BaseMoves PROVE Still
  BY <1>38 DEF BaseMoves
<1>39. ASSUME Crash PROVE Still
  BY <1>39 DEF Crash
<1>40. ASSUME NEW h \in Heads, CiReports(h) PROVE Still
  BY <1>40 DEF CiReports
<1>41. ASSUME Refused PROVE Still
  BY <1>41 DEF Refused
<1>42. ASSUME Permitted PROVE Still
  BY <1>42 DEF Permitted
<1>43. QED
  BY <1>1, <1>2, <1>3, <1>4, <1>5, <1>6, <1>7, <1>8, <1>9, <1>10, <1>11, <1>12, <1>13, <1>14,
     <1>15, <1>16, <1>17, <1>18, <1>19, <1>20, <1>21, <1>22, <1>23, <1>24, <1>25, <1>26, <1>27,
     <1>28, <1>29, <1>30, <1>31, <1>32, <1>33, <1>34, <1>35, <1>36, <1>37, <1>38, <1>39, <1>40,
     <1>41, <1>42, Elsewhere
     DEF Elsewhere

LEMMA StepKeeps == Ordered /\ [Next]_vars => Ordered' /\ PromiseStep
<1> SUFFICES ASSUME Ordered, [Next]_vars PROVE Ordered' /\ PromiseStep
  OBVIOUS
<1> USE LimitAssumption DEF Ordered, HistOK, PromiseStep
<1>1. CASE Elsewhere
  BY <1>1, ElsewhereStill, StillKeeps
<1>2. CASE UNCHANGED vars
  BY <1>2 DEF vars, github, board, Promise!vars
<1>3. CASE MergePr
  BY <1>3 DEF MergePr, Mergeable, Keep, Goto, store, board, Promise!vars, Promise!Next,
     Promise!Merge
<1>4. CASE FinishMerge
  BY <1>4 DEF FinishMerge, Forget, Goto, github, Promise!vars, Promise!Next, Promise!Finish
<1>5. CASE Requeue
  BY <1>5 DEF Requeue, HandBack, Handed, Keep, Goto, store, github, Promise!vars, Promise!Next,
     Promise!HandBack, Promise!Block
<1>6. CASE RequeueFails
  <2>1. HistOK' /\ hist'.taken = hist.taken
    BY <1>6 DEF RequeueFails, Handed
  <2>2. pc' = "idle" /\ UNCHANGED pr
    BY <1>6 DEF RequeueFails, Done, Goto, github
  <2>3. CASE UNCHANGED task
    BY <1>6, <2>1, <2>2, <2>3 DEF RequeueFails, HandBack, Promise!vars, Promise!Next,
       Promise!HandBack, Promise!Block, Promise!Charge
  <2>4. CASE HandBack
    BY <2>1, <2>2, <2>4 DEF HandBack, Promise!vars, Promise!Next, Promise!HandBack, Promise!Block
  <2>5. QED
    BY <1>6, <2>3, <2>4 DEF RequeueFails
<1>7. CASE Receipt
  BY <1>7 DEF Receipt, Done, Keep, Goto, store, github, board, Promise!vars
<1>8. CASE ClosePr
  BY <1>8 DEF ClosePr, Keep, Goto, store, board, Promise!vars, Promise!Next, Promise!Close
<1>9. CASE HumanEnds
  BY <1>9 DEF HumanEnds, store, board, Promise!vars, Promise!Next, Promise!Take
<1>10. QED
  BY <1>1, <1>2, <1>3, <1>4, <1>5, <1>6, <1>7, <1>8, <1>9 DEF Next, Watch, Around, Elsewhere

\* The pull request is closed only once its task has been handed back, Done is
\* written only behind the watcher's own merge, and re-queues stay within the
\* cap, wherever _merge_and_done and _close_and_requeue fail or are killed.
THEOREM WatcherKeepsPromise == Spec => PromiseKept
<1>1. Init => Promise!Init
  BY NotTaken DEF Init, Promise!Init
<1>2. Spec => []Ordered
  BY InitOrdered, StepKeeps, PTL DEF Spec
<1>3. QED
  BY <1>1, <1>2, StepKeeps, PTL DEF Spec, PromiseKept, Promise!Spec, PromiseStep

----------------------------------------------------------------------------
(* What is merged was reviewed.  Heads only grow, so a head of the branch  *)
(* that is not above the head of the listing is that head; and the diff    *)
(* was taken between the two.                                              *)

\* The fields the argument is about.
Shape ==
  /\ {"snap", "seen", "why", "raced"} \subseteq DOMAIN poll
  /\ {"approved", "merged", "deal"} \subseteq DOMAIN hist

Deciding == {"merge", "permitted", "bless", "merging"}
Judged == {"reviewing", "concerns"} \cup Deciding
Following == {"listed", "gate", "review"} \cup Judged

Follows ==
  /\ Shape
  /\ head \in Nat /\ poll.snap \in Nat /\ poll.seen \in Nat
  /\ pc # "idle" => poll.snap <= head
  /\ pc \in Judged => poll.seen = 0 \/ (poll.snap <= poll.seen /\ poll.seen <= head)
  /\ pc \in Following /\ ~poll.raced => head = poll.snap
  /\ \A h \in blessed : h \in Nat /\ h <= head /\ (pc # "idle" => h <= poll.snap)
  /\ pc \in Deciding =>
       poll.why = "validated" \/ (poll.why = "lgtm" /\ poll.seen \in hist.approved \cup {0})
  /\ MergedReviewed

\* A step that moves no head, no verdict and no merge, and does not get nearer to
\* a merge than it was.
Calm ==
  /\ Shape' /\ UNCHANGED <<cfg, head, blessed>>
  /\ poll'.snap = poll.snap /\ poll'.seen = poll.seen
  /\ poll'.why = poll.why /\ poll'.raced = poll.raced
  /\ hist'.approved = hist.approved /\ hist'.merged = hist.merged /\ hist'.deal = hist.deal
  /\ pc' # "idle" => pc # "idle"
  /\ pc' \in Judged => pc \in Judged
  /\ pc' \in Following => pc \in Following
  /\ pc' \in Deciding => pc \in Deciding

LEMMA CalmKeeps == Follows /\ Calm => Follows'
BY DEF Follows, Calm, Shape, MergedReviewed, Judged, Following, Deciding

QuietSteps ==
  \/ CiSettles \/ CiFixGivesUp \/ RuffSave \/ AuditFixStarts \/ HoldEscalated \/ RetractOnGreen
  \/ GoOn \/ CiGate \/ Defer \/ CouncilParks \/ SourceUnclean \/ BackendFails
  \/ NoVerdict \/ Concede \/ Exhausted \/ StartFix \/ FixNothing \/ FixRecord
  \/ RebaseSave \/ RebaseEscalates \/ RebaseFails \/ Refused \/ Permitted \/ MergeGate
  \/ MergeFails \/ FinishMerge
  \/ CloseUnlinked \/ Requeue \/ RequeueFails \/ Receipt \/ ClosePr \/ CloseFails
  \/ FinishClose \/ BaseMoves \/ HumanEnds
  \/ \E h \in Heads : CiReports(h)

LEMMA QuietCalm == ASSUME Shape, QuietSteps PROVE Calm
<1> USE DEF Calm, Shape, Goto, Done, Drop, Keep, Save, Forget, github, Judged, Following, Deciding
<1>1. ASSUME CiSettles PROVE Calm
  BY <1>1 DEF CiSettles, NoQuery, AskCi, AskCiFor, InPhase
<1>2. ASSUME CiFixGivesUp PROVE Calm
  BY <1>2 DEF CiFixGivesUp, NoQuery, AskCi, AskCiFor, InPhase
<1>3. ASSUME RuffSave PROVE Calm
  BY <1>3 DEF RuffSave
<1>4. ASSUME AuditFixStarts PROVE Calm
  BY <1>4 DEF AuditFixStarts, NoQuery, AskCi, AskCiFor, InPhase
<1>5. ASSUME HoldEscalated PROVE Calm
  BY <1>5 DEF HoldEscalated, NoQuery, AskCi, AskCiFor, InPhase
<1>6. ASSUME RetractOnGreen PROVE Calm
  BY <1>6 DEF RetractOnGreen, NoQuery, AskCi, AskCiFor, InPhase
<1>7. ASSUME GoOn PROVE Calm
  BY <1>7 DEF GoOn, InPhase
<1>8. ASSUME CiGate PROVE Calm
  BY <1>8 DEF CiGate, NoQuery, AskCi, AskCiFor
<1>9. ASSUME Defer PROVE Calm
  BY <1>9 DEF Defer
<1>10. ASSUME CouncilParks PROVE Calm
  BY <1>10 DEF CouncilParks
<1>11. ASSUME SourceUnclean PROVE Calm
  BY <1>11 DEF SourceUnclean
<1>12. ASSUME BackendFails PROVE Calm
  BY <1>12 DEF BackendFails
<1>13. ASSUME NoVerdict PROVE Calm
  BY <1>13 DEF NoVerdict
<1>14. ASSUME Concede PROVE Calm
  BY <1>14 DEF Concede, NoQuery, AskCi, AskCiFor, CiNotTrusted
<1>15. ASSUME Exhausted PROVE Calm
  BY <1>15 DEF Exhausted, NoQuery, AskCi, AskCiFor, CiNotTrusted
<1>16. ASSUME StartFix PROVE Calm
  BY <1>16 DEF StartFix, NoQuery, AskCi, AskCiFor, CiNotTrusted
<1>17. ASSUME FixNothing PROVE Calm
  BY <1>17 DEF FixNothing
<1>18. ASSUME FixRecord PROVE Calm
  BY <1>18 DEF FixRecord
<1>19. ASSUME RebaseSave PROVE Calm
  BY <1>19 DEF RebaseSave
<1>20. ASSUME RebaseEscalates PROVE Calm
  BY <1>20 DEF RebaseEscalates
<1>21. ASSUME RebaseFails PROVE Calm
  BY <1>21 DEF RebaseFails
<1>22. ASSUME MergeGate PROVE Calm
  BY <1>22 DEF MergeGate, NoQuery, AskCi, AskCiFor
<1>23. ASSUME MergeFails PROVE Calm
  BY <1>23 DEF MergeFails
<1>24. ASSUME FinishMerge PROVE Calm
  BY <1>24 DEF FinishMerge
<1>25. ASSUME CloseUnlinked PROVE Calm
  BY <1>25 DEF CloseUnlinked
<1>26. ASSUME Requeue PROVE Calm
  BY <1>26 DEF Requeue, HandBack, Handed
<1>27. ASSUME RequeueFails PROVE Calm
  BY <1>27 DEF RequeueFails, HandBack, Handed
<1>28. ASSUME Receipt PROVE Calm
  BY <1>28 DEF Receipt
<1>29. ASSUME ClosePr PROVE Calm
  BY <1>29 DEF ClosePr
<1>30. ASSUME CloseFails PROVE Calm
  BY <1>30 DEF CloseFails
<1>31. ASSUME FinishClose PROVE Calm
  BY <1>31 DEF FinishClose
<1>32. ASSUME BaseMoves PROVE Calm
  BY <1>32 DEF BaseMoves
<1>33. ASSUME HumanEnds PROVE Calm
  BY <1>33 DEF HumanEnds
<1>34. ASSUME NEW h \in Heads, CiReports(h) PROVE Calm
  BY <1>34 DEF CiReports
<1>35. ASSUME Refused PROVE Calm
  BY <1>35 DEF Refused
<1>36. ASSUME Permitted PROVE Calm
  BY <1>36 DEF Permitted
<1>37. QED
  BY <1>1, <1>2, <1>3, <1>4, <1>5, <1>6, <1>7, <1>8, <1>9, <1>10, <1>11, <1>12, <1>13, <1>14,
     <1>15, <1>16, <1>17, <1>18, <1>19, <1>20, <1>21, <1>22, <1>23, <1>24, <1>25, <1>26, <1>27,
     <1>28, <1>29, <1>30, <1>31, <1>32, <1>33, <1>34, <1>35, <1>36, QuietSteps
     DEF QuietSteps

LEMMA InitFollows == Init => Follows
<1> SUFFICES ASSUME Init PROVE Follows
  OBVIOUS
<1>1. /\ poll.snap = 0 /\ poll.seen = 0 /\ head = 1 /\ pc = "idle" /\ blessed = {}
      /\ {"snap", "seen", "why", "raced"} \subseteq DOMAIN poll
  BY DEF Init, Poll0
<1>2. hist.merged = 0 /\ {"approved", "merged", "deal"} \subseteq DOMAIN hist
  BY DEF Init, Hist0
<1>3. QED
  BY <1>1, <1>2 DEF Follows, Shape, MergedReviewed, Judged, Following, Deciding

\* The merge that CI vouches for.
LEMMA ValidatedFollows == ASSUME Follows, MergeOnCi PROVE Follows'
<1>1. /\ {"snap", "seen", "why", "raced"} \subseteq DOMAIN poll' /\ poll'.why = "validated"
      /\ poll'.snap = poll.snap /\ poll'.seen = poll.seen /\ poll'.raced = poll.raced
  <2>1. {"snap", "seen", "why", "raced"} \subseteq DOMAIN [poll EXCEPT !.why = "validated"]
    BY DEF Follows, Shape
  <2>2. QED
    BY <2>1 DEF MergeOnCi, AskCiFor, Follows, Shape
<1>2. pc = "concerns" /\ pc' = "merge" /\ UNCHANGED <<cfg, head, blessed, hist>>
  BY DEF MergeOnCi, Goto, github
<1>3. MergedReviewed' /\ Shape'
  BY <1>1, <1>2 DEF Follows, MergedReviewed, Shape
<1>4. QED
  BY <1>1, <1>2, <1>3 DEF Follows, Judged, Following

LEMMA StepFollows == Follows /\ [Next]_vars => Follows'
<1> SUFFICES ASSUME Follows, [Next]_vars PROVE Follows'
  OBVIOUS
<1> USE DEF Follows, Shape, MergedReviewed, Judged, Following, Deciding, Goto
<1>1. CASE QuietSteps
  BY <1>1, QuietCalm, CalmKeeps
<1>2. CASE UNCHANGED vars
  BY <1>2 DEF vars, github
<1>3. CASE ListOpen
  <2>1. /\ poll'.snap = head /\ poll'.seen = 0
        /\ {"snap", "seen", "why", "raced"} \subseteq DOMAIN poll'
    BY <1>3 DEF ListOpen, Poll0
  <2>2. /\ {"approved", "merged", "deal"} \subseteq DOMAIN hist' /\ UNCHANGED <<cfg, head, blessed>>
        /\ hist'.approved = hist.approved /\ hist'.merged = hist.merged /\ hist'.deal = hist.deal
    BY <1>3 DEF ListOpen, github
  <2>3. pc' \in {"idle", "listed"}
    BY <1>3 DEF ListOpen, Forget, Drop
  <2>4. QED
    BY <2>1, <2>2, <2>3
<1>4. CASE RuffPush
  BY <1>4 DEF RuffPush, InPhase, AskCi, AskCiFor, Push
<1>5. CASE AuditFixEnds
  BY <1>5 DEF AuditFixEnds, Push, Drop, Done
<1>6. CASE FixPush
  BY <1>6 DEF FixPush, Push
<1>7. CASE RebaseClean
  BY <1>7 DEF RebaseClean, Push
<1>8. CASE AuthorPush
  <2>1. /\ head' = head + 1 /\ UNCHANGED <<cfg, pc, blessed>>
    BY <1>8 DEF AuthorPush, Push
  <2>2. /\ {"snap", "seen", "why", "raced"} \subseteq DOMAIN poll'
        /\ poll'.snap = poll.snap /\ poll'.seen = poll.seen /\ poll'.why = poll.why
    BY <1>8 DEF AuthorPush
  <2>3. pc # "idle" => poll'.raced
    BY <1>8 DEF AuthorPush, Busy
  <2>4. /\ {"approved", "merged", "deal"} \subseteq DOMAIN hist'
        /\ hist'.approved = hist.approved /\ hist'.merged = hist.merged /\ hist'.deal = hist.deal
    BY <1>8 DEF AuthorPush
  <2>5. QED
    BY <2>1, <2>2, <2>3, <2>4
<1>9. CASE StartReview
  <2>1. pc = "review" /\ pc' = "reviewing" /\ UNCHANGED <<cfg, head, blessed>>
    BY <1>9 DEF StartReview, github
  <2>2. /\ {"snap", "seen", "why", "raced"} \subseteq DOMAIN poll' /\ poll'.seen \in {0, head}
        /\ poll'.snap = poll.snap /\ poll'.raced = poll.raced
    BY <1>9 DEF StartReview
  <2>3. /\ {"approved", "merged", "deal"} \subseteq DOMAIN hist'
        /\ hist'.approved = hist.approved /\ hist'.merged = hist.merged /\ hist'.deal = hist.deal
    BY <1>9 DEF StartReview
  <2>4. QED
    BY <2>1, <2>2, <2>3
<1>10. CASE Lgtm
  BY <1>10 DEF Lgtm, Publish
<1>11. CASE Concerns
  BY <1>11 DEF Concerns, Publish
<1>12. CASE MergeOnCi
  BY <1>12, ValidatedFollows
<1>13. CASE Bless
  BY <1>13 DEF Bless, Publish
<1>14. CASE MergePr
  BY <1>14 DEF MergePr, Mergeable
<1>15. CASE Crash
  BY <1>15 DEF Crash, Poll0, github
<1>16. QED
  BY <1>1, <1>2, <1>3, <1>4, <1>5, <1>6, <1>7, <1>8, <1>9, <1>10, <1>11, <1>12, <1>13, <1>14, <1>15
     DEF Next, Watch, Around, QuietSteps

\* Whatever is pushed while a pull request is reviewed, _merge_and_done merges a
\* head whose diff got LGTM, or the head of the listing, which CI vouched for or
\* whose diff could not be fetched; only where no status is required can a push
\* that overtakes the poll be merged unseen.
THEOREM OnlyReviewedMerged == Spec => []MergedReviewed
<1>1. Follows => MergedReviewed
  BY DEF Follows
<1>2. QED
  BY <1>1, InitFollows, StepFollows, PTL DEF Spec

----------------------------------------------------------------------------
(* A pull request hands its task back once.  Behind the re-queue the only  *)
(* ways on are the close and the failures that leave it open.              *)

HandDom == {"handed", "unclosed"} \subseteq DOMAIN hist

\* Behind the re-queue.
Behind ==
  \/ pc \in {"receipt", "closing"}
  \/ pc = "closed" /\ pr = "closed"
  \/ pc = "idle" /\ pr # "open"

Once ==
  /\ HandDom
  /\ hist.handed \in Nat
  /\ ~hist.unclosed /\ hist.handed >= 1 => hist.handed = 1 /\ Behind

\* The steps on the way to the re-queue, none of which is taken behind it.
Earlier ==
  \/ CiSettles \/ CiFixGivesUp \/ RuffPush \/ RuffSave \/ AuditFixStarts \/ AuditFixEnds
  \/ HoldEscalated \/ RetractOnGreen \/ GoOn \/ CiGate \/ StartReview \/ Defer
  \/ CouncilParks \/ SourceUnclean \/ BackendFails \/ NoVerdict \/ Lgtm \/ Concerns
  \/ MergeOnCi \/ Concede \/ Exhausted \/ StartFix \/ FixNothing \/ FixPush
  \/ FixRecord \/ RebaseClean \/ RebaseSave \/ RebaseEscalates \/ RebaseFails \/ Refused
  \/ Permitted \/ MergeGate \/ Bless \/ MergePr \/ MergeFails \/ FinishMerge \/ CloseUnlinked

LEMMA EarlierNotBehind ==
  ASSUME HandDom, Earlier
  PROVE  ~Behind /\ HandDom' /\ hist'.handed = hist.handed /\ hist'.unclosed = hist.unclosed
<1> DEFINE G == ~Behind /\ HandDom' /\ hist'.handed = hist.handed /\ hist'.unclosed = hist.unclosed
<1> USE DEF HandDom, Behind
<1>1. ASSUME CiSettles PROVE G
  BY <1>1 DEF CiSettles, InPhase
<1>2. ASSUME CiFixGivesUp PROVE G
  BY <1>2 DEF CiFixGivesUp, InPhase
<1>3. ASSUME RuffPush PROVE G
  BY <1>3 DEF RuffPush, InPhase
<1>4. ASSUME RuffSave PROVE G
  BY <1>4 DEF RuffSave
<1>5. ASSUME AuditFixStarts PROVE G
  BY <1>5 DEF AuditFixStarts, InPhase
<1>6. ASSUME AuditFixEnds PROVE G
  BY <1>6 DEF AuditFixEnds
<1>7. ASSUME HoldEscalated PROVE G
  BY <1>7 DEF HoldEscalated, InPhase
<1>8. ASSUME RetractOnGreen PROVE G
  BY <1>8 DEF RetractOnGreen, InPhase
<1>9. ASSUME GoOn PROVE G
  BY <1>9 DEF GoOn, InPhase
<1>10. ASSUME CiGate PROVE G
  BY <1>10 DEF CiGate
<1>11. ASSUME StartReview PROVE G
  BY <1>11 DEF StartReview
<1>12. ASSUME Defer PROVE G
  BY <1>12 DEF Defer
<1>13. ASSUME CouncilParks PROVE G
  BY <1>13 DEF CouncilParks
<1>14. ASSUME SourceUnclean PROVE G
  BY <1>14 DEF SourceUnclean
<1>15. ASSUME BackendFails PROVE G
  BY <1>15 DEF BackendFails
<1>16. ASSUME NoVerdict PROVE G
  BY <1>16 DEF NoVerdict
<1>17. ASSUME Lgtm PROVE G
  BY <1>17 DEF Lgtm
<1>18. ASSUME Concerns PROVE G
  BY <1>18 DEF Concerns
<1>19. ASSUME MergeOnCi PROVE G
  BY <1>19 DEF MergeOnCi
<1>20. ASSUME Concede PROVE G
  BY <1>20 DEF Concede
<1>21. ASSUME Exhausted PROVE G
  BY <1>21 DEF Exhausted
<1>22. ASSUME StartFix PROVE G
  BY <1>22 DEF StartFix
<1>23. ASSUME FixNothing PROVE G
  BY <1>23 DEF FixNothing
<1>24. ASSUME FixPush PROVE G
  BY <1>24 DEF FixPush
<1>25. ASSUME FixRecord PROVE G
  BY <1>25 DEF FixRecord
<1>26. ASSUME RebaseClean PROVE G
  BY <1>26 DEF RebaseClean
<1>27. ASSUME RebaseSave PROVE G
  BY <1>27 DEF RebaseSave
<1>28. ASSUME RebaseEscalates PROVE G
  BY <1>28 DEF RebaseEscalates
<1>29. ASSUME RebaseFails PROVE G
  BY <1>29 DEF RebaseFails
<1>30. ASSUME MergeGate PROVE G
  BY <1>30 DEF MergeGate
<1>31. ASSUME Bless PROVE G
  BY <1>31 DEF Bless
<1>32. ASSUME MergePr PROVE G
  BY <1>32 DEF MergePr
<1>33. ASSUME MergeFails PROVE G
  BY <1>33 DEF MergeFails
<1>34. ASSUME FinishMerge PROVE G
  BY <1>34 DEF FinishMerge
<1>35. ASSUME CloseUnlinked PROVE G
  BY <1>35 DEF CloseUnlinked
<1>36. ASSUME Refused PROVE G
  BY <1>36 DEF Refused
<1>37. ASSUME Permitted PROVE G
  BY <1>37 DEF Permitted
<1>38. QED
  BY <1>1, <1>2, <1>3, <1>4, <1>5, <1>6, <1>7, <1>8, <1>9, <1>10, <1>11, <1>12, <1>13, <1>14,
     <1>15, <1>16, <1>17, <1>18, <1>19, <1>20, <1>21, <1>22, <1>23, <1>24, <1>25, <1>26, <1>27,
     <1>28, <1>29, <1>30, <1>31, <1>32, <1>33, <1>34, <1>35, <1>36, <1>37, Earlier
     DEF Earlier

LEMMA StepOnce == Once /\ [Next]_vars => Once'
<1> SUFFICES ASSUME Once, [Next]_vars PROVE Once'
  OBVIOUS
<1> USE DEF Once, HandDom, Behind, Goto
<1>1. CASE Earlier
  BY <1>1, EarlierNotBehind
<1>2. CASE UNCHANGED vars
  BY <1>2 DEF vars, github
<1>3. CASE ListOpen
  BY <1>3 DEF ListOpen, Forget, github
<1>4. CASE Requeue
  BY <1>4 DEF Requeue, HandBack, Handed, Keep
<1>5. CASE Receipt
  BY <1>5 DEF Receipt, Done, Keep
<1>6. CASE ClosePr
  BY <1>6 DEF ClosePr, Keep
<1>7. CASE CloseFails
  BY <1>7 DEF CloseFails, Done
<1>8. CASE FinishClose
  BY <1>8 DEF FinishClose, Forget, github
<1>9. CASE AuthorPush
  BY <1>9 DEF AuthorPush
<1>10. CASE BaseMoves
  BY <1>10 DEF BaseMoves
<1>11. CASE HumanEnds
  BY <1>11 DEF HumanEnds
<1>12. CASE \E h \in Heads : CiReports(h)
  BY <1>12 DEF CiReports
<1>13. CASE Crash
  BY <1>13 DEF Crash, github
<1>14. CASE RequeueFails
  <2>1. pc = "close" /\ HandDom' /\ (hist' = hist \/ hist'.unclosed)
    BY <1>14 DEF RequeueFails, Handed
  <2>2. hist'.handed \in {hist.handed, hist.handed + 1}
    BY <1>14 DEF RequeueFails, Handed
  <2>3. QED
    BY <2>1, <2>2
<1>15. QED
  BY <1>1, <1>2, <1>3, <1>4, <1>5, <1>6, <1>7, <1>8, <1>9, <1>10, <1>11, <1>12, <1>13, <1>14
     DEF Next, Watch, Around, Earlier

\* _close_and_requeue sends the task back a second time only if its own comment,
\* the receipt or the close failed after the first, or the watcher was killed
\* between them.
THEOREM HandedBackOnce == Spec => []RequeuedOnce
<1>1. Init => Once
  <2>1. Hist0.handed = 0 /\ {"handed", "unclosed"} \subseteq DOMAIN Hist0
    BY DEF Hist0
  <2>2. Init => hist = Hist0
    BY DEF Init
  <2>3. QED
    BY <2>1, <2>2 DEF Once, HandDom
<1>2. Once => RequeuedOnce
  BY DEF Once, RequeuedOnce
<1>3. QED
  BY <1>1, <1>2, StepOnce, PTL DEF Spec

----------------------------------------------------------------------------
(* Every variable keeps its type. A counter is below its limit where the   *)
(* step that raises it is one place behind the test, and the head of the   *)
(* listing is a head of the branch as long as the poll runs.               *)

\* Where the watcher is tells what it may still count.
Within ==
  /\ TypeOK
  /\ pc # "idle" => poll.snap \in Heads
  /\ pc = "ruffsave" => st.ciFix < MaxCiFix
  /\ pc = "rebased" => st.rebase < MaxRebase

LEMMA Limits ==
  /\ MaxHead \in Nat \ {0} /\ MaxFix \in Nat \ {0} /\ MaxLoops \in Nat \ {0} /\ MaxSettle \in Nat \ {0}
  /\ Day \in Nat \ {0} /\ MaxLevel \in Nat /\ MaxCiFix \in Nat /\ MaxRetract \in Nat /\ MaxRebase \in Nat
  /\ MaxRequeue \in Nat /\ MaxHour \in Nat /\ MaxFaults \in Nat /\ MaxEvents \in Nat
BY LimitAssumption

LEMMA NewTyped == NewState \in StateFile
BY Limits DEF NewState, StateFile

LEMMA PollTyped == Poll0 \in Reads
BY Limits DEF Poll0, Reads, CiStates

LEMMA HistTyped == Hist0 \in Histories
BY Limits, PollTyped DEF Hist0, Histories

Reasons == {"none", "backend", "capped", "concerns", "other"}

LEMMA EscalatedTyped ==
  ASSUME NEW s \in StateFile, NEW why \in Reasons, NEW h \in 0..MaxHead, hour \in 0..MaxHour
  PROVE  Escalated(s, why, h) \in StateFile
BY DEF Escalated, StateFile, Reasons

LEMMA AwakeTyped ==
  ASSUME NEW s \in StateFile, poll.snap \in 0..MaxHead, hour \in 0..MaxHour
  PROVE  Awake(s) \in StateFile
<1>1. PushReset(s) \in StateFile
  <2>1. 0 \in 0..MaxFix /\ 0 \in 0..MaxHead /\ 0 \in 0..MaxLevel
    BY Limits
  <2>2. [s EXCEPT !.comment = FALSE, !.fix = 0, !.concHead = 0,
                 !.pushed = "unset", !.fixSha = 0, !.level = 0] \in StateFile
    BY <2>1 DEF StateFile
  <2>3. QED
    BY <2>2 DEF PushReset
<1>2. ASSUME NEW t \in StateFile PROVE ParkExpiry(t) \in StateFile
  <2>1. Escalated(t, "capped", poll.snap) \in StateFile
    BY EscalatedTyped DEF Reasons
  <2>2. [t EXCEPT !.comment = FALSE, !.esc = FALSE, !.escHead = 0, !.reason = "none",
                      !.errors = 0, !.park = FALSE, !.parkAt = 0] \in StateFile
    <3>1. 0 \in 0..MaxLoops /\ 0 \in 0..MaxHead /\ 0 \in 0..MaxHour
      BY Limits
    <3>2. QED
      BY <3>1 DEF StateFile
  <2>3. QED
    BY <2>1, <2>2 DEF ParkExpiry
<1>3. QED
  BY <1>1, <1>2 DEF Awake

LEMMA Zeros ==
  /\ 0 \in 0..MaxHead /\ 0 \in 0..MaxFix /\ 0 \in 0..MaxLoops /\ 0 \in 0..MaxSettle /\ 0 \in 0..MaxLevel
  /\ 0 \in 0..MaxCiFix /\ 0 \in 0..MaxRebase /\ 0 \in 0..MaxHour /\ Heads \subseteq 0..MaxHead
BY Limits DEF Heads

FaultsOK == faults \in 0..MaxFaults /\ events \in 0..MaxEvents

LEMMA FaultTyped == ASSUME FaultsOK, Fault PROVE FaultsOK'
BY Limits DEF FaultsOK, Fault

LEMMA ExternalTyped == ASSUME FaultsOK, External PROVE FaultsOK'
BY Limits DEF FaultsOK, External

LEMMA AskTyped ==
  ASSUME FaultsOK, NEW q, NEW p \in Reads, AskCiFor(q, p)
  PROVE  FaultsOK' /\ poll' \in Reads /\ poll'.snap = p.snap /\ poll'.seen = p.seen
<1>1. CASE q = ci[poll.snap] /\ poll' = p /\ UNCHANGED bounds
  BY <1>1 DEF FaultsOK, bounds
<1>2. CASE Fault /\ poll' = [p EXCEPT !.blind = TRUE]
  <2>1. FaultsOK'
    BY <1>2, FaultTyped
  <2>2. QED
    BY <1>2, <2>1 DEF Reads
<1>3. QED
  BY <1>1, <1>2 DEF AskCiFor

LEMMA PublishTyped ==
  ASSUME FaultsOK, NEW b, Publish(b), blessed \in SUBSET Heads, poll.snap \in Heads
  PROVE  FaultsOK' /\ blessed' \in SUBSET Heads
<1>1. CASE UNCHANGED bounds
  BY <1>1 DEF Publish, FaultsOK, bounds, Fault
<1>2. CASE Fault
  BY <1>2, FaultTyped DEF Publish
<1>3. QED
  BY <1>1, <1>2 DEF Publish

LEMMA PushTyped ==
  ASSUME cfg \in Configs, head \in Heads, Push
  PROVE  head' \in Heads
<1>1. cfg.heads \in 1..MaxHead
  BY ConfigAssumption DEF Config
<1>2. QED
  BY <1>1, Limits DEF Push, Heads

LEMMA StepWithin == Within /\ [Next]_vars => Within'
<1> SUFFICES ASSUME Within, [Next]_vars PROVE Within'
  OBVIOUS
<1> USE DEF Goto, Done, Drop, Keep, Save, Forget, github, board, store, bounds
<1>0. /\ st \in StateFile /\ disk \in StateFile /\ poll \in Reads /\ hour \in 0..MaxHour
      /\ poll.snap \in 0..MaxHead /\ FaultsOK /\ head \in Heads /\ cfg \in Configs /\ hist \in Histories
      /\ pc # "idle" => poll.snap \in Heads
  BY DEF Within, TypeOK, FaultsOK, Reads
<1>100. cfg.hours \in 0..MaxHour
  BY <1>0, ConfigAssumption DEF Config
<1>1. CASE ListOpen
  <2>1. poll' \in Reads /\ poll'.snap = head /\ head \in Heads
    BY <1>0, <1>1, Zeros DEF ListOpen, Poll0, Reads, CiStates
  <2>2. hour' \in 0..MaxHour
    <3>1. hour' \in {hour, IF hour < cfg.hours THEN hour + 1 ELSE hour}
      BY <1>1 DEF ListOpen
    <3>2. QED
      BY <1>0, <1>100, <3>1, Limits
  <2>3. \A b \in BOOLEAN : [NewState EXCEPT !.linked = b] \in StateFile
    BY NewTyped DEF StateFile
  <2>4. st' \in StateFile /\ disk' \in StateFile
    BY <1>0, <1>1, <2>3, NewTyped DEF ListOpen
  <2>5. hist' \in Histories
    BY <1>0, <1>1 DEF ListOpen, Histories
  <2>6. pc' \in {"idle", "listed"} /\ file' \in {"none", "whole", "torn"}
    BY <1>1 DEF ListOpen, Within, TypeOK
  <2>7. FaultsOK' /\ UNCHANGED <<cfg, pr, head, ci, conflict, blessed, task, requeues>>
    BY <1>0, <1>1 DEF ListOpen, FaultsOK
  <2>8. QED
    BY <1>0, <1>1, <2>1, <2>2, <2>3, <2>4, <2>5, <2>6, <2>7 DEF ListOpen, Within, TypeOK,
       FaultsOK, Places
<1>2. CASE CiSettles
  <2>1. Reviewing([st EXCEPT !.settle = 0]) \in StateFile
    BY <1>0, Zeros DEF StateFile, Reviewing
  <2>2. st.settle + 1 >= MaxSettle \/ [st EXCEPT !.settle = @ + 1] \in StateFile
    <3>1. st.settle \in 0..MaxSettle
      BY <1>0 DEF StateFile
    <3>2. st.settle + 1 >= MaxSettle \/ st.settle + 1 \in 0..MaxSettle
      BY <3>1, Limits
    <3>3. CASE st.settle + 1 \in 0..MaxSettle
      BY <1>0, <3>3 DEF StateFile
    <3>4. QED
      BY <1>0, <3>2, <3>3
  <2>3. st' \in StateFile /\ disk' \in StateFile
    BY <1>0, <2>1, <2>2, <1>2, NewTyped, Limits DEF CiSettles
  <2>4. FaultsOK' /\ poll' \in Reads /\ poll'.snap = poll.snap /\ poll'.seen = poll.seen
    BY <1>0, <1>2, AskTyped DEF CiSettles, AskCi
  <2>5. QED
    BY <1>0, <1>2, <2>1, <2>2, <2>3, <2>4 DEF CiSettles, InPhase, Within, TypeOK, FaultsOK, Places
<1>3. CASE CiFixGivesUp
  <2>1. Reviewing([st EXCEPT !.settle = 0]) \in StateFile
    BY <1>0, Zeros DEF StateFile, Reviewing
  <2>2. st' \in StateFile /\ disk' \in StateFile
    BY <1>0, <2>1, <1>3, NewTyped DEF CiFixGivesUp
  <2>3. FaultsOK' /\ poll' \in Reads /\ poll'.snap = poll.snap /\ poll'.seen = poll.seen
    BY <1>0, <1>3, AskTyped DEF CiFixGivesUp, AskCi
  <2>4. QED
    BY <1>0, <1>3, <2>1, <2>2, <2>3 DEF CiFixGivesUp, InPhase, Within, TypeOK, FaultsOK, Places
<1>4. CASE RuffPush
  <2>1. st' \in StateFile /\ disk' \in StateFile
    BY <1>0, <1>4, NewTyped DEF RuffPush
  <2>2. FaultsOK' /\ poll' \in Reads /\ poll'.snap = poll.snap /\ poll'.seen = poll.seen
    BY <1>0, <1>4, AskTyped DEF RuffPush, AskCi
  <2>3. head' \in Heads
    BY <1>0, <1>4, PushTyped DEF RuffPush
  <2>4. QED
    BY <1>0, <1>4, <2>1, <2>2, <2>3 DEF RuffPush, InPhase, Within, TypeOK, FaultsOK, Places
<1>5. CASE RuffSave
  <2>1. [st EXCEPT !.settle = 0, !.ciFix = @ + 1] \in StateFile
    <3>1. st.ciFix \in 0..MaxCiFix /\ st.ciFix < MaxCiFix
      BY <1>0, <1>5 DEF RuffSave, Within, StateFile
    <3>2. st.ciFix + 1 \in 0..MaxCiFix
      BY <3>1, Limits
    <3>3. QED
      BY <1>0, <3>2, Zeros DEF StateFile
  <2>2. st' \in StateFile /\ disk' \in StateFile
    BY <1>0, <2>1, <1>5, NewTyped DEF RuffSave
  <2>3. QED
    BY <1>0, <1>5, <2>1, <2>2 DEF RuffSave, Within, TypeOK, FaultsOK, Places
<1>6. CASE AuditFixStarts
  <2>1. [st EXCEPT !.settle = 0, !.ciFix = @ + 1] \in StateFile
    <3>1. st.ciFix \in 0..MaxCiFix /\ st.ciFix < MaxCiFix
      BY <1>0, <1>6 DEF AuditFixStarts, Within, StateFile
    <3>2. st.ciFix + 1 \in 0..MaxCiFix
      BY <3>1, Limits
    <3>3. QED
      BY <1>0, <3>2, Zeros DEF StateFile
  <2>2. st' \in StateFile /\ disk' \in StateFile
    BY <1>0, <2>1, <1>6, NewTyped DEF AuditFixStarts
  <2>3. FaultsOK' /\ poll' \in Reads /\ poll'.snap = poll.snap /\ poll'.seen = poll.seen
    BY <1>0, <1>6, AskTyped DEF AuditFixStarts, AskCi
  <2>4. QED
    BY <1>0, <1>6, <2>1, <2>2, <2>3 DEF AuditFixStarts, InPhase, Within, TypeOK, FaultsOK, Places
<1>7. CASE AuditFixEnds
  <2>1. Reviewing(st) \in StateFile
    BY <1>0 DEF StateFile, Reviewing
  <2>2. st' \in StateFile /\ disk' \in StateFile
    BY <1>0, <2>1, <1>7, NewTyped DEF AuditFixEnds
  <2>3. head' \in Heads
    BY <1>0, <1>7, PushTyped DEF AuditFixEnds
  <2>4. QED
    BY <1>0, <1>7, <2>1, <2>2, <2>3 DEF AuditFixEnds, Within, TypeOK, FaultsOK, Places
<1>8. CASE HoldEscalated
  <2>1. [Awake(st) EXCEPT !.escHead = poll.snap] \in StateFile
    BY <1>0, AwakeTyped DEF StateFile
  <2>2. st' \in StateFile /\ disk' \in StateFile
    BY <1>0, <2>1, <1>8, NewTyped DEF HoldEscalated
  <2>3. FaultsOK' /\ poll' \in Reads /\ poll'.snap = poll.snap /\ poll'.seen = poll.seen
    BY <1>0, <1>8, AskTyped DEF HoldEscalated, AskCi, NoQuery, FaultsOK, bounds
  <2>4. QED
    BY <1>0, <1>8, <2>1, <2>2, <2>3 DEF HoldEscalated, InPhase, Within, TypeOK, FaultsOK, Places
<1>9. CASE RetractOnGreen
  <2>1. Awake(st).retr < MaxRetract
    BY <1>9 DEF RetractOnGreen, MayRetract
  <2>2. Awake(st) \in StateFile
    BY <1>0, AwakeTyped
  <2>3. Resumed(Awake(st)) \in StateFile
    BY <2>2, Zeros DEF StateFile, Resumed
  <2>4. Resumed(Awake(st)).retr = Awake(st).retr
    BY <2>2 DEF StateFile, Resumed
  <2>5. Retracted(Awake(st)) \in StateFile
    <3>1. Resumed(Awake(st)).retr \in 0..MaxRetract
      BY <2>3 DEF StateFile
    <3>2. Resumed(Awake(st)).retr + 1 \in 0..MaxRetract
      BY <2>1, <2>4, <3>1, Limits
    <3>3. QED
      BY <2>3, <3>2, Zeros DEF StateFile, Retracted
  <2>6. st' \in StateFile /\ disk' \in StateFile
    BY <2>5, <1>9 DEF RetractOnGreen
  <2>7. FaultsOK' /\ poll' \in Reads /\ poll'.snap = poll.snap /\ poll'.seen = poll.seen
    BY <1>0, <1>9, AskTyped DEF RetractOnGreen, AskCi
  <2>8. hist' \in Histories
    BY <1>0, <1>9, Limits DEF RetractOnGreen, Histories
  <2>9. QED
    BY <1>0, <1>9, <2>1, <2>2, <2>3, <2>4, <2>5, <2>6, <2>7, <2>8 DEF RetractOnGreen, InPhase,
       Within, TypeOK, FaultsOK, Places
<1>10. CASE GoOn
  <2>1. Awake(st) \in StateFile
    BY <1>0, AwakeTyped
  <2>2. Resumed(Awake(st)) \in StateFile
    BY <2>1, Zeros DEF StateFile, Resumed
  <2>3. st' \in StateFile /\ disk' \in StateFile
    BY <2>1, <2>2, <1>10 DEF GoOn
  <2>4. QED
    BY <1>0, <1>10, <2>1, <2>2, <2>3 DEF GoOn, InPhase, Within, TypeOK, FaultsOK, Places
<1>11. CASE CiGate
  <2>1. [st EXCEPT !.wait = 0] \in StateFile
    BY <1>0 DEF StateFile
  <2>2. [st EXCEPT !.wait = @ + 1] \in StateFile
    BY <1>0 DEF StateFile
  <2>3. Escalated([st EXCEPT !.wait = @ + 1], "other", poll.snap) \in StateFile
    BY <1>0, <2>2, EscalatedTyped DEF Reasons
  <2>4. st' \in StateFile /\ disk' \in StateFile
    BY <1>0, <2>1, <2>2, <2>3, <1>11, NewTyped DEF CiGate
  <2>5. FaultsOK' /\ poll' \in Reads /\ poll'.snap = poll.snap /\ poll'.seen = poll.seen
    BY <1>0, <1>11, AskTyped DEF CiGate, AskCi, NoQuery, FaultsOK, bounds
  <2>6. QED
    BY <1>0, <1>11, <2>1, <2>2, <2>3, <2>4, <2>5 DEF CiGate, Within, TypeOK, FaultsOK, Places
<1>12. CASE StartReview
  <2>1. [st EXCEPT !.park = FALSE, !.parkAt = 0] \in StateFile
    BY <1>0, Zeros DEF StateFile
  <2>2. st' \in StateFile /\ disk' \in StateFile
    BY <1>0, <2>1, <1>12, NewTyped DEF StartReview
  <2>3. /\ [poll EXCEPT !.seen = head, !.council = cfg.council] \in Reads
        /\ \A got \in {0, head} : [poll EXCEPT !.seen = got] \in Reads
    <3>1. cfg.council \in BOOLEAN
      BY <1>0, ConfigAssumption DEF Config
    <3>2. head \in 0..MaxHead /\ 0 \in 0..MaxHead
      BY <1>0, Limits DEF Heads
    <3>3. QED
      BY <1>0, <3>1, <3>2 DEF Reads
  <2>4. poll' \in Reads /\ poll'.snap = poll.snap
    BY <1>0, <2>3, <1>12 DEF StartReview, Reads
  <2>5. hist' \in Histories
    BY <1>0, <1>12, Limits DEF StartReview, Histories
  <2>6. FaultsOK'
    BY <1>0, <1>12, FaultTyped DEF StartReview, FaultsOK, bounds
  <2>7. QED
    BY <1>0, <1>12, <2>1, <2>2, <2>4, <2>5, <2>6 DEF StartReview, Within, TypeOK, FaultsOK, Places
<1>13. CASE Defer
  <2>1. st' \in StateFile /\ disk' \in StateFile
    BY <1>0, <1>13, NewTyped DEF Defer
  <2>2. FaultsOK'
    BY <1>0, <1>13, FaultTyped DEF Defer, FaultsOK, bounds
  <2>3. QED
    BY <1>0, <1>13, <2>1, <2>2 DEF Defer, Within, TypeOK, FaultsOK, Places
<1>14. CASE CouncilParks
  <2>1. [st EXCEPT !.park = TRUE, !.parkAt = IF st.park THEN @ ELSE hour] \in StateFile
    BY <1>0 DEF StateFile
  <2>2. Escalated([st EXCEPT !.park = TRUE, !.parkAt = IF st.park THEN @ ELSE hour], "backend", poll.snap) \in StateFile
    BY <1>0, <2>1, EscalatedTyped DEF Reasons
  <2>3. st' \in StateFile /\ disk' \in StateFile
    BY <1>0, <2>2, <1>14, NewTyped DEF CouncilParks
  <2>4. hist' \in Histories
    BY <1>0, <1>14, Limits DEF CouncilParks, Histories
  <2>5. QED
    BY <1>0, <1>14, <2>1, <2>2, <2>3, <2>4 DEF CouncilParks, Within, TypeOK, FaultsOK, Places
<1>15. CASE SourceUnclean
  <2>1. st.unclean + 1 < MaxLoops => [st EXCEPT !.unclean = @ + 1] \in StateFile
    BY <1>0, Limits DEF StateFile
  <2>2. [Escalated([st EXCEPT !.unclean = @ + 1], "other", poll.snap) EXCEPT !.unclean = 0]
          = Escalated([st EXCEPT !.unclean = 0], "other", poll.snap)
    BY <1>0 DEF StateFile, Escalated
  <2>3. [st EXCEPT !.unclean = 0] \in StateFile
    BY <1>0, Zeros DEF StateFile
  <2>4. [Escalated([st EXCEPT !.unclean = @ + 1], "other", poll.snap) EXCEPT !.unclean = 0] \in StateFile
    BY <1>0, <2>2, <2>3, EscalatedTyped DEF Reasons
  <2>5. [st EXCEPT !.unclean = @ + 1].unclean = st.unclean + 1
    BY <1>0 DEF StateFile
  <2>6. st' \in StateFile /\ disk' \in StateFile
    BY <1>0, <2>1, <2>4, <2>5, <1>15, NewTyped DEF SourceUnclean
  <2>7. QED
    BY <1>0, <1>15, <2>1, <2>2, <2>3, <2>4, <2>5, <2>6 DEF SourceUnclean, Within, TypeOK,
       FaultsOK, Places
<1>16. CASE BackendFails
  <2>1. st.errors + 1 < MaxLoops => [st EXCEPT !.errors = @ + 1] \in StateFile
    BY <1>0, Limits DEF StateFile
  <2>2. [Escalated([st EXCEPT !.errors = @ + 1], "backend", poll.snap) EXCEPT !.errors = 0]
          = Escalated([st EXCEPT !.errors = 0], "backend", poll.snap)
    BY <1>0 DEF StateFile, Escalated
  <2>3. [st EXCEPT !.errors = 0] \in StateFile
    BY <1>0, Zeros DEF StateFile
  <2>4. [Escalated([st EXCEPT !.errors = @ + 1], "backend", poll.snap) EXCEPT !.errors = 0] \in StateFile
    BY <1>0, <2>2, <2>3, EscalatedTyped DEF Reasons
  <2>5. [st EXCEPT !.errors = @ + 1].errors = st.errors + 1
    BY <1>0 DEF StateFile
  <2>6. st' \in StateFile /\ disk' \in StateFile
    BY <1>0, <2>1, <2>4, <2>5, <1>16, NewTyped DEF BackendFails
  <2>7. QED
    BY <1>0, <1>16, <2>1, <2>2, <2>3, <2>4, <2>5, <2>6 DEF BackendFails, Within, TypeOK,
       FaultsOK, Places
<1>17. CASE NoVerdict
  <2>1. Ran(st) \in StateFile
    BY <1>0, Zeros DEF StateFile, Ran
  <2>2. Ran(st).noVerdict + 1 < MaxLoops => [Ran(st) EXCEPT !.noVerdict = @ + 1] \in StateFile
    BY <1>0, <2>1, Limits DEF StateFile
  <2>3. [Escalated([Ran(st) EXCEPT !.noVerdict = @ + 1], "other", poll.snap) EXCEPT !.noVerdict = 0]
          = Escalated([Ran(st) EXCEPT !.noVerdict = 0], "other", poll.snap)
    BY <1>0, <2>1 DEF StateFile, Escalated
  <2>4. [Ran(st) EXCEPT !.noVerdict = 0] \in StateFile
    BY <1>0, <2>1, Zeros DEF StateFile
  <2>5. [Escalated([Ran(st) EXCEPT !.noVerdict = @ + 1], "other", poll.snap) EXCEPT !.noVerdict = 0] \in StateFile
    BY <1>0, <2>3, <2>4, EscalatedTyped DEF Reasons
  <2>6. [Ran(st) EXCEPT !.noVerdict = @ + 1].noVerdict = Ran(st).noVerdict + 1
    BY <1>0, <2>1 DEF StateFile
  <2>7. st' \in StateFile /\ disk' \in StateFile
    BY <1>0, <2>2, <2>5, <2>6, <1>17, NewTyped DEF NoVerdict
  <2>8. QED
    BY <1>0, <1>17, <2>1, <2>2, <2>3, <2>4, <2>5, <2>6, <2>7 DEF NoVerdict, Within, TypeOK,
       FaultsOK, Places
<1>18. CASE Lgtm
  <2>1. Ran(st) \in StateFile
    BY <1>0, Zeros DEF StateFile, Ran
  <2>2. [Ran(st) EXCEPT !.noVerdict = 0] \in StateFile
    BY <2>1, Zeros DEF StateFile
  <2>3. st' \in StateFile /\ disk' \in StateFile
    BY <1>0, <2>2, <1>18 DEF Lgtm
  <2>4. FaultsOK' /\ blessed' \in SUBSET Heads
    BY <1>0, <1>18, PublishTyped DEF Lgtm, Within, TypeOK
  <2>5. poll' \in Reads /\ poll'.snap = poll.snap
    BY <1>0, <1>18 DEF Lgtm, Reads
  <2>6. hist' \in Histories
    <3>1. hist.approved \cup ({poll.seen} \ {0}) \subseteq Heads
      <4>1. poll.seen \in 0..MaxHead /\ hist.approved \subseteq Heads
        BY <1>0 DEF Reads, Histories
      <4>2. QED
        BY <4>1, Limits DEF Heads
    <3>2. QED
      BY <1>0, <1>18, <3>1 DEF Lgtm, Histories
  <2>7. QED
    BY <1>0, <1>18, <2>1, <2>2, <2>3, <2>4, <2>5, <2>6 DEF Lgtm, Within, TypeOK, FaultsOK, Places
<1>19. CASE Concerns
  <2>1. Ran(st) \in StateFile
    BY <1>0, Zeros DEF StateFile, Ran
  <2>2. poll.snap \in Heads /\ Ran(st).concAt = st.concAt /\ st.concAt \in 0..MaxHour
    BY <1>0, <1>19 DEF Concerns, Within, Ran, StateFile
  <2>3. \A at \in 0..MaxHour : [Ran(st) EXCEPT !.noVerdict = 0, !.concHead = poll.snap,
                    !.concerns = @ \cup {poll.snap}, !.concAt = at] \in StateFile
    BY <2>1, <2>2, Zeros DEF StateFile
  <2>4. st' \in StateFile /\ disk' \in StateFile
    BY <1>0, <2>2, <2>3, <1>19 DEF Concerns
  <2>5. FaultsOK' /\ blessed' \in SUBSET Heads
    BY <1>0, <1>19, PublishTyped DEF Concerns, Within, TypeOK
  <2>6. QED
    BY <1>0, <1>19, <2>1, <2>2, <2>3, <2>4, <2>5 DEF Concerns, Within, TypeOK, FaultsOK, Places
<1>20. CASE MergeOnCi
  <2>1. st' \in StateFile /\ disk' \in StateFile
    BY <1>0, <1>20, NewTyped DEF MergeOnCi
  <2>2. [poll EXCEPT !.why = "validated"] \in Reads /\ [poll EXCEPT !.why = "validated"].snap = poll.snap
    BY <1>0 DEF Reads
  <2>3. FaultsOK' /\ poll' \in Reads /\ poll'.snap = poll.snap
    BY <1>0, <2>2, <1>20, AskTyped DEF MergeOnCi
  <2>4. QED
    BY <1>0, <1>20, <2>1, <2>2, <2>3 DEF MergeOnCi, Within, TypeOK, FaultsOK, Places
<1>21. CASE Concede
  <2>1. Escalated(st, "concerns", poll.snap) \in StateFile
    BY <1>0, Zeros, EscalatedTyped DEF Reasons
  <2>2. st' \in StateFile /\ disk' \in StateFile
    BY <1>0, <2>1, <1>21, NewTyped DEF Concede
  <2>3. FaultsOK' /\ poll' \in Reads /\ poll'.snap = poll.snap /\ poll'.seen = poll.seen
    BY <1>0, <1>21, AskTyped DEF Concede, AskCi, CiNotTrusted, NoQuery, FaultsOK, bounds
  <2>4. hist' \in Histories
    BY <1>0, <1>21 DEF Concede, Within, Histories
  <2>5. QED
    BY <1>0, <1>21, <2>1, <2>2, <2>3, <2>4 DEF Concede, Within, TypeOK, FaultsOK, Places
<1>22. CASE Exhausted
  <2>1. Climbed \in StateFile
    BY <1>0, <1>22, Limits DEF Exhausted, Climbed, MayClimb, StateFile
  <2>2. st' \in StateFile /\ disk' \in StateFile
    BY <1>0, <2>1, <1>22 DEF Exhausted
  <2>3. FaultsOK' /\ poll' \in Reads /\ poll'.snap = poll.snap /\ poll'.seen = poll.seen
    BY <1>0, <1>22, AskTyped DEF Exhausted, AskCi, CiNotTrusted, NoQuery, FaultsOK, bounds
  <2>4. QED
    BY <1>0, <1>22, <2>1, <2>2, <2>3 DEF Exhausted, Within, TypeOK, FaultsOK, Places
<1>23. CASE StartFix
  <2>1. Climbed \in StateFile
    BY <1>0, <1>23, Limits DEF StartFix, Climbed, MayClimb, StateFile
  <2>2. Climbed.fix = st.fix /\ st.fix \in 0..MaxFix /\ st.fix < MaxFix /\ st.comment \in BOOLEAN
    BY <1>0, <1>23 DEF StartFix, Climbed, StateFile
  <2>3. \A b \in BOOLEAN : [Climbed EXCEPT !.comment = b, !.fix = @ + 1, !.pushed = "unset"] \in StateFile
    <3>1. Climbed.fix + 1 \in 0..MaxFix
      BY <2>2, Limits
    <3>2. QED
      BY <2>1, <3>1 DEF StateFile
  <2>4. st' \in StateFile /\ disk' \in StateFile
    BY <2>2, <2>3, <1>23 DEF StartFix
  <2>5. FaultsOK' /\ poll' \in Reads /\ poll'.snap = poll.snap /\ poll'.seen = poll.seen
    BY <1>0, <1>23, AskTyped DEF StartFix, AskCi, CiNotTrusted, NoQuery, FaultsOK, bounds
  <2>6. hist' \in Histories
    BY <1>0, <1>23 DEF StartFix, Histories
  <2>7. QED
    BY <1>0, <1>23, <2>1, <2>2, <2>3, <2>4, <2>5, <2>6 DEF StartFix, Within, TypeOK, FaultsOK,
       Places
<1>24. CASE FixNothing
  <2>1. [st EXCEPT !.pushed = "no"] \in StateFile
    BY <1>0 DEF StateFile
  <2>2. st' \in StateFile /\ disk' \in StateFile
    BY <1>0, <2>1, <1>24, NewTyped DEF FixNothing
  <2>3. QED
    BY <1>0, <1>24, <2>1, <2>2 DEF FixNothing, Within, TypeOK, FaultsOK, Places
<1>25. CASE FixPush
  <2>1. st' \in StateFile /\ disk' \in StateFile
    BY <1>0, <1>25, NewTyped DEF FixPush
  <2>2. head' \in Heads
    BY <1>0, <1>25, PushTyped DEF FixPush
  <2>3. QED
    BY <1>0, <1>25, <2>1, <2>2 DEF FixPush, Within, TypeOK, FaultsOK, Places
<1>26. CASE FixRecord
  <2>1. [st EXCEPT !.pushed = "yes", !.fixSha = head] \in StateFile
    BY <1>0, Zeros DEF StateFile
  <2>2. [st EXCEPT !.pushed = "yes", !.fixSha = 0] \in StateFile
    BY <1>0, Zeros DEF StateFile
  <2>3. st' \in StateFile /\ disk' \in StateFile
    BY <1>0, <2>1, <2>2, <1>26, NewTyped DEF FixRecord
  <2>4. FaultsOK'
    BY <1>0, <1>26, FaultTyped DEF FixRecord, FaultsOK, bounds
  <2>5. hist' \in Histories
    BY <1>0, <1>26 DEF FixRecord, Histories
  <2>6. QED
    BY <1>0, <1>26, <2>1, <2>2, <2>3, <2>4, <2>5 DEF FixRecord, Within, TypeOK, FaultsOK, Places
<1>27. CASE RebaseClean
  <2>1. st' \in StateFile /\ disk' \in StateFile
    BY <1>0, <1>27, NewTyped DEF RebaseClean
  <2>2. head' \in Heads
    BY <1>0, <1>27, PushTyped DEF RebaseClean
  <2>3. hist' \in Histories
    BY <1>0, <1>27 DEF RebaseClean, Histories
  <2>4. QED
    BY <1>0, <1>27, <2>1, <2>2, <2>3 DEF RebaseClean, Within, TypeOK, FaultsOK, Places
<1>28. CASE RebaseSave
  <2>1. [st EXCEPT !.rebase = @ + 1] \in StateFile
    BY <1>0, <1>28, Limits DEF RebaseSave, Within, StateFile
  <2>2. st' \in StateFile /\ disk' \in StateFile
    BY <1>0, <2>1, <1>28, NewTyped DEF RebaseSave
  <2>3. QED
    BY <1>0, <1>28, <2>1, <2>2 DEF RebaseSave, Within, TypeOK, FaultsOK, Places
<1>29. CASE RebaseEscalates
  <2>1. Escalated(st, "other", 0) \in StateFile
    BY <1>0, Zeros, EscalatedTyped DEF Reasons
  <2>2. st' \in StateFile /\ disk' \in StateFile
    BY <1>0, <2>1, <1>29, NewTyped DEF RebaseEscalates
  <2>3. QED
    BY <1>0, <1>29, <2>1, <2>2 DEF RebaseEscalates, Within, TypeOK, FaultsOK, Places
<1>30. CASE RebaseFails
  <2>1. st' \in StateFile /\ disk' \in StateFile
    BY <1>0, <1>30, NewTyped DEF RebaseFails
  <2>2. FaultsOK'
    BY <1>0, <1>30, FaultTyped DEF RebaseFails, FaultsOK, bounds
  <2>3. QED
    BY <1>0, <1>30, <2>1, <2>2 DEF RebaseFails, Within, TypeOK, FaultsOK, Places
<1>31. CASE MergeGate
  <2>1. st' \in StateFile /\ disk' \in StateFile
    BY <1>0, <1>31, NewTyped DEF MergeGate
  <2>2. ci[poll.snap] \in CiStates
    BY <1>0, <1>31 DEF MergeGate, Within, TypeOK
  <2>3. [poll EXCEPT !.ci = ci[poll.snap]] \in Reads /\ [poll EXCEPT !.ci = ci[poll.snap]].snap = poll.snap
    BY <1>0, <2>2 DEF Reads
  <2>4. FaultsOK' /\ poll' \in Reads /\ poll'.snap = poll.snap
    BY <1>0, <2>3, <1>31, AskTyped DEF MergeGate
  <2>5. QED
    BY <1>0, <1>31, <2>1, <2>2, <2>3, <2>4 DEF MergeGate, Within, TypeOK, FaultsOK, Places
<1>32. CASE Bless
  <2>1. st' \in StateFile /\ disk' \in StateFile
    BY <1>0, <1>32, NewTyped DEF Bless
  <2>2. FaultsOK' /\ blessed' \in SUBSET Heads
    BY <1>0, <1>32, PublishTyped DEF Bless, Within, TypeOK
  <2>3. QED
    BY <1>0, <1>32, <2>1, <2>2 DEF Bless, Within, TypeOK, FaultsOK, Places
<1>33. CASE MergePr
  <2>1. st' \in StateFile /\ disk' \in StateFile
    BY <1>0, <1>33, NewTyped DEF MergePr
  <2>2. hist' \in Histories
    BY <1>0, <1>33, Zeros DEF MergePr, Histories
  <2>3. QED
    BY <1>0, <1>33, <2>1, <2>2 DEF MergePr, Within, TypeOK, FaultsOK, Places
<1>34. CASE MergeFails
  <2>1. st' \in StateFile /\ disk' \in StateFile
    BY <1>0, <1>34, NewTyped DEF MergeFails
  <2>2. FaultsOK'
    BY <1>0, <1>34, FaultTyped DEF MergeFails, FaultsOK, bounds
  <2>3. QED
    BY <1>0, <1>34, <2>1, <2>2 DEF MergeFails, Within, TypeOK, FaultsOK, Places
<1>35. CASE FinishMerge
  <2>1. st' \in StateFile /\ disk' \in StateFile
    BY <1>0, <1>35, NewTyped DEF FinishMerge
  <2>2. FaultsOK'
    BY <1>0, <1>35, FaultTyped DEF FinishMerge, FaultsOK, bounds
  <2>3. task' \in TaskStates
    BY <1>35 DEF FinishMerge, Within, TypeOK, TaskStates
  <2>4. QED
    BY <1>0, <1>35, <2>1, <2>2, <2>3 DEF FinishMerge, Within, TypeOK, FaultsOK, Places
<1>36. CASE CloseUnlinked
  <2>1. Escalated(st, "other", 0) \in StateFile
    BY <1>0, Zeros, EscalatedTyped DEF Reasons
  <2>2. st' \in StateFile /\ disk' \in StateFile
    BY <1>0, <2>1, <1>36, NewTyped DEF CloseUnlinked
  <2>3. QED
    BY <1>0, <1>36, <2>1, <2>2 DEF CloseUnlinked, Within, TypeOK, FaultsOK, Places
<1>37. CASE Requeue
  <2>1. st' \in StateFile /\ disk' \in StateFile
    BY <1>0, <1>37, NewTyped DEF Requeue, HandBack, Handed
  <2>2. hist' \in Histories
    BY <1>0, <1>37 DEF Requeue, HandBack, Handed, Histories
  <2>3. task' \in TaskStates
    BY <1>37 DEF Requeue, HandBack, Handed, TaskStates
  <2>4. requeues' \in 0..MaxRequeue
    <3>1. requeues \in 0..MaxRequeue
      BY DEF Within, TypeOK
    <3>2. IF requeues < MaxRequeue THEN requeues' = requeues + 1 ELSE requeues' = requeues
      BY <1>37, Zenon DEF Requeue, HandBack, Handed
    <3>3. QED
      BY <3>1, <3>2, Limits
  <2>5. QED
    BY <1>0, <1>37, <2>1, <2>2, <2>3, <2>4 DEF Requeue, Within, TypeOK, FaultsOK, Places
<1>38. CASE RequeueFails
  <2>1. st' \in StateFile /\ disk' \in StateFile
    BY <1>0, <1>38, NewTyped DEF RequeueFails, HandBack, Handed
  <2>2. FaultsOK'
    BY <1>0, <1>38, FaultTyped DEF RequeueFails, HandBack, Handed, FaultsOK, bounds
  <2>3. requeues' \in 0..MaxRequeue /\ task' \in TaskStates
    <3>1. requeues \in 0..MaxRequeue /\ task \in TaskStates
      BY DEF Within, TypeOK
    <3>2. \/ requeues' = requeues \/ (requeues < MaxRequeue /\ requeues' = requeues + 1)
      BY <1>38 DEF RequeueFails, HandBack
    <3>3. task' \in {task, "Ready", "Blocked"}
      BY <1>38, Zenon DEF RequeueFails, HandBack
    <3>4. requeues' \in 0..MaxRequeue
      BY <3>1, <3>2, Limits
    <3>5. task' \in TaskStates
      BY <3>1, <3>3 DEF TaskStates
    <3>6. QED
      BY <3>4, <3>5
  <2>4. hist' \in Histories
    <3>1. Handed(hist) \in Histories
      BY <1>0 DEF Handed, Histories
    <3>2. [Handed(hist) EXCEPT !.unclosed = TRUE] \in Histories
      BY <3>1 DEF Histories
    <3>3. QED
      BY <1>0, <1>38, <3>2 DEF RequeueFails
  <2>5. QED
    BY <1>0, <1>38, <2>1, <2>2, <2>3, <2>4 DEF RequeueFails, Within, TypeOK, FaultsOK, Places
<1>39. CASE Receipt
  <2>1. st' \in StateFile /\ disk' \in StateFile
    BY <1>0, <1>39, NewTyped DEF Receipt
  <2>2. FaultsOK'
    BY <1>0, <1>39, FaultTyped DEF Receipt, FaultsOK, bounds
  <2>3. hist' \in Histories
    BY <1>0, <1>39 DEF Receipt, Histories
  <2>4. QED
    BY <1>0, <1>39, <2>1, <2>2, <2>3 DEF Receipt, Within, TypeOK, FaultsOK, Places
<1>40. CASE ClosePr
  <2>1. st' \in StateFile /\ disk' \in StateFile
    BY <1>0, <1>40, NewTyped DEF ClosePr
  <2>2. QED
    BY <1>0, <1>40, <2>1 DEF ClosePr, Within, TypeOK, FaultsOK, Places
<1>41. CASE CloseFails
  <2>1. st' \in StateFile /\ disk' \in StateFile
    BY <1>0, <1>41, NewTyped DEF CloseFails
  <2>2. FaultsOK'
    BY <1>0, <1>41, FaultTyped DEF CloseFails, FaultsOK, bounds
  <2>3. hist' \in Histories
    BY <1>0, <1>41 DEF CloseFails, Histories
  <2>4. QED
    BY <1>0, <1>41, <2>1, <2>2, <2>3 DEF CloseFails, Within, TypeOK, FaultsOK, Places
<1>42. CASE FinishClose
  <2>1. st' \in StateFile /\ disk' \in StateFile
    BY <1>0, <1>42, NewTyped DEF FinishClose
  <2>2. QED
    BY <1>0, <1>42, <2>1 DEF FinishClose, Within, TypeOK, FaultsOK, Places
<1>43. CASE AuthorPush
  <2>1. st' \in StateFile /\ disk' \in StateFile
    BY <1>0, <1>43, NewTyped DEF AuthorPush
  <2>2. head' \in Heads
    BY <1>0, <1>43, PushTyped DEF AuthorPush
  <2>3. FaultsOK'
    BY <1>0, <1>43, ExternalTyped DEF AuthorPush
  <2>4. hist' \in Histories
    BY <1>0, <1>43 DEF AuthorPush, Histories
  <2>5. poll' \in Reads /\ poll'.snap = poll.snap /\ poll'.seen = poll.seen
    BY <1>0, <1>43 DEF AuthorPush, Busy, Reads
  <2>6. QED
    BY <1>0, <1>43, <2>1, <2>2, <2>3, <2>4, <2>5 DEF AuthorPush, Within, TypeOK, FaultsOK, Places
<1>44. CASE BaseMoves
  <2>1. st' \in StateFile /\ disk' \in StateFile
    BY <1>0, <1>44, NewTyped DEF BaseMoves
  <2>2. FaultsOK'
    BY <1>0, <1>44, ExternalTyped DEF BaseMoves
  <2>3. QED
    BY <1>0, <1>44, <2>1, <2>2 DEF BaseMoves, Within, TypeOK, FaultsOK, Places
<1>45. CASE HumanEnds
  <2>1. st' \in StateFile /\ disk' \in StateFile
    BY <1>0, <1>45, NewTyped DEF HumanEnds
  <2>2. FaultsOK'
    BY <1>0, <1>45, ExternalTyped DEF HumanEnds
  <2>3. hist' \in Histories
    BY <1>0, <1>45 DEF HumanEnds, Histories
  <2>4. QED
    BY <1>0, <1>45, <2>1, <2>2, <2>3 DEF HumanEnds, Within, TypeOK, FaultsOK, Places
<1>46. CASE Crash
  <2>1. st' \in StateFile /\ disk' \in StateFile
    BY <1>0, <1>46, NewTyped DEF Crash
  <2>2. FaultsOK'
    BY <1>0, <1>46, FaultTyped DEF Crash, FaultsOK, bounds
  <2>3. hist' \in Histories
    BY <1>0, <1>46 DEF Crash, Histories
  <2>4. poll' \in Reads
    BY <1>46, PollTyped DEF Crash
  <2>5. file' \in {"none", "whole", "torn"}
    BY <1>46 DEF Crash, Within, TypeOK
  <2>6. QED
    BY <1>0, <1>46, <2>1, <2>2, <2>3, <2>4, <2>5 DEF Crash, Within, TypeOK, FaultsOK, Places
<1>47. CASE \E h \in Heads : CiReports(h)
  <2>1. st' \in StateFile /\ disk' \in StateFile
    BY <1>0, <1>47, NewTyped DEF CiReports
  <2>2. FaultsOK'
    BY <1>0, <1>47, ExternalTyped DEF CiReports, FaultsOK, bounds
  <2>3. ci' \in [Heads -> CiStates]
    BY <1>47 DEF CiReports, Within, TypeOK
  <2>4. QED
    BY <1>0, <1>47, <2>1, <2>2, <2>3 DEF CiReports, Within, TypeOK, FaultsOK, Places
<1>48. CASE UNCHANGED vars
  BY <1>48 DEF vars, Within, TypeOK
<1>49. CASE Refused
  <2>1. st' \in StateFile /\ disk' \in StateFile
    BY <1>0, <1>49, NewTyped DEF Refused
  <2>2. FaultsOK'
    BY <1>0, <1>49, FaultTyped DEF Refused, FaultsOK, bounds
  <2>3. QED
    BY <1>0, <1>49, <2>1, <2>2 DEF Refused, Within, TypeOK, FaultsOK, Places
<1>50. CASE Permitted
  <2>1. [st EXCEPT !.rebase = 0] \in StateFile
    BY <1>0, Zeros DEF StateFile
  <2>2. st' \in StateFile /\ disk' \in StateFile
    BY <1>0, <2>1, <1>50, NewTyped DEF Permitted
  <2>3. FaultsOK'
    BY <1>0, <1>50, FaultTyped DEF Permitted, FaultsOK, bounds
  <2>4. QED
    BY <1>0, <1>50, <2>1, <2>2, <2>3 DEF Permitted, Within, TypeOK, FaultsOK, Places
<1>51. QED
  BY <1>1, <1>2, <1>3, <1>4, <1>5, <1>6, <1>7, <1>8, <1>9, <1>10, <1>11, <1>12, <1>13, <1>14,
     <1>15, <1>16, <1>17, <1>18, <1>19, <1>20, <1>21, <1>22, <1>23, <1>24, <1>25, <1>26, <1>27,
     <1>28, <1>29, <1>30, <1>31, <1>32, <1>33, <1>34, <1>35, <1>36, <1>37, <1>38, <1>39, <1>40,
     <1>41, <1>42, <1>43, <1>44, <1>45, <1>46, <1>47, <1>48, <1>49, <1>50
     DEF Next, Watch, Around

LEMMA InitWithin == Init => Within
<1> SUFFICES ASSUME Init PROVE Within
  OBVIOUS
<1>0. head = 1 /\ requeues = 0 /\ hour = 0 /\ faults = 0 /\ events = 0
  BY DEF Init
<1>1. /\ head \in Heads /\ requeues \in 0..MaxRequeue /\ hour \in 0..MaxHour
      /\ faults \in 0..MaxFaults /\ events \in 0..MaxEvents
  BY <1>0, Limits DEF Heads
<1>2. QED
  BY <1>1, NewTyped, PollTyped, HistTyped DEF Init, Within, TypeOK, CiStates, TaskStates, Places

\* Every counter of the state file stays within its limit and every head it
\* names exists, wherever the poll ends or is killed.
THEOREM WatcherTyped == Spec => []TypeOK
<1>1. Within => TypeOK
  BY DEF Within
<1>2. QED
  BY <1>1, InitWithin, StepWithin, PTL DEF Spec

----------------------------------------------------------------------------
(* What is merged was checked. Past the CI gate the head of the listing    *)
(* has a report, and a report is never withdrawn, only replaced; so the    *)
(* merge gate, which lets "no checks" pass, cannot meet it there.          *)

\* The gate has seen the CI of the head of the listing; the merge gate has.
PastGate == {"review", "reviewing", "concerns", "merge", "permitted"}
Cleared == {"bless", "merging"}

Looked ==
  /\ cfg.gated /\ pc \in PastGate /\ ~poll.blind => ci[poll.snap] # "none"
  /\ pc \in Cleared /\ ~poll.blind =>
       poll.ci \notin {"red", "pending"} /\ (cfg.gated => poll.ci = "green")
  /\ MergedChecked

\* A step that neither asks CI for the merge nor gets nearer to it.
Unmoved ==
  /\ UNCHANGED <<cfg, ci>> /\ poll'.snap = poll.snap /\ poll'.ci = poll.ci
  /\ poll.blind => poll'.blind
  /\ hist'.merged = hist.merged /\ hist'.deal = hist.deal
  /\ pc' \in PastGate => pc \in PastGate
  /\ pc' \in Cleared => pc \in Cleared

LEMMA UnmovedKeeps == Looked /\ Unmoved => Looked'
BY DEF Looked, Unmoved, MergedChecked

\* Off the path from the CI gate to the merge.
Aside ==
  \/ CiSettles \/ CiFixGivesUp \/ RuffPush \/ RuffSave \/ AuditFixStarts \/ AuditFixEnds
  \/ HoldEscalated \/ RetractOnGreen \/ GoOn \/ StartReview \/ Defer \/ CouncilParks
  \/ SourceUnclean \/ BackendFails \/ NoVerdict \/ Lgtm \/ Concerns \/ MergeOnCi \/ Concede
  \/ Exhausted \/ StartFix \/ FixNothing \/ FixPush \/ FixRecord \/ RebaseClean \/ RebaseSave
  \/ RebaseEscalates \/ RebaseFails \/ Bless \/ MergeFails \/ FinishMerge \/ CloseUnlinked
  \/ Requeue \/ RequeueFails \/ Receipt \/ ClosePr \/ CloseFails \/ FinishClose \/ AuthorPush
  \/ BaseMoves \/ HumanEnds \/ Refused \/ Permitted

LEMMA AsideUnmoved == ASSUME TypeOK, Aside PROVE Unmoved
<1> USE DEF Unmoved, Goto, Done, Drop, Keep, Save, Forget, github, PastGate, Cleared
<1>0. /\ {"snap", "ci", "blind"} \subseteq DOMAIN poll /\ {"merged", "deal"} \subseteq DOMAIN hist
      /\ poll.blind \in BOOLEAN
  BY DEF TypeOK, Reads, Histories
<1>1. ASSUME CiSettles PROVE Unmoved
  BY <1>0, <1>1 DEF CiSettles, InPhase, AskCi, AskCiFor
<1>2. ASSUME CiFixGivesUp PROVE Unmoved
  BY <1>0, <1>2 DEF CiFixGivesUp, InPhase, AskCi, AskCiFor
<1>3. ASSUME RuffPush PROVE Unmoved
  BY <1>0, <1>3 DEF RuffPush, InPhase, AskCi, AskCiFor
<1>4. ASSUME RuffSave PROVE Unmoved
  BY <1>0, <1>4 DEF RuffSave
<1>5. ASSUME AuditFixStarts PROVE Unmoved
  BY <1>0, <1>5 DEF AuditFixStarts, InPhase, AskCi, AskCiFor
<1>6. ASSUME AuditFixEnds PROVE Unmoved
  BY <1>0, <1>6 DEF AuditFixEnds
<1>7. ASSUME HoldEscalated PROVE Unmoved
  BY <1>0, <1>7 DEF HoldEscalated, InPhase, AskCi, AskCiFor, NoQuery
<1>8. ASSUME RetractOnGreen PROVE Unmoved
  BY <1>0, <1>8 DEF RetractOnGreen, InPhase, AskCi, AskCiFor
<1>9. ASSUME GoOn PROVE Unmoved
  BY <1>0, <1>9 DEF GoOn, InPhase
<1>10. ASSUME StartReview PROVE Unmoved
  BY <1>0, <1>10 DEF StartReview
<1>11. ASSUME Defer PROVE Unmoved
  BY <1>0, <1>11 DEF Defer
<1>12. ASSUME CouncilParks PROVE Unmoved
  BY <1>0, <1>12 DEF CouncilParks
<1>13. ASSUME SourceUnclean PROVE Unmoved
  BY <1>0, <1>13 DEF SourceUnclean
<1>14. ASSUME BackendFails PROVE Unmoved
  BY <1>0, <1>14 DEF BackendFails
<1>15. ASSUME NoVerdict PROVE Unmoved
  BY <1>0, <1>15 DEF NoVerdict
<1>16. ASSUME Lgtm PROVE Unmoved
  BY <1>0, <1>16 DEF Lgtm
<1>17. ASSUME Concerns PROVE Unmoved
  BY <1>0, <1>17 DEF Concerns
<1>18. ASSUME MergeOnCi PROVE Unmoved
  BY <1>0, <1>18 DEF MergeOnCi, AskCiFor
<1>19. ASSUME Concede PROVE Unmoved
  BY <1>0, <1>19 DEF Concede, CiNotTrusted, AskCi, AskCiFor, NoQuery
<1>20. ASSUME Exhausted PROVE Unmoved
  BY <1>0, <1>20 DEF Exhausted, CiNotTrusted, AskCi, AskCiFor, NoQuery
<1>21. ASSUME StartFix PROVE Unmoved
  BY <1>0, <1>21 DEF StartFix, CiNotTrusted, AskCi, AskCiFor, NoQuery
<1>22. ASSUME FixNothing PROVE Unmoved
  BY <1>0, <1>22 DEF FixNothing
<1>23. ASSUME FixPush PROVE Unmoved
  BY <1>0, <1>23 DEF FixPush
<1>24. ASSUME FixRecord PROVE Unmoved
  BY <1>0, <1>24 DEF FixRecord
<1>25. ASSUME RebaseClean PROVE Unmoved
  BY <1>0, <1>25 DEF RebaseClean
<1>26. ASSUME RebaseSave PROVE Unmoved
  BY <1>0, <1>26 DEF RebaseSave
<1>27. ASSUME RebaseEscalates PROVE Unmoved
  BY <1>0, <1>27 DEF RebaseEscalates
<1>28. ASSUME RebaseFails PROVE Unmoved
  BY <1>0, <1>28 DEF RebaseFails
<1>29. ASSUME Bless PROVE Unmoved
  BY <1>0, <1>29 DEF Bless
<1>30. ASSUME MergeFails PROVE Unmoved
  BY <1>0, <1>30 DEF MergeFails
<1>31. ASSUME FinishMerge PROVE Unmoved
  BY <1>0, <1>31 DEF FinishMerge
<1>32. ASSUME CloseUnlinked PROVE Unmoved
  BY <1>0, <1>32 DEF CloseUnlinked
<1>33. ASSUME Requeue PROVE Unmoved
  BY <1>0, <1>33 DEF Requeue, HandBack, Handed
<1>34. ASSUME RequeueFails PROVE Unmoved
  BY <1>0, <1>34 DEF RequeueFails, HandBack, Handed
<1>35. ASSUME Receipt PROVE Unmoved
  BY <1>0, <1>35 DEF Receipt
<1>36. ASSUME ClosePr PROVE Unmoved
  BY <1>0, <1>36 DEF ClosePr
<1>37. ASSUME CloseFails PROVE Unmoved
  BY <1>0, <1>37 DEF CloseFails
<1>38. ASSUME FinishClose PROVE Unmoved
  BY <1>0, <1>38 DEF FinishClose
<1>39. ASSUME AuthorPush PROVE Unmoved
  BY <1>0, <1>39 DEF AuthorPush
<1>40. ASSUME BaseMoves PROVE Unmoved
  BY <1>0, <1>40 DEF BaseMoves
<1>41. ASSUME HumanEnds PROVE Unmoved
  BY <1>0, <1>41 DEF HumanEnds
<1>42. ASSUME Refused PROVE Unmoved
  BY <1>0, <1>42 DEF Refused
<1>43. ASSUME Permitted PROVE Unmoved
  BY <1>0, <1>43 DEF Permitted
<1>44. QED
  BY <1>1, <1>2, <1>3, <1>4, <1>5, <1>6, <1>7, <1>8, <1>9, <1>10, <1>11, <1>12, <1>13, <1>14,
     <1>15, <1>16, <1>17, <1>18, <1>19, <1>20, <1>21, <1>22, <1>23, <1>24, <1>25, <1>26, <1>27,
     <1>28, <1>29, <1>30, <1>31, <1>32, <1>33, <1>34, <1>35, <1>36, <1>37, <1>38, <1>39, <1>40,
     <1>41, <1>42, <1>43, Aside
     DEF Aside

LEMMA StepLooked == Within /\ Within' /\ Looked /\ [Next]_vars => Looked'
<1> SUFFICES ASSUME Within, Within', Looked, [Next]_vars PROVE Looked'
  OBVIOUS
<1> USE DEF Goto, PastGate, Cleared
<1>0. /\ {"snap", "ci", "blind"} \subseteq DOMAIN poll /\ {"merged", "deal"} \subseteq DOMAIN hist
      /\ poll.blind \in BOOLEAN /\ TypeOK
  BY DEF Within, TypeOK, Reads, Histories
<1>1. CASE Aside
  BY <1>0, <1>1, AsideUnmoved, UnmovedKeeps
<1>2. CASE UNCHANGED vars
  BY <1>2 DEF vars, github, Looked, MergedChecked
<1>3. CASE ListOpen
  <2>1. pc' \in {"idle", "listed"} /\ UNCHANGED cfg /\ hist'.merged = hist.merged /\ hist'.deal = hist.deal
    BY <1>0, <1>3 DEF ListOpen, Forget, Drop
  <2>2. QED
    BY <2>1 DEF Looked, MergedChecked
<1>4. CASE CiGate
  <2>1. UNCHANGED <<cfg, ci, hist>> /\ pc' \in {"idle", "review"}
    BY <1>4 DEF CiGate, github, Keep, Done
  <2>2. pc' = "review" /\ cfg.gated => AskCi("green")
    BY <1>4 DEF CiGate, Done
  <2>3. pc' = "review" /\ cfg.gated /\ ~poll'.blind => ci[poll'.snap] = "green"
    BY <1>0, <2>2 DEF AskCi, AskCiFor
  <2>4. QED
    BY <2>1, <2>3 DEF Looked, MergedChecked
<1>5. CASE MergeGate
  <2>1. UNCHANGED <<cfg, ci, hist>> /\ pc' \in {"idle", "bless"} /\ pc = "permitted"
    BY <1>5 DEF MergeGate, github, Keep, Drop
  <2>2. pc' = "bless" => \E q \in CiStates \ {"red", "pending"} : AskCiFor(q, [poll EXCEPT !.ci = ci[poll.snap]])
    BY <1>5 DEF MergeGate, Drop
  <2>3. pc' = "bless" /\ ~poll'.blind =>
          ~poll.blind /\ poll'.ci = ci[poll.snap] /\ poll'.ci \in CiStates \ {"red", "pending"}
    BY <1>0, <2>2 DEF AskCiFor
  <2>4. QED
    BY <2>1, <2>3 DEF Looked, MergedChecked, CiStates
<1>6. CASE MergePr
  <2>1. pc = "merging" /\ pc' = "merged" /\ UNCHANGED cfg /\ hist'.deal = poll
    BY <1>0, <1>6 DEF MergePr
  <2>2. QED
    BY <2>1 DEF Looked, MergedChecked
<1>7. CASE Crash
  BY <1>0, <1>7 DEF Crash, Looked, MergedChecked
<1>8. CASE \E h \in Heads : CiReports(h)
  <2>1. PICK h \in Heads : CiReports(h)
    BY <1>8
  <2>2. PICK c \in CiStates :
          c # "none" /\ ci' = [ci EXCEPT ![h] = c] /\ UNCHANGED <<cfg, pc, poll, hist>>
    BY <2>1 DEF CiReports, CiProgress
  <2>3. ci \in [Heads -> CiStates] /\ (pc # "idle" => poll.snap \in Heads)
    BY DEF Within, TypeOK
  <2>4. pc \in PastGate => (ci'[poll.snap] = ci[poll.snap] \/ ci'[poll.snap] = c)
    BY <2>2, <2>3
  <2>5. QED
    BY <2>2, <2>4 DEF Looked, MergedChecked
<1>9. QED
  BY <1>1, <1>2, <1>3, <1>4, <1>5, <1>6, <1>7, <1>8 DEF Next, Watch, Around, Aside

\* _merge_and_done merges nothing over failing or running checks, and a gated
\* branch only on green, unless a check query of that poll failed.
THEOREM OnlyCheckedMerged == Spec => []MergedChecked
<1>1. Init => Looked
  <2>1. Hist0.merged = 0
    BY DEF Hist0
  <2>2. QED
    BY <2>1 DEF Init, Looked, MergedChecked, PastGate, Cleared
<1>2. Looked => MergedChecked
  BY DEF Looked
<1>3. QED
  BY <1>1, <1>2, InitWithin, StepWithin, StepLooked, PTL DEF Spec

----------------------------------------------------------------------------
(* A conceded head is not merged. As long as the branch stays on it, the   *)
(* file holds the escalation with its head among the concerns, which       *)
(* neither a retraction nor a new poll gets past; and the file is only     *)
(* given up once the pull request has ended.                               *)

\* The places of _phase1.
Phase1 == Places \ {"idle", "listed", "agentfix", "ruffsave"}
\* What the place says of the file, of the copy in memory and of the merge.
Paper ==
  /\ pc # "idle" => file = "whole" /\ poll.snap <= head
  /\ pc \in Phase1 => st.phase = "self_review"
  /\ pc \in {"concerns", "fixing"} => st.concHead = poll.snap /\ poll.snap \in st.concerns
  /\ pc = "listed" => st = disk
  /\ pc \in {"merged", "closed"} => pr # "open"
  /\ hist.merged # 0 => pr # "open" /\ pc \in {"idle", "merged"}
\* The file keeps head h before a human.
Held(s, h) == s.phase = "self_review" /\ s.esc /\ s.escHead = h /\ s.reason = "concerns" /\ h \in s.concerns
\* A conceded head is behind the listing, or the file holds it.
Kept ==
  /\ \A h \in hist.conceded :
       /\ h <= head
       /\ pc # "idle" => h <= poll.snap
       /\ pc # "idle" /\ h = poll.snap => pc = "listed" /\ Held(st, h)
       /\ h = head /\ file # "none" => Held(disk, h)
  /\ hist.conceded # {} /\ file = "none" => pr # "open"
  /\ ConcededKept
\* PushReset takes head h for somebody else's push.
Foreign(s, h) ==
  /\ s.comment /\ s.concHead # 0 /\ h # s.concHead
  /\ ~(s.fixSha # 0 /\ h = s.fixSha) /\ ~(s.fix > 0 /\ s.pushed = "unset")

LEMMA Fields ==
  ASSUME NEW s \in StateFile
  PROVE  /\ {"phase", "fix", "pushed", "fixSha", "comment", "concHead", "concerns", "esc", "escHead", "reason"}
              \subseteq DOMAIN s
         /\ s.comment \in BOOLEAN /\ s.esc \in BOOLEAN /\ s.fix \in Nat /\ s.fix <= MaxFix
BY Limits DEF StateFile

LEMMA NewFields ==
  NewState.phase = "ci_fix" /\ NewState.comment = FALSE /\ NewState.fix = 0
BY DEF NewState

\* What waking up leaves alone.
LEMMA AwakeFields ==
  ASSUME NEW s \in StateFile, poll.snap \in 0..MaxHead, hour \in 0..MaxHour
  PROVE  /\ Awake(s).phase = s.phase /\ Awake(s).concerns = s.concerns
         /\ s.reason # "backend" =>
              Awake(s).esc = s.esc /\ Awake(s).escHead = s.escHead /\ Awake(s).reason = s.reason
         /\ Awake(s).fix = IF Foreign(s, poll.snap) THEN 0 ELSE s.fix
         /\ \/ Awake(s).comment = FALSE
            \/ /\ Awake(s).comment = s.comment /\ Awake(s).concHead = s.concHead /\ Awake(s).fixSha = s.fixSha
               /\ Awake(s).fix = s.fix /\ Awake(s).pushed = s.pushed
<1> DEFINE t == PushReset(s)
<1>1. t \in StateFile
  <2>2. [s EXCEPT !.comment = FALSE, !.fix = 0, !.concHead = 0,
                 !.pushed = "unset", !.fixSha = 0, !.level = 0] \in StateFile
    BY Zeros DEF StateFile
  <2>3. QED
    BY <2>2 DEF PushReset
<1>2. /\ t.phase = s.phase /\ t.concerns = s.concerns
      /\ t.esc = s.esc /\ t.escHead = s.escHead /\ t.reason = s.reason
      /\ t.fix = IF Foreign(s, poll.snap) THEN 0 ELSE s.fix
      /\ \/ t.comment = FALSE
         \/ /\ t.comment = s.comment /\ t.concHead = s.concHead /\ t.fixSha = s.fixSha
            /\ t.fix = s.fix /\ t.pushed = s.pushed
  BY Fields DEF PushReset, OwnPush, Foreign
<1> HIDE DEF t
<1>3. /\ ParkExpiry(t).phase = t.phase /\ ParkExpiry(t).concerns = t.concerns /\ ParkExpiry(t).fix = t.fix
      /\ t.reason # "backend" => ParkExpiry(t) = t
      /\ \/ ParkExpiry(t).comment = FALSE
         \/ /\ ParkExpiry(t).comment = t.comment /\ ParkExpiry(t).concHead = t.concHead
            /\ ParkExpiry(t).fixSha = t.fixSha /\ ParkExpiry(t).pushed = t.pushed
  BY <1>1, Fields DEF ParkExpiry, Escalated
<1>4. Awake(s) = ParkExpiry(t)
  BY DEF Awake, t
<1>5. QED
  BY <1>2, <1>3, <1>4

LEMMA ResumedFields ==
  ASSUME NEW s \in StateFile
  PROVE  /\ Resumed(s).phase = s.phase /\ Retracted(s).phase = s.phase
         /\ Resumed(s).fix = s.fix /\ Resumed(s).pushed = s.pushed /\ Resumed(s).fixSha = s.fixSha
         /\ Resumed(s).comment = FALSE /\ Retracted(s).comment = FALSE /\ Retracted(s).fix = 0
BY Fields DEF Resumed, Retracted

LEMMA StepPaper == Within /\ Within' /\ Paper /\ [Next]_vars => Paper'
<1> SUFFICES ASSUME Within, Within', Paper, [Next]_vars PROVE Paper'
  OBVIOUS
<1> USE DEF Paper, Goto, Done, Drop, Keep, Save, Forget, github, store, Phase1, Places
<1>0. /\ st \in StateFile /\ disk \in StateFile /\ poll.snap \in 0..MaxHead /\ hour \in 0..MaxHour
      /\ head \in Nat /\ poll.snap \in Nat /\ head' \in Nat
      /\ {"snap", "seen", "ci", "blind", "why", "raced"} \subseteq DOMAIN poll /\ {"merged"} \subseteq DOMAIN hist
      /\ {"phase", "concHead", "concerns"} \subseteq DOMAIN st
  <2>1. /\ head \in Heads /\ head' \in Heads /\ poll \in Reads /\ hist \in Histories
        /\ st \in StateFile /\ disk \in StateFile /\ hour \in 0..MaxHour
    BY DEF Within, TypeOK
  <2>2. {"phase", "concHead", "concerns"} \subseteq DOMAIN st
    BY <2>1, Fields
  <2>3. /\ poll.snap \in 0..MaxHead
        /\ {"snap", "seen", "ci", "blind", "why", "raced"} \subseteq DOMAIN poll
    BY <2>1 DEF Reads
  <2>4. {"merged"} \subseteq DOMAIN hist
    BY <2>1 DEF Histories
  <2>5. QED
    BY <2>1, <2>2, <2>3, <2>4, Limits DEF Heads
<1>1. CASE CiSettles
  BY <1>0, <1>1 DEF CiSettles, InPhase, AskCi, AskCiFor, Reviewing
<1>2. CASE CiFixGivesUp
  BY <1>0, <1>2 DEF CiFixGivesUp, InPhase, AskCi, AskCiFor, Reviewing
<1>3. CASE RuffPush
  BY <1>0, <1>3 DEF RuffPush, InPhase, AskCi, AskCiFor, Push
<1>4. CASE RuffSave
  BY <1>0, <1>4 DEF RuffSave
<1>5. CASE AuditFixStarts
  BY <1>0, <1>5 DEF AuditFixStarts, InPhase, AskCi, AskCiFor
<1>6. CASE AuditFixEnds
  BY <1>0, <1>6 DEF AuditFixEnds, Push, Reviewing
<1>7. CASE HoldEscalated
  BY <1>0, <1>7, AwakeFields DEF HoldEscalated, InPhase, AskCi, AskCiFor, NoQuery
<1>8. CASE RetractOnGreen
  <2>1. Awake(st) \in StateFile /\ Awake(st).phase = st.phase
    BY <1>0, AwakeTyped, AwakeFields
  <2>2. st'.phase = st.phase
    BY <2>1, <1>8, ResumedFields DEF RetractOnGreen
  <2>3. QED
    BY <1>0, <2>2, <1>8 DEF RetractOnGreen, InPhase, AskCi, AskCiFor
<1>9. CASE GoOn
  <2>1. Awake(st) \in StateFile /\ Awake(st).phase = st.phase
    BY <1>0, AwakeTyped, AwakeFields
  <2>2. st'.phase = st.phase
    BY <2>1, <1>9, ResumedFields DEF GoOn
  <2>3. QED
    BY <1>0, <2>2, <1>9 DEF GoOn, InPhase
<1>10. CASE StartReview
  BY <1>0, <1>10 DEF StartReview
<1>11. CASE Defer
  BY <1>0, <1>11 DEF Defer
<1>12. CASE CouncilParks
  BY <1>0, <1>12 DEF CouncilParks, Escalated
<1>13. CASE SourceUnclean
  BY <1>0, <1>13 DEF SourceUnclean, Escalated
<1>14. CASE BackendFails
  BY <1>0, <1>14 DEF BackendFails, Escalated
<1>15. CASE NoVerdict
  BY <1>0, <1>15 DEF NoVerdict, Escalated, Ran
<1>16. CASE Lgtm
  BY <1>0, <1>16 DEF Lgtm, Ran, Publish
<1>17. CASE Concerns
  BY <1>0, <1>17 DEF Concerns, Ran, Publish
<1>18. CASE MergeOnCi
  BY <1>0, <1>18 DEF MergeOnCi, AskCiFor
<1>19. CASE Concede
  BY <1>0, <1>19 DEF Concede, CiNotTrusted, AskCi, AskCiFor, NoQuery, Escalated
<1>20. CASE Exhausted
  BY <1>0, <1>20 DEF Exhausted, CiNotTrusted, AskCi, AskCiFor, NoQuery, Climbed
<1>21. CASE StartFix
  BY <1>0, <1>21 DEF StartFix, CiNotTrusted, AskCi, AskCiFor, NoQuery, Climbed
<1>22. CASE FixNothing
  BY <1>0, <1>22 DEF FixNothing
<1>23. CASE FixPush
  BY <1>0, <1>23 DEF FixPush, Push
<1>24. CASE FixRecord
  BY <1>0, <1>24 DEF FixRecord
<1>25. CASE RebaseClean
  BY <1>0, <1>25 DEF RebaseClean, Push
<1>26. CASE RebaseSave
  BY <1>0, <1>26 DEF RebaseSave
<1>27. CASE RebaseEscalates
  BY <1>0, <1>27 DEF RebaseEscalates, Escalated
<1>28. CASE RebaseFails
  BY <1>0, <1>28 DEF RebaseFails
<1>29. CASE Bless
  BY <1>0, <1>29 DEF Bless, Publish
<1>30. CASE MergeFails
  BY <1>0, <1>30 DEF MergeFails
<1>31. CASE FinishMerge
  BY <1>0, <1>31 DEF FinishMerge
<1>32. CASE CloseUnlinked
  BY <1>0, <1>32 DEF CloseUnlinked, Escalated
<1>33. CASE Requeue
  BY <1>0, <1>33 DEF Requeue, HandBack, Handed
<1>34. CASE RequeueFails
  BY <1>0, <1>34 DEF RequeueFails, HandBack, Handed
<1>35. CASE Receipt
  BY <1>0, <1>35 DEF Receipt
<1>36. CASE ClosePr
  BY <1>0, <1>36 DEF ClosePr
<1>37. CASE CloseFails
  BY <1>0, <1>37 DEF CloseFails
<1>38. CASE FinishClose
  BY <1>0, <1>38 DEF FinishClose
<1>39. CASE AuthorPush
  BY <1>0, <1>39 DEF AuthorPush, Push
<1>40. CASE BaseMoves
  BY <1>0, <1>40 DEF BaseMoves
<1>41. CASE HumanEnds
  BY <1>0, <1>41 DEF HumanEnds
<1>42. CASE CiGate
  BY <1>0, <1>42 DEF CiGate, AskCi, AskCiFor, NoQuery, Escalated
<1>43. CASE MergeGate
  BY <1>0, <1>43 DEF MergeGate, AskCiFor
<1>44. CASE MergePr
  BY <1>0, <1>44 DEF MergePr, Mergeable
<1>45. CASE ListOpen
  <2>1. poll'.snap = head /\ UNCHANGED <<pr, head>> /\ hist'.merged = hist.merged
    BY <1>0, <1>45 DEF ListOpen, Poll0
  <2>2. pc' = "idle" \/ (pc' = "listed" /\ file' = "whole" /\ st' = disk' /\ pr = "open")
    BY <1>45 DEF ListOpen
  <2>3. QED
    BY <1>0, <2>1, <2>2
<1>46. CASE Crash
  BY <1>0, <1>46 DEF Crash
<1>47. CASE \E h \in Heads : CiReports(h)
  BY <1>47 DEF CiReports
<1>48. CASE UNCHANGED vars
  BY <1>48 DEF vars
<1>49. CASE Refused
  BY <1>0, <1>49 DEF Refused
<1>50. CASE Permitted
  BY <1>0, <1>50 DEF Permitted
<1>51. QED
  BY <1>1, <1>2, <1>3, <1>4, <1>5, <1>6, <1>7, <1>8, <1>9, <1>10, <1>11, <1>12, <1>13, <1>14,
     <1>15, <1>16, <1>17, <1>18, <1>19, <1>20, <1>21, <1>22, <1>23, <1>24, <1>25, <1>26, <1>27,
     <1>28, <1>29, <1>30, <1>31, <1>32, <1>33, <1>34, <1>35, <1>36, <1>37, <1>38, <1>39, <1>40,
     <1>41, <1>42, <1>43, <1>44, <1>45, <1>46, <1>47, <1>48, <1>49, <1>50
     DEF Next, Watch, Around

\* A step of a poll on a head that was not conceded.
Beyond ==
  /\ pc # "idle" /\ \A h \in hist.conceded : h # poll.snap
  /\ head' >= head /\ (pc' # "idle" => poll'.snap = poll.snap)
  /\ hist'.conceded = hist.conceded /\ hist'.merged = hist.merged
  /\ file' = "none" => pr' # "open"

LEMMA BeyondKeeps == Within /\ Within' /\ Paper /\ Kept /\ Beyond => Kept'
<1> SUFFICES ASSUME Within, Within', Paper, Kept, Beyond PROVE Kept'
  OBVIOUS
<1>1. /\ head \in Nat /\ head' \in Nat /\ poll.snap \in Nat /\ poll.snap <= head
      /\ \A h \in hist.conceded : h \in Nat
  <2>1. head \in Heads /\ head' \in Heads /\ poll.snap \in Heads
    BY DEF Within, TypeOK, Beyond
  <2>2. hist.conceded \subseteq Heads
    BY DEF Within, TypeOK, Histories
  <2>3. QED
    BY <2>1, <2>2, Limits DEF Heads, Paper, Beyond
<1>2. \A h \in hist.conceded : h < poll.snap
  BY <1>1 DEF Kept, Beyond
<1>3. QED
  BY <1>1, <1>2 DEF Kept, Beyond, ConcededKept

BeyondSteps ==
  \/ CiSettles \/ CiFixGivesUp \/ RuffPush \/ RuffSave \/ AuditFixStarts \/ AuditFixEnds
  \/ RetractOnGreen \/ GoOn \/ StartReview \/ Defer \/ CouncilParks \/ SourceUnclean
  \/ BackendFails \/ NoVerdict \/ Lgtm \/ Concerns \/ MergeOnCi \/ Exhausted \/ StartFix
  \/ FixNothing \/ FixPush \/ FixRecord \/ RebaseClean \/ RebaseSave \/ RebaseEscalates
  \/ RebaseFails \/ Bless \/ MergeFails \/ FinishMerge \/ CloseUnlinked \/ Requeue \/ RequeueFails
  \/ Receipt \/ ClosePr \/ CloseFails \/ FinishClose \/ CiGate \/ Refused \/ Permitted
  \/ MergeGate

LEMMA StepsBeyond == ASSUME Within, Within', Paper, Kept, BeyondSteps PROVE Beyond
<1> USE DEF Goto, Done, Drop, Keep, Save, Forget, github, store
<1>0. /\ head \in Nat
      /\ {"snap", "seen", "ci", "blind", "why", "raced"} \subseteq DOMAIN poll
      /\ {"conceded", "merged"} \subseteq DOMAIN hist
  BY Limits DEF Within, TypeOK, Reads, Histories, Heads
<1>100. pc # "idle" /\ pc # "listed" => \A h \in hist.conceded : h # poll.snap
  BY DEF Kept
<1>101. pc = "listed" => \A h \in hist.conceded : h = poll.snap => Held(st, h)
  BY DEF Kept
<1>102. pc # "idle" => file = "whole"
  BY DEF Paper
<1>1. ASSUME CiSettles PROVE Beyond
  BY <1>0, <1>101, <1>102, <1>1 DEF Beyond, Held, CiSettles, InPhase, AskCi, AskCiFor
<1>2. ASSUME CiFixGivesUp PROVE Beyond
  BY <1>0, <1>101, <1>102, <1>2 DEF Beyond, Held, CiFixGivesUp, InPhase, AskCi, AskCiFor
<1>3. ASSUME RuffPush PROVE Beyond
  BY <1>0, <1>101, <1>102, <1>3 DEF Beyond, Held, RuffPush, InPhase, AskCi, AskCiFor, Push
<1>4. ASSUME RuffSave PROVE Beyond
  BY <1>0, <1>100, <1>102, <1>4 DEF Beyond, RuffSave
<1>5. ASSUME AuditFixStarts PROVE Beyond
  BY <1>0, <1>101, <1>102, <1>5 DEF Beyond, Held, AuditFixStarts, InPhase, AskCi, AskCiFor
<1>6. ASSUME AuditFixEnds PROVE Beyond
  BY <1>0, <1>100, <1>102, <1>6 DEF Beyond, AuditFixEnds, Push
<1>7. ASSUME RetractOnGreen PROVE Beyond
  <2>1. ASSUME Held(st, poll.snap) PROVE FALSE
    <3>1. /\ Awake(st).esc /\ Awake(st).escHead = poll.snap /\ poll.snap \in Awake(st).concerns
      BY <2>1, AwakeFields DEF Held, Within, TypeOK, Reads
    <3>2. QED
      BY <1>7, <3>1 DEF RetractOnGreen, MayRetract, Unfixed
  <2>2. pc = "listed" /\ \A h \in hist.conceded : h # poll.snap
    BY <1>101, <1>7, <2>1 DEF RetractOnGreen, InPhase
  <2>3. QED
    BY <1>0, <1>102, <1>7, <2>2 DEF Beyond, RetractOnGreen, InPhase, AskCi, AskCiFor
<1>8. ASSUME GoOn PROVE Beyond
  <2>1. ASSUME Held(st, poll.snap) PROVE FALSE
    <3>1. /\ Awake(st).esc /\ Awake(st).escHead = poll.snap /\ poll.snap \in Awake(st).concerns
      BY <2>1, AwakeFields DEF Held, Within, TypeOK, Reads
    <3>2. QED
      BY <1>8, <3>1 DEF GoOn
  <2>2. pc = "listed" /\ \A h \in hist.conceded : h # poll.snap
    BY <1>101, <1>8, <2>1 DEF GoOn, InPhase
  <2>3. QED
    BY <1>0, <1>102, <1>8, <2>2 DEF Beyond, GoOn, InPhase
<1>9. ASSUME StartReview PROVE Beyond
  <2>1. poll'.snap = poll.snap
    BY <1>0, <1>9 DEF StartReview
  <2>2. QED
    BY <1>0, <1>100, <1>102, <1>9, <2>1 DEF Beyond, StartReview
<1>10. ASSUME Defer PROVE Beyond
  BY <1>0, <1>100, <1>102, <1>10 DEF Beyond, Defer
<1>11. ASSUME CouncilParks PROVE Beyond
  BY <1>0, <1>100, <1>102, <1>11 DEF Beyond, CouncilParks
<1>12. ASSUME SourceUnclean PROVE Beyond
  BY <1>0, <1>100, <1>102, <1>12 DEF Beyond, SourceUnclean
<1>13. ASSUME BackendFails PROVE Beyond
  BY <1>0, <1>100, <1>102, <1>13 DEF Beyond, BackendFails
<1>14. ASSUME NoVerdict PROVE Beyond
  BY <1>0, <1>100, <1>102, <1>14 DEF Beyond, NoVerdict
<1>15. ASSUME Lgtm PROVE Beyond
  BY <1>0, <1>100, <1>102, <1>15 DEF Beyond, Lgtm
<1>16. ASSUME Concerns PROVE Beyond
  BY <1>0, <1>100, <1>102, <1>16 DEF Beyond, Concerns
<1>17. ASSUME MergeOnCi PROVE Beyond
  <2>1. \A q : AskCiFor(q, [poll EXCEPT !.why = "validated"]) => poll'.snap = poll.snap
    BY <1>0 DEF AskCiFor
  <2>2. QED
    BY <1>0, <1>100, <1>102, <1>17, <2>1 DEF Beyond, MergeOnCi
<1>18. ASSUME Exhausted PROVE Beyond
  BY <1>0, <1>100, <1>102, <1>18 DEF Beyond, Exhausted, CiNotTrusted, AskCi, AskCiFor, NoQuery
<1>19. ASSUME StartFix PROVE Beyond
  BY <1>0, <1>100, <1>102, <1>19 DEF Beyond, StartFix, CiNotTrusted, AskCi, AskCiFor, NoQuery
<1>20. ASSUME FixNothing PROVE Beyond
  BY <1>0, <1>100, <1>102, <1>20 DEF Beyond, FixNothing
<1>21. ASSUME FixPush PROVE Beyond
  BY <1>0, <1>100, <1>102, <1>21 DEF Beyond, FixPush, Push
<1>22. ASSUME FixRecord PROVE Beyond
  BY <1>0, <1>100, <1>102, <1>22 DEF Beyond, FixRecord
<1>23. ASSUME RebaseClean PROVE Beyond
  BY <1>0, <1>100, <1>102, <1>23 DEF Beyond, RebaseClean, Push
<1>24. ASSUME RebaseSave PROVE Beyond
  BY <1>0, <1>100, <1>102, <1>24 DEF Beyond, RebaseSave
<1>25. ASSUME RebaseEscalates PROVE Beyond
  BY <1>0, <1>100, <1>102, <1>25 DEF Beyond, RebaseEscalates
<1>26. ASSUME RebaseFails PROVE Beyond
  BY <1>0, <1>100, <1>102, <1>26 DEF Beyond, RebaseFails
<1>27. ASSUME Bless PROVE Beyond
  BY <1>0, <1>100, <1>102, <1>27 DEF Beyond, Bless
<1>28. ASSUME MergeFails PROVE Beyond
  BY <1>0, <1>100, <1>102, <1>28 DEF Beyond, MergeFails
<1>29. ASSUME FinishMerge PROVE Beyond
  BY <1>0, <1>100, <1>102, <1>29 DEF Beyond, FinishMerge, Paper
<1>30. ASSUME CloseUnlinked PROVE Beyond
  BY <1>0, <1>100, <1>102, <1>30 DEF Beyond, CloseUnlinked
<1>31. ASSUME Requeue PROVE Beyond
  BY <1>0, <1>100, <1>102, <1>31 DEF Beyond, Requeue, HandBack, Handed
<1>32. ASSUME RequeueFails PROVE Beyond
  <2>1. hist'.conceded = hist.conceded /\ hist'.merged = hist.merged
    BY <1>0, <1>32 DEF RequeueFails, Handed
  <2>2. QED
    BY <1>0, <1>100, <1>102, <1>32, <2>1 DEF Beyond, RequeueFails
<1>33. ASSUME Receipt PROVE Beyond
  BY <1>0, <1>100, <1>102, <1>33 DEF Beyond, Receipt
<1>34. ASSUME ClosePr PROVE Beyond
  BY <1>0, <1>100, <1>102, <1>34 DEF Beyond, ClosePr
<1>35. ASSUME CloseFails PROVE Beyond
  BY <1>0, <1>100, <1>102, <1>35 DEF Beyond, CloseFails
<1>36. ASSUME FinishClose PROVE Beyond
  BY <1>0, <1>100, <1>102, <1>36 DEF Beyond, FinishClose, Paper
<1>37. ASSUME CiGate PROVE Beyond
  BY <1>0, <1>100, <1>102, <1>37 DEF Beyond, CiGate, AskCi, AskCiFor, NoQuery
<1>38. ASSUME MergeGate PROVE Beyond
  <2>1. \A q : AskCiFor(q, [poll EXCEPT !.ci = ci[poll.snap]]) => poll'.snap = poll.snap
    BY <1>0 DEF AskCiFor
  <2>2. QED
    BY <1>0, <1>100, <1>102, <1>38, <2>1 DEF Beyond, MergeGate
<1>39. ASSUME Refused PROVE Beyond
  BY <1>0, <1>100, <1>102, <1>39 DEF Beyond, Refused
<1>40. ASSUME Permitted PROVE Beyond
  BY <1>0, <1>100, <1>102, <1>40 DEF Beyond, Permitted
<1>41. QED
  BY <1>1, <1>2, <1>3, <1>4, <1>5, <1>6, <1>7, <1>8, <1>9, <1>10, <1>11, <1>12, <1>13, <1>14,
     <1>15, <1>16, <1>17, <1>18, <1>19, <1>20, <1>21, <1>22, <1>23, <1>24, <1>25, <1>26, <1>27,
     <1>28, <1>29, <1>30, <1>31, <1>32, <1>33, <1>34, <1>35, <1>36, <1>37, <1>38, <1>39, <1>40,
     BeyondSteps
     DEF BeyondSteps

LEMMA StepKept == Within /\ Within' /\ Paper /\ Kept /\ [Next]_vars => Kept'
<1> SUFFICES ASSUME Within, Within', Paper, Kept, [Next]_vars PROVE Kept'
  OBVIOUS
<1> USE DEF Goto
<1>0. /\ head \in Nat /\ poll.snap \in Nat /\ poll.snap \in 0..MaxHead /\ hour \in 0..MaxHour
      /\ st \in StateFile /\ disk \in StateFile
      /\ {"snap", "seen", "ci", "blind", "why", "raced"} \subseteq DOMAIN poll
      /\ {"conceded", "merged"} \subseteq DOMAIN hist /\ \A h \in hist.conceded : h \in Nat \ {0}
      /\ {"phase", "concerns", "esc", "escHead", "reason"} \subseteq DOMAIN st
  <2>1. /\ head \in Heads /\ poll \in Reads /\ hist \in Histories /\ hour \in 0..MaxHour
        /\ st \in StateFile /\ disk \in StateFile
    BY DEF Within, TypeOK
  <2>2. {"phase", "concerns", "esc", "escHead", "reason"} \subseteq DOMAIN st
    BY <2>1, Fields
  <2>3. poll.snap \in 0..MaxHead /\ {"snap", "seen", "ci", "blind", "why", "raced"} \subseteq DOMAIN poll
    BY <2>1 DEF Reads
  <2>4. hist.conceded \subseteq Heads /\ {"conceded", "merged"} \subseteq DOMAIN hist
    BY <2>1 DEF Histories
  <2>5. QED
    BY <2>1, <2>2, <2>3, <2>4, Limits DEF Heads
<1>1. CASE BeyondSteps
  BY <1>1, StepsBeyond, BeyondKeeps
<1>2. CASE UNCHANGED vars
  BY <1>2 DEF vars, github, store, Kept, Held, ConcededKept
<1>3. CASE Concede
  <2>1. /\ pc = "concerns" /\ pc' = "idle" /\ file' = "whole" /\ UNCHANGED head
        /\ hist'.conceded = hist.conceded \cup {poll.snap} /\ hist'.merged = hist.merged
        /\ disk' = Escalated(st, "concerns", poll.snap)
    BY <1>0, <1>3 DEF Concede, Done, github, Paper
  <2>2. /\ poll.snap \in Heads /\ poll.snap <= head /\ st.phase = "self_review"
        /\ poll.snap \in st.concerns /\ hist.merged = 0
    BY <2>1 DEF Within, Paper, Phase1, Places
  <2>3. Held(disk', poll.snap)
    BY <1>0, <2>1, <2>2, Limits DEF Escalated, Held, Heads
  <2>4. \A h \in hist.conceded : h < poll.snap
    BY <1>0, <2>1 DEF Kept
  <2>5. QED
    BY <1>0, <2>1, <2>2, <2>3, <2>4, Limits DEF Kept, ConcededKept, Heads
<1>4. CASE MergePr
  <2>1. /\ pc = "merging" /\ pc' = "merged" /\ pr' = "merged" /\ UNCHANGED <<head, file, disk, poll>>
        /\ hist'.merged = head /\ hist'.conceded = hist.conceded
    BY <1>0, <1>4 DEF MergePr, Keep, store
  <2>2. \A h \in hist.conceded : h < poll.snap
    BY <1>0, <2>1 DEF Kept
  <2>3. poll.snap <= head
    BY <2>1 DEF Paper
  <2>4. QED
    BY <1>0, <2>1, <2>2, <2>3 DEF Kept, ConcededKept
<1>5. CASE HoldEscalated
  <2>1. /\ pc = "listed" /\ pc' = "idle" /\ file' = file /\ UNCHANGED <<head, hist, pr>>
        /\ disk' = [Awake(st) EXCEPT !.escHead = poll.snap]
    BY <1>5 DEF HoldEscalated, InPhase, Done, github
  <2>2. Awake(st) \in StateFile
    BY <1>0, AwakeTyped
  <2>3. ASSUME Held(st, poll.snap) PROVE Held(disk', poll.snap)
    <3>1. /\ Awake(st).phase = st.phase /\ Awake(st).concerns = st.concerns
          /\ Awake(st).esc = st.esc /\ Awake(st).reason = st.reason
      BY <1>0, <2>3, AwakeFields DEF Held
    <3>2. QED
      BY <2>1, <2>2, <2>3, <3>1, Fields DEF Held
  <2>4. poll.snap <= head
    BY <2>1 DEF Paper
  <2>5. QED
    BY <1>0, <2>1, <2>3, <2>4 DEF Kept, ConcededKept
<1>6. CASE ListOpen
  <2>1. /\ poll'.snap = head /\ UNCHANGED <<pr, head>> /\ pc = "idle"
        /\ hist'.merged = hist.merged /\ hist'.conceded = hist.conceded
    BY <1>0, <1>6 DEF ListOpen, Poll0, github
  <2>2. CASE pr # "open"
    <3>1. pc' = "idle" /\ file' = "none"
      BY <1>6, <2>2 DEF ListOpen, Forget
    <3>2. QED
      BY <2>1, <2>2, <3>1 DEF Kept, ConcededKept
  <2>3. CASE pr = "open" /\ file = "none"
    BY <2>1, <2>3 DEF Kept, ConcededKept
  <2>4. CASE pr = "open" /\ file # "none"
    <3>1. UNCHANGED <<file, disk>> /\ (pc' = "idle" \/ (pc' = "listed" /\ st' = disk))
      BY <1>6, <2>4 DEF ListOpen, Drop, Keep, store
    <3>2. QED
      BY <1>0, <2>1, <2>4, <3>1 DEF Kept, ConcededKept, Held
  <2>5. QED
    BY <2>2, <2>3, <2>4
<1>7. CASE AuthorPush
  <2>1. /\ head' = head + 1 /\ UNCHANGED <<pr, file, disk, pc, st>> /\ poll'.snap = poll.snap
        /\ hist'.merged = hist.merged /\ hist'.conceded = hist.conceded
    BY <1>0, <1>7 DEF AuthorPush, Push, store
  <2>2. QED
    BY <1>0, <2>1 DEF Kept, ConcededKept, Held
<1>8. CASE BaseMoves
  BY <1>8 DEF BaseMoves, store, Kept, Held, ConcededKept
<1>9. CASE HumanEnds
  <2>1. /\ UNCHANGED <<head, file, disk, pc, st, poll>> /\ pr' # "open"
        /\ hist'.merged = hist.merged /\ hist'.conceded = hist.conceded
    BY <1>0, <1>9 DEF HumanEnds, store
  <2>2. QED
    BY <2>1 DEF Kept, Held, ConcededKept
<1>10. CASE Crash
  <2>1. /\ UNCHANGED <<pr, head, disk>> /\ pc' = "idle" /\ file' \in {file, "torn"}
        /\ hist'.merged = hist.merged /\ hist'.conceded = hist.conceded /\ file = "whole"
    BY <1>0, <1>10 DEF Crash, github, Paper
  <2>2. QED
    BY <2>1 DEF Kept, Held, ConcededKept
<1>11. CASE \E h \in Heads : CiReports(h)
  BY <1>11 DEF CiReports, store, Kept, Held, ConcededKept
<1>12. QED
  BY <1>1, <1>2, <1>3, <1>4, <1>5, <1>6, <1>7, <1>8, <1>9, <1>10, <1>11 DEF Next, Watch,
     Around, BeyondSteps

LEMMA InitPaper == Init => Paper /\ Kept
<1>1. Hist0.merged = 0 /\ Hist0.conceded = {}
  BY DEF Hist0
<1>2. QED
  BY <1>1 DEF Init, Paper, Kept, ConcededKept, Phase1

\* A head on which the fix passes gave up (fix_pass_no_progress) is never merged
\* by the watcher: no green CI, park expiry, restart or torn file releases it.
THEOREM ConcededNeverMerged == Spec => []ConcededKept
<1>1. Kept => ConcededKept
  BY DEF Kept
<1>2. QED
  BY <1>1, InitWithin, InitPaper, StepWithin, StepPaper, StepKept, PTL DEF Spec

----------------------------------------------------------------------------
(* The budget of fix passes. The file is charged before a pass runs, and   *)
(* the charge is returned only for a head that the passes did not push: a  *)
(* head that looks foreign to the file was listed after somebody else's    *)
(* push, when the count of passes started afresh.                          *)

\* The copy in memory and the file agree on the fix passes.
Agree ==
  /\ st.fix = disk.fix /\ st.pushed = disk.pushed /\ st.fixSha = disk.fixSha
  /\ st.comment = disk.comment /\ st.concHead \in {disk.concHead, poll.snap}

Copies ==
  /\ pc # "idle" => Agree
  /\ disk.phase = "ci_fix" => ~disk.comment
  /\ pc \in {"agentfix", "ruffsave"} => st.phase = "ci_fix" /\ ~st.comment
  /\ pc \in {"fixing", "record"} => st.fix > 0 /\ st.pushed = "unset"

\* A head that moved during the poll was moved by somebody else.
Tracks ==
  pc \in Places \ {"idle", "agentfix", "ruffsave", "record"} => head = poll.snap \/ hist.renewed

\* Passes are on the file; what looks foreign has been renewed.
Spent ==
  /\ hist.lost \/ hist.renewed \/ hist.passes = 0 \/ ~Foreign(disk, head)
  /\ pc = "listed" /\ Foreign(st, poll.snap) => hist.lost \/ hist.passes = 0
  /\ hist.lost \/ (file # "none" => hist.passes <= disk.fix)
  /\ file = "none" /\ pr = "open" => hist.passes = 0
  /\ FixBudget

LEMMA StepCopies == Within /\ Within' /\ Paper /\ Paper' /\ Copies /\ [Next]_vars => Copies'
<1> SUFFICES ASSUME Within, Within', Paper, Paper', Copies, [Next]_vars PROVE Copies'
  OBVIOUS
<1> USE DEF Copies, Agree, Goto, Done, Drop, Keep, Save, Forget, github, store
<1>0. /\ st \in StateFile /\ disk \in StateFile /\ poll.snap \in 0..MaxHead /\ hour \in 0..MaxHour
      /\ {"snap", "seen", "ci", "blind", "why", "raced"} \subseteq DOMAIN poll
  BY DEF Within, TypeOK, Reads
<1>100. /\ {"phase", "fix", "pushed", "fixSha", "comment", "concHead", "concerns"} \subseteq DOMAIN st
        /\ st.fix \in Nat /\ st.comment \in BOOLEAN /\ disk.comment \in BOOLEAN
  BY <1>0, Fields
<1>101. /\ pc = "listed" => st = disk
        /\ pc \in Phase1 => st.phase = "self_review"
  BY DEF Paper
<1>1. CASE CiSettles
  BY <1>0, <1>100, <1>101, <1>1 DEF CiSettles, InPhase, AskCi, AskCiFor, Reviewing, Phase1, Places
<1>2. CASE CiFixGivesUp
  BY <1>0, <1>100, <1>101, <1>2 DEF CiFixGivesUp, InPhase, AskCi, AskCiFor, Reviewing, Phase1,
     Places
<1>3. CASE RuffPush
  BY <1>0, <1>100, <1>101, <1>3 DEF RuffPush, InPhase, AskCi, AskCiFor, Push, Phase1, Places
<1>4. CASE RuffSave
  BY <1>0, <1>100, <1>101, <1>4 DEF RuffSave, Phase1, Places
<1>5. CASE AuditFixStarts
  BY <1>0, <1>100, <1>101, <1>5 DEF AuditFixStarts, InPhase, AskCi, AskCiFor, Phase1, Places
<1>6. CASE AuditFixEnds
  BY <1>0, <1>100, <1>101, <1>6 DEF AuditFixEnds, Push, Reviewing, Phase1, Places
<1>7. CASE HoldEscalated
  <2>1. Awake(st) \in StateFile /\ Awake(st).phase = st.phase /\ st.phase = "self_review" /\ pc' = "idle"
    BY <1>0, <1>7, AwakeTyped, AwakeFields DEF HoldEscalated, InPhase
  <2>2. disk'.phase = st.phase
    BY <2>1, <1>7, Fields DEF HoldEscalated
  <2>3. QED
    BY <2>1, <2>2
<1>8. CASE RetractOnGreen
  <2>1. Awake(st) \in StateFile /\ Awake(st).phase = st.phase
    BY <1>0, AwakeTyped, AwakeFields
  <2>2. st'.phase = st.phase /\ disk' = st' /\ pc' = "gate" /\ st.phase = "self_review"
    BY <2>1, <1>8, ResumedFields DEF RetractOnGreen, InPhase
  <2>3. QED
    BY <2>2
<1>9. CASE GoOn
  <2>1. Awake(st) \in StateFile /\ Awake(st).phase = st.phase
    BY <1>0, AwakeTyped, AwakeFields
  <2>2. st'.phase = st.phase /\ disk' = st' /\ pc' = "gate" /\ st.phase = "self_review"
    BY <2>1, <1>9, ResumedFields DEF GoOn, InPhase
  <2>3. QED
    BY <2>2
<1>10. CASE StartReview
  BY <1>0, <1>100, <1>101, <1>10 DEF StartReview, Phase1, Places
<1>11. CASE Defer
  BY <1>0, <1>100, <1>101, <1>11 DEF Defer, Phase1, Places
<1>12. CASE CouncilParks
  BY <1>0, <1>100, <1>101, <1>12 DEF CouncilParks, Escalated, Phase1, Places
<1>13. CASE SourceUnclean
  BY <1>0, <1>100, <1>101, <1>13 DEF SourceUnclean, Escalated, Phase1, Places
<1>14. CASE BackendFails
  BY <1>0, <1>100, <1>101, <1>14 DEF BackendFails, Escalated, Phase1, Places
<1>15. CASE NoVerdict
  BY <1>0, <1>100, <1>101, <1>15 DEF NoVerdict, Escalated, Ran, Phase1, Places
<1>16. CASE Lgtm
  BY <1>0, <1>100, <1>101, <1>16 DEF Lgtm, Ran, Publish, Phase1, Places
<1>17. CASE Concerns
  BY <1>0, <1>100, <1>101, <1>17 DEF Concerns, Ran, Publish, Phase1, Places
<1>18. CASE MergeOnCi
  <2>1. \A q : AskCiFor(q, [poll EXCEPT !.why = "validated"]) => poll'.snap = poll.snap
    BY <1>0 DEF AskCiFor
  <2>2. QED
    BY <1>0, <1>100, <2>1, <1>18 DEF MergeOnCi
<1>19. CASE Concede
  BY <1>0, <1>100, <1>101, <1>19 DEF Concede, CiNotTrusted, AskCi, AskCiFor, NoQuery,
     Escalated, Phase1, Places
<1>20. CASE Exhausted
  BY <1>0, <1>100, <1>101, <1>20 DEF Exhausted, CiNotTrusted, AskCi, AskCiFor, NoQuery,
     Climbed, Phase1, Places
<1>21. CASE StartFix
  <2>1. st' = disk' /\ pc' = "fixing" /\ st.phase = "self_review"
    BY <1>101, <1>21 DEF StartFix, Phase1, Places
  <2>2. /\ {"phase", "fix", "pushed", "comment"} \subseteq DOMAIN Climbed
        /\ Climbed.fix = st.fix /\ Climbed.phase = st.phase
    BY <1>100 DEF Climbed
  <2>3. st'.fix = st.fix + 1 /\ st'.pushed = "unset" /\ st'.phase = "self_review"
    BY <2>1, <2>2, <1>21 DEF StartFix
  <2>4. QED
    BY <1>100, <2>1, <2>3
<1>22. CASE FixNothing
  BY <1>0, <1>100, <1>101, <1>22 DEF FixNothing, Phase1, Places
<1>23. CASE FixPush
  BY <1>0, <1>100, <1>101, <1>23 DEF FixPush, Push, Phase1, Places
<1>24. CASE FixRecord
  BY <1>0, <1>100, <1>101, <1>24 DEF FixRecord, Phase1, Places
<1>25. CASE RebaseClean
  BY <1>0, <1>100, <1>101, <1>25 DEF RebaseClean, Push, Phase1, Places
<1>26. CASE RebaseSave
  BY <1>0, <1>100, <1>101, <1>26 DEF RebaseSave, Phase1, Places
<1>27. CASE RebaseEscalates
  BY <1>0, <1>100, <1>101, <1>27 DEF RebaseEscalates, Escalated, Phase1, Places
<1>28. CASE RebaseFails
  BY <1>0, <1>100, <1>101, <1>28 DEF RebaseFails, Phase1, Places
<1>29. CASE Bless
  BY <1>0, <1>100, <1>101, <1>29 DEF Bless, Publish, Phase1, Places
<1>30. CASE MergeFails
  BY <1>0, <1>100, <1>101, <1>30 DEF MergeFails, Phase1, Places
<1>31. CASE FinishMerge
  BY <1>0, <1>100, <1>101, <1>31, NewFields DEF FinishMerge, Phase1, Places
<1>32. CASE CloseUnlinked
  BY <1>0, <1>100, <1>101, <1>32 DEF CloseUnlinked, Escalated, Phase1, Places
<1>33. CASE Requeue
  BY <1>0, <1>100, <1>101, <1>33 DEF Requeue, HandBack, Handed, Phase1, Places
<1>34. CASE RequeueFails
  BY <1>0, <1>100, <1>101, <1>34 DEF RequeueFails, HandBack, Handed, Phase1, Places
<1>35. CASE Receipt
  BY <1>0, <1>100, <1>101, <1>35 DEF Receipt, Phase1, Places
<1>36. CASE ClosePr
  BY <1>0, <1>100, <1>101, <1>36 DEF ClosePr, Phase1, Places
<1>37. CASE CloseFails
  BY <1>0, <1>100, <1>101, <1>37 DEF CloseFails, Phase1, Places
<1>38. CASE FinishClose
  BY <1>0, <1>100, <1>101, <1>38, NewFields DEF FinishClose, Phase1, Places
<1>39. CASE AuthorPush
  BY <1>0, <1>100, <1>101, <1>39 DEF AuthorPush, Push, Phase1, Places
<1>40. CASE BaseMoves
  BY <1>0, <1>100, <1>101, <1>40 DEF BaseMoves, Phase1, Places
<1>41. CASE HumanEnds
  BY <1>0, <1>100, <1>101, <1>41 DEF HumanEnds, Phase1, Places
<1>42. CASE CiGate
  BY <1>0, <1>100, <1>101, <1>42 DEF CiGate, AskCi, AskCiFor, NoQuery, Escalated, Phase1, Places
<1>43. CASE MergeGate
  <2>1. \A q : AskCiFor(q, [poll EXCEPT !.ci = ci[poll.snap]]) => poll'.snap = poll.snap
    BY <1>0 DEF AskCiFor
  <2>2. QED
    BY <1>0, <1>100, <2>1, <1>43 DEF MergeGate
<1>44. CASE MergePr
  BY <1>0, <1>100, <1>101, <1>44 DEF MergePr, Mergeable, Phase1, Places
<1>45. CASE ListOpen
  <2>1. pc' = "idle" \/ (pc' = "listed" /\ st' = disk')
    BY <1>45 DEF ListOpen
  <2>2. disk' = disk \/ disk'.comment = FALSE
    BY <1>45, NewFields, NewTyped, Fields DEF ListOpen
  <2>3. disk'.phase = "ci_fix" => ~disk'.comment
    BY <2>2
  <2>4. QED
    BY <2>1, <2>3
<1>46. CASE Crash
  BY <1>0, <1>100, <1>101, <1>46 DEF Crash, Phase1, Places
<1>47. CASE \E h \in Heads : CiReports(h)
  BY <1>47 DEF CiReports
<1>48. CASE UNCHANGED vars
  BY <1>48 DEF vars
<1>49. CASE Refused
  BY <1>0, <1>100, <1>101, <1>49 DEF Refused, Phase1, Places
<1>50. CASE Permitted
  BY <1>0, <1>100, <1>101, <1>50 DEF Permitted, Phase1, Places
<1>51. QED
  BY <1>1, <1>2, <1>3, <1>4, <1>5, <1>6, <1>7, <1>8, <1>9, <1>10, <1>11, <1>12, <1>13, <1>14,
     <1>15, <1>16, <1>17, <1>18, <1>19, <1>20, <1>21, <1>22, <1>23, <1>24, <1>25, <1>26, <1>27,
     <1>28, <1>29, <1>30, <1>31, <1>32, <1>33, <1>34, <1>35, <1>36, <1>37, <1>38, <1>39, <1>40,
     <1>41, <1>42, <1>43, <1>44, <1>45, <1>46, <1>47, <1>48, <1>49, <1>50
     DEF Next, Watch, Around

LEMMA StepTracks == Within /\ Within' /\ Tracks /\ [Next]_vars => Tracks'
<1> SUFFICES ASSUME Within, Within', Tracks, [Next]_vars PROVE Tracks'
  OBVIOUS
<1> USE DEF Tracks, Places, Goto, Done, Drop, Keep, Save, Forget, github
<1>0. /\ {"snap", "seen", "ci", "blind", "why", "raced"} \subseteq DOMAIN poll
      /\ {"renewed", "approved", "merged", "deal", "passes",
          "conceded", "short", "handed", "unclosed", "taken", "lost"} \subseteq DOMAIN hist
  BY DEF Within, TypeOK, Reads, Histories
<1>1. CASE CiSettles
  BY <1>0, <1>1 DEF CiSettles, InPhase, AskCi, AskCiFor
<1>2. CASE CiFixGivesUp
  BY <1>0, <1>2 DEF CiFixGivesUp, InPhase, AskCi, AskCiFor
<1>3. CASE RuffPush
  BY <1>0, <1>3 DEF RuffPush, InPhase, AskCi, AskCiFor, Push
<1>4. CASE RuffSave
  BY <1>0, <1>4 DEF RuffSave
<1>5. CASE AuditFixStarts
  BY <1>0, <1>5 DEF AuditFixStarts, InPhase, AskCi, AskCiFor
<1>6. CASE AuditFixEnds
  BY <1>0, <1>6 DEF AuditFixEnds, Push
<1>7. CASE HoldEscalated
  BY <1>0, <1>7 DEF HoldEscalated, InPhase, AskCi, AskCiFor, NoQuery
<1>8. CASE RetractOnGreen
  BY <1>0, <1>8 DEF RetractOnGreen, InPhase, AskCi, AskCiFor
<1>9. CASE GoOn
  BY <1>0, <1>9 DEF GoOn, InPhase
<1>10. CASE StartReview
  BY <1>0, <1>10 DEF StartReview
<1>11. CASE Defer
  BY <1>0, <1>11 DEF Defer
<1>12. CASE CouncilParks
  BY <1>0, <1>12 DEF CouncilParks
<1>13. CASE SourceUnclean
  BY <1>0, <1>13 DEF SourceUnclean
<1>14. CASE BackendFails
  BY <1>0, <1>14 DEF BackendFails
<1>15. CASE NoVerdict
  BY <1>0, <1>15 DEF NoVerdict
<1>16. CASE Lgtm
  BY <1>0, <1>16 DEF Lgtm
<1>17. CASE Concerns
  BY <1>0, <1>17 DEF Concerns
<1>18. CASE MergeOnCi
  <2>1. \A q : AskCiFor(q, [poll EXCEPT !.why = "validated"]) => poll'.snap = poll.snap
    BY <1>0 DEF AskCiFor
  <2>2. QED
    BY <1>0, <2>1, <1>18 DEF MergeOnCi
<1>19. CASE Concede
  BY <1>0, <1>19 DEF Concede, CiNotTrusted, AskCi, AskCiFor, NoQuery
<1>20. CASE Exhausted
  BY <1>0, <1>20 DEF Exhausted, CiNotTrusted, AskCi, AskCiFor, NoQuery
<1>21. CASE StartFix
  BY <1>0, <1>21 DEF StartFix, CiNotTrusted, AskCi, AskCiFor, NoQuery
<1>22. CASE FixNothing
  BY <1>0, <1>22 DEF FixNothing
<1>23. CASE FixPush
  BY <1>0, <1>23 DEF FixPush, Push
<1>24. CASE FixRecord
  BY <1>0, <1>24 DEF FixRecord
<1>25. CASE RebaseClean
  BY <1>0, <1>25 DEF RebaseClean, Push
<1>26. CASE RebaseSave
  BY <1>0, <1>26 DEF RebaseSave
<1>27. CASE RebaseEscalates
  BY <1>0, <1>27 DEF RebaseEscalates
<1>28. CASE RebaseFails
  BY <1>0, <1>28 DEF RebaseFails
<1>29. CASE Bless
  BY <1>0, <1>29 DEF Bless
<1>30. CASE MergeFails
  BY <1>0, <1>30 DEF MergeFails
<1>31. CASE FinishMerge
  BY <1>0, <1>31 DEF FinishMerge
<1>32. CASE CloseUnlinked
  BY <1>0, <1>32 DEF CloseUnlinked
<1>33. CASE Requeue
  BY <1>0, <1>33 DEF Requeue, HandBack, Handed
<1>34. CASE RequeueFails
  BY <1>0, <1>34 DEF RequeueFails, HandBack, Handed
<1>35. CASE Receipt
  BY <1>0, <1>35 DEF Receipt
<1>36. CASE ClosePr
  BY <1>0, <1>36 DEF ClosePr
<1>37. CASE CloseFails
  BY <1>0, <1>37 DEF CloseFails
<1>38. CASE FinishClose
  BY <1>0, <1>38 DEF FinishClose
<1>39. CASE AuthorPush
  BY <1>0, <1>39 DEF AuthorPush, Push, Busy
<1>40. CASE BaseMoves
  BY <1>0, <1>40 DEF BaseMoves
<1>41. CASE HumanEnds
  BY <1>0, <1>41 DEF HumanEnds
<1>42. CASE CiGate
  BY <1>0, <1>42 DEF CiGate, AskCi, AskCiFor, NoQuery
<1>43. CASE MergeGate
  <2>1. \A q : AskCiFor(q, [poll EXCEPT !.ci = ci[poll.snap]]) => poll'.snap = poll.snap
    BY <1>0 DEF AskCiFor
  <2>2. QED
    BY <1>0, <2>1, <1>43 DEF MergeGate
<1>44. CASE MergePr
  BY <1>0, <1>44 DEF MergePr
<1>45. CASE ListOpen
  BY <1>0, <1>45 DEF ListOpen, Poll0
<1>46. CASE Crash
  BY <1>0, <1>46 DEF Crash
<1>47. CASE \E h \in Heads : CiReports(h)
  BY <1>47 DEF CiReports
<1>48. CASE UNCHANGED vars
  BY <1>48 DEF vars
<1>49. CASE Refused
  BY <1>0, <1>49 DEF Refused
<1>50. CASE Permitted
  BY <1>0, <1>50 DEF Permitted
<1>51. QED
  BY <1>1, <1>2, <1>3, <1>4, <1>5, <1>6, <1>7, <1>8, <1>9, <1>10, <1>11, <1>12, <1>13, <1>14,
     <1>15, <1>16, <1>17, <1>18, <1>19, <1>20, <1>21, <1>22, <1>23, <1>24, <1>25, <1>26, <1>27,
     <1>28, <1>29, <1>30, <1>31, <1>32, <1>33, <1>34, <1>35, <1>36, <1>37, <1>38, <1>39, <1>40,
     <1>41, <1>42, <1>43, <1>44, <1>45, <1>46, <1>47, <1>48, <1>49, <1>50
     DEF Next, Watch, Around

\* A step of a poll that charges and returns no pass, and writes at most the head
\* of the listing into the file.
Uncharged ==
  /\ pc # "idle" /\ pc' # "listed" /\ UNCHANGED <<head, file>>
  /\ hist'.passes = hist.passes /\ hist'.lost = hist.lost /\ hist'.renewed = hist.renewed
  /\ disk'.fix = disk.fix
  /\ \/ disk'.comment = FALSE
     \/ /\ disk'.comment = disk.comment /\ disk'.concHead = disk.concHead
        /\ disk'.fixSha = disk.fixSha /\ disk'.pushed = disk.pushed
     \/ disk'.concHead = poll.snap /\ (head = poll.snap \/ hist.renewed)

LEMMA UnchargedKeeps == Paper /\ Spent /\ Uncharged => Spent'
BY DEF Paper, Spent, Uncharged, Foreign, FixBudget

UnchargedSteps ==
  \/ CiSettles \/ CiFixGivesUp \/ RuffSave \/ AuditFixStarts \/ StartReview \/ Defer
  \/ CouncilParks \/ SourceUnclean \/ BackendFails \/ NoVerdict \/ Lgtm \/ Concerns \/ MergeOnCi
  \/ Concede \/ Exhausted \/ FixNothing \/ RebaseSave \/ RebaseEscalates \/ RebaseFails \/ Bless
  \/ MergeFails \/ CloseUnlinked \/ Requeue \/ RequeueFails \/ Receipt \/ ClosePr \/ CloseFails
  \/ CiGate \/ Refused \/ Permitted \/ MergeGate \/ MergePr

LEMMA StepsUncharged == ASSUME Within, Paper, Copies, Tracks, UnchargedSteps PROVE Uncharged
<1> USE DEF Uncharged, Goto, Done, Drop, Keep, Save, Forget, github, store
<1>0. /\ {"passes", "lost", "renewed"} \subseteq DOMAIN hist
      /\ {"phase", "fix", "pushed", "fixSha", "comment", "concHead", "concerns"} \subseteq DOMAIN st
      /\ st.comment \in BOOLEAN
  BY Fields DEF Within, TypeOK, Histories
<1>100. pc # "idle" => Agree
  BY DEF Copies
<1>101. pc \in Places \ {"idle", "agentfix", "ruffsave", "record"} => head = poll.snap \/ hist.renewed
  BY DEF Tracks
<1>102. pc \in {"concerns", "fixing"} => st.concHead = poll.snap
  BY DEF Paper
<1>103. pc \in {"agentfix", "ruffsave"} \/ (pc = "listed" /\ st.phase = "ci_fix") => ~st.comment
  BY DEF Paper, Copies
<1>1. ASSUME CiSettles PROVE Uncharged
  BY <1>0, <1>100, <1>101, <1>102, <1>103, <1>1 DEF CiSettles, InPhase, Reviewing, Agree, Places
<1>2. ASSUME CiFixGivesUp PROVE Uncharged
  BY <1>0, <1>100, <1>101, <1>102, <1>103, <1>2 DEF CiFixGivesUp, InPhase, Reviewing, Agree, Places
<1>3. ASSUME RuffSave PROVE Uncharged
  BY <1>0, <1>100, <1>101, <1>102, <1>103, <1>3 DEF RuffSave, Agree, Places
<1>4. ASSUME AuditFixStarts PROVE Uncharged
  BY <1>0, <1>100, <1>101, <1>102, <1>103, <1>4 DEF AuditFixStarts, InPhase, Agree, Places
<1>5. ASSUME StartReview PROVE Uncharged
  BY <1>0, <1>100, <1>101, <1>102, <1>103, <1>5 DEF StartReview, Agree, Places
<1>6. ASSUME Defer PROVE Uncharged
  BY <1>0, <1>100, <1>101, <1>102, <1>103, <1>6 DEF Defer, Agree, Places
<1>7. ASSUME CouncilParks PROVE Uncharged
  BY <1>0, <1>100, <1>101, <1>102, <1>103, <1>7 DEF CouncilParks, Escalated, Agree, Places
<1>8. ASSUME SourceUnclean PROVE Uncharged
  BY <1>0, <1>100, <1>101, <1>102, <1>103, <1>8 DEF SourceUnclean, Escalated, Agree, Places
<1>9. ASSUME BackendFails PROVE Uncharged
  BY <1>0, <1>100, <1>101, <1>102, <1>103, <1>9 DEF BackendFails, Escalated, Agree, Places
<1>10. ASSUME NoVerdict PROVE Uncharged
  BY <1>0, <1>100, <1>101, <1>102, <1>103, <1>10 DEF NoVerdict, Escalated, Ran, Agree, Places
<1>11. ASSUME Lgtm PROVE Uncharged
  BY <1>0, <1>100, <1>101, <1>102, <1>103, <1>11 DEF Lgtm, Ran, Agree, Places
<1>12. ASSUME Concerns PROVE Uncharged
  BY <1>0, <1>100, <1>101, <1>102, <1>103, <1>12 DEF Concerns, Ran, Agree, Places
<1>13. ASSUME MergeOnCi PROVE Uncharged
  BY <1>0, <1>100, <1>101, <1>102, <1>103, <1>13 DEF MergeOnCi, Agree, Places
<1>14. ASSUME Concede PROVE Uncharged
  BY <1>0, <1>100, <1>101, <1>102, <1>103, <1>14 DEF Concede, Escalated, Agree, Places
<1>15. ASSUME Exhausted PROVE Uncharged
  BY <1>0, <1>100, <1>101, <1>102, <1>103, <1>15 DEF Exhausted, Climbed, Agree, Places
<1>16. ASSUME FixNothing PROVE Uncharged
  BY <1>0, <1>100, <1>101, <1>102, <1>103, <1>16 DEF FixNothing, Agree, Places
<1>17. ASSUME RebaseSave PROVE Uncharged
  BY <1>0, <1>100, <1>101, <1>102, <1>103, <1>17 DEF RebaseSave, Agree, Places
<1>18. ASSUME RebaseEscalates PROVE Uncharged
  BY <1>0, <1>100, <1>101, <1>102, <1>103, <1>18 DEF RebaseEscalates, Escalated, Agree, Places
<1>19. ASSUME RebaseFails PROVE Uncharged
  BY <1>0, <1>100, <1>101, <1>102, <1>103, <1>19 DEF RebaseFails, Agree, Places
<1>20. ASSUME Bless PROVE Uncharged
  BY <1>0, <1>100, <1>101, <1>102, <1>103, <1>20 DEF Bless, Agree, Places
<1>21. ASSUME MergeFails PROVE Uncharged
  BY <1>0, <1>100, <1>101, <1>102, <1>103, <1>21 DEF MergeFails, Agree, Places
<1>22. ASSUME CloseUnlinked PROVE Uncharged
  BY <1>0, <1>100, <1>101, <1>102, <1>103, <1>22 DEF CloseUnlinked, Escalated, Agree, Places
<1>23. ASSUME Requeue PROVE Uncharged
  BY <1>0, <1>100, <1>101, <1>102, <1>103, <1>23 DEF Requeue, HandBack, Handed, Agree, Places
<1>24. ASSUME RequeueFails PROVE Uncharged
  BY <1>0, <1>100, <1>101, <1>102, <1>103, <1>24 DEF RequeueFails, HandBack, Handed, Agree, Places
<1>25. ASSUME Receipt PROVE Uncharged
  BY <1>0, <1>100, <1>101, <1>102, <1>103, <1>25 DEF Receipt, Agree, Places
<1>26. ASSUME ClosePr PROVE Uncharged
  BY <1>0, <1>100, <1>101, <1>102, <1>103, <1>26 DEF ClosePr, Agree, Places
<1>27. ASSUME CloseFails PROVE Uncharged
  BY <1>0, <1>100, <1>101, <1>102, <1>103, <1>27 DEF CloseFails, Agree, Places
<1>28. ASSUME CiGate PROVE Uncharged
  BY <1>0, <1>100, <1>101, <1>102, <1>103, <1>28 DEF CiGate, Escalated, Agree, Places
<1>29. ASSUME MergeGate PROVE Uncharged
  BY <1>0, <1>100, <1>101, <1>102, <1>103, <1>29 DEF MergeGate, Agree, Places
<1>30. ASSUME MergePr PROVE Uncharged
  BY <1>0, <1>100, <1>101, <1>102, <1>103, <1>30 DEF MergePr, Agree, Places
<1>31. ASSUME Refused PROVE Uncharged
  BY <1>0, <1>100, <1>101, <1>102, <1>103, <1>31 DEF Refused, Agree, Places
<1>32. ASSUME Permitted PROVE Uncharged
  BY <1>0, <1>100, <1>101, <1>102, <1>103, <1>32 DEF Permitted, Agree, Places
<1>33. QED
  BY <1>1, <1>2, <1>3, <1>4, <1>5, <1>6, <1>7, <1>8, <1>9, <1>10, <1>11, <1>12, <1>13, <1>14,
     <1>15, <1>16, <1>17, <1>18, <1>19, <1>20, <1>21, <1>22, <1>23, <1>24, <1>25, <1>26, <1>27,
     <1>28, <1>29, <1>30, <1>31, <1>32, UnchargedSteps
     DEF UnchargedSteps

LEMMA StepSpent ==
  Within /\ Within' /\ Paper /\ Copies /\ Tracks /\ Spent /\ [Next]_vars => Spent'
<1> SUFFICES ASSUME Within, Within', Paper, Copies, Tracks, Spent, [Next]_vars PROVE Spent'
  OBVIOUS
<1> USE DEF Goto
<1>0. /\ st \in StateFile /\ disk \in StateFile /\ disk' \in StateFile /\ hist \in Histories
      /\ poll.snap \in 0..MaxHead /\ hour \in 0..MaxHour /\ head \in Nat \ {0}
      /\ {"passes", "lost", "renewed"} \subseteq DOMAIN hist
      /\ hist.passes \in Nat /\ hist.lost \in BOOLEAN /\ hist.renewed \in BOOLEAN
  <2>1. /\ st \in StateFile /\ disk \in StateFile /\ disk' \in StateFile /\ hist \in Histories
        /\ poll \in Reads /\ hour \in 0..MaxHour /\ head \in Heads
    BY DEF Within, TypeOK
  <2>2. QED
    BY <2>1, Limits DEF Reads, Histories, Heads
<1>100. /\ {"phase", "fix", "pushed", "fixSha", "comment", "concHead", "concerns"} \subseteq DOMAIN st
        /\ st.fix \in Nat /\ st.fix <= MaxFix /\ st.comment \in BOOLEAN
        /\ disk.fix \in Nat /\ disk.comment \in BOOLEAN /\ disk'.fix \in Nat
  BY <1>0, Fields
<1>1. CASE UnchargedSteps
  BY <1>1, StepsUncharged, UnchargedKeeps
<1>2. CASE UNCHANGED vars
  BY <1>2 DEF vars, github, store, Spent, FixBudget, Foreign
<1>3. CASE ListOpen
  <2>1. /\ poll'.snap = head /\ UNCHANGED <<pr, head>> /\ pc = "idle"
        /\ hist'.passes = (IF hist.renewed THEN 0 ELSE hist.passes)
        /\ hist'.renewed = FALSE /\ hist'.lost = hist.lost
    BY <1>0, <1>3 DEF ListOpen, Poll0, github
  <2>2. CASE pr # "open"
    <3>1. pc' = "idle" /\ file' = "none" /\ disk'.comment = FALSE
      BY <1>3, <2>2, NewFields DEF ListOpen, Forget
    <3>2. QED
      BY <1>0, <2>1, <2>2, <3>1, Limits DEF Spent, FixBudget, Foreign
  <2>3. CASE pr = "open" /\ file = "none"
    <3>1. disk'.comment = FALSE /\ st' = disk'
      BY <1>3, <2>3, NewFields, NewTyped, Fields DEF ListOpen
    <3>2. hist.passes = 0
      BY <2>3 DEF Spent
    <3>3. QED
      BY <1>0, <1>100, <2>1, <3>1, <3>2, Limits DEF Spent, FixBudget, Foreign
  <2>4. CASE pr = "open" /\ file # "none"
    <3>1. UNCHANGED <<file, disk>> /\ (pc' = "idle" \/ (pc' = "listed" /\ st' = disk))
      BY <1>3, <2>4 DEF ListOpen, Drop, Keep, store
    <3>2. QED
      BY <1>0, <1>100, <2>1, <2>4, <3>1, Limits DEF Spent, FixBudget, Foreign
  <2>5. QED
    BY <2>2, <2>3, <2>4
<1>4. CASE RuffPush
  <2>1. pc = "listed" /\ st.phase = "ci_fix" /\ pc' = "ruffsave" /\ UNCHANGED <<pr, file, disk, hist>>
    BY <1>4 DEF RuffPush, InPhase, Keep, store
  <2>2. ~disk.comment
    BY <2>1 DEF Paper, Copies
  <2>3. QED
    BY <2>1, <2>2 DEF Spent, FixBudget, Foreign
<1>5. CASE AuditFixEnds
  <2>1. pc = "agentfix" /\ pc' = "idle" /\ UNCHANGED <<pr, file, hist>>
    BY <1>5 DEF AuditFixEnds, Drop, Done, Keep, store
  <2>2. ~disk.comment /\ ~st.comment /\ st.fix = disk.fix
    BY <2>1 DEF Copies, Agree
  <2>3. disk'.comment = FALSE /\ disk'.fix = disk.fix
    BY <1>5, <1>100, <2>2 DEF AuditFixEnds, Drop, Done, Keep, store, Reviewing
  <2>4. QED
    BY <2>1, <2>3 DEF Spent, FixBudget, Foreign
<1>6. CASE HoldEscalated \/ GoOn
  <2>1. /\ pc = "listed" /\ pc' # "listed" /\ UNCHANGED <<pr, head, file, hist>>
        /\ \/ disk' = [Awake(st) EXCEPT !.escHead = poll.snap]
           \/ disk' = Resumed(Awake(st))
           \/ disk' = Awake(st)
    BY <1>6 DEF HoldEscalated, GoOn, InPhase, Done, Save, github
  <2>2. Awake(st) \in StateFile
    BY <1>0, AwakeTyped
  <2>3. /\ disk'.fix = Awake(st).fix
        /\ \/ disk'.comment = FALSE
           \/ /\ disk'.comment = Awake(st).comment /\ disk'.concHead = Awake(st).concHead
              /\ disk'.fixSha = Awake(st).fixSha /\ disk'.pushed = Awake(st).pushed
    BY <2>1, <2>2, Fields, ResumedFields
  <2>4. /\ disk'.fix = IF Foreign(st, poll.snap) THEN 0 ELSE st.fix
        /\ \/ disk'.comment = FALSE
           \/ /\ disk'.comment = st.comment /\ disk'.concHead = st.concHead /\ disk'.fix = st.fix
              /\ disk'.fixSha = st.fixSha /\ disk'.pushed = st.pushed
    BY <1>0, <2>3, AwakeFields
  <2>5. st = disk
    BY <2>1 DEF Paper
  <2>6. hist.lost \/ hist.renewed \/ hist.passes = 0 \/ ~Foreign(disk', head)
    BY <2>4, <2>5 DEF Spent, Foreign
  <2>7. hist.lost \/ (file # "none" => hist.passes <= disk'.fix)
    BY <1>0, <1>100, <2>1, <2>4, <2>5 DEF Spent
  <2>8. QED
    BY <2>1, <2>6, <2>7 DEF Spent, FixBudget, Foreign
<1>7. CASE RetractOnGreen
  <2>1. /\ hist'.passes = 0 /\ hist'.lost = hist.lost /\ pc' = "gate" /\ file' = file
    BY <1>0, <1>7 DEF RetractOnGreen, Save
  <2>2. QED
    BY <1>100, <2>1, Limits DEF Spent, FixBudget
<1>8. CASE StartFix
  <2>1. /\ hist'.passes = hist.passes + 1 /\ hist'.lost = hist.lost /\ hist'.renewed = hist.renewed
        /\ pc = "concerns" /\ pc' = "fixing" /\ UNCHANGED <<head, file, pr>> /\ st.fix < MaxFix
    BY <1>0, <1>8 DEF StartFix, Save, github
  <2>2. {"fix", "pushed", "comment"} \subseteq DOMAIN Climbed /\ Climbed.fix = st.fix
    BY <1>100 DEF Climbed
  <2>3. disk'.fix = st.fix + 1 /\ disk'.pushed = "unset"
    BY <1>8, <2>2 DEF StartFix, Save
  <2>4. st.fix = disk.fix /\ file = "whole"
    BY <2>1 DEF Copies, Agree, Paper
  <2>5. ~Foreign(disk', head)
    BY <1>100, <2>3 DEF Foreign
  <2>6. hist.lost \/ hist'.passes <= st.fix + 1
    BY <1>0, <1>100, <2>1, <2>4 DEF Spent
  <2>7. QED
    BY <1>0, <1>100, <2>1, <2>3, <2>4, <2>5, <2>6, Limits DEF Spent, FixBudget, Foreign
<1>9. CASE FixPush
  <2>1. pc = "fixing" /\ pc' = "record" /\ UNCHANGED <<pr, file, disk, hist>>
    BY <1>9 DEF FixPush, Keep, store
  <2>2. disk.fix > 0 /\ disk.pushed = "unset"
    BY <2>1 DEF Copies, Agree
  <2>3. QED
    BY <2>1, <2>2 DEF Spent, FixBudget, Foreign
<1>10. CASE FixRecord
  <2>1. pc = "record" /\ pc' = "idle" /\ UNCHANGED <<pr, head, file>> /\ hist'.passes = hist.passes
    BY <1>0, <1>10 DEF FixRecord, Done, github
  <2>2. disk'.fix = st.fix /\ st.fix = disk.fix
    BY <1>100, <1>10, <2>1 DEF FixRecord, Done, Copies, Agree
  <2>3. (hist' = hist /\ disk'.fixSha = head) \/ hist'.lost
    BY <1>0, <1>100, <1>10 DEF FixRecord, Done
  <2>4. QED
    BY <1>0, <2>1, <2>2, <2>3 DEF Spent, FixBudget, Foreign
<1>11. CASE RebaseClean
  <2>1. /\ hist'.passes = hist.passes /\ hist'.lost = hist.lost /\ hist'.renewed
        /\ pc' = "rebased" /\ UNCHANGED <<pr, file, disk>>
    BY <1>0, <1>11 DEF RebaseClean, Keep, store
  <2>2. QED
    BY <2>1 DEF Spent, FixBudget
<1>12. CASE FinishMerge \/ FinishClose
  <2>1. /\ pc \in {"merged", "closed"} /\ pc' = "idle" /\ file' = "none" /\ UNCHANGED <<pr, hist>>
        /\ disk'.comment = FALSE
    BY <1>12, NewFields DEF FinishMerge, FinishClose, Forget, github
  <2>2. pr # "open"
    BY <2>1 DEF Paper
  <2>3. QED
    BY <2>1, <2>2 DEF Spent, FixBudget, Foreign
<1>13. CASE AuthorPush
  <2>1. /\ hist'.passes = hist.passes /\ hist'.lost = hist.lost /\ hist'.renewed
        /\ UNCHANGED <<pr, pc, st, file, disk>> /\ poll'.snap = poll.snap
    BY <1>0, <1>13 DEF AuthorPush, store, Within, TypeOK, Reads
  <2>2. QED
    BY <2>1 DEF Spent, FixBudget, Foreign
<1>14. CASE BaseMoves
  BY <1>14 DEF BaseMoves, store, Spent, FixBudget, Foreign
<1>15. CASE HumanEnds
  <2>1. /\ hist'.passes = hist.passes /\ hist'.lost = hist.lost /\ hist'.renewed = hist.renewed
        /\ pr = "open" /\ pr' # "open" /\ UNCHANGED <<head, pc, st, poll, file, disk>>
    BY <1>0, <1>15 DEF HumanEnds, store
  <2>2. QED
    BY <2>1 DEF Spent, FixBudget, Foreign
<1>16. CASE Crash
  <2>1. /\ hist'.passes = hist.passes /\ hist'.lost = hist.lost /\ hist'.renewed = hist.renewed
        /\ pc' = "idle" /\ UNCHANGED <<pr, head, disk>> /\ file = "whole" /\ file' \in {file, "torn"}
    BY <1>0, <1>16 DEF Crash, github, Paper
  <2>2. QED
    BY <2>1 DEF Spent, FixBudget, Foreign
<1>17. CASE \E h \in Heads : CiReports(h)
  BY <1>17 DEF CiReports, store, Spent, FixBudget, Foreign
<1>18. QED
  BY <1>1, <1>2, <1>3, <1>4, <1>5, <1>6, <1>7, <1>8, <1>9, <1>10, <1>11, <1>12, <1>13, <1>14,
     <1>15, <1>16, <1>17
     DEF Next, Watch, Around, UnchargedSteps

LEMMA InitSpent == Init => Copies /\ Tracks /\ Spent
<1>1. Hist0.passes = 0
  BY DEF Hist0
<1>2. ASSUME Init PROVE Copies /\ Tracks /\ Spent
  <2>1. pc = "idle" /\ hist = Hist0 /\ disk = NewState
    BY <1>2 DEF Init
  <2>2. 0 <= MaxFix /\ 0 <= disk.fix
    BY <2>1, NewFields, Limits
  <2>3. QED
    BY <1>1, <2>1, <2>2, NewFields DEF Copies, Tracks, Spent, FixBudget
<1>3. QED
  BY <1>2

\* At most max_fix_attempts fix passes run on one piece of somebody else's work,
\* unless the head of a pass could not be read back.
THEOREM BudgetKept == Spec => []FixBudget
<1>1. Spent => FixBudget
  BY DEF Spent
<1>2. QED
  BY <1>1, InitWithin, InitPaper, InitSpent, StepWithin, StepPaper, StepCopies, StepTracks,
     StepSpent, PTL DEF Spec
============================================================================

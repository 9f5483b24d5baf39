---------------------------- MODULE ReviewWatcher ----------------------------
(***************************************************************************)
(* The pull request review watcher and one open pull request.  The watcher *)
(* polls: it lists the open pull requests, loads the state file of each    *)
(* and takes it one step on: repairs its CI (phase ci_fix), or has its     *)
(* diff reviewed (phase self_review) and merges it, sends a fix pass to    *)
(* its branch, hands it to a human, or closes it and re-queues its task.   *)
(* Everything the watcher decides rests on the head of the listing         *)
(* (pr_data); the diff it reviews and the head it merges are the branch's  *)
(* of that moment.  Authors push, CI runs, the base moves and requests     *)
(* fail meanwhile, and the watcher may be killed between any two steps.    *)
(*                                                                         *)
(* A head is a number, the position of the commit on the branch; 0 is no   *)
(* head.  Time is counted in hours and passes between polls.               *)
(***************************************************************************)
EXTENDS Naturals, FiniteSets

CONSTANTS
  Configs,      \* repository settings: the records of Config
  MaxHead,      \* bound on the pushes to the branch
  MaxFix,       \* max_fix_attempts
  MaxLoops,     \* max_self_review_loops
  MaxLevel,     \* max_fix_strategy_level
  MaxCiFix,     \* _MAX_CI_FIX_ATTEMPTS
  MaxSettle,    \* _MAX_CI_SETTLE_CYCLES
  MaxRetract,   \* _MAX_CI_GREEN_RETRACTIONS
  MaxRebase,    \* _MAX_REBASE_ATTEMPTS
  MaxRequeue,   \* _MAX_REQUEUES
  Patience,     \* CI status -> polls that the CI gate waits on it
  Day,          \* max_council_park_hours, and the age at which a concern is old
  MaxHour,      \* bound on the clock
  MaxFaults,    \* bound on crashes, failed requests and useless passes
  MaxEvents     \* bound on external pushes, CI re-runs and moves of the base

\* gated: auto_merge_on_ci_green, on a branch of the fleet; protected: the base
\* requires the reviewer-verdict status, of admins too; verify:
\* require_branch_protection; unacked: the diff touches a sensitive path, and
\* require_sensitive_path_ack waits for a label that is not there; council: the
\* diff touches a guardrail path; spec: the task is linked to a spec file.  heads
\* and hours are how far this repository is explored.
Config == [gated : BOOLEAN, protected : BOOLEAN, verify : BOOLEAN, unacked : BOOLEAN,
           council : BOOLEAN, spec : BOOLEAN, heads : 1..MaxHead, hours : 0..MaxHour]

Heads == 1..MaxHead
CiStates == {"none", "pending", "red", "green"}
TaskStates == {"In Review", "Ready", "Blocked", "Done"}

ASSUME ConfigAssumption == Configs \subseteq Config
ASSUME LimitAssumption ==
  /\ {MaxHead, MaxFix, MaxLoops, MaxSettle, Day} \subseteq Nat \ {0}
  /\ {MaxLevel, MaxCiFix, MaxRetract, MaxRebase, MaxRequeue} \subseteq Nat
  /\ {MaxHour, MaxFaults, MaxEvents} \subseteq Nat
  /\ Patience \in [CiStates -> Nat \ {0}]

VARIABLES
  cfg,        \* the repository's settings
  pr,         \* "open", "merged" or "closed"
  head,       \* head of the branch
  ci,         \* head -> what CI has reported on it
  conflict,   \* the branch conflicts with its base
  blessed,    \* heads whose reviewer-verdict status is success
  task,       \* board state of the pull request's task
  requeues,   \* its reviewer-requeue-count label
  file,       \* the state file: "none", "whole" or "torn"
  disk,       \* its contents, when whole
  pc,         \* where the watcher is
  st,         \* its copy of the state
  poll,       \* what it read in this poll
  hour,       \* the clock
  faults,     \* faults so far
  events,     \* external events so far
  hist        \* history, for the properties only

github == <<pr, head, ci, conflict, blessed>>
board == <<task, requeues>>
store == <<file, disk>>
bounds == <<faults, events>>
vars == <<cfg, github, board, store, pc, st, poll, hour, bounds, hist>>

\* The state file.  fix: fix_attempts; pushed: last_fix_pass_pushed; fixSha:
\* last_fix_push_sha; comment: concerns_comment_id; concHead:
\* last_concerns_head_sha; concerns, concAt: concern_history; level:
\* fix_strategy_level; esc, escHead, reason, escAt: escalated_*; retr:
\* ci_green_retraction_count; park, parkAt: council_park*.
StateFile ==
  [phase : {"ci_fix", "self_review"}, linked : BOOLEAN,
   ciFix : 0..MaxCiFix, settle : 0..MaxSettle, wait : Nat, rebase : 0..MaxRebase,
   fix : 0..MaxFix, pushed : {"unset", "yes", "no"}, fixSha : 0..MaxHead,
   comment : BOOLEAN, concHead : 0..MaxHead, concerns : SUBSET Heads, concAt : 0..MaxHour,
   level : 0..MaxLevel, esc : BOOLEAN, escHead : 0..MaxHead, escAt : 0..MaxHour,
   reason : {"none", "backend", "capped", "concerns", "other"},
   errors : 0..MaxLoops, unclean : 0..MaxLoops, noVerdict : 0..MaxLoops,
   retr : 0..MaxRetract, park : BOOLEAN, parkAt : 0..MaxHour]

\* _new_state.
NewState ==
  [phase |-> "ci_fix", linked |-> FALSE, ciFix |-> 0, settle |-> 0, wait |-> 0, rebase |-> 0,
   fix |-> 0, pushed |-> "unset", fixSha |-> 0, comment |-> FALSE, concHead |-> 0,
   concerns |-> {}, concAt |-> 0, level |-> 0, esc |-> FALSE, escHead |-> 0, escAt |-> 0,
   reason |-> "none", errors |-> 0, unclean |-> 0, noVerdict |-> 0, retr |-> 0,
   park |-> FALSE, parkAt |-> 0]

\* snap: head of the listing; seen: head whose diff was fetched for the review, 0
\* if the fetch failed; council: the files it showed call for the council; ci: the last CI answer the merge gate had; why: what allows the merge;
\* blind: a CI query of this poll failed; raced: somebody pushed during it.
Poll0 == [snap |-> 0, seen |-> 0, council |-> FALSE, ci |-> "none", why |-> "none",
          blind |-> FALSE, raced |-> FALSE]
Reads == [snap : 0..MaxHead, seen : 0..MaxHead, council : BOOLEAN, ci : CiStates,
          why : {"none", "lgtm", "validated"}, blind : BOOLEAN, raced : BOOLEAN]

\* approved: heads whose diff got LGTM; merged: the head the watcher merged, 0
\* for none, and deal what it had read when it did; conceded: heads
\* escalated with their concerns unresolved; passes: fix passes since the listing
\* that first showed the last push that was not a fix pass's (renewed: not listed
\* yet), or since the last retraction; lost: the head of a fix pass could not be
\* recorded; taken: a human ended the pull request; handed: times it sent its task
\* back; unclosed: the close after that was not tried or failed; short: the hour at which
\* the council first fell short of its quorum, and it has not sat since.
Hist0 == [approved |-> {}, merged |-> 0, deal |-> Poll0, conceded |-> {}, passes |-> 0, lost |-> FALSE,
          renewed |-> FALSE, taken |-> FALSE, handed |-> 0, unclosed |-> FALSE, short |-> MaxHour + 1]

Histories ==
  [approved : SUBSET Heads, merged : 0..MaxHead, deal : Reads, conceded : SUBSET Heads,
   passes : Nat, lost : BOOLEAN, renewed : BOOLEAN, taken : BOOLEAN, handed : 0..2,
   unclosed : BOOLEAN, short : 0..(MaxHour + 1)]

Places == {"idle", "listed", "agentfix", "ruffsave", "gate", "review", "reviewing", "concerns",
           "fixing", "record", "merge", "rebased", "permitted", "bless", "merging", "merged",
           "close", "receipt", "closing", "closed"}

TypeOK ==
  /\ cfg \in Configs
  /\ pr \in {"open", "merged", "closed"} /\ head \in Heads /\ ci \in [Heads -> CiStates]
  /\ conflict \in BOOLEAN /\ blessed \in SUBSET Heads
  /\ task \in TaskStates /\ requeues \in 0..MaxRequeue
  /\ file \in {"none", "whole", "torn"} /\ disk \in StateFile
  /\ pc \in Places /\ st \in StateFile /\ poll \in Reads
  /\ hour \in 0..MaxHour /\ faults \in 0..MaxFaults /\ events \in 0..MaxEvents
  /\ hist \in Histories

Init ==
  /\ cfg \in Configs
  /\ pr = "open" /\ head = 1 /\ ci = [h \in Heads |-> "none"] /\ conflict = FALSE /\ blessed = {}
  /\ task = "In Review" /\ requeues = 0
  /\ file = "none" /\ disk = NewState
  /\ pc = "idle" /\ st = NewState /\ poll = Poll0
  /\ hour = 0 /\ faults = 0 /\ events = 0
  /\ hist = Hist0

----------------------------------------------------------------------------
(* Saving, escalating and asking.                                          *)

Fault == faults < MaxFaults /\ faults' = faults + 1 /\ UNCHANGED events
External == events < MaxEvents /\ events' = events + 1 /\ UNCHANGED faults

\* _save_state; the handler goes on with what it saved.
Save(s) == disk' = s /\ st' = s /\ UNCHANGED file
Keep(s) == st' = s /\ UNCHANGED store

Goto(p) == pc' = p
\* The end of a handler, with and without a save.
Done(s) == disk' = s /\ st' = NewState /\ UNCHANGED file /\ Goto("idle")
Drop == Keep(NewState) /\ Goto("idle")
\* The state file is unlinked.
Forget == file' = "none" /\ disk' = NewState /\ st' = NewState /\ Goto("idle")

\* _escalate_needs_human; h is the head it is pinned to, or 0.
Escalated(s, why, h) ==
  [s EXCEPT !.esc = TRUE, !.reason = why, !.escAt = hour, !.escHead = IF h = 0 THEN @ ELSE h]

\* The three check queries of _ci_status and of the CI gate, on the head of the
\* listing.  A request that fails is an empty list: failures and running checks
\* are not seen, and without completed checks the head looks as if CI had not
\* started.
Blind(c) == IF c \in {"red", "pending"} THEN {"green", "none"} ELSE {"none"}
AskCiFor(q, p) ==
  \/ q = ci[poll.snap] /\ poll' = p /\ UNCHANGED bounds
  \/ q \in Blind(ci[poll.snap]) /\ Fault /\ poll' = [p EXCEPT !.blind = TRUE]
AskCi(q) == AskCiFor(q, poll)

\* _publish_reviewer_verdict on the head of the listing: best effort.
Publish(success) ==
  \/ /\ blessed' = IF success THEN blessed \cup {poll.snap} ELSE blessed \ {poll.snap}
     /\ UNCHANGED bounds
  \/ UNCHANGED blessed /\ Fault

\* A push moves the branch on by a commit that CI has not seen.
Push == head < cfg.heads /\ head' = head + 1

----------------------------------------------------------------------------
(* _poll_once.                                                             *)

\* Listing, pruning and loading; the listing is complete (it is one page of 100
\* pull requests, and beyond that an open one could be pruned).  A pull request without a state file gets one,
\* and with it the task found on the board at that moment, if it is In Review; a
\* file that does not parse is passed over.
ListOpen ==
  /\ pc = "idle"
  /\ poll' = [Poll0 EXCEPT !.snap = head]
  /\ hour' \in {hour, IF hour < cfg.hours THEN hour + 1 ELSE hour}
  /\ \/ /\ pr # "open"
        /\ Forget
     \/ /\ pr = "open" /\ file = "none"
        /\ \E found \in {task = "In Review", FALSE} :
             disk' = [NewState EXCEPT !.linked = found] /\ st' = disk'
        /\ file' = "whole" /\ Goto("listed")
     \/ /\ pr = "open" /\ file = "whole"
        /\ Keep(disk) /\ Goto("listed")
     \/ /\ pr = "open" /\ file = "torn"
        /\ Drop
  /\ hist' = [hist EXCEPT !.passes = IF hist.renewed THEN 0 ELSE @, !.renewed = FALSE]
  /\ UNCHANGED <<cfg, github, board, bounds>>

----------------------------------------------------------------------------
(* _phase0_ci_fix.  A poll that only waits for the 120 seconds after a     *)
(* push changes nothing and is left out.                                   *)

InPhase(p) == pc = "listed" /\ st.phase = p
Reviewing(s) == [s EXCEPT !.phase = "self_review"]

\* CI settled green, or it never settles.
CiSettles ==
  \E q \in CiStates \ {"red"} :
    /\ InPhase("ci_fix") /\ AskCi(q)
    /\ IF q = "green" \/ st.settle + 1 >= MaxSettle
       THEN Done(Reviewing([st EXCEPT !.settle = 0]))
       ELSE Done([st EXCEPT !.settle = @ + 1])
    /\ UNCHANGED <<cfg, github, board, hour, hist>>

\* The attempts are used up, the failing check is not one that is repaired, or
\* the repair changed nothing, could not be pushed, or raised.
CiFixGivesUp ==
  /\ InPhase("ci_fix") /\ AskCi("red")
  /\ Done(Reviewing([st EXCEPT !.settle = 0]))
  /\ UNCHANGED <<cfg, github, board, hour, hist>>

\* Mutant: the cap on the repairs is not looked at.
RuffPushUncapped ==
  /\ InPhase("ci_fix") /\ AskCi("red")
  /\ Push /\ Keep(st) /\ Goto("ruffsave")
  /\ UNCHANGED <<cfg, pr, ci, conflict, blessed, board, hour, hist>>

\* ruff: the push comes first, and the attempt is saved after it.
RuffPush ==
  /\ InPhase("ci_fix") /\ st.ciFix < MaxCiFix /\ AskCi("red")
  /\ Push /\ Keep(st) /\ Goto("ruffsave")
  /\ UNCHANGED <<cfg, pr, ci, conflict, blessed, board, hour, hist>>

RuffSave ==
  /\ pc = "ruffsave"
  /\ Done([st EXCEPT !.settle = 0, !.ciFix = @ + 1])
  /\ UNCHANGED <<cfg, github, board, poll, hour, bounds, hist>>

\* _phase0_audit_autofix: the attempt is saved before the agent runs.
AuditFixStarts ==
  /\ InPhase("ci_fix") /\ st.ciFix < MaxCiFix /\ AskCi("red")
  /\ Save([st EXCEPT !.settle = 0, !.ciFix = @ + 1]) /\ Goto("agentfix")
  /\ UNCHANGED <<cfg, github, board, hour, hist>>

AuditFixEnds ==
  /\ pc = "agentfix"
  /\ \/ Push /\ Drop
     \/ UNCHANGED head /\ (Drop \/ Done(Reviewing(st)))
  /\ UNCHANGED <<cfg, pr, ci, conflict, blessed, board, poll, hour, bounds, hist>>

----------------------------------------------------------------------------
(* _phase1 up to the review.                                               *)

\* Mutant: a pass that was not recorded is forgotten.
OwnPushRecorded(s) == s.fixSha # 0 /\ poll.snap = s.fixSha

\* A head move that is the watcher's own: the recorded head of its last fix
\* pass, or any move while a fix pass has not been recorded at all.
OwnPush(s) ==
  \/ s.fixSha # 0 /\ poll.snap = s.fixSha
  \/ s.fix > 0 /\ s.pushed = "unset"

\* The budget starts afresh after somebody else's push.
PushReset(s) ==
  IF s.comment /\ s.concHead # 0 /\ poll.snap # s.concHead /\ ~OwnPush(s)
  THEN [s EXCEPT !.comment = FALSE, !.fix = 0, !.concHead = 0,
                 !.pushed = "unset", !.fixSha = 0, !.level = 0]
  ELSE s

\* The park of an unavailable backend expires after an hour, unless the council
\* has been parked for a day.
ParkExpiry(s) ==
  IF ~(s.esc /\ s.reason = "backend") THEN s
  ELSE IF s.park /\ hour - s.parkAt >= Day THEN Escalated(s, "capped", poll.snap)
  ELSE IF hour - s.escAt >= 1
       THEN [s EXCEPT !.comment = FALSE, !.esc = FALSE, !.escHead = 0, !.reason = "none",
                      !.errors = 0, !.park = FALSE, !.parkAt = 0]
  ELSE s

Awake(s) == ParkExpiry(PushReset(s))

\* Mutant: only the age of the concerns counts.
UnfixedByAge(s) == s.concerns # {} /\ hour - s.concAt < Day

\* The head of the escalation has unresolved concerns, or a recent one has.
Unfixed(s) ==
  \/ poll.snap = s.concHead \/ s.escHead \in s.concerns
  \/ s.concerns # {} /\ hour - s.concAt < Day

MayRetract(s) == ~Unfixed(s) /\ s.retr < MaxRetract /\ cfg.gated

Resumed(s) == [s EXCEPT !.comment = FALSE, !.esc = FALSE, !.escHead = 0, !.noVerdict = 0]
Retracted(s) == [Resumed(s) EXCEPT !.fix = 0, !.concHead = 0, !.pushed = "unset", !.retr = @ + 1]

NoQuery == UNCHANGED <<poll, bounds>>

\* An escalated pull request waits for a new head ...
HoldEscalated ==
  LET s == Awake(st) IN
  /\ InPhase("self_review") /\ s.esc /\ s.escHead \in {0, poll.snap}
  /\ IF s.escHead # 0 /\ MayRetract(s) THEN \E q \in CiStates \ {"green"} : AskCi(q) ELSE NoQuery
  /\ Done([s EXCEPT !.escHead = poll.snap])
  /\ UNCHANGED <<cfg, github, board, hour, hist>>

\* ... or, at most MaxRetract times, for green CI.
RetractOnGreen ==
  LET s == Awake(st) IN
  /\ InPhase("self_review") /\ s.esc /\ s.escHead = poll.snap /\ MayRetract(s)
  /\ AskCi("green")
  /\ Save(Retracted(s)) /\ Goto("gate")
  /\ hist' = [hist EXCEPT !.passes = 0]
  /\ UNCHANGED <<cfg, github, board, hour>>

GoOn ==
  LET s == Awake(st) IN
  /\ InPhase("self_review") /\ (s.esc => s.escHead \notin {0, poll.snap})
  /\ Save(IF s.esc THEN Resumed(s) ELSE s) /\ Goto("gate")
  /\ UNCHANGED <<cfg, github, board, poll, hour, bounds, hist>>

\* Mutant: the gate waits for ever.
CiGateWaits ==
  /\ pc = "gate"
  /\ IF ~cfg.gated THEN NoQuery /\ Keep(st) /\ Goto("review")
     ELSE \E q \in CiStates :
       /\ AskCi(q)
       /\ IF q = "green" THEN Keep([st EXCEPT !.wait = 0]) /\ Goto("review") ELSE Done(st)
  /\ UNCHANGED <<cfg, github, board, hour, hist>>

\* The CI gate of the fleet's own branches: green, or wait, and escalate once
\* the patience with this state of CI is exhausted.
CiGate ==
  /\ pc = "gate"
  /\ IF ~cfg.gated THEN NoQuery /\ Keep(st) /\ Goto("review")
     ELSE \E q \in CiStates :
       /\ AskCi(q)
       /\ IF q = "green" THEN Keep([st EXCEPT !.wait = 0]) /\ Goto("review")
          ELSE LET s == [st EXCEPT !.wait = @ + 1] IN
               Done(IF s.wait >= Patience[q] THEN Escalated(s, "other", poll.snap) ELSE s)
  /\ UNCHANGED <<cfg, github, board, hour, hist>>

\* The diff is fetched: of the branch as it is now.  A fetch that fails looks like
\* a pull request without files, which is reviewed on its title alone; then, and
\* when the list of the files of a long diff cannot be fetched, no guardrail path
\* is seen and one reviewer takes the council's place.
StartReview ==
  /\ pc = "review"
  /\ \/ poll' = [poll EXCEPT !.seen = head, !.council = cfg.council] /\ UNCHANGED bounds
     \/ \E got \in {0, head} : poll' = [poll EXCEPT !.seen = got] /\ Fault
  /\ IF poll'.council
     THEN /\ Keep([st EXCEPT !.park = FALSE, !.parkAt = 0])
          /\ hist' = [hist EXCEPT !.short = MaxHour + 1]
     ELSE Keep(st) /\ UNCHANGED hist
  /\ Goto("reviewing")
  /\ UNCHANGED <<cfg, github, board, hour>>

\* No backend of the ladder can run: the review is put off, without a trace.
Defer ==
  /\ pc = "review"
  /\ (~cfg.council /\ UNCHANGED bounds) \/ (cfg.council /\ Fault)
  /\ Drop
  /\ UNCHANGED <<cfg, github, board, poll, hour, hist>>

\* _run_council short of its quorum.
CouncilParks ==
  /\ pc = "review" /\ cfg.council
  /\ Done(Escalated([st EXCEPT !.park = TRUE, !.parkAt = IF st.park THEN @ ELSE hour],
                    "backend", poll.snap))
  /\ hist' = [hist EXCEPT !.short = IF @ > MaxHour THEN hour ELSE @]
  /\ UNCHANGED <<cfg, github, board, poll, hour, bounds>>

----------------------------------------------------------------------------
(* The review and what follows from it.                                    *)

\* The reviewer's own source tree is unclean: counted apart, never against the
\* pull request.
SourceUnclean ==
  LET s == [st EXCEPT !.unclean = @ + 1] IN
  /\ pc = "reviewing"
  /\ Done(IF s.unclean < MaxLoops THEN s
          ELSE [Escalated(s, "other", poll.snap) EXCEPT !.unclean = 0])
  /\ UNCHANGED <<cfg, github, board, poll, hour, bounds, hist>>

\* ReviewerBackendError.
BackendFails ==
  LET s == [st EXCEPT !.errors = @ + 1] IN
  /\ pc = "reviewing"
  /\ Done(IF s.errors < MaxLoops THEN s
          ELSE [Escalated(s, "backend", poll.snap) EXCEPT !.errors = 0])
  /\ UNCHANGED <<cfg, github, board, poll, hour, bounds, hist>>

Ran(s) == [s EXCEPT !.unclean = 0, !.errors = 0]

\* The reviewer ran and wrote no verdict.  (A silent seat of the council counts
\* as concerns.)
NoVerdict ==
  LET s == [Ran(st) EXCEPT !.noVerdict = @ + 1] IN
  /\ pc = "reviewing" /\ ~poll.council
  /\ Done(IF s.noVerdict < MaxLoops THEN s
          ELSE [Escalated(s, "other", poll.snap) EXCEPT !.noVerdict = 0])
  /\ UNCHANGED <<cfg, github, board, poll, hour, bounds, hist>>

\* aggregate_council on the set of the seats' results: unanimous, and not empty.
Aggregate(votes) == IF votes = {"LGTM"} THEN "LGTM" ELSE "CONCERNS"

\* The results a review can have: one member's, or those of the council.
Ballots == IF poll.council THEN SUBSET {"LGTM", "CONCERNS", "none"} ELSE {{"LGTM"}, {"CONCERNS"}}

\* LGTM: the status is published and the merge is tried.
Lgtm ==
  /\ pc = "reviewing" /\ \E votes \in Ballots : Aggregate(votes) = "LGTM"
  /\ Publish(TRUE)
  /\ poll' = [poll EXCEPT !.why = "lgtm"]
  /\ Keep([Ran(st) EXCEPT !.noVerdict = 0]) /\ Goto("merge")
  /\ hist' = [hist EXCEPT !.approved = @ \cup ({poll.seen} \ {0})]
  /\ UNCHANGED <<cfg, pr, head, ci, conflict, board, hour>>

\* CONCERNS: _track_concern_raised notes the head of the listing; a summary with
\* a new signature renews the date.
Concerns ==
  /\ pc = "reviewing" /\ \E votes \in Ballots : Aggregate(votes) = "CONCERNS"
  /\ Publish(FALSE)
  /\ \E at \in {hour} \cup IF poll.snap \in st.concerns THEN {st.concAt} ELSE {} :
       Keep([Ran(st) EXCEPT !.noVerdict = 0, !.concHead = poll.snap,
                            !.concerns = @ \cup {poll.snap}, !.concAt = at])
  /\ Goto("concerns")
  /\ UNCHANGED <<cfg, pr, head, ci, conflict, board, poll, hour, hist>>

\* repeated_no_progress; the head it compares was set by _track_concern_raised.
NoProgress == st.fix > 0 /\ st.pushed = "no"
TrustCi == NoProgress /\ st.retr >= MaxRetract /\ cfg.gated

\* ci_validated_after_retraction.
MergeOnCi ==
  /\ pc = "concerns" /\ TrustCi
  /\ AskCiFor("green", [poll EXCEPT !.why = "validated"])
  /\ Keep(st) /\ Goto("merge")
  /\ UNCHANGED <<cfg, github, board, hour, hist>>

\* The query of MergeOnCi, where it is made, did not say green.
CiNotTrusted == IF TrustCi THEN \E q \in CiStates \ {"green"} : AskCi(q) ELSE NoQuery

\* fix_pass_no_progress: the ladder is climbed to its top.
Concede ==
  /\ pc = "concerns" /\ NoProgress /\ st.level >= MaxLevel
  /\ CiNotTrusted
  /\ Done(Escalated(st, "concerns", poll.snap))
  /\ hist' = [hist EXCEPT !.conceded = @ \cup {poll.snap}]
  /\ UNCHANGED <<cfg, github, board, hour>>

Climbed == IF NoProgress THEN [st EXCEPT !.level = @ + 1] ELSE st
MayClimb == NoProgress => st.level < MaxLevel

\* fix_attempts_exhausted.
Exhausted ==
  /\ pc = "concerns" /\ MayClimb /\ st.fix >= MaxFix
  /\ CiNotTrusted
  /\ IF NoProgress THEN Save(Climbed) ELSE Keep(st)
  /\ Goto("close")
  /\ UNCHANGED <<cfg, github, board, hour, hist>>

\* The first concerns are posted, the attempt is saved, and the fix pass starts.
StartFix ==
  /\ pc = "concerns" /\ MayClimb /\ st.fix < MaxFix
  /\ CiNotTrusted
  /\ \E posted \in {st.comment, st.comment \/ st.fix = 0} :
       Save([Climbed EXCEPT !.comment = posted, !.fix = @ + 1, !.pushed = "unset"])
  /\ Goto("fixing")
  /\ hist' = [hist EXCEPT !.passes = @ + 1]
  /\ UNCHANGED <<cfg, github, board, hour>>

\* _run_fix_pass pushed nothing.
FixNothing ==
  /\ pc = "fixing"
  /\ Done([st EXCEPT !.pushed = "no"])
  /\ UNCHANGED <<cfg, github, board, poll, hour, bounds, hist>>

FixPush ==
  /\ pc = "fixing" /\ Push
  /\ Keep(st) /\ Goto("record")
  /\ UNCHANGED <<cfg, pr, ci, conflict, blessed, board, poll, hour, bounds, hist>>

\* The head is read back from GitHub, whoever pushed it, or not at all.
FixRecord ==
  /\ pc = "record"
  /\ \/ /\ Done([st EXCEPT !.pushed = "yes", !.fixSha = head])
        /\ UNCHANGED <<bounds, hist>>
     \/ /\ Done([st EXCEPT !.pushed = "yes", !.fixSha = 0])
        /\ Fault /\ hist' = [hist EXCEPT !.lost = TRUE]
  /\ UNCHANGED <<cfg, github, board, poll, hour>>

----------------------------------------------------------------------------
(* _merge_and_done.                                                        *)

\* Mutant: a clean rebase goes on to the merge in the same poll.
RebaseMerges ==
  /\ pc = "merge" /\ conflict /\ st.rebase < MaxRebase
  /\ Push /\ conflict' = FALSE
  /\ Keep(st) /\ Goto("bless")
  /\ hist' = [hist EXCEPT !.renewed = TRUE]
  /\ UNCHANGED <<cfg, pr, ci, blessed, board, poll, hour, bounds>>

\* The branch conflicts: _auto_rebase_or_escalate.  A clean rebase is pushed and
\* ends the poll.
RebaseClean ==
  /\ pc = "merge" /\ conflict /\ st.rebase < MaxRebase
  /\ Push /\ conflict' = FALSE
  /\ Keep(st) /\ Goto("rebased")
  /\ hist' = [hist EXCEPT !.renewed = TRUE]
  /\ UNCHANGED <<cfg, pr, ci, blessed, board, poll, hour, bounds>>

RebaseSave ==
  /\ pc = "rebased"
  /\ Done([st EXCEPT !.rebase = @ + 1])
  /\ UNCHANGED <<cfg, github, board, poll, hour, bounds, hist>>

\* A real conflict, or the attempts are used up: escalated without a head.
RebaseEscalates ==
  /\ pc = "merge" /\ conflict
  /\ Done(Escalated(st, "other", 0))
  /\ UNCHANGED <<cfg, github, board, poll, hour, bounds, hist>>

\* noop, push_rejected, unavailable, error: not charged.
RebaseFails ==
  /\ pc = "merge" /\ conflict /\ st.rebase < MaxRebase /\ Fault
  /\ Done(st)
  /\ UNCHANGED <<cfg, github, board, poll, hour, hist>>

\* _branch_protection_ok and _sensitive_path_ack_ok: the first fails closed, the
\* second open, and a refusal leaves nothing but a line in the log.
Gates == (cfg.verify => cfg.protected) /\ ~cfg.unacked

Refused ==
  /\ pc = "merge" /\ ~conflict
  /\ (~Gates /\ UNCHANGED bounds) \/ (cfg.verify /\ Fault)
  /\ Drop
  /\ UNCHANGED <<cfg, github, board, poll, hour, hist>>

Permitted ==
  /\ pc = "merge" /\ ~conflict /\ (cfg.verify => cfg.protected)
  /\ (~cfg.unacked /\ UNCHANGED bounds) \/ (cfg.unacked /\ Fault)
  /\ Keep([st EXCEPT !.rebase = 0]) /\ Goto("permitted")
  /\ UNCHANGED <<cfg, github, board, poll, hour, hist>>

\* Mutant: running checks do not hold the merge up.
MergeGateFailedOnly ==
  /\ pc = "permitted"
  /\ \E q \in CiStates :
       /\ AskCiFor(q, [poll EXCEPT !.ci = ci[poll.snap]])
       /\ IF q = "red" THEN Drop ELSE Keep(st) /\ Goto("bless")
  /\ UNCHANGED <<cfg, github, board, hour, hist>>

\* The last look at CI: nothing failed, nothing running.
MergeGate ==
  /\ pc = "permitted"
  /\ \E q \in CiStates :
       /\ AskCiFor(q, [poll EXCEPT !.ci = ci[poll.snap]])
       /\ IF q \in {"red", "pending"} THEN Drop ELSE Keep(st) /\ Goto("bless")
  /\ UNCHANGED <<cfg, github, board, hour, hist>>

\* The status once more, on the head that was reviewed.
Bless ==
  /\ pc = "bless"
  /\ Publish(TRUE)
  /\ Keep(st) /\ Goto("merging")
  /\ UNCHANGED <<cfg, pr, head, ci, conflict, board, poll, hour, hist>>

\* What GitHub lets merge: the branch as it is now.
Mergeable == pr = "open" /\ ~conflict /\ (cfg.protected => head \in blessed)

MergePr ==
  /\ pc = "merging" /\ Mergeable
  /\ pr' = "merged" /\ hist' = [hist EXCEPT !.merged = head, !.deal = poll]
  /\ Keep(st) /\ Goto("merged")
  /\ UNCHANGED <<cfg, head, ci, conflict, blessed, board, poll, hour, bounds>>

MergeFails ==
  /\ pc = "merging" /\ ((~Mergeable /\ UNCHANGED bounds) \/ Fault)
  /\ Drop
  /\ UNCHANGED <<cfg, github, board, poll, hour, hist>>

\* Done on the board, best effort, and the state file goes.
FinishMerge ==
  /\ pc = "merged"
  /\ \/ task' = (IF st.linked THEN "Done" ELSE task) /\ UNCHANGED bounds
     \/ UNCHANGED task /\ Fault
  /\ Forget
  /\ UNCHANGED <<cfg, github, requeues, poll, hour, hist>>

----------------------------------------------------------------------------
(* _close_and_requeue.                                                     *)

\* The task goes back to the queue, or to a human once the re-queues are used up.
HandBack ==
  IF requeues < MaxRequeue
  THEN task' = "Ready" /\ requeues' = requeues + 1
  ELSE task' = "Blocked" /\ UNCHANGED requeues

Handed(h) == [h EXCEPT !.handed = IF @ < 2 THEN @ + 1 ELSE @]

CloseUnlinked ==
  /\ pc = "close" /\ ~st.linked
  /\ Done(Escalated(st, "other", 0))
  /\ UNCHANGED <<cfg, github, board, poll, hour, bounds, hist>>

\* Mutants: the poll ends after the re-queue; a failed re-queue is taken for a
\* good one.
RequeueReturns ==
  /\ pc = "close" /\ st.linked
  /\ HandBack
  /\ Done(st)
  /\ hist' = Handed(hist)
  /\ UNCHANGED <<cfg, github, poll, hour, bounds>>

RequeueFailsUnseen ==
  /\ pc = "close" /\ st.linked /\ Fault
  /\ Keep(st) /\ Goto("receipt")
  /\ UNCHANGED <<cfg, github, board, poll, hour, hist>>

\* _requeue_plane_task.
Requeue ==
  /\ pc = "close" /\ st.linked
  /\ HandBack
  /\ Keep(st) /\ Goto("receipt")
  /\ hist' = Handed(hist)
  /\ UNCHANGED <<cfg, github, poll, hour, bounds>>

\* A request of the re-queue raises: before anything is written, when only the
\* count is, or at the comment, when the task has been handed back already.
RequeueFails ==
  /\ pc = "close" /\ st.linked /\ Fault
  /\ \/ /\ requeues' \in {requeues, IF requeues < MaxRequeue THEN requeues + 1 ELSE requeues}
        /\ UNCHANGED <<task, hist>>
     \/ HandBack /\ hist' = [Handed(hist) EXCEPT !.unclosed = TRUE]
  /\ Done(st)
  /\ UNCHANGED <<cfg, github, poll, hour>>

\* The close receipt on the task, which needs its spec file.
Receipt ==
  /\ pc = "receipt"
  /\ \/ cfg.spec /\ Keep(st) /\ Goto("closing") /\ UNCHANGED <<bounds, hist>>
     \/ /\ (~cfg.spec /\ UNCHANGED bounds) \/ Fault
        /\ Done(st) /\ hist' = [hist EXCEPT !.unclosed = TRUE]
  /\ UNCHANGED <<cfg, github, board, poll, hour>>

ClosePr ==
  /\ pc = "closing" /\ pr = "open"
  /\ pr' = "closed"
  /\ Keep(st) /\ Goto("closed")
  /\ UNCHANGED <<cfg, head, ci, conflict, blessed, board, poll, hour, bounds, hist>>

CloseFails ==
  /\ pc = "closing" /\ ((pr # "open" /\ UNCHANGED bounds) \/ Fault)
  /\ Done(st) /\ hist' = [hist EXCEPT !.unclosed = TRUE]
  /\ UNCHANGED <<cfg, github, board, poll, hour>>

FinishClose ==
  /\ pc = "closed"
  /\ Forget
  /\ UNCHANGED <<cfg, github, board, poll, hour, bounds, hist>>

----------------------------------------------------------------------------
(* The others: authors, CI, the base branch, people, the task's workers,   *)
(* and whatever kills the watcher.                                         *)

Busy == pc # "idle"

AuthorPush ==
  /\ pr = "open" /\ External /\ Push
  /\ poll' = [poll EXCEPT !.raced = Busy]
  /\ hist' = [hist EXCEPT !.renewed = TRUE]
  /\ UNCHANGED <<cfg, pr, ci, conflict, blessed, board, store, pc, st, hour>>

CiProgress == {<<"none", "pending">>, <<"pending", "red">>, <<"pending", "green">>}

CiReports(h) ==
  \E c \in CiStates :
    /\ pr = "open" /\ h \in {head, poll.snap}
    /\ \/ <<ci[h], c>> \in CiProgress /\ UNCHANGED bounds
       \/ ci[h] \in {"red", "green"} /\ c = "pending" /\ External
    /\ ci' = [ci EXCEPT ![h] = c]
    /\ UNCHANGED <<cfg, pr, head, conflict, blessed, board, store, pc, st, poll, hour, hist>>

BaseMoves ==
  /\ pr = "open" /\ ~conflict /\ External
  /\ conflict' = TRUE
  /\ UNCHANGED <<cfg, pr, head, ci, blessed, board, store, pc, st, poll, hour, hist>>

HumanEnds ==
  /\ pr = "open" /\ External
  /\ (pr' = "merged" /\ Mergeable) \/ pr' = "closed"
  /\ hist' = [hist EXCEPT !.taken = TRUE]
  /\ UNCHANGED <<cfg, head, ci, conflict, blessed, board, store, pc, st, poll, hour>>

\* Killed; a kill during write_text leaves half a file.
Crash ==
  /\ pc # "idle" /\ Fault
  /\ Goto("idle") /\ st' = NewState /\ poll' = Poll0
  /\ file' \in {file} \cup IF Busy /\ file = "whole" THEN {"torn"} ELSE {}
  /\ hist' = [hist EXCEPT !.unclosed = @ \/ pc \in {"receipt", "closing"}]
  /\ UNCHANGED <<cfg, github, board, disk, hour>>

Watch ==
  \/ ListOpen
  \/ CiSettles \/ CiFixGivesUp \/ RuffPush \/ RuffSave \/ AuditFixStarts \/ AuditFixEnds
  \/ HoldEscalated \/ RetractOnGreen \/ GoOn \/ CiGate
  \/ StartReview \/ Defer \/ CouncilParks
  \/ SourceUnclean \/ BackendFails \/ NoVerdict \/ Lgtm \/ Concerns
  \/ MergeOnCi \/ Concede \/ Exhausted \/ StartFix \/ FixNothing \/ FixPush \/ FixRecord
  \/ RebaseClean \/ RebaseSave \/ RebaseEscalates \/ RebaseFails
  \/ Refused \/ Permitted \/ MergeGate \/ Bless \/ MergePr \/ MergeFails \/ FinishMerge
  \/ CloseUnlinked \/ Requeue \/ RequeueFails \/ Receipt \/ ClosePr \/ CloseFails \/ FinishClose

Around ==
  \/ AuthorPush \/ BaseMoves \/ HumanEnds \/ Crash
  \/ \E h \in Heads : CiReports(h)

Next == Watch \/ Around

Spec == Init /\ [][Next]_vars

\* The watcher's loop goes on; nothing is assumed of anybody else.
FairSpec == Spec /\ WF_vars(Watch)

----------------------------------------------------------------------------
(* Properties.                                                             *)

\* The watcher implements PrPromise: whatever it meets and wherever it is killed,
\* it closes only after the task is back in the queue or Blocked, it marks Done
\* only what it merged, and it re-queues within its cap.
Promise == INSTANCE PrPromise WITH pr <- IF hist.taken THEN "taken" ELSE pr
PromiseKept == Promise!Spec

\* What the watcher merges is a head whose diff was reviewed LGTM, or one that
\* green CI vouched for after the last retraction.  An LGTM to a diff that could
\* not be fetched counts for the head that was listed and for no later one.
\* Where the base branch does not require the reviewer-verdict status, a push
\* that falls between the listing and the merge request is merged unseen:
\* merge_pr names no head.
MergedReviewed ==
  hist.merged # 0 =>
    \/ hist.merged \in hist.approved
    \/ hist.deal.why = "validated" /\ hist.merged = hist.deal.snap
    \/ hist.deal.why = "lgtm" /\ hist.deal.seen = 0 /\ hist.merged = hist.deal.snap
    \/ ~cfg.protected /\ hist.deal.raced

\* Nothing is merged over failing or running checks, and a gated branch only on
\* green, as long as no check query of that poll failed: a failed query reads
\* as "nothing failed, nothing running".
MergedChecked ==
  hist.merged # 0 /\ ~hist.deal.blind =>
    /\ hist.deal.ci \notin {"red", "pending"}
    /\ cfg.gated => hist.deal.ci = "green"

\* A head on which the fix passes gave up with concerns open is never merged by
\* the watcher, however often CI is green on it or the watcher restarts.
ConcededKept == hist.merged \notin hist.conceded

\* At most MaxFix fix passes run on one piece of somebody else's work, whatever
\* the passes push and wherever the watcher is killed, unless the head of a
\* pass could not be read back: the guard then takes the pass's own push for an
\* external one.
FixBudget == hist.lost \/ hist.passes <= MaxFix

\* One pull request sends its task back to the queue once, unless the close
\* that should follow did not happen, or was not tried because the comment on
\* the task, the last request of the re-queue, failed.
RequeuedOnce == hist.unclosed \/ hist.handed <= 1

\* With a spec file to write the receipt for and a base branch that passes the
\* gates of the merge, a gated pull request is merged, closed or put before a
\* human; or its state file is torn, and it is passed over from then on; or its
\* review is put off for ever because no backend is runnable.
PrSettles ==
  \/ cfg.gated /\ cfg.spec /\ Gates ~> (pr # "open" \/ disk.esc \/ file = "torn")
  \/ []<><<Defer>>_vars

\* "council_park_started_at is set ONCE by _run_council on first park and is NOT
\* reset by this block's resume/re-park cycling": a council that is short of its
\* quorum for longer than the cap is put before the operator.
ParkCapSurfaces ==
  pc = "idle" /\ hist.short + Day < hour => disk.reason = "capped"
============================================================================

--------------------------- MODULE DeliveryProofs ---------------------------
(* What a dispatch delivers, for any number of attempts, dispatches and      *)
(* pieces of work, any answers of the adapter and any policy.                *)
EXTENDS Delivery, TLAPS

\* What the clone saw on the remote is in the branch that will be pushed.
Leased == ws.lease # Absent => ws.lease \subseteq ws.commits

\* Before a call of a request that is not idempotent nothing has begun, and
\* between its two worker backends it has begun once.
Unbegun ==
  ~cfg.idempotent =>
    /\ pc \in {"start", "call"} => hist.begun = 0
    /\ pc = "switched" => cfg.switches /\ hist.begun = 1
    /\ pc = "evaluate" /\ result.code = "backend_unavailable" => hist.begun = 0
    /\ hist.begun <= IF cfg.switches THEN 2 ELSE 1

\* Where the attempts are; TrailTells without the last entry.
Counted ==
  /\ pc \in {"call", "switched", "evaluate"} =>
       /\ loop.attempt \in 1..cfg.attempts
       /\ Len(loop.trail) = loop.attempt - 1
       /\ \A i \in 1..Len(loop.trail) : loop.trail[i].decision \in Retries

\* Where the work of a run is, from the call to the board.
Carried ==
  /\ pc \in {"idle", "end", "start", "call", "switched", "evaluate", "book", "finalize", "push"} =>
       ~result.pushed
  /\ pc = "start" => hist.work = {}
  /\ pc \in {"call", "switched", "evaluate", "book", "finalize", "push"} =>
       hist.work \subseteq ws.tree \cup ws.commits
  /\ pc \in {"finalize", "push"} => result.ok
  /\ pc = "push" => ws.tree = {}
  /\ result.pushed => result.ok /\ hist.work \subseteq OnRemote
  /\ ~first.pushed
  /\ task.claim => pc = "end"

\* A pushed branch that passed the scope check has nothing out of scope.
Scoped ==
  pc = "outcome" /\ result.ok /\ result.cat # "scope_too_wide" /\ result.pushed /\ cfg.scoped =>
    OnRemote \cap hist.outside = {}

Inv == /\ TypeOK /\ Leased /\ Unbegun /\ Counted /\ Carried /\ Scoped
       /\ TrailTells /\ ClaimedDelivered /\ AcceptedInScope

----------------------------------------------------------------------------
(* The decisions of the engine.                                            *)

\* Only a failure that the contract places before the request is retried for a
\* request that is not idempotent, and never past the attempts.
LEMMA EvaluateRetries ==
  ASSUME NEW p, NEW r \in ResultType, NEW a \in Nat, NEW t,
         p.attempts \in Nat, p.idempotent \in BOOLEAN,
         Evaluate(p, r, a, t).decision \in Retries
  PROVE  /\ ~r.ok /\ a < p.attempts
         /\ ~p.idempotent => r.code = "backend_unavailable"
<1>1. r.ok \in BOOLEAN /\ r.code \in Codes
  BY DEF ResultType
<1>2. ~r.ok
  BY <1>1 DEF Evaluate, Answer, Retries
<1>3. a < p.attempts
  BY <1>1, <1>2 DEF Evaluate, Answer, Retries
<1>4. ASSUME ~p.idempotent PROVE Classify(r) \in PreSend
  BY <1>1, <1>2, <1>3, <1>4 DEF Evaluate, Answer, Retries
<1>5. ASSUME Classify(r) = "backend_unavailable" PROVE r.code = "backend_unavailable"
  BY <1>1, <1>5 DEF Classify, Codes
<1> QED
  BY <1>2, <1>3, <1>4, <1>5 DEF PreSend

\* Exactly a success is accepted.
LEMMA EvaluateAccepts ==
  ASSUME NEW p, NEW r \in ResultType, NEW a, NEW t
  PROVE  Evaluate(p, r, a, t).decision = "accept" <=> r.ok
<1>1. r.ok \in BOOLEAN
  BY DEF ResultType
<1> QED
  BY <1>1 DEF Evaluate, Answer, Handle

\* Decisions, kinds and delays have their types.
LEMMA EvaluateType ==
  ASSUME NEW p, NEW r \in ResultType, NEW a, NEW t
  PROVE  /\ Evaluate(p, r, a, t).decision \in Decisions
         /\ Evaluate(p, r, a, t).delay \in Nat
         /\ Classify(r) \in Kinds
<1>1. r.ok \in BOOLEAN /\ r.code \in Codes /\ r.after \in Nat
  BY DEF ResultType
<1>2. Evaluate(p, r, a, t).decision \in Decisions
  BY DEF Evaluate, Answer, Handle, Decisions, Retries
<1>3. Evaluate(p, r, a, t).delay \in Nat
  BY <1>1 DEF Evaluate, Answer, Handle
<1>4. Classify(r) \in Kinds
  BY <1>1 DEF Classify, Kinds, Codes
<1> QED
  BY <1>2, <1>3, <1>4

----------------------------------------------------------------------------
LEMMA InitInv == Init => Inv
<1> SUFFICES ASSUME Init PROVE Inv
  OBVIOUS
<1>0. cfg \in Policies /\ cfg.dispatches \in Nat /\ cfg.attempts \in Nat \ {0} /\ MaxPieces \in Nat
  BY PolicyAssumption, BoundAssumption DEF Init
<1>1. pc = "idle" /\ dispatch = 0 /\ run = 0 /\ file = "missing" /\ remote = Absent
  BY DEF Init
<1>2. result \in ResultType /\ first \in ResultType /\ ~result.pushed /\ ~first.pushed
  BY DEF Init, NoResult, ResultType, Categories, Codes
<1>3. /\ loop = [attempt |-> 0, request |-> 0, trail |-> <<>>]
      /\ <<>> \in Seq(EntryType) /\ Len(<<>>) = 0 /\ 0 \in 0..(cfg.attempts + 1)
  <2>1. loop = FreshLoop
    BY DEF Init
  <2> QED
    BY <1>0, <2>1 DEF FreshLoop
<1>4. /\ loop \in [attempt : 0..(cfg.attempts + 1), request : Nat,
                   trail : Seq(EntryType)]
      /\ loop.trail = <<>>
  BY <1>3
<1>5. ws = FreshWs
  BY DEF Init
<1>6. ws \in [tree : SUBSET Pieces, commits : SUBSET Pieces,
              lease : {Absent} \cup (SUBSET Pieces), squashed : BOOLEAN] /\ ws.lease = Absent
  BY <1>5 DEF FreshWs
<1>7. hist = [made |-> 0, outside |-> {}, work |-> {}, begun |-> 0] /\ 0 \in 0..MaxPieces
  <2>1. hist = [made |-> 0, outside |-> {}, work |-> {}, begun |-> 0]
    BY DEF Init
  <2> QED
    BY <1>0, <2>1
<1>8. /\ hist \in [made : 0..MaxPieces, outside : SUBSET Pieces, work : SUBSET Pieces, begun : Nat]
      /\ hist.begun = 0 /\ hist.outside = {} /\ hist.work = {}
  BY <1>7
<1>9. task = [state |-> "Ready for AI", claim |-> FALSE]
  BY DEF Init
<1>10. task \in [state : {"Ready for AI", "Running", "Blocked", "In Review", "Done"},
                 claim : BOOLEAN] /\ ~task.claim
  BY <1>9
<1>11. TypeOK
  <2>1. 0 \in 0..cfg.dispatches /\ 0 \in 0..2 /\ {} \subseteq Made
    BY <1>0
  <2>2. pc \in PCs
    BY <1>1 DEF PCs
  <2> QED
    BY <1>0, <1>1, <1>2, <1>4, <1>6, <1>8, <1>10, <2>1, <2>2 DEF TypeOK
<1>12. Leased /\ Unbegun /\ Counted /\ Carried /\ Scoped
  <2>1. Leased /\ Counted /\ Scoped
    BY <1>1, <1>6 DEF Leased, Counted, Scoped
  <2>2. Unbegun
    BY <1>1, <1>8 DEF Unbegun
  <2>3. Carried
    BY <1>1, <1>2, <1>10 DEF Carried
  <2> QED
    BY <2>1, <2>2, <2>3
<1>13. TrailTells
  BY <1>0, <1>1, <1>3, <1>4 DEF TrailTells
<1>14. ClaimedDelivered /\ AcceptedInScope
  BY <1>10 DEF ClaimedDelivered, AcceptedInScope
<1> QED
  BY <1>11, <1>12, <1>13, <1>14 DEF Inv

----------------------------------------------------------------------------
(* Which steps write what.                                                 *)

\* The ends of finalize that push nothing.
Unpushed ==
  \/ FinalizeSkips \/ FinalizeRaises \/ Oversized \/ PatchBlocked \/ NothingToPush
  \/ CustodianBlocks

\* The workspace, the history, the loop and the remote are each written by few
\* steps.
LEMMA Frames ==
  ASSUME [Next]_vars
  PROVE  /\ cfg' = cfg
         /\ Prepare \/ Switch \/ Call \/ Commit \/ Emit \/ Kill \/ ws' = ws
         /\ Dispatch \/ Switch \/ Call \/ Retry \/ OtherPush \/ hist' = hist
         /\ Prepare \/ Decide \/ EngineRaises \/ Emit \/ Kill \/ loop' = loop
         /\ Push \/ PushFails \/ OtherPush \/ remote' = remote
<1>1. CASE Dispatch \/ Refuse \/ Prepare \/ Switch \/ Call
  BY <1>1 DEF Dispatch, Refuse, Prepare, Switch, Call
<1>2. CASE Decide \/ EngineRaises \/ Book \/ BookRaises
  BY <1>2 DEF Decide, EngineRaises, Book, BookRaises
<1>3. CASE Unpushed
  BY <1>3 DEF Unpushed, FinalizeSkips, FinalizeRaises, Oversized, PatchBlocked, NothingToPush,
              CustodianBlocks, Finalized
<1>4. CASE Commit \/ Push \/ PushFails
  BY <1>4 DEF Commit, Push, PushFails
<1>5. CASE Emit \/ Kill
  BY <1>5 DEF Emit, Kill, Gone
<1>6. CASE ReadNothing \/ DispatchRaises \/ VerifyFails \/ Succeed \/ Fail
  BY <1>6 DEF ReadNothing, DispatchRaises, VerifyFails, Succeed, Fail, Settle, Over
<1>7. CASE Retry \/ Read \/ Verify \/ OtherPush
  BY <1>7 DEF Retry, Read, Verify, OtherPush
<1>8. CASE UNCHANGED vars
  BY <1>8 DEF vars
<1> QED
  BY <1>1, <1>2, <1>3, <1>4, <1>5, <1>6, <1>7, <1>8 DEF Next, Executor, Worker, Unpushed

\* The records have their fields.
LEMMA Fields ==
  ASSUME TypeOK
  PROVE  /\ ws = [tree |-> ws.tree, commits |-> ws.commits, lease |-> ws.lease,
                  squashed |-> ws.squashed]
         /\ hist = [made |-> hist.made, outside |-> hist.outside, work |-> hist.work,
                    begun |-> hist.begun]
         /\ loop = [attempt |-> loop.attempt, request |-> loop.request, trail |-> loop.trail]
  BY DEF TypeOK

\* A run on a backend may add one piece, in one place.
LEMMA LeaveFacts ==
  ASSUME TypeOK, NEW began, Leave(began)
  PROVE  /\ ws'.lease = ws.lease /\ ws'.squashed = ws.squashed
         /\ ws.tree \subseteq ws'.tree /\ ws.commits \subseteq ws'.commits
         /\ hist'.work \ hist.work \subseteq ws'.tree \cup ws'.commits
         /\ ws' \in [tree : SUBSET Pieces, commits : SUBSET Pieces,
                     lease : {Absent} \cup (SUBSET Pieces), squashed : BOOLEAN]
         /\ hist' \in [made : 0..MaxPieces, outside : SUBSET Pieces, work : SUBSET Pieces,
                       begun : Nat]
         /\ hist'.outside \subseteq 1..hist'.made
         /\ hist'.begun = IF began THEN hist.begun + 1 ELSE hist.begun
<1> DEFINE piece == hist.made + 1
           left(put) == put # "nowhere"
           added(put, place) == IF put = place THEN {piece} ELSE {}
<1>1. PICK outside \in BOOLEAN, put \in {"nowhere", "tree", "commits"} :
        /\ left(put) => began /\ piece \in Pieces
        /\ outside => left(put)
        /\ ws' = [ws EXCEPT !.tree = @ \cup added(put, "tree"),
                            !.commits = @ \cup added(put, "commits")]
        /\ hist' = [hist EXCEPT
                      !.begun = IF began THEN @ + 1 ELSE @,
                      !.made = IF left(put) THEN piece ELSE @,
                      !.outside = IF outside THEN @ \cup {piece} ELSE @,
                      !.work = IF left(put) THEN @ \cup {piece} ELSE @]
  BY DEF Leave
<1>2. ws' = [tree |-> ws.tree \cup added(put, "tree"),
             commits |-> ws.commits \cup added(put, "commits"),
             lease |-> ws.lease, squashed |-> ws.squashed]
  BY <1>1, Fields
<1>3. hist' = [made |-> IF left(put) THEN piece ELSE hist.made,
               outside |-> IF outside THEN hist.outside \cup {piece} ELSE hist.outside,
               work |-> IF left(put) THEN hist.work \cup {piece} ELSE hist.work,
               begun |-> IF began THEN hist.begun + 1 ELSE hist.begun]
  BY <1>1, Fields
<1>4. /\ hist.made \in 0..MaxPieces /\ MaxPieces \in Nat /\ hist.begun \in Nat
      /\ hist.outside \in SUBSET Pieces /\ hist.work \in SUBSET Pieces
      /\ hist.outside \subseteq 1..hist.made
  BY BoundAssumption DEF TypeOK, Made
<1>5. ws.tree \in SUBSET Pieces /\ ws.commits \in SUBSET Pieces
      /\ ws.lease \in {Absent} \cup (SUBSET Pieces) /\ ws.squashed \in BOOLEAN
  BY DEF TypeOK
<1>6. left(put) => piece \in Pieces /\ piece \in 1..MaxPieces
  BY <1>1 DEF Pieces
<1>7. ws' \in [tree : SUBSET Pieces, commits : SUBSET Pieces,
               lease : {Absent} \cup (SUBSET Pieces), squashed : BOOLEAN]
  <2>1. added(put, "tree") \subseteq Pieces /\ added(put, "commits") \subseteq Pieces
    BY <1>6
  <2> HIDE DEF added
  <2> QED
    BY <1>2, <1>5, <2>1
<1>8. hist' \in [made : 0..MaxPieces, outside : SUBSET Pieces, work : SUBSET Pieces, begun : Nat]
  <2>1. (IF left(put) THEN piece ELSE hist.made) \in 0..MaxPieces
    BY <1>4, <1>6
  <2>2. (IF outside THEN hist.outside \cup {piece} ELSE hist.outside) \in SUBSET Pieces
    BY <1>1, <1>4, <1>6
  <2>3. (IF left(put) THEN hist.work \cup {piece} ELSE hist.work) \in SUBSET Pieces
    BY <1>4, <1>6
  <2>4. (IF began THEN hist.begun + 1 ELSE hist.begun) \in Nat
    BY <1>4
  <2> HIDE DEF left, piece
  <2> QED
    BY <1>3, <2>1, <2>2, <2>3, <2>4
<1>9. hist'.outside \subseteq 1..hist'.made
  <2>1. CASE left(put)
    BY <1>3, <1>4, <2>1
  <2>2. CASE ~left(put)
    BY <1>1, <1>3, <1>4, <2>2
  <2> QED
    BY <2>1, <2>2
<1>10. hist'.work \ hist.work \subseteq ws'.tree \cup ws'.commits
  BY <1>2, <1>3
<1>11. /\ ws'.lease = ws.lease /\ ws'.squashed = ws.squashed
       /\ ws.tree \subseteq ws'.tree /\ ws.commits \subseteq ws'.commits
  BY <1>2
<1> QED
  BY <1>1, <1>3, <1>7, <1>8, <1>9, <1>10, <1>11

LEMMA CallFacts ==
  ASSUME TypeOK, Call
  PROVE  \E r \in Results :
           /\ result' = Result(r)
           /\ pc = "switched" => r.code = "none"
           /\ Leave(r.began)
  BY DEF Call

\* The two steps that run the request on a backend.
LEMMA BackendFacts ==
  ASSUME TypeOK, Switch \/ Call
  PROVE  /\ ws'.lease = ws.lease
         /\ ws.tree \subseteq ws'.tree /\ ws.commits \subseteq ws'.commits
         /\ hist'.work \ hist.work \subseteq ws'.tree \cup ws'.commits
         /\ ws' \in [tree : SUBSET Pieces, commits : SUBSET Pieces,
                     lease : {Absent} \cup (SUBSET Pieces), squashed : BOOLEAN]
         /\ hist' \in [made : 0..MaxPieces, outside : SUBSET Pieces, work : SUBSET Pieces,
                       begun : Nat]
         /\ hist'.outside \subseteq 1..hist'.made
<1>1. CASE Switch
  <2>1. Leave(TRUE)
    BY <1>1 DEF Switch
  <2> QED
    BY <2>1, LeaveFacts
<1>2. CASE Call
  <2>1. PICK r \in Results : Leave(r.began)
    BY <1>2, CallFacts
  <2> QED
    BY <2>1, LeaveFacts
<1> QED
  BY <1>1, <1>2

\* A commit moves the tree into the branch.
LEMMA CommitFacts ==
  ASSUME TypeOK, Commit
  PROVE  /\ ws'.tree = {} /\ ws'.commits = ws.commits \cup ws.tree /\ ws'.lease = ws.lease
         /\ ws' \in [tree : SUBSET Pieces, commits : SUBSET Pieces,
                     lease : {Absent} \cup (SUBSET Pieces), squashed : BOOLEAN]
<1>1. PICK q \in BOOLEAN :
        ws' = [ws EXCEPT !.tree = {}, !.commits = @ \cup ws.tree, !.squashed = q]
  BY DEF Commit
<1>2. ws' = [tree |-> {}, commits |-> ws.commits \cup ws.tree, lease |-> ws.lease, squashed |-> q]
  BY <1>1, Fields
<1>3. ws.tree \in SUBSET Pieces /\ ws.commits \in SUBSET Pieces
      /\ ws.lease \in {Absent} \cup (SUBSET Pieces)
  BY DEF TypeOK
<1> QED
  BY <1>2, <1>3

LEMMA LeasedStep == ASSUME TypeOK, Leased, [Next]_vars PROVE Leased'
<1>1. CASE Prepare
  BY <1>1 DEF Prepare, Leased, FreshWs, OnRemote
<1>2. CASE Switch \/ Call
  BY <1>2, BackendFacts DEF Leased
<1>3. CASE Commit
  BY <1>3, CommitFacts DEF Leased
<1>4. CASE Emit \/ Kill
  BY <1>4 DEF Emit, Kill, Gone, FreshWs, Leased
<1>5. CASE ws' = ws
  BY <1>5 DEF Leased
<1> QED
  BY <1>1, <1>2, <1>3, <1>4, <1>5, Frames

LEMMA RemoteStep ==
  ASSUME TypeOK, Leased, [Next]_vars
  PROVE  OnRemote \subseteq OnRemote' /\ (remote' = ws.commits => OnRemote' = ws.commits)
<1>0. ws.commits \in SUBSET Pieces /\ ws.commits # Absent
  BY AbsentAssumption DEF TypeOK
<1>1. CASE Push \/ PushFails
  BY <1>0, <1>1 DEF Push, PushFails, Pushable, Leased, OnRemote
<1>2. CASE OtherPush
  <2>1. hist.made \in Nat /\ hist.made < MaxPieces /\ MaxPieces \in Nat
    <3>1. hist.made \in 0..MaxPieces
      BY DEF TypeOK
    <3>2. hist.made < MaxPieces
      BY <1>2 DEF OtherPush
    <3> QED
      BY <3>1, <3>2, BoundAssumption
  <2>2. OnRemote \cup {hist.made + 1} \in SUBSET Pieces
    <3>1. OnRemote \in SUBSET Pieces
      BY DEF TypeOK, OnRemote
    <3>2. hist.made + 1 \in Pieces
      BY <2>1 DEF Pieces
    <3> QED
      BY <3>1, <3>2
  <2>3. remote' = OnRemote \cup {hist.made + 1} /\ remote' # Absent
    BY <1>2, <2>2, AbsentAssumption DEF OtherPush
  <2> QED
    BY <2>3 DEF OnRemote
<1>3. CASE remote' = remote
  BY <1>0, <1>3 DEF OnRemote
<1> QED
  BY <1>1, <1>2, <1>3, Frames

----------------------------------------------------------------------------
(* The results.                                                            *)

LEMMA NoResultFacts == NoResult \in ResultType /\ ~NoResult.pushed /\ ~NoResult.ok
  BY DEF NoResult, ResultType, Categories, Codes

LEMMA FailureFacts ==
  ASSUME NEW c \in Categories
  PROVE  /\ Failure(c) \in ResultType /\ ~Failure(c).pushed /\ ~Failure(c).ok
         /\ Failure(c).cat = c
  BY NoResultFacts DEF Failure, ResultType

LEMMA AnswerFacts ==
  ASSUME NEW r \in Results
  PROVE  Result(r) \in ResultType /\ ~Result(r).pushed /\ Result(r).code = r.code
<1>1. /\ r.ok \in BOOLEAN /\ r.cat \in Categories /\ r.code \in Codes /\ r.after \in Nat
      /\ r.killed \in BOOLEAN /\ r.net \in BOOLEAN
  BY ResultAssumption
<1> QED
  BY <1>1, NoResultFacts DEF Result, ResultType

LEMMA ResultFields ==
  ASSUME NEW r \in ResultType
  PROVE  /\ r = [ok |-> r.ok, cat |-> r.cat, code |-> r.code, after |-> r.after,
                 killed |-> r.killed, net |-> r.net, pushed |-> r.pushed]
         /\ r.ok \in BOOLEAN /\ r.cat \in Categories /\ r.code \in Codes /\ r.after \in Nat
         /\ r.killed \in BOOLEAN /\ r.net \in BOOLEAN /\ r.pushed \in BOOLEAN
  BY DEF ResultType

\* What finalize makes of a result.
LEMMA FinalizedFacts ==
  ASSUME NEW r \in ResultType, NEW c \in Categories
  PROVE  /\ [r EXCEPT !.cat = c] \in ResultType /\ [r EXCEPT !.cat = c].pushed = r.pushed
         /\ [r EXCEPT !.ok = FALSE, !.cat = c] \in ResultType
         /\ [r EXCEPT !.ok = FALSE, !.cat = c].pushed = r.pushed
  BY ResultFields DEF ResultType

\* What a failed network or a failed push makes of it.
LEMMA NetFacts ==
  ASSUME NEW r \in ResultType, NEW net \in BOOLEAN
  PROVE  /\ [r EXCEPT !.net = net] \in ResultType /\ [r EXCEPT !.net = net].pushed = r.pushed
         /\ PushFailed(r, net) \in ResultType /\ PushFailed(r, net).pushed = r.pushed
<1>1. [r EXCEPT !.net = net] \in ResultType /\ [r EXCEPT !.net = net].pushed = r.pushed
  BY ResultFields DEF ResultType
<1>2. PushFailed(r, net) \in ResultType /\ PushFailed(r, net).pushed = r.pushed
  BY ResultFields DEF PushFailed, ResultType, Categories, Codes
<1> QED
  BY <1>1, <1>2

\* What a push and the report make of it.
LEMMA PushedFacts ==
  ASSUME NEW r \in ResultType
  PROVE  /\ Pushed(r) \in ResultType /\ Pushed(r).ok = r.ok
         /\ Reported(r) \in ResultType /\ Reported(r).ok = r.ok /\ Reported(r).pushed = r.pushed
<1>1. Pushed(r) \in ResultType /\ Pushed(r).ok = r.ok
  BY ResultFields DEF ResultType, Pushed
<1>2. Reported(r) \in ResultType /\ Reported(r).ok = r.ok /\ Reported(r).pushed = r.pushed
  BY ResultFields, NoResultFacts DEF Reported, ResultType
<1> QED
  BY <1>1, <1>2

----------------------------------------------------------------------------
(* The recovery loop.                                                      *)

\* Only these steps enter or stay in the loop.
LEMMA LoopFrame ==
  ASSUME [Next]_vars
  PROVE  \/ Dispatch \/ Retry \/ Prepare \/ Switch \/ Call \/ Decide
         \/ OtherPush
         \/ UNCHANGED vars
         \/ pc' \notin {"start", "call", "switched", "evaluate"} /\ hist' = hist
<1>1. CASE Refuse \/ EngineRaises \/ Book \/ BookRaises
  BY <1>1 DEF Refuse, EngineRaises, Book, BookRaises
<1>2. CASE Unpushed
  BY <1>2 DEF Unpushed, FinalizeSkips, FinalizeRaises, Oversized, PatchBlocked, NothingToPush,
              CustodianBlocks, Finalized
<1>3. CASE Commit \/ Push \/ PushFails \/ Emit \/ Kill
  BY <1>3 DEF Commit, Push, PushFails, Emit, Kill, Gone
<1>4. CASE ReadNothing \/ DispatchRaises \/ VerifyFails \/ Succeed \/ Fail
  BY <1>4 DEF ReadNothing, DispatchRaises, VerifyFails, Succeed, Fail, Settle, Over
<1>5. CASE Read \/ Verify
  BY <1>5 DEF Read, Verify
<1> QED
  BY <1>1, <1>2, <1>3, <1>4, <1>5 DEF Next, Executor, Worker, Unpushed

\* What the loop does with an answer.
LEMMA DecideFacts ==
  ASSUME TypeOK, Counted, Decide
  PROVE  /\ pc = "evaluate" /\ pc' \in {"call", "book"} /\ hist' = hist
         /\ \E decision \in Decisions, kind \in Kinds, delay \in Nat :
              /\ loop'.trail = Append(loop.trail,
                   [attempt |-> loop.attempt, kind |-> kind, decision |-> decision,
                    delay |-> delay, request |-> loop.request])
              /\ delay <= cfg.maxDelay
              /\ pc' = "call" =>
                   /\ decision \in Retries /\ loop.attempt < cfg.attempts
                   /\ ~cfg.idempotent => result.code = "backend_unavailable"
                   /\ loop'.attempt = loop.attempt + 1
              /\ pc' = "book" =>
                   /\ loop'.attempt = loop.attempt
                   /\ decision = "accept" <=> result'.ok
                   /\ decision \in Retries => result'.cat = "policy_blocked"
              /\ result' \in ResultType /\ (result.pushed \/ ~result'.pushed)
              /\ loop' \in [attempt : 0..(cfg.attempts + 1), request : Nat,
                            trail : Seq(EntryType)]
<1> DEFINE answer == Evaluate(cfg, result, loop.attempt, loop.trail)
           again == answer.decision \in Retries
           changed == answer.decision = "retry_modified_request"
           slept == IF again THEN BoundedSleep(answer.delay) ELSE 0
           entry == Entry(Classify(result), answer.decision, slept)
           noted == [loop EXCEPT !.trail = Append(@, entry)]
           next == [noted EXCEPT !.request = IF changed THEN @ + 1 ELSE @]
<1>1. /\ cfg \in Policies /\ cfg.attempts \in Nat \ {0} /\ cfg.idempotent \in BOOLEAN
      /\ cfg.maxDelay \in Nat
  BY PolicyAssumption DEF TypeOK
<1>2. pc = "evaluate" /\ loop.attempt \in 1..cfg.attempts /\ hist' = hist
  BY DEF Decide, Counted
<1>3. /\ result \in ResultType /\ loop.request \in Nat
      /\ loop.trail \in Seq(EntryType)
  BY DEF TypeOK
<1>4. answer.decision \in Decisions /\ answer.delay \in Nat /\ Classify(result) \in Kinds
  BY <1>3, EvaluateType
<1>5. again => ~result.ok /\ loop.attempt < cfg.attempts
               /\ (~cfg.idempotent => result.code = "backend_unavailable")
  <2>1. loop.attempt \in Nat /\ cfg.attempts \in Nat
    BY <1>1, <1>2
  <2> QED
    BY <1>1, <1>3, <2>1, EvaluateRetries
<1>6. answer.decision = "accept" <=> result.ok
  BY <1>3, EvaluateAccepts
<1>7. changed => again
  BY DEF Retries
<1> HIDE DEF answer
<1>8. slept \in Nat /\ slept <= cfg.maxDelay
  BY <1>1, <1>4 DEF BoundedSleep
<1> HIDE DEF slept
<1>9. entry = [attempt |-> loop.attempt, kind |-> Classify(result), decision |-> answer.decision,
               delay |-> slept, request |-> loop.request]
  BY DEF Entry
<1>10. entry \in EntryType
  BY <1>1, <1>2, <1>3, <1>4, <1>8, <1>9 DEF EntryType
<1> HIDE DEF entry
<1>11. Append(loop.trail, entry) \in Seq(EntryType)
  BY <1>3, <1>10
<1>12. noted = [attempt |-> loop.attempt, request |-> loop.request,
                trail |-> Append(loop.trail, entry)]
  BY Fields
<1>13. next = [attempt |-> loop.attempt,
               request |-> IF changed THEN loop.request + 1 ELSE loop.request, trail |-> Append(loop.trail, entry)]
  <2> HIDE DEF noted, changed
  <2>1. /\ noted = [attempt |-> noted.attempt, request |-> noted.request, trail |-> noted.trail]
        /\ noted.attempt = loop.attempt /\ noted.request = loop.request
        /\ noted.trail = Append(loop.trail, entry)
    BY <1>12
  <2>2. next = [attempt |-> noted.attempt,
                request |-> IF changed THEN noted.request + 1 ELSE noted.request, trail |-> noted.trail]
    BY <2>1
  <2> QED
    BY <2>1, <2>2
<1>14. /\ loop.attempt \in 0..(cfg.attempts + 1) /\ loop.attempt + 1 \in 0..(cfg.attempts + 1)
       /\ (IF changed THEN loop.request + 1 ELSE loop.request) \in Nat
  BY <1>1, <1>2, <1>3
<1>15. \/ ~again /\ loop' = noted /\ pc' = "book" /\ result' = result
       \/ /\ again
          /\ loop' = [next EXCEPT !.attempt = @ + 1]
          /\ pc' = IF loop.attempt < cfg.attempts THEN "call" ELSE "book"
          /\ result' = result
       \/ changed /\ loop' = next /\ result' = Failure("policy_blocked") /\ pc' = "book"
  BY DEF Decide, answer, slept, entry
<1> HIDE DEF again, changed
<1>16. CASE ~again /\ loop' = noted /\ pc' = "book" /\ result' = result
  <2>1. loop' \in [attempt : 0..(cfg.attempts + 1), request : Nat,
                   trail : Seq(EntryType)]
    BY <1>3, <1>11, <1>12, <1>14, <1>16
  <2>2. loop'.trail = Append(loop.trail, entry) /\ loop'.attempt = loop.attempt
    BY <1>12, <1>16
  <2> QED
    BY <1>2, <1>3, <1>4, <1>6, <1>8, <1>9, <1>16, <2>1, <2>2 DEF again
<1>17. CASE /\ again
            /\ loop' = [next EXCEPT !.attempt = @ + 1]
            /\ pc' = IF loop.attempt < cfg.attempts THEN "call" ELSE "book"
            /\ result' = result
  <2>1. pc' = "call"
    BY <1>5, <1>17
  <2>2. loop' = [attempt |-> loop.attempt + 1, request |-> next.request,
                 trail |-> Append(loop.trail, entry)]
    BY <1>13, <1>17
  <2>3. next.request \in Nat
    BY <1>13, <1>14
  <2> HIDE DEF next
  <2>4. loop' \in [attempt : 0..(cfg.attempts + 1), request : Nat,
                   trail : Seq(EntryType)]
    BY <1>3, <1>11, <1>14, <2>2, <2>3
  <2>5. /\ loop'.trail = Append(loop.trail, entry) /\ loop'.attempt = loop.attempt + 1
    BY <2>2
  <2> QED
    BY <1>2, <1>3, <1>4, <1>5, <1>8, <1>9, <1>17, <2>1, <2>4, <2>5 DEF again
<1>18. CASE changed /\ loop' = next /\ result' = Failure("policy_blocked") /\ pc' = "book"
  <2>1. loop' \in [attempt : 0..(cfg.attempts + 1), request : Nat,
                   trail : Seq(EntryType)]
    BY <1>3, <1>11, <1>13, <1>14, <1>18
  <2>2. loop'.trail = Append(loop.trail, entry) /\ loop'.attempt = loop.attempt
    BY <1>13, <1>18
  <2>3. "policy_blocked" \in Categories
    BY DEF Categories
  <2>4. /\ result' \in ResultType /\ ~result'.pushed /\ ~result'.ok
        /\ result'.cat = "policy_blocked"
    BY <1>18, <2>3, FailureFacts
  <2>5. answer.decision # "accept"
    BY <1>18 DEF changed
  <2> QED
    BY <1>2, <1>4, <1>8, <1>9, <1>18, <2>1, <2>2, <2>4, <2>5
<1> QED
  BY <1>15, <1>16, <1>17, <1>18

\* The other writes of the history keep the pieces and what has begun.
LEMMA HistFacts ==
  ASSUME TypeOK, [Next]_vars, ~Switch, ~Call
  PROVE  /\ hist'.outside = hist.outside
         /\ \/ (Dispatch \/ Retry) /\ hist'.work = {} /\ hist'.begun = 0
            \/ (~Dispatch /\ ~Retry) /\ hist'.work = hist.work /\ hist'.begun = hist.begun
         /\ hist' \in [made : 0..MaxPieces, outside : SUBSET Pieces, work : SUBSET Pieces,
                       begun : Nat]
         /\ hist.made \in Nat /\ hist'.made \in Nat /\ hist.made <= hist'.made
<1>0. /\ hist.made \in 0..MaxPieces /\ MaxPieces \in Nat /\ hist.begun \in Nat
      /\ hist.outside \in SUBSET Pieces /\ hist.work \in SUBSET Pieces
      /\ hist \in [made : 0..MaxPieces, outside : SUBSET Pieces, work : SUBSET Pieces, begun : Nat]
  BY BoundAssumption DEF TypeOK
<1>1. CASE Dispatch \/ Retry
  <2>1. hist' = [hist EXCEPT !.begun = 0, !.work = {}]
    BY <1>1 DEF Dispatch, Retry
  <2>2. hist' = [made |-> hist.made, outside |-> hist.outside, work |-> {}, begun |-> 0]
    BY <2>1, Fields
  <2> QED
    BY <1>0, <1>1, <2>2
<1>2. CASE OtherPush
  <2>1. hist' = [hist EXCEPT !.made = @ + 1] /\ hist.made < MaxPieces /\ pc' = pc
    BY <1>2 DEF OtherPush
  <2>2. hist' = [made |-> hist.made + 1, outside |-> hist.outside, work |-> hist.work,
                 begun |-> hist.begun]
    BY <2>1, Fields
  <2>3. ~Dispatch /\ ~Retry
    BY <2>1 DEF Dispatch, Retry
  <2> QED
    BY <1>0, <2>1, <2>2, <2>3
<1>3. CASE hist' = hist /\ ~Dispatch /\ ~Retry
  BY <1>0, <1>3
<1> QED
  BY <1>1, <1>2, <1>3, Frames

LEMMA UnbegunStep ==
  ASSUME TypeOK, Unbegun, Counted, [Next]_vars
  PROVE  Unbegun'
<1>0. cfg' = cfg /\ hist.begun \in Nat
  BY Frames DEF TypeOK
<1>1. CASE Call
  <2>1. PICK r \in Results :
          /\ result' = Result(r)
          /\ pc = "switched" => r.code = "none"
          /\ Leave(r.began)
    BY <1>1, CallFacts
  <2>2. result'.code = r.code /\ (r.code = "backend_unavailable" => ~r.began)
    BY <2>1, AnswerFacts, AdapterContract
  <2>3. pc \in {"call", "switched"} /\ pc' = "evaluate"
    BY <1>1 DEF Call
  <2>4. hist'.begun = IF r.began THEN hist.begun + 1 ELSE hist.begun
    BY <2>1, LeaveFacts
  <2> QED
    BY <1>0, <2>1, <2>2, <2>3, <2>4 DEF Unbegun
<1>8. CASE Switch
  <2>1. hist'.begun = hist.begun + 1
    BY <1>8, LeaveFacts DEF Switch
  <2>2. pc = "call" /\ pc' = "switched" /\ cfg.switches
    BY <1>8 DEF Switch
  <2> QED
    BY <1>0, <2>1, <2>2 DEF Unbegun
<1>2. CASE Dispatch \/ Retry
  <2>1. ~Switch /\ ~Call
    BY <1>2 DEF Dispatch, Retry, Switch, Call
  <2>2. hist'.begun = 0 /\ pc' = "start"
    BY <1>2, <2>1, HistFacts DEF Dispatch, Retry
  <2> QED
    BY <2>2 DEF Unbegun
<1>3. CASE Decide
  <2>1. pc = "evaluate" /\ pc' \in {"call", "book"} /\ hist' = hist
    BY <1>3, DecideFacts
  <2>2. pc' = "call" /\ ~cfg.idempotent => result.code = "backend_unavailable"
    BY <1>3, DecideFacts
  <2> QED
    BY <1>0, <2>1, <2>2 DEF Unbegun
<1>4. CASE Prepare
  BY <1>0, <1>4 DEF Prepare, Unbegun
<1>5. CASE OtherPush
  <2>1. hist'.begun = hist.begun
    BY <1>5, HistFacts DEF OtherPush, Switch, Call, Dispatch, Retry
  <2> QED
    BY <1>0, <1>5, <2>1 DEF OtherPush, Unbegun
<1>6. CASE UNCHANGED vars
  BY <1>6 DEF vars, Unbegun
<1>7. CASE pc' \notin {"start", "call", "switched", "evaluate"} /\ hist' = hist
  BY <1>0, <1>7 DEF Unbegun
<1> QED
  BY <1>1, <1>2, <1>3, <1>4, <1>5, <1>6, <1>7, <1>8, LoopFrame

LEMMA AppendFacts ==
  ASSUME NEW S, NEW seq \in Seq(S), NEW e \in S
  PROVE  /\ Len(Append(seq, e)) = Len(seq) + 1
         /\ Append(seq, e)[Len(seq) + 1] = e
         /\ \A i \in 1..Len(seq) : Append(seq, e)[i] = seq[i]
  OBVIOUS

\* An engine that raises is noted like a decision.
LEMMA EngineRaisesFacts ==
  ASSUME TypeOK, Counted, EngineRaises
  PROVE  /\ pc = "evaluate" /\ pc' = "book"
         /\ loop'.trail = Append(loop.trail,
              [attempt |-> loop.attempt, kind |-> "unknown", decision |-> "reject_unrecoverable",
               delay |-> 0, request |-> loop.request])
         /\ loop'.attempt = loop.attempt
         /\ result' \in ResultType /\ ~result'.ok /\ ~result'.pushed
         /\ loop' \in [attempt : 0..(cfg.attempts + 1), request : Nat,
                       trail : Seq(EntryType)]
<1> DEFINE entry == Entry("unknown", "reject_unrecoverable", 0)
<1>1. /\ pc = "evaluate" /\ pc' = "book" /\ result' = Failure("backend_error")
      /\ loop' = [loop EXCEPT !.trail = Append(@, entry)]
  BY DEF EngineRaises
<1>2. /\ loop.request \in Nat /\ loop.trail \in Seq(EntryType)
      /\ loop.attempt \in 0..(cfg.attempts + 1) /\ cfg.attempts \in Nat
  BY PolicyAssumption DEF TypeOK
<1>3. entry = [attempt |-> loop.attempt, kind |-> "unknown", decision |-> "reject_unrecoverable",
               delay |-> 0, request |-> loop.request]
  BY DEF Entry
<1>4. entry \in EntryType
  BY <1>2, <1>3 DEF EntryType, Kinds, Decisions
<1> HIDE DEF entry
<1>5. loop' = [attempt |-> loop.attempt, request |-> loop.request,
               trail |-> Append(loop.trail, entry)]
  BY <1>1, Fields
<1>6. Append(loop.trail, entry) \in Seq(EntryType)
  BY <1>2, <1>4
<1>7. loop' \in [attempt : 0..(cfg.attempts + 1), request : Nat,
                 trail : Seq(EntryType)]
  BY <1>2, <1>5, <1>6
<1>8. loop'.trail = Append(loop.trail, entry) /\ loop'.attempt = loop.attempt
  BY <1>5
<1>9. "backend_error" \in Categories
  BY DEF Categories
<1> QED
  BY <1>1, <1>3, <1>7, <1>8, <1>9, FailureFacts

LEMMA LoopTypes ==
  ASSUME TypeOK
  PROVE  /\ cfg.attempts \in Nat \ {0} /\ cfg.maxDelay \in Nat
         /\ loop.attempt \in Nat /\ loop.request \in Nat /\ loop.trail \in Seq(EntryType)
<1>1. cfg.attempts \in Nat \ {0} /\ cfg.maxDelay \in Nat
  BY PolicyAssumption DEF TypeOK
<1>2. /\ loop.attempt \in 0..(cfg.attempts + 1) /\ loop.request \in Nat
      /\ loop.trail \in Seq(EntryType)
  BY DEF TypeOK
<1> QED
  BY <1>1, <1>2

LEMMA CountedStep ==
  ASSUME TypeOK, Counted, [Next]_vars
  PROVE  Counted'
<1>0. cfg' = cfg /\ cfg.attempts \in Nat \ {0}
  BY Frames, PolicyAssumption DEF TypeOK
<1>1. CASE Switch \/ Call \/ Dispatch \/ Retry \/ OtherPush \/ UNCHANGED vars
  BY <1>0, <1>1 DEF Switch, Call, Dispatch, Retry, OtherPush, vars, Counted
<1>2. CASE Prepare
  <2>1. loop' = [FreshLoop EXCEPT !.attempt = 1]
    BY <1>2 DEF Prepare
  <2>2. loop'.attempt = 1 /\ loop'.trail = <<>>
    BY <2>1 DEF FreshLoop
  <2> QED
    BY <1>0, <2>2 DEF Counted
<1>3. CASE Decide
  <2>0. loop.trail \in Seq(EntryType) /\ loop.attempt \in Nat /\ loop.request \in Nat
    BY LoopTypes
  <2>1. PICK decision \in Decisions, kind \in Kinds, delay \in Nat :
          /\ loop'.trail = Append(loop.trail,
               [attempt |-> loop.attempt, kind |-> kind, decision |-> decision,
                delay |-> delay, request |-> loop.request])
          /\ pc' = "call" =>
               /\ decision \in Retries /\ loop.attempt < cfg.attempts
               /\ loop'.attempt = loop.attempt + 1
    BY <1>3, DecideFacts
  <2> DEFINE entry == [attempt |-> loop.attempt, kind |-> kind, decision |-> decision,
                       delay |-> delay, request |-> loop.request]
  <2>2. entry \in EntryType /\ entry.decision = decision
    BY <2>0 DEF EntryType
  <2> HIDE DEF entry
  <2>3. /\ Len(loop'.trail) = Len(loop.trail) + 1 /\ Len(loop.trail) \in Nat
        /\ loop'.trail[Len(loop.trail) + 1] = entry
        /\ \A i \in 1..Len(loop.trail) : loop'.trail[i] = loop.trail[i]
    BY <2>0, <2>1, <2>2, AppendFacts DEF entry
  <2>4. pc = "evaluate" /\ pc' \in {"call", "book"}
    BY <1>3, DecideFacts
  <2>5. /\ loop.attempt \in 1..cfg.attempts /\ Len(loop.trail) = loop.attempt - 1
        /\ \A i \in 1..Len(loop.trail) : loop.trail[i].decision \in Retries
    BY <2>4 DEF Counted
  <2>6. SUFFICES ASSUME pc' = "call" PROVE Counted'
    BY <2>4 DEF Counted
  <2>7. loop'.attempt \in 1..cfg.attempts /\ Len(loop'.trail) = loop'.attempt - 1
    BY <1>0, <2>0, <2>1, <2>3, <2>5, <2>6
  <2>8. ASSUME NEW i \in 1..Len(loop'.trail) PROVE loop'.trail[i].decision \in Retries
    <3>1. CASE i = Len(loop.trail) + 1
      BY <2>1, <2>2, <2>3, <2>6, <3>1
    <3>2. CASE i # Len(loop.trail) + 1
      <4>1. i \in 1..Len(loop.trail)
        BY <2>3, <3>2
      <4> QED
        BY <2>3, <2>5, <4>1
    <3> QED
      BY <3>1, <3>2
  <2> QED
    BY <1>0, <2>7, <2>8 DEF Counted
<1>4. CASE pc' \notin {"start", "call", "switched", "evaluate"}
  BY <1>4 DEF Counted
<1> QED
  BY <1>1, <1>2, <1>3, <1>4, LoopFrame

\* Only the loop books a result.
LEMMA BookFrame ==
  ASSUME [Next]_vars
  PROVE  \/ Decide \/ EngineRaises
         \/ pc' # "book"
         \/ pc' = pc /\ result' = result
<1>1. CASE Dispatch \/ Refuse \/ Prepare \/ Switch \/ Call \/ Book \/ BookRaises
  BY <1>1 DEF Dispatch, Refuse, Prepare, Switch, Call, Book, BookRaises
<1>2. CASE Unpushed
  BY <1>2 DEF Unpushed, FinalizeSkips, FinalizeRaises, Oversized, PatchBlocked, NothingToPush,
              CustodianBlocks, Finalized
<1>3. CASE Commit \/ Push \/ PushFails \/ Emit \/ Kill
  BY <1>3 DEF Commit, Push, PushFails, Emit, Kill, Gone
<1>4. CASE ReadNothing \/ DispatchRaises \/ VerifyFails \/ Succeed \/ Fail
  BY <1>4 DEF ReadNothing, DispatchRaises, VerifyFails, Succeed, Fail, Settle, Over
<1>5. CASE Retry \/ Read \/ Verify \/ OtherPush
  BY <1>5 DEF Retry, Read, Verify, OtherPush
<1>6. CASE UNCHANGED vars
  BY <1>6 DEF vars
<1> QED
  BY <1>1, <1>2, <1>3, <1>4, <1>5, <1>6 DEF Next, Executor, Worker, Unpushed

\* A noted decision extends a trail that tells.
LEMMA Noted ==
  ASSUME TypeOK, Counted, TrailTells, pc = "evaluate", cfg' = cfg, pc' \in {"call", "book"},
         NEW entry \in EntryType,
         entry.attempt = loop.attempt, entry.delay <= cfg.maxDelay,
         loop'.trail = Append(loop.trail, entry),
         pc' = "book" =>
           /\ loop'.attempt = loop.attempt
           /\ entry.decision = "accept" <=> result'.ok
           /\ entry.decision \in Retries => result'.cat = "policy_blocked"
  PROVE  TrailTells'
<1>1. /\ loop.trail \in Seq(EntryType) /\ loop.attempt \in 1..cfg.attempts
      /\ Len(loop.trail) = loop.attempt - 1 /\ cfg.attempts \in Nat
      /\ \A i \in 1..Len(loop.trail) : loop.trail[i].decision \in Retries
  BY PolicyAssumption DEF TypeOK, Counted
<1>2. /\ Len(loop'.trail) = Len(loop.trail) + 1
      /\ loop'.trail[Len(loop.trail) + 1] = entry
      /\ \A i \in 1..Len(loop.trail) : loop'.trail[i] = loop.trail[i]
  BY <1>1, AppendFacts
<1>3. Len(loop'.trail) = loop.attempt /\ loop'.trail[loop.attempt] = entry
  BY <1>1, <1>2
<1>4. ASSUME NEW i \in 1..Len(loop'.trail)
      PROVE  /\ loop'.trail[i].attempt = i
             /\ loop'.trail[i].delay <= cfg.maxDelay
             /\ i < Len(loop'.trail) => loop'.trail[i].decision \in Retries
  <2>1. CASE i = loop.attempt
    BY <1>3, <2>1
  <2>2. CASE i # loop.attempt
    <3>1. i \in 1..Len(loop.trail)
      BY <1>1, <1>3, <2>2
    <3>2. loop'.trail[i] = loop.trail[i]
      BY <1>2, <3>1
    <3>3. loop.trail[i].attempt = i /\ loop.trail[i].delay <= cfg.maxDelay
      BY <3>1 DEF TrailTells
    <3> QED
      BY <1>1, <3>1, <3>2, <3>3
  <2> QED
    BY <2>1, <2>2
<1> QED
  BY <1>1, <1>3, <1>4 DEF TrailTells

LEMMA TrailStep ==
  ASSUME TypeOK, Counted, TrailTells, [Next]_vars
  PROVE  TrailTells'
<1>0. /\ cfg' = cfg /\ cfg.attempts \in Nat \ {0} /\ cfg.maxDelay \in Nat
      /\ loop.attempt \in Nat /\ loop.request \in Nat
  BY Frames, LoopTypes
<1>1. CASE Prepare \/ Emit \/ Kill
  <2>1. loop' = FreshLoop \/ loop' = [FreshLoop EXCEPT !.attempt = 1]
    BY <1>1 DEF Prepare, Emit, Kill, Gone
  <2>2. loop'.trail = <<>>
    BY <2>1 DEF FreshLoop
  <2>3. pc' # "book"
    BY <1>1 DEF Prepare, Emit, Kill, Gone
  <2> QED
    BY <1>0, <2>2, <2>3 DEF TrailTells
<1>2. CASE Decide
  <2>1. PICK decision \in Decisions, kind \in Kinds, delay \in Nat :
          /\ loop'.trail = Append(loop.trail,
               [attempt |-> loop.attempt, kind |-> kind, decision |-> decision,
                delay |-> delay, request |-> loop.request])
          /\ delay <= cfg.maxDelay
          /\ pc' = "book" =>
               /\ loop'.attempt = loop.attempt
               /\ decision = "accept" <=> result'.ok
               /\ decision \in Retries => result'.cat = "policy_blocked"
    BY <1>2, DecideFacts
  <2> DEFINE entry == [attempt |-> loop.attempt, kind |-> kind, decision |-> decision,
                       delay |-> delay, request |-> loop.request]
  <2>2. /\ entry \in EntryType /\ entry.decision = decision /\ entry.attempt = loop.attempt
        /\ entry.delay = delay
    BY <1>0 DEF EntryType
  <2>3. loop'.trail = Append(loop.trail, entry)
    BY <2>1
  <2> HIDE DEF entry
  <2>4. pc = "evaluate" /\ pc' \in {"call", "book"}
    BY <1>2, DecideFacts
  <2> QED
    BY <1>0, <2>1, <2>2, <2>3, <2>4, Noted
<1>3. CASE EngineRaises
  <2> DEFINE entry == [attempt |-> loop.attempt, kind |-> "unknown",
                       decision |-> "reject_unrecoverable", delay |-> 0,
                       request |-> loop.request]
  <2>1. /\ entry \in EntryType /\ entry.decision = "reject_unrecoverable"
        /\ entry.attempt = loop.attempt /\ entry.delay = 0
    BY <1>0 DEF EntryType, Kinds, Decisions
  <2>2. /\ pc = "evaluate" /\ pc' = "book" /\ loop'.trail = Append(loop.trail, entry)
        /\ loop'.attempt = loop.attempt /\ ~result'.ok
    BY <1>3, EngineRaisesFacts
  <2> HIDE DEF entry
  <2>3. entry.decision # "accept" /\ entry.decision \notin Retries /\ entry.delay <= cfg.maxDelay
    BY <1>0, <2>1 DEF Retries
  <2> QED
    BY <1>0, <2>1, <2>2, <2>3, Noted
<1>4. CASE ~Decide /\ ~EngineRaises /\ loop' = loop
  <2>1. pc' # "book" \/ (pc' = pc /\ result' = result)
    BY <1>4, BookFrame
  <2> QED
    BY <1>0, <1>4, <2>1 DEF TrailTells
<1> QED
  BY <1>1, <1>2, <1>3, <1>4, Frames

----------------------------------------------------------------------------
(* Where the work is.                                                      *)

LEMMA UnpushedFacts ==
  ASSUME TypeOK, Unpushed
  PROVE  /\ pc = "finalize" /\ pc' = "emit"
         /\ result' \in ResultType /\ result'.pushed = result.pushed
         /\ UNCHANGED <<cfg, dispatch, run, loop, file, first, ws, remote, hist, task>>
<1>0. result \in ResultType /\ "scope_too_wide" \in Categories /\ "policy_blocked" \in Categories
  BY DEF TypeOK, Categories
<1>1. \/ Finalized(result) \/ Finalized([result EXCEPT !.cat = "scope_too_wide"])
      \/ Finalized([result EXCEPT !.cat = "policy_blocked"])
      \/ Finalized([result EXCEPT !.ok = FALSE, !.cat = "policy_blocked"])
  BY DEF Unpushed, FinalizeSkips, FinalizeRaises, Oversized, PatchBlocked, NothingToPush,
         CustodianBlocks
<1>2. /\ pc' = "emit"
      /\ UNCHANGED <<cfg, dispatch, run, loop, file, first, ws, remote, hist, task>>
  BY <1>1 DEF Finalized
<1>3. \/ result' = result \/ result' = [result EXCEPT !.cat = "scope_too_wide"]
      \/ result' = [result EXCEPT !.cat = "policy_blocked"]
      \/ result' = [result EXCEPT !.ok = FALSE, !.cat = "policy_blocked"]
  BY <1>1 DEF Finalized
<1>4. result' \in ResultType /\ result'.pushed = result.pushed
  <2>1. CASE result' = result
    BY <1>0, <2>1
  <2>2. CASE result' = [result EXCEPT !.cat = "scope_too_wide"]
    BY <1>0, <2>2, FinalizedFacts
  <2>3. CASE result' = [result EXCEPT !.cat = "policy_blocked"]
    BY <1>0, <2>3, FinalizedFacts
  <2>4. CASE result' = [result EXCEPT !.ok = FALSE, !.cat = "policy_blocked"]
    BY <1>0, <2>4, FinalizedFacts
  <2> QED
    BY <1>3, <2>1, <2>2, <2>3, <2>4
<1>5. pc = "finalize"
  BY DEF Unpushed, FinalizeSkips, FinalizeRaises, Oversized, PatchBlocked, NothingToPush,
         CustodianBlocks
<1> QED
  BY <1>2, <1>4, <1>5

\* The steps of the worker that end a dispatch.
Ending == ReadNothing \/ DispatchRaises \/ VerifyFails \/ Succeed \/ Fail

LEMMA EndingFacts ==
  ASSUME TypeOK, Ending
  PROVE  /\ pc \in {"read", "verify", "outcome"} /\ pc' = "end"
         /\ Over
         /\ task' \in [state : {"Ready for AI", "Running", "Blocked", "In Review", "Done"},
                       claim : BOOLEAN]
         /\ task'.claim => (Succeed /\ result.pushed) \/ (task' = task)
<1>0. /\ task \in [state : {"Ready for AI", "Running", "Blocked", "In Review", "Done"},
                   claim : BOOLEAN]
      /\ result.pushed \in BOOLEAN
  BY DEF TypeOK, ResultType
<1>1. ASSUME NEW st \in {"Blocked", "In Review", "Done"}, NEW c \in BOOLEAN, Settle(st, c)
      PROVE  /\ task' \in [state : {"Ready for AI", "Running", "Blocked", "In Review", "Done"},
                           claim : BOOLEAN]
             /\ task'.claim => c /\ Over
  <2>1. task' = [state |-> st, claim |-> c] \/ task' = [task EXCEPT !.claim = FALSE]
    BY <1>1 DEF Settle
  <2>2. [state |-> st, claim |-> c] \in
          [state : {"Ready for AI", "Running", "Blocked", "In Review", "Done"}, claim : BOOLEAN]
    OBVIOUS
  <2>3. /\ [task EXCEPT !.claim = FALSE] \in
             [state : {"Ready for AI", "Running", "Blocked", "In Review", "Done"}, claim : BOOLEAN]
        /\ ~[task EXCEPT !.claim = FALSE].claim
    BY <1>0
  <2> QED
    BY <1>1, <2>1, <2>2, <2>3 DEF Settle
<1>2. CASE ReadNothing \/ VerifyFails \/ Fail
  BY <1>1, <1>2 DEF ReadNothing, VerifyFails, Fail, Settle, Over
<1>3. CASE DispatchRaises
  BY <1>0, <1>3 DEF DispatchRaises, Over
<1>4. CASE Succeed
  <2>1. Settle("In Review", result.pushed) \/ Settle("Done", result.pushed)
    BY <1>4 DEF Succeed
  <2> QED
    BY <1>0, <1>1, <1>4, <2>1 DEF Succeed, Settle, Over
<1> QED
  BY <1>2, <1>3, <1>4 DEF Ending

LEMMA CarriedStep ==
  ASSUME TypeOK, Leased, Counted, Carried, [Next]_vars
  PROVE  Carried'
<1>0. /\ OnRemote \subseteq OnRemote' /\ (remote' = ws.commits => OnRemote' = ws.commits)
      /\ result \in ResultType /\ first \in ResultType
  BY RemoteStep DEF TypeOK
<1>1. CASE Dispatch
  <2>1. hist'.work = {} /\ ~task'.claim
    BY <1>1, HistFacts DEF Dispatch, Switch, Call
  <2> QED
    BY <1>1, <2>1 DEF Dispatch, Carried
<1>2. CASE Refuse
  <2>1. PICK c \in {"policy_blocked", "budget_exhausted", "backend_error"}, net \in BOOLEAN :
          result' = [Failure(c) EXCEPT !.net = net]
    BY <1>2 DEF Refuse
  <2>2. c \in Categories
    BY DEF Categories
  <2>3. ~result'.pushed
    BY <2>1, <2>2, FailureFacts, NetFacts
  <2> QED
    BY <1>2, <2>3 DEF Refuse, Carried
<1>3. CASE Prepare
  BY <1>3 DEF Prepare, Carried
<1>4. CASE Call
  <2>1. PICK r \in Results : result' = Result(r)
    BY <1>4, CallFacts
  <2>2. ~result'.pushed
    BY <2>1, AnswerFacts
  <2>3. hist'.work \subseteq ws'.tree \cup ws'.commits
    BY <1>4, BackendFacts DEF Call, Carried
  <2> QED
    BY <1>4, <2>2, <2>3 DEF Call, Carried
<1>20. CASE Switch
  <2>1. hist'.work \subseteq ws'.tree \cup ws'.commits
    BY <1>20, BackendFacts DEF Switch, Carried
  <2> QED
    BY <1>20, <2>1 DEF Switch, Carried
<1>5. CASE Decide
  <2>1. /\ pc = "evaluate" /\ pc' \in {"call", "book"} /\ hist' = hist
        /\ (result.pushed \/ ~result'.pushed)
    BY <1>5, DecideFacts
  <2> QED
    BY <1>5, <2>1 DEF Decide, Carried
<1>6. CASE EngineRaises
  <2>1. ~result'.pushed
    BY <1>6, EngineRaisesFacts
  <2> QED
    BY <1>6, <2>1 DEF EngineRaises, Carried
<1>7. CASE Book \/ BookRaises
  BY <1>0, <1>7, NoResultFacts DEF Book, BookRaises, Carried
<1>8. CASE Unpushed
  BY <1>8, UnpushedFacts DEF Carried
<1>9. CASE Commit
  BY <1>9, CommitFacts DEF Commit, Carried
<1>10. CASE Push
  <2>1. result'.ok /\ hist'.work \subseteq OnRemote'
    BY <1>0, <1>10, PushedFacts DEF Push, Carried
  <2> QED
    BY <1>10, <2>1 DEF Push, Carried
<1>11. CASE PushFails
  <2>1. PICK net \in BOOLEAN : result' = PushFailed(result, net)
    BY <1>11 DEF PushFails
  <2>2. ~result'.pushed
    BY <1>0, <1>11, <2>1, NetFacts DEF PushFails, Carried
  <2> QED
    BY <1>11, <2>2 DEF PushFails, Carried
<1>12. CASE Emit
  <2>1. result'.ok = result.ok /\ result'.pushed = result.pushed
    BY <1>0, <1>12, PushedFacts DEF Emit
  <2> QED
    BY <1>0, <1>12, <2>1 DEF Emit, Gone, Carried
<1>13. CASE Kill
  BY <1>13, NoResultFacts DEF Kill, Gone, Executing, Carried
<1>14. CASE Ending
  BY <1>14, EndingFacts, NoResultFacts DEF Over, Carried
<1>15. CASE Retry
  <2>1. ~result.pushed
    BY <1>15 DEF Retry, TransientFailure, Carried
  <2>2. hist'.work = {}
    BY <1>15, HistFacts DEF Retry, Switch, Call
  <2> QED
    BY <1>15, <2>1, <2>2, NoResultFacts DEF Retry, Carried
<1>16. CASE Read
  <2>1. result' = first \/ result' = result
    BY <1>16 DEF Read, Outcome
  <2>2. pc' \in {"verify", "outcome"} /\ pc = "read"
    BY <1>16 DEF Read
  <2> QED
    BY <1>0, <1>16, <2>1, <2>2 DEF Read, Carried
<1>17. CASE Verify
  BY <1>0, <1>17 DEF Verify, Carried
<1>18. CASE OtherPush
  <2>1. hist'.work = hist.work
    BY <1>18, HistFacts DEF OtherPush, Switch, Call, Dispatch, Retry
  <2> QED
    BY <1>0, <1>18, <2>1 DEF OtherPush, Carried
<1>19. CASE UNCHANGED vars
  BY <1>19 DEF vars, Carried, OnRemote
<1> QED
  BY <1>1, <1>2, <1>3, <1>4, <1>5, <1>6, <1>7, <1>8, <1>9, <1>10, <1>11, <1>12, <1>13, <1>14,
     <1>15, <1>16, <1>17, <1>18, <1>19, <1>20
     DEF Next, Executor, Worker, Unpushed, Ending

\* A claim stands where it is made: at a success, or untouched.
LEMMA ClaimFrame ==
  ASSUME TypeOK, Carried, [Next]_vars, task'.claim
  PROVE  (Succeed /\ result.pushed) \/ (task' = task /\ (OtherPush \/ UNCHANGED vars))
<1>1. CASE Dispatch \/ Refuse \/ Prepare \/ Switch \/ Call
  <2>1. ASSUME Dispatch PROVE FALSE
    <3>1. task' = [state |-> "Running", claim |-> FALSE]
      BY <2>1 DEF Dispatch
    <3> QED
      BY <3>1
  <2>2. pc \in {"start", "call", "switched"} /\ task' = task
    BY <1>1, <2>1 DEF Refuse, Prepare, Switch, Call
  <2> QED
    BY <2>2 DEF Carried
<1>2. CASE Decide \/ EngineRaises \/ Book \/ BookRaises
  BY <1>2 DEF Decide, EngineRaises, Book, BookRaises, Carried
<1>3. CASE Unpushed
  BY <1>3, UnpushedFacts DEF Carried
<1>4. CASE Commit \/ Push \/ PushFails
  BY <1>4 DEF Commit, Push, PushFails, Carried
<1>5. CASE Emit \/ Kill
  BY <1>5 DEF Emit, Kill, Gone, Executing, Carried
<1>6. CASE Ending
  BY <1>6, EndingFacts DEF Carried
<1>7. CASE Retry \/ Read \/ Verify
  BY <1>7 DEF Retry, Read, Verify, Carried
<1>8. CASE OtherPush \/ UNCHANGED vars
  BY <1>8 DEF OtherPush, vars
<1> QED
  BY <1>1, <1>2, <1>3, <1>4, <1>5, <1>6, <1>7, <1>8 DEF Next, Executor, Worker, Unpushed, Ending

LEMMA ClaimedStep ==
  ASSUME TypeOK, Leased, Carried, ClaimedDelivered, [Next]_vars
  PROVE  ClaimedDelivered'
<1> SUFFICES ASSUME task'.claim PROVE hist'.work \subseteq OnRemote'
  BY DEF ClaimedDelivered
<1>1. OnRemote \subseteq OnRemote'
  BY RemoteStep
<1>2. CASE Succeed /\ result.pushed
  BY <1>1, <1>2 DEF Succeed, Settle, Over, Carried
<1>3. CASE task' = task /\ OtherPush
  <2>1. hist'.work = hist.work
    BY <1>3, HistFacts DEF OtherPush, Switch, Call, Dispatch, Retry
  <2> QED
    BY <1>1, <1>3, <2>1 DEF ClaimedDelivered
<1>4. CASE UNCHANGED vars
  BY <1>1, <1>4 DEF vars, ClaimedDelivered
<1> QED
  BY <1>2, <1>3, <1>4, ClaimFrame

----------------------------------------------------------------------------
(* The scope.                                                              *)

\* A push of someone else brings no work of the executor that is out of scope.
LEMMA OtherScope ==
  ASSUME TypeOK, OtherPush, OnRemote \cap hist.outside = {}
  PROVE  OnRemote' \cap hist'.outside = {}
<1>1. hist.made \in Nat /\ hist.outside \subseteq 1..hist.made
  <2>1. hist.made \in 0..MaxPieces /\ hist.outside \subseteq 1..hist.made
    BY DEF TypeOK, Made
  <2> QED
    BY <2>1, BoundAssumption
<1>2. hist.made + 1 \notin hist.outside
  BY <1>1
<1>3. OnRemote' \subseteq OnRemote \cup {hist.made + 1}
  BY DEF OtherPush, OnRemote
<1>4. hist'.outside = hist.outside
  BY Fields DEF OtherPush
<1> QED
  BY <1>2, <1>3, <1>4

\* The outcome is reached by reading a failure and by a verified scope.
LEMMA OutcomeFrame ==
  ASSUME TypeOK, [Next]_vars, pc' = "outcome"
  PROVE  Read \/ Verify \/ OtherPush \/ UNCHANGED vars
<1>1. ~(Dispatch \/ Refuse \/ Prepare \/ Switch \/ Call)
  BY DEF Dispatch, Refuse, Prepare, Switch, Call
<1>2. ~(Decide \/ EngineRaises \/ Book \/ BookRaises)
  BY DEF Decide, EngineRaises, Book, BookRaises
<1>3. ~Unpushed /\ ~Ending
  BY UnpushedFacts, EndingFacts
<1>4. ~(Commit \/ Push \/ PushFails)
  BY DEF Commit, Push, PushFails
<1>5. ~(Emit \/ Kill \/ Retry)
  BY DEF Emit, Kill, Gone, Retry
<1> QED
  BY <1>1, <1>2, <1>3, <1>4, <1>5 DEF Next, Executor, Worker, Unpushed, Ending

LEMMA ScopedStep ==
  ASSUME TypeOK, Scoped, [Next]_vars
  PROVE  Scoped'
<1> SUFFICES ASSUME pc' = "outcome", result'.ok, result'.cat # "scope_too_wide", result'.pushed,
                    cfg'.scoped
             PROVE  OnRemote' \cap hist'.outside = {}
  BY DEF Scoped
<1>0. cfg' = cfg /\ cfg.scoped
  BY Frames
<1>1. CASE Read
  BY <1>1 DEF Read
<1>2. CASE Verify
  BY <1>0, <1>2 DEF Verify, PushedInScope, OnRemote
<1>3. CASE OtherPush
  BY <1>0, <1>3, OtherScope DEF OtherPush, Scoped
<1>4. CASE UNCHANGED vars
  BY <1>4 DEF vars, Scoped, OnRemote
<1> QED
  BY <1>1, <1>2, <1>3, <1>4, OutcomeFrame

LEMMA AcceptedStep ==
  ASSUME TypeOK, Carried, Scoped, AcceptedInScope, [Next]_vars
  PROVE  AcceptedInScope'
<1> SUFFICES ASSUME task'.claim, cfg'.scoped PROVE OnRemote' \cap hist'.outside = {}
  BY DEF AcceptedInScope
<1>0. cfg' = cfg /\ cfg.scoped
  BY Frames
<1>1. CASE Succeed /\ result.pushed
  BY <1>0, <1>1 DEF Succeed, Settle, Over, Scoped, OnRemote
<1>2. CASE task' = task /\ OtherPush
  BY <1>0, <1>2, OtherScope DEF AcceptedInScope
<1>3. CASE UNCHANGED vars
  BY <1>3 DEF vars, AcceptedInScope, OnRemote
<1> QED
  BY <1>1, <1>2, <1>3, ClaimFrame

----------------------------------------------------------------------------
(* The types.                                                              *)

\* The parts of TypeOK that the loop, the workspace and the history make.
LoopType == loop \in [attempt : 0..(cfg.attempts + 1), request : Nat,
                      trail : Seq(EntryType)]
WsType == ws \in [tree : SUBSET Pieces, commits : SUBSET Pieces,
                  lease : {Absent} \cup (SUBSET Pieces), squashed : BOOLEAN]
HistType ==
  /\ hist \in [made : 0..MaxPieces, outside : SUBSET Pieces, work : SUBSET Pieces, begun : Nat]
  /\ hist.outside \subseteq Made
RemoteType == remote \in {Absent} \cup (SUBSET Pieces)
TaskType == task \in [state : {"Ready for AI", "Running", "Blocked", "In Review", "Done"},
                      claim : BOOLEAN]
Counters ==
  /\ dispatch \in 0..cfg.dispatches /\ run \in 0..2
  /\ pc \in PCs /\ file \in {"missing", "empty", "whole"}

LEMMA LoopTypeStep == ASSUME TypeOK, Counted, [Next]_vars PROVE LoopType'
<1>0. cfg' = cfg /\ cfg.attempts \in Nat \ {0}
  BY Frames, LoopTypes
<1>1. CASE Prepare \/ Emit \/ Kill
  <2>1. loop' = FreshLoop \/ loop' = [FreshLoop EXCEPT !.attempt = 1]
    BY <1>1 DEF Prepare, Emit, Kill, Gone
  <2>2. \/ loop' = [attempt |-> 0, request |-> 0, trail |-> <<>>]
        \/ loop' = [attempt |-> 1, request |-> 0, trail |-> <<>>]
    BY <2>1 DEF FreshLoop
  <2>3. /\ 0 \in 0..(cfg.attempts + 1) /\ 1 \in 0..(cfg.attempts + 1)
        /\ <<>> \in Seq(EntryType)
    BY <1>0
  <2> QED
    <3>1. ASSUME NEW a \in 0..(cfg.attempts + 1),
                 loop' = [attempt |-> a, request |-> 0, trail |-> <<>>]
          PROVE  LoopType'
      BY <1>0, <2>3, <3>1 DEF LoopType
    <3> QED
      BY <2>2, <2>3, <3>1
<1>2. CASE Decide
  BY <1>0, <1>2, DecideFacts DEF LoopType
<1>3. CASE EngineRaises
  BY <1>0, <1>3, EngineRaisesFacts DEF LoopType
<1>4. CASE loop' = loop
  BY <1>0, <1>4 DEF TypeOK, LoopType
<1> QED
  BY <1>1, <1>2, <1>3, <1>4, Frames

LEMMA WsTypeStep == ASSUME TypeOK, [Next]_vars PROVE WsType'
<1>1. CASE Prepare
  <2>1. ws' = [FreshWs EXCEPT !.lease = remote, !.commits = OnRemote]
    BY <1>1 DEF Prepare
  <2>2. ws' = [tree |-> {}, commits |-> OnRemote, lease |-> remote, squashed |-> FALSE]
    BY <2>1 DEF FreshWs
  <2>3. remote \in {Absent} \cup (SUBSET Pieces) /\ OnRemote \in SUBSET Pieces
    BY DEF TypeOK, OnRemote
  <2> QED
    BY <2>2, <2>3 DEF WsType
<1>2. CASE Switch \/ Call
  BY <1>2, BackendFacts DEF WsType
<1>3. CASE Commit
  BY <1>3, CommitFacts DEF WsType
<1>4. CASE Emit \/ Kill
  <2>1. ws' = FreshWs
    BY <1>4 DEF Emit, Kill, Gone
  <2> QED
    BY <2>1 DEF FreshWs, WsType
<1>5. CASE ws' = ws
  BY <1>5 DEF TypeOK, WsType
<1> QED
  BY <1>1, <1>2, <1>3, <1>4, <1>5, Frames

LEMMA HistTypeStep == ASSUME TypeOK, [Next]_vars PROVE HistType'
<1>1. CASE Switch \/ Call
  BY <1>1, BackendFacts DEF HistType, Made
<1>2. CASE ~Switch /\ ~Call
  <2>1. hist.outside \subseteq 1..hist.made
    BY DEF TypeOK, Made
  <2> QED
    BY <1>2, <2>1, HistFacts DEF HistType, Made
<1> QED
  BY <1>1, <1>2

LEMMA RemoteTypeStep == ASSUME TypeOK, [Next]_vars PROVE RemoteType'
<1>0. remote \in {Absent} \cup (SUBSET Pieces) /\ ws.commits \in SUBSET Pieces
  BY DEF TypeOK
<1>1. CASE Push \/ PushFails
  BY <1>0, <1>1 DEF Push, PushFails, RemoteType
<1>2. CASE OtherPush
  <2>1. hist.made \in 0..MaxPieces /\ hist.made < MaxPieces
    BY <1>2 DEF TypeOK, OtherPush
  <2>2. hist.made + 1 \in Pieces
    BY <2>1, BoundAssumption DEF Pieces
  <2> QED
    BY <1>0, <1>2, <2>2 DEF OtherPush, OnRemote, RemoteType
<1>3. CASE remote' = remote
  BY <1>0, <1>3 DEF RemoteType
<1> QED
  BY <1>1, <1>2, <1>3, Frames

\* The rest of the types, action by action.
LEMMA RestTypeStep ==
  ASSUME TypeOK, Counted, [Next]_vars
  PROVE  Counters' /\ TaskType' /\ result' \in ResultType /\ first' \in ResultType
<1>0. /\ cfg' = cfg /\ cfg.dispatches \in Nat /\ dispatch \in 0..cfg.dispatches /\ run \in 0..2
      /\ pc \in PCs /\ file \in {"missing", "empty", "whole"} /\ TaskType
      /\ result \in ResultType /\ first \in ResultType
  BY Frames, PolicyAssumption DEF TypeOK, TaskType
<1> USE DEF Counters, PCs, Executing
<1>1. CASE Dispatch
  <2>1. dispatch + 1 \in 0..cfg.dispatches
    <3>1. dispatch < cfg.dispatches
      BY <1>1 DEF Dispatch
    <3> QED
      BY <1>0, <3>1
  <2>2. task' = [state |-> "Running", claim |-> FALSE]
    BY <1>1 DEF Dispatch
  <2>3. TaskType'
    BY <2>2 DEF TaskType
  <2> QED
    <3>1. /\ dispatch' = dispatch + 1 /\ run' = 1 /\ pc' = "start"
          /\ file' = file /\ result' = result /\ first' = first
      BY <1>1 DEF Dispatch
    <3> QED
      BY <1>0, <2>1, <2>3, <3>1
<1>2. CASE Refuse
  <2>1. PICK c \in {"policy_blocked", "budget_exhausted", "backend_error"}, net \in BOOLEAN :
          result' = [Failure(c) EXCEPT !.net = net]
    BY <1>2 DEF Refuse
  <2>2. c \in Categories
    BY DEF Categories
  <2>3. result' \in ResultType
    BY <2>1, <2>2, FailureFacts, NetFacts
  <2> QED
    BY <1>0, <1>2, <2>3 DEF Refuse, TaskType
<1>3. CASE Prepare
  BY <1>0, <1>3 DEF Prepare, TaskType
<1>4. CASE Call
  <2>1. PICK r \in Results : result' = Result(r)
    BY <1>4, CallFacts
  <2>2. result' \in ResultType
    BY <2>1, AnswerFacts
  <2> QED
    BY <1>0, <1>4, <2>2 DEF Call, TaskType
<1>5. CASE Decide
  <2>1. result' \in ResultType /\ pc' \in {"call", "book"}
    BY <1>5, DecideFacts
  <2> QED
    BY <1>0, <1>5, <2>1 DEF Decide, TaskType
<1>6. CASE EngineRaises
  BY <1>0, <1>6, EngineRaisesFacts DEF EngineRaises, TaskType
<1>7. CASE Book \/ BookRaises
  BY <1>0, <1>7, NoResultFacts DEF Book, BookRaises, TaskType
<1>8. CASE Unpushed
  BY <1>0, <1>8, UnpushedFacts DEF TaskType
<1>9. CASE Switch \/ Commit
  BY <1>0, <1>9 DEF Switch, Commit, TaskType
<1>10. CASE Push
  BY <1>0, <1>10, PushedFacts DEF Push, TaskType
<1>11. CASE PushFails
  <2>1. PICK net \in BOOLEAN : result' = PushFailed(result, net)
    BY <1>11 DEF PushFails
  <2>2. result' \in ResultType
    BY <1>0, <2>1, NetFacts
  <2> QED
    BY <1>0, <1>11, <2>2 DEF PushFails, TaskType
<1>12. CASE Emit \/ Kill
  <2>1. result' \in ResultType
    BY <1>0, <1>12, PushedFacts, NoResultFacts DEF Emit, Kill
  <2> QED
    BY <1>0, <1>12, <2>1 DEF Emit, Kill, Gone, TaskType
<1>13. CASE Ending
  <2>1. TaskType'
    BY <1>13, EndingFacts DEF TaskType
  <2>2. /\ pc' = "end" /\ run' = 0 /\ result' = NoResult /\ first' = NoResult
        /\ file' = "missing" /\ dispatch' = dispatch
    BY <1>13, EndingFacts DEF Over
  <2> QED
    BY <1>0, <2>1, <2>2, NoResultFacts
<1>14. CASE Retry
  <2>1. /\ run' = 2 /\ first' = result /\ file' = "missing" /\ result' = NoResult
        /\ pc' = "start" /\ dispatch' = dispatch /\ task' = task
    BY <1>14 DEF Retry
  <2> QED
    <3>1. TaskType'
      BY <1>0, <2>1 DEF TaskType
    <3>2. Counters'
      BY <1>0, <2>1
    <3> QED
      BY <1>0, <2>1, <3>1, <3>2, NoResultFacts
<1>15. CASE Read
  BY <1>0, <1>15 DEF Read, Outcome, TaskType
<1>16. CASE Verify \/ OtherPush
  BY <1>0, <1>16 DEF Verify, OtherPush, TaskType
<1>17. CASE UNCHANGED vars
  BY <1>0, <1>17 DEF vars, TaskType
<1> QED
  BY <1>1, <1>2, <1>3, <1>4, <1>5, <1>6, <1>7, <1>8, <1>9, <1>10, <1>11, <1>12, <1>13, <1>14,
     <1>15, <1>16, <1>17
     DEF Next, Executor, Worker, Unpushed, Ending

LEMMA InvStep == ASSUME Inv, [Next]_vars PROVE Inv'
<1> USE DEF Inv
<1>1. TypeOK'
  <2>1. cfg' \in Policies
    BY Frames DEF TypeOK
  <2> QED
    BY <2>1, LoopTypeStep, WsTypeStep, HistTypeStep, RemoteTypeStep, RestTypeStep
       DEF TypeOK, LoopType, WsType, HistType, RemoteType, TaskType, Counters
<1>2. Leased' /\ Unbegun' /\ Counted'
  BY LeasedStep, UnbegunStep, CountedStep
<1>3. Carried' /\ Scoped' /\ TrailTells'
  BY CarriedStep, ScopedStep, TrailStep
<1>4. ClaimedDelivered' /\ AcceptedInScope'
  BY ClaimedStep, AcceptedStep
<1> QED
  BY <1>1, <1>2, <1>3, <1>4

----------------------------------------------------------------------------
\* The specification keeps its types.
THEOREM TypeCorrect == Spec => []TypeOK
<1>1. Inv => TypeOK
  BY DEF Inv
<1> QED
  BY <1>1, InitInv, InvStep, PTL DEF Spec

\* A request that is not idempotent begins at most once in an executor run,
\* whatever the policy and the answers, and twice with an adapter that changes
\* its worker backend: rule 6 of engine.py needs no more than the adapters'
\* contract on backend_unavailable.
THEOREM NeverReplayed == Spec => []NoReplay
<1>1. Inv => NoReplay
  BY DEF Inv, Unbegun, NoReplay
<1> QED
  BY <1>1, InitInv, InvStep, PTL DEF Spec

\* The recovery trail of every run has one entry per call, in order.
THEOREM TrailIsTold == Spec => []TrailTells
<1>1. Inv => TrailTells
  BY DEF Inv
<1> QED
  BY <1>1, InitInv, InvStep, PTL DEF Spec

\* What the worker claims as pushed is on the remote, for any number of
\* dispatches, retries, kills and pushes of others.
THEOREM ClaimsAreDelivered == Spec => []ClaimedDelivered
<1>1. Inv => ClaimedDelivered
  BY DEF Inv
<1> QED
  BY <1>1, InitInv, InvStep, PTL DEF Spec

\* An accepted branch of a scoped task has none of the executor's work outside
\* the scope.
THEOREM AcceptedIsInScope == Spec => []AcceptedInScope
<1>1. Inv => AcceptedInScope
  BY DEF Inv
<1> QED
  BY <1>1, InitInv, InvStep, PTL DEF Spec

\* No step takes work off the remote's branch.
THEOREM RemoteIsKept == Spec => RemoteKept
<1>1. Inv /\ [Next]_vars => [OnRemote \subseteq IF remote' = Absent THEN {} ELSE remote']_vars
  BY RemoteStep DEF Inv, OnRemote
<1> QED
  BY <1>1, InitInv, InvStep, PTL DEF Spec, RemoteKept
=============================================================================

--------------------------- MODULE InFlightProofs ---------------------------
(* The slot accounting of InFlight for any number of executors, runs,      *)
(* backends and sweepers, and for any caps.                                *)
EXTENDS InFlight, TLAPS, FiniteSetTheorems

\* An executor inside execute() has a run.
HasRun == \A e \in Executors : pc[e] # "idle" => cur[e] \in Runs

\* Executors that the global gate let through and that have no slot yet, and the
\* same for the cap of backend b.
PastGate == {e \in Executors : pc[e] \in {"caps", "admitted"}}
PastCap(b) == {e \in Executors : pc[e] = "admitted" /\ BackendOf[cur[e]] = b}

\* A slot is promised at the gate: promised and taken slots together exceed the
\* cap by less than the number of executors.
GlobalPromise == Cardinality(Open) + Cardinality(PastGate) < GlobalCap + Cardinality(Executors)
BackendPromise ==
  \A b \in Backends :
    Cardinality(OpenFor(b)) + Cardinality(PastCap(b)) < BackendCap[b] + Cardinality(Executors)

Inv == TypeOK /\ HasRun /\ SlotsAccountedFor /\ GlobalPromise /\ BackendPromise

----------------------------------------------------------------------------
(* Cardinalities.                                                          *)

\* Two sets that only lose members.
LEMMA SumShrinks ==
  ASSUME NEW A, NEW B, NEW C, NEW D, IsFiniteSet(A), IsFiniteSet(B), C \subseteq A, D \subseteq B
  PROVE  /\ Cardinality(A) \in Nat /\ Cardinality(B) \in Nat
         /\ Cardinality(C) \in Nat /\ Cardinality(D) \in Nat
         /\ Cardinality(C) + Cardinality(D) <= Cardinality(A) + Cardinality(B)
<1>1. IsFiniteSet(C) /\ IsFiniteSet(D) /\ Cardinality(C) <= Cardinality(A) /\ Cardinality(D) <= Cardinality(B)
  BY FS_Subset
<1>2. Cardinality(A) \in Nat /\ Cardinality(B) \in Nat /\ Cardinality(C) \in Nat /\ Cardinality(D) \in Nat
  BY <1>1, FS_CardinalityType
<1> QED
  BY <1>1, <1>2

\* One member leaves B while one joins A.
LEMMA SumMoves ==
  ASSUME NEW A, NEW B, NEW C, NEW D, NEW x, NEW e \in B, IsFiniteSet(A), IsFiniteSet(B),
         C \subseteq A \cup {x}, D \subseteq B \ {e}
  PROVE  /\ Cardinality(A) \in Nat /\ Cardinality(B) \in Nat
         /\ Cardinality(C) \in Nat /\ Cardinality(D) \in Nat
         /\ Cardinality(C) + Cardinality(D) <= Cardinality(A) + Cardinality(B)
<1>1. IsFiniteSet(A \cup {x}) /\ Cardinality(A \cup {x}) <= Cardinality(A) + 1
  <2>1. Cardinality(A) \in Nat
    BY FS_CardinalityType
  <2>2. /\ IsFiniteSet(A \cup {x})
        /\ Cardinality(A \cup {x}) = IF x \in A THEN Cardinality(A) ELSE Cardinality(A) + 1
    BY FS_AddElement
  <2> QED
    BY <2>1, <2>2
<1>2. IsFiniteSet(B \ {e}) /\ Cardinality(B \ {e}) = Cardinality(B) - 1
  BY FS_RemoveElement
<1>3. /\ Cardinality(A \cup {x}) \in Nat /\ Cardinality(B \ {e}) \in Nat
      /\ Cardinality(C) \in Nat /\ Cardinality(D) \in Nat
      /\ Cardinality(C) + Cardinality(D) <= Cardinality(A \cup {x}) + Cardinality(B \ {e})
  BY <1>1, <1>2, SumShrinks
<1>4. Cardinality(A) \in Nat /\ Cardinality(B) \in Nat
  BY FS_CardinalityType
<1> QED
  BY <1>1, <1>2, <1>3, <1>4

\* The sets that are counted are finite.
LEMMA CountedFinite ==
  ASSUME TypeOK
  PROVE  /\ IsFiniteSet(Open) /\ IsFiniteSet(PastGate)
         /\ Cardinality(Executors) \in Nat
         /\ \A b \in Backends : IsFiniteSet(OpenFor(b)) /\ IsFiniteSet(PastCap(b))
<1>1. Open \subseteq Runs /\ PastGate \subseteq Executors
  BY DEF TypeOK, Open, PastGate
<1>2. \A b \in Backends : OpenFor(b) \subseteq Runs /\ PastCap(b) \subseteq Executors
  BY <1>1 DEF OpenFor, PastCap
<1> QED
  BY <1>1, <1>2, FiniteAssumption, FS_Subset, FS_CardinalityType

----------------------------------------------------------------------------
\* Initially there is no slot and no executor is inside execute().
LEMMA InitInv == Init => Inv
<1> SUFFICES ASSUME Init PROVE Inv
  OBVIOUS
<1>1. TypeOK
  BY DEF Init, TypeOK, Sweepers
<1>2. HasRun
  BY DEF Init, HasRun
<1>3. Open = {} /\ PastGate = {}
  BY DEF Init, Open, PastGate
<1>4. \A b \in Backends : OpenFor(b) = {} /\ PastCap(b) = {}
  BY <1>3 DEF Init, OpenFor, PastCap
<1>5. SlotsAccountedFor
  BY <1>3 DEF SlotsAccountedFor
<1>6. Cardinality({}) = 0 /\ Cardinality(Executors) \in Nat
  BY FS_EmptySet, FS_CardinalityType, FiniteAssumption
<1>7. GlobalPromise
  BY <1>3, <1>6, GlobalCapAssumption DEF GlobalPromise
<1>8. BackendPromise
  BY <1>4, <1>6, BackendCapAssumption DEF BackendPromise
<1> QED
  BY <1>1, <1>2, <1>5, <1>7, <1>8 DEF Inv

----------------------------------------------------------------------------
\* Every step keeps the types, and a run inside execute().
LEMMA TypeStep == TypeOK /\ HasRun /\ [Next]_vars => TypeOK' /\ HasRun'
<1> SUFFICES ASSUME TypeOK, HasRun, [Next]_vars PROVE TypeOK' /\ HasRun'
  OBVIOUS
<1> USE DEF TypeOK, HasRun, Goto, Leave, ledger, execs, sweeps
<1>1. ASSUME NEW e \in Executors, Execute(e) PROVE TypeOK' /\ HasRun'
  <2>1. CASE \E r \in Runs : Build(e, r)
    BY <2>1 DEF Build
  <2>2. CASE ResourceGate(e)
    BY <2>2 DEF ResourceGate
  <2>3. CASE BackendCaps(e)
    BY <2>3 DEF BackendCaps
  <2>4. CASE Start(e)
    BY <2>4 DEF Start, RecordStarted
  <2>5. CASE StartRaises(e)
    BY <2>5 DEF StartRaises
  <2>6. CASE Finish(e)
    BY <2>6 DEF Finish, RecordFinished
  <2>7. CASE FinishRaises(e)
    BY <2>7 DEF FinishRaises
  <2> QED
    BY <1>1, <2>1, <2>2, <2>3, <2>4, <2>5, <2>6, <2>7 DEF Execute
<1>2. ASSUME NEW e \in Executors, Kill(e) PROVE TypeOK' /\ HasRun'
  BY <1>2 DEF Kill
<1>3. ASSUME NEW s \in Sweepers, Sweep(s) PROVE TypeOK' /\ HasRun'
  <2>1. CASE BeginSweep(s)
    BY <2>1 DEF BeginSweep, Open
  <2>2. ASSUME NEW r \in Runs, LookupGone(s, r) PROVE TypeOK' /\ HasRun'
    BY <2>2 DEF LookupGone
  <2>3. ASSUME NEW r \in Runs, LookupError(s, r) PROVE TypeOK' /\ HasRun'
    BY <2>3 DEF LookupError
  <2>4. ASSUME NEW r \in Runs, ClearOrphan(s, r) PROVE TypeOK' /\ HasRun'
    BY <2>4 DEF ClearOrphan, RecordFinished
  <2>5. ASSUME NEW r \in Runs, ClearError(s, r) PROVE TypeOK' /\ HasRun'
    BY <2>5 DEF ClearError
  <2>6. CASE Scanned(s)
    BY <2>6 DEF Scanned
  <2>7. CASE EndSweep(s)
    BY <2>7 DEF EndSweep, Quit
  <2> QED
    BY <1>3, <2>1, <2>2, <2>3, <2>4, <2>5, <2>6, <2>7 DEF Sweep
<1>4. ASSUME NEW s \in Sweepers, KillSweep(s) PROVE TypeOK' /\ HasRun'
  BY <1>4 DEF KillSweep, Quit
<1>5. ASSUME NEW r \in Runs, Expire(r) PROVE TypeOK' /\ HasRun'
  BY <1>5 DEF Expire
<1>6. CASE UNCHANGED vars
  BY <1>6 DEF vars
<1> QED
  BY <1>1, <1>2, <1>3, <1>4, <1>5, <1>6 DEF Next

----------------------------------------------------------------------------
(* What a step can do to the slots.                                        *)

\* Slots are only given back, no gate is passed, and the dispatches that leave
\* give their slot back or leak it.
Quiet ==
  /\ Open' \subseteq Open
  /\ Open \cap Running \cap Open' \subseteq Running' \cup leaked'
  /\ leaked \subseteq leaked'
  /\ PastGate' \subseteq PastGate
  /\ \A b \in Backends : PastCap(b)' \subseteq PastCap(b)

\* The two checks and the step that takes the slot.
PassGate(e) == ResourceGate(e) /\ pc'[e] = "caps"
PassCap(e) == BackendCaps(e) /\ pc'[e] = "admitted"

\* Apart from those three, every step of an executor is quiet.
LEMMA ExecutorStep ==
  ASSUME TypeOK, HasRun, NEW e \in Executors, Execute(e) \/ Kill(e)
  PROVE  Quiet \/ PassGate(e) \/ PassCap(e) \/ Start(e)
<1> USE DEF TypeOK, HasRun, Goto, Leave, ledger, Open, Running, PastGate, PastCap, Quiet
<1>1. CASE \E r \in Runs : Build(e, r)
  BY <1>1 DEF Build
<1>2. CASE ResourceGate(e)
  BY <1>2 DEF ResourceGate, PassGate
<1>3. CASE BackendCaps(e)
  BY <1>3 DEF BackendCaps, PassCap
<1>4. CASE StartRaises(e)
  BY <1>4 DEF StartRaises
<1>5. CASE Finish(e)
  BY <1>5 DEF Finish, RecordFinished
<1>6. CASE FinishRaises(e)
  BY <1>6 DEF FinishRaises
<1>7. CASE Kill(e)
  BY <1>7 DEF Kill
<1> QED
  BY <1>1, <1>2, <1>3, <1>4, <1>5, <1>6, <1>7 DEF Execute

\* Every other step is quiet.
LEMMA OtherStep ==
  ASSUME TypeOK,
         \/ \E s \in Sweepers : Sweep(s) \/ KillSweep(s)
         \/ \E r \in Runs : Expire(r)
         \/ UNCHANGED vars
  PROVE  Quiet
<1>1. pc' = pc /\ cur' = cur /\ leaked' = leaked /\ Open' \subseteq Open
  BY DEF Sweep, BeginSweep, LookupGone, LookupError, ClearOrphan, ClearError, Scanned, EndSweep,
         KillSweep, Quit, Expire, RecordFinished, Open, vars, ledger, execs
<1>2. Running' = Running /\ PastGate' = PastGate /\ \A b \in Backends : PastCap(b)' = PastCap(b)
  BY <1>1 DEF Running, PastGate, PastCap
<1> QED
  BY <1>1, <1>2 DEF Quiet

----------------------------------------------------------------------------
(* The promises.                                                           *)

\* A quiet step keeps the sums of promised and taken slots.
LEMMA QuietPromises ==
  ASSUME Inv, TypeOK', Quiet PROVE GlobalPromise' /\ BackendPromise'
<1>1. GlobalPromise'
  <2>1. IsFiniteSet(Open) /\ IsFiniteSet(PastGate) /\ Cardinality(Executors) \in Nat
    BY CountedFinite DEF Inv
  <2>2. Open' \subseteq Open /\ PastGate' \subseteq PastGate
    BY DEF Quiet
  <2>3. /\ Cardinality(Open) \in Nat /\ Cardinality(PastGate) \in Nat
        /\ Cardinality(Open') \in Nat /\ Cardinality(PastGate') \in Nat
        /\ Cardinality(Open') + Cardinality(PastGate') <= Cardinality(Open) + Cardinality(PastGate)
    BY <2>1, <2>2, SumShrinks
  <2> QED
    BY <2>1, <2>3, GlobalCapAssumption DEF Inv, GlobalPromise
<1>2. BackendPromise'
  <2> SUFFICES ASSUME NEW b \in Backends
               PROVE  Cardinality(OpenFor(b)') + Cardinality(PastCap(b)') < BackendCap[b] + Cardinality(Executors)
    BY DEF BackendPromise
  <2>1. IsFiniteSet(OpenFor(b)) /\ IsFiniteSet(PastCap(b)) /\ Cardinality(Executors) \in Nat
    BY CountedFinite DEF Inv
  <2>2. OpenFor(b)' \subseteq OpenFor(b) /\ PastCap(b)' \subseteq PastCap(b)
    BY DEF Quiet, OpenFor
  <2>3. /\ Cardinality(OpenFor(b)) \in Nat /\ Cardinality(PastCap(b)) \in Nat
        /\ Cardinality(OpenFor(b)') \in Nat /\ Cardinality(PastCap(b)') \in Nat
        /\ Cardinality(OpenFor(b)') + Cardinality(PastCap(b)')
             <= Cardinality(OpenFor(b)) + Cardinality(PastCap(b))
    BY <2>1, <2>2, SumShrinks
  <2> QED
    BY <2>1, <2>3, BackendCapAssumption DEF Inv, BackendPromise
<1> QED
  BY <1>1, <1>2

\* Passing the global gate: the ledger is below the cap, and no more than all
\* executors are past the gate.
LEMMA GateStep ==
  ASSUME Inv, TypeOK', NEW e \in Executors, PassGate(e)
  PROVE  GlobalPromise' /\ BackendPromise' /\ SlotsAccountedFor'
<1>1. /\ Open' = Open /\ Running' = Running /\ leaked' = leaked
      /\ Cardinality(Open) < GlobalCap
      /\ \A b \in Backends : OpenFor(b)' = OpenFor(b) /\ PastCap(b)' \subseteq PastCap(b)
  BY DEF Inv, TypeOK, PassGate, ResourceGate, GlobalSlotFree, Leave, Goto, ledger, Open, OpenFor, Running, PastCap
<1>2. GlobalPromise'
  <2>1. IsFiniteSet(Open) /\ Cardinality(Executors) \in Nat /\ IsFiniteSet(Executors)
    BY CountedFinite, FiniteAssumption DEF Inv
  <2>2. PastGate' \subseteq Executors
    BY DEF PastGate
  <2>3. /\ Cardinality(Open) \in Nat /\ Cardinality(PastGate') \in Nat
        /\ Cardinality(PastGate') <= Cardinality(Executors)
    BY <2>1, <2>2, FS_Subset, FS_CardinalityType
  <2> QED
    BY <1>1, <2>1, <2>3, GlobalCapAssumption DEF GlobalPromise
<1>3. BackendPromise'
  <2> SUFFICES ASSUME NEW b \in Backends
               PROVE  Cardinality(OpenFor(b)') + Cardinality(PastCap(b)') < BackendCap[b] + Cardinality(Executors)
    BY DEF BackendPromise
  <2>1. IsFiniteSet(OpenFor(b)) /\ IsFiniteSet(PastCap(b)) /\ Cardinality(Executors) \in Nat
    BY CountedFinite DEF Inv
  <2>2. OpenFor(b)' \subseteq OpenFor(b) /\ PastCap(b)' \subseteq PastCap(b)
    BY <1>1
  <2>3. /\ Cardinality(OpenFor(b)) \in Nat /\ Cardinality(PastCap(b)) \in Nat
        /\ Cardinality(OpenFor(b)') \in Nat /\ Cardinality(PastCap(b)') \in Nat
        /\ Cardinality(OpenFor(b)') + Cardinality(PastCap(b)')
             <= Cardinality(OpenFor(b)) + Cardinality(PastCap(b))
    BY <2>1, <2>2, SumShrinks
  <2> QED
    BY <2>1, <2>3, BackendCapAssumption DEF Inv, BackendPromise
<1>4. SlotsAccountedFor'
  BY <1>1 DEF Inv, SlotsAccountedFor
<1> QED
  BY <1>2, <1>3, <1>4

\* Passing the cap of a backend, which is the only one whose promises grow.
LEMMA CapStep ==
  ASSUME Inv, TypeOK', NEW e \in Executors, PassCap(e)
  PROVE  GlobalPromise' /\ BackendPromise' /\ SlotsAccountedFor'
<1> DEFINE c == BackendOf[cur[e]]
<1>1. /\ Open' = Open /\ Running' = Running /\ leaked' = leaked
      /\ PastGate' = PastGate
      /\ Cardinality(OpenFor(c)) < BackendCap[c]
      /\ \A b \in Backends : OpenFor(b)' = OpenFor(b)
      /\ \A b \in Backends \ {c} : PastCap(b)' = PastCap(b)
  BY DEF Inv, TypeOK, PassCap, BackendCaps, BackendSlotFree, Leave, Goto, ledger, Open, OpenFor, Running, PastGate, PastCap
<1>2. GlobalPromise'
  BY <1>1 DEF Inv, GlobalPromise
<1>3. BackendPromise'
  <2> SUFFICES ASSUME NEW b \in Backends
               PROVE  Cardinality(OpenFor(b)') + Cardinality(PastCap(b)') < BackendCap[b] + Cardinality(Executors)
    BY DEF BackendPromise
  <2>1. CASE b = c
    <3>1. IsFiniteSet(OpenFor(b)) /\ Cardinality(Executors) \in Nat /\ IsFiniteSet(Executors)
      BY CountedFinite, FiniteAssumption DEF Inv
    <3>2. PastCap(b)' \subseteq Executors
      BY DEF PastCap
    <3>3. /\ Cardinality(OpenFor(b)) \in Nat /\ Cardinality(PastCap(b)') \in Nat
          /\ Cardinality(PastCap(b)') <= Cardinality(Executors)
      BY <3>1, <3>2, FS_Subset, FS_CardinalityType
    <3>4. OpenFor(b)' = OpenFor(b) /\ Cardinality(OpenFor(b)) < BackendCap[b]
      BY <1>1, <2>1
    <3> QED
      BY <3>1, <3>3, <3>4, BackendCapAssumption
  <2>2. CASE b # c
    BY <1>1, <2>2 DEF Inv, BackendPromise
  <2> QED
    BY <2>1, <2>2
<1>4. SlotsAccountedFor'
  BY <1>1 DEF Inv, SlotsAccountedFor
<1> QED
  BY <1>2, <1>3, <1>4

\* Taking the slot turns a promise into an open slot.
LEMMA StartStep ==
  ASSUME Inv, TypeOK', NEW e \in Executors, Start(e)
  PROVE  GlobalPromise' /\ BackendPromise' /\ SlotsAccountedFor'
<1> DEFINE r == cur[e]
<1>1. /\ cur' = cur /\ leaked' = leaked /\ pc[e] = "admitted" /\ r \in Runs
      /\ pc' = [pc EXCEPT ![e] = "running"] /\ started' = started \cup {r}
      /\ finished' = finished /\ expired' = expired
  BY DEF Inv, HasRun, Start, RecordStarted, Goto
<1>2. Open' \subseteq Open \cup {r}
  BY <1>1 DEF Open
<1>3. GlobalPromise'
  <2>1. IsFiniteSet(Open) /\ IsFiniteSet(PastGate) /\ Cardinality(Executors) \in Nat
    BY CountedFinite DEF Inv
  <2>2. e \in PastGate /\ PastGate' \subseteq PastGate \ {e}
    BY <1>1 DEF Inv, TypeOK, PastGate
  <2>3. /\ Cardinality(Open) \in Nat /\ Cardinality(PastGate) \in Nat
        /\ Cardinality(Open') \in Nat /\ Cardinality(PastGate') \in Nat
        /\ Cardinality(Open') + Cardinality(PastGate') <= Cardinality(Open) + Cardinality(PastGate)
    BY <1>2, <2>1, <2>2, SumMoves
  <2> QED
    BY <2>1, <2>3, GlobalCapAssumption DEF Inv, GlobalPromise
<1>4. BackendPromise'
  <2> SUFFICES ASSUME NEW b \in Backends
               PROVE  Cardinality(OpenFor(b)') + Cardinality(PastCap(b)') < BackendCap[b] + Cardinality(Executors)
    BY DEF BackendPromise
  <2>1. IsFiniteSet(OpenFor(b)) /\ IsFiniteSet(PastCap(b)) /\ Cardinality(Executors) \in Nat
    BY CountedFinite DEF Inv
  <2>2. /\ Cardinality(OpenFor(b)) \in Nat /\ Cardinality(PastCap(b)) \in Nat
        /\ Cardinality(OpenFor(b)') \in Nat /\ Cardinality(PastCap(b)') \in Nat
        /\ Cardinality(OpenFor(b)') + Cardinality(PastCap(b)')
             <= Cardinality(OpenFor(b)) + Cardinality(PastCap(b))
    <3>1. CASE BackendOf[r] = b
      <4>1. OpenFor(b)' \subseteq OpenFor(b) \cup {r}
        BY <1>2 DEF OpenFor
      <4>2. e \in PastCap(b) /\ PastCap(b)' \subseteq PastCap(b) \ {e}
        BY <1>1, <3>1 DEF Inv, TypeOK, PastCap
      <4> QED
        BY <2>1, <4>1, <4>2, SumMoves
    <3>2. CASE BackendOf[r] # b
      <4>1. OpenFor(b)' \subseteq OpenFor(b)
        BY <1>2, <3>2 DEF OpenFor
      <4>2. PastCap(b)' \subseteq PastCap(b)
        BY <1>1 DEF Inv, TypeOK, PastCap
      <4> QED
        BY <2>1, <4>1, <4>2, SumShrinks
    <3> QED
      BY <3>1, <3>2
  <2> QED
    BY <2>1, <2>2, BackendCapAssumption DEF Inv, BackendPromise
<1>5. SlotsAccountedFor'
  <2>1. Running \cup {r} \subseteq Running'
    BY <1>1 DEF Inv, TypeOK, Running
  <2> QED
    BY <1>1, <1>2, <2>1 DEF Inv, SlotsAccountedFor
<1> QED
  BY <1>3, <1>4, <1>5

----------------------------------------------------------------------------
\* Every step keeps the invariant.
LEMMA NextInv == Inv /\ [Next]_vars => Inv'
<1> SUFFICES ASSUME Inv, [Next]_vars PROVE Inv'
  OBVIOUS
<1>1. TypeOK' /\ HasRun'
  BY TypeStep DEF Inv
<1>2. CASE Quiet
  <2>1. GlobalPromise' /\ BackendPromise'
    BY <1>1, <1>2, QuietPromises
  <2>2. SlotsAccountedFor'
    BY <1>2 DEF Inv, SlotsAccountedFor, Quiet
  <2> QED
    BY <1>1, <2>1, <2>2 DEF Inv
<1>3. ASSUME NEW e \in Executors, PassGate(e) PROVE Inv'
  BY <1>1, <1>3, GateStep DEF Inv
<1>4. ASSUME NEW e \in Executors, PassCap(e) PROVE Inv'
  BY <1>1, <1>4, CapStep DEF Inv
<1>5. ASSUME NEW e \in Executors, Start(e) PROVE Inv'
  BY <1>1, <1>5, StartStep DEF Inv
<1>6. Quiet \/ \E e \in Executors : PassGate(e) \/ PassCap(e) \/ Start(e)
  BY ExecutorStep, OtherStep DEF Inv, Next
<1> QED
  BY <1>2, <1>3, <1>4, <1>5, <1>6

\* The invariant holds throughout.
THEOREM Invariance == Spec => []Inv
<1>1. Init => Inv
  BY InitInv
<1>2. Inv /\ [Next]_vars => Inv'
  BY NextInv
<1> QED
  BY <1>1, <1>2, PTL DEF Spec

\* The ledger, the executors and the sweeps keep their types.
THEOREM TypeCorrect == Spec => []TypeOK
<1>1. Inv => TypeOK
  BY DEF Inv
<1> QED
  BY <1>1, Invariance, PTL

\* No slot is open that neither a running dispatch holds nor a dead one left:
\* refusals, adapter exceptions and sweeps never produce one.
THEOREM SlotAccounting == Spec => []SlotsAccountedFor
<1>1. Inv => SlotsAccountedFor
  BY DEF Inv
<1> QED
  BY <1>1, Invariance, PTL

\* The global gate of ExecutionCoordinator is overshot by less than the number
\* of executor processes, whatever the cap is.
THEOREM GlobalGateBound == Spec => []GlobalOvershoot
<1>1. Inv => GlobalOvershoot
  <2> SUFFICES ASSUME Inv PROVE GlobalOvershoot
    OBVIOUS
  <2>1. IsFiniteSet(Open) /\ IsFiniteSet(PastGate) /\ Cardinality(Executors) \in Nat
    BY CountedFinite DEF Inv
  <2>2. Cardinality(Open) \in Nat /\ Cardinality(PastGate) \in Nat
    BY <2>1, FS_CardinalityType
  <2> QED
    BY <2>1, <2>2, GlobalCapAssumption DEF Inv, GlobalPromise, GlobalOvershoot
<1> QED
  BY <1>1, Invariance, PTL

\* The same for the cap of every backend.
THEOREM BackendCapBound == Spec => []BackendOvershoot
<1>1. Inv => BackendOvershoot
  <2> SUFFICES ASSUME Inv, NEW b \in Backends
               PROVE  Cardinality(OpenFor(b)) < BackendCap[b] + Cardinality(Executors)
    BY DEF BackendOvershoot
  <2>1. IsFiniteSet(OpenFor(b)) /\ IsFiniteSet(PastCap(b)) /\ Cardinality(Executors) \in Nat
    BY CountedFinite DEF Inv
  <2>2. Cardinality(OpenFor(b)) \in Nat /\ Cardinality(PastCap(b)) \in Nat
    BY <2>1, FS_CardinalityType
  <2> QED
    BY <2>1, <2>2, BackendCapAssumption DEF Inv, BackendPromise
<1> QED
  BY <1>1, Invariance, PTL

============================================================================

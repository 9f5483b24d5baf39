------------------------- MODULE ForgejoBoardProofs -------------------------
(***************************************************************************)
(* No issue ever loses its last state label, for any clients, issues,      *)
(* labels and bounds.  A label set on its way to the server (the body of a *)
(* PUT, or one that timed out and may still arrive) already has a state:   *)
(* every operation computes it from a fetch, keeps the states the fetch    *)
(* showed or replaces them by one.                                         *)
(***************************************************************************)
EXTENDS ForgejoBoard, TLAPS

\* A client with an operation under way has an issue, and the label of the
\* operation is of the kind the operation asks for.
OpsWellFormed ==
  \A c \in Clients :
    pc[c] # "idle" =>
      /\ task[c] \in Tasks
      /\ \/ op[c].kind = "transition" /\ op[c].label \in States
         \/ op[c].kind \in {"add", "remove"} /\ op[c].label \in Tags
         \/ op[c].kind = "priority"

HasState(l) == l \cap States # {}

BodiesStated == \A c \in Clients : pc[c] = "put" => HasState(body[c])
LateStated == \A q \in late : HasState(q[2])

Inv == TypeOK /\ OpsWellFormed /\ NeverStateless /\ BodiesStated /\ LateStated

\* create_issue gives an issue a known state, and nothing is under way.
LEMMA InitInv == Init => Inv
  BY StateAssumption, LabelAssumption, BoundAssumption
  DEF Init, Inv, TypeOK, OpsWellFormed, NeverStateless, BodiesStated, LateStated, HasState,
      StatesOf, States, Labels, Op, NoOp

\* The label set of a PUT: known labels, and a state among them if the fetch saw
\* one.
LEMMA NewLabelsStated ==
  ASSUME Inv, NEW c \in Clients, pc[c] = "fetch"
  PROVE  /\ NewLabels(c, labels[task[c]]) \subseteq Labels
         /\ HasState(NewLabels(c, labels[task[c]]))
<1>1. labels[task[c]] \subseteq Labels /\ HasState(labels[task[c]]) /\ copy[c] \subseteq Labels
  BY DEF Inv, TypeOK, OpsWellFormed, NeverStateless, StatesOf, HasState
<1>2. CASE op[c].kind = "transition" /\ op[c].label \in States
  BY <1>1, <1>2 DEF NewLabels, HasState, Labels
<1>3. CASE op[c].kind = "priority"
  BY <1>1, <1>3 DEF NewLabels
<1>4. CASE op[c].kind \in {"add", "remove"} /\ op[c].label \in Tags
  <2>1. Wanted(c) \subseteq Labels
    BY <1>1, <1>4 DEF Wanted, Labels
  <2>2. NewLabels(c, labels[task[c]]) = Wanted(c) \cup (labels[task[c]] \cap States)
    BY <1>4 DEF NewLabels
  <2> QED BY <1>1, <2>1, <2>2 DEF HasState, Labels
<1> QED BY <1>2, <1>3, <1>4 DEF Inv, OpsWellFormed

\* Beginning an operation, with a label of its kind.
LEMMA BeginInv ==
  ASSUME Inv, NEW c \in Clients, NEW o \in Op, Begin(c, o),
         \/ o.kind = "transition" /\ o.label \in States
         \/ o.kind \in {"add", "remove"} /\ o.label \in Tags
         \/ o.kind = "priority"
  PROVE  Inv'
<1>1. TypeOK'
  BY BoundAssumption DEF Inv, TypeOK, Begin
<1>2. OpsWellFormed'
  BY DEF Inv, TypeOK, OpsWellFormed, Begin
<1>3. NeverStateless' /\ BodiesStated' /\ LateStated'
  BY DEF Inv, TypeOK, NeverStateless, BodiesStated, LateStated, StatesOf, Begin
<1> QED BY <1>1, <1>2, <1>3 DEF Inv

\* The steps of one client.
LEMMA ClientInv ==
  ASSUME Inv, NEW c \in Clients,
         \/ \E t \in Tasks : ListIssues(c, t)
         \/ \E s \in FleetStates : Transition(c, s) \/ TransitionRefused(c, s)
         \/ \E l \in Tags : AddLabel(c, l) \/ RemoveLabel(c, l)
         \/ SetPriority(c)
         \/ Fetch(c) \/ Put(c) \/ PutTimesOut(c) \/ RequestFails(c)
  PROVE  Inv'
<1> USE DEF Inv
<1>1. ASSUME NEW t \in Tasks, ListIssues(c, t) PROVE Inv'
  BY <1>1, BoundAssumption
  DEF ListIssues, TypeOK, OpsWellFormed, NeverStateless, BodiesStated, LateStated, StatesOf
<1>2. ASSUME NEW s \in FleetStates, Transition(c, s) PROVE Inv'
  BY <1>2, BeginInv DEF Transition, Op, Labels, States
<1>3. ASSUME NEW s \in FleetStates, TransitionRefused(c, s) PROVE Inv'
  BY <1>3, BoundAssumption
  DEF TransitionRefused, TypeOK, OpsWellFormed, NeverStateless, BodiesStated, LateStated, StatesOf
<1>4. ASSUME NEW l \in Tags, AddLabel(c, l) PROVE Inv'
  BY <1>4, BeginInv DEF AddLabel, Op, Labels
<1>5. ASSUME NEW l \in Tags, RemoveLabel(c, l) PROVE Inv'
  BY <1>5, BeginInv DEF RemoveLabel, Op, Labels
<1>6. CASE SetPriority(c)
  BY <1>6, BeginInv DEF SetPriority, Op
<1>7. CASE Fetch(c)
  <2>1. /\ NewLabels(c, labels[task[c]]) \subseteq Labels
        /\ HasState(NewLabels(c, labels[task[c]]))
    BY <1>7, NewLabelsStated DEF Fetch
  <2>2. TypeOK'
    BY <1>7, <2>1 DEF Fetch, TypeOK
  <2>3. OpsWellFormed'
    BY <1>7 DEF Fetch, TypeOK, OpsWellFormed
  <2>4. BodiesStated'
    BY <1>7, <2>1 DEF Fetch, TypeOK, BodiesStated, HasState
  <2>5. NeverStateless' /\ LateStated'
    BY <1>7 DEF Fetch, NeverStateless, LateStated, StatesOf
  <2> QED BY <2>2, <2>3, <2>4, <2>5
<1>8. CASE Put(c)
  <2>1. task[c] \in Tasks /\ body[c] \subseteq Labels /\ HasState(body[c])
    BY <1>8 DEF Put, TypeOK, OpsWellFormed, BodiesStated
  <2>2. op[c].kind \in {"add", "remove"} => Wanted(c) \subseteq Labels
    BY <1>8 DEF Put, TypeOK, OpsWellFormed, Wanted, Labels
  <2>3. TypeOK'
    BY <1>8, <2>1, <2>2 DEF Put, End, TypeOK, Op, NoOp
  <2>4. OpsWellFormed' /\ BodiesStated'
    BY <1>8 DEF Put, End, TypeOK, OpsWellFormed, BodiesStated
  <2>5. NeverStateless'
    BY <1>8, <2>1 DEF Put, TypeOK, NeverStateless, StatesOf, HasState
  <2>6. LateStated'
    BY <1>8 DEF Put, LateStated
  <2> QED BY <2>3, <2>4, <2>5, <2>6
<1>9. CASE PutTimesOut(c)
  <2>1. task[c] \in Tasks /\ body[c] \subseteq Labels /\ HasState(body[c])
    BY <1>9 DEF PutTimesOut, TypeOK, OpsWellFormed, BodiesStated
  <2>2. TypeOK' /\ LateStated'
    BY <1>9, <2>1 DEF PutTimesOut, TypeOK, LateStated
  <2>3. OpsWellFormed' /\ NeverStateless' /\ BodiesStated'
    BY <1>9 DEF PutTimesOut, OpsWellFormed, NeverStateless, BodiesStated, StatesOf
  <2> QED BY <2>2, <2>3
<1>10. CASE RequestFails(c)
  <2>1. TypeOK'
    BY <1>10 DEF RequestFails, End, TypeOK, Op, NoOp
  <2>2. OpsWellFormed' /\ NeverStateless' /\ BodiesStated' /\ LateStated'
    BY <1>10 DEF RequestFails, End, TypeOK, OpsWellFormed, NeverStateless, BodiesStated, LateStated,
                 StatesOf
  <2> QED BY <2>1, <2>2
<1> QED BY <1>1, <1>2, <1>3, <1>4, <1>5, <1>6, <1>7, <1>8, <1>9, <1>10

\* A PUT that arrives late had a state when it was sent.
LEMMA LateInv ==
  ASSUME Inv, NEW q \in late, LatePut(q)
  PROVE  Inv'
<1> USE DEF Inv
<1>1. q[1] \in Tasks /\ q[2] \subseteq Labels /\ HasState(q[2])
  BY DEF TypeOK, LateStated
<1>2. TypeOK'
  BY <1>1 DEF LatePut, TypeOK
<1>3. NeverStateless'
  BY <1>1 DEF LatePut, TypeOK, NeverStateless, StatesOf, HasState
<1>4. OpsWellFormed' /\ BodiesStated' /\ LateStated'
  BY DEF LatePut, OpsWellFormed, BodiesStated, LateStated
<1> QED BY <1>2, <1>3, <1>4

\* The invariant holds in every reachable state.
THEOREM Invariance == Spec => []Inv
<1>1. Inv /\ [Next]_vars => Inv'
  <2> SUFFICES ASSUME Inv, [Next]_vars PROVE Inv'
    OBVIOUS
  <2>1. ASSUME NEW c \in Clients,
               \/ \E t \in Tasks : ListIssues(c, t)
               \/ \E s \in FleetStates : Transition(c, s) \/ TransitionRefused(c, s)
               \/ \E l \in Tags : AddLabel(c, l) \/ RemoveLabel(c, l)
               \/ SetPriority(c)
               \/ Fetch(c) \/ Put(c) \/ PutTimesOut(c) \/ RequestFails(c)
        PROVE  Inv'
    BY <2>1, ClientInv
  <2>2. ASSUME NEW q \in late, LatePut(q) PROVE Inv'
    BY <2>2, LateInv
  <2>3. CASE UNCHANGED vars
    BY <2>3 DEF vars, Inv, TypeOK, OpsWellFormed, NeverStateless, BodiesStated, LateStated, StatesOf
  <2> QED BY <2>1, <2>2, <2>3 DEF Next
<1> QED BY <1>1, InitInv, PTL DEF Spec

\* Clients, operations and label sets keep their types (ForgejoClient).
THEOREM TypeCorrect == Spec => []TypeOK
BY Invariance, PTL DEF Inv

\* Whatever clients race, time out or work from old listings, transition_issue,
\* set_priority and update_issue_labels leave every issue with a state.
THEOREM StateNeverLost == Spec => []NeverStateless
BY Invariance, PTL DEF Inv
============================================================================

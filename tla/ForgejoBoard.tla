---------------------------- MODULE ForgejoBoard ----------------------------
(***************************************************************************)
(* The task board as adapters/forgejo/client.py keeps it.  Forgejo has no  *)
(* state field: the state of an issue is a label "state: X" among its      *)
(* other labels, and every write replaces the whole label set, computed    *)
(* from a fetch made a request earlier.  transition_issue, set_priority    *)
(* and update_issue_labels are such pairs of requests; the label helpers   *)
(* of the board worker compute the set they want from the copy of the      *)
(* issue that their caller listed, state label included.  A request that   *)
(* times out may still reach the server later, and is sent again.          *)
(***************************************************************************)
EXTENDS Naturals, FiniteSets

CONSTANTS
  Clients,      \* the fleet's processes with a board client
  Tasks,        \* issues
  KnownStates,  \* KNOWN_STATES
  FleetStates,  \* the states the fleet asks for: KNOWN_STATES, Running, In Review
  Tags,         \* fleet labels that are neither states nor priorities
  FirstState,   \* the state a task is created in
  MaxOps,       \* operations a client performs on one listing
  MaxLate,      \* timed-out requests still on their way
  None

States == KnownStates \cup FleetStates
Labels == States \cup Tags

ASSUME StateAssumption == FirstState \in KnownStates
ASSUME LabelAssumption ==
  /\ States \cap Tags = {}
  /\ None \notin Labels \cup Tasks
ASSUME BoundAssumption == MaxOps \in Nat /\ MaxLate \in Nat

VARIABLES
  labels,    \* task -> the labels the server has
  task,      \* client -> the issue it works on, or None
  copy,      \* client -> the labels in its copy of the issue
  pc,        \* client -> "idle", "fetch" or "put"
  op,        \* client -> the operation under way
  body,      \* client -> the label set of its PUT
  ops,       \* client -> operations begun on this listing
  late       \* timed-out PUTs that may still be applied

vars == <<labels, task, copy, pc, op, body, ops, late>>

NoOp == [kind |-> "none", label |-> None]
Op == [kind : {"none", "transition", "add", "remove", "priority"},
       label : Labels \cup {None}]

TypeOK ==
  /\ labels \in [Tasks -> SUBSET Labels]
  /\ task \in [Clients -> Tasks \cup {None}]
  /\ copy \in [Clients -> SUBSET Labels]
  /\ pc \in [Clients -> {"idle", "fetch", "put"}]
  /\ op \in [Clients -> Op]
  /\ body \in [Clients -> SUBSET Labels]
  /\ ops \in [Clients -> 0..MaxOps]
  /\ late \in SUBSET (Tasks \X SUBSET Labels)

\* create_issue with a known state.
Init ==
  /\ labels = [t \in Tasks |-> {FirstState}]
  /\ task = [c \in Clients |-> None]
  /\ copy = [c \in Clients |-> {}]
  /\ pc = [c \in Clients |-> "idle"]
  /\ op = [c \in Clients |-> NoOp]
  /\ body = [c \in Clients |-> {}]
  /\ ops = [c \in Clients |-> 0]
  /\ late = {}

----------------------------------------------------------------------------
\* list_issues: the caller takes an issue, and holds a copy of its labels.
ListIssues(c, t) ==
  /\ pc[c] = "idle"
  /\ task' = [task EXCEPT ![c] = t]
  /\ copy' = [copy EXCEPT ![c] = labels[t]]
  /\ ops' = [ops EXCEPT ![c] = 0]
  /\ UNCHANGED <<labels, pc, op, body, late>>

\* A client begins an operation with a request.
Begin(c, o) ==
  /\ pc[c] = "idle" /\ task[c] # None /\ ops[c] < MaxOps
  /\ ops' = [ops EXCEPT ![c] = @ + 1]
  /\ op' = [op EXCEPT ![c] = o]
  /\ pc' = [pc EXCEPT ![c] = "fetch"]
  /\ UNCHANGED <<labels, task, copy, body, late>>

Transition(c, s) ==
  /\ s \in KnownStates
  /\ Begin(c, [kind |-> "transition", label |-> s])

\* transition_issue raises UnknownStateError before any request.
TransitionRefused(c, s) ==
  /\ s \notin KnownStates
  /\ pc[c] = "idle" /\ task[c] # None /\ ops[c] < MaxOps
  /\ ops' = [ops EXCEPT ![c] = @ + 1]
  /\ UNCHANGED <<labels, task, copy, pc, op, body, late>>

\* add_label: nothing to do when the copy has the label.
AddLabel(c, l) == l \notin copy[c] /\ Begin(c, [kind |-> "add", label |-> l])

\* remove_labels: nothing to do when the copy has it not.
RemoveLabel(c, l) == l \in copy[c] /\ Begin(c, [kind |-> "remove", label |-> l])

\* set_priority: the "priority: ..." label itself is not tracked, but it too is a
\* fetch and a replacement of all labels.
SetPriority(c) == Begin(c, [kind |-> "priority", label |-> None])

\* The label set the helpers pass to update_issue_labels.
Wanted(c) ==
  IF op[c].kind = "add" THEN copy[c] \cup {op[c].label} ELSE copy[c] \ {op[c].label}

\* Mutant: update_issue_labels forgets the state label it has to preserve, and
\* the callers pass none.
NewLabelsUnstated(c, has) ==
  CASE op[c].kind = "transition" -> (has \ States) \cup {op[c].label}
    [] op[c].kind = "priority"   -> has
    [] OTHER                     -> Wanted(c) \ States

\* The label set of the PUT, from the labels the fetch returned.
NewLabels(c, has) ==
  CASE op[c].kind = "transition" -> (has \ States) \cup {op[c].label}
    [] op[c].kind = "priority"   -> has
    [] OTHER                     -> Wanted(c) \cup (has \cap States)

Fetch(c) ==
  /\ pc[c] = "fetch"
  /\ body' = [body EXCEPT ![c] = NewLabels(c, labels[task[c]])]
  /\ pc' = [pc EXCEPT ![c] = "put"]
  /\ UNCHANGED <<labels, task, copy, op, ops, late>>

\* The operation is over for its client.
End(c) ==
  /\ pc' = [pc EXCEPT ![c] = "idle"]
  /\ op' = [op EXCEPT ![c] = NoOp]
  /\ body' = [body EXCEPT ![c] = {}]
  /\ UNCHANGED <<task, ops>>

\* The PUT is applied and answered; the helpers then store the set they wanted
\* in their copy, transition_issue does not.
Put(c) ==
  /\ pc[c] = "put"
  /\ labels' = [labels EXCEPT ![task[c]] = body[c]]
  /\ copy' = [copy EXCEPT
       ![c] = IF op[c].kind \in {"add", "remove"} THEN Wanted(c) ELSE @]
  /\ End(c)
  /\ UNCHANGED late

\* _request times out: the PUT may have been lost or be on its way, and is sent
\* again.
PutTimesOut(c) ==
  /\ pc[c] = "put"
  /\ late' = late \cup {<<task[c], body[c]>>}
  /\ Cardinality(late') <= MaxLate
  /\ UNCHANGED <<labels, task, copy, pc, op, body, ops>>

\* The fourth attempt fails or the server refuses: the operation raises.
RequestFails(c) == pc[c] # "idle" /\ End(c) /\ UNCHANGED <<labels, copy, late>>

\* A PUT that timed out is applied after all.
LatePut(q) ==
  /\ labels' = [labels EXCEPT ![q[1]] = q[2]]
  /\ late' = late \ {q}
  /\ UNCHANGED <<task, copy, pc, op, body, ops>>

Next ==
  \/ \E c \in Clients :
       \/ \E t \in Tasks : ListIssues(c, t)
       \/ \E s \in FleetStates : Transition(c, s) \/ TransitionRefused(c, s)
       \/ \E l \in Tags : AddLabel(c, l) \/ RemoveLabel(c, l)
       \/ SetPriority(c)
       \/ Fetch(c) \/ Put(c) \/ PutTimesOut(c) \/ RequestFails(c)
  \/ \E q \in late : LatePut(q)

Spec == Init /\ [][Next]_vars

----------------------------------------------------------------------------
(* Properties.                                                             *)

StatesOf(t) == labels[t] \cap States

\* "a crash leaves two states, never zero - a task that has fallen off the board
\* is not recoverable": whatever writers race, time out or work from an old
\* listing, every issue keeps a state label.
NeverStateless == \A t \in Tasks : StatesOf(t) # {}

\* "exactly one is required" (state_of), "callers pass fleet vocabulary and know
\* nothing about `state: `" (update_issue_labels): an issue has one state.
OneState == \A t \in Tasks : Cardinality(StatesOf(t)) <= 1
============================================================================

------------------------- MODULE ProjectUpdatesProofs -------------------------
(***************************************************************************)
(* Proofs about ProjectUpdates, for any number of request threads,         *)
(* projects, proposals and revisions.                                      *)
(*                                                                         *)
(* The history properties are not inductive by themselves: that an approval *)
(* changes its base needs the base to be an existing revision, and that a  *)
(* status follows the transitions needs the change a thread carries to be  *)
(* one that was allowed on the revision it read.  RequestsOK and           *)
(* ProposalsOK say so, and IInv is the conjunction.                        *)
(***************************************************************************)
EXTENDS ProjectUpdates, TLAPS

\* What a thread may carry between its reads and its transaction.
RequestOK(r) ==
    /\ requests[r].pc \in {"mutate", "insert"} =>
          \E p \in Projects, e \in Revisions :
              /\ requests[r].project = p
              /\ requests[r].expected = e
              /\ e <= projects[p].revision
              /\ requests[r].pc = "mutate" =>
                    requests[r].values \in OwnerValues(history[p][e].state)
              /\ requests[r].pc = "insert" => requests[r].values \in ProposalValues
    /\ requests[r].pc \in {"judge", "apply", "stale", "reject"} =>
          \E x \in Proposals : requests[r].proposal = x /\ proposals[x] # NoProposal

RequestsOK == \A r \in Requests : RequestOK(r)

\* A proposal speaks of a revision that exists.
ProposalsOK ==
    \A x \in Proposals : proposals[x] # NoProposal =>
        proposals[x].base <= projects[proposals[x].project].revision

IInv ==
    /\ TypeOK
    /\ HistoryIsComplete
    /\ AppliedToItsBase
    /\ NoRevisionWithoutDecision
    /\ StatusFollowsTransitions
    /\ RequestsOK
    /\ ProposalsOK

-----------------------------------------------------------------------------
(* The values of a change.                                                 *)

LEMMA StateFacts ==
    ASSUME NEW s \in State
    PROVE  /\ s \in [Fields -> Values]
           /\ s["details"] \in Texts
           /\ s["status"] \in Statuses
           /\ s["summary"] \in Texts \cup {None}
           /\ s["next"] \in Texts \cup {None}
BY DEF State

\* A proposal's values leave title, objective and status alone.
LEMMA ProposalApplies ==
    ASSUME NEW s \in State, NEW v \in ProposalValues
    PROVE  /\ Apply(s, v) \in State
           /\ Apply(s, v)["status"] = s["status"]
<1>1. PICK F \in {{"summary"}, {"next"}, {"summary", "next"}} : v \in [F -> Texts]
  BY DEF ProposalValues
<1>2. \A f \in Fields : Apply(s, v)[f] = IF f \in F THEN v[f] ELSE s[f]
  BY <1>1 DEF Apply, Fields
<1>3. /\ Apply(s, v)["details"] = s["details"]
      /\ Apply(s, v)["status"] = s["status"]
  BY <1>1, <1>2 DEF Fields
<1>4. /\ Apply(s, v)["summary"] \in Texts \cup {None}
      /\ Apply(s, v)["next"] \in Texts \cup {None}
  BY <1>1, <1>2, StateFacts DEF Fields
<1>5. \A f \in Fields : Apply(s, v)[f] \in Values
  BY <1>3, <1>4, StateFacts DEF Fields, Values
<1>6. Apply(s, v) \in [Fields -> Values]
  BY <1>5 DEF Apply
<1> QED
  BY <1>3, <1>4, <1>6, StateFacts DEF State

\* An owner's change leaves a state, and moves the status as the table allows.
LEMMA OwnerApplies ==
    ASSUME NEW s \in State, NEW v \in OwnerValues(s)
    PROVE  /\ Apply(s, v) \in State
           /\ \/ Apply(s, v)["status"] = s["status"]
              \/ Apply(s, v)["status"] \in Transitions[s["status"]]
<1>1. PICK f \in Fields, t \in Values :
          /\ v = Set(f, t)
          /\ f = "details" => t \in Texts
          /\ f \in {"summary", "next"} => t \in Texts \cup {None}
          /\ f = "status" => t \in Transitions[s["status"]] /\ t \in Statuses
  <2>1. \A t : t \in Transitions[s["status"]] => t \in Statuses
    BY StateFacts DEF Transitions, Statuses
  <2>2. CASE \E t \in Texts : v = Set("details", t)
    BY <2>2 DEF Fields, Values
  <2>3. CASE \E f \in {"summary", "next"}, t \in Texts \cup {None} : v = Set(f, t)
    BY <2>3 DEF Fields, Values
  <2>4. CASE \E t \in Transitions[s["status"]] : v = Set("status", t)
    BY <2>1, <2>4 DEF Fields, Values
  <2> QED
    BY <2>2, <2>3, <2>4 DEF OwnerValues
<1>2. \A g \in Fields : Apply(s, v)[g] = IF g = f THEN t ELSE s[g]
  BY <1>1 DEF Apply, Set
<1>3. /\ Apply(s, v)["details"] \in Texts
      /\ Apply(s, v)["status"] \in Statuses
      /\ Apply(s, v)["summary"] \in Texts \cup {None}
      /\ Apply(s, v)["next"] \in Texts \cup {None}
  BY <1>1, <1>2, StateFacts DEF Fields
<1>4. \A g \in Fields : Apply(s, v)[g] \in Values
  BY <1>3 DEF Fields, Values
<1>5. Apply(s, v) \in [Fields -> Values]
  BY <1>4 DEF Apply
<1>6. \/ Apply(s, v)["status"] = s["status"]
      \/ Apply(s, v)["status"] \in Transitions[s["status"]]
  BY <1>1, <1>2 DEF Fields
<1> QED
  BY <1>3, <1>5, <1>6 DEF State

LEMMA InitialStateType ==
    ASSUME NEW t \in Texts
    PROVE  InitialState(t) \in State
BY DEF InitialState, State, Fields, Values, Statuses

-----------------------------------------------------------------------------
(* One committed revision.                                                 *)

\* What every step leaves of rows and snapshots.
HistoryKept ==
    /\ \A p \in Projects : Exists(p) =>
          /\ Exists(p)'
          /\ projects'[p].revision >= projects[p].revision
    /\ \A p \in Projects, n \in Revisions :
          history[p][n] # NoSnapshot => history'[p][n] = history[p][n]

LEMMA RowFacts ==
    ASSUME TypeOK, NEW p \in Projects
    PROVE  /\ projects[p] \in Row \cup {NoRow}
           /\ projects[p].revision \in 0..MaxRevision
           /\ projects[p].revision \in Nat
           /\ Exists(p) <=> projects[p].revision # 0
           /\ Exists(p) => /\ projects[p].revision \in Revisions
                           /\ projects[p].state \in State
                           /\ projects[p] = [revision |-> projects[p].revision,
                                             state |-> projects[p].state]
           /\ ~Exists(p) => projects[p].revision = 0
BY ConstantsAssumption DEF TypeOK, Row, NoRow, Exists, Revisions

LEMMA SnapshotFacts ==
    ASSUME TypeOK, HistoryIsComplete, NEW p \in Projects, NEW n \in Revisions
    PROVE  /\ history[p][n] \in Snapshot \cup {NoSnapshot}
           /\ n <= projects[p].revision => /\ history[p][n] # NoSnapshot
                                           /\ history[p][n] \in Snapshot
                                           /\ history[p][n].state \in State
           /\ history[p][n] # NoSnapshot => n <= projects[p].revision
<1>1. history[p][n] \in Snapshot \cup {NoSnapshot}
  BY DEF TypeOK
<1>2. n \in Nat /\ projects[p].revision \in Nat
  <2>1. n \in Nat
    BY ConstantsAssumption DEF Revisions
  <2>2. projects[p].revision \in Nat
    BY RowFacts
  <2> QED
    BY <2>1, <2>2
<1>3. history[p][n] = NoSnapshot <=> n > projects[p].revision
  BY DEF HistoryIsComplete
<1>4. history[p][n] \in Snapshot => history[p][n].state \in State
  BY DEF Snapshot
<1>5. n <= projects[p].revision <=> ~(n > projects[p].revision)
  BY <1>2
<1> QED
  BY <1>1, <1>3, <1>4, <1>5

\* The text of a note names a proposal or nothing; a snapshot with a note is one.
LEMMA NoteFacts ==
    ASSUME TypeOK, HistoryIsComplete, NEW p \in Projects, NEW n \in Revisions,
           history[p][n].note # None
    PROVE  /\ history[p][n] # NoSnapshot
           /\ history[p][n].note \in Proposals
           /\ n <= projects[p].revision
<1>1. history[p][n] # NoSnapshot
  BY DEF NoSnapshot
<1>2. history[p][n] \in Snapshot
  BY <1>1, SnapshotFacts
<1> QED
  BY <1>1, <1>2, SnapshotFacts DEF Snapshot

\* A change committed on the current revision adds the next one and keeps all
\* earlier ones; the added one follows the transitions.
LEMMA ReviseStep ==
    ASSUME TypeOK, HistoryIsComplete, StatusFollowsTransitions,
           NEW p \in Projects, NEW e, IsCurrent(p, e),
           NEW v \in ProposalValues \cup OwnerValues(projects[p].state),
           NEW note \in Proposals \cup {None},
           Revise(p, e, v, note)
    PROVE  /\ projects' \in [Projects -> Row \cup {NoRow}]
           /\ history' \in [Projects -> [Revisions -> Snapshot \cup {NoSnapshot}]]
           /\ HistoryIsComplete'
           /\ StatusFollowsTransitions'
           /\ HistoryKept
           /\ e + 1 \in Revisions
           /\ history'[p][e + 1] = [state |-> Apply(history[p][e].state, v), note |-> note]
           /\ \A q \in Projects, n \in Revisions :
                 q # p \/ n # e + 1 => history'[q][n] = history[q][n]
<1> DEFINE s == Apply(projects[p].state, v)
           row == [revision |-> e + 1, state |-> s]
           snap == [state |-> s, note |-> note]
<1>1. /\ e \in Revisions /\ e \in Nat /\ e >= 1
      /\ e + 1 \in Revisions
      /\ projects[p].revision = e
      /\ projects[p].state \in State
      /\ Exists(p)
  <2>1. Exists(p) /\ projects[p].revision = e /\ e < MaxRevision
    BY DEF IsCurrent
  <2>2. e \in Revisions /\ projects[p].state \in State
    BY <2>1, RowFacts
  <2> QED
    BY <2>1, <2>2, ConstantsAssumption DEF Revisions
<1>2. /\ s \in State
      /\ \/ s["status"] = projects[p].state["status"]
         \/ s["status"] \in Transitions[projects[p].state["status"]]
  BY <1>1, ProposalApplies, OwnerApplies
<1>3. /\ row \in Row /\ row.revision = e + 1 /\ row.state = s /\ row # NoRow
      /\ snap \in Snapshot /\ snap.state = s /\ snap.note = note /\ snap # NoSnapshot
  <2>1. row.revision # 0 /\ NoRow.revision = 0
    BY <1>1 DEF NoRow
  <2>2. DOMAIN snap = {"state", "note"} /\ DOMAIN NoSnapshot = {"note"} /\ "state" # "note"
    BY DEF NoSnapshot
  <2>3. snap # NoSnapshot
    BY <2>2
  <2> QED
    BY <1>1, <1>2, <2>1, <2>3 DEF Row, Snapshot
<1>4. /\ projects' = [projects EXCEPT ![p] = row]
      /\ history' = [history EXCEPT ![p][e + 1] = snap]
  BY <1>1 DEF Revise
<1>5. history[p][e].state = projects[p].state
  BY <1>1 DEF HistoryIsComplete
<1> HIDE DEF s, row, snap
<1>6. /\ projects' \in [Projects -> Row \cup {NoRow}]
      /\ history' \in [Projects -> [Revisions -> Snapshot \cup {NoSnapshot}]]
      /\ projects'[p] = row
      /\ history'[p][e + 1] = snap
      /\ \A q \in Projects : q # p => projects'[q] = projects[q]
      /\ \A q \in Projects, n \in Revisions :
            q # p \/ n # e + 1 => history'[q][n] = history[q][n]
  BY <1>1, <1>3, <1>4 DEF TypeOK
<1>7. HistoryIsComplete'
  <2> SUFFICES ASSUME NEW q \in Projects
               PROVE  /\ \A n \in Revisions :
                            history'[q][n] = NoSnapshot <=> n > projects'[q].revision
                      /\ Exists(q)' => history'[q][projects'[q].revision].state
                                           = projects'[q].state
    BY DEF HistoryIsComplete
  <2>1. CASE q # p
    <3>1. Exists(q) => projects[q].revision \in Revisions
      BY RowFacts
    <3> QED
      BY <2>1, <3>1, <1>6 DEF HistoryIsComplete, Exists
  <2>2. CASE q = p
    <3>1. \A n \in Revisions : history'[p][n] = NoSnapshot <=> n > e + 1
      <4> TAKE n \in Revisions
      <4>1. CASE n = e + 1
        BY <4>1, <1>1, <1>3, <1>6
      <4>2. CASE n # e + 1
        <5>1. history[p][n] = NoSnapshot <=> n > e
          BY <1>1 DEF HistoryIsComplete
        <5> QED
          BY <4>2, <5>1, <1>1, <1>6 DEF Revisions
      <4> QED
        BY <4>1, <4>2
    <3> QED
      BY <2>2, <3>1, <1>3, <1>6
  <2> QED
    BY <2>1, <2>2
<1>8. HistoryKept
  <2>1. \A q \in Projects : Exists(q) =>
           Exists(q)' /\ projects'[q].revision >= projects[q].revision
    <3> SUFFICES ASSUME NEW q \in Projects, Exists(q)
                 PROVE  Exists(q)' /\ projects'[q].revision >= projects[q].revision
      OBVIOUS
    <3>1. projects[q].revision \in Nat
      BY RowFacts
    <3>2. CASE q = p
      BY <3>2, <1>1, <1>3, <1>6 DEF Exists
    <3>3. CASE q # p
      BY <3>1, <3>3, <1>6 DEF Exists
    <3> QED
      BY <3>2, <3>3
  <2>2. history[p][e + 1] = NoSnapshot
    BY DEF IsCurrent
  <2> QED
    BY <2>1, <2>2, <1>6 DEF HistoryKept
<1>9. StatusFollowsTransitions'
  <2> SUFFICES ASSUME NEW q \in Projects, NEW n \in Revisions,
                      n + 1 <= projects'[q].revision
               PROVE  \/ history'[q][n + 1].state["status"] = history'[q][n].state["status"]
                      \/ history'[q][n + 1].state["status"]
                            \in Transitions[history'[q][n].state["status"]]
    BY DEF StatusFollowsTransitions
  <2>0. n + 1 \in Revisions
    <3>1. projects'[q] \in Row \cup {NoRow}
      BY <1>6
    <3>2. projects'[q].revision \in 0..MaxRevision
      BY <3>1, ConstantsAssumption DEF Row, NoRow, Revisions
    <3> QED
      BY <3>2, ConstantsAssumption DEF Revisions
  <2>1. CASE q # p
    BY <2>0, <2>1, <1>6 DEF StatusFollowsTransitions
  <2>2. CASE q = p /\ n # e
    <3>1. n + 1 <= e /\ n # e + 1 /\ n + 1 # e + 1
      BY <2>2, <1>1, <1>3, <1>6 DEF Revisions
    <3> QED
      BY <2>0, <2>2, <3>1, <1>1, <1>6 DEF StatusFollowsTransitions
  <2>3. CASE q = p /\ n = e
    <3>1. /\ history'[p][e + 1].state = s
          /\ history'[p][e].state = projects[p].state
      BY <1>1, <1>3, <1>5, <1>6
    <3>2. /\ s["status"] = projects[p].state["status"]
             \/ s["status"] \in Transitions[projects[p].state["status"]]
      BY <1>2
    <3> QED
      BY <2>3, <3>1, <3>2
  <2> QED
    BY <2>1, <2>2, <2>3
<1>10. snap = [state |-> Apply(history[p][e].state, v), note |-> note]
  BY <1>5 DEF snap, s
<1> QED
  BY <1>1, <1>6, <1>7, <1>8, <1>9, <1>10

\* A new project: its first revision, in its first state.
LEMMA CreateStep ==
    ASSUME TypeOK, HistoryIsComplete, StatusFollowsTransitions,
           NEW p \in Projects, CreateProject(p)
    PROVE  /\ projects' \in [Projects -> Row \cup {NoRow}]
           /\ history' \in [Projects -> [Revisions -> Snapshot \cup {NoSnapshot}]]
           /\ HistoryIsComplete'
           /\ StatusFollowsTransitions'
           /\ HistoryKept
           /\ \A q \in Projects, n \in Revisions :
                 history'[q][n] = history[q][n] \/ history'[q][n].note = None
<1>1. PICK t \in Texts :
         /\ projects' = [projects EXCEPT ![p] = [revision |-> 1, state |-> InitialState(t)]]
         /\ history' = [history EXCEPT ![p][1] = [state |-> InitialState(t), note |-> None]]
  BY DEF CreateProject
<1> DEFINE row == [revision |-> 1, state |-> InitialState(t)]
           snap == [state |-> InitialState(t), note |-> None]
<1>2. /\ ~Exists(p) /\ projects[p].revision = 0
      /\ 1 \in Revisions
  <2>1. ~Exists(p) /\ MaxRevision > 0
    BY DEF CreateProject
  <2>2. projects[p].revision = 0
    BY <2>1, RowFacts
  <2>3. 1 \in Revisions
    BY <2>1, ConstantsAssumption DEF Revisions
  <2> QED
    BY <2>1, <2>2, <2>3
<1>3. /\ row \in Row /\ row.revision = 1 /\ row.state = InitialState(t) /\ row # NoRow
      /\ snap \in Snapshot /\ snap.state = InitialState(t) /\ snap.note = None
      /\ snap # NoSnapshot
  <2>1. DOMAIN snap = {"state", "note"} /\ DOMAIN NoSnapshot = {"note"} /\ "state" # "note"
    BY DEF NoSnapshot
  <2>2. row.revision # 0 /\ NoRow.revision = 0
    BY DEF NoRow
  <2> QED
    BY <1>2, <2>1, <2>2, InitialStateType DEF Row, Snapshot
<1>4. /\ projects' = [projects EXCEPT ![p] = row]
      /\ history' = [history EXCEPT ![p][1] = snap]
  BY <1>1
<1> HIDE DEF row, snap
<1>5. /\ projects' \in [Projects -> Row \cup {NoRow}]
      /\ history' \in [Projects -> [Revisions -> Snapshot \cup {NoSnapshot}]]
      /\ projects'[p] = row
      /\ history'[p][1] = snap
      /\ \A q \in Projects : q # p => projects'[q] = projects[q]
      /\ \A q \in Projects, n \in Revisions :
            q # p \/ n # 1 => history'[q][n] = history[q][n]
  BY <1>2, <1>3, <1>4 DEF TypeOK
<1>6. \A n \in Revisions : history[p][n] = NoSnapshot
  <2> TAKE n \in Revisions
  <2>1. n > projects[p].revision
    BY <1>2, ConstantsAssumption DEF Revisions
  <2> QED
    BY <2>1 DEF HistoryIsComplete
<1>7. HistoryIsComplete'
  <2> SUFFICES ASSUME NEW q \in Projects
               PROVE  /\ \A n \in Revisions :
                            history'[q][n] = NoSnapshot <=> n > projects'[q].revision
                      /\ Exists(q)' => history'[q][projects'[q].revision].state
                                           = projects'[q].state
    BY DEF HistoryIsComplete
  <2>1. CASE q # p
    <3>1. Exists(q) => projects[q].revision \in Revisions
      BY RowFacts
    <3> QED
      BY <2>1, <3>1, <1>5 DEF HistoryIsComplete, Exists
  <2>2. CASE q = p
    <3>1. \A n \in Revisions : history'[p][n] = NoSnapshot <=> n > 1
      BY <1>3, <1>5, <1>6, ConstantsAssumption DEF Revisions
    <3> QED
      BY <2>2, <3>1, <1>3, <1>5
  <2> QED
    BY <2>1, <2>2
<1>8. HistoryKept
  <2>1. \A q \in Projects : Exists(q) =>
           Exists(q)' /\ projects'[q].revision >= projects[q].revision
    <3> SUFFICES ASSUME NEW q \in Projects, Exists(q)
                 PROVE  Exists(q)' /\ projects'[q].revision >= projects[q].revision
      OBVIOUS
    <3>1. projects[q].revision \in Nat /\ q # p
      BY RowFacts, <1>2
    <3> QED
      BY <3>1, <1>5 DEF Exists
  <2> QED
    BY <2>1, <1>2, <1>5, <1>6 DEF HistoryKept
<1>9. StatusFollowsTransitions'
  <2> SUFFICES ASSUME NEW q \in Projects, NEW n \in Revisions,
                      n + 1 <= projects'[q].revision
               PROVE  \/ history'[q][n + 1].state["status"] = history'[q][n].state["status"]
                      \/ history'[q][n + 1].state["status"]
                            \in Transitions[history'[q][n].state["status"]]
    BY DEF StatusFollowsTransitions
  <2>1. q # p
    BY <1>3, <1>5, ConstantsAssumption DEF Revisions
  <2>2. projects'[q] = projects[q] /\ projects[q].revision \in 0..MaxRevision
    BY <2>1, <1>5, RowFacts
  <2>3. n + 1 \in Revisions
    BY <2>2, ConstantsAssumption DEF Revisions
  <2> QED
    BY <2>1, <2>2, <2>3, <1>5 DEF StatusFollowsTransitions
<1>10. \A q \in Projects, n \in Revisions :
          history'[q][n] = history[q][n] \/ history'[q][n].note = None
  BY <1>3, <1>5
<1> QED
  BY <1>5, <1>7, <1>8, <1>9, <1>10

-----------------------------------------------------------------------------
(* What a step that keeps the history keeps besides.                       *)

AppliedOK(x) ==
    proposals[x].status = "APPLIED" =>
        /\ proposals[x].applied = proposals[x].base + 1
        /\ history[proposals[x].project][proposals[x].applied] =
              [state |-> Apply(history[proposals[x].project][proposals[x].base].state,
                               proposals[x].values),
               note |-> x]

NoteOK(p, n) ==
    history[p][n].note # None =>
        /\ proposals[history[p][n].note].status = "APPLIED"
        /\ proposals[history[p][n].note].project = p
        /\ proposals[history[p][n].note].applied = n

LEMMA ByParts ==
    /\ AppliedToItsBase <=> \A x \in Proposals : AppliedOK(x)
    /\ NoRevisionWithoutDecision
          <=> \A p \in Projects, n \in Revisions : NoteOK(p, n)
BY DEF AppliedToItsBase, AppliedOK, NoRevisionWithoutDecision, NoteOK

LEMMA ProposalFacts ==
    ASSUME TypeOK, NEW x \in Proposals
    PROVE  /\ proposals[x] \in Proposal \cup {NoProposal}
           /\ proposals[x] # NoProposal =>
                 /\ proposals[x] \in Proposal
                 /\ proposals[x].project \in Projects
                 /\ proposals[x].base \in Revisions
                 /\ proposals[x].base \in Nat
                 /\ proposals[x].base >= 1
                 /\ proposals[x].values \in ProposalValues
           /\ proposals[x] = NoProposal => proposals[x].status = "absent"
           /\ proposals[x].status # "absent" => proposals[x] # NoProposal
BY ConstantsAssumption DEF TypeOK, Proposal, NoProposal, Revisions

\* An applied proposal stays one that changed its base.
LEMMA AppliedKept ==
    ASSUME TypeOK, HistoryIsComplete, ProposalsOK, HistoryKept,
           NEW x \in Proposals, proposals'[x] = proposals[x], AppliedOK(x)
    PROVE  AppliedOK(x)'
<1> SUFFICES ASSUME proposals[x].status = "APPLIED"
             PROVE  AppliedOK(x)'
  BY DEF AppliedOK
<1> DEFINE y == proposals[x]
<1>1. /\ y.project \in Projects /\ y.base \in Revisions
      /\ y.base <= projects[y.project].revision
  BY ProposalFacts DEF ProposalsOK
<1>2. history[y.project][y.base] # NoSnapshot
  BY <1>1, SnapshotFacts
<1>3. history'[y.project][y.base] = history[y.project][y.base]
  BY <1>1, <1>2 DEF HistoryKept
<1>4. /\ y.applied = y.base + 1
      /\ history[y.project][y.applied] =
            [state |-> Apply(history[y.project][y.base].state, y.values), note |-> x]
  BY DEF AppliedOK
<1>5. history[y.project][y.applied] # NoSnapshot
  <2>1. DOMAIN history[y.project][y.applied] = {"state", "note"}
    BY <1>4
  <2>2. DOMAIN NoSnapshot = {"note"} /\ "state" # "note"
    BY DEF NoSnapshot
  <2> QED
    BY <2>1, <2>2
<1>6. y.applied \in Revisions
  <2>1. y \in Proposal
    BY ProposalFacts
  <2>2. y.applied \in 0..MaxRevision /\ y.base \in Nat /\ y.base >= 1
    BY <2>1, ProposalFacts DEF Proposal
  <2> QED
    BY <2>2, <1>4, ConstantsAssumption DEF Revisions
<1>7. history'[y.project][y.applied] = history[y.project][y.applied]
  BY <1>1, <1>5, <1>6 DEF HistoryKept
<1>8. proposals'[x] = y
  OBVIOUS
<1> HIDE DEF y
<1> QED
  BY <1>3, <1>4, <1>7, <1>8 DEF AppliedOK

\* A snapshot that stays, or has no note, keeps its decision as long as applied
\* proposals stay.
LEMMA NoteKept ==
    ASSUME TypeOK, HistoryIsComplete,
           \A x \in Proposals :
              proposals[x].status = "APPLIED" => proposals'[x] = proposals[x],
           NEW p \in Projects, NEW n \in Revisions, NoteOK(p, n),
           (history'[p][n] = history[p][n] \/ history'[p][n].note = None)
    PROVE  NoteOK(p, n)'
<1> SUFFICES ASSUME history'[p][n].note # None
             PROVE  NoteOK(p, n)'
  BY DEF NoteOK
<1>1. history'[p][n] = history[p][n]
  OBVIOUS
<1>2. history[p][n].note \in Proposals
  BY <1>1, NoteFacts
<1> QED
  BY <1>1, <1>2 DEF NoteOK

\* A revision that is there stays there, and its snapshot stays as it is.
LEMMA RevisionKept ==
    ASSUME TypeOK, HistoryIsComplete, HistoryKept,
           projects' \in [Projects -> Row \cup {NoRow}],
           NEW p \in Projects, NEW e \in Revisions, e <= projects[p].revision
    PROVE  /\ e <= projects'[p].revision
           /\ history'[p][e] = history[p][e]
<1>1. /\ projects[p].revision \in Nat /\ e \in Nat /\ e >= 1
      /\ projects[p].revision # 0
  <2>1. projects[p].revision \in Nat
    BY RowFacts
  <2>2. e \in Nat /\ e >= 1
    BY ConstantsAssumption DEF Revisions
  <2> QED
    BY <2>1, <2>2
<1>2. Exists(p)
  BY <1>1, RowFacts
<1>3. projects'[p].revision >= projects[p].revision
  BY <1>2 DEF HistoryKept
<1>4. history'[p][e] = history[p][e]
  BY SnapshotFacts DEF HistoryKept
<1>5. projects'[p].revision \in Nat
  <2>1. projects'[p] \in Row \cup {NoRow}
    OBVIOUS
  <2> QED
    BY <2>1, ConstantsAssumption DEF Row, NoRow, Revisions
<1>6. e <= projects'[p].revision
  BY <1>1, <1>3, <1>5
<1> QED
  BY <1>4, <1>6

\* What a thread carries stays good while rows, snapshots and proposals stay.
LEMMA RequestKept ==
    ASSUME TypeOK, HistoryIsComplete, HistoryKept,
           projects' \in [Projects -> Row \cup {NoRow}],
           \A x \in Proposals : proposals[x] # NoProposal => proposals'[x] # NoProposal,
           NEW o \in Requests, requests'[o] = requests[o], RequestOK(o)
    PROVE  RequestOK(o)'
<1> DEFINE q == requests[o]
<1>0. requests'[o] = q
  OBVIOUS
<1>1. ASSUME q.pc \in {"mutate", "insert"}
      PROVE  \E p \in Projects, e \in Revisions :
                /\ q.project = p
                /\ q.expected = e
                /\ e <= projects'[p].revision
                /\ q.pc = "mutate" => q.values \in OwnerValues(history'[p][e].state)
                /\ q.pc = "insert" => q.values \in ProposalValues
  <2>1. PICK p \in Projects, e \in Revisions :
                /\ q.project = p
                /\ q.expected = e
                /\ e <= projects[p].revision
                /\ q.pc = "mutate" => q.values \in OwnerValues(history[p][e].state)
                /\ q.pc = "insert" => q.values \in ProposalValues
    BY <1>1 DEF RequestOK
  <2>2. e <= projects'[p].revision /\ history'[p][e] = history[p][e]
    BY <2>1, RevisionKept
  <2> QED
    BY <2>1, <2>2
<1>2. ASSUME q.pc \in {"judge", "apply", "stale", "reject"}
      PROVE  \E x \in Proposals : q.proposal = x /\ proposals'[x] # NoProposal
  BY <1>2 DEF RequestOK
<1> HIDE DEF q
<1> QED
  BY <1>0, <1>1, <1>2 DEF RequestOK

\* A proposal's base stays a revision of its project.
LEMMA BaseKept ==
    ASSUME TypeOK, HistoryIsComplete, HistoryKept, ProposalsOK,
           projects' \in [Projects -> Row \cup {NoRow}],
           NEW x \in Proposals, proposals[x] # NoProposal,
           NEW y, y.project = proposals[x].project, y.base = proposals[x].base
    PROVE  y.base <= projects'[y.project].revision
<1>1. PICK p \in Projects, e \in Revisions :
         /\ proposals[x].project = p
         /\ proposals[x].base = e
         /\ e <= projects[p].revision
  BY ProposalFacts DEF ProposalsOK
<1>2. e <= projects'[p].revision
  BY <1>1, RevisionKept
<1> QED
  BY <1>1, <1>2

\* The conjuncts of IInv that a step has to see to, and those that follow.
LEMMA StepKeeps ==
    ASSUME IInv,
           projects' \in [Projects -> Row \cup {NoRow}],
           history' \in [Projects -> [Revisions -> Snapshot \cup {NoSnapshot}]],
           proposals' \in [Proposals -> Proposal \cup {NoProposal}],
           requests' \in [Requests -> Request],
           HistoryIsComplete', StatusFollowsTransitions', HistoryKept,
           \A x \in Proposals : proposals[x] # NoProposal => proposals'[x] # NoProposal,
           \A x \in Proposals :
              proposals[x].status = "APPLIED" => proposals'[x] = proposals[x],
           \A x \in Proposals :
              \/ proposals'[x] = proposals[x]
              \/ /\ AppliedOK(x)'
                 /\ proposals'[x].base <= projects'[proposals'[x].project].revision,
           \A p \in Projects, n \in Revisions :
              \/ history'[p][n] = history[p][n]
              \/ history'[p][n].note = None
              \/ NoteOK(p, n)',
           \A o \in Requests : requests'[o] = requests[o] \/ RequestOK(o)'
    PROVE  IInv'
<1> USE DEF IInv
<1>1. TypeOK'
  BY DEF TypeOK
<1>2. \A x \in Proposals : AppliedOK(x)'
  <2> TAKE x \in Proposals
  <2>1. AppliedOK(x)
    BY ByParts
  <2> QED
    BY <2>1, AppliedKept
<1>3. AppliedToItsBase'
  BY <1>2 DEF AppliedToItsBase, AppliedOK
<1>4. \A p \in Projects, n \in Revisions : NoteOK(p, n)'
  <2> TAKE p \in Projects, n \in Revisions
  <2>1. NoteOK(p, n)
    BY ByParts
  <2> QED
    BY <2>1, NoteKept
<1>5. NoRevisionWithoutDecision'
  BY <1>4 DEF NoRevisionWithoutDecision, NoteOK
<1>6. RequestsOK'
  <2> SUFFICES ASSUME NEW o \in Requests
               PROVE  RequestOK(o)'
    BY DEF RequestsOK
  <2>1. RequestOK(o)
    BY DEF RequestsOK
  <2> QED
    BY <2>1, RequestKept
<1>7. ProposalsOK'
  <2> SUFFICES ASSUME NEW x \in Proposals, proposals'[x] # NoProposal
               PROVE  proposals'[x].base <= projects'[proposals'[x].project].revision
    BY DEF ProposalsOK
  <2> DEFINE y == proposals'[x]
  <2>1. CASE proposals'[x] = proposals[x]
    <3>1. /\ y.project = proposals[x].project
          /\ y.base = proposals[x].base
          /\ proposals[x] # NoProposal
      BY <2>1
    <3> HIDE DEF y
    <3>2. y.base <= projects'[y.project].revision
      BY <3>1, BaseKept
    <3> QED
      BY <3>2 DEF y
  <2>2. CASE proposals'[x] # proposals[x]
    BY <2>2
  <2> QED
    BY <2>1, <2>2
<1> QED
  BY <1>1, <1>3, <1>5, <1>6, <1>7

\* Steps that leave rows and snapshots alone.
LEMMA RowsStay ==
    ASSUME IInv, UNCHANGED <<projects, history>>
    PROVE  /\ projects' \in [Projects -> Row \cup {NoRow}]
           /\ history' \in [Projects -> [Revisions -> Snapshot \cup {NoSnapshot}]]
           /\ HistoryIsComplete'
           /\ StatusFollowsTransitions'
           /\ HistoryKept
<1>1. \A p \in Projects : projects[p].revision >= projects[p].revision
  <2> TAKE p \in Projects
  <2>1. projects[p].revision \in Nat
    BY RowFacts DEF IInv
  <2> QED
    BY <2>1
<1>2. HistoryKept
  BY <1>1 DEF HistoryKept, Exists
<1> QED
  BY <1>2 DEF IInv, TypeOK, HistoryIsComplete, StatusFollowsTransitions, Exists

LEMMA IdleFacts ==
    /\ Idle \in Request
    /\ Idle.pc = "idle"
BY ConstantsAssumption DEF Idle, Request

\* The end of a thread's work.
LEMMA Replies ==
    ASSUME IInv, NEW r \in Requests, Reply(r)
    PROVE  /\ requests' \in [Requests -> Request]
           /\ \A o \in Requests : requests'[o] = requests[o] \/ RequestOK(o)'
<1>1. /\ requests' = [requests EXCEPT ![r] = Idle]
      /\ requests \in [Requests -> Request]
  BY DEF Reply, Goes, IInv, TypeOK
<1>2. requests' \in [Requests -> Request]
  BY <1>1, IdleFacts
<1>3. requests'[r].pc = "idle"
  BY <1>1, IdleFacts
<1>4. RequestOK(r)'
  BY <1>3 DEF RequestOK
<1> QED
  BY <1>1, <1>2, <1>4

\* A thread that moves on and changes nothing else.
LEMMA OnlyRequest ==
    ASSUME IInv, UNCHANGED <<projects, history, proposals>>,
           NEW r \in Requests, NEW q \in Request, Goes(r, q), RequestOK(r)'
    PROVE  IInv'
<1>1. /\ requests' \in [Requests -> Request]
      /\ \A o \in Requests : requests'[o] = requests[o] \/ RequestOK(o)'
  BY DEF Goes, IInv, TypeOK
<1>2. /\ proposals' \in [Proposals -> Proposal \cup {NoProposal}]
      /\ \A x \in Proposals : proposals'[x] = proposals[x]
      /\ \A p \in Projects, n \in Revisions : history'[p][n] = history[p][n]
  BY DEF IInv, TypeOK
<1> QED
  BY <1>1, <1>2, RowsStay, StepKeeps

-----------------------------------------------------------------------------
(* One lemma per action.                                                   *)

LEMMA CreateProjectKeeps ==
    ASSUME IInv, NEW p \in Projects, CreateProject(p)
    PROVE  IInv'
<1>1. /\ UNCHANGED proposals
      /\ requests' \in [Requests -> Request]
      /\ \A o \in Requests : requests'[o] = requests[o]
      /\ proposals' \in [Proposals -> Proposal \cup {NoProposal}]
  BY DEF CreateProject, IInv, TypeOK
<1>2. TypeOK /\ HistoryIsComplete /\ StatusFollowsTransitions
  BY DEF IInv
<1>3. /\ projects' \in [Projects -> Row \cup {NoRow}]
      /\ history' \in [Projects -> [Revisions -> Snapshot \cup {NoSnapshot}]]
      /\ HistoryIsComplete'
      /\ StatusFollowsTransitions'
      /\ HistoryKept
      /\ \A q \in Projects, n \in Revisions :
            history'[q][n] = history[q][n] \/ history'[q][n].note = None
  BY <1>2, CreateStep
<1> QED
  BY <1>1, <1>3, StepKeeps

\* The change asked for is one the owner may ask of the revision that was read.
LEMMA MutateBeginKeeps ==
    ASSUME IInv, NEW r \in Requests, NEW p \in Projects, MutateBegin(r, p)
    PROVE  IInv'
<1>1. PICK v \in OwnerValues(projects[p].state) :
         Goes(r, [Idle EXCEPT !.pc = "mutate", !.project = p, !.values = v,
                     !.expected = projects[p].revision])
  BY DEF MutateBegin
<1>2. /\ UNCHANGED <<projects, history, proposals>>
      /\ Exists(p)
      /\ requests \in [Requests -> Request]
  BY DEF MutateBegin, IInv, TypeOK
<1>3. PICK e : e = projects[p].revision
  OBVIOUS
<1>4. /\ e \in Revisions /\ e \in 0..MaxRevision /\ e <= e
      /\ projects[p].state \in State
  <2>1. e \in Revisions /\ projects[p].state \in State
    BY <1>2, <1>3, RowFacts DEF IInv
  <2> QED
    BY <2>1, ConstantsAssumption DEF Revisions
<1>5. history[p][e].state = projects[p].state
  BY <1>2, <1>3 DEF IInv, HistoryIsComplete
<1>6. v \in ChangeValues
  BY <1>4 DEF ChangeValues
<1> DEFINE q == [Idle EXCEPT !.pc = "mutate", !.project = p, !.values = v,
                     !.expected = e]
<1>7. /\ q \in Request /\ q.pc = "mutate" /\ q.project = p
      /\ q.values = v /\ q.expected = e
  BY <1>4, <1>6 DEF Idle, Request
<1>8. Goes(r, q)
  BY <1>1, <1>3
<1> HIDE DEF q
<1>9. requests'[r] = q
  BY <1>2, <1>8 DEF Goes
<1>10. RequestOK(r)'
  BY <1>2, <1>3, <1>4, <1>5, <1>7, <1>9 DEF RequestOK
<1> QED
  BY <1>2, <1>7, <1>8, <1>10, OnlyRequest

LEMMA ProposeBeginKeeps ==
    ASSUME IInv, NEW r \in Requests, NEW p \in Projects, ProposeBegin(r, p)
    PROVE  IInv'
<1>1. PICK v \in ProposalValues :
         Goes(r, [Idle EXCEPT !.pc = "insert", !.project = p, !.values = v,
                     !.expected = projects[p].revision])
  BY DEF ProposeBegin
<1>2. /\ UNCHANGED <<projects, history, proposals>>
      /\ Exists(p)
      /\ requests \in [Requests -> Request]
  BY DEF ProposeBegin, IInv, TypeOK
<1>3. PICK e : e = projects[p].revision
  OBVIOUS
<1>4. e \in Revisions /\ e \in 0..MaxRevision /\ e <= e
  <2>1. e \in Revisions
    BY <1>2, <1>3, RowFacts DEF IInv
  <2> QED
    BY <2>1, ConstantsAssumption DEF Revisions
<1>6. v \in ChangeValues
  BY DEF ChangeValues
<1> DEFINE q == [Idle EXCEPT !.pc = "insert", !.project = p, !.values = v,
                     !.expected = e]
<1>7. /\ q \in Request /\ q.pc = "insert" /\ q.project = p
      /\ q.values = v /\ q.expected = e
  BY <1>4, <1>6 DEF Idle, Request
<1>8. Goes(r, q)
  BY <1>1, <1>3
<1> HIDE DEF q
<1>9. requests'[r] = q
  BY <1>2, <1>8 DEF Goes
<1>10. RequestOK(r)'
  BY <1>2, <1>3, <1>4, <1>7, <1>9 DEF RequestOK
<1> QED
  BY <1>2, <1>7, <1>8, <1>10, OnlyRequest

LEMMA RequirePendingKeeps ==
    ASSUME IInv, NEW r \in Requests, NEW x \in Proposals,
           NEW to \in {"judge", "reject"}, RequirePending(r, x, to)
    PROVE  IInv'
<1> DEFINE q == [Idle EXCEPT !.pc = to, !.proposal = x]
<1>1. /\ Goes(r, q)
      /\ UNCHANGED <<projects, history, proposals>>
      /\ proposals[x].status = "PENDING"
      /\ requests \in [Requests -> Request]
  BY DEF RequirePending, Pending, IInv, TypeOK
<1>2. proposals[x] # NoProposal
  BY <1>1, ProposalFacts DEF IInv
<1>3. q \in Request /\ q.pc = to /\ q.proposal = x
  <2>1. Idle \in Request
    BY IdleFacts
  <2>2. to \in {"idle", "mutate", "insert", "judge", "apply", "stale", "reject"}
    OBVIOUS
  <2>3. q \in Request
    BY <2>1, <2>2 DEF Request
  <2>4. q.pc = to /\ q.proposal = x
    BY <2>1 DEF Request
  <2> QED
    BY <2>3, <2>4
<1> HIDE DEF q
<1>4. requests'[r] = q
  BY <1>1 DEF Goes
<1>5. RequestOK(r)'
  BY <1>1, <1>2, <1>3, <1>4 DEF RequestOK
<1> QED
  BY <1>1, <1>3, <1>5, OnlyRequest

LEMMA ApproveJudgeKeeps ==
    ASSUME IInv, NEW r \in Requests, ApproveJudge(r)
    PROVE  IInv'
<1>1. PICK pc \in {"apply", "stale"} : Goes(r, [requests[r] EXCEPT !.pc = pc])
  BY DEF ApproveJudge
<1>2. /\ UNCHANGED <<projects, history, proposals>>
      /\ requests[r].pc = "judge"
      /\ requests[r] \in Request
      /\ requests \in [Requests -> Request]
  BY DEF ApproveJudge, IInv, TypeOK
<1>3. PICK x \in Proposals : requests[r].proposal = x /\ proposals[x] # NoProposal
  BY <1>2 DEF IInv, RequestsOK, RequestOK
<1> DEFINE q == [requests[r] EXCEPT !.pc = pc]
<1>4. q \in Request /\ q.pc = pc /\ q.proposal = x
  BY <1>2, <1>3 DEF Request
<1>5. Goes(r, q)
  BY <1>1
<1> HIDE DEF q
<1>6. requests'[r] = q
  BY <1>2, <1>5 DEF Goes
<1>7. RequestOK(r)'
  BY <1>2, <1>3, <1>4, <1>6 DEF RequestOK
<1> QED
  BY <1>2, <1>4, <1>5, <1>7, OnlyRequest

LEMMA DatabaseFailsKeeps ==
    ASSUME IInv, NEW r \in Requests, DatabaseFails(r)
    PROVE  IInv'
<1>1. Reply(r) /\ UNCHANGED <<projects, history, proposals>>
  BY DEF DatabaseFails
<1>2. requests'[r].pc = "idle"
  BY <1>1, IdleFacts DEF Reply, Goes, IInv, TypeOK
<1>3. RequestOK(r)'
  BY <1>2 DEF RequestOK
<1> QED
  BY <1>1, <1>3, IdleFacts, OnlyRequest DEF Reply

\* The change a thread carries was allowed on the revision it read, and the
\* update is made only if that still is the current one.
LEMMA MutateKeeps ==
    ASSUME IInv, NEW r \in Requests, Mutate(r)
    PROVE  IInv'
<1>1. /\ requests[r].pc = "mutate"
      /\ Reply(r)
      /\ UNCHANGED proposals
      /\ proposals' \in [Proposals -> Proposal \cup {NoProposal}]
      /\ \A x \in Proposals : proposals'[x] = proposals[x]
  BY DEF Mutate, IInv, TypeOK
<1>2. /\ requests' \in [Requests -> Request]
      /\ \A o \in Requests : requests'[o] = requests[o] \/ RequestOK(o)'
  BY <1>1, Replies
<1>3. PICK p \in Projects, e \in Revisions :
         /\ requests[r].project = p
         /\ requests[r].expected = e
         /\ requests[r].values \in OwnerValues(history[p][e].state)
  BY <1>1 DEF IInv, RequestsOK, RequestOK
<1>4. PICK v : v = requests[r].values
  OBVIOUS
<1>5. CASE IsCurrent(p, e)
  <2>1. Revise(p, e, v, None)
    BY <1>3, <1>4, <1>5 DEF Mutate
  <2>2. history[p][e].state = projects[p].state
    BY <1>5 DEF IsCurrent, IInv, HistoryIsComplete
  <2>3. v \in ProposalValues \cup OwnerValues(projects[p].state)
    BY <1>3, <1>4, <2>2
  <2>4. TypeOK /\ HistoryIsComplete /\ StatusFollowsTransitions
    BY DEF IInv
  <2>5. /\ projects' \in [Projects -> Row \cup {NoRow}]
        /\ history' \in [Projects -> [Revisions -> Snapshot \cup {NoSnapshot}]]
        /\ HistoryIsComplete'
        /\ StatusFollowsTransitions'
        /\ HistoryKept
        /\ history'[p][e + 1] = [state |-> Apply(history[p][e].state, v), note |-> None]
        /\ \A q \in Projects, n \in Revisions :
              q # p \/ n # e + 1 => history'[q][n] = history[q][n]
    BY <1>5, <2>1, <2>3, <2>4, ReviseStep
  <2>6. history'[p][e + 1].note = None
    BY <2>5
  <2>7. \A q \in Projects, n \in Revisions :
           history'[q][n] = history[q][n] \/ history'[q][n].note = None
    BY <2>5, <2>6
  <2> QED
    BY <1>1, <1>2, <2>5, <2>7, StepKeeps
<1>6. CASE ~IsCurrent(p, e)
  <2>1. UNCHANGED <<projects, history>>
    BY <1>3, <1>6 DEF Mutate
  <2>2. \A q \in Projects, n \in Revisions : history'[q][n] = history[q][n]
    BY <2>1
  <2> QED
    BY <1>1, <1>2, <2>1, <2>2, RowsStay, StepKeeps
<1> QED
  BY <1>5, <1>6

LEMMA ProposeInsertKeeps ==
    ASSUME IInv, NEW r \in Requests, NEW x \in Proposals, ProposeInsert(r, x)
    PROVE  IInv'
<1>1. /\ requests[r].pc = "insert"
      /\ proposals[x] = NoProposal
      /\ Reply(r)
      /\ UNCHANGED <<projects, history>>
      /\ proposals \in [Proposals -> Proposal \cup {NoProposal}]
  BY DEF ProposeInsert, IInv, TypeOK
<1>2. /\ requests' \in [Requests -> Request]
      /\ \A o \in Requests : requests'[o] = requests[o] \/ RequestOK(o)'
  BY <1>1, Replies
<1>3. PICK p \in Projects, e \in Revisions :
         /\ requests[r].project = p
         /\ requests[r].expected = e
         /\ e <= projects[p].revision
         /\ requests[r].values \in ProposalValues
  BY <1>1 DEF IInv, RequestsOK, RequestOK
<1> DEFINE y == [status |-> "PENDING", project |-> p, base |-> e,
                 values |-> requests[r].values, applied |-> 0]
<1>4. proposals' = [proposals EXCEPT ![x] = y]
  BY <1>3 DEF ProposeInsert
<1>5. /\ y \in Proposal /\ y.status = "PENDING" /\ y.project = p /\ y.base = e
      /\ y # NoProposal
  <2>1. y \in Proposal
    BY <1>3, ConstantsAssumption DEF Proposal
  <2>2. y.status = "PENDING" /\ NoProposal.status = "absent"
    BY DEF NoProposal
  <2>3. y # NoProposal
    BY <2>2
  <2> QED
    BY <2>1, <2>3
<1> HIDE DEF y
<1>6. /\ proposals' \in [Proposals -> Proposal \cup {NoProposal}]
      /\ proposals'[x] = y
      /\ \A z \in Proposals : z # x => proposals'[z] = proposals[z]
  BY <1>1, <1>4, <1>5
<1>7. \A z \in Proposals : proposals[z] # NoProposal => proposals'[z] # NoProposal
  BY <1>5, <1>6
<1>8. proposals[x].status # "APPLIED"
  BY <1>1 DEF NoProposal
<1>9. \A z \in Proposals :
         proposals[z].status = "APPLIED" => proposals'[z] = proposals[z]
  BY <1>6, <1>8
<1>10. /\ AppliedOK(x)'
       /\ proposals'[x].base <= projects'[proposals'[x].project].revision
  BY <1>1, <1>3, <1>5, <1>6 DEF AppliedOK
<1>11. \A q \in Projects, n \in Revisions : history'[q][n] = history[q][n]
  BY <1>1
<1> QED
  BY <1>1, <1>2, <1>6, <1>7, <1>9, <1>10, <1>11, RowsStay, StepKeeps

\* The change and the decision are one step, so the applied proposal and the
\* new snapshot agree with each other.
LEMMA ApproveApplyKeeps ==
    ASSUME IInv, NEW r \in Requests, ApproveApply(r)
    PROVE  IInv'
<1>1. /\ requests[r].pc = "apply"
      /\ Reply(r)
      /\ proposals \in [Proposals -> Proposal \cup {NoProposal}]
  BY DEF ApproveApply, IInv, TypeOK
<1>2. /\ requests' \in [Requests -> Request]
      /\ \A o \in Requests : requests'[o] = requests[o] \/ RequestOK(o)'
  BY <1>1, Replies
<1>3. PICK x \in Proposals : requests[r].proposal = x /\ proposals[x] # NoProposal
  BY <1>1 DEF IInv, RequestsOK, RequestOK
<1>4. PICK p \in Projects, e \in Revisions, v \in ProposalValues :
         /\ proposals[x].project = p
         /\ proposals[x].base = e
         /\ proposals[x].values = v
         /\ proposals[x] \in Proposal
  BY <1>3, ProposalFacts DEF IInv
<1>5. CASE IsCurrent(p, e) /\ Pending(x)
  <2>1. /\ Revise(p, e, v, x)
        /\ proposals' = [proposals EXCEPT ![x].status = "APPLIED", ![x].applied = e + 1]
        /\ proposals[x].status = "PENDING"
    BY <1>3, <1>4, <1>5 DEF ApproveApply, Decide, Pending
  <2>2. TypeOK /\ HistoryIsComplete /\ StatusFollowsTransitions
    BY DEF IInv
  <2>3. /\ projects' \in [Projects -> Row \cup {NoRow}]
        /\ history' \in [Projects -> [Revisions -> Snapshot \cup {NoSnapshot}]]
        /\ HistoryIsComplete'
        /\ StatusFollowsTransitions'
        /\ HistoryKept
        /\ e + 1 \in Revisions
        /\ history'[p][e + 1] = [state |-> Apply(history[p][e].state, v), note |-> x]
        /\ \A q \in Projects, n \in Revisions :
              q # p \/ n # e + 1 => history'[q][n] = history[q][n]
    BY <1>5, <2>1, <2>2, ReviseStep
  <2> DEFINE y == [proposals[x] EXCEPT !.status = "APPLIED", !.applied = e + 1]
  <2>4. e + 1 \in 0..MaxRevision /\ e # e + 1 /\ e <= e + 1
    BY <2>3, ConstantsAssumption DEF Revisions
  <2>5. /\ y \in Proposal /\ y.status = "APPLIED" /\ y.project = p
        /\ y.base = e /\ y.values = v /\ y.applied = e + 1
    BY <1>4, <2>4 DEF Proposal
  <2>6. proposals' = [proposals EXCEPT ![x] = y]
    BY <1>1, <2>1
  <2> HIDE DEF y
  <2>7. /\ proposals' \in [Proposals -> Proposal \cup {NoProposal}]
        /\ proposals'[x] = y
        /\ \A z \in Proposals : z # x => proposals'[z] = proposals[z]
    BY <1>1, <2>5, <2>6
  <2>8. y # NoProposal
    BY <2>5 DEF NoProposal
  <2>9. history'[p][e] = history[p][e]
    BY <2>3, <2>4
  <2>10. AppliedOK(x)'
    BY <2>3, <2>5, <2>7, <2>9 DEF AppliedOK
  <2>11. proposals'[x].base <= projects'[proposals'[x].project].revision
    <3>1. e <= projects[p].revision
      BY <1>3, <1>4 DEF IInv, ProposalsOK
    <3>2. e <= projects'[p].revision
      BY <2>2, <2>3, <3>1, RevisionKept
    <3> QED
      BY <2>5, <2>7, <3>2
  <2>12. history'[p][e + 1].note = x
    BY <2>3
  <2>13. NoteOK(p, e + 1)'
    BY <2>5, <2>7, <2>12 DEF NoteOK
  <2>14. \A q \in Projects, n \in Revisions :
            \/ history'[q][n] = history[q][n]
            \/ history'[q][n].note = None
            \/ NoteOK(q, n)'
    <3> TAKE q \in Projects, n \in Revisions
    <3>1. CASE q = p /\ n = e + 1
      BY <2>13, <3>1
    <3>2. CASE q # p \/ n # e + 1
      BY <2>3, <3>2
    <3> QED
      BY <3>1, <3>2
  <2>15. \A z \in Proposals : proposals[z] # NoProposal => proposals'[z] # NoProposal
    BY <2>7, <2>8
  <2>16. \A z \in Proposals :
            proposals[z].status = "APPLIED" => proposals'[z] = proposals[z]
    BY <2>1, <2>7
  <2>17. \A z \in Proposals :
            \/ proposals'[z] = proposals[z]
            \/ /\ AppliedOK(z)'
               /\ proposals'[z].base <= projects'[proposals'[z].project].revision
    BY <2>7, <2>10, <2>11
  <2> QED
    BY <1>2, <2>3, <2>7, <2>14, <2>15, <2>16, <2>17, StepKeeps
<1>6. CASE ~(IsCurrent(p, e) /\ Pending(x))
  <2>1. UNCHANGED <<projects, history, proposals>>
    BY <1>3, <1>4, <1>6 DEF ApproveApply
  <2>2. /\ \A q \in Projects, n \in Revisions : history'[q][n] = history[q][n]
        /\ \A z \in Proposals : proposals'[z] = proposals[z]
        /\ proposals' \in [Proposals -> Proposal \cup {NoProposal}]
    BY <1>1, <2>1
  <2> QED
    BY <1>2, <2>1, <2>2, RowsStay, StepKeeps
<1> QED
  BY <1>5, <1>6

LEMMA CloseKeeps ==
    ASSUME IInv, NEW r \in Requests, NEW pc \in {"stale", "reject"},
           NEW status \in {"STALE", "REJECTED"}, Close(r, pc, status)
    PROVE  IInv'
<1>1. /\ requests[r].pc = pc
      /\ Reply(r)
      /\ UNCHANGED <<projects, history>>
      /\ proposals \in [Proposals -> Proposal \cup {NoProposal}]
      /\ \A q \in Projects, n \in Revisions : history'[q][n] = history[q][n]
  BY DEF Close, IInv, TypeOK
<1>2. /\ requests' \in [Requests -> Request]
      /\ \A o \in Requests : requests'[o] = requests[o] \/ RequestOK(o)'
  BY <1>1, Replies
<1>3. PICK x \in Proposals : requests[r].proposal = x /\ proposals[x] # NoProposal
  BY <1>1 DEF IInv, RequestsOK, RequestOK
<1>4. CASE Pending(x)
  <2> DEFINE y == [proposals[x] EXCEPT !.status = status, !.applied = 0]
  <2>1. proposals' = [proposals EXCEPT ![x] = y] /\ proposals[x].status = "PENDING"
    BY <1>1, <1>3, <1>4 DEF Close, Decide, Pending
  <2>2. proposals[x] \in Proposal
    BY <1>3, ProposalFacts DEF IInv
  <2>3. /\ y \in Proposal /\ y.status = status
        /\ y.project = proposals[x].project /\ y.base = proposals[x].base
    <3>1. 0 \in 0..MaxRevision
      BY ConstantsAssumption
    <3>2. status \in {"PENDING", "APPLIED", "REJECTED", "STALE"}
      OBVIOUS
    <3> QED
      BY <2>2, <3>1, <3>2 DEF Proposal
  <2>4. y # NoProposal
    BY <2>3 DEF NoProposal
  <2> HIDE DEF y
  <2>5. /\ proposals' \in [Proposals -> Proposal \cup {NoProposal}]
        /\ proposals'[x] = y
        /\ \A z \in Proposals : z # x => proposals'[z] = proposals[z]
    BY <1>1, <2>1, <2>3
  <2>6. AppliedOK(x)'
    BY <2>3, <2>5 DEF AppliedOK
  <2>7. y.base <= projects[y.project].revision
    BY <1>3, <2>3 DEF IInv, ProposalsOK
  <2>8. proposals'[x].base <= projects'[proposals'[x].project].revision
    BY <1>1, <2>5, <2>7
  <2>9. \A z \in Proposals : proposals[z] # NoProposal => proposals'[z] # NoProposal
    BY <2>4, <2>5
  <2>10. \A z \in Proposals :
            proposals[z].status = "APPLIED" => proposals'[z] = proposals[z]
    BY <2>1, <2>5
  <2> QED
    BY <1>1, <1>2, <2>5, <2>6, <2>8, <2>9, <2>10, RowsStay, StepKeeps
<1>5. CASE ~Pending(x)
  <2>1. /\ \A z \in Proposals : proposals'[z] = proposals[z]
        /\ proposals' \in [Proposals -> Proposal \cup {NoProposal}]
    BY <1>1, <1>3, <1>5 DEF Close
  <2> QED
    BY <1>1, <1>2, <2>1, RowsStay, StepKeeps
<1> QED
  BY <1>4, <1>5

-----------------------------------------------------------------------------
(* The invariant.                                                          *)

LEMMA InitKeeps == Init => IInv
<1> SUFFICES ASSUME Init PROVE IInv
  OBVIOUS
<1>1. TypeOK
  BY IdleFacts DEF Init, TypeOK
<1>2. /\ \A p \in Projects : projects[p] = NoRow /\ projects[p].revision = 0
      /\ \A p \in Projects, n \in Revisions :
            history[p][n] = NoSnapshot /\ history[p][n].note = None
      /\ \A x \in Proposals :
            proposals[x] = NoProposal /\ proposals[x].status = "absent"
      /\ \A r \in Requests : requests[r].pc = "idle"
  BY IdleFacts DEF Init, NoRow, NoSnapshot, NoProposal
<1>3. \A n \in Revisions : n > 0 /\ ~(n + 1 <= 0)
  BY ConstantsAssumption DEF Revisions
<1>4. HistoryIsComplete
  BY <1>2, <1>3 DEF HistoryIsComplete, Exists
<1>5. StatusFollowsTransitions
  BY <1>2, <1>3 DEF StatusFollowsTransitions
<1>6. AppliedToItsBase /\ NoRevisionWithoutDecision
  BY <1>2 DEF AppliedToItsBase, NoRevisionWithoutDecision
<1>7. RequestsOK /\ ProposalsOK
  BY <1>2 DEF RequestsOK, RequestOK, ProposalsOK
<1> QED
  BY <1>1, <1>4, <1>5, <1>6, <1>7 DEF IInv

LEMMA StutterKeeps == IInv /\ UNCHANGED vars => IInv'
<1> SUFFICES ASSUME IInv, UNCHANGED vars PROVE IInv'
  OBVIOUS
<1>1. /\ UNCHANGED <<projects, history, proposals, requests>>
      /\ proposals' \in [Proposals -> Proposal \cup {NoProposal}]
      /\ requests' \in [Requests -> Request]
  BY DEF vars, IInv, TypeOK
<1>2. /\ \A q \in Projects, n \in Revisions : history'[q][n] = history[q][n]
      /\ \A z \in Proposals : proposals'[z] = proposals[z]
      /\ \A o \in Requests : requests'[o] = requests[o]
  BY <1>1
<1> QED
  BY <1>1, <1>2, RowsStay, StepKeeps

LEMMA NextKeeps == IInv /\ Next => IInv'
<1> SUFFICES ASSUME IInv, Next PROVE IInv'
  OBVIOUS
<1>1. CASE \E p \in Projects : CreateProject(p)
  BY <1>1, CreateProjectKeeps
<1>2. CASE \E r \in Requests : Step(r)
  <2>1. PICK r \in Requests : Step(r)
    BY <1>2
  <2>2. CASE \E p \in Projects : MutateBegin(r, p)
    BY <2>2, MutateBeginKeeps
  <2>3. CASE \E p \in Projects : ProposeBegin(r, p)
    BY <2>3, ProposeBeginKeeps
  <2>4. CASE Mutate(r)
    BY <2>4, MutateKeeps
  <2>5. CASE \E x \in Proposals : ProposeInsert(r, x)
    BY <2>5, ProposeInsertKeeps
  <2>6. CASE \E x \in Proposals : RequirePending(r, x, "judge")
    BY <2>6, RequirePendingKeeps
  <2>7. CASE \E x \in Proposals : RequirePending(r, x, "reject")
    BY <2>7, RequirePendingKeeps
  <2>8. CASE ApproveJudge(r)
    BY <2>8, ApproveJudgeKeeps
  <2>9. CASE ApproveApply(r)
    BY <2>9, ApproveApplyKeeps
  <2>10. CASE Close(r, "stale", "STALE")
    BY <2>10, CloseKeeps
  <2>11. CASE Close(r, "reject", "REJECTED")
    BY <2>11, CloseKeeps
  <2>12. CASE DatabaseFails(r)
    BY <2>12, DatabaseFailsKeeps
  <2> QED
    BY <2>1, <2>2, <2>3, <2>4, <2>5, <2>6, <2>7, <2>8, <2>9, <2>10, <2>11, <2>12 DEF Step
<1> QED
  BY <1>1, <1>2 DEF Next

LEMMA Invariant == Spec => []IInv
<1>1. IInv /\ [Next]_vars => IInv'
  BY NextKeeps, StutterKeeps
<1> QED
  BY <1>1, InitKeeps, PTL DEF Spec

\* Every row, snapshot, proposal and thread keeps its shape.
THEOREM TypeCorrect == Spec => []TypeOK
<1>1. IInv => TypeOK
  BY DEF IInv
<1> QED
  BY <1>1, Invariant, PTL

\* The snapshots are numbered without a gap and the last one is the row.
THEOREM CompleteHistory == Spec => []HistoryIsComplete
<1>1. IInv => HistoryIsComplete
  BY DEF IInv
<1> QED
  BY <1>1, Invariant, PTL

\* An approval changes the revision it was based on, and nothing but the fields
\* it names.
THEOREM ApprovalHitsItsBase == Spec => []AppliedToItsBase
<1>1. IInv => AppliedToItsBase
  BY DEF IInv
<1> QED
  BY <1>1, Invariant, PTL

\* A revision that names a proposal is the one the proposal was applied as.
THEOREM NotesAreDecisions == Spec => []NoRevisionWithoutDecision
<1>1. IInv => NoRevisionWithoutDecision
  BY DEF IInv
<1> QED
  BY <1>1, Invariant, PTL

\* The history never shows a transition of status that is not allowed.
THEOREM AllowedTransitions == Spec => []StatusFollowsTransitions
<1>1. IInv => StatusFollowsTransitions
  BY DEF IInv
<1> QED
  BY <1>1, Invariant, PTL

-----------------------------------------------------------------------------
(* What is written stays.                                                  *)

SnapshotsStay ==
    \A p \in Projects, n \in Revisions :
        history[p][n] # NoSnapshot => history'[p][n] = history[p][n]

DecisionsStay ==
    \A x \in Proposals :
        proposals[x].status \in {"APPLIED", "REJECTED", "STALE"}
           => proposals'[x] = proposals[x]

\* The unique constraint: a revision is committed where there is no snapshot.
LEMMA ReviseStays ==
    ASSUME TypeOK, NEW p, NEW e, NEW v, NEW note,
           IsCurrent(p, e), Revise(p, e, v, note)
    PROVE  SnapshotsStay
BY DEF IsCurrent, Revise, SnapshotsStay, TypeOK

\* decide_if_pending touches a pending proposal only.
LEMMA DecideStays ==
    ASSUME TypeOK, NEW x, NEW status, NEW n, Pending(x), Decide(x, status, n)
    PROVE  DecisionsStay
BY DEF Pending, Decide, DecisionsStay, TypeOK

LEMMA NextStays ==
    ASSUME IInv, [Next]_vars
    PROVE  SnapshotsStay /\ DecisionsStay
<1>0. TypeOK /\ HistoryIsComplete
  BY DEF IInv
<1>1. ASSUME UNCHANGED history PROVE SnapshotsStay
  BY <1>1 DEF SnapshotsStay
<1>2. ASSUME UNCHANGED proposals PROVE DecisionsStay
  BY <1>2 DEF DecisionsStay
<1>3. CASE UNCHANGED vars
  BY <1>1, <1>2, <1>3 DEF vars
<1>4. CASE \E p \in Projects : CreateProject(p)
  <2>1. PICK p \in Projects : CreateProject(p)
    BY <1>4
  <2>2. HistoryKept
    BY <1>0, <2>1, CreateStep DEF IInv
  <2> QED
    BY <1>2, <2>1, <2>2 DEF CreateProject, HistoryKept, SnapshotsStay
<1>5. CASE \E r \in Requests : Step(r)
  <2>1. PICK r \in Requests : Step(r)
    BY <1>5
  <2>2. CASE UNCHANGED <<projects, history, proposals>>
    BY <1>1, <1>2, <2>2
  <2>3. CASE Mutate(r)
    <3>1. UNCHANGED history \/ SnapshotsStay
      BY <1>0, <2>3, ReviseStays DEF Mutate
    <3> QED
      BY <1>1, <1>2, <2>3, <3>1 DEF Mutate
  <2>4. CASE \E x \in Proposals : ProposeInsert(r, x)
    <3>1. PICK x \in Proposals : ProposeInsert(r, x)
      BY <2>4
    <3>2. proposals[x].status = "absent"
      BY <3>1 DEF ProposeInsert, NoProposal
    <3>3. \A z \in Proposals : z # x => proposals'[z] = proposals[z]
      BY <1>0, <3>1 DEF ProposeInsert, TypeOK
    <3> QED
      BY <1>1, <3>1, <3>2, <3>3 DEF ProposeInsert, DecisionsStay
  <2>5. CASE ApproveApply(r)
    <3>1. SnapshotsStay
      BY <1>0, <1>1, <2>5, ReviseStays DEF ApproveApply
    <3>2. DecisionsStay
      BY <1>0, <1>2, <2>5, DecideStays DEF ApproveApply
    <3> QED
      BY <3>1, <3>2
  <2>6. CASE Close(r, "stale", "STALE") \/ Close(r, "reject", "REJECTED")
    <3>1. UNCHANGED history
      BY <2>6 DEF Close
    <3>2. DecisionsStay
      BY <1>0, <1>2, <2>6, DecideStays DEF Close
    <3> QED
      BY <1>1, <3>1, <3>2
  <2> QED
    BY <2>1, <2>2, <2>3, <2>4, <2>5, <2>6
       DEF Step, MutateBegin, ProposeBegin, RequirePending, ApproveJudge, DatabaseFails
<1> QED
  BY <1>3, <1>4, <1>5 DEF Next

\* Snapshots and decisions are final.
THEOREM RecordStays == Spec => RecordIsFinal
<1>1. IInv /\ [Next]_vars =>
         [/\ \A p \in Projects, n \in Revisions :
                history[p][n] # NoSnapshot => history'[p][n] = history[p][n]
          /\ \A x \in Proposals :
                proposals[x].status \in {"APPLIED", "REJECTED", "STALE"}
                   => proposals'[x] = proposals[x]]_vars
  BY NextStays DEF SnapshotsStay, DecisionsStay
<1> QED
  BY <1>1, Invariant, PTL DEF Spec, RecordIsFinal

=============================================================================

---------------------------- MODULE ProjectUpdates ----------------------------
(***************************************************************************)
(* Projects with an immutable revision history, and the owner-reviewed     *)
(* update proposals that chat turns leave for them.                        *)
(*                                                                         *)
(* A request thread reads rows, decides, and then makes one transaction:   *)
(* a compare-and-set UPDATE on current_revision, a snapshot INSERT, and    *)
(* for an approval a compare-and-set UPDATE on the proposal's status.  The *)
(* first UPDATE takes a lock that is held until the commit, and each WHERE *)
(* is evaluated under it, so the transaction is one step; every read that  *)
(* precedes it is a step of its own and may be stale by then.              *)
(***************************************************************************)
EXTENDS Integers

CONSTANTS
    Requests,       \* request threads
    Projects,       \* project ids
    Proposals,      \* proposal ids, never drawn twice
    Texts,          \* what a text field may hold
    None,           \* NULL
    MaxRevision     \* bound: no change starts from this revision

ASSUME ConstantsAssumption ==
    /\ MaxRevision \in Nat
    /\ None \notin Texts /\ None \notin Proposals
    /\ Texts # {}

VARIABLES
    projects,       \* current_revision and state of each row
    history,        \* project_revisions: snapshots by project and number
    proposals,      \* project_update_proposals
    requests

vars == <<projects, history, proposals, requests>>

-----------------------------------------------------------------------------

Statuses == {"ACTIVE", "PAUSED", "COMPLETED", "ARCHIVED"}

Transitions ==
    [ACTIVE |-> {"PAUSED", "COMPLETED", "ARCHIVED"},
     PAUSED |-> {"ACTIVE", "COMPLETED", "ARCHIVED"},
     COMPLETED |-> {"ACTIVE"},
     ARCHIVED |-> {"ACTIVE"}]

\* "details" stands for title and objective.
Fields == {"details", "status", "summary", "next"}
Values == Statuses \cup Texts \cup {None}

State == {s \in [Fields -> Values] :
            /\ s["details"] \in Texts
            /\ s["status"] \in Statuses
            /\ s["summary"] \in Texts \cup {None}
            /\ s["next"] \in Texts \cup {None}}

\* The values an UPDATE sets, by field.
Set(f, v) == [g \in {f} |-> v]
Apply(s, values) == [f \in Fields |-> IF f \in DOMAIN values THEN values[f] ELSE s[f]]

\* A mutant: a blank title is stored as NULL.
OwnerValues_EmptyDetails(s) ==
    {Set(f, t) : f \in {"details", "summary", "next"}, t \in Texts \cup {None}}
        \cup {Set("status", t) : t \in Transitions[s["status"]]}

\* What an owner may ask of a project in state s.
OwnerValues(s) ==
    {Set("details", t) : t \in Texts}
        \cup {Set(f, t) : f \in {"summary", "next"}, t \in Texts \cup {None}}
        \cup {Set("status", t) : t \in Transitions[s["status"]]}

\* A proposal names a summary, a next action or both; a field it leaves
\* out is kept.
ProposalValues ==
    UNION {[F -> Texts] : F \in {{"summary"}, {"next"}, {"summary", "next"}}}

ChangeValues ==
    ProposalValues \cup UNION {OwnerValues(s) : s \in State}

Revisions == 1..MaxRevision
Row == [revision : Revisions, state : State]
NoRow == [revision |-> 0]

Snapshot == [state : State, note : Proposals \cup {None}]
NoSnapshot == [note |-> None]

Proposal == [status : {"PENDING", "APPLIED", "REJECTED", "STALE"},
             project : Projects, base : Revisions, values : ProposalValues,
             applied : 0..MaxRevision]
NoProposal == [status |-> "absent"]

Request == [pc : {"idle", "mutate", "insert", "judge", "apply", "stale", "reject"},
            project : Projects \cup {None}, proposal : Proposals \cup {None},
            expected : 0..MaxRevision, values : ChangeValues \cup {None}]

Idle == [pc |-> "idle", project |-> None, proposal |-> None,
         expected |-> 0, values |-> None]

TypeOK ==
    /\ projects \in [Projects -> Row \cup {NoRow}]
    /\ history \in [Projects -> [Revisions -> Snapshot \cup {NoSnapshot}]]
    /\ proposals \in [Proposals -> Proposal \cup {NoProposal}]
    /\ requests \in [Requests -> Request]

Exists(p) == projects[p] # NoRow

Goes(r, q) == requests' = [requests EXCEPT ![r] = q]
Reply(r) == Goes(r, Idle)

-----------------------------------------------------------------------------
(* The two compare-and-set updates.                                        *)

\* Where mutate_if_current's WHERE holds, and the unique constraint on
\* (project_id, revision_number) lets the snapshot in.
IsCurrent(p, expected) ==
    /\ Exists(p)
    /\ projects[p].revision = expected
    /\ expected < MaxRevision
    /\ history[p][expected + 1] = NoSnapshot

\* A mutant: the snapshot is taken from the row as it was loaded.
Revise_StaleSnapshot(p, expected, values, note) ==
    /\ projects' = [projects EXCEPT ![p] =
            [revision |-> expected + 1, state |-> Apply(@.state, values)]]
    /\ history' = [history EXCEPT ![p][expected + 1] =
            [state |-> projects[p].state, note |-> note]]

\* The row gets the values and the next number; the snapshot is the new row.
Revise(p, expected, values, note) ==
    /\ projects' = [projects EXCEPT ![p] =
            [revision |-> expected + 1, state |-> Apply(@.state, values)]]
    /\ history' = [history EXCEPT ![p][expected + 1] =
            [state |-> Apply(projects[p].state, values), note |-> note]]

Pending(x) == proposals[x].status = "PENDING"

\* decide_if_pending.
Decide(x, status, applied) ==
    proposals' = [proposals EXCEPT ![x].status = status, ![x].applied = applied]

-----------------------------------------------------------------------------
(* The owner works on a project.                                           *)

InitialState(t) ==
    [f \in Fields |-> IF f = "details" THEN t
                      ELSE IF f = "status" THEN "ACTIVE" ELSE None]

CreateProject(p) ==
    /\ ~Exists(p)
    /\ MaxRevision > 0
    /\ \E t \in Texts :
          /\ projects' = [projects EXCEPT ![p] =
                  [revision |-> 1, state |-> InitialState(t)]]
          /\ history' = [history EXCEPT ![p][1] =
                  [state |-> InitialState(t), note |-> None]]
    /\ UNCHANGED <<proposals, requests>>

\* update_details, record_progress, change_next_action, change_status: the row
\* is read, the owner's expected revision and the transition are checked.
MutateBegin(r, p) ==
    /\ requests[r].pc = "idle"
    /\ Exists(p)
    /\ \E values \in OwnerValues(projects[p].state) :
          Goes(r, [Idle EXCEPT !.pc = "mutate", !.project = p, !.values = values,
                      !.expected = projects[p].revision])
    /\ UNCHANGED <<projects, history, proposals>>

\* A mutant: the UPDATE counts on from whatever the row holds.
Mutate_Blind(r) ==
    LET q == requests[r] IN
    /\ q.pc = "mutate"
    /\ IF IsCurrent(q.project, projects[q.project].revision)
       THEN Revise(q.project, projects[q.project].revision, q.values, None)
       ELSE UNCHANGED <<projects, history>>
    /\ Reply(r)
    /\ UNCHANGED proposals

Mutate(r) ==
    LET q == requests[r] IN
    /\ q.pc = "mutate"
    /\ IF IsCurrent(q.project, q.expected)
       THEN Revise(q.project, q.expected, q.values, None)
       ELSE UNCHANGED <<projects, history>>
    /\ Reply(r)
    /\ UNCHANGED proposals

-----------------------------------------------------------------------------
(* Proposals.                                                              *)

\* A finished chat turn, or the owner, proposes values for the revision the
\* turn was based on, if that still is the current one.
ProposeBegin(r, p) ==
    /\ requests[r].pc = "idle"
    /\ Exists(p)
    /\ \E values \in ProposalValues :
          Goes(r, [Idle EXCEPT !.pc = "insert", !.project = p, !.values = values,
                      !.expected = projects[p].revision])
    /\ UNCHANGED <<projects, history, proposals>>

ProposeInsert(r, x) ==
    LET q == requests[r] IN
    /\ q.pc = "insert"
    /\ proposals[x] = NoProposal
    /\ proposals' = [proposals EXCEPT ![x] =
            [status |-> "PENDING", project |-> q.project, base |-> q.expected,
             values |-> q.values, applied |-> 0]]
    /\ Reply(r)
    /\ UNCHANGED <<projects, history>>

\* _require_pending, for approve and for reject.
RequirePending(r, x, pc) ==
    /\ requests[r].pc = "idle"
    /\ Pending(x)
    /\ Goes(r, [Idle EXCEPT !.pc = pc, !.proposal = x])
    /\ UNCHANGED <<projects, history, proposals>>

\* approve reads the project next.
ApproveJudge(r) ==
    LET q == requests[r]  x == proposals[q.proposal] IN
    /\ q.pc = "judge"
    /\ Goes(r, [q EXCEPT !.pc =
                  IF projects[x.project].revision = x.base THEN "apply" ELSE "stale"])
    /\ UNCHANGED <<projects, history, proposals>>

\* A mutant: the change is committed before the proposal is decided.
ApproveApply_TwoCommits(r) ==
    LET q == requests[r]  x == proposals[q.proposal] IN
    /\ q.pc = "apply"
    /\ IF IsCurrent(x.project, x.base)
       THEN Revise(x.project, x.base, x.values, q.proposal)
       ELSE UNCHANGED <<projects, history>>
    /\ IF IsCurrent(x.project, x.base) /\ Pending(q.proposal)
       THEN Decide(q.proposal, "APPLIED", x.base + 1)
       ELSE UNCHANGED proposals
    /\ Reply(r)

\* A mutant: the revision is not compared again.
ApproveApply_NoCompare(r) ==
    LET q == requests[r]  x == proposals[q.proposal]  n == projects[x.project].revision IN
    /\ q.pc = "apply"
    /\ IF IsCurrent(x.project, n) /\ Pending(q.proposal)
       THEN /\ Revise(x.project, n, x.values, q.proposal)
            /\ Decide(q.proposal, "APPLIED", n + 1)
       ELSE UNCHANGED <<projects, history, proposals>>
    /\ Reply(r)

\* The staged change and the decision are committed together or not at all.
ApproveApply(r) ==
    LET q == requests[r]  x == proposals[q.proposal] IN
    /\ q.pc = "apply"
    /\ IF IsCurrent(x.project, x.base) /\ Pending(q.proposal)
       THEN /\ Revise(x.project, x.base, x.values, q.proposal)
            /\ Decide(q.proposal, "APPLIED", x.base + 1)
       ELSE UNCHANGED <<projects, history, proposals>>
    /\ Reply(r)

\* A mutant: the status is set whatever it is by now.
Close_Blind(r, pc, status) ==
    /\ requests[r].pc = pc
    /\ Decide(requests[r].proposal, status, 0)
    /\ Reply(r)
    /\ UNCHANGED <<projects, history>>

\* approve of an outdated proposal, and reject.
Close(r, pc, status) ==
    /\ requests[r].pc = pc
    /\ IF Pending(requests[r].proposal)
       THEN Decide(requests[r].proposal, status, 0)
       ELSE UNCHANGED proposals
    /\ Reply(r)
    /\ UNCHANGED <<projects, history>>

\* A locked or failing database, or the end of the process: the transaction
\* is rolled back.
DatabaseFails(r) ==
    /\ requests[r].pc # "idle"
    /\ Reply(r)
    /\ UNCHANGED <<projects, history, proposals>>

-----------------------------------------------------------------------------

Init ==
    /\ projects = [p \in Projects |-> NoRow]
    /\ history = [p \in Projects |-> [n \in Revisions |-> NoSnapshot]]
    /\ proposals = [x \in Proposals |-> NoProposal]
    /\ requests = [r \in Requests |-> Idle]

Step(r) ==
    \/ \E p \in Projects : MutateBegin(r, p) \/ ProposeBegin(r, p)
    \/ Mutate(r)
    \/ \E x \in Proposals :
          \/ ProposeInsert(r, x)
          \/ RequirePending(r, x, "judge")
          \/ RequirePending(r, x, "reject")
    \/ ApproveJudge(r)
    \/ ApproveApply(r)
    \/ Close(r, "stale", "STALE")
    \/ Close(r, "reject", "REJECTED")
    \/ DatabaseFails(r)

Next ==
    \/ \E p \in Projects : CreateProject(p)
    \/ \E r \in Requests : Step(r)

Spec == Init /\ [][Next]_vars

-----------------------------------------------------------------------------
(* Properties.                                                             *)

\* "Append-only immutable ProjectRevision snapshots": they are numbered
\* without a gap up to the row's current revision, and the last is the row.
HistoryIsComplete ==
    \A p \in Projects :
        /\ \A n \in Revisions :
              history[p][n] = NoSnapshot <=> n > projects[p].revision
        /\ Exists(p)
              => history[p][projects[p].revision].state = projects[p].state

\* An approved proposal changed exactly the revision it was based on, and
\* nothing but the fields it named: whatever other threads did between the
\* approval's reads and its commit, the owner's newer edits are not overwritten.
AppliedToItsBase ==
    \A x \in Proposals : proposals[x].status = "APPLIED" =>
        LET y == proposals[x] IN
        /\ y.applied = y.base + 1
        /\ history[y.project][y.applied] =
              [state |-> Apply(history[y.project][y.base].state, y.values), note |-> x]

\* "Rejecting a proposal changes only proposal state": a revision whose note
\* names a proposal is the one that proposal was applied as.
NoRevisionWithoutDecision ==
    \A p \in Projects, n \in Revisions :
        LET x == history[p][n].note IN
        x # None => /\ proposals[x].status = "APPLIED"
                    /\ proposals[x].project = p
                    /\ proposals[x].applied = n

\* A status is checked against the row when a change is asked for and set when
\* it is made; the history still never shows a transition that is not allowed.
StatusFollowsTransitions ==
    \A p \in Projects, n \in Revisions :
        n + 1 <= projects[p].revision =>
            LET before == history[p][n].state["status"]
                after == history[p][n + 1].state["status"]
            IN  after = before \/ after \in Transitions[before]

\* A snapshot once written and a proposal once decided stay as they are, for
\* approvals and rejections that overlap too.
RecordIsFinal ==
    [][/\ \A p \in Projects, n \in Revisions :
             history[p][n] # NoSnapshot => history'[p][n] = history[p][n]
       /\ \A x \in Proposals :
             proposals[x].status \in {"APPLIED", "REJECTED", "STALE"}
                => proposals'[x] = proposals[x]]_vars

=============================================================================

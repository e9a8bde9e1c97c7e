---------------------------- MODULE ExperienceTrust ----------------------------
(***************************************************************************)
(* What becomes of an execution's evidence: a review row that the decision *)
(* itself captures (D186), the owner's acceptance of it, and a trusted row *)
(* the owner promotes it to and may revoke (D187); beside them the lessons *)
(* of chat turns, which the owner approves, rejects and revokes (D147).    *)
(*                                                                         *)
(* The rows outlive the process that executed.  Owner requests load a row, *)
(* check it, and then change it by a compare-and-set on state and revision *)
(* with the event row in the same transaction; a row's revision follows    *)
(* from its state.  Fingerprints are exact: they tell rows apart.          *)
(***************************************************************************)
EXTENDS GovernedExecution

CONSTANTS
    ExpOwners,      \* request threads of the owner
    ExpLessons      \* candidates of chat turns

VARIABLES
    expReviews,     \* execution_experience_reviews, by approval
    expTrusted,     \* trusted_execution_experiences, by approval
    expLessons,     \* trusted_experiences
    expOwners

expVars == <<expReviews, expTrusted, expLessons, expOwners>>

-----------------------------------------------------------------------------
(* Types.                                                                  *)

ExpNoRow == "none"

ExpIdle == [pc |-> "idle", id |-> GovNone, from |-> ExpNoRow, to |-> ExpNoRow]

ExpStates == {"PENDING_REVIEW", "REVIEW_ACCEPTED", "REVIEW_REJECTED", "TRUSTED",
              "REJECTED", "REVOKED"}

ExpOwner ==
    [pc : {"idle", "promote", "review", "trust", "lesson"},
     id : GovIds \cup ExpLessons \cup {GovNone},
     from : ExpStates \cup {ExpNoRow}, to : ExpStates \cup {ExpNoRow}]

ExpTypeOK ==
    /\ expReviews \in [GovIds ->
          {ExpNoRow, "PENDING_REVIEW", "REVIEW_ACCEPTED", "REVIEW_REJECTED"}]
    /\ expTrusted \in [GovIds -> {ExpNoRow, "TRUSTED", "REVOKED"}]
    /\ expLessons \in [ExpLessons ->
          {ExpNoRow, "PENDING_REVIEW", "TRUSTED", "REJECTED", "REVOKED"}]
    /\ expOwners \in [ExpOwners -> ExpOwner]

ExpGoes(o, q) == expOwners' = [expOwners EXCEPT ![o] = q]
ExpReply(o) == ExpGoes(o, ExpIdle)

-----------------------------------------------------------------------------
(* Capture, by the request that decided.                                   *)

\* A mutant: whatever was integrated is captured.
ExpFind_Any(t) ==
    LET a == govThreads[t].id IN
    /\ govThreads[t].pc = "capture"
    /\ GovStep(t, IF expReviews[a] = ExpNoRow THEN "insert" ELSE "discard")
    /\ UNCHANGED <<govStores, govWorld, govHistory, expVars>>

\* capture: only what is eligible, and has no row yet, is inserted.
ExpFind(t) ==
    LET a == govThreads[t].id IN
    /\ govThreads[t].pc = "capture"
    /\ GovStep(t, IF govRuntime[a] = "eligible" /\ expReviews[a] = ExpNoRow
                  THEN "insert" ELSE "discard")
    /\ UNCHANGED <<govStores, govWorld, govHistory, expVars>>

\* try_capture: a failing database costs the evidence, not the decision.
ExpCapture(t) ==
    LET a == govThreads[t].id IN
    /\ govThreads[t].pc = "insert"
    /\ \/ /\ expReviews[a] = ExpNoRow
          /\ expReviews' = [expReviews EXCEPT ![a] = "PENDING_REVIEW"]
       \/ UNCHANGED expReviews
    /\ GovStep(t, "discard")
    /\ UNCHANGED <<govStores, govWorld, govHistory, expTrusted, expLessons, expOwners>>

\* capture_candidate.
ExpPropose(l) ==
    /\ expLessons[l] = ExpNoRow
    /\ expLessons' = [expLessons EXCEPT ![l] = "PENDING_REVIEW"]
    /\ UNCHANGED <<expReviews, expTrusted, expOwners>>

-----------------------------------------------------------------------------
(* The owner's decisions.                                                  *)

\* accept, reject, revoke of trusted evidence, and D147's approve, reject and
\* revoke: which table each works on, from which state and to which.
ExpTransitions ==
    {<<"review", "PENDING_REVIEW", "REVIEW_ACCEPTED">>,
     <<"review", "PENDING_REVIEW", "REVIEW_REJECTED">>,
     <<"trust", "TRUSTED", "REVOKED">>,
     <<"lesson", "PENDING_REVIEW", "TRUSTED">>,
     <<"lesson", "PENDING_REVIEW", "REJECTED">>,
     <<"lesson", "TRUSTED", "REVOKED">>}

ExpTable(table) ==
    IF table = "review" THEN expReviews
    ELSE IF table = "trust" THEN expTrusted ELSE expLessons

\* _transition and revoke, up to the UPDATE.
ExpLoad(o) ==
    /\ expOwners[o].pc = "idle"
    /\ \E x \in ExpTransitions : \E a \in DOMAIN ExpTable(x[1]) :
          /\ ExpTable(x[1])[a] = x[2]
          /\ ExpGoes(o, [pc |-> x[1], id |-> a, from |-> x[2], to |-> x[3]])
    /\ UNCHANGED <<govVars, expReviews, expTrusted, expLessons>>

\* A mutant: the WHERE does not compare the state and the revision.
ExpUpdate_Blind(o, table) == [table EXCEPT ![expOwners[o].id] = expOwners[o].to]

\* transition: the UPDATE of a row that is still in that state, or of none.
ExpUpdate(o, table) ==
    [table EXCEPT ![expOwners[o].id] = IF @ = expOwners[o].from THEN expOwners[o].to ELSE @]

ExpDecide(o) ==
    LET table == expOwners[o].pc IN
    /\ table \in {"review", "trust", "lesson"}
    /\ expReviews' = IF table = "review" THEN ExpUpdate(o, expReviews) ELSE expReviews
    /\ expTrusted' = IF table = "trust" THEN ExpUpdate(o, expTrusted) ELSE expTrusted
    /\ expLessons' = IF table = "lesson" THEN ExpUpdate(o, expLessons) ELSE expLessons
    /\ ExpReply(o)
    /\ UNCHANGED govVars

\* A mutant: a review need only have been seen by the owner.
ExpEligible_Decided(a) == expReviews[a] \in {"REVIEW_ACCEPTED", "REVIEW_REJECTED"}

\* _assess, from the row and its history.
ExpEligible(a) == expReviews[a] = "REVIEW_ACCEPTED"

\* promote: what is trusted already, or was revoked, is answered as it is.
ExpPromote(o) ==
    /\ expOwners[o].pc = "idle"
    /\ \E a \in GovIds :
          /\ ExpEligible(a)
          /\ expTrusted[a] = ExpNoRow
          /\ ExpGoes(o, [ExpIdle EXCEPT !.pc = "promote", !.id = a])
    /\ UNCHANGED <<govVars, expReviews, expTrusted, expLessons>>

\* A mutant: the insert replaces the row there is.
ExpInsert_Upsert(o) ==
    /\ expOwners[o].pc = "promote"
    /\ expTrusted' = [expTrusted EXCEPT ![expOwners[o].id] = "TRUSTED"]
    /\ ExpReply(o)
    /\ UNCHANGED <<govVars, expReviews, expLessons>>

\* create_trusted: one row for a review, whatever its state.
ExpInsert(o) ==
    LET a == expOwners[o].id IN
    /\ expOwners[o].pc = "promote"
    /\ expTrusted' = [expTrusted EXCEPT ![a] = IF @ = ExpNoRow THEN "TRUSTED" ELSE @]
    /\ ExpReply(o)
    /\ UNCHANGED <<govVars, expReviews, expLessons>>

\* A failing database, or the end of the process.
ExpFails(o) ==
    /\ expOwners[o].pc # "idle"
    /\ ExpReply(o)
    /\ UNCHANGED <<govVars, expReviews, expTrusted, expLessons>>

-----------------------------------------------------------------------------

ExpInit ==
    /\ GovInit
    /\ expReviews = [a \in GovIds |-> ExpNoRow]
    /\ expTrusted = [a \in GovIds |-> ExpNoRow]
    /\ expLessons = [l \in ExpLessons |-> ExpNoRow]
    /\ expOwners = [o \in ExpOwners |-> ExpIdle]

ExpNext ==
    \/ GovNext /\ UNCHANGED expVars
    \/ \E t \in GovThreads : ExpFind(t) \/ ExpCapture(t)
    \/ \E l \in ExpLessons : ExpPropose(l) /\ UNCHANGED govVars
    \/ \E o \in ExpOwners :
          ExpLoad(o) \/ ExpDecide(o) \/ ExpPromote(o) \/ ExpInsert(o) \/ ExpFails(o)

ExpSpec == ExpInit /\ [][ExpNext]_<<govVars, expVars>>

-----------------------------------------------------------------------------
(* Properties.                                                             *)

\* From the approval to trust: what is trusted was accepted by the owner, and
\* what can be reviewed is an R0 action the owner approved, that was
\* dispatched once; whatever threads overlap, and across restarts.
ExpTrustHasEvidence ==
    \A a \in GovIds :
        /\ expTrusted[a] # ExpNoRow => expReviews[a] = "REVIEW_ACCEPTED"
        /\ expReviews[a] # ExpNoRow => govRuns[a] = <<"R0">>

\* A decision of the owner is final: nothing that raced it takes it back, and
\* no second promotion brings revoked evidence back into retrieval.
ExpDecisionIsFinal ==
    [][/\ \A a \in GovIds :
             /\ expReviews[a] \in {"REVIEW_ACCEPTED", "REVIEW_REJECTED"}
                   => expReviews'[a] = expReviews[a]
             /\ expTrusted[a] = "REVOKED" => expTrusted'[a] = "REVOKED"
       /\ \A l \in ExpLessons :
             expLessons[l] \in {"REJECTED", "REVOKED"}
                => expLessons'[l] = expLessons[l]]_expVars

=============================================================================

--------------------------- MODULE LocalAIControl ---------------------------
(***************************************************************************)
(* Loading and unloading the configured local model by owner approval      *)
(* (D103).  A proposal previews the state the model is in and the state it *)
(* shall be in; the decision is one request that approves, compares the    *)
(* runtime with the preview, claims, dispatches and looks again.           *)
(*                                                                         *)
(* The runtime is outside the process: its model is loaded or unloaded by  *)
(* others at any time (LaiDrift), every look at it is a call of its own,   *)
(* and a call may fail.  The store reads the clock before it takes its     *)
(* lock, as in CalendarWrite.  Abstracted: a digest matches or it does     *)
(* not; the configuration is constant within a process; a restart empties  *)
(* the store and leaves nothing to decide.                                 *)
(***************************************************************************)
EXTENDS Integers, Sequences, FiniteSets

CONSTANTS
    LaiApprovals,   \* approval ids, never drawn twice
    LaiThreads,     \* request threads
    LaiNone,
    LaiTTL,         \* DEFAULT_LOCAL_AI_CONTROL_APPROVAL_TTL
    LaiMaxRecords,  \* DEFAULT_MAX_LOCAL_AI_CONTROL_APPROVAL_RECORDS
    LaiMaxTime,     \* bound: the clock stays here
    LaiMaxCalls     \* bound: requests

ASSUME LaiConstantsAssumption ==
    /\ LaiNone \notin LaiApprovals
    /\ {LaiTTL, LaiMaxRecords, LaiMaxTime, LaiMaxCalls} \subseteq Nat

VARIABLES
    laiClock,
    laiIssued,      \* what each approval was issued for, and until when
    laiItems,       \* approval store: state of each record, or "absent"
    laiClaimed,     \* history: approvals that were claimed
    laiThreads,
    laiLoaded,      \* is the configured model loaded, in the runtime?
    laiSeen,        \* history: the states the model was in since the approval,
                    \* from its dispatch on since the dispatch
    laiDispatched,  \* operations sent to the runtime for each approval
    laiAnswers,     \* terminal outcomes the owner was told
    laiCalls

laiVars == <<laiClock, laiIssued, laiItems, laiClaimed, laiThreads, laiLoaded,
             laiSeen, laiDispatched, laiAnswers, laiCalls>>

-----------------------------------------------------------------------------
(* Types.                                                                  *)

LaiOperations == {"load", "unload"}
LaiUnissued == [operation |-> "none", expires |-> 0]
LaiOutcomes == {"succeeded", "failed", "indeterminate"}
LaiIdle == [pc |-> "idle", operation |-> "load", approval |-> LaiNone,
            approve |-> TRUE, matches |-> TRUE, now |-> 0]

LaiThread ==
    [pc : {"idle", "look", "create", "decide", "revalidate", "claim",
           "dispatch", "verify"},
     operation : LaiOperations, approval : LaiApprovals \cup {LaiNone},
     approve : BOOLEAN, matches : BOOLEAN, now : Nat]

LaiTypeOK ==
    /\ laiClock \in 0..LaiMaxTime
    /\ laiIssued \in [LaiApprovals ->
          {LaiUnissued} \cup [operation : LaiOperations, expires : Nat]]
    /\ laiItems \in [LaiApprovals ->
          {"absent", "pending", "approved", "denied", "claimed"}]
    /\ laiClaimed \subseteq LaiApprovals
    /\ laiThreads \in [LaiThreads -> LaiThread]
    /\ laiLoaded \in BOOLEAN
    /\ laiSeen \in [LaiApprovals -> SUBSET BOOLEAN]
    /\ laiDispatched \in [LaiApprovals -> Seq(LaiOperations)]
    /\ laiAnswers \in [LaiApprovals -> SUBSET LaiOutcomes]
    /\ laiCalls \in 0..LaiMaxCalls

-----------------------------------------------------------------------------
(* The store and the runtime.                                              *)

LaiReads(t) == laiThreads[t].now..laiClock

LaiGoes(t, q) == laiThreads' = [laiThreads EXCEPT ![t] = q]
LaiStep(t, pc, now) == LaiGoes(t, [laiThreads[t] EXCEPT !.pc = pc, !.now = now])
LaiReply(t) == LaiGoes(t, LaiIdle)

LaiAlive(a, now) == now < laiIssued[a].expires

LaiTell(a, outcome) ==
    laiAnswers' = [laiAnswers EXCEPT ![a] = @ \cup {outcome}]

\* expected_loaded_state and desired_loaded_state of a preview.
LaiExpected(operation) == operation = "unload"
LaiDesired(operation) == operation = "load"

\* The model enters a state; the history of every approval notes it.
LaiBecomes(loaded) ==
    /\ laiLoaded' = loaded
    /\ laiSeen' = [a \in LaiApprovals |->
          IF laiSeen[a] = {} THEN {} ELSE laiSeen[a] \cup {loaded}]

LaiCall(t) ==
    /\ laiThreads[t].pc = "idle"
    /\ laiCalls < LaiMaxCalls
    /\ laiCalls' = laiCalls + 1
    /\ \/ \E o \in LaiOperations :
             LaiGoes(t, [LaiIdle EXCEPT !.pc = "look", !.operation = o, !.now = laiClock])
       \/ \E a \in LaiApprovals, yes \in BOOLEAN, matches \in BOOLEAN :
             /\ laiIssued[a] # LaiUnissued
             /\ LaiGoes(t, [LaiIdle EXCEPT !.pc = "decide", !.approval = a, !.approve = yes,
                              !.operation = laiIssued[a].operation,
                              !.matches = matches, !.now = laiClock])
    /\ UNCHANGED <<laiClock, laiIssued, laiItems, laiClaimed, laiLoaded, laiSeen,
                   laiDispatched, laiAnswers>>

\* propose: _validate_environment; the runtime may also be offline or not
\* say.
LaiLook(t) ==
    LET q == laiThreads[t] IN
    /\ q.pc = "look"
    /\ \/ LaiReply(t)
       \/ /\ laiLoaded = LaiExpected(q.operation)
          /\ LaiStep(t, "create", q.now)
    /\ UNCHANGED <<laiClock, laiIssued, laiItems, laiClaimed, laiLoaded, laiSeen,
                   laiDispatched, laiAnswers, laiCalls>>

LaiCreate(t) ==
    /\ laiThreads[t].pc = "create"
    /\ \E now \in LaiReads(t) :
          LET kept == [a \in LaiApprovals |->
                          IF LaiAlive(a, now) THEN laiItems[a] ELSE "absent"]
              full == Cardinality({a \in LaiApprovals : kept[a] # "absent"})
                          >= LaiMaxRecords
          IN  \/ /\ full \/ \A a \in LaiApprovals : laiIssued[a] # LaiUnissued
                 /\ laiItems' = kept
                 /\ UNCHANGED laiIssued
              \/ /\ ~full
                 /\ \E a \in LaiApprovals :
                       /\ laiIssued[a] = LaiUnissued
                       /\ laiItems' = [kept EXCEPT ![a] = "pending"]
                       /\ laiIssued' = [laiIssued EXCEPT ![a] =
                             [operation |-> laiThreads[t].operation,
                              expires |-> now + LaiTTL]]
    /\ LaiReply(t)
    /\ UNCHANGED <<laiClock, laiClaimed, laiLoaded, laiSeen, laiDispatched,
                   laiAnswers, laiCalls>>

\* _pending, then the decision.
LaiDecide(t) ==
    LET q == laiThreads[t]
        a == q.approval
    IN  /\ q.pc = "decide"
        /\ \E now \in LaiReads(t) :
              IF laiItems[a] = "pending" /\ LaiAlive(a, now) /\ q.matches
              THEN IF q.approve
                   THEN /\ laiItems' = [laiItems EXCEPT ![a] = "approved"]
                        /\ laiSeen' = [laiSeen EXCEPT ![a] = {laiLoaded}]
                        /\ LaiStep(t, "revalidate", now)
                   ELSE /\ laiItems' = [laiItems EXCEPT ![a] = "denied"]
                        /\ LaiReply(t)
                        /\ UNCHANGED laiSeen
              ELSE /\ laiItems' = [laiItems EXCEPT ![a] =
                         IF @ = "pending" \/ ~LaiAlive(a, now) THEN "absent" ELSE @]
                   /\ LaiReply(t)
                   /\ UNCHANGED laiSeen
        /\ UNCHANGED <<laiClock, laiIssued, laiClaimed, laiLoaded, laiDispatched,
                       laiAnswers, laiCalls>>

LaiRevalidateIf(t, passes) ==
    LET q == laiThreads[t] IN
    /\ q.pc = "revalidate"
    /\ \/ /\ LaiTell(q.approval, "failed")
          /\ LaiReply(t)
       \/ /\ passes
          /\ LaiStep(t, "claim", q.now)
          /\ UNCHANGED laiAnswers
    /\ UNCHANGED <<laiClock, laiIssued, laiItems, laiClaimed, laiLoaded, laiSeen,
                   laiDispatched, laiCalls>>

\* A mutant: the preview is trusted.
LaiRevalidate_Skipped(t) == LaiRevalidateIf(t, TRUE)

\* _revalidate_approved_snapshot: one more look, after the approval.
LaiRevalidate(t) ==
    LaiRevalidateIf(t, laiLoaded = LaiExpected(laiThreads[t].operation))

\* A mutant: a claim that finds the record gone goes on.
LaiClaim_Unchecked(t) ==
    LET q == laiThreads[t] IN
    /\ q.pc = "claim"
    /\ laiClaimed' = laiClaimed \cup {q.approval}
    /\ LaiStep(t, "dispatch", q.now)
    /\ UNCHANGED <<laiClock, laiIssued, laiItems, laiLoaded, laiSeen,
                   laiDispatched, laiAnswers, laiCalls>>

\* claim_approved; its refusal is an error to the caller.
LaiClaim(t) ==
    LET q == laiThreads[t]
        a == q.approval
    IN  /\ q.pc = "claim"
        /\ \E now \in LaiReads(t) :
              IF laiItems[a] = "approved" /\ LaiAlive(a, now)
              THEN /\ laiItems' = [laiItems EXCEPT ![a] = "claimed"]
                   /\ laiClaimed' = laiClaimed \cup {a}
                   /\ LaiStep(t, "dispatch", now)
              ELSE /\ laiItems' = [laiItems EXCEPT ![a] =
                         IF LaiAlive(a, now) THEN @ ELSE "absent"]
                   /\ LaiReply(t)
                   /\ UNCHANGED laiClaimed
        /\ UNCHANGED <<laiClock, laiIssued, laiLoaded, laiSeen, laiDispatched,
                       laiAnswers, laiCalls>>

\* One request to the runtime.  It may fail before or after its effect.
LaiDispatch(t) ==
    LET q == laiThreads[t]
        a == q.approval
    IN  /\ q.pc = "dispatch"
        /\ laiDispatched' = [laiDispatched EXCEPT ![a] = Append(@, q.operation)]
        /\ \E effect \in BOOLEAN, raises \in BOOLEAN :
              LET after == IF effect THEN LaiDesired(q.operation) ELSE laiLoaded IN
              /\ laiLoaded' = after
              /\ laiSeen' = [b \in LaiApprovals |->
                    IF b = a THEN {after}
                    ELSE IF laiSeen[b] = {} THEN {} ELSE laiSeen[b] \cup {after}]
              /\ IF raises
                 THEN LaiTell(a, "indeterminate") /\ LaiReply(t)
                 ELSE LaiStep(t, "verify", q.now) /\ UNCHANGED laiAnswers
        /\ UNCHANGED <<laiClock, laiIssued, laiItems, laiClaimed, laiCalls>>

LaiVerifyAs(t, succeeds) ==
    LET q == laiThreads[t] IN
    /\ q.pc = "verify"
    /\ \/ LaiTell(q.approval, "indeterminate")
       \/ succeeds /\ LaiTell(q.approval, "succeeded")
    /\ LaiReply(t)
    /\ UNCHANGED <<laiClock, laiIssued, laiItems, laiClaimed, laiLoaded, laiSeen,
                   laiDispatched, laiCalls>>

\* A mutant: a dispatch that did not raise has succeeded.
LaiVerify_Skipped(t) == LaiVerifyAs(t, TRUE)

\* Success is what the runtime shows, never what the dispatch returned.
LaiVerify(t) ==
    LaiVerifyAs(t, laiLoaded = LaiDesired(laiThreads[t].operation))

\* Another client, or the runtime itself, loads or evicts the model.
LaiDrift ==
    /\ LaiBecomes(~laiLoaded)
    /\ UNCHANGED <<laiClock, laiIssued, laiItems, laiClaimed, laiThreads,
                   laiDispatched, laiAnswers, laiCalls>>

LaiTick ==
    /\ laiClock < LaiMaxTime
    /\ laiClock' = laiClock + 1
    /\ UNCHANGED <<laiIssued, laiItems, laiClaimed, laiThreads, laiLoaded, laiSeen,
                   laiDispatched, laiAnswers, laiCalls>>

LaiInit ==
    /\ laiClock = 0 /\ laiCalls = 0
    /\ laiIssued = [a \in LaiApprovals |-> LaiUnissued]
    /\ laiItems = [a \in LaiApprovals |-> "absent"]
    /\ laiClaimed = {}
    /\ laiThreads = [t \in LaiThreads |-> LaiIdle]
    /\ laiLoaded \in BOOLEAN
    /\ laiSeen = [a \in LaiApprovals |-> {}]
    /\ laiDispatched = [a \in LaiApprovals |-> <<>>]
    /\ laiAnswers = [a \in LaiApprovals |-> {}]

LaiNext ==
    \/ \E t \in LaiThreads :
          \/ LaiCall(t) \/ LaiLook(t) \/ LaiCreate(t) \/ LaiDecide(t)
          \/ LaiRevalidate(t) \/ LaiClaim(t) \/ LaiDispatch(t) \/ LaiVerify(t)
    \/ LaiDrift
    \/ LaiTick

LaiSpec == LaiInit /\ [][LaiNext]_laiVars

-----------------------------------------------------------------------------
(* Properties.                                                             *)

\* "succeeded" means that the model was in the desired state after the
\* dispatch; "failed" that nothing was dispatched.
LaiAnswerIsTruthful ==
    \A a \in LaiApprovals :
        /\ "succeeded" \in laiAnswers[a] =>
              LaiDesired(laiIssued[a].operation) \in laiSeen[a]
        /\ "failed" \in laiAnswers[a] => laiDispatched[a] = <<>>

\* No operation is dispatched unless, after the owner approved it, the model
\* was in the state the preview showed.
LaiApprovedStateWasSeen ==
    [][\A a \in LaiApprovals :
          laiDispatched'[a] # laiDispatched[a]
              => LaiExpected(laiIssued[a].operation) \in laiSeen[a]]_laiVars

LaiStanding ==
    [a \in LaiApprovals |->
        IF laiIssued[a] = LaiUnissued THEN "unasked"
        ELSE IF a \in laiClaimed THEN "spent"
        ELSE IF laiItems[a] # "absent" THEN laiItems[a] ELSE "gone"]

LaiAuthority == INSTANCE OneShotAuthority WITH
    Approvals <- LaiApprovals,
    Contents <- LaiOperations,
    NoContent <- "none",
    standing <- LaiStanding,
    terms <- [a \in LaiApprovals |-> laiIssued[a].operation],
    effects <- laiDispatched

\* The lane is a one-shot authority: decided once, claimed once, one dispatch
\* of the approved operation.
LaiImplementsAuthority == LaiAuthority!Spec

=============================================================================

--------------------------- MODULE GovernedExecution ---------------------------
(***************************************************************************)
(* Execution approvals (D45), the cognitive bindings beside them (D181),   *)
(* the coordinator's one attempt (D40), and the evidence that is kept of   *)
(* it (D182, D183, D184, D185).                                            *)
(*                                                                         *)
(* Five dicts, each under a lock of its own: approvals, cognitive          *)
(* bindings, chat bindings, feedback and runtime outcomes.  An approval's  *)
(* record expires and the chat binding with it; a cognitive binding does   *)
(* not.  A request thread takes the locks one after the other and composes *)
(* its registry of capabilities once, when it starts.                      *)
(*                                                                         *)
(* An approval is "direct" (asked for over the API), "plugin" (by a chat   *)
(* turn that a reply shall follow), or cognitive with the risk class "R0"  *)
(* or "R1".  Abstracted: a plan's digest is right or wrong; a request of   *)
(* another workspace is refused before it changes anything.                *)
(***************************************************************************)
EXTENDS Integers, FiniteSets, Sequences

CONSTANTS
    GovThreads,
    GovIds,         \* approval ids, never drawn twice
    GovKinds,       \* some of "direct", "plugin", "R0", "R1"
    GovNone,
    GovTTL,         \* DEFAULT_APPROVAL_TTL
    GovMaxPending,  \* DEFAULT_MAX_PENDING_APPROVALS
    GovMaxItems,    \* bindings, feedback and runtime outcomes, each
    GovMaxTime,     \* bound of the clock
    GovMaxRestarts  \* bound: ends of the process

ASSUME GovConstantsAssumption ==
    /\ GovKinds \subseteq {"direct", "plugin", "R0", "R1"}
    /\ GovNone \notin GovIds \cup {"direct", "plugin", "R0", "R1", "succeeded", "adverse",
                                  "denied", "eligible", "ineligible"}
    /\ {GovTTL, GovMaxPending, GovMaxItems, GovMaxTime, GovMaxRestarts} \subseteq Nat

VARIABLES
    govRecords,     \* PendingExecutionApprovalStore: expiry, or GovGone
    govBindings,    \* CognitiveExecutionBindingStore: risk class, or GovNone
    govChat,        \* ChatPluginActionBindingStore: expiry, or GovGone
    govFeedback,    \* GovernedExecutionOutcomeFeedbackStore, or GovNone
    govRuntime,     \* GovernedExecutionExperienceRuntimeStore, or GovNone
    govThreads,
    govActive,      \* are the capabilities registered?
    govClock,
    govRestarts,
    govIssued,      \* history: the kind an id was issued for, or GovNone
    govTold,        \* history: ids an answer has shown to the owner
    govRuns         \* history: dispatches made in the name of each id

govStores == <<govRecords, govBindings, govChat, govFeedback, govRuntime>>
govHistory == <<govIssued, govTold, govRuns>>
govWorld == <<govActive, govClock, govRestarts>>
govVars == <<govStores, govThreads, govWorld, govHistory>>

-----------------------------------------------------------------------------
(* Types.                                                                  *)

GovGone == -1
GovCognitive == GovKinds \cap {"R0", "R1"}
GovClasses == {"succeeded", "adverse", "denied"}

GovIdle ==
    [pc |-> "idle", id |-> GovNone, decision |-> "none", right |-> TRUE,
     bound |-> GovNone, active |-> FALSE, now |-> 0, result |-> "none"]

GovThread ==
    [pc : {"idle", "register", "bind", "consume", "authorize", "dispatch",
           "feedback", "integrate", "capture", "insert", "discard", "complete"},
     id : GovIds \cup {GovNone}, decision : {"approved", "denied", "none"},
     right : BOOLEAN, bound : GovCognitive \cup {GovNone}, active : BOOLEAN,
     now : 0..GovMaxTime, result : GovClasses \cup {"none", "lost"}]

GovTypeOK ==
    /\ govRecords \in [GovIds -> GovGone..(GovMaxTime + GovTTL)]
    /\ govBindings \in [GovIds -> GovCognitive \cup {GovNone}]
    /\ govChat \in [GovIds -> GovGone..(GovMaxTime + GovTTL)]
    /\ govFeedback \in [GovIds -> GovClasses \cup {GovNone}]
    /\ govRuntime \in [GovIds -> {"eligible", "ineligible", GovNone}]
    /\ govThreads \in [GovThreads -> GovThread]
    /\ govActive \in BOOLEAN
    /\ govClock \in 0..GovMaxTime
    /\ govRestarts \in 0..GovMaxRestarts
    /\ govIssued \in [GovIds -> GovKinds \cup {GovNone}]
    /\ govTold \subseteq GovIds
    /\ govRuns \in [GovIds -> Seq(GovKinds)]

GovGoes(t, q) == govThreads' = [govThreads EXCEPT ![t] = q]
GovStep(t, pc) == GovGoes(t, [govThreads[t] EXCEPT !.pc = pc])
GovReply(t) == GovGoes(t, GovIdle)

GovKept(store) == {a \in GovIds : store[a] # GovGone}
GovHeld(store) == {a \in GovIds : store[a] # GovNone}

\* _cleanup_expired of both stores that have it.
GovCleaned(store, now) ==
    [a \in GovIds |-> IF now >= store[a] THEN GovGone ELSE store[a]]

-----------------------------------------------------------------------------
(* Proposals.                                                              *)

\* propose: a plan that is not possible or not permitted leaves no record,
\* and a full store refuses.  The clock was read before the lock was taken.
GovPropose(t, a, kind) ==
    \E now \in 0..govClock :
        LET cleaned == GovCleaned(govRecords, now) IN
        /\ govThreads[t].pc = "idle"
        /\ govIssued[a] = GovNone /\ govActive
        /\ Cardinality(GovKept(cleaned)) < GovMaxPending
        /\ govRecords' = [cleaned EXCEPT ![a] = now + GovTTL]
        /\ govIssued' = [govIssued EXCEPT ![a] = kind]
        /\ IF kind = "direct"
           THEN GovReply(t) /\ govTold' = govTold \cup {a}
           ELSE /\ GovGoes(t, [GovIdle EXCEPT !.id = a, !.active = TRUE,
                          !.pc = IF kind = "plugin" THEN "bind" ELSE "register"])
                /\ UNCHANGED govTold
        /\ UNCHANGED <<govBindings, govChat, govFeedback, govRuntime, govWorld, govRuns>>

\* register_cognitive_projection: a full store fails the request, and then
\* nobody is told of the approval.
GovRegister(t) ==
    LET a == govThreads[t].id IN
    /\ govThreads[t].pc = "register"
    /\ IF Cardinality(GovHeld(govBindings)) < GovMaxItems
       THEN /\ govBindings' = [govBindings EXCEPT ![a] = govIssued[a]]
            /\ govTold' = govTold \cup {a}
       ELSE UNCHANGED <<govBindings, govTold>>
    /\ GovReply(t)
    /\ UNCHANGED <<govRecords, govChat, govFeedback, govRuntime, govWorld, govIssued,
                   govRuns>>

\* The chat turn's binding expires with the record; the reply that offers the
\* approval may fail to be stored.
GovBindChat(t) ==
    LET a == govThreads[t].id  cleaned == GovCleaned(govChat, govClock) IN
    /\ govThreads[t].pc = "bind"
    /\ \/ /\ Cardinality(GovKept(cleaned)) < GovMaxItems
          /\ govChat' = [cleaned EXCEPT ![a] =
                IF govRecords[a] = GovGone THEN govClock ELSE govRecords[a]]
          /\ govTold' \in {govTold, govTold \cup {a}}
       \/ /\ Cardinality(GovKept(cleaned)) = GovMaxItems
          /\ govChat' = cleaned
          /\ UNCHANGED govTold
    /\ GovReply(t)
    /\ UNCHANGED <<govRecords, govBindings, govFeedback, govRuntime, govWorld, govIssued,
                   govRuns>>

-----------------------------------------------------------------------------
(* Decisions.                                                              *)

\* A mutant: the binding is discarded before the decision is made.
GovDecide_DiscardFirst(t, a, decision) ==
    /\ govThreads[t].pc = "idle"
    /\ a \in govTold
    /\ \E right \in BOOLEAN :
          GovGoes(t, [GovIdle EXCEPT !.id = a, !.decision = decision, !.right = right,
                !.bound = govBindings[a], !.active = govActive, !.now = govClock,
                !.pc = IF decision = "approved" /\ govBindings[a] = "R1"
                       THEN "idle" ELSE "consume"])
    /\ govBindings' = [govBindings EXCEPT ![a] = GovNone]
    /\ UNCHANGED <<govRecords, govChat, govFeedback, govRuntime, govWorld, govHistory>>

\* approve and deny look the binding up; without one this is the plain
\* decision of D45.  A risk above R0 is not approved in V1.
GovDecide(t, a, decision) ==
    /\ govThreads[t].pc = "idle"
    /\ a \in govTold
    /\ ~(decision = "approved" /\ govBindings[a] = "R1")
    /\ \E right \in BOOLEAN :
          GovGoes(t, [GovIdle EXCEPT !.pc = "consume", !.id = a, !.decision = decision,
                !.right = right, !.bound = govBindings[a], !.active = govActive,
                !.now = govClock])
    /\ UNCHANGED <<govStores, govWorld, govHistory>>

\* Where a decision that raised goes: the finally of a bound one discards.
GovFails(t) ==
    IF govThreads[t].bound = GovNone THEN GovReply(t)
    ELSE GovGoes(t, [govThreads[t] EXCEPT !.pc = "discard", !.result = "none"])

\* A mutant: the record is read here and dropped by the dispatch.
GovConsume_Kept(t) ==
    LET q == govThreads[t] IN
    /\ q.pc = "consume"
    /\ IF govRecords[q.id] # GovGone /\ q.now < govRecords[q.id] /\ q.right
       THEN GovStep(t, "authorize") ELSE GovFails(t)
    /\ UNCHANGED <<govStores, govWorld, govHistory>>

\* consume: an expired record and a wrong digest spend the record too.
GovConsume(t) ==
    LET q == govThreads[t] IN
    /\ q.pc = "consume"
    /\ \E now \in q.now..govClock :
          IF govRecords[q.id] # GovGone /\ now < govRecords[q.id] /\ q.right
          THEN GovGoes(t, [q EXCEPT !.pc = "authorize", !.now = now])
          ELSE GovFails(t)
    /\ govRecords' = [govRecords EXCEPT ![q.id] = GovGone]
    /\ UNCHANGED <<govBindings, govChat, govFeedback, govRuntime, govWorld, govHistory>>

\* The plan is made and authorized again, from the request's own registry: a
\* denial is blocked, and a capability that has gone is not available.
GovAuthorize(t) ==
    LET q == govThreads[t] IN
    /\ q.pc = "authorize"
    /\ IF q.decision = "approved" /\ q.active
       THEN GovStep(t, "dispatch")
       ELSE GovGoes(t, [q EXCEPT
                !.pc = IF q.bound = GovNone THEN "complete" ELSE "feedback",
                !.result = IF q.decision = "approved" THEN "adverse"
                           ELSE IF q.active THEN "denied" ELSE "lost"])
    /\ UNCHANGED <<govStores, govWorld, govHistory>>

\* The Tool or the Module runs, and succeeds or not.
GovDispatch(t) ==
    LET q == govThreads[t] IN
    /\ q.pc = "dispatch"
    /\ govRuns' = [govRuns EXCEPT ![q.id] = Append(@, govIssued[q.id])]
    /\ \E result \in {"succeeded", "adverse"} :
          GovGoes(t, [q EXCEPT !.result = result,
                !.pc = IF q.bound = GovNone THEN "complete" ELSE "feedback"])
    /\ UNCHANGED <<govStores, govWorld, govIssued, govTold>>

-----------------------------------------------------------------------------
(* Evidence: each stage follows only where the one before succeeded.       *)

\* try_record; a denial whose plan could not be made again is incoherent.
GovRecord(t) ==
    LET q == govThreads[t] IN
    /\ q.pc = "feedback"
    /\ IF q.result # "lost" /\ Cardinality(GovHeld(govFeedback)) < GovMaxItems
       THEN /\ govFeedback' = [govFeedback EXCEPT ![q.id] = q.result]
            /\ GovStep(t, "integrate")
       ELSE GovStep(t, "discard") /\ UNCHANGED govFeedback
    /\ UNCHANGED <<govRecords, govBindings, govChat, govRuntime, govWorld, govHistory>>

\* project and evaluate: only a success of an R0 action may be reviewed.
GovEligible(q) == govFeedback[q.id] = "succeeded" /\ q.bound = "R0"

\* try_integrate.
GovIntegrate(t) ==
    LET q == govThreads[t] IN
    /\ q.pc = "integrate"
    /\ IF Cardinality(GovHeld(govRuntime)) < GovMaxItems
       THEN /\ govRuntime' = [govRuntime EXCEPT ![q.id] =
                    IF GovEligible(q) THEN "eligible" ELSE "ineligible"]
            /\ GovStep(t, "capture")
       ELSE GovStep(t, "discard") /\ UNCHANGED govRuntime
    /\ UNCHANGED <<govRecords, govBindings, govChat, govFeedback, govWorld, govHistory>>

GovDiscard(t) ==
    LET q == govThreads[t] IN
    /\ q.pc = "discard"
    /\ govBindings' = [govBindings EXCEPT ![q.id] = GovNone]
    /\ IF q.result = "none" THEN GovReply(t) ELSE GovStep(t, "complete")
    /\ UNCHANGED <<govRecords, govChat, govFeedback, govRuntime, govWorld, govHistory>>

\* complete: the chat binding is consumed.  A reply follows, unless the
\* decision took longer than the binding lives.
GovComplete(t) ==
    /\ govThreads[t].pc = "complete"
    /\ govChat' = [GovCleaned(govChat, govClock) EXCEPT ![govThreads[t].id] = GovGone]
    /\ GovReply(t)
    /\ UNCHANGED <<govRecords, govBindings, govFeedback, govRuntime, govWorld, govHistory>>

-----------------------------------------------------------------------------
(* The world.                                                              *)

GovTick ==
    /\ govClock < GovMaxTime
    /\ govClock' = govClock + 1
    /\ UNCHANGED <<govStores, govThreads, govActive, govRestarts, govHistory>>

\* A connector is switched off: later requests compose no such capability.
GovSwitchOff ==
    /\ govActive /\ govActive' = FALSE
    /\ UNCHANGED <<govStores, govThreads, govClock, govRestarts, govHistory>>

GovEmpty == [a \in GovIds |-> GovNone]
GovNoExpiry == [a \in GovIds |-> GovGone]
GovAllIdle == [t \in GovThreads |-> GovIdle]

\* The process ends and starts again: every store is empty.
GovRestart ==
    /\ govRestarts < GovMaxRestarts
    /\ govRestarts' = govRestarts + 1
    /\ govRecords' = GovNoExpiry /\ govChat' = GovNoExpiry
    /\ govBindings' = GovEmpty /\ govFeedback' = GovEmpty /\ govRuntime' = GovEmpty
    /\ govThreads' = GovAllIdle
    /\ UNCHANGED <<govActive, govClock, govHistory>>

GovInit ==
    /\ govRecords = GovNoExpiry /\ govChat = GovNoExpiry
    /\ govBindings = GovEmpty /\ govFeedback = GovEmpty /\ govRuntime = GovEmpty
    /\ govThreads = GovAllIdle
    /\ govActive = TRUE /\ govClock = 0 /\ govRestarts = 0
    /\ govIssued = GovEmpty
    /\ govTold = {}
    /\ govRuns = [a \in GovIds |-> <<>>]

GovLane(t) ==
    \/ \E a \in GovIds :
          \/ \E kind \in GovKinds : GovPropose(t, a, kind)
          \/ \E decision \in {"approved", "denied"} : GovDecide(t, a, decision)
    \/ GovRegister(t) \/ GovBindChat(t)
    \/ GovConsume(t) \/ GovAuthorize(t) \/ GovDispatch(t)
    \/ GovRecord(t) \/ GovIntegrate(t)
    \/ GovDiscard(t) \/ GovComplete(t)

GovNext ==
    \/ \E t \in GovThreads : GovLane(t)
    \/ GovTick \/ GovSwitchOff \/ GovRestart

-----------------------------------------------------------------------------
(* Properties.                                                             *)

\* "R1, R2 and R3 cognitive approvals fail closed": none is ever dispatched,
\* not by a plain decision after the binding has gone either.
GovRiskyNeverRuns ==
    \A a \in GovIds : govIssued[a] = "R1" => govRuns[a] = <<>>

GovStanding ==
    [a \in GovIds |->
        IF govIssued[a] = GovNone THEN "unasked"
        ELSE IF govRecords[a] # GovGone THEN "pending"
        ELSE IF govRuns[a] # <<>>
                \/ \E t \in GovThreads : govThreads[t].id = a /\ govThreads[t].pc = "dispatch"
        THEN "spent"
        ELSE IF \E t \in GovThreads : govThreads[t].id = a /\ govThreads[t].pc = "authorize"
        THEN LET t == CHOOSE t \in GovThreads :
                        govThreads[t].id = a /\ govThreads[t].pc = "authorize"
             IN  govThreads[t].decision
        ELSE "gone"]

GovAuthority == INSTANCE OneShotAuthority WITH
    Approvals <- GovIds,
    Contents <- GovKinds,
    NoContent <- GovNone,
    standing <- GovStanding,
    terms <- govIssued,
    effects <- govRuns

\* "ONE PENDING APPROVAL -> AT MOST ONE EXECUTION ATTEMPT": the approval is
\* decided once, spent once, and dispatched at most once.
GovImplementsAuthority == GovAuthority!Spec

=============================================================================

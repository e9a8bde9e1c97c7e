---------------------------- MODULE CalendarWrite ----------------------------
(***************************************************************************)
(* The Calendar write lane: create, update and delete of one event by      *)
(* owner approval (D73-D75), decided through the private API, from Chat    *)
(* (D84), or from the card of an event the owner picked (D101).            *)
(*                                                                         *)
(* One approval store holds approval and claim.  Beside it stand stores    *)
(* that grant nothing and only correlate: the Chat binding of a create,    *)
(* the decision bindings of an update and of a delete, the follow-up of an *)
(* exact target, and the opaque selection minted when an event is read.    *)
(* Each is a dict behind a lock of its own, so a proposal made from a      *)
(* selection is six critical sections and undoes itself when one fails.    *)
(*                                                                         *)
(* Every store method reads the clock before it takes its lock: a thread   *)
(* uses any instant between its previous step and the present (Reads).     *)
(* Abstracted: one workspace and one conversation, and one selection; a    *)
(* request's content is its operation, and a digest matches or it does     *)
(* not; plan, guard and module runtime always pass an approved snapshot    *)
(* of the right operation.  A restart empties every store and leaves       *)
(* nothing to decide or to claim, so it is left out.                       *)
(***************************************************************************)
EXTENDS Integers, Sequences, FiniteSets

CONSTANTS
    CalApprovals,   \* approval ids, never drawn twice
    CalThreads,     \* request threads
    CalNone,        \* no approval, no thread
    CalTargeted,    \* operations on an event that exists: update, delete
    CalTTL,         \* all the lane's records live equally long
    CalMaxRecords,  \* DEFAULT_MAX_CALENDAR_WRITE_APPROVAL_RECORDS
    CalMaxTime,     \* bound: the clock stays here
    CalMaxCalls     \* bound: requests

ASSUME CalConstantsAssumption ==
    /\ IsFiniteSet(CalApprovals)
    /\ CalNone \notin CalApprovals /\ CalNone \notin CalThreads
    /\ CalTargeted \subseteq {"update", "delete"}
    /\ {CalTTL, CalMaxRecords, CalMaxTime, CalMaxCalls} \subseteq Nat

VARIABLES
    calClock,
    calIssued,      \* what each approval was issued for, how, and until when
    calItems,       \* approval store: state of each record, or "absent"
    calClaimed,     \* history: approvals that were claimed
    calBound,       \* approvals in the binding store of their operation
    calSelection,   \* is the selection still there?
    calFollowup,    \* the conversation's pending follow-up: whose, until when
    calKnown,       \* approvals whose id was returned to the owner
    calThreads,     \* what each request thread is doing
    calWrites,      \* attempts at the provider for each approval
    calDone,        \* approvals whose change the provider made
    calAnswers,     \* terminal outcomes the owner was told for each approval
    calCalls

calVars == <<calClock, calIssued, calItems, calClaimed, calBound, calSelection,
             calFollowup, calKnown, calThreads, calWrites, calDone, calAnswers, calCalls>>

-----------------------------------------------------------------------------
(* Types.                                                                  *)

CalOperations == {"create"} \cup CalTargeted
CalRoutes == {"api", "chat", "card"}
CalUnissued == [operation |-> "none", route |-> "api", expires |-> 0]
CalOutcomes == {"succeeded", "failed", "indeterminate"}

CalSteps == {"idle", "check", "select", "follow", "create", "unfollow",
             "spend", "bind", "neutralize", "resolve", "consume", "decide",
             "get", "claim", "provider", "answer"}

CalIdle == [pc |-> "idle", route |-> "api", operation |-> "create",
            approval |-> CalNone, approve |-> TRUE, matches |-> TRUE,
            now |-> 0, reply |-> "refused"]

CalThread == [pc : CalSteps, route : CalRoutes, operation : CalOperations,
              approval : CalApprovals \cup {CalNone}, approve : BOOLEAN,
              matches : BOOLEAN, now : Nat,
              reply : {"refused", "rejected", "accepted", "unclear"}]

\* The follow-up is consumed by the thread that minted its opaque id.
CalNoFollowup == [by |-> CalNone, expires |-> 0]

CalTypeOK ==
    /\ calClock \in 0..CalMaxTime
    /\ calIssued \in [CalApprovals -> {CalUnissued} \cup
          [operation : CalOperations, route : CalRoutes, expires : Nat]]
    /\ calItems \in [CalApprovals ->
          {"absent", "pending", "approved", "denied", "claimed"}]
    /\ calClaimed \subseteq CalApprovals
    /\ calBound \subseteq CalApprovals
    /\ calSelection \in BOOLEAN
    /\ calFollowup \in [by : CalThreads \cup {CalNone}, expires : Nat]
    /\ calKnown \subseteq CalApprovals
    /\ calThreads \in [CalThreads -> CalThread]
    /\ calWrites \in [CalApprovals -> Seq(CalOperations)]
    /\ calDone \subseteq CalApprovals
    /\ calAnswers \in [CalApprovals -> SUBSET CalOutcomes]
    /\ calCalls \in 0..CalMaxCalls

-----------------------------------------------------------------------------
(* Common to all stores.                                                   *)

\* The instants a thread may have read for its next critical section.
CalReads(t) == calThreads[t].now..calClock

CalGoes(t, q) == calThreads' = [calThreads EXCEPT ![t] = q]

\* The thread moves on, and cannot read an earlier clock than it has.
CalStep(t, pc, now) ==
    CalGoes(t, [calThreads[t] EXCEPT !.pc = pc, !.now = now])

CalReply(t) == CalGoes(t, CalIdle)

CalAlive(a, now) == now < calIssued[a].expires

CalHeld(items) == {a \in CalApprovals : items[a] # "absent"}

\* _cleanup of the binding store of one operation.
CalBoundFor(operation, now) ==
    {a \in calBound : calIssued[a].operation = operation => CalAlive(a, now)}

CalBindings(bound, operation) ==
    {a \in bound : calIssued[a].operation = operation}

-----------------------------------------------------------------------------
(* Proposing.                                                              *)

CalCall(t) ==
    /\ calThreads[t].pc = "idle"
    /\ calCalls < CalMaxCalls
    /\ calCalls' = calCalls + 1
    /\ \/ \E o \in CalOperations :
             CalGoes(t, [CalIdle EXCEPT !.pc = "create", !.operation = o, !.now = calClock])
       \/ CalGoes(t, [CalIdle EXCEPT !.pc = "check", !.route = "chat", !.now = calClock])
       \/ \E o \in CalTargeted :
             CalGoes(t, [CalIdle EXCEPT !.pc = "select", !.route = "card",
                                        !.operation = o, !.now = calClock])
       \/ \E a \in calKnown, yes \in BOOLEAN, matches \in BOOLEAN :
             CalGoes(t, [CalIdle EXCEPT !.pc = "decide", !.approval = a, !.approve = yes,
                                        !.matches = matches, !.now = calClock])
       \/ \E a \in calKnown, o \in CalOperations :
             CalGoes(t, [CalIdle EXCEPT !.pc = "get", !.approval = a,
                                        !.operation = o, !.now = calClock])
       \/ \E a \in calKnown, yes \in BOOLEAN :
             CalGoes(t, [CalIdle EXCEPT
                !.pc = "resolve", !.approval = a, !.approve = yes, !.now = calClock,
                !.operation = calIssued[a].operation,
                !.route = IF calIssued[a].operation = "create" THEN "chat" ELSE "card"])
    /\ UNCHANGED <<calClock, calIssued, calItems, calClaimed, calBound, calSelection,
                   calFollowup, calKnown, calWrites, calDone, calAnswers>>

\* propose_candidate looks for a pending binding of the conversation first.
CalCheck(t) ==
    /\ calThreads[t].pc = "check"
    /\ \E now \in CalReads(t) :
          /\ calBound' = CalBoundFor("create", now)
          /\ IF CalBindings(calBound', "create") = {}
             THEN CalStep(t, "create", now) ELSE CalReply(t)
    /\ UNCHANGED <<calClock, calIssued, calItems, calClaimed, calSelection,
                   calFollowup, calKnown, calWrites, calDone, calAnswers, calCalls>>

\* The selection is resolved, not yet consumed.
CalSelect(t) ==
    /\ calThreads[t].pc = "select"
    /\ \E now \in CalReads(t) :
          /\ calSelection' = (calSelection /\ now < CalTTL)
          /\ IF calSelection' THEN CalStep(t, "follow", now) ELSE CalReply(t)
    /\ UNCHANGED <<calClock, calIssued, calItems, calClaimed, calBound,
                   calFollowup, calKnown, calWrites, calDone, calAnswers, calCalls>>

\* CalendarWriteFollowupStore.add: one per conversation.
CalFollow(t) ==
    /\ calThreads[t].pc = "follow"
    /\ \E now \in CalReads(t) :
          IF calFollowup.by # CalNone /\ now < calFollowup.expires
          THEN CalReply(t) /\ UNCHANGED calFollowup
          ELSE /\ calFollowup' = [by |-> t, expires |-> now + CalTTL]
               /\ CalStep(t, "create", now)
    /\ UNCHANGED <<calClock, calIssued, calItems, calClaimed, calBound, calSelection,
                   calKnown, calWrites, calDone, calAnswers, calCalls>>

CalFollows(t, now) == calFollowup.by = t /\ now < calFollowup.expires

CalCleaned(now) ==
    [a \in CalApprovals |-> IF CalAlive(a, now) THEN calItems[a] ELSE "absent"]

\* CalendarWriteApprovalStore.create.  A card's follow-up that has lapsed is
\* found out just before.  Only the private API returns the id right away.
CalCreate(t) ==
    LET q == calThreads[t] IN
    /\ q.pc = "create"
    /\ \E now \in CalReads(t) :
          \/ /\ q.route = "card" /\ ~CalFollows(t, now)
             /\ CalStep(t, "unfollow", now)
             /\ UNCHANGED <<calItems, calIssued, calKnown>>
          \/ /\ q.route # "card" \/ CalFollows(t, now)
             /\ \/ Cardinality(CalHeld(CalCleaned(now))) >= CalMaxRecords
                \/ \A a \in CalApprovals : calIssued[a] # CalUnissued  \* bound: ids
             /\ calItems' = CalCleaned(now)
             /\ IF q.route = "card" THEN CalStep(t, "unfollow", now) ELSE CalReply(t)
             /\ UNCHANGED <<calIssued, calKnown>>
          \/ /\ q.route # "card" \/ CalFollows(t, now)
             /\ Cardinality(CalHeld(CalCleaned(now))) < CalMaxRecords
             /\ \E a \in CalApprovals :
                   /\ calIssued[a] = CalUnissued
                   /\ calItems' = [CalCleaned(now) EXCEPT ![a] = "pending"]
                   /\ calIssued' = [calIssued EXCEPT ![a] =
                         [operation |-> q.operation, route |-> q.route,
                          expires |-> now + CalTTL]]
                   /\ IF q.route = "api"
                      THEN CalReply(t) /\ calKnown' = calKnown \cup {a}
                      ELSE /\ CalGoes(t, [q EXCEPT !.approval = a, !.now = now,
                                 !.pc = IF q.route = "chat" THEN "bind" ELSE "unfollow"])
                           /\ UNCHANGED calKnown
    /\ UNCHANGED <<calClock, calClaimed, calBound, calSelection, calFollowup,
                   calWrites, calDone, calAnswers, calCalls>>

\* The follow-up is consumed, or its proposal is withdrawn.
CalUnfollow(t) ==
    LET q == calThreads[t] IN
    /\ q.pc = "unfollow"
    /\ \E now \in CalReads(t) :
          /\ calFollowup' = IF calFollowup.by = t THEN CalNoFollowup ELSE calFollowup
          /\ IF q.approval = CalNone THEN CalReply(t)
             ELSE CalStep(t, IF CalFollows(t, now) THEN "spend" ELSE "neutralize", now)
    /\ UNCHANGED <<calClock, calIssued, calItems, calClaimed, calBound, calSelection,
                   calKnown, calWrites, calDone, calAnswers, calCalls>>

\* A mutant: the selection is not consumed.
CalSpend_Kept(t) ==
    /\ calThreads[t].pc = "spend"
    /\ \E now \in CalReads(t) : CalStep(t, "bind", now)
    /\ UNCHANGED <<calClock, calIssued, calItems, calClaimed, calBound, calSelection,
                   calFollowup, calKnown, calWrites, calDone, calAnswers, calCalls>>

\* The selection is consumed: of several proposals made from it, one passes.
CalSpend(t) ==
    /\ calThreads[t].pc = "spend"
    /\ \E now \in CalReads(t) :
          /\ calSelection' = FALSE
          /\ CalStep(t, IF calSelection /\ now < CalTTL THEN "bind" ELSE "neutralize", now)
    /\ UNCHANGED <<calClock, calIssued, calItems, calClaimed, calBound,
                   calFollowup, calKnown, calWrites, calDone, calAnswers, calCalls>>

\* The correlation store's own check, inside its lock: one binding of a kind.
CalBind(t) ==
    LET q == calThreads[t] IN
    /\ q.pc = "bind"
    /\ \E now \in CalReads(t) :
          LET kept == CalBoundFor(q.operation, now) IN
          IF CalBindings(kept, q.operation) = {} /\ CalAlive(q.approval, now)
          THEN /\ calBound' = kept \cup {q.approval}
               /\ calKnown' = calKnown \cup {q.approval}
               /\ CalReply(t)
          ELSE /\ calBound' = kept
               /\ CalStep(t, "neutralize", now)
               /\ UNCHANGED calKnown
    /\ UNCHANGED <<calClock, calIssued, calItems, calClaimed, calSelection,
                   calFollowup, calWrites, calDone, calAnswers, calCalls>>

-----------------------------------------------------------------------------
(* Deciding.                                                               *)

\* _pending_record, then the decision: a lapsed record is dropped, and so is
\* a pending one that is named with another digest.
CalDecided(a, now, matches, decision) ==
    IF ~CalAlive(a, now) THEN "absent"
    ELSE IF calItems[a] # "pending" THEN calItems[a]
    ELSE IF matches THEN decision ELSE "absent"

CalDecidable(a, now, matches) ==
    calItems[a] = "pending" /\ CalAlive(a, now) /\ matches

\* Whatever keeps the orphan from being denied, nobody knows its id.
CalNeutralize(t) ==
    LET q == calThreads[t] IN
    /\ q.pc = "neutralize"
    /\ \E now \in CalReads(t) :
          calItems' = [calItems EXCEPT ![q.approval] =
                          CalDecided(q.approval, now, TRUE, "denied")]
    /\ CalReply(t)
    /\ UNCHANGED <<calClock, calIssued, calClaimed, calBound, calSelection,
                   calFollowup, calKnown, calWrites, calDone, calAnswers, calCalls>>

\* The binding is resolved, then the conversation is looked up in the
\* request's workspace, where it may not be.
CalResolve(t) ==
    LET q == calThreads[t] IN
    /\ q.pc = "resolve"
    /\ \E now \in CalReads(t) :
          /\ calBound' = CalBoundFor(q.operation, now)
          /\ \/ CalReply(t)
             \/ /\ q.approval \in calBound'
                /\ CalStep(t, IF q.route = "chat" THEN "decide" ELSE "consume", now)
    /\ UNCHANGED <<calClock, calIssued, calItems, calClaimed, calSelection,
                   calFollowup, calKnown, calWrites, calDone, calAnswers, calCalls>>

\* A card's binding is consumed before the decision.
CalConsume(t) ==
    LET q == calThreads[t] IN
    /\ q.pc = "consume"
    /\ \E now \in CalReads(t) :
          LET kept == CalBoundFor(q.operation, now) IN
          /\ calBound' = kept \ {q.approval}
          /\ IF q.approval \in kept THEN CalStep(t, "decide", now) ELSE CalReply(t)
    /\ UNCHANGED <<calClock, calIssued, calItems, calClaimed, calSelection,
                   calFollowup, calKnown, calWrites, calDone, calAnswers, calCalls>>

\* approve and deny.  Chat and card go on to execute what was approved; a
\* Chat denial still has its binding to consume.
CalDecide(t) ==
    LET q == calThreads[t] IN
    /\ q.pc = "decide"
    /\ \E now \in CalReads(t) :
          /\ calItems' = [calItems EXCEPT ![q.approval] =
                CalDecided(q.approval, now, q.matches,
                           IF q.approve THEN "approved" ELSE "denied")]
          /\ IF ~CalDecidable(q.approval, now, q.matches) \/ q.route = "api"
             THEN CalReply(t)
             ELSE IF q.approve THEN CalStep(t, "get", now)
             ELSE IF q.route = "chat" THEN CalStep(t, "answer", now)
             ELSE CalReply(t)
    /\ UNCHANGED <<calClock, calIssued, calClaimed, calBound, calSelection,
                   calFollowup, calKnown, calWrites, calDone, calAnswers, calCalls>>

-----------------------------------------------------------------------------
(* Executing.                                                              *)

\* An execution that is refused is an error to the API and to a card, and an
\* indeterminate outcome to Chat.
CalRefused(t, now) ==
    IF calThreads[t].route = "chat"
    THEN CalGoes(t, [calThreads[t] EXCEPT !.pc = "answer", !.now = now, !.reply = "unclear"])
    ELSE CalReply(t)

CalDropIfLapsed(a, now) ==
    calItems' = [calItems EXCEPT ![a] = IF CalAlive(a, now) THEN @ ELSE "absent"]

\* get_approved, then the private plan: an endpoint runs its own operation
\* only.
CalGetApproved(t) ==
    LET q == calThreads[t]
        a == q.approval
    IN  /\ q.pc = "get"
        /\ \E now \in CalReads(t) :
              /\ CalDropIfLapsed(a, now)
              /\ IF calItems[a] = "approved" /\ CalAlive(a, now)
                    /\ q.operation = calIssued[a].operation
                 THEN CalStep(t, "claim", now) ELSE CalRefused(t, now)
        /\ UNCHANGED <<calClock, calIssued, calClaimed, calBound, calSelection,
                       calFollowup, calKnown, calWrites, calDone, calAnswers, calCalls>>

CalClaimIf(t, states) ==
    LET q == calThreads[t]
        a == q.approval
    IN  /\ q.pc = "claim"
        /\ \E now \in CalReads(t) :
              \/ /\ calItems[a] \in states /\ CalAlive(a, now)
                 /\ calItems' = [calItems EXCEPT ![a] = "claimed"]
                 /\ calClaimed' = calClaimed \cup {a}
                 /\ CalStep(t, "provider", now)
              \/ /\ ~(calItems[a] \in states /\ CalAlive(a, now))
                 /\ CalDropIfLapsed(a, now)
                 /\ CalRefused(t, now)
                 /\ UNCHANGED calClaimed
        /\ UNCHANGED <<calClock, calIssued, calBound, calSelection,
                       calFollowup, calKnown, calWrites, calDone, calAnswers, calCalls>>

\* A mutant: the snapshot taken before is trusted.
CalClaim_Trusting(t) == CalClaimIf(t, {"approved", "claimed"})

\* claim_approved: the only step from approved to claimed.
CalClaim(t) == CalClaimIf(t, {"approved"})

\* The credential broker answers, or the adapter fails before any request
\* ("refused"); then one POST, PATCH or DELETE.  "rejected" is a 4xx but 408;
\* "unclear" is a timeout, a redirect, 408, 5xx, or an answer that does not
\* prove the change.
CalProvider(t) ==
    LET q == calThreads[t] IN
    /\ q.pc = "provider"
    /\ \E reply \in {"refused", "rejected", "accepted", "unclear"}, made \in BOOLEAN :
          /\ reply = "accepted" => made
          /\ reply \in {"refused", "rejected"} => ~made
          /\ calWrites' = IF reply = "refused" THEN calWrites
                          ELSE [calWrites EXCEPT ![q.approval] = Append(@, q.operation)]
          /\ calDone' = IF made THEN calDone \cup {q.approval} ELSE calDone
          /\ CalGoes(t, [q EXCEPT !.pc = "answer", !.reply = reply])
    /\ UNCHANGED <<calClock, calIssued, calItems, calClaimed, calBound, calSelection,
                   calFollowup, calKnown, calAnswers, calCalls>>

\* A mutant: whatever is not success is failure.
CalOutcome_TwoValued(reply) == IF reply = "accepted" THEN "succeeded" ELSE "failed"

\* A mutant: the connector's word goes out as it is.
CalOutcome_Raw(reply) == reply

CalOutcome(reply) ==
    [accepted |-> "succeeded", unclear |-> "indeterminate",
     refused |-> "failed", rejected |-> "failed"][reply]

\* The outcome goes back to the caller and is kept nowhere.  Chat consumes
\* its binding first: a binding that lapsed while the provider was asked
\* raises, and the answer with it is lost.
CalAnswer(t) ==
    LET q == calThreads[t]
        told == IF q.approve
                THEN [calAnswers EXCEPT ![q.approval] = @ \cup {CalOutcome(q.reply)}]
                ELSE calAnswers
    IN  /\ q.pc = "answer"
        /\ IF q.route = "chat"
           THEN \E now \in CalReads(t) :
                   LET kept == CalBoundFor("create", now) IN
                   /\ calBound' = kept \ {q.approval}
                   /\ calAnswers' = IF q.approval \in kept THEN told ELSE calAnswers
           ELSE calAnswers' = told /\ UNCHANGED calBound
        /\ CalReply(t)
        /\ UNCHANGED <<calClock, calIssued, calItems, calClaimed, calSelection,
                       calFollowup, calKnown, calWrites, calDone, calCalls>>

CalTick ==
    /\ calClock < CalMaxTime
    /\ calClock' = calClock + 1
    /\ UNCHANGED <<calIssued, calItems, calClaimed, calBound, calSelection,
                   calFollowup, calKnown, calThreads, calWrites, calDone, calAnswers, calCalls>>

CalInit ==
    /\ calClock = 0 /\ calCalls = 0
    /\ calIssued = [a \in CalApprovals |-> CalUnissued]
    /\ calItems = [a \in CalApprovals |-> "absent"]
    /\ calClaimed = {} /\ calBound = {} /\ calKnown = {} /\ calDone = {}
    /\ calSelection = TRUE
    /\ calFollowup = CalNoFollowup
    /\ calThreads = [t \in CalThreads |-> CalIdle]
    /\ calWrites = [a \in CalApprovals |-> <<>>]
    /\ calAnswers = [a \in CalApprovals |-> {}]

CalServe(t) ==
    \/ CalCheck(t) \/ CalSelect(t) \/ CalFollow(t) \/ CalCreate(t)
    \/ CalUnfollow(t) \/ CalSpend(t) \/ CalBind(t) \/ CalNeutralize(t)
    \/ CalResolve(t) \/ CalConsume(t) \/ CalDecide(t)
    \/ CalGetApproved(t) \/ CalClaim(t) \/ CalProvider(t) \/ CalAnswer(t)

CalNext == (\E t \in CalThreads : CalCall(t) \/ CalServe(t)) \/ CalTick

CalSpec == CalInit /\ [][CalNext]_calVars

-----------------------------------------------------------------------------
(* Properties.                                                             *)

\* An answer never misleads the owner about the calendar: "failed" only if
\* nothing was changed, "succeeded" only if it was, whichever of the three
\* routes gave it and whoever raced it to the claim.
CalAnswerIsTruthful ==
    \A a \in CalApprovals :
        /\ "failed" \in calAnswers[a] => a \notin calDone
        /\ "succeeded" \in calAnswers[a] => a \in calDone

\* The event the owner picked once is put up for one decision at most, be it
\* an update or a delete, however many cards were prepared from it at once.
CalOneSelectionOneDecision ==
    Cardinality({a \in calKnown : calIssued[a].route = "card"}) <= 1

CalStanding ==
    [a \in CalApprovals |->
        IF calIssued[a] = CalUnissued THEN "unasked"
        ELSE IF a \in calClaimed THEN "spent"
        ELSE IF calItems[a] # "absent" THEN calItems[a] ELSE "gone"]

CalAuthority == INSTANCE OneShotAuthority WITH
    Approvals <- CalApprovals,
    Contents <- CalOperations,
    NoContent <- "none",
    standing <- CalStanding,
    terms <- [a \in CalApprovals |-> calIssued[a].operation],
    effects <- calWrites

\* The lane is a one-shot authority: decided once, claimed once, one attempt
\* of the approved operation, through the private API, Chat and the cards.
CalImplementsAuthority == CalAuthority!Spec

=============================================================================

-------------------------- MODULE OwnerLanesProofs --------------------------
(***************************************************************************)
(* The calendar writes, the local AI control, the Google credentials, and  *)
(* the run of them with the Gmail lane and the chat, for every number of   *)
(* threads, approvals, calls and instants.                                 *)
(***************************************************************************)
EXTENDS MCOwnerLanes, GmailSendProofs, ChatProofs

-----------------------------------------------------------------------------
(* CalendarWrite: the inductive invariant.                                  *)

CalProposing == {"check", "select", "follow", "create"}
CalNaming == {"spend", "bind", "neutralize", "resolve", "consume", "decide",
              "get", "claim", "provider", "answer"}

\* A thread works on an issued approval, and a card's proposal on a card's.
CalNamed(t) ==
    LET q == calThreads[t] IN
    /\ q.pc \in CalProposing => q.approval = CalNone
    /\ q.pc \in CalNaming => q.approval # CalNone
    /\ q.approval # CalNone => calIssued[q.approval] # CalUnissued
    /\ q.pc \in {"unfollow", "spend"} => q.route = "card"
    /\ q.pc \in {"unfollow", "spend", "bind"} /\ q.approval # CalNone =>
          calIssued[q.approval].route = q.route
    /\ q.pc \in {"claim", "provider"} => q.operation = calIssued[q.approval].operation

\* A thread past its claim that will tell what it saw of the provider.
CalHolds(t) ==
    \/ calThreads[t].pc = "provider"
    \/ /\ calThreads[t].pc = "answer" /\ calThreads[t].approve
       /\ calThreads[t].reply # "unclear"

CalHolderOK(t) ==
    LET q == calThreads[t]  a == q.approval IN
    CalHolds(t) =>
        /\ a \in calClaimed
        /\ calAnswers[a] \subseteq {"indeterminate"}
        /\ q.pc = "provider" => calWrites[a] = <<>> /\ a \notin calDone
        /\ q.pc = "answer" => (a \in calDone <=> q.reply = "accepted")

CalExclusive ==
    \A s, t \in CalThreads :
        CalHolds(s) /\ CalHolds(t) /\ calThreads[s].approval = calThreads[t].approval
            => s = t

\* An id nobody was given has left no trace; what was not claimed was not
\* attempted; the record and the history of claims agree.
CalRecords ==
    \A a \in CalApprovals :
        /\ calIssued[a] = CalUnissued =>
              calItems[a] = "absent" /\ a \notin calClaimed /\ a \notin calKnown
        /\ calItems[a] \in {"pending", "approved", "denied"} => a \notin calClaimed
        /\ calItems[a] = "claimed" => a \in calClaimed
        /\ a \notin calClaimed =>
              /\ calWrites[a] = <<>> /\ a \notin calDone
              /\ calAnswers[a] \subseteq {"indeterminate"}

\* A proposal that has taken the selection.
CalPicked(t) == calThreads[t].pc = "bind" /\ calThreads[t].route = "card"
CalCard(a) == a \in calKnown /\ calIssued[a].route = "card"

\* One proposal takes the selection, and it is the only one the owner hears of.
CalPickedOnce ==
    /\ \A a, b \in CalApprovals : CalCard(a) /\ CalCard(b) => a = b
    /\ \A s, t \in CalThreads : CalPicked(s) /\ CalPicked(t) => s = t
    /\ \A t \in CalThreads, a \in CalApprovals : ~(CalPicked(t) /\ CalCard(a))
    /\ calSelection =>
          /\ \A t \in CalThreads : ~CalPicked(t)
          /\ \A a \in CalApprovals : ~CalCard(a)

CalIInv ==
    /\ CalTypeOK
    /\ \A t \in CalThreads : CalNamed(t) /\ CalHolderOK(t)
    /\ CalExclusive /\ CalRecords /\ CalPickedOnce
    /\ CalAnswerIsTruthful

-----------------------------------------------------------------------------
(* CalendarWrite: types.                                                    *)

LEMMA CalBounds ==
    /\ IsFiniteSet(CalApprovals)
    /\ CalNone \notin CalApprovals /\ CalNone \notin CalThreads
    /\ CalTargeted \subseteq {"update", "delete"}
    /\ CalTTL \in Nat /\ CalMaxRecords \in Nat /\ CalMaxTime \in Nat /\ CalMaxCalls \in Nat
BY CalConstantsAssumption

LEMMA CalOperationsAre ==
    /\ CalOperations \subseteq {"create", "update", "delete"}
    /\ "create" \in CalOperations /\ CalTargeted \subseteq CalOperations
    /\ "none" \notin CalOperations
BY CalBounds DEF CalOperations

LEMMA CalThreadType ==
    ASSUME CalTypeOK, NEW t \in CalThreads
    PROVE  calThreads[t] \in CalThread /\ calClock \in Nat
           /\ CalReads(t) \subseteq Nat
BY CalBounds DEF CalTypeOK, CalReads, CalThread

LEMMA CalIdleType ==
    CalIdle \in CalThread
BY CalOperationsAre DEF CalIdle, CalThread, CalSteps, CalRoutes

\* Handing a thread a well-typed record keeps the threads well typed.
LEMMA CalGoesType ==
    ASSUME CalTypeOK, NEW t \in CalThreads, NEW q \in CalThread, CalGoes(t, q)
    PROVE  /\ calThreads' \in [CalThreads -> CalThread]
           /\ calThreads'[t] = q
           /\ \A s \in CalThreads \ {t} : calThreads'[s] = calThreads[s]
BY DEF CalTypeOK, CalGoes

LEMMA CalStepType ==
    ASSUME CalTypeOK, NEW t \in CalThreads, NEW pc \in CalSteps, NEW now \in Nat,
           CalStep(t, pc, now)
    PROVE  /\ calThreads' \in [CalThreads -> CalThread]
           /\ calThreads'[t] = [calThreads[t] EXCEPT !.pc = pc, !.now = now]
           /\ \A s \in CalThreads \ {t} : calThreads'[s] = calThreads[s]
<1>1. [calThreads[t] EXCEPT !.pc = pc, !.now = now] \in CalThread
  BY CalThreadType DEF CalThread
<1> QED
  BY <1>1, CalGoesType DEF CalStep

LEMMA CalReplyType ==
    ASSUME CalTypeOK, NEW t \in CalThreads, CalReply(t)
    PROVE  /\ calThreads' \in [CalThreads -> CalThread]
           /\ calThreads'[t] = CalIdle
           /\ \A s \in CalThreads \ {t} : calThreads'[s] = calThreads[s]
BY CalIdleType, CalGoesType DEF CalReply

-----------------------------------------------------------------------------
(* CalendarWrite: what a step leaves alone.                                 *)

\* The other threads still work on what they worked on.
LEMMA CalOthersNamed ==
    ASSUME CalIInv, NEW t \in CalThreads, NEW s \in CalThreads \ {t},
           calThreads'[s] = calThreads[s],
           \A a \in CalApprovals :
               calIssued[a] # CalUnissued => calIssued'[a] = calIssued[a]
    PROVE  CalNamed(s)'
<1>1. CalNamed(s)
  BY DEF CalIInv
<1>2. calThreads[s].approval # CalNone => calThreads[s].approval \in CalApprovals
  BY CalThreadType DEF CalIInv, CalThread
<1> QED
  BY <1>1, <1>2 DEF CalNamed, CalNaming, CalProposing

\* A step of one thread that claims, attempts and tells nothing.
LEMMA CalStepOK ==
    ASSUME CalIInv, NEW t \in CalThreads, CalTypeOK',
           \A s \in CalThreads \ {t} : calThreads'[s] = calThreads[s],
           UNCHANGED <<calClaimed, calWrites, calDone, calAnswers>>,
           \A a \in CalApprovals :
               calIssued[a] # CalUnissued => calIssued'[a] = calIssued[a],
           CalNamed(t)', ~CalHolds(t)', CalRecords', CalPickedOnce'
    PROVE  CalIInv'
<1>1. ASSUME NEW s \in CalThreads PROVE CalNamed(s)'
  <2>1. CASE s = t
    BY <2>1
  <2>2. CASE s # t
    BY <2>2, CalOthersNamed
  <2> QED
    BY <2>1, <2>2
<1>2. ASSUME NEW s \in CalThreads, CalHolds(s)'
      PROVE  s # t /\ CalHolds(s) /\ calThreads'[s] = calThreads[s]
  BY <1>2 DEF CalHolds
<1>3. ASSUME NEW s \in CalThreads PROVE CalHolderOK(s)'
  BY <1>2 DEF CalIInv, CalHolderOK
<1>4. CalExclusive'
  BY <1>2 DEF CalIInv, CalExclusive
<1>5. CalAnswerIsTruthful'
  BY DEF CalIInv, CalAnswerIsTruthful
<1> QED
  BY <1>1, <1>3, <1>4, <1>5 DEF CalIInv

LEMMA CalPickedSame ==
    ASSUME CalIInv, NEW t \in CalThreads, ~CalPicked(t)',
           \A s \in CalThreads \ {t} : calThreads'[s] = calThreads[s],
           \A a \in CalApprovals : CalCard(a)' => CalCard(a),
           calSelection' => calSelection
    PROVE  CalPickedOnce'
<1>1. \A s \in CalThreads : CalPicked(s)' => CalPicked(s)
  BY DEF CalPicked
<1> QED
  BY <1>1 DEF CalIInv, CalPickedOnce

\* A step that leaves the approvals alone.
LEMMA CalQuiet ==
    ASSUME CalIInv, NEW t \in CalThreads, CalTypeOK',
           \A s \in CalThreads \ {t} : calThreads'[s] = calThreads[s],
           UNCHANGED <<calIssued, calItems, calClaimed, calKnown,
                       calWrites, calDone, calAnswers>>,
           calSelection' => calSelection,
           CalNamed(t)', ~CalHolds(t)', ~CalPicked(t)'
    PROVE  CalIInv'
<1>1. CalRecords'
  BY DEF CalIInv, CalRecords
<1>2. CalPickedOnce'
  BY CalPickedSame DEF CalCard
<1> QED
  BY <1>1, <1>2, CalStepOK

\* A thread that has replied holds nothing.
LEMMA CalIdleThread ==
    ASSUME NEW t \in CalThreads, calThreads'[t] = CalIdle
    PROVE  CalNamed(t)' /\ ~CalHolds(t)' /\ ~CalPicked(t)'
BY DEF CalIdle, CalNamed, CalHolds, CalPicked, CalNaming, CalProposing

\* A thread that goes on with what it has, short of the claim.
LEMMA CalSameThread ==
    ASSUME CalIInv, NEW t \in CalThreads, NEW pc \in CalSteps \ {"provider"}, NEW now,
           calThreads'[t] = [calThreads[t] EXCEPT !.pc = pc, !.now = now],
           \A a \in CalApprovals :
               calIssued[a] # CalUnissued => calIssued'[a] = calIssued[a],
           pc \in CalProposing => calThreads[t].approval = CalNone,
           pc \in CalNaming => calThreads[t].approval # CalNone,
           pc \in {"unfollow", "spend"} => calThreads[t].route = "card",
           pc = "bind" => calThreads[t].pc = "spend",
           pc = "spend" => calThreads[t].pc = "unfollow",
           pc = "unfollow" => calThreads[t].approval = CalNone,
           pc = "claim" => calThreads[t].operation = calIssued[calThreads[t].approval].operation,
           pc = "answer" => ~calThreads[t].approve
    PROVE  /\ CalNamed(t)' /\ ~CalHolds(t)'
           /\ pc # "bind" => ~CalPicked(t)'
<1>1. /\ calThreads[t] \in CalThread /\ CalNamed(t)
      /\ calThreads[t].approval \in CalApprovals \cup {CalNone}
  BY CalThreadType DEF CalIInv, CalThread
<1>2. /\ calThreads'[t].pc = pc
      /\ calThreads'[t].approval = calThreads[t].approval
      /\ calThreads'[t].route = calThreads[t].route
      /\ calThreads'[t].operation = calThreads[t].operation
      /\ calThreads'[t].approve = calThreads[t].approve
  BY <1>1 DEF CalThread
<1>3. CalNamed(t)'
  BY <1>1, <1>2 DEF CalNamed, CalNaming, CalProposing, CalSteps
<1> QED
  BY <1>2, <1>3 DEF CalHolds, CalPicked

-----------------------------------------------------------------------------
(* CalendarWrite: the actions.                                              *)

\* A request starts with a thread of its own making.
LEMMA CalStartOK ==
    ASSUME CalIInv, NEW t \in CalThreads, CalCall(t), NEW q \in CalThread, CalGoes(t, q),
           q.pc \in {"create", "check", "select", "decide", "get", "resolve"},
           q.pc \in {"decide", "get", "resolve"} => q.approval \in calKnown,
           q.approval \in calKnown \cup {CalNone},
           q.pc \in CalProposing => q.approval = CalNone
    PROVE  CalIInv'
<1>1. CalTypeOK
  BY DEF CalIInv
<1>2. \A a \in calKnown : a # CalNone /\ calIssued[a] # CalUnissued
  <2>1. \A a \in calKnown : a \in CalApprovals
    BY <1>1 DEF CalTypeOK
  <2>2. \A a \in calKnown : a # CalNone
    BY <2>1, CalBounds
  <2>3. \A a \in calKnown : calIssued[a] # CalUnissued
    BY <2>1 DEF CalIInv, CalRecords
  <2> QED
    BY <2>2, <2>3
<1>3. /\ calThreads' \in [CalThreads -> CalThread] /\ calThreads'[t] = q
      /\ \A s \in CalThreads \ {t} : calThreads'[s] = calThreads[s]
  BY <1>1, CalGoesType
<1>4. UNCHANGED <<calClock, calIssued, calItems, calClaimed, calBound, calSelection,
                  calFollowup, calKnown, calWrites, calDone, calAnswers>>
  BY DEF CalCall
<1>5. calCalls' \in 0..CalMaxCalls
  <2>1. calCalls < CalMaxCalls /\ calCalls' = calCalls + 1
    BY DEF CalCall
  <2>2. calCalls \in 0..CalMaxCalls
    BY <1>1 DEF CalTypeOK
  <2> QED
    BY <2>1, <2>2, CalBounds
<1>6. CalTypeOK'
  BY <1>1, <1>3, <1>4, <1>5 DEF CalTypeOK
<1>7. CalNamed(t)' /\ ~CalHolds(t)' /\ ~CalPicked(t)'
  BY <1>2, <1>3, <1>4 DEF CalNamed, CalHolds, CalPicked, CalNaming, CalProposing
<1> QED
  BY <1>3, <1>4, <1>6, <1>7, CalQuiet

LEMMA CalCallOK ==
    ASSUME CalIInv, NEW t \in CalThreads, CalCall(t)
    PROVE  CalIInv'
<1>1. CalTypeOK /\ calClock \in Nat
  BY CalThreadType DEF CalIInv
<1>2. \A a \in calKnown : a \in CalApprovals /\ calIssued[a] # CalUnissued
  BY <1>1 DEF CalIInv, CalRecords, CalTypeOK
<1>3. \A a \in calKnown : calIssued[a].operation \in CalOperations
  BY <1>1, <1>2 DEF CalTypeOK
<1>4. /\ CalIdle \in CalThread /\ CalIdle.approval = CalNone
      /\ {"api", "chat", "card"} \subseteq CalRoutes
      /\ {"create", "check", "select", "decide", "get", "resolve"} \subseteq CalSteps
  BY CalIdleType DEF CalIdle, CalRoutes, CalSteps
<1>5. CASE \E o \in CalOperations :
             CalGoes(t, [CalIdle EXCEPT !.pc = "create", !.operation = o, !.now = calClock])
  <2>1. PICK o \in CalOperations :
             CalGoes(t, [CalIdle EXCEPT !.pc = "create", !.operation = o, !.now = calClock])
    BY <1>5
  <2> DEFINE q == [CalIdle EXCEPT !.pc = "create", !.operation = o, !.now = calClock]
  <2>2. q \in CalThread /\ q.pc = "create" /\ q.approval = CalNone
    BY <1>1, <1>4 DEF CalThread
  <2> HIDE DEF q
  <2> QED
    BY <2>1, <2>2, CalStartOK DEF q, CalProposing
<1>6. CASE CalGoes(t, [CalIdle EXCEPT !.pc = "check", !.route = "chat", !.now = calClock])
  <2> DEFINE q == [CalIdle EXCEPT !.pc = "check", !.route = "chat", !.now = calClock]
  <2>2. q \in CalThread /\ q.pc = "check" /\ q.approval = CalNone
    BY <1>1, <1>4 DEF CalThread
  <2> QED
    BY <1>6, <2>2, CalStartOK DEF CalProposing
<1>7. CASE \E o \in CalTargeted :
             CalGoes(t, [CalIdle EXCEPT !.pc = "select", !.route = "card",
                                        !.operation = o, !.now = calClock])
  <2>1. PICK o \in CalTargeted :
             CalGoes(t, [CalIdle EXCEPT !.pc = "select", !.route = "card",
                                        !.operation = o, !.now = calClock])
    BY <1>7
  <2> DEFINE q == [CalIdle EXCEPT !.pc = "select", !.route = "card",
                                  !.operation = o, !.now = calClock]
  <2>2. q \in CalThread /\ q.pc = "select" /\ q.approval = CalNone
    BY <1>1, <1>4, CalOperationsAre DEF CalThread
  <2> HIDE DEF q
  <2> QED
    BY <2>1, <2>2, CalStartOK DEF q, CalProposing
<1>8. CASE \E a \in calKnown, yes \in BOOLEAN, matches \in BOOLEAN :
             CalGoes(t, [CalIdle EXCEPT !.pc = "decide", !.approval = a, !.approve = yes,
                                        !.matches = matches, !.now = calClock])
  <2>1. PICK a \in calKnown, yes \in BOOLEAN, matches \in BOOLEAN :
             CalGoes(t, [CalIdle EXCEPT !.pc = "decide", !.approval = a, !.approve = yes,
                                        !.matches = matches, !.now = calClock])
    BY <1>8
  <2> DEFINE q == [CalIdle EXCEPT !.pc = "decide", !.approval = a, !.approve = yes,
                                  !.matches = matches, !.now = calClock]
  <2>2. q \in CalThread /\ q.pc = "decide" /\ q.approval = a
    BY <1>1, <1>2, <1>4 DEF CalThread
  <2> HIDE DEF q
  <2> QED
    BY <2>1, <2>2, CalStartOK DEF q, CalProposing
<1>9. CASE \E a \in calKnown, o \in CalOperations :
             CalGoes(t, [CalIdle EXCEPT !.pc = "get", !.approval = a,
                                        !.operation = o, !.now = calClock])
  <2>1. PICK a \in calKnown, o \in CalOperations :
             CalGoes(t, [CalIdle EXCEPT !.pc = "get", !.approval = a,
                                        !.operation = o, !.now = calClock])
    BY <1>9
  <2> DEFINE q == [CalIdle EXCEPT !.pc = "get", !.approval = a,
                                  !.operation = o, !.now = calClock]
  <2>2. q \in CalThread /\ q.pc = "get" /\ q.approval = a
    BY <1>1, <1>2, <1>4 DEF CalThread
  <2> HIDE DEF q
  <2> QED
    BY <2>1, <2>2, CalStartOK DEF q, CalProposing
<1>10. CASE \E a \in calKnown, yes \in BOOLEAN :
              CalGoes(t, [CalIdle EXCEPT
                 !.pc = "resolve", !.approval = a, !.approve = yes, !.now = calClock,
                 !.operation = calIssued[a].operation,
                 !.route = IF calIssued[a].operation = "create" THEN "chat" ELSE "card"])
  <2>1. PICK a \in calKnown, yes \in BOOLEAN :
              CalGoes(t, [CalIdle EXCEPT
                 !.pc = "resolve", !.approval = a, !.approve = yes, !.now = calClock,
                 !.operation = calIssued[a].operation,
                 !.route = IF calIssued[a].operation = "create" THEN "chat" ELSE "card"])
    BY <1>10
  <2> DEFINE q == [CalIdle EXCEPT
                 !.pc = "resolve", !.approval = a, !.approve = yes, !.now = calClock,
                 !.operation = calIssued[a].operation,
                 !.route = IF calIssued[a].operation = "create" THEN "chat" ELSE "card"]
  <2>2. q \in CalThread /\ q.pc = "resolve" /\ q.approval = a
    BY <1>1, <1>2, <1>3, <1>4 DEF CalThread
  <2> HIDE DEF q
  <2> QED
    BY <2>1, <2>2, CalStartOK DEF q, CalProposing
<1> QED
  BY <1>5, <1>6, <1>7, <1>8, <1>9, <1>10 DEF CalCall

LEMMA CalBoundType ==
    ASSUME CalTypeOK, NEW operation, NEW now
    PROVE  CalBoundFor(operation, now) \subseteq CalApprovals
BY DEF CalTypeOK, CalBoundFor

\* The lookups of a proposal and of a decision.
LEMMA CalLookupOK ==
    ASSUME CalIInv, NEW t \in CalThreads,
           CalCheck(t) \/ CalSelect(t) \/ CalFollow(t) \/ CalResolve(t) \/ CalConsume(t)
    PROVE  CalIInv'
<1>1. CalTypeOK /\ CalReads(t) \subseteq Nat /\ calThreads[t] \in CalThread /\ CalNamed(t)
  BY CalThreadType DEF CalIInv
<1>2. UNCHANGED <<calClock, calIssued, calItems, calClaimed, calKnown,
                  calWrites, calDone, calAnswers, calCalls>>
  BY DEF CalCheck, CalSelect, CalFollow, CalResolve, CalConsume
<1>3. /\ calBound' \subseteq CalApprovals
      /\ calSelection' \in BOOLEAN /\ (calSelection' => calSelection)
  <2>1. calBound \subseteq CalApprovals /\ calSelection \in BOOLEAN
    BY <1>1 DEF CalTypeOK
  <2>2. CASE CalSelect(t)
    <3>1. /\ calBound' = calBound
          /\ \E now \in CalReads(t) : calSelection' = (calSelection /\ now < CalTTL)
      BY <2>2 DEF CalSelect
    <3>2. calSelection' \in BOOLEAN /\ (calSelection' => calSelection)
      BY <3>1
    <3> QED
      BY <2>1, <3>1, <3>2
  <2>4. CASE CalFollow(t)
    BY <2>1, <2>4 DEF CalFollow
  <2>3. CASE CalCheck(t) \/ CalResolve(t) \/ CalConsume(t)
    <3>1. calSelection' = calSelection
      BY <2>3 DEF CalCheck, CalResolve, CalConsume
    <3>2. calBound' \subseteq calBound
      BY <2>3 DEF CalCheck, CalResolve, CalConsume, CalBoundFor
    <3> QED
      BY <2>1, <3>1, <3>2
  <2> QED
    BY <2>2, <2>3, <2>4
<1>4. calFollowup' \in [by : CalThreads \cup {CalNone}, expires : Nat]
  <2>1. \A now \in CalReads(t) :
          [by |-> t, expires |-> now + CalTTL] \in [by : CalThreads \cup {CalNone}, expires : Nat]
    BY <1>1, CalBounds
  <2> QED
    BY <1>1, <2>1 DEF CalCheck, CalSelect, CalFollow, CalResolve, CalConsume, CalTypeOK
<1>5. CASE CalReply(t)
  <2>1. /\ calThreads' \in [CalThreads -> CalThread]
        /\ calThreads'[t] = CalIdle
        /\ \A s \in CalThreads \ {t} : calThreads'[s] = calThreads[s]
    BY <1>1, <1>5, CalReplyType
  <2>2. CalTypeOK'
    BY <1>1, <1>2, <1>3, <1>4, <2>1 DEF CalTypeOK
  <2> QED
    BY <1>2, <1>3, <2>1, <2>2, CalIdleThread, CalQuiet
<1>6. CASE \E now \in CalReads(t), pc \in {"create", "follow", "decide", "consume"} :
             /\ pc \in {"decide", "consume"} => calThreads[t].pc \in {"resolve", "consume"}
             /\ pc \in {"create", "follow"} => calThreads[t].pc \in CalProposing
             /\ CalStep(t, pc, now)
  <2>1. PICK now \in CalReads(t), pc \in {"create", "follow", "decide", "consume"} :
             /\ pc \in {"decide", "consume"} => calThreads[t].pc \in {"resolve", "consume"}
             /\ pc \in {"create", "follow"} => calThreads[t].pc \in CalProposing
             /\ CalStep(t, pc, now)
    BY <1>6
  <2>a. now \in Nat /\ pc \in CalSteps \ {"provider"}
    BY <1>1, <2>1 DEF CalSteps
  <2>2. /\ calThreads' \in [CalThreads -> CalThread]
        /\ calThreads'[t] = [calThreads[t] EXCEPT !.pc = pc, !.now = now]
        /\ \A s \in CalThreads \ {t} : calThreads'[s] = calThreads[s]
    BY <1>1, <2>1, <2>a, CalStepType
  <2>3. CalTypeOK'
    BY <1>1, <1>2, <1>3, <1>4, <2>2 DEF CalTypeOK
  <2>4. CalNamed(t)' /\ ~CalHolds(t)' /\ ~CalPicked(t)'
    <3>1. /\ pc \in CalNaming => calThreads[t].approval # CalNone
          /\ pc \in CalProposing => calThreads[t].approval = CalNone
      BY <1>1, <2>1 DEF CalNaming, CalProposing, CalNamed
    <3>2. /\ pc \notin {"unfollow", "spend", "bind", "claim", "answer"}
          /\ \A a \in CalApprovals : calIssued'[a] = calIssued[a]
      BY <1>2, <2>1
    <3> QED
      BY <2>a, <2>2, <3>1, <3>2, CalSameThread
  <2> QED
    BY <1>2, <1>3, <2>2, <2>3, <2>4, CalQuiet
<1> QED
  BY <1>5, <1>6 DEF CalCheck, CalSelect, CalFollow, CalResolve, CalConsume, CalProposing

LEMMA CalUnfollowOK ==
    ASSUME CalIInv, NEW t \in CalThreads, CalUnfollow(t)
    PROVE  CalIInv'
<1>1. /\ CalTypeOK /\ CalReads(t) \subseteq Nat /\ calThreads[t] \in CalThread
      /\ CalNamed(t) /\ calThreads[t].pc = "unfollow"
  BY CalThreadType DEF CalIInv, CalUnfollow
<1>2. UNCHANGED <<calClock, calIssued, calItems, calClaimed, calBound, calSelection,
                  calKnown, calWrites, calDone, calAnswers, calCalls>>
  BY DEF CalUnfollow
<1>3. calFollowup' \in [by : CalThreads \cup {CalNone}, expires : Nat]
  BY <1>1 DEF CalUnfollow, CalTypeOK, CalNoFollowup
<1>4. CASE CalReply(t)
  <2>1. /\ calThreads' \in [CalThreads -> CalThread]
        /\ calThreads'[t] = CalIdle
        /\ \A s \in CalThreads \ {t} : calThreads'[s] = calThreads[s]
    BY <1>1, <1>4, CalReplyType
  <2>2. CalTypeOK'
    BY <1>1, <1>2, <1>3, <2>1 DEF CalTypeOK
  <2> QED
    BY <1>2, <2>1, <2>2, CalIdleThread, CalQuiet
<1>5. CASE /\ calThreads[t].approval # CalNone
           /\ \E now \in CalReads(t), pc \in {"spend", "neutralize"} : CalStep(t, pc, now)
  <2>1. PICK now \in CalReads(t), pc \in {"spend", "neutralize"} : CalStep(t, pc, now)
    BY <1>5
  <2>a. now \in Nat /\ pc \in CalSteps \ {"provider"}
    BY <1>1, <2>1 DEF CalSteps
  <2>2. /\ calThreads' \in [CalThreads -> CalThread]
        /\ calThreads'[t] = [calThreads[t] EXCEPT !.pc = pc, !.now = now]
        /\ \A s \in CalThreads \ {t} : calThreads'[s] = calThreads[s]
    BY <1>1, <2>1, <2>a, CalStepType
  <2>3. CalTypeOK'
    BY <1>1, <1>2, <1>3, <2>2 DEF CalTypeOK
  <2>4. calThreads[t].route = "card"
    BY <1>1 DEF CalNamed
  <2>5. CalNamed(t)' /\ ~CalHolds(t)' /\ ~CalPicked(t)'
    <3>1. /\ pc \notin {"unfollow", "bind", "claim", "answer"} \cup CalProposing
          /\ \A a \in CalApprovals : calIssued'[a] = calIssued[a]
      BY <1>2, <2>1 DEF CalProposing
    <3> QED
      BY <1>1, <1>5, <2>a, <2>2, <2>4, <3>1, CalSameThread
  <2> QED
    BY <1>2, <2>2, <2>3, <2>5, CalQuiet
<1> QED
  BY <1>4, <1>5 DEF CalUnfollow

\* The selection is taken, by one proposal.
LEMMA CalSpendOK ==
    ASSUME CalIInv, NEW t \in CalThreads, CalSpend(t)
    PROVE  CalIInv'
<1>1. /\ CalTypeOK /\ CalReads(t) \subseteq Nat /\ calThreads[t] \in CalThread
      /\ CalNamed(t) /\ CalPickedOnce
      /\ calThreads[t].pc = "spend" /\ calThreads[t].approval # CalNone
  BY CalThreadType DEF CalIInv, CalSpend, CalNamed, CalNaming
<1>2. /\ UNCHANGED <<calClock, calIssued, calItems, calClaimed, calBound, calFollowup,
                     calKnown, calWrites, calDone, calAnswers, calCalls>>
      /\ calSelection' = FALSE
  BY DEF CalSpend
<1>3. PICK now \in CalReads(t), pc \in {"bind", "neutralize"} :
         /\ pc = "bind" => calSelection
         /\ CalStep(t, pc, now)
  BY DEF CalSpend
<1>4. now \in Nat /\ pc \in CalSteps \ {"provider"}
  BY <1>1, <1>3 DEF CalSteps
<1>5. /\ calThreads' \in [CalThreads -> CalThread]
      /\ calThreads'[t] = [calThreads[t] EXCEPT !.pc = pc, !.now = now]
      /\ \A s \in CalThreads \ {t} : calThreads'[s] = calThreads[s]
  BY <1>1, <1>3, <1>4, CalStepType
<1>6. CalTypeOK'
  BY <1>1, <1>2, <1>5 DEF CalTypeOK
<1>7. CalNamed(t)' /\ ~CalHolds(t)' /\ (pc # "bind" => ~CalPicked(t)')
  <2>1. /\ pc \notin {"unfollow", "spend", "claim", "answer"} \cup CalProposing
        /\ \A a \in CalApprovals : calIssued'[a] = calIssued[a]
    BY <1>2, <1>3 DEF CalProposing
  <2> QED
    BY <1>1, <1>4, <1>5, <2>1, CalSameThread
<1>8. CalRecords'
  BY <1>2 DEF CalIInv, CalRecords
<1>9. CalPickedOnce'
  <2>1. \A a \in CalApprovals : CalCard(a)' <=> CalCard(a)
    BY <1>2 DEF CalCard
  <2>2. \A s \in CalThreads \ {t} : CalPicked(s)' <=> CalPicked(s)
    BY <1>5 DEF CalPicked
  <2>3. CASE pc = "bind"
    BY <1>1, <1>2, <1>3, <2>1, <2>2, <2>3 DEF CalPickedOnce
  <2>4. CASE pc # "bind"
    BY <1>1, <1>2, <1>7, <2>1, <2>2, <2>4 DEF CalPickedOnce
  <2> QED
    BY <2>3, <2>4
<1> QED
  BY <1>2, <1>5, <1>6, <1>7, <1>8, <1>9, CalStepOK

\* The owner hears of the proposal, or it is to be withdrawn.
LEMMA CalBindOK ==
    ASSUME CalIInv, NEW t \in CalThreads, CalBind(t)
    PROVE  CalIInv'
<1> DEFINE b == calThreads[t].approval
<1>1. /\ CalTypeOK /\ CalReads(t) \subseteq Nat /\ calThreads[t] \in CalThread
      /\ CalNamed(t) /\ CalPickedOnce
      /\ calThreads[t].pc = "bind" /\ calThreads[t].approval # CalNone
  BY CalThreadType DEF CalIInv, CalBind, CalNamed, CalNaming
<1>2. b \in CalApprovals /\ calIssued[b] # CalUnissued /\ calIssued[b].route = calThreads[t].route
  BY <1>1 DEF CalNamed, CalThread
<1>3. UNCHANGED <<calClock, calIssued, calItems, calClaimed, calSelection,
                  calFollowup, calWrites, calDone, calAnswers, calCalls>>
  BY DEF CalBind
<1>4. CASE /\ CalReply(t) /\ calKnown' = calKnown \cup {b}
           /\ calBound' \subseteq calBound \cup {b}
  <2>1. /\ calThreads' \in [CalThreads -> CalThread]
        /\ calThreads'[t] = CalIdle
        /\ \A s \in CalThreads \ {t} : calThreads'[s] = calThreads[s]
    BY <1>1, <1>4, CalReplyType
  <2>2. CalTypeOK'
    BY <1>1, <1>2, <1>3, <1>4, <2>1 DEF CalTypeOK
  <2>3. CalNamed(t)' /\ ~CalHolds(t)' /\ ~CalPicked(t)'
    BY <2>1, CalIdleThread
  <2>4. CalRecords'
    BY <1>2, <1>3, <1>4 DEF CalIInv, CalRecords
  <2>5. CalPickedOnce'
    <3>1. \A s \in CalThreads : CalPicked(s)' => CalPicked(s) /\ s # t
      BY <2>1, <2>3 DEF CalPicked
    <3>2. \A a \in CalApprovals : CalCard(a)' => CalCard(a) \/ (a = b /\ CalPicked(t))
      BY <1>1, <1>2, <1>3, <1>4 DEF CalCard, CalPicked
    <3> QED
      BY <1>1, <1>3, <3>1, <3>2 DEF CalPickedOnce
  <2> QED
    BY <1>3, <2>1, <2>2, <2>3, <2>4, <2>5, CalStepOK
<1>5. CASE /\ calKnown' = calKnown /\ calBound' \subseteq calBound
           /\ \E now \in CalReads(t) : CalStep(t, "neutralize", now)
  <2>1. PICK now \in CalReads(t), pc \in {"neutralize"} : CalStep(t, pc, now)
    BY <1>5
  <2>2. now \in Nat /\ pc \in CalSteps \ {"provider"}
    BY <1>1, <2>1 DEF CalSteps
  <2>3. /\ calThreads' \in [CalThreads -> CalThread]
        /\ calThreads'[t] = [calThreads[t] EXCEPT !.pc = pc, !.now = now]
        /\ \A s \in CalThreads \ {t} : calThreads'[s] = calThreads[s]
    BY <1>1, <2>1, <2>2, CalStepType
  <2>4. CalTypeOK'
    BY <1>1, <1>3, <1>5, <2>3 DEF CalTypeOK
  <2>5. CalNamed(t)' /\ ~CalHolds(t)' /\ ~CalPicked(t)'
    <3>1. /\ pc \notin {"unfollow", "spend", "bind", "claim", "answer"} \cup CalProposing
          /\ \A a \in CalApprovals : calIssued'[a] = calIssued[a]
      BY <1>3, <2>1 DEF CalProposing
    <3> QED
      BY <1>1, <2>2, <2>3, <3>1, CalSameThread
  <2> QED
    BY <1>3, <1>5, <2>3, <2>4, <2>5, CalQuiet
<1> QED
  BY <1>4, <1>5 DEF CalBind, CalBoundFor

\* Records are dropped and decided, and nothing else.
LEMMA CalItemsOK ==
    ASSUME CalIInv, NEW t \in CalThreads, CalTypeOK',
           \A s \in CalThreads \ {t} : calThreads'[s] = calThreads[s],
           UNCHANGED <<calIssued, calClaimed, calSelection, calKnown,
                       calWrites, calDone, calAnswers>>,
           \A a \in CalApprovals :
               \/ calItems'[a] \in {calItems[a], "absent"}
               \/ calItems[a] = "pending" /\ calItems'[a] \in {"approved", "denied"},
           CalNamed(t)', ~CalHolds(t)', ~CalPicked(t)'
    PROVE  CalIInv'
<1>1. CalRecords'
  BY DEF CalIInv, CalRecords
<1>2. CalPickedOnce'
  BY CalPickedSame DEF CalCard
<1> QED
  BY <1>1, <1>2, CalStepOK

LEMMA CalCleanedType ==
    ASSUME CalTypeOK, NEW now
    PROVE  /\ CalCleaned(now) \in
                [CalApprovals -> {"absent", "pending", "approved", "denied", "claimed"}]
           /\ \A a \in CalApprovals : CalCleaned(now)[a] \in {calItems[a], "absent"}
BY DEF CalTypeOK, CalCleaned

LEMMA CalCreateOK ==
    ASSUME CalIInv, NEW t \in CalThreads, CalCreate(t)
    PROVE  CalIInv'
<1> DEFINE q == calThreads[t]
<1>1. /\ CalTypeOK /\ CalReads(t) \subseteq Nat /\ calThreads[t] \in CalThread
      /\ CalNamed(t) /\ CalPickedOnce /\ calThreads[t].pc = "create"
  BY CalThreadType DEF CalIInv, CalCreate
<1>2. UNCHANGED <<calClock, calClaimed, calBound, calSelection, calFollowup,
                  calWrites, calDone, calAnswers, calCalls>>
  BY DEF CalCreate
<1>3. CASE /\ UNCHANGED <<calIssued, calKnown>>
           /\ calItems' \in [CalApprovals -> {"absent", "pending", "approved", "denied", "claimed"}]
           /\ \A a \in CalApprovals : calItems'[a] \in {calItems[a], "absent"}
           /\ CalReply(t)
  <2>1. /\ calThreads' \in [CalThreads -> CalThread]
        /\ calThreads'[t] = CalIdle
        /\ \A s \in CalThreads \ {t} : calThreads'[s] = calThreads[s]
    BY <1>1, <1>3, CalReplyType
  <2>2. CalTypeOK'
    BY <1>1, <1>2, <1>3, <2>1 DEF CalTypeOK
  <2>3. CalNamed(t)' /\ ~CalHolds(t)' /\ ~CalPicked(t)'
    BY <2>1, CalIdleThread
  <2> QED
    BY <1>2, <1>3, <2>1, <2>2, <2>3, CalItemsOK
<1>4. CASE /\ UNCHANGED <<calIssued, calKnown>>
           /\ calItems' \in [CalApprovals -> {"absent", "pending", "approved", "denied", "claimed"}]
           /\ \A a \in CalApprovals : calItems'[a] \in {calItems[a], "absent"}
           /\ q.route = "card"
           /\ \E now \in CalReads(t) : CalStep(t, "unfollow", now)
  <2>1. PICK now \in CalReads(t) : CalStep(t, "unfollow", now)
    BY <1>4
  <2>2. now \in Nat /\ "unfollow" \in CalSteps
    BY <1>1 DEF CalSteps
  <2>3. /\ calThreads' \in [CalThreads -> CalThread]
        /\ calThreads'[t] = [calThreads[t] EXCEPT !.pc = "unfollow", !.now = now]
        /\ \A s \in CalThreads \ {t} : calThreads'[s] = calThreads[s]
    BY <1>1, <2>1, <2>2, CalStepType
  <2>4. CalTypeOK'
    BY <1>1, <1>2, <1>4, <2>3 DEF CalTypeOK
  <2>5. CalNamed(t)' /\ ~CalHolds(t)' /\ ~CalPicked(t)'
    BY <1>1, <1>4, <2>3 DEF CalNamed, CalNaming, CalProposing, CalHolds, CalPicked, CalThread
  <2> QED
    BY <1>2, <1>4, <2>3, <2>4, <2>5, CalItemsOK
<1>5. ASSUME NEW now \in CalReads(t), NEW a \in CalApprovals,
             calIssued[a] = CalUnissued,
             calItems' = [CalCleaned(now) EXCEPT ![a] = "pending"],
             calIssued' = [calIssued EXCEPT ![a] =
                 [operation |-> q.operation, route |-> q.route, expires |-> now + CalTTL]],
             \/ q.route = "api" /\ CalReply(t) /\ calKnown' = calKnown \cup {a}
             \/ /\ q.route # "api" /\ UNCHANGED calKnown
                /\ CalGoes(t, [q EXCEPT !.approval = a, !.now = now,
                      !.pc = IF q.route = "chat" THEN "bind" ELSE "unfollow"])
      PROVE  CalIInv'
  <2> DEFINE r == [operation |-> q.operation, route |-> q.route, expires |-> now + CalTTL]
             p == [q EXCEPT !.approval = a, !.now = now,
                      !.pc = IF q.route = "chat" THEN "bind" ELSE "unfollow"]
  <2>1. /\ now \in Nat /\ now + CalTTL \in Nat
        /\ q.operation \in CalOperations /\ q.route \in {"api", "chat", "card"}
    BY <1>1, CalBounds DEF CalThread, CalRoutes
  <2>2. /\ r \in [operation : CalOperations, route : CalRoutes, expires : Nat]
        /\ r.route = q.route /\ r # CalUnissued
    BY <2>1, CalOperationsAre DEF CalRoutes, CalUnissued
  <2>3. /\ p \in CalThread /\ p.approval = a /\ p.route = q.route
        /\ p.pc = IF q.route = "chat" THEN "bind" ELSE "unfollow"
    BY <1>1, <2>1 DEF CalThread, CalSteps
  <2> HIDE DEF r, p
  <2>4. /\ calIssued' \in [CalApprovals -> {CalUnissued} \cup
              [operation : CalOperations, route : CalRoutes, expires : Nat]]
        /\ calIssued'[a] = r
        /\ \A b \in CalApprovals \ {a} : calIssued'[b] = calIssued[b]
    BY <1>1, <1>5, <2>2 DEF r, CalTypeOK
  <2>5. /\ calItems' \in [CalApprovals -> {"absent", "pending", "approved", "denied", "claimed"}]
        /\ calItems'[a] = "pending"
        /\ \A b \in CalApprovals \ {a} : calItems'[b] \in {calItems[b], "absent"}
    BY <1>1, <1>5, CalCleanedType
  <2>6. a \notin calClaimed /\ a \notin calKnown
    BY <1>5 DEF CalIInv, CalRecords
  <2>7. calKnown' \subseteq CalApprovals /\ calKnown \subseteq calKnown'
        /\ calKnown' \subseteq calKnown \cup {a}
        /\ (a \in calKnown' => q.route = "api")
    BY <1>1, <1>5, <2>6 DEF CalTypeOK
  <2>8. /\ calThreads' \in [CalThreads -> CalThread]
        /\ \A s \in CalThreads \ {t} : calThreads'[s] = calThreads[s]
        /\ calThreads'[t] = CalIdle \/ (calThreads'[t] = p /\ q.route # "api")
    <3>1. CASE CalReply(t)
      BY <1>1, <3>1, CalReplyType
    <3>2. CASE CalGoes(t, p) /\ q.route # "api"
      BY <1>1, <2>3, <3>2, CalGoesType
    <3> QED
      BY <1>5, <3>1, <3>2 DEF p
  <2>9. CalTypeOK'
    BY <1>1, <1>2, <2>4, <2>5, <2>7, <2>8 DEF CalTypeOK
  <2>10. CalNamed(t)' /\ ~CalHolds(t)' /\ ~CalPicked(t)'
    <3>1. CASE calThreads'[t] = CalIdle
      BY <3>1, CalIdleThread
    <3>2. CASE calThreads'[t] = p /\ q.route # "api"
      <4>1. a # CalNone
        BY CalBounds
      <4> QED
        BY <2>1, <2>2, <2>3, <2>4, <3>2, <4>1
           DEF CalNamed, CalNaming, CalProposing, CalHolds, CalPicked
    <3> QED
      BY <2>8, <3>1, <3>2
  <2>11. CalRecords'
    BY <1>2, <2>2, <2>4, <2>5, <2>6, <2>7 DEF CalIInv, CalRecords
  <2>12. CalPickedOnce'
    <3>1. \A b \in CalApprovals : CalCard(b)' => CalCard(b)
      BY <2>2, <2>4, <2>6, <2>7 DEF CalCard
    <3> QED
      BY <1>2, <2>8, <2>10, <3>1, CalPickedSame
  <2>13. \A b \in CalApprovals : calIssued[b] # CalUnissued => calIssued'[b] = calIssued[b]
    BY <1>5, <2>4
  <2> QED
    BY <1>2, <2>8, <2>9, <2>10, <2>11, <2>12, <2>13, CalStepOK
<1> QED
  <2>1. PICK now \in CalReads(t) :
          \/ /\ q.route = "card" /\ CalStep(t, "unfollow", now)
             /\ UNCHANGED <<calItems, calIssued, calKnown>>
          \/ /\ calItems' = CalCleaned(now)
             /\ IF q.route = "card" THEN CalStep(t, "unfollow", now) ELSE CalReply(t)
             /\ UNCHANGED <<calIssued, calKnown>>
          \/ \E a \in CalApprovals :
                /\ calIssued[a] = CalUnissued
                /\ calItems' = [CalCleaned(now) EXCEPT ![a] = "pending"]
                /\ calIssued' = [calIssued EXCEPT ![a] =
                      [operation |-> q.operation, route |-> q.route, expires |-> now + CalTTL]]
                /\ IF q.route = "api"
                   THEN CalReply(t) /\ calKnown' = calKnown \cup {a}
                   ELSE /\ CalGoes(t, [q EXCEPT !.approval = a, !.now = now,
                              !.pc = IF q.route = "chat" THEN "bind" ELSE "unfollow"])
                        /\ UNCHANGED calKnown
    BY DEF CalCreate
  <2>2. CASE /\ q.route = "card" /\ CalStep(t, "unfollow", now)
             /\ UNCHANGED <<calItems, calIssued, calKnown>>
    <3>1. calItems \in [CalApprovals -> {"absent", "pending", "approved", "denied", "claimed"}]
      BY <1>1 DEF CalTypeOK
    <3> QED
      BY <1>4, <2>2, <3>1
  <2>3. CASE /\ calItems' = CalCleaned(now)
             /\ IF q.route = "card" THEN CalStep(t, "unfollow", now) ELSE CalReply(t)
             /\ UNCHANGED <<calIssued, calKnown>>
    BY <1>1, <1>3, <1>4, <2>3, CalCleanedType
  <2> QED
    BY <1>5, <2>1, <2>2, <2>3

-----------------------------------------------------------------------------
(* CalendarWrite: deciding.                                                 *)

LEMMA CalDecidedIs ==
    ASSUME CalTypeOK, NEW a \in CalApprovals, NEW now, NEW matches \in BOOLEAN,
           NEW decision \in {"approved", "denied"}
    PROVE  /\ CalDecided(a, now, matches, decision) \in
                {"absent", "pending", "approved", "denied", "claimed"}
           /\ \/ CalDecided(a, now, matches, decision) \in {calItems[a], "absent"}
              \/ /\ calItems[a] = "pending"
                 /\ CalDecided(a, now, matches, decision) \in {"approved", "denied"}
BY DEF CalTypeOK, CalDecided

\* One record is dropped or decided.
LEMMA CalOneItem ==
    ASSUME CalTypeOK, NEW a \in CalApprovals, NEW x,
           x \in {calItems[a], "absent"}
              \/ (calItems[a] = "pending" /\ x \in {"approved", "denied"}),
           calItems' = [calItems EXCEPT ![a] = x]
    PROVE  /\ calItems' \in
                [CalApprovals -> {"absent", "pending", "approved", "denied", "claimed"}]
           /\ \A b \in CalApprovals :
                 \/ calItems'[b] \in {calItems[b], "absent"}
                 \/ calItems[b] = "pending" /\ calItems'[b] \in {"approved", "denied"}
BY DEF CalTypeOK

LEMMA CalNeutralizeOK ==
    ASSUME CalIInv, NEW t \in CalThreads, CalNeutralize(t)
    PROVE  CalIInv'
<1> DEFINE a == calThreads[t].approval
<1>1. /\ CalTypeOK /\ CalReads(t) \subseteq Nat /\ calThreads[t] \in CalThread
      /\ CalNamed(t) /\ calThreads[t].pc = "neutralize" /\ a # CalNone
  BY CalThreadType DEF CalIInv, CalNeutralize, CalNamed, CalNaming
<1>2. a \in CalApprovals
  BY <1>1 DEF CalThread
<1>3. UNCHANGED <<calClock, calIssued, calClaimed, calBound, calSelection,
                  calFollowup, calKnown, calWrites, calDone, calAnswers, calCalls>>
  BY DEF CalNeutralize
<1>4. PICK now : calItems' = [calItems EXCEPT ![a] = CalDecided(a, now, TRUE, "denied")]
  BY DEF CalNeutralize
<1>5. /\ calThreads' \in [CalThreads -> CalThread]
      /\ calThreads'[t] = CalIdle
      /\ \A s \in CalThreads \ {t} : calThreads'[s] = calThreads[s]
  BY <1>1, CalReplyType DEF CalNeutralize
<1>6. /\ calItems' \in [CalApprovals -> {"absent", "pending", "approved", "denied", "claimed"}]
      /\ \A b \in CalApprovals :
            \/ calItems'[b] \in {calItems[b], "absent"}
            \/ calItems[b] = "pending" /\ calItems'[b] \in {"approved", "denied"}
  BY <1>1, <1>2, <1>4, CalDecidedIs, CalOneItem
<1>7. CalTypeOK'
  BY <1>1, <1>3, <1>5, <1>6 DEF CalTypeOK
<1>8. CalNamed(t)' /\ ~CalHolds(t)' /\ ~CalPicked(t)'
  BY <1>5, CalIdleThread
<1> QED
  BY <1>3, <1>5, <1>6, <1>7, <1>8, CalItemsOK

LEMMA CalDecideOK ==
    ASSUME CalIInv, NEW t \in CalThreads, CalDecide(t)
    PROVE  CalIInv'
<1> DEFINE q == calThreads[t]
           a == calThreads[t].approval
<1>1. /\ CalTypeOK /\ CalReads(t) \subseteq Nat /\ calThreads[t] \in CalThread
      /\ CalNamed(t) /\ calThreads[t].pc = "decide" /\ a # CalNone
  BY CalThreadType DEF CalIInv, CalDecide, CalNamed, CalNaming
<1>2. a \in CalApprovals /\ q.matches \in BOOLEAN
  BY <1>1 DEF CalThread
<1>3. UNCHANGED <<calClock, calIssued, calClaimed, calBound, calSelection,
                  calFollowup, calKnown, calWrites, calDone, calAnswers, calCalls>>
  BY DEF CalDecide
<1>4. PICK now \in CalReads(t) :
         /\ calItems' = [calItems EXCEPT ![a] =
               CalDecided(a, now, q.matches, IF q.approve THEN "approved" ELSE "denied")]
         /\ \/ CalReply(t)
            \/ CalStep(t, "get", now)
            \/ ~q.approve /\ CalStep(t, "answer", now)
  BY DEF CalDecide
<1>5. /\ calItems' \in [CalApprovals -> {"absent", "pending", "approved", "denied", "claimed"}]
      /\ \A b \in CalApprovals :
            \/ calItems'[b] \in {calItems[b], "absent"}
            \/ calItems[b] = "pending" /\ calItems'[b] \in {"approved", "denied"}
  <2> DEFINE d == IF q.approve THEN "approved" ELSE "denied"
  <2>1. d \in {"approved", "denied"}
    OBVIOUS
  <2> HIDE DEF d
  <2>2. /\ CalDecided(a, now, q.matches, d) \in
               {"absent", "pending", "approved", "denied", "claimed"}
        /\ \/ CalDecided(a, now, q.matches, d) \in {calItems[a], "absent"}
           \/ /\ calItems[a] = "pending"
              /\ CalDecided(a, now, q.matches, d) \in {"approved", "denied"}
    BY <1>1, <1>2, <2>1, CalDecidedIs
  <2>3. calItems' = [calItems EXCEPT ![a] = CalDecided(a, now, q.matches, d)]
    BY <1>4 DEF d
  <2> QED
    BY <1>1, <1>2, <2>2, <2>3, CalOneItem
<1>6. CASE CalReply(t)
  <2>1. /\ calThreads' \in [CalThreads -> CalThread]
        /\ calThreads'[t] = CalIdle
        /\ \A s \in CalThreads \ {t} : calThreads'[s] = calThreads[s]
    BY <1>1, <1>6, CalReplyType
  <2>2. CalTypeOK'
    BY <1>1, <1>3, <1>5, <2>1 DEF CalTypeOK
  <2>3. CalNamed(t)' /\ ~CalHolds(t)' /\ ~CalPicked(t)'
    BY <2>1, CalIdleThread
  <2> QED
    BY <1>3, <1>5, <2>1, <2>2, <2>3, CalItemsOK
<1>7. ASSUME NEW pc \in {"get", "answer"}, CalStep(t, pc, now), pc = "answer" => ~q.approve
      PROVE  CalIInv'
  <2>1. now \in Nat /\ pc \in CalSteps \ {"provider"}
    BY <1>1, <1>4 DEF CalSteps
  <2>2. /\ calThreads' \in [CalThreads -> CalThread]
        /\ calThreads'[t] = [calThreads[t] EXCEPT !.pc = pc, !.now = now]
        /\ \A s \in CalThreads \ {t} : calThreads'[s] = calThreads[s]
    BY <1>1, <1>7, <2>1, CalStepType
  <2>3. CalTypeOK'
    BY <1>1, <1>3, <1>5, <2>2 DEF CalTypeOK
  <2>4. CalNamed(t)' /\ ~CalHolds(t)' /\ ~CalPicked(t)'
    <3>1. /\ pc \notin {"unfollow", "spend", "bind", "claim"} \cup CalProposing
          /\ \A b \in CalApprovals : calIssued'[b] = calIssued[b]
      BY <1>3 DEF CalProposing
    <3> QED
      BY <1>1, <1>7, <2>1, <2>2, <3>1, CalSameThread
  <2> QED
    BY <1>3, <1>5, <2>2, <2>3, <2>4, CalItemsOK
<1> QED
  BY <1>4, <1>6, <1>7

-----------------------------------------------------------------------------
(* CalendarWrite: executing.                                                *)

\* An execution that is refused leaves the thread with nothing to hold.
LEMMA CalRefusedOK ==
    ASSUME CalIInv, NEW t \in CalThreads, NEW now \in Nat, CalRefused(t, now),
           calThreads[t].pc \in {"get", "claim"},
           UNCHANGED <<calClock, calIssued, calClaimed, calBound, calSelection,
                       calFollowup, calKnown, calWrites, calDone, calAnswers, calCalls>>,
           calItems' \in [CalApprovals -> {"absent", "pending", "approved", "denied", "claimed"}],
           \A a \in CalApprovals : calItems'[a] \in {calItems[a], "absent"}
    PROVE  CalIInv'
<1> DEFINE p == [calThreads[t] EXCEPT !.pc = "answer", !.now = now, !.reply = "unclear"]
<1>1. /\ CalTypeOK /\ calThreads[t] \in CalThread
      /\ CalNamed(t) /\ calThreads[t].approval # CalNone
  BY CalThreadType DEF CalIInv, CalNamed, CalNaming
<1>2. /\ p \in CalThread /\ p.pc = "answer" /\ p.reply = "unclear"
      /\ p.approval = calThreads[t].approval /\ p.route = calThreads[t].route
  BY <1>1 DEF CalThread, CalSteps
<1> HIDE DEF p
<1>3. /\ calThreads' \in [CalThreads -> CalThread]
      /\ \A s \in CalThreads \ {t} : calThreads'[s] = calThreads[s]
      /\ calThreads'[t] \in {CalIdle, p}
  <2>1. CASE CalGoes(t, p)
    BY <1>1, <1>2, <2>1, CalGoesType
  <2>2. CASE CalReply(t)
    BY <1>1, <2>2, CalReplyType
  <2> QED
    BY <2>1, <2>2 DEF CalRefused, p
<1>4. CalTypeOK'
  BY <1>1, <1>3 DEF CalTypeOK
<1>5. CalNamed(t)' /\ ~CalHolds(t)' /\ ~CalPicked(t)'
  <2>1. CASE calThreads'[t] = CalIdle
    BY <2>1, CalIdleThread
  <2>2. CASE calThreads'[t] = p
    <3>1. CalNamed(t)'
      BY <1>1, <1>2, <2>2 DEF CalNamed, CalNaming, CalProposing
    <3>2. ~CalHolds(t)' /\ ~CalPicked(t)'
      BY <1>2, <2>2 DEF CalHolds, CalPicked
    <3> QED
      BY <3>1, <3>2
  <2> QED
    BY <1>3, <2>1, <2>2
<1> QED
  BY <1>3, <1>4, <1>5, CalItemsOK

LEMMA CalDropped ==
    ASSUME CalTypeOK, NEW a \in CalApprovals, NEW now, CalDropIfLapsed(a, now)
    PROVE  /\ calItems' \in
                [CalApprovals -> {"absent", "pending", "approved", "denied", "claimed"}]
           /\ \A b \in CalApprovals : calItems'[b] \in {calItems[b], "absent"}
BY DEF CalTypeOK, CalDropIfLapsed

LEMMA CalGetOK ==
    ASSUME CalIInv, NEW t \in CalThreads, CalGetApproved(t)
    PROVE  CalIInv'
<1> DEFINE a == calThreads[t].approval
<1>1. /\ CalTypeOK /\ CalReads(t) \subseteq Nat /\ calThreads[t] \in CalThread
      /\ CalNamed(t) /\ calThreads[t].pc = "get" /\ a # CalNone
  BY CalThreadType DEF CalIInv, CalGetApproved, CalNamed, CalNaming
<1>2. a \in CalApprovals
  BY <1>1 DEF CalThread
<1>3. UNCHANGED <<calClock, calIssued, calClaimed, calBound, calSelection,
                  calFollowup, calKnown, calWrites, calDone, calAnswers, calCalls>>
  BY DEF CalGetApproved
<1>4. PICK now \in CalReads(t) :
         /\ CalDropIfLapsed(a, now)
         /\ \/ CalRefused(t, now)
            \/ /\ calThreads[t].operation = calIssued[a].operation
               /\ CalStep(t, "claim", now)
  BY DEF CalGetApproved
<1>5. /\ calItems' \in [CalApprovals -> {"absent", "pending", "approved", "denied", "claimed"}]
      /\ \A b \in CalApprovals : calItems'[b] \in {calItems[b], "absent"}
      /\ now \in Nat
  BY <1>1, <1>2, <1>4, CalDropped
<1>6. CASE CalRefused(t, now)
  BY <1>1, <1>3, <1>5, <1>6, CalRefusedOK
<1>7. ASSUME NEW pc \in {"claim"}, CalStep(t, pc, now),
             calThreads[t].operation = calIssued[a].operation
      PROVE  CalIInv'
  <2>1. pc \in CalSteps \ {"provider"}
    BY DEF CalSteps
  <2>2. /\ calThreads' \in [CalThreads -> CalThread]
        /\ calThreads'[t] = [calThreads[t] EXCEPT !.pc = pc, !.now = now]
        /\ \A s \in CalThreads \ {t} : calThreads'[s] = calThreads[s]
    BY <1>1, <1>5, <1>7, <2>1, CalStepType
  <2>3. CalTypeOK'
    BY <1>1, <1>3, <1>5, <2>2 DEF CalTypeOK
  <2>4. CalNamed(t)' /\ ~CalHolds(t)' /\ ~CalPicked(t)'
    <3>1. /\ pc \notin {"unfollow", "spend", "bind", "answer"} \cup CalProposing
          /\ \A b \in CalApprovals : calIssued'[b] = calIssued[b]
      BY <1>3 DEF CalProposing
    <3> QED
      BY <1>1, <1>5, <1>7, <2>1, <2>2, <3>1, CalSameThread
  <2> QED
    BY <1>3, <1>5, <2>2, <2>3, <2>4, CalItemsOK
<1> QED
  BY <1>4, <1>6, <1>7

\* The claim is won once: who wins it holds the approval alone.
LEMMA CalClaimWonOK ==
    ASSUME CalIInv, NEW t \in CalThreads, NEW now \in Nat,
           calThreads[t].pc = "claim", CalStep(t, "provider", now),
           calItems[calThreads[t].approval] = "approved",
           calItems' = [calItems EXCEPT ![calThreads[t].approval] = "claimed"],
           calClaimed' = calClaimed \cup {calThreads[t].approval},
           UNCHANGED <<calClock, calIssued, calBound, calSelection,
                       calFollowup, calKnown, calWrites, calDone, calAnswers, calCalls>>
    PROVE  CalIInv'
<1> DEFINE a == calThreads[t].approval
<1>1. /\ CalTypeOK /\ calThreads[t] \in CalThread /\ CalNamed(t) /\ a # CalNone
      /\ calThreads[t].operation = calIssued[a].operation
  BY CalThreadType DEF CalIInv, CalNamed, CalNaming
<1>2. a \in CalApprovals
  BY <1>1 DEF CalThread
<1>3. /\ a \notin calClaimed /\ calIssued[a] # CalUnissued
      /\ calWrites[a] = <<>> /\ a \notin calDone
      /\ calAnswers[a] \subseteq {"indeterminate"}
  BY <1>1, <1>2 DEF CalIInv, CalRecords, CalNamed
<1>4. /\ calThreads' \in [CalThreads -> CalThread]
      /\ calThreads'[t] = [calThreads[t] EXCEPT !.pc = "provider", !.now = now]
      /\ \A s \in CalThreads \ {t} : calThreads'[s] = calThreads[s]
  <2>1. "provider" \in CalSteps
    BY DEF CalSteps
  <2> QED
    BY <1>1, <2>1, CalStepType
<1>5. /\ calThreads'[t].pc = "provider" /\ calThreads'[t].approval = a
      /\ calThreads'[t].operation = calIssued[a].operation
  BY <1>1, <1>4 DEF CalThread
<1>6. /\ calItems' \in [CalApprovals -> {"absent", "pending", "approved", "denied", "claimed"}]
      /\ calItems'[a] = "claimed"
      /\ \A b \in CalApprovals \ {a} : calItems'[b] = calItems[b]
  BY <1>1, <1>2 DEF CalTypeOK
<1>7. CalTypeOK'
  BY <1>1, <1>2, <1>4, <1>6 DEF CalTypeOK
<1>8. \A s \in CalThreads : CalNamed(s)'
  <2>1. CalNamed(t)'
    BY <1>1, <1>3, <1>5 DEF CalNamed, CalNaming, CalProposing
  <2>2. \A s \in CalThreads \ {t} : CalNamed(s)'
    BY <1>4, CalOthersNamed
  <2> QED
    BY <2>1, <2>2
<1>9. ASSUME NEW s \in CalThreads \ {t}, CalHolds(s)'
      PROVE  /\ CalHolds(s) /\ CalHolderOK(s)'
             /\ calThreads'[s].approval # a
  <2>1. calThreads'[s] = calThreads[s] /\ CalHolds(s)
    BY <1>4, <1>9 DEF CalHolds
  <2>2. CalHolderOK(s)
    BY DEF CalIInv
  <2> QED
    BY <1>3, <2>1, <2>2 DEF CalHolderOK
<1>10. \A s \in CalThreads : CalHolderOK(s)'
  <2>1. CalHolderOK(t)'
    BY <1>3, <1>5 DEF CalHolderOK
  <2>2. \A s \in CalThreads \ {t} : CalHolderOK(s)'
    BY <1>9 DEF CalHolderOK
  <2> QED
    BY <2>1, <2>2
<1>11. CalExclusive'
  BY <1>4, <1>5, <1>9 DEF CalIInv, CalExclusive
<1>12. CalRecords'
  BY <1>2, <1>3, <1>6 DEF CalIInv, CalRecords
<1>13. CalPickedOnce'
  <2>1. ~CalPicked(t)' /\ \A b \in CalApprovals : CalCard(b)' => CalCard(b)
    BY <1>5 DEF CalPicked, CalCard
  <2> QED
    BY <1>4, <2>1, CalPickedSame
<1>14. CalAnswerIsTruthful'
  BY DEF CalIInv, CalAnswerIsTruthful
<1> QED
  BY <1>7, <1>8, <1>10, <1>11, <1>12, <1>13, <1>14 DEF CalIInv

LEMMA CalClaimOK ==
    ASSUME CalIInv, NEW t \in CalThreads, CalClaim(t)
    PROVE  CalIInv'
<1> DEFINE a == calThreads[t].approval
<1>1. /\ CalTypeOK /\ CalReads(t) \subseteq Nat /\ calThreads[t] \in CalThread
      /\ CalNamed(t) /\ calThreads[t].pc = "claim" /\ a # CalNone
  BY CalThreadType DEF CalIInv, CalClaim, CalClaimIf, CalNamed, CalNaming
<1>2. a \in CalApprovals
  BY <1>1 DEF CalThread
<1>3. UNCHANGED <<calClock, calIssued, calBound, calSelection,
                  calFollowup, calKnown, calWrites, calDone, calAnswers, calCalls>>
  BY DEF CalClaim, CalClaimIf
<1>4. PICK now \in CalReads(t) :
         \/ /\ calItems[a] = "approved"
            /\ calItems' = [calItems EXCEPT ![a] = "claimed"]
            /\ calClaimed' = calClaimed \cup {a}
            /\ CalStep(t, "provider", now)
         \/ /\ CalDropIfLapsed(a, now)
            /\ CalRefused(t, now)
            /\ UNCHANGED calClaimed
  BY DEF CalClaim, CalClaimIf
<1>5. now \in Nat
  BY <1>1
<1>6. CASE /\ calItems[a] = "approved"
           /\ calItems' = [calItems EXCEPT ![a] = "claimed"]
           /\ calClaimed' = calClaimed \cup {a}
           /\ CalStep(t, "provider", now)
  BY <1>1, <1>3, <1>5, <1>6, CalClaimWonOK
<1>7. CASE CalDropIfLapsed(a, now) /\ CalRefused(t, now) /\ UNCHANGED calClaimed
  <2>1. /\ calItems' \in [CalApprovals -> {"absent", "pending", "approved", "denied", "claimed"}]
        /\ \A b \in CalApprovals : calItems'[b] \in {calItems[b], "absent"}
    BY <1>1, <1>2, <1>7, CalDropped
  <2> QED
    BY <1>1, <1>3, <1>5, <1>7, <2>1, CalRefusedOK
<1> QED
  BY <1>4, <1>6, <1>7

\* What the others hold is untouched by what happens to this thread's approval.
LEMMA CalOthersHold ==
    ASSUME CalIInv, NEW t \in CalThreads, NEW a \in CalApprovals,
           a = calThreads[t].approval, CalHolds(t),
           \A s \in CalThreads \ {t} : calThreads'[s] = calThreads[s],
           calThreads'[t].approval = a \/ ~CalHolds(t)',
           UNCHANGED <<calIssued, calItems, calClaimed, calKnown, calSelection>>,
           \A b \in CalApprovals \ {a} :
               /\ calWrites'[b] = calWrites[b] /\ calAnswers'[b] = calAnswers[b]
               /\ b \in calDone' <=> b \in calDone,
           CalTypeOK', CalNamed(t)', ~CalPicked(t)', CalHolderOK(t)',
           CalAnswerIsTruthful'
    PROVE  CalIInv'
<1>1. \A s \in CalThreads : CalNamed(s)'
  BY CalOthersNamed
<1>2. ASSUME NEW s \in CalThreads \ {t}, CalHolds(s)'
      PROVE  /\ CalHolds(s) /\ calThreads'[s] = calThreads[s]
             /\ calThreads[s].approval \in CalApprovals \ {a}
  <2>1. calThreads'[s] = calThreads[s] /\ CalHolds(s)
    BY <1>2 DEF CalHolds
  <2>2. calThreads[s].approval # a
    BY <2>1 DEF CalIInv, CalExclusive
  <2>3. calThreads[s].approval # CalNone
    <3>1. calThreads[s].pc \in CalNaming
      BY <2>1 DEF CalHolds, CalNaming
    <3> QED
      BY <3>1 DEF CalIInv, CalNamed
  <2>4. calThreads[s].approval \in CalApprovals \cup {CalNone}
    BY CalThreadType DEF CalIInv, CalThread
  <2> QED
    BY <2>1, <2>2, <2>3, <2>4
<1>3. ASSUME NEW s \in CalThreads PROVE CalHolderOK(s)'
  <2>1. CASE s = t
    BY <2>1
  <2>2. CASE s # t /\ CalHolds(s)'
    <3>1. CalHolderOK(s)
      BY DEF CalIInv
    <3> QED
      BY <1>2, <2>2, <3>1 DEF CalHolderOK
  <2>3. CASE ~CalHolds(s)'
    BY <2>3 DEF CalHolderOK
  <2> QED
    BY <2>1, <2>2, <2>3
<1>4. CalExclusive'
  <2>1. \A s, u \in CalThreads \ {t} :
          CalHolds(s)' /\ CalHolds(u)' /\ calThreads'[s].approval = calThreads'[u].approval
              => s = u
    BY <1>2 DEF CalIInv, CalExclusive
  <2>2. \A s \in CalThreads \ {t} :
          ~(CalHolds(s)' /\ CalHolds(t)' /\ calThreads'[s].approval = calThreads'[t].approval)
    BY <1>2
  <2> QED
    BY <2>1, <2>2 DEF CalExclusive
<1>5. CalRecords'
  <2>1. a \in calClaimed
    BY DEF CalIInv, CalHolderOK
  <2> QED
    BY <2>1 DEF CalIInv, CalRecords
<1>6. CalPickedOnce'
  BY CalPickedSame DEF CalCard
<1> QED
  BY <1>1, <1>3, <1>4, <1>5, <1>6 DEF CalIInv

LEMMA CalProviderOK ==
    ASSUME CalIInv, NEW t \in CalThreads, CalProvider(t)
    PROVE  CalIInv'
<1> DEFINE a == calThreads[t].approval
           q == calThreads[t]
<1>1. /\ CalTypeOK /\ calThreads[t] \in CalThread
      /\ CalNamed(t) /\ CalHolderOK(t) /\ calThreads[t].pc = "provider" /\ a # CalNone
      /\ CalHolds(t)
  BY CalThreadType DEF CalIInv, CalProvider, CalNamed, CalNaming, CalHolds
<1>2. /\ a \in CalApprovals /\ q.operation \in CalOperations
      /\ a \in calClaimed /\ a \notin calDone /\ calAnswers[a] \subseteq {"indeterminate"}
  BY <1>1 DEF CalThread, CalHolderOK
<1>3. UNCHANGED <<calClock, calIssued, calItems, calClaimed, calBound, calSelection,
                  calFollowup, calKnown, calAnswers, calCalls>>
  BY DEF CalProvider
<1>4. PICK reply \in {"refused", "rejected", "accepted", "unclear"}, made \in BOOLEAN :
         /\ reply = "accepted" => made
         /\ reply \in {"refused", "rejected"} => ~made
         /\ calWrites' = IF reply = "refused" THEN calWrites
                         ELSE [calWrites EXCEPT ![a] = Append(@, q.operation)]
         /\ calDone' = IF made THEN calDone \cup {a} ELSE calDone
         /\ CalGoes(t, [q EXCEPT !.pc = "answer", !.reply = reply])
  BY DEF CalProvider
<1> DEFINE p == [q EXCEPT !.pc = "answer", !.reply = reply]
<1>5. /\ p \in CalThread /\ p.pc = "answer" /\ p.reply = reply
      /\ p.approval = a /\ p.route = q.route
  BY <1>1 DEF CalThread, CalSteps
<1> HIDE DEF p
<1>6. /\ calThreads' \in [CalThreads -> CalThread]
      /\ calThreads'[t] = p
      /\ \A s \in CalThreads \ {t} : calThreads'[s] = calThreads[s]
  BY <1>1, <1>4, <1>5, CalGoesType DEF p
<1>7. /\ calWrites' \in [CalApprovals -> Seq(CalOperations)]
      /\ \A b \in CalApprovals \ {a} : calWrites'[b] = calWrites[b]
  <2>1. calWrites \in [CalApprovals -> Seq(CalOperations)]
    BY <1>1 DEF CalTypeOK
  <2>2. Append(calWrites[a], q.operation) \in Seq(CalOperations)
    BY <1>2, <2>1
  <2> QED
    BY <1>2, <1>4, <2>1, <2>2
<1>8. /\ calDone' \subseteq CalApprovals
      /\ \A b \in CalApprovals \ {a} : b \in calDone' <=> b \in calDone
      /\ reply = "accepted" => a \in calDone'
      /\ reply \in {"refused", "rejected"} => a \notin calDone'
  BY <1>1, <1>2, <1>4 DEF CalTypeOK
<1>9. CalTypeOK'
  BY <1>1, <1>3, <1>6, <1>7, <1>8 DEF CalTypeOK
<1>10. CalNamed(t)' /\ ~CalPicked(t)'
  BY <1>1, <1>3, <1>5, <1>6 DEF CalNamed, CalNaming, CalProposing, CalPicked
<1>11. CalHolderOK(t)'
  BY <1>2, <1>3, <1>4, <1>5, <1>6, <1>8 DEF CalHolderOK, CalHolds
<1>12. CalAnswerIsTruthful'
  BY <1>2, <1>3, <1>8 DEF CalIInv, CalAnswerIsTruthful
<1>13. \A b \in CalApprovals \ {a} :
          /\ calWrites'[b] = calWrites[b] /\ calAnswers'[b] = calAnswers[b]
          /\ b \in calDone' <=> b \in calDone
  BY <1>3, <1>7, <1>8
<1> QED
  BY <1>1, <1>2, <1>3, <1>5, <1>6, <1>9, <1>10, <1>11, <1>12, <1>13, CalOthersHold

LEMMA CalOutcomeIs ==
    ASSUME NEW reply \in {"refused", "rejected", "accepted", "unclear"}
    PROVE  /\ CalOutcome(reply) \in CalOutcomes
           /\ reply = "accepted" => CalOutcome(reply) = "succeeded"
           /\ reply = "unclear" => CalOutcome(reply) = "indeterminate"
           /\ reply \in {"refused", "rejected"} => CalOutcome(reply) = "failed"
BY DEF CalOutcome, CalOutcomes

LEMMA CalAnswerOK ==
    ASSUME CalIInv, NEW t \in CalThreads, CalAnswer(t)
    PROVE  CalIInv'
<1> DEFINE q == calThreads[t]
           a == calThreads[t].approval
<1>1. /\ CalTypeOK /\ calThreads[t] \in CalThread
      /\ CalNamed(t) /\ CalHolderOK(t) /\ calThreads[t].pc = "answer" /\ a # CalNone
  BY CalThreadType DEF CalIInv, CalAnswer, CalNamed, CalNaming
<1>2. /\ a \in CalApprovals /\ q.reply \in {"refused", "rejected", "accepted", "unclear"}
      /\ q.approve \in BOOLEAN
  BY <1>1 DEF CalThread
<1>3. UNCHANGED <<calClock, calIssued, calItems, calClaimed, calSelection,
                  calFollowup, calKnown, calWrites, calDone, calCalls>>
  BY DEF CalAnswer
<1>4. calBound' \subseteq CalApprovals
  <2>1. calBound' \subseteq calBound
    BY DEF CalAnswer, CalBoundFor
  <2> QED
    BY <1>1, <2>1 DEF CalTypeOK
<1>5. /\ calThreads' \in [CalThreads -> CalThread]
      /\ calThreads'[t] = CalIdle
      /\ \A s \in CalThreads \ {t} : calThreads'[s] = calThreads[s]
  BY <1>1, CalReplyType DEF CalAnswer
<1>6. CalNamed(t)' /\ ~CalHolds(t)' /\ ~CalPicked(t)'
  BY <1>5, CalIdleThread
<1>7. CASE calAnswers' = calAnswers
  <2>1. CalTypeOK'
    BY <1>1, <1>3, <1>4, <1>5, <1>7 DEF CalTypeOK
  <2> QED
    BY <1>3, <1>5, <1>6, <1>7, <2>1, CalQuiet
<1>8. CASE /\ q.approve
           /\ calAnswers' = [calAnswers EXCEPT ![a] = @ \cup {CalOutcome(q.reply)}]
  <2>1. /\ calAnswers' \in [CalApprovals -> SUBSET CalOutcomes]
        /\ calAnswers'[a] = calAnswers[a] \cup {CalOutcome(q.reply)}
        /\ \A b \in CalApprovals \ {a} : calAnswers'[b] = calAnswers[b]
    <3>1. calAnswers \in [CalApprovals -> SUBSET CalOutcomes]
      BY <1>1 DEF CalTypeOK
    <3>2. calAnswers[a] \cup {CalOutcome(q.reply)} \in SUBSET CalOutcomes
      BY <1>2, <3>1, CalOutcomeIs
    <3> QED
      BY <1>2, <1>8, <3>1, <3>2
  <2>2. CalTypeOK'
    BY <1>1, <1>3, <1>4, <1>5, <2>1 DEF CalTypeOK
  <2>3. CASE q.reply = "unclear"
    <3>1. calAnswers'[a] = calAnswers[a] \cup {"indeterminate"}
      BY <1>2, <2>1, <2>3, CalOutcomeIs
    <3>2. \A s \in CalThreads : CalNamed(s)'
      BY <1>3, <1>5, <1>6, CalOthersNamed
    <3>3. ASSUME NEW s \in CalThreads, CalHolds(s)'
          PROVE  s # t /\ CalHolds(s) /\ calThreads'[s] = calThreads[s]
      BY <1>5, <1>6, <3>3 DEF CalHolds
    <3>4. ASSUME NEW s \in CalThreads PROVE CalHolderOK(s)'
      <4>1. CASE CalHolds(s)'
        <5>1. CalHolderOK(s)
          BY DEF CalIInv
        <5>2. calThreads[s].approval \in CalApprovals
          <6>1. calThreads[s].pc \in CalNaming /\ calThreads[s] \in CalThread /\ CalNamed(s)
            BY <3>3, <4>1, CalThreadType DEF CalHolds, CalNaming, CalIInv
          <6> QED
            BY <6>1 DEF CalNamed, CalThread
        <5>3. /\ calAnswers[calThreads[s].approval] \subseteq {"indeterminate"} =>
                    calAnswers'[calThreads[s].approval] \subseteq {"indeterminate"}
          BY <2>1, <3>1, <5>2
        <5> QED
          BY <1>3, <3>3, <4>1, <5>1, <5>3 DEF CalHolderOK
      <4>2. CASE ~CalHolds(s)'
        BY <4>2 DEF CalHolderOK
      <4> QED
        BY <4>1, <4>2
    <3>5. CalExclusive'
      BY <3>3 DEF CalIInv, CalExclusive
    <3>6. CalRecords'
      BY <1>3, <2>1, <3>1 DEF CalIInv, CalRecords
    <3>7. CalPickedOnce'
      BY <1>3, <1>5, <1>6, CalPickedSame DEF CalCard
    <3>8. CalAnswerIsTruthful'
      BY <1>3, <2>1, <3>1 DEF CalIInv, CalAnswerIsTruthful
    <3> QED
      BY <2>2, <3>2, <3>4, <3>5, <3>6, <3>7, <3>8 DEF CalIInv
  <2>4. CASE q.reply # "unclear"
    <3>1. CalHolds(t)
      BY <1>1, <1>8, <2>4 DEF CalHolds
    <3>2. /\ a \in calDone <=> q.reply = "accepted"
          /\ calAnswers[a] \subseteq {"indeterminate"}
      BY <1>1, <3>1 DEF CalHolderOK
    <3>3. CalAnswerIsTruthful'
      <4>1. /\ "failed" \in calAnswers'[a] => a \notin calDone
            /\ "succeeded" \in calAnswers'[a] => a \in calDone
        BY <1>2, <2>1, <2>4, <3>2, CalOutcomeIs
      <4> QED
        BY <1>3, <2>1, <4>1 DEF CalIInv, CalAnswerIsTruthful
    <3>4. CalHolderOK(t)'
      BY <1>6 DEF CalHolderOK
    <3>5. \A b \in CalApprovals \ {a} :
            /\ calWrites'[b] = calWrites[b] /\ calAnswers'[b] = calAnswers[b]
            /\ b \in calDone' <=> b \in calDone
      BY <1>3, <2>1
    <3> QED
      BY <1>2, <1>3, <1>5, <1>6, <2>2, <3>1, <3>3, <3>4, <3>5, CalOthersHold
  <2> QED
    BY <2>3, <2>4
<1> QED
  <2>1. \/ calAnswers' = calAnswers
        \/ calAnswers' = IF q.approve
                         THEN [calAnswers EXCEPT ![a] = @ \cup {CalOutcome(q.reply)}]
                         ELSE calAnswers
    BY DEF CalAnswer
  <2> QED
    BY <1>7, <1>8, <2>1

LEMMA CalTickOK ==
    ASSUME CalIInv, CalTick \/ UNCHANGED calVars
    PROVE  CalIInv'
<1>1. UNCHANGED <<calIssued, calItems, calClaimed, calBound, calSelection, calFollowup,
                  calKnown, calThreads, calWrites, calDone, calAnswers, calCalls>>
  BY DEF CalTick, calVars
<1>2. CalTypeOK'
  <2>1. CalTypeOK
    BY DEF CalIInv
  <2>2. calClock' \in 0..CalMaxTime
    <3>1. calClock' = calClock \/ (calClock < CalMaxTime /\ calClock' = calClock + 1)
      BY DEF CalTick, calVars
    <3>2. calClock \in 0..CalMaxTime
      BY <2>1 DEF CalTypeOK
    <3> QED
      BY <3>1, <3>2, CalBounds
  <2> QED
    BY <1>1, <2>1, <2>2 DEF CalTypeOK
<1>3. (\A t \in CalThreads : CalNamed(t) /\ CalHolderOK(t))'
  BY <1>1 DEF CalIInv, CalNamed, CalHolderOK, CalHolds
<1>4. CalExclusive' /\ CalRecords'
  BY <1>1 DEF CalIInv, CalExclusive, CalRecords, CalHolds
<1>5. CalPickedOnce' /\ CalAnswerIsTruthful'
  BY <1>1 DEF CalIInv, CalPickedOnce, CalPicked, CalCard, CalAnswerIsTruthful
<1> QED
  BY <1>2, <1>3, <1>4, <1>5 DEF CalIInv

LEMMA CalInitOK == CalInit => CalIInv
<1> SUFFICES ASSUME CalInit PROVE CalIInv
  OBVIOUS
<1>1. \A t \in CalThreads : calThreads[t] = CalIdle
  BY DEF CalInit
<1>2. CalTypeOK
  BY CalBounds, CalIdleType DEF CalInit, CalTypeOK, CalNoFollowup
<1>3. \A t \in CalThreads : CalNamed(t) /\ CalHolderOK(t) /\ ~CalHolds(t) /\ ~CalPicked(t)
  BY <1>1 DEF CalIdle, CalNamed, CalNaming, CalProposing, CalHolderOK, CalHolds, CalPicked
<1>4. CalExclusive /\ CalRecords
  BY <1>3 DEF CalExclusive, CalRecords, CalInit
<1>5. CalPickedOnce /\ CalAnswerIsTruthful
  BY <1>3 DEF CalPickedOnce, CalCard, CalAnswerIsTruthful, CalInit
<1> QED
  BY <1>2, <1>3, <1>4, <1>5 DEF CalIInv

LEMMA CalNextOK == CalIInv /\ [CalNext]_calVars => CalIInv'
<1> SUFFICES ASSUME CalIInv, [CalNext]_calVars
             PROVE  CalIInv'
  OBVIOUS
<1> QED
  BY CalCallOK, CalLookupOK, CalCreateOK, CalUnfollowOK, CalSpendOK, CalBindOK,
     CalNeutralizeOK, CalDecideOK, CalGetOK, CalClaimOK, CalProviderOK, CalAnswerOK,
     CalTickOK
     DEF CalNext, CalServe

LEMMA CalInvariant == CalSpec => []CalIInv
BY CalInitOK, CalNextOK, PTL DEF CalSpec

\* CalTypeOK: whatever interleaves, the stores and the threads keep their shape.
THEOREM CalTypeCorrect == CalSpec => []CalTypeOK
<1>1. CalIInv => CalTypeOK
  BY DEF CalIInv
<1> QED
  BY <1>1, CalInvariant, PTL

\* CalAnswerIsTruthful: an outcome told by the API, by Chat or by a card says
\* "failed" only of a change the provider did not make and "succeeded" only of
\* one it made, for any number of approvals, threads and requests.
THEOREM CalTruthfulAnswers == CalSpec => []CalAnswerIsTruthful
<1>1. CalIInv => CalAnswerIsTruthful
  BY DEF CalIInv
<1> QED
  BY <1>1, CalInvariant, PTL

\* CalOneSelectionOneDecision: of the proposals prepared from one selection the
\* owner hears of one at most, however many threads prepare one at once.
THEOREM CalOneDecision == CalSpec => []CalOneSelectionOneDecision
<1>1. CalIInv => CalOneSelectionOneDecision
  <2> SUFFICES ASSUME CalIInv PROVE CalOneSelectionOneDecision
    OBVIOUS
  <2> DEFINE S == {a \in calKnown : calIssued[a].route = "card"}
  <2>1. \A a, b \in S : a = b
    BY DEF CalIInv, CalTypeOK, CalPickedOnce, CalCard
  <2>2. CASE S = {}
    BY <2>2, FS_EmptySet DEF CalOneSelectionOneDecision
  <2>3. CASE S # {}
    <3>1. PICK a : S = {a}
      BY <2>1, <2>3
    <3>2. Cardinality({a}) = 1
      BY FS_Singleton
    <3>3. Cardinality(S) = 1
      BY <3>1, <3>2
    <3> QED
      BY <3>3 DEF CalOneSelectionOneDecision
  <2> QED
    BY <2>2, <2>3
<1> QED
  BY <1>1, CalInvariant, PTL

-----------------------------------------------------------------------------
(* CalendarWrite implements OneShotAuthority.                               *)

LEMMA CalStandingIs ==
    ASSUME CalTypeOK, NEW a \in CalApprovals
    PROVE  CalStanding[a] =
             IF calIssued[a] = CalUnissued THEN "unasked"
             ELSE IF a \in calClaimed THEN "spent"
             ELSE IF calItems[a] # "absent" THEN calItems[a] ELSE "gone"
BY DEF CalStanding

\* A step that only lets approvals lapse, or does nothing an observer of the
\* authority would see.
LEMMA CalLapseMap ==
    ASSUME CalIInv, CalTypeOK', UNCHANGED <<calIssued, calClaimed, calWrites>>,
           \A a \in CalApprovals : calItems'[a] \in {calItems[a], "absent"}
    PROVE  CalAuthority!Next
<1>1. \A a \in CalApprovals :
        \/ CalStanding'[a] = CalStanding[a]
        \/ CalStanding'[a] = "gone" /\ CalStanding[a] # "unasked"
  <2> TAKE a \in CalApprovals
  <2>1. calItems[a] \in {"absent", "pending", "approved", "denied", "claimed"}
    BY DEF CalIInv, CalTypeOK
  <2> QED
    BY <2>1 DEF CalStanding
<1> DEFINE S == {a \in CalApprovals : CalStanding'[a] # CalStanding[a]}
<1>2. CalStanding' = CalAuthority!Lapsed(S)
  BY <1>1 DEF CalAuthority!Lapsed, CalStanding
<1>3. CalAuthority!Lapse(S)
  BY <1>2 DEF CalAuthority!Lapse
<1> QED
  BY <1>3 DEF CalAuthority!Next

\* A step that changes the standing of one approval.
LEMMA CalMoveMap ==
    ASSUME NEW b \in CalApprovals, NEW v,
           CalStanding'[b] = v,
           \A a \in CalApprovals \ {b} : CalStanding'[a] = CalStanding[a]
    PROVE  CalStanding' = [CalStanding EXCEPT ![b] = v]
<1>1. /\ CalStanding = [a \in CalApprovals |-> CalStanding[a]]
      /\ CalStanding' = [a \in CalApprovals |-> CalStanding'[a]]
  BY DEF CalStanding
<1> HIDE DEF CalStanding
<1> QED
  BY <1>1

\* What leaves the records, the claims and the attempts alone is invisible.
LEMMA CalQuietMap ==
    ASSUME UNCHANGED <<calIssued, calItems, calClaimed, calWrites>>
    PROVE  UNCHANGED CalAuthority!vars
BY DEF CalAuthority!vars, CalStanding

LEMMA CalCreateMap ==
    ASSUME CalIInv, CalTypeOK', NEW t \in CalThreads, CalCreate(t)
    PROVE  CalAuthority!Next
<1> DEFINE q == calThreads[t]
<1>1. CalTypeOK /\ CalRecords /\ calThreads[t] \in CalThread /\ CalReads(t) \subseteq Nat
  BY CalThreadType DEF CalIInv
<1>2. UNCHANGED <<calClaimed, calWrites>>
  BY DEF CalCreate
<1>3. PICK now \in CalReads(t) :
        \/ calItems' = calItems /\ UNCHANGED calIssued
        \/ calItems' = CalCleaned(now) /\ UNCHANGED calIssued
        \/ \E a \in CalApprovals :
              /\ calIssued[a] = CalUnissued
              /\ calItems' = [CalCleaned(now) EXCEPT ![a] = "pending"]
              /\ calIssued' = [calIssued EXCEPT ![a] =
                    [operation |-> q.operation, route |-> q.route, expires |-> now + CalTTL]]
  BY DEF CalCreate
<1>4. CASE calItems' = calItems /\ UNCHANGED calIssued
  BY <1>2, <1>4, CalLapseMap
<1>5. CASE calItems' = CalCleaned(now) /\ UNCHANGED calIssued
  BY <1>1, <1>2, <1>5, CalCleanedType, CalLapseMap
<1>6. ASSUME NEW b \in CalApprovals, calIssued[b] = CalUnissued,
             calItems' = [CalCleaned(now) EXCEPT ![b] = "pending"],
             calIssued' = [calIssued EXCEPT ![b] =
                    [operation |-> q.operation, route |-> q.route, expires |-> now + CalTTL]]
      PROVE  CalAuthority!Next
  <2> DEFINE c == q.operation
             terms == [a \in CalApprovals |-> calIssued[a].operation]
             r == [operation |-> q.operation, route |-> q.route, expires |-> now + CalTTL]
  <2>1. c \in CalOperations
    BY <1>1 DEF CalThread
  <2>2. r.operation = c /\ r # CalUnissued
    BY <2>1, CalOperationsAre DEF CalUnissued
  <2> HIDE DEF r
  <2>3. /\ calIssued'[b] = r
        /\ \A a \in CalApprovals \ {b} : calIssued'[a] = calIssued[a]
    BY <1>1, <1>6 DEF CalTypeOK, r
  <2>4. /\ calItems'[b] = "pending"
        /\ \A a \in CalApprovals \ {b} : calItems'[a] \in {calItems[a], "absent"}
    BY <1>1, <1>6, CalCleanedType
  <2>5. CalStanding[b] = "unasked" /\ CalStanding'[b] = "pending"
    <3>1. b \notin calClaimed'
      BY <1>1, <1>2, <1>6 DEF CalRecords
    <3> QED
      BY <1>6, <2>2, <2>3, <2>4, <3>1 DEF CalStanding
  <2>6. \A a \in CalApprovals \ {b} :
           \/ CalStanding'[a] = CalStanding[a]
           \/ CalStanding'[a] = "gone" /\ CalStanding[a] # "unasked"
    <3> TAKE a \in CalApprovals \ {b}
    <3>1. calItems[a] \in {"absent", "pending", "approved", "denied", "claimed"}
      BY <1>1 DEF CalTypeOK
    <3> QED
      BY <1>2, <2>3, <2>4, <3>1 DEF CalStanding
  <2>7. PICK S \in SUBSET CalApprovals :
           S = {a \in CalApprovals \ {b} : CalStanding'[a] # CalStanding[a]}
    OBVIOUS
  <2>8. CalStanding' = [CalAuthority!Lapsed(S) EXCEPT ![b] = "pending"]
    <3>1. \A a \in CalApprovals :
            CalStanding'[a] = IF a = b THEN "pending" ELSE CalAuthority!Lapsed(S)[a]
      BY <2>5, <2>6, <2>7 DEF CalAuthority!Lapsed
    <3> QED
      BY <3>1 DEF CalAuthority!Lapsed, CalStanding
  <2>9. terms' = [terms EXCEPT ![b] = c]
    BY <2>2, <2>3
  <2>10. CalAuthority!Ask(b, c, S)
    BY <1>2, <2>5, <2>8, <2>9 DEF CalAuthority!Ask
  <2> HIDE DEF c
  <2> QED
    BY <2>1, <2>7, <2>10 DEF CalAuthority!Next
<1> QED
  BY <1>3, <1>4, <1>5, <1>6

LEMMA CalDecideMap ==
    ASSUME CalIInv, CalTypeOK', NEW b \in CalApprovals, calIssued[b] # CalUnissued,
           NEW x, calItems' = [calItems EXCEPT ![b] = x],
           \/ x \in {calItems[b], "absent"}
           \/ calItems[b] = "pending" /\ x \in {"approved", "denied"},
           UNCHANGED <<calIssued, calClaimed, calWrites>>
    PROVE  CalAuthority!Next
<1>1. CalTypeOK /\ CalRecords
  BY DEF CalIInv
<1>2. calItems'[b] = x /\ \A a \in CalApprovals \ {b} : calItems'[a] = calItems[a]
  BY <1>1 DEF CalTypeOK
<1>3. CASE x \in {calItems[b], "absent"}
  BY <1>2, <1>3, CalLapseMap
<1>4. CASE calItems[b] = "pending" /\ x \in {"approved", "denied"}
  <2>1. b \notin calClaimed
    BY <1>1, <1>4 DEF CalRecords
  <2>2. CalStanding[b] = "pending" /\ CalStanding'[b] = x
    BY <1>2, <1>4, <2>1 DEF CalStanding
  <2>3. \A a \in CalApprovals \ {b} : CalStanding'[a] = CalStanding[a]
    BY <1>2 DEF CalStanding
  <2>4. CalStanding' = [CalStanding EXCEPT ![b] = x]
    BY <2>2, <2>3, CalMoveMap
  <2>5. CalAuthority!Decide(b, x)
    BY <2>2, <2>4 DEF CalAuthority!Decide
  <2> QED
    BY <1>4, <2>5 DEF CalAuthority!Next
<1> QED
  BY <1>3, <1>4

LEMMA CalDecisionMap ==
    ASSUME CalIInv, CalTypeOK', NEW t \in CalThreads, CalDecide(t) \/ CalNeutralize(t)
    PROVE  CalAuthority!Next
<1> DEFINE a == calThreads[t].approval
<1>1. /\ CalTypeOK /\ calThreads[t] \in CalThread
      /\ CalNamed(t) /\ calThreads[t].pc \in CalNaming
  BY CalThreadType DEF CalIInv, CalDecide, CalNeutralize, CalNaming
<1>2. a \in CalApprovals /\ calIssued[a] # CalUnissued /\ calThreads[t].matches \in BOOLEAN
  BY <1>1 DEF CalThread, CalNamed
<1>3. ASSUME NEW now, NEW matches \in BOOLEAN, NEW d \in {"approved", "denied"},
             calItems' = [calItems EXCEPT ![a] = CalDecided(a, now, matches, d)]
      PROVE  CalAuthority!Next
  <2> DEFINE x == CalDecided(a, now, matches, d)
  <2>1. \/ x \in {calItems[a], "absent"}
        \/ calItems[a] = "pending" /\ x \in {"approved", "denied"}
    BY <1>1, <1>2, CalDecidedIs
  <2>2. calItems' = [calItems EXCEPT ![a] = x]
    BY <1>3
  <2>3. UNCHANGED <<calIssued, calClaimed, calWrites>>
    BY DEF CalDecide, CalNeutralize
  <2> HIDE DEF x
  <2> QED
    BY <1>2, <2>1, <2>2, <2>3, CalDecideMap
<1>4. CASE CalNeutralize(t)
  <2>1. PICK now : calItems' = [calItems EXCEPT ![a] = CalDecided(a, now, TRUE, "denied")]
    BY <1>4 DEF CalNeutralize
  <2> QED
    BY <1>3, <2>1
<1>5. CASE CalDecide(t)
  <2>1. PICK now : calItems' = [calItems EXCEPT ![a] =
           CalDecided(a, now, calThreads[t].matches,
                      IF calThreads[t].approve THEN "approved" ELSE "denied")]
    BY <1>5 DEF CalDecide
  <2>2. CASE calThreads[t].approve
    BY <1>2, <1>3, <2>1, <2>2
  <2>3. CASE ~calThreads[t].approve
    BY <1>2, <1>3, <2>1, <2>3
  <2> QED
    BY <2>2, <2>3
<1> QED
  BY <1>4, <1>5

LEMMA CalExecuteMap ==
    ASSUME CalIInv, CalTypeOK', NEW t \in CalThreads, CalGetApproved(t) \/ CalClaim(t)
    PROVE  CalAuthority!Next
<1> DEFINE b == calThreads[t].approval
<1>1. /\ CalTypeOK /\ CalRecords /\ calThreads[t] \in CalThread
      /\ CalNamed(t) /\ calThreads[t].pc \in CalNaming
  BY CalThreadType DEF CalIInv, CalGetApproved, CalClaim, CalClaimIf, CalNaming
<1>2. b \in CalApprovals /\ calIssued[b] # CalUnissued
  BY <1>1 DEF CalThread, CalNamed
<1>3. UNCHANGED <<calIssued, calWrites>>
  BY DEF CalGetApproved, CalClaim, CalClaimIf
<1>4. CASE (\E now : CalDropIfLapsed(b, now)) /\ UNCHANGED calClaimed
  BY <1>1, <1>2, <1>3, <1>4, CalDropped, CalLapseMap
<1>5. CASE /\ calItems[b] = "approved"
           /\ calItems' = [calItems EXCEPT ![b] = "claimed"]
           /\ calClaimed' = calClaimed \cup {b}
  <2>1. b \notin calClaimed
    BY <1>1, <1>2, <1>5 DEF CalRecords
  <2>2. \A a \in CalApprovals \ {b} : calItems'[a] = calItems[a]
    BY <1>1, <1>5 DEF CalTypeOK
  <2>3. CalStanding[b] = "approved" /\ CalStanding'[b] = "spent"
    BY <1>2, <1>3, <1>5, <2>1 DEF CalStanding
  <2>4. \A a \in CalApprovals \ {b} : CalStanding'[a] = CalStanding[a]
    BY <1>3, <1>5, <2>2 DEF CalStanding
  <2>5. CalStanding' = [CalStanding EXCEPT ![b] = "spent"]
    BY <1>2, <2>3, <2>4, CalMoveMap
  <2>6. CalAuthority!Spend(b)
    BY <1>3, <2>3, <2>5 DEF CalAuthority!Spend
  <2> QED
    BY <1>2, <2>6 DEF CalAuthority!Next
<1> QED
  BY <1>4, <1>5 DEF CalGetApproved, CalClaim, CalClaimIf

LEMMA CalProviderMap ==
    ASSUME CalIInv, NEW t \in CalThreads, CalProvider(t)
    PROVE  CalAuthority!Next \/ UNCHANGED CalAuthority!vars
<1> DEFINE b == calThreads[t].approval
           c == calThreads[t].operation
           terms == [a \in CalApprovals |-> calIssued[a].operation]
<1>1. /\ CalTypeOK /\ calThreads[t] \in CalThread
      /\ CalNamed(t) /\ CalHolderOK(t) /\ calThreads[t].pc = "provider"
  BY CalThreadType DEF CalIInv, CalProvider
<1>2. /\ b \in CalApprovals /\ calIssued[b] # CalUnissued
      /\ c = calIssued[b].operation /\ b \in calClaimed /\ calWrites[b] = <<>>
  BY <1>1 DEF CalThread, CalNamed, CalNaming, CalHolderOK, CalHolds
<1>3. UNCHANGED <<calIssued, calItems, calClaimed>>
  BY DEF CalProvider
<1>4. CASE calWrites' = calWrites
  BY <1>3, <1>4, CalQuietMap
<1>5. CASE calWrites' = [calWrites EXCEPT ![b] = Append(@, c)]
  <2>1. CalStanding[b] = "spent" /\ terms[b] = c
    BY <1>2 DEF CalStanding
  <2>2. CalStanding' = CalStanding /\ terms' = terms
    BY <1>3 DEF CalStanding
  <2>3. CalAuthority!Act(b)
    BY <1>2, <1>5, <2>1, <2>2 DEF CalAuthority!Act
  <2> QED
    BY <1>2, <2>3 DEF CalAuthority!Next
<1> QED
  BY <1>4, <1>5 DEF CalProvider

LEMMA CalStepMap ==
    CalIInv /\ CalIInv' /\ [CalNext]_calVars => [CalAuthority!Next]_(CalAuthority!vars)
<1> SUFFICES ASSUME CalIInv, CalTypeOK', [CalNext]_calVars
             PROVE  CalAuthority!Next \/ UNCHANGED CalAuthority!vars
  BY DEF CalIInv
<1>1. CASE UNCHANGED calVars \/ CalTick
  BY <1>1, CalQuietMap DEF calVars, CalTick
<1>2. ASSUME NEW t \in CalThreads,
             \/ CalCall(t) \/ CalCheck(t) \/ CalSelect(t) \/ CalFollow(t) \/ CalUnfollow(t)
             \/ CalSpend(t) \/ CalBind(t) \/ CalResolve(t) \/ CalConsume(t) \/ CalAnswer(t)
      PROVE  UNCHANGED CalAuthority!vars
  <2>1. UNCHANGED <<calIssued, calItems, calClaimed, calWrites>>
    BY <1>2 DEF CalCall, CalCheck, CalSelect, CalFollow, CalUnfollow, CalSpend, CalBind,
       CalResolve, CalConsume, CalAnswer
  <2> QED
    BY <2>1, CalQuietMap
<1> QED
  BY <1>1, <1>2, CalCreateMap, CalDecisionMap, CalExecuteMap, CalProviderMap
     DEF CalNext, CalServe

LEMMA CalInitMap == CalInit => CalAuthority!Init
BY DEF CalInit, CalAuthority!Init, CalStanding, CalUnissued

\* CalImplementsAuthority: whatever the stores and the threads do, an observer
\* sees an approval asked for, decided, claimed and attempted once, with the
\* operation it was asked for, or lapsed, through the API, Chat and the cards.
THEOREM CalImplements == CalSpec => CalImplementsAuthority
<1> QED
  BY CalInvariant, CalInitMap, CalStepMap, PTL
     DEF CalSpec, CalImplementsAuthority, CalAuthority!Spec

-----------------------------------------------------------------------------
(* LocalAIControl: the inductive invariant.                                 *)

\* From the approval on, a thread carries the operation through.
LaiActing == {"revalidate", "claim", "dispatch", "verify"}
LaiActs(t) == laiThreads[t].pc \in LaiActing

LaiNamed(t) ==
    LET q == laiThreads[t] IN
    q.pc \in LaiActing \cup {"decide"} =>
        /\ q.approval # LaiNone
        /\ laiIssued[q.approval] # LaiUnissued
        /\ q.operation = laiIssued[q.approval].operation

\* It is the first to be told anything, and what it is about to dispatch it
\* has looked up since the approval.
LaiActingOK(t) ==
    LET q == laiThreads[t]  a == q.approval IN
    LaiActs(t) =>
        /\ laiAnswers[a] = {} /\ laiItems[a] # "pending" /\ laiSeen[a] # {}
        /\ q.pc \in {"revalidate", "claim"} => a \notin laiClaimed
        /\ q.pc \in {"claim", "dispatch"} => LaiExpected(q.operation) \in laiSeen[a]
        /\ q.pc = "dispatch" => a \in laiClaimed /\ laiDispatched[a] = <<>>

LaiExclusive ==
    \A s, t \in LaiThreads :
        LaiActs(s) /\ LaiActs(t) /\ laiThreads[s].approval = laiThreads[t].approval
            => s = t

\* What was not claimed was not dispatched, what is pending was told nothing,
\* and the history of an approval's states reaches the present.
LaiRecords ==
    \A a \in LaiApprovals :
        /\ laiIssued[a] = LaiUnissued => laiItems[a] = "absent" /\ a \notin laiClaimed
        /\ laiIssued[a] = LaiUnissued \/ laiItems[a] = "pending" => laiAnswers[a] = {}
        /\ laiItems[a] \in {"pending", "approved", "denied"} => a \notin laiClaimed
        /\ a \notin laiClaimed => laiDispatched[a] = <<>>
        /\ laiSeen[a] # {} => laiLoaded \in laiSeen[a]

LaiIInv ==
    /\ LaiTypeOK
    /\ \A t \in LaiThreads : LaiNamed(t) /\ LaiActingOK(t)
    /\ LaiExclusive /\ LaiRecords
    /\ LaiAnswerIsTruthful

-----------------------------------------------------------------------------
(* LocalAIControl: types.                                                   *)

LEMMA LaiBounds ==
    /\ LaiNone \notin LaiApprovals
    /\ LaiTTL \in Nat /\ LaiMaxRecords \in Nat /\ LaiMaxTime \in Nat /\ LaiMaxCalls \in Nat
BY LaiConstantsAssumption

LEMMA LaiThreadType ==
    ASSUME LaiTypeOK, NEW t \in LaiThreads
    PROVE  /\ laiThreads[t] \in LaiThread /\ laiClock \in Nat
           /\ LaiReads(t) \subseteq Nat /\ laiThreads[t].now \in Nat
BY LaiBounds DEF LaiTypeOK, LaiReads, LaiThread

LEMMA LaiIdleType == LaiIdle \in LaiThread
BY DEF LaiIdle, LaiThread, LaiOperations

LEMMA LaiGoesType ==
    ASSUME LaiTypeOK, NEW t \in LaiThreads, NEW q \in LaiThread, LaiGoes(t, q)
    PROVE  /\ laiThreads' \in [LaiThreads -> LaiThread]
           /\ laiThreads'[t] = q
           /\ \A s \in LaiThreads \ {t} : laiThreads'[s] = laiThreads[s]
BY DEF LaiTypeOK, LaiGoes

LEMMA LaiStepType ==
    ASSUME LaiTypeOK, NEW t \in LaiThreads,
           NEW pc \in {"create", "revalidate", "claim", "dispatch", "verify"},
           NEW now \in Nat, LaiStep(t, pc, now)
    PROVE  /\ laiThreads' \in [LaiThreads -> LaiThread]
           /\ laiThreads'[t].pc = pc
           /\ laiThreads'[t].approval = laiThreads[t].approval
           /\ laiThreads'[t].operation = laiThreads[t].operation
           /\ \A s \in LaiThreads \ {t} : laiThreads'[s] = laiThreads[s]
<1> DEFINE q == [laiThreads[t] EXCEPT !.pc = pc, !.now = now]
<1>1. /\ q \in LaiThread /\ q.pc = pc
      /\ q.approval = laiThreads[t].approval /\ q.operation = laiThreads[t].operation
  BY LaiThreadType DEF LaiThread
<1>2. LaiGoes(t, q)
  BY DEF LaiStep
<1> HIDE DEF q
<1> QED
  BY <1>1, <1>2, LaiGoesType

LEMMA LaiReplyType ==
    ASSUME LaiTypeOK, NEW t \in LaiThreads, LaiReply(t)
    PROVE  /\ laiThreads' \in [LaiThreads -> LaiThread]
           /\ laiThreads'[t] = LaiIdle
           /\ \A s \in LaiThreads \ {t} : laiThreads'[s] = laiThreads[s]
BY LaiIdleType, LaiGoesType DEF LaiReply

-----------------------------------------------------------------------------
(* LocalAIControl: what a step leaves alone.                                *)

\* A step of one thread, on behalf of one approval at most.
LEMMA LaiStepOK ==
    ASSUME LaiIInv, NEW t \in LaiThreads, NEW S \in SUBSET LaiApprovals, LaiTypeOK',
           \A s \in LaiThreads \ {t} : laiThreads'[s] = laiThreads[s],
           \A s \in LaiThreads \ {t} : LaiActs(s) => laiThreads[s].approval \notin S,
           LaiActs(t)' => laiThreads'[t].approval \in S,
           \A a \in LaiApprovals :
               laiIssued[a] # LaiUnissued => laiIssued'[a] = laiIssued[a],
           \A a \in LaiApprovals \ S :
               /\ laiItems'[a] \in {laiItems[a], "absent"}
               /\ a \in laiClaimed' <=> a \in laiClaimed
               /\ laiDispatched'[a] = laiDispatched[a]
               /\ laiAnswers'[a] = laiAnswers[a]
               /\ laiSeen[a] \subseteq laiSeen'[a],
           LaiNamed(t)', LaiActingOK(t)', LaiRecords', LaiAnswerIsTruthful'
    PROVE  LaiIInv'
<1>1. ASSUME NEW s \in LaiThreads \ {t}
      PROVE  LaiNamed(s)' /\ LaiActingOK(s)'
  <2>1. /\ laiThreads'[s] = laiThreads[s] /\ laiThreads[s] \in LaiThread
        /\ LaiNamed(s) /\ LaiActingOK(s)
    BY LaiThreadType DEF LaiIInv
  <2>2. CASE laiThreads[s].pc \in LaiActing \cup {"decide"}
    <3>1. /\ laiThreads[s].approval \in LaiApprovals
          /\ laiIssued'[laiThreads[s].approval] = laiIssued[laiThreads[s].approval]
          /\ laiIssued[laiThreads[s].approval] # LaiUnissued
      BY <2>1, <2>2 DEF LaiNamed, LaiThread
    <3>2. LaiNamed(s)'
      BY <2>1, <2>2, <3>1 DEF LaiNamed
    <3>3. LaiActingOK(s)'
      <4>1. CASE LaiActs(s)
        <5>1. laiThreads[s].approval \in LaiApprovals \ S
          BY <3>1, <4>1
        <5> QED
          BY <2>1, <4>1, <5>1 DEF LaiActingOK, LaiActs
      <4>2. CASE ~LaiActs(s)
        BY <2>1, <4>2 DEF LaiActingOK, LaiActs
      <4> QED
        BY <4>1, <4>2
    <3> QED
      BY <3>2, <3>3
  <2>3. CASE laiThreads[s].pc \notin LaiActing \cup {"decide"}
    BY <2>1, <2>3 DEF LaiNamed, LaiActingOK, LaiActs
  <2> QED
    BY <2>2, <2>3
<1>2. \A s \in LaiThreads : LaiNamed(s)' /\ LaiActingOK(s)'
  BY <1>1
<1>3. LaiExclusive'
  <2>1. \A s \in LaiThreads \ {t} :
          LaiActs(s)' => LaiActs(s) /\ laiThreads'[s].approval \notin S
    BY DEF LaiActs
  <2> QED
    BY <2>1 DEF LaiIInv, LaiExclusive, LaiActs
<1> QED
  BY <1>2, <1>3 DEF LaiIInv

\* A step that leaves what was told and seen alone.
LEMMA LaiQuiet ==
    ASSUME LaiIInv, NEW t \in LaiThreads, LaiTypeOK',
           \A s \in LaiThreads \ {t} : laiThreads'[s] = laiThreads[s],
           UNCHANGED <<laiIssued, laiClaimed, laiLoaded, laiSeen, laiDispatched, laiAnswers>>,
           \A a \in LaiApprovals : laiItems'[a] \in {laiItems[a], "absent"},
           LaiNamed(t)', ~LaiActs(t)'
    PROVE  LaiIInv'
<1>1. LaiRecords'
  BY DEF LaiIInv, LaiRecords
<1>2. LaiAnswerIsTruthful'
  BY DEF LaiIInv, LaiAnswerIsTruthful
<1>3. LaiActingOK(t)'
  BY DEF LaiActingOK
<1> DEFINE S == {}
<1>4. S \in SUBSET LaiApprovals /\ \A s \in LaiThreads : laiThreads[s].approval \notin S
  OBVIOUS
<1> HIDE DEF S
<1> QED
  BY <1>1, <1>2, <1>3, <1>4, LaiStepOK

LEMMA LaiIdleThread ==
    ASSUME NEW t \in LaiThreads, laiThreads'[t] = LaiIdle
    PROVE  LaiNamed(t)' /\ ~LaiActs(t)' /\ LaiActingOK(t)'
BY DEF LaiIdle, LaiNamed, LaiActs, LaiActing, LaiActingOK

\* The approval a thread acts on is its own.
LEMMA LaiMine ==
    ASSUME LaiIInv, NEW t \in LaiThreads,
           laiThreads[t].pc \in LaiActing \cup {"decide"}
    PROVE  /\ laiThreads[t].approval \in LaiApprovals
           /\ laiIssued[laiThreads[t].approval] # LaiUnissued
           /\ laiThreads[t].operation = laiIssued[laiThreads[t].approval].operation
           /\ laiThreads[t].operation \in LaiOperations
           /\ LaiActs(t) \/ laiItems[laiThreads[t].approval] = "pending" =>
                 \A s \in LaiThreads \ {t} :
                     LaiActs(s) => laiThreads[s].approval \notin {laiThreads[t].approval}
<1>1. laiThreads[t] \in LaiThread /\ LaiNamed(t) /\ LaiExclusive
      /\ \A s \in LaiThreads : LaiActingOK(s)
  BY LaiThreadType DEF LaiIInv
<1>2. /\ laiThreads[t].approval \in LaiApprovals
      /\ laiIssued[laiThreads[t].approval] # LaiUnissued
      /\ laiThreads[t].operation = laiIssued[laiThreads[t].approval].operation
      /\ laiThreads[t].operation \in LaiOperations
  BY <1>1 DEF LaiNamed, LaiThread
<1> QED
  BY <1>1, <1>2 DEF LaiExclusive, LaiActingOK

-----------------------------------------------------------------------------
(* LocalAIControl: the actions.                                             *)

LEMMA LaiCallOK ==
    ASSUME LaiIInv, NEW t \in LaiThreads, LaiCall(t)
    PROVE  LaiIInv'
<1>1. LaiTypeOK /\ laiClock \in Nat
  BY LaiThreadType DEF LaiIInv
<1>2. UNCHANGED <<laiClock, laiIssued, laiItems, laiClaimed, laiLoaded, laiSeen,
                  laiDispatched, laiAnswers>>
  BY DEF LaiCall
<1>3. laiCalls' \in 0..LaiMaxCalls
  <2>1. laiCalls < LaiMaxCalls /\ laiCalls' = laiCalls + 1
    BY DEF LaiCall
  <2>2. laiCalls \in 0..LaiMaxCalls
    BY <1>1 DEF LaiTypeOK
  <2> QED
    BY <2>1, <2>2, LaiBounds
<1>4. ASSUME NEW q \in LaiThread, LaiGoes(t, q), q.pc \in {"look", "decide"},
             q.pc = "decide" =>
                 /\ q.approval # LaiNone /\ laiIssued[q.approval] # LaiUnissued
                 /\ q.operation = laiIssued[q.approval].operation
      PROVE  LaiIInv'
  <2>1. /\ laiThreads' \in [LaiThreads -> LaiThread] /\ laiThreads'[t] = q
        /\ \A s \in LaiThreads \ {t} : laiThreads'[s] = laiThreads[s]
    BY <1>1, <1>4, LaiGoesType
  <2>2. LaiTypeOK'
    BY <1>1, <1>2, <1>3, <2>1 DEF LaiTypeOK
  <2>3. LaiNamed(t)' /\ ~LaiActs(t)'
    BY <1>2, <1>4, <2>1 DEF LaiNamed, LaiActs, LaiActing
  <2> QED
    BY <1>2, <2>1, <2>2, <2>3, LaiQuiet
<1>5. ASSUME NEW o \in LaiOperations,
             LaiGoes(t, [LaiIdle EXCEPT !.pc = "look", !.operation = o, !.now = laiClock])
      PROVE  LaiIInv'
  <2> DEFINE q == [LaiIdle EXCEPT !.pc = "look", !.operation = o, !.now = laiClock]
  <2>1. q \in LaiThread /\ q.pc = "look"
    BY <1>1, LaiIdleType DEF LaiThread
  <2> HIDE DEF q
  <2> QED
    BY <1>4, <1>5, <2>1 DEF q
<1>6. ASSUME NEW a \in LaiApprovals, NEW yes \in BOOLEAN, NEW matches \in BOOLEAN,
             laiIssued[a] # LaiUnissued,
             LaiGoes(t, [LaiIdle EXCEPT !.pc = "decide", !.approval = a, !.approve = yes,
                              !.operation = laiIssued[a].operation,
                              !.matches = matches, !.now = laiClock])
      PROVE  LaiIInv'
  <2> DEFINE q == [LaiIdle EXCEPT !.pc = "decide", !.approval = a, !.approve = yes,
                              !.operation = laiIssued[a].operation,
                              !.matches = matches, !.now = laiClock]
  <2>1. laiIssued[a].operation \in LaiOperations
    BY <1>1, <1>6 DEF LaiTypeOK
  <2>2. /\ q \in LaiThread /\ q.pc = "decide" /\ q.approval = a
        /\ q.operation = laiIssued[a].operation
    BY <1>1, <2>1, LaiIdleType DEF LaiThread
  <2>3. a # LaiNone
    BY LaiBounds
  <2> HIDE DEF q
  <2> QED
    BY <1>4, <1>6, <2>2, <2>3 DEF q
<1> QED
  BY <1>5, <1>6 DEF LaiCall

LEMMA LaiLookOK ==
    ASSUME LaiIInv, NEW t \in LaiThreads, LaiLook(t)
    PROVE  LaiIInv'
<1>1. LaiTypeOK /\ laiThreads[t].now \in Nat
  BY LaiThreadType DEF LaiIInv
<1>2. UNCHANGED <<laiClock, laiIssued, laiItems, laiClaimed, laiLoaded, laiSeen,
                  laiDispatched, laiAnswers, laiCalls>>
  BY DEF LaiLook
<1>3. /\ laiThreads' \in [LaiThreads -> LaiThread]
      /\ laiThreads'[t].pc \in {"idle", "create"}
      /\ \A s \in LaiThreads \ {t} : laiThreads'[s] = laiThreads[s]
  <2>1. CASE LaiReply(t)
    BY <1>1, <2>1, LaiReplyType DEF LaiIdle
  <2>2. CASE LaiStep(t, "create", laiThreads[t].now)
    BY <1>1, <2>2, LaiStepType
  <2> QED
    BY <2>1, <2>2 DEF LaiLook
<1>4. LaiTypeOK'
  BY <1>1, <1>2, <1>3 DEF LaiTypeOK
<1>5. LaiNamed(t)' /\ ~LaiActs(t)'
  BY <1>3 DEF LaiNamed, LaiActs, LaiActing
<1> QED
  BY <1>2, <1>3, <1>4, <1>5, LaiQuiet

LEMMA LaiCreateOK ==
    ASSUME LaiIInv, NEW t \in LaiThreads, LaiCreate(t)
    PROVE  LaiIInv'
<1>1. LaiTypeOK /\ LaiReads(t) \subseteq Nat /\ laiThreads[t] \in LaiThread /\ LaiRecords
  BY LaiThreadType DEF LaiIInv
<1>2. UNCHANGED <<laiClock, laiClaimed, laiLoaded, laiSeen, laiDispatched,
                  laiAnswers, laiCalls>>
  BY DEF LaiCreate
<1>3. /\ laiThreads' \in [LaiThreads -> LaiThread]
      /\ laiThreads'[t] = LaiIdle
      /\ \A s \in LaiThreads \ {t} : laiThreads'[s] = laiThreads[s]
  BY <1>1, LaiReplyType DEF LaiCreate
<1>4. LaiNamed(t)' /\ ~LaiActs(t)' /\ LaiActingOK(t)'
  BY <1>3, LaiIdleThread
<1>5. PICK now \in LaiReads(t) :
        LET kept == [a \in LaiApprovals |->
                        IF LaiAlive(a, now) THEN laiItems[a] ELSE "absent"]
        IN  \/ laiItems' = kept /\ UNCHANGED laiIssued
            \/ \E a \in LaiApprovals :
                  /\ laiIssued[a] = LaiUnissued
                  /\ laiItems' = [kept EXCEPT ![a] = "pending"]
                  /\ laiIssued' = [laiIssued EXCEPT ![a] =
                        [operation |-> laiThreads[t].operation, expires |-> now + LaiTTL]]
  BY DEF LaiCreate
<1> DEFINE kept == [a \in LaiApprovals |->
                       IF LaiAlive(a, now) THEN laiItems[a] ELSE "absent"]
<1>6. /\ kept \in [LaiApprovals -> {"absent", "pending", "approved", "denied", "claimed"}]
      /\ \A a \in LaiApprovals : kept[a] \in {laiItems[a], "absent"}
  BY <1>1 DEF LaiTypeOK
<1> HIDE DEF kept
<1>7. CASE laiItems' = kept /\ UNCHANGED laiIssued
  <2>1. LaiTypeOK'
    BY <1>1, <1>2, <1>3, <1>6, <1>7 DEF LaiTypeOK
  <2> QED
    BY <1>2, <1>3, <1>4, <1>6, <1>7, <2>1, LaiQuiet
<1>8. ASSUME NEW a \in LaiApprovals, laiIssued[a] = LaiUnissued,
             laiItems' = [kept EXCEPT ![a] = "pending"],
             laiIssued' = [laiIssued EXCEPT ![a] =
                 [operation |-> laiThreads[t].operation, expires |-> now + LaiTTL]]
      PROVE  LaiIInv'
  <2> DEFINE r == [operation |-> laiThreads[t].operation, expires |-> now + LaiTTL]
  <2>1. r \in [operation : LaiOperations, expires : Nat]
    <3>1. now \in Nat /\ now + LaiTTL \in Nat
      BY <1>1, LaiBounds
    <3> QED
      BY <1>1, <3>1 DEF LaiThread
  <2> HIDE DEF r
  <2>2. r # LaiUnissued
    BY <2>1 DEF LaiUnissued, LaiOperations
  <2>3. /\ laiIssued' \in [LaiApprovals ->
              {LaiUnissued} \cup [operation : LaiOperations, expires : Nat]]
        /\ laiIssued'[a] = r
        /\ \A b \in LaiApprovals \ {a} : laiIssued'[b] = laiIssued[b]
    BY <1>1, <1>8, <2>1 DEF LaiTypeOK, r
  <2>4. /\ laiItems' \in [LaiApprovals -> {"absent", "pending", "approved", "denied", "claimed"}]
        /\ laiItems'[a] = "pending"
        /\ \A b \in LaiApprovals \ {a} : laiItems'[b] \in {laiItems[b], "absent"}
    BY <1>6, <1>8
  <2>5. LaiTypeOK'
    BY <1>1, <1>2, <1>3, <2>3, <2>4 DEF LaiTypeOK
  <2>6. LaiRecords'
    BY <1>1, <1>2, <1>8, <2>2, <2>3, <2>4 DEF LaiRecords
  <2>7. LaiAnswerIsTruthful'
    <3>1. laiAnswers[a] = {}
      BY <1>1, <1>8 DEF LaiRecords
    <3> QED
      BY <1>2, <2>3, <3>1 DEF LaiIInv, LaiAnswerIsTruthful
  <2> DEFINE S == {a}
  <2>8. /\ S \in SUBSET LaiApprovals
        /\ \A s \in LaiThreads \ {t} : LaiActs(s) => laiThreads[s].approval \notin S
    BY <1>8 DEF LaiIInv, LaiNamed, LaiActs
  <2>9. \A b \in LaiApprovals : laiIssued[b] # LaiUnissued => laiIssued'[b] = laiIssued[b]
    BY <1>8, <2>3
  <2>10. \A b \in LaiApprovals \ S :
           /\ laiItems'[b] \in {laiItems[b], "absent"}
           /\ b \in laiClaimed' <=> b \in laiClaimed
           /\ laiDispatched'[b] = laiDispatched[b]
           /\ laiAnswers'[b] = laiAnswers[b]
           /\ laiSeen[b] \subseteq laiSeen'[b]
    BY <1>2, <2>4
  <2> HIDE DEF S
  <2> QED
    BY <1>3, <1>4, <2>5, <2>6, <2>7, <2>8, <2>9, <2>10, LaiStepOK
<1> QED
  BY <1>5, <1>7, <1>8 DEF kept

\* A thread's own approval, alone.
LEMMA LaiOwnOK ==
    ASSUME LaiIInv, NEW t \in LaiThreads, NEW a \in LaiApprovals,
           a = laiThreads[t].approval, laiThreads[t].pc \in LaiActing \cup {"decide"},
           LaiActs(t) \/ laiItems[a] = "pending",
           LaiTypeOK', UNCHANGED laiIssued,
           \A s \in LaiThreads \ {t} : laiThreads'[s] = laiThreads[s],
           LaiActs(t)' => laiThreads'[t].approval = a,
           \A b \in LaiApprovals \ {a} :
               /\ laiItems'[b] \in {laiItems[b], "absent"}
               /\ b \in laiClaimed' <=> b \in laiClaimed
               /\ laiDispatched'[b] = laiDispatched[b]
               /\ laiAnswers'[b] = laiAnswers[b]
               /\ laiSeen[b] \subseteq laiSeen'[b],
           LaiNamed(t)', LaiActingOK(t)', LaiRecords', LaiAnswerIsTruthful'
    PROVE  LaiIInv'
<1> DEFINE S == {a}
<1>1. /\ S \in SUBSET LaiApprovals
      /\ \A s \in LaiThreads \ {t} : LaiActs(s) => laiThreads[s].approval \notin S
  BY LaiMine
<1>2. LaiActs(t)' => laiThreads'[t].approval \in S
  OBVIOUS
<1>3. \A b \in LaiApprovals \ S :
           /\ laiItems'[b] \in {laiItems[b], "absent"}
           /\ b \in laiClaimed' <=> b \in laiClaimed
           /\ laiDispatched'[b] = laiDispatched[b]
           /\ laiAnswers'[b] = laiAnswers[b]
           /\ laiSeen[b] \subseteq laiSeen'[b]
  OBVIOUS
<1>4. \A b \in LaiApprovals : laiIssued[b] # LaiUnissued => laiIssued'[b] = laiIssued[b]
  OBVIOUS
<1> HIDE DEF S
<1> QED
  BY <1>1, <1>2, <1>3, <1>4, LaiStepOK

LEMMA LaiDecideOK ==
    ASSUME LaiIInv, NEW t \in LaiThreads, LaiDecide(t)
    PROVE  LaiIInv'
<1> DEFINE a == laiThreads[t].approval
<1>1. /\ LaiTypeOK /\ LaiReads(t) \subseteq Nat /\ LaiRecords
      /\ laiThreads[t].pc = "decide" /\ laiThreads[t].pc \in LaiActing \cup {"decide"}
  BY LaiThreadType DEF LaiIInv, LaiDecide
<1>2. /\ a \in LaiApprovals /\ laiIssued[a] # LaiUnissued
      /\ laiThreads[t].operation = laiIssued[a].operation
      /\ laiItems \in [LaiApprovals -> {"absent", "pending", "approved", "denied", "claimed"}]
  BY <1>1, LaiMine DEF LaiTypeOK
<1>3. UNCHANGED <<laiClock, laiIssued, laiClaimed, laiLoaded, laiDispatched,
                  laiAnswers, laiCalls>>
  BY DEF LaiDecide
<1>4. PICK now \in LaiReads(t) :
        \/ /\ laiItems[a] = "pending"
           /\ laiItems' = [laiItems EXCEPT ![a] = "approved"]
           /\ laiSeen' = [laiSeen EXCEPT ![a] = {laiLoaded}]
           /\ LaiStep(t, "revalidate", now)
        \/ /\ laiItems[a] = "pending"
           /\ laiItems' = [laiItems EXCEPT ![a] = "denied"]
           /\ LaiReply(t) /\ UNCHANGED laiSeen
        \/ /\ laiItems' = [laiItems EXCEPT ![a] =
                 IF @ = "pending" \/ ~LaiAlive(a, now) THEN "absent" ELSE @]
           /\ LaiReply(t) /\ UNCHANGED laiSeen
  BY DEF LaiDecide
<1>5. CASE /\ laiItems[a] = "pending"
           /\ laiItems' = [laiItems EXCEPT ![a] = "approved"]
           /\ laiSeen' = [laiSeen EXCEPT ![a] = {laiLoaded}]
           /\ LaiStep(t, "revalidate", now)
  <2>1. now \in Nat
    BY <1>1
  <2>2. /\ laiThreads' \in [LaiThreads -> LaiThread]
        /\ laiThreads'[t].pc = "revalidate"
        /\ laiThreads'[t].approval = a
        /\ laiThreads'[t].operation = laiThreads[t].operation
        /\ \A s \in LaiThreads \ {t} : laiThreads'[s] = laiThreads[s]
    BY <1>1, <1>5, <2>1, LaiStepType
  <2>3. /\ laiItems' \in [LaiApprovals -> {"absent", "pending", "approved", "denied", "claimed"}]
        /\ laiItems'[a] = "approved"
        /\ \A b \in LaiApprovals \ {a} : laiItems'[b] = laiItems[b]
    BY <1>2, <1>5
  <2>4. /\ laiSeen' \in [LaiApprovals -> SUBSET BOOLEAN]
        /\ laiSeen'[a] = {laiLoaded}
        /\ \A b \in LaiApprovals \ {a} : laiSeen'[b] = laiSeen[b]
    <3>1. laiSeen \in [LaiApprovals -> SUBSET BOOLEAN] /\ {laiLoaded} \in SUBSET BOOLEAN
      BY <1>1 DEF LaiTypeOK
    <3> QED
      BY <1>2, <1>5, <3>1
  <2>5. LaiTypeOK'
    BY <1>1, <1>3, <2>2, <2>3, <2>4 DEF LaiTypeOK
  <2>6. a \notin laiClaimed /\ laiAnswers[a] = {}
    BY <1>1, <1>2, <1>5 DEF LaiRecords
  <2>7. LaiNamed(t)' /\ LaiActingOK(t)'
    <3>1. LaiNamed(t)'
      BY <1>2, <1>3, <2>2, LaiBounds DEF LaiNamed
    <3>2. LaiActingOK(t)'
      BY <1>3, <2>2, <2>3, <2>4, <2>6 DEF LaiActingOK
    <3> QED
      BY <3>1, <3>2
  <2>8. LaiRecords'
    BY <1>1, <1>2, <1>3, <2>3, <2>4, <2>6 DEF LaiRecords
  <2>9. LaiAnswerIsTruthful'
    BY <1>3, <2>4, <2>6 DEF LaiIInv, LaiAnswerIsTruthful
  <2> HIDE DEF a
  <2> QED
    BY <1>1, <1>2, <1>3, <1>5, <2>2, <2>3, <2>4, <2>5, <2>7, <2>8, <2>9, LaiOwnOK DEF a
<1>6. CASE /\ laiItems[a] = "pending"
           /\ laiItems' = [laiItems EXCEPT ![a] = "denied"]
           /\ LaiReply(t) /\ UNCHANGED laiSeen
  <2>1. /\ laiThreads' \in [LaiThreads -> LaiThread]
        /\ laiThreads'[t] = LaiIdle
        /\ \A s \in LaiThreads \ {t} : laiThreads'[s] = laiThreads[s]
    BY <1>1, <1>6, LaiReplyType
  <2>2. /\ laiItems' \in [LaiApprovals -> {"absent", "pending", "approved", "denied", "claimed"}]
        /\ laiItems'[a] = "denied"
        /\ \A b \in LaiApprovals \ {a} : laiItems'[b] = laiItems[b]
    BY <1>2, <1>6
  <2>3. LaiTypeOK'
    BY <1>1, <1>3, <1>6, <2>1, <2>2 DEF LaiTypeOK
  <2>4. LaiNamed(t)' /\ ~LaiActs(t)' /\ LaiActingOK(t)'
    BY <2>1, LaiIdleThread
  <2>5. LaiRecords'
    BY <1>1, <1>2, <1>3, <1>6, <2>2 DEF LaiRecords
  <2>6. LaiAnswerIsTruthful'
    BY <1>3, <1>6 DEF LaiIInv, LaiAnswerIsTruthful
  <2> HIDE DEF a
  <2> QED
    BY <1>1, <1>2, <1>3, <1>6, <2>1, <2>2, <2>3, <2>4, <2>5, <2>6, LaiOwnOK DEF a
<1>7. CASE /\ laiItems' = [laiItems EXCEPT ![a] =
                 IF @ = "pending" \/ ~LaiAlive(a, now) THEN "absent" ELSE @]
           /\ LaiReply(t) /\ UNCHANGED laiSeen
  <2>1. /\ laiThreads' \in [LaiThreads -> LaiThread]
        /\ laiThreads'[t] = LaiIdle
        /\ \A s \in LaiThreads \ {t} : laiThreads'[s] = laiThreads[s]
    BY <1>1, <1>7, LaiReplyType
  <2>2. /\ laiItems' \in [LaiApprovals -> {"absent", "pending", "approved", "denied", "claimed"}]
        /\ \A b \in LaiApprovals : laiItems'[b] \in {laiItems[b], "absent"}
    BY <1>2, <1>7
  <2>3. LaiTypeOK'
    BY <1>1, <1>3, <1>7, <2>1, <2>2 DEF LaiTypeOK
  <2>4. LaiNamed(t)' /\ ~LaiActs(t)'
    BY <2>1, LaiIdleThread
  <2> QED
    BY <1>3, <1>7, <2>1, <2>2, <2>3, <2>4, LaiQuiet
<1> QED
  BY <1>4, <1>5, <1>6, <1>7

\* The owner is told once: before the dispatch a failure, after it what was seen.
LEMMA LaiTellOK ==
    ASSUME LaiIInv, NEW t \in LaiThreads, NEW outcome \in LaiOutcomes,
           LaiActs(t), LaiTell(laiThreads[t].approval, outcome), LaiReply(t),
           UNCHANGED <<laiClock, laiIssued, laiItems, laiClaimed, laiLoaded, laiSeen,
                       laiDispatched, laiCalls>>,
           outcome = "failed" => laiThreads[t].pc = "revalidate",
           outcome = "succeeded" =>
               laiLoaded = LaiDesired(laiThreads[t].operation)
    PROVE  LaiIInv'
<1> DEFINE a == laiThreads[t].approval
<1>1. /\ LaiTypeOK /\ LaiRecords /\ LaiActingOK(t)
      /\ laiThreads[t].pc \in LaiActing \cup {"decide"}
  BY DEF LaiIInv, LaiActs
<1>2. /\ a \in LaiApprovals /\ laiThreads[t].operation = laiIssued[a].operation
      /\ laiIssued[a] # LaiUnissued
  BY <1>1, LaiMine
<1>3. /\ laiThreads' \in [LaiThreads -> LaiThread]
      /\ laiThreads'[t] = LaiIdle
      /\ \A s \in LaiThreads \ {t} : laiThreads'[s] = laiThreads[s]
  BY <1>1, LaiReplyType
<1>4. /\ laiAnswers' \in [LaiApprovals -> SUBSET LaiOutcomes]
      /\ laiAnswers'[a] = laiAnswers[a] \cup {outcome}
      /\ \A b \in LaiApprovals \ {a} : laiAnswers'[b] = laiAnswers[b]
  <2>1. laiAnswers \in [LaiApprovals -> SUBSET LaiOutcomes]
    BY <1>1 DEF LaiTypeOK
  <2>2. laiAnswers[a] \cup {outcome} \in SUBSET LaiOutcomes
    BY <1>2, <2>1
  <2> QED
    BY <1>2, <2>1, <2>2 DEF LaiTell
<1>5. LaiTypeOK'
  BY <1>1, <1>3, <1>4 DEF LaiTypeOK
<1>6. laiAnswers[a] = {} /\ laiSeen[a] # {} /\ laiItems[a] # "pending"
  BY <1>1 DEF LaiActingOK
<1>7. LaiNamed(t)' /\ ~LaiActs(t)' /\ LaiActingOK(t)'
  BY <1>3, LaiIdleThread
<1>8. LaiRecords'
  BY <1>1, <1>2, <1>4, <1>6 DEF LaiRecords
<1>9. LaiAnswerIsTruthful'
  <2>1. "failed" \in laiAnswers'[a] => laiDispatched[a] = <<>>
    <3>1. outcome = "failed" => a \notin laiClaimed
      BY <1>1 DEF LaiActingOK
    <3> QED
      BY <1>1, <1>2, <1>4, <1>6, <3>1 DEF LaiRecords
  <2>2. "succeeded" \in laiAnswers'[a] => LaiDesired(laiIssued[a].operation) \in laiSeen[a]
    <3>1. laiLoaded \in laiSeen[a]
      BY <1>1, <1>2, <1>6 DEF LaiRecords
    <3> QED
      BY <1>2, <1>4, <1>6, <3>1
  <2> QED
    BY <1>4, <2>1, <2>2 DEF LaiIInv, LaiAnswerIsTruthful
<1>10. \A b \in LaiApprovals \ {a} :
           /\ laiItems'[b] \in {laiItems[b], "absent"}
           /\ b \in laiClaimed' <=> b \in laiClaimed
           /\ laiDispatched'[b] = laiDispatched[b]
           /\ laiAnswers'[b] = laiAnswers[b]
           /\ laiSeen[b] \subseteq laiSeen'[b]
  BY <1>4
<1> HIDE DEF a
<1> QED
  BY <1>1, <1>2, <1>3, <1>5, <1>7, <1>8, <1>9, <1>10, LaiOwnOK DEF a

LEMMA LaiRevalidateOK ==
    ASSUME LaiIInv, NEW t \in LaiThreads, LaiRevalidate(t)
    PROVE  LaiIInv'
<1> DEFINE a == laiThreads[t].approval
<1>1. /\ LaiTypeOK /\ LaiRecords /\ LaiActingOK(t) /\ LaiActs(t)
      /\ laiThreads[t].pc = "revalidate" /\ laiThreads[t].now \in Nat
      /\ laiThreads[t].pc \in LaiActing \cup {"decide"}
  BY LaiThreadType DEF LaiIInv, LaiActs, LaiActing, LaiRevalidate, LaiRevalidateIf
<1>2. /\ a \in LaiApprovals /\ laiIssued[a] # LaiUnissued
      /\ laiThreads[t].operation = laiIssued[a].operation
  BY <1>1, LaiMine
<1>3. UNCHANGED <<laiClock, laiIssued, laiItems, laiClaimed, laiLoaded, laiSeen,
                  laiDispatched, laiCalls>>
  BY DEF LaiRevalidate, LaiRevalidateIf
<1>4. CASE LaiTell(a, "failed") /\ LaiReply(t)
  <2>1. "failed" \in LaiOutcomes /\ "failed" # "succeeded"
    BY DEF LaiOutcomes
  <2> QED
    BY <1>1, <1>3, <1>4, <2>1, LaiTellOK
<1>5. CASE /\ laiLoaded = LaiExpected(laiThreads[t].operation)
           /\ LaiStep(t, "claim", laiThreads[t].now)
           /\ UNCHANGED laiAnswers
  <2>1. /\ laiThreads' \in [LaiThreads -> LaiThread]
        /\ laiThreads'[t].pc = "claim"
        /\ laiThreads'[t].approval = a
        /\ laiThreads'[t].operation = laiThreads[t].operation
        /\ \A s \in LaiThreads \ {t} : laiThreads'[s] = laiThreads[s]
    BY <1>1, <1>5, LaiStepType
  <2>2. LaiTypeOK'
    BY <1>1, <1>3, <1>5, <2>1 DEF LaiTypeOK
  <2>3. LaiNamed(t)'
    BY <1>2, <1>3, <2>1, LaiBounds DEF LaiNamed
  <2>4. LaiActingOK(t)'
    <3>1. /\ laiAnswers[a] = {} /\ laiItems[a] # "pending" /\ laiSeen[a] # {}
          /\ a \notin laiClaimed
      BY <1>1 DEF LaiActingOK
    <3>2. LaiExpected(laiThreads[t].operation) \in laiSeen[a]
      BY <1>1, <1>2, <1>5, <3>1 DEF LaiRecords
    <3> QED
      BY <1>3, <1>5, <2>1, <3>1, <3>2 DEF LaiActingOK
  <2>5. LaiRecords'
    BY <1>1, <1>3, <1>5 DEF LaiRecords
  <2>6. LaiAnswerIsTruthful'
    BY <1>3, <1>5 DEF LaiIInv, LaiAnswerIsTruthful
  <2> HIDE DEF a
  <2> QED
    BY <1>1, <1>2, <1>3, <1>5, <2>1, <2>2, <2>3, <2>4, <2>5, <2>6, LaiOwnOK DEF a
<1> QED
  BY <1>4, <1>5 DEF LaiRevalidate, LaiRevalidateIf

LEMMA LaiClaimOK ==
    ASSUME LaiIInv, NEW t \in LaiThreads, LaiClaim(t)
    PROVE  LaiIInv'
<1> DEFINE a == laiThreads[t].approval
<1>1. /\ LaiTypeOK /\ LaiRecords /\ LaiActingOK(t) /\ LaiActs(t)
      /\ laiThreads[t].pc = "claim" /\ LaiReads(t) \subseteq Nat
      /\ laiThreads[t].pc \in LaiActing \cup {"decide"}
  BY LaiThreadType DEF LaiIInv, LaiActs, LaiActing, LaiClaim
<1>2. /\ a \in LaiApprovals /\ laiIssued[a] # LaiUnissued
      /\ laiThreads[t].operation = laiIssued[a].operation
      /\ laiItems \in [LaiApprovals -> {"absent", "pending", "approved", "denied", "claimed"}]
  BY <1>1, LaiMine DEF LaiTypeOK
<1>3. UNCHANGED <<laiClock, laiIssued, laiLoaded, laiSeen, laiDispatched,
                  laiAnswers, laiCalls>>
  BY DEF LaiClaim
<1>4. PICK now \in LaiReads(t) :
        \/ /\ laiItems[a] = "approved"
           /\ laiItems' = [laiItems EXCEPT ![a] = "claimed"]
           /\ laiClaimed' = laiClaimed \cup {a}
           /\ LaiStep(t, "dispatch", now)
        \/ /\ laiItems' = [laiItems EXCEPT ![a] =
                 IF LaiAlive(a, now) THEN @ ELSE "absent"]
           /\ LaiReply(t)
           /\ UNCHANGED laiClaimed
  BY DEF LaiClaim
<1>5. CASE /\ laiItems[a] = "approved"
           /\ laiItems' = [laiItems EXCEPT ![a] = "claimed"]
           /\ laiClaimed' = laiClaimed \cup {a}
           /\ LaiStep(t, "dispatch", now)
  <2>1. now \in Nat
    BY <1>1
  <2>2. /\ laiThreads' \in [LaiThreads -> LaiThread]
        /\ laiThreads'[t].pc = "dispatch"
        /\ laiThreads'[t].approval = a
        /\ laiThreads'[t].operation = laiThreads[t].operation
        /\ \A s \in LaiThreads \ {t} : laiThreads'[s] = laiThreads[s]
    BY <1>1, <1>5, <2>1, LaiStepType
  <2>3. /\ laiItems' \in [LaiApprovals -> {"absent", "pending", "approved", "denied", "claimed"}]
        /\ laiItems'[a] = "claimed"
        /\ \A b \in LaiApprovals \ {a} : laiItems'[b] = laiItems[b]
    BY <1>2, <1>5
  <2>4. LaiTypeOK'
    BY <1>1, <1>2, <1>3, <1>5, <2>2, <2>3 DEF LaiTypeOK
  <2>5. LaiNamed(t)'
    BY <1>2, <1>3, <2>2, LaiBounds DEF LaiNamed
  <2>6. laiDispatched[a] = <<>>
    BY <1>1, <1>2, <1>5 DEF LaiRecords
  <2>7. LaiActingOK(t)'
    <3>1. /\ laiAnswers[a] = {} /\ laiSeen[a] # {}
          /\ LaiExpected(laiThreads[t].operation) \in laiSeen[a]
      BY <1>1 DEF LaiActingOK
    <3> QED
      BY <1>3, <1>5, <2>2, <2>3, <2>6, <3>1 DEF LaiActingOK
  <2>8. LaiRecords'
    BY <1>1, <1>2, <1>3, <1>5, <2>3 DEF LaiRecords
  <2>9. LaiAnswerIsTruthful'
    BY <1>3 DEF LaiIInv, LaiAnswerIsTruthful
  <2>10. \A b \in LaiApprovals \ {a} : b \in laiClaimed' <=> b \in laiClaimed
    BY <1>5
  <2> HIDE DEF a
  <2> QED
    BY <1>1, <1>2, <1>3, <2>2, <2>3, <2>4, <2>5, <2>7, <2>8, <2>9, <2>10, LaiOwnOK DEF a
<1>6. CASE /\ laiItems' = [laiItems EXCEPT ![a] =
                 IF LaiAlive(a, now) THEN @ ELSE "absent"]
           /\ LaiReply(t)
           /\ UNCHANGED laiClaimed
  <2>1. /\ laiThreads' \in [LaiThreads -> LaiThread]
        /\ laiThreads'[t] = LaiIdle
        /\ \A s \in LaiThreads \ {t} : laiThreads'[s] = laiThreads[s]
    BY <1>1, <1>6, LaiReplyType
  <2>2. /\ laiItems' \in [LaiApprovals -> {"absent", "pending", "approved", "denied", "claimed"}]
        /\ \A b \in LaiApprovals : laiItems'[b] \in {laiItems[b], "absent"}
    BY <1>2, <1>6
  <2>3. LaiTypeOK'
    BY <1>1, <1>3, <1>6, <2>1, <2>2 DEF LaiTypeOK
  <2>4. LaiNamed(t)' /\ ~LaiActs(t)'
    BY <2>1, LaiIdleThread
  <2> QED
    BY <1>3, <1>6, <2>1, <2>2, <2>3, <2>4, LaiQuiet
<1> QED
  BY <1>4, <1>5, <1>6

\* The one dispatch; whatever it does is noted for every approval.
LEMMA LaiDispatchOK ==
    ASSUME LaiIInv, NEW t \in LaiThreads, LaiDispatch(t)
    PROVE  LaiIInv'
<1> DEFINE a == laiThreads[t].approval
           o == laiThreads[t].operation
<1>1. /\ LaiTypeOK /\ LaiRecords /\ LaiActingOK(t) /\ LaiActs(t)
      /\ laiThreads[t].pc = "dispatch" /\ laiThreads[t].now \in Nat
      /\ laiThreads[t].pc \in LaiActing \cup {"decide"}
  BY LaiThreadType DEF LaiIInv, LaiActs, LaiActing, LaiDispatch
<1>2. /\ a \in LaiApprovals /\ laiIssued[a] # LaiUnissued
      /\ o = laiIssued[a].operation /\ o \in LaiOperations
  BY <1>1, LaiMine
<1>3. /\ laiAnswers[a] = {} /\ laiItems[a] # "pending" /\ a \in laiClaimed
  BY <1>1 DEF LaiActingOK
<1>4. /\ UNCHANGED <<laiClock, laiIssued, laiItems, laiClaimed, laiCalls>>
      /\ laiDispatched' = [laiDispatched EXCEPT ![a] = Append(@, o)]
  BY DEF LaiDispatch
<1>5. /\ laiDispatched' \in [LaiApprovals -> Seq(LaiOperations)]
      /\ \A b \in LaiApprovals \ {a} : laiDispatched'[b] = laiDispatched[b]
  <2>1. laiDispatched \in [LaiApprovals -> Seq(LaiOperations)]
    BY <1>1 DEF LaiTypeOK
  <2>2. Append(laiDispatched[a], o) \in Seq(LaiOperations)
    BY <1>2, <2>1
  <2> QED
    BY <1>2, <1>4, <2>1, <2>2
<1>6. PICK after \in BOOLEAN :
        /\ laiLoaded' = after
        /\ laiSeen' = [b \in LaiApprovals |->
              IF b = a THEN {after}
              ELSE IF laiSeen[b] = {} THEN {} ELSE laiSeen[b] \cup {after}]
  <2>1. laiLoaded \in BOOLEAN /\ LaiDesired(o) \in BOOLEAN
    BY <1>1 DEF LaiTypeOK, LaiDesired
  <2>2. PICK effect \in BOOLEAN :
          LET after == IF effect THEN LaiDesired(o) ELSE laiLoaded IN
          /\ laiLoaded' = after
          /\ laiSeen' = [b \in LaiApprovals |->
                IF b = a THEN {after}
                ELSE IF laiSeen[b] = {} THEN {} ELSE laiSeen[b] \cup {after}]
    BY DEF LaiDispatch
  <2>3. CASE effect
    BY <2>1, <2>2, <2>3
  <2>4. CASE ~effect
    BY <2>1, <2>2, <2>4
  <2> QED
    BY <2>3, <2>4
<1>7. /\ laiLoaded' \in BOOLEAN
      /\ laiSeen' \in [LaiApprovals -> SUBSET BOOLEAN]
      /\ laiSeen'[a] = {laiLoaded'}
      /\ \A b \in LaiApprovals \ {a} :
            /\ laiSeen[b] \subseteq laiSeen'[b]
            /\ laiSeen'[b] # {} => laiLoaded' \in laiSeen'[b]
  <2>1. laiSeen \in [LaiApprovals -> SUBSET BOOLEAN]
    BY <1>1 DEF LaiTypeOK
  <2>2. \A b \in LaiApprovals : laiSeen[b] \cup {after} \in SUBSET BOOLEAN
    BY <1>6, <2>1
  <2> QED
    BY <1>2, <1>6, <2>1, <2>2
<1>8. /\ laiAnswers' \in [LaiApprovals -> SUBSET LaiOutcomes]
      /\ laiAnswers'[a] \subseteq {"indeterminate"}
      /\ \A b \in LaiApprovals \ {a} : laiAnswers'[b] = laiAnswers[b]
  <2>1. laiAnswers \in [LaiApprovals -> SUBSET LaiOutcomes]
    BY <1>1 DEF LaiTypeOK
  <2>2. laiAnswers[a] \cup {"indeterminate"} \in SUBSET LaiOutcomes
    BY <1>2, <2>1 DEF LaiOutcomes
  <2>3. \/ laiAnswers' = laiAnswers
        \/ laiAnswers' = [laiAnswers EXCEPT ![a] = @ \cup {"indeterminate"}]
    BY DEF LaiDispatch, LaiTell
  <2> QED
    BY <1>2, <1>3, <2>1, <2>2, <2>3
<1>9. /\ laiThreads' \in [LaiThreads -> LaiThread]
      /\ \A s \in LaiThreads \ {t} : laiThreads'[s] = laiThreads[s]
      /\ \/ laiThreads'[t] = LaiIdle
         \/ /\ laiThreads'[t].pc = "verify" /\ laiThreads'[t].approval = a
            /\ laiThreads'[t].operation = o /\ laiAnswers' = laiAnswers
  <2>1. CASE LaiReply(t)
    BY <1>1, <2>1, LaiReplyType
  <2>2. CASE LaiStep(t, "verify", laiThreads[t].now) /\ UNCHANGED laiAnswers
    BY <1>1, <2>2, LaiStepType
  <2> QED
    BY <2>1, <2>2 DEF LaiDispatch
<1>10. LaiTypeOK'
  BY <1>1, <1>4, <1>5, <1>7, <1>8, <1>9 DEF LaiTypeOK
<1>11. LaiNamed(t)' /\ LaiActingOK(t)' /\ (LaiActs(t)' => laiThreads'[t].approval = a)
  <2>1. CASE laiThreads'[t] = LaiIdle
    BY <2>1, LaiIdleThread
  <2>2. CASE /\ laiThreads'[t].pc = "verify" /\ laiThreads'[t].approval = a
             /\ laiThreads'[t].operation = o /\ laiAnswers' = laiAnswers
    <3>1. LaiNamed(t)'
      BY <1>2, <1>4, <2>2, LaiBounds DEF LaiNamed
    <3>2. LaiActingOK(t)'
      BY <1>3, <1>4, <1>7, <2>2 DEF LaiActingOK
    <3> QED
      BY <2>2, <3>1, <3>2
  <2> QED
    BY <1>9, <2>1, <2>2
<1>12. LaiRecords'
  BY <1>1, <1>2, <1>3, <1>4, <1>5, <1>7, <1>8 DEF LaiRecords
<1>13. LaiAnswerIsTruthful'
  BY <1>4, <1>5, <1>7, <1>8 DEF LaiIInv, LaiAnswerIsTruthful
<1>14. \A b \in LaiApprovals \ {a} :
           /\ laiItems'[b] \in {laiItems[b], "absent"}
           /\ b \in laiClaimed' <=> b \in laiClaimed
           /\ laiDispatched'[b] = laiDispatched[b]
           /\ laiAnswers'[b] = laiAnswers[b]
           /\ laiSeen[b] \subseteq laiSeen'[b]
  BY <1>4, <1>5, <1>7, <1>8
<1> HIDE DEF a
<1> QED
  BY <1>1, <1>2, <1>4, <1>9, <1>10, <1>11, <1>12, <1>13, <1>14, LaiOwnOK DEF a

LEMMA LaiVerifyOK ==
    ASSUME LaiIInv, NEW t \in LaiThreads, LaiVerify(t)
    PROVE  LaiIInv'
<1>1. LaiActs(t) /\ {"succeeded", "indeterminate"} \subseteq LaiOutcomes
  BY DEF LaiVerify, LaiVerifyAs, LaiActs, LaiActing, LaiOutcomes
<1>2. /\ LaiReply(t)
      /\ UNCHANGED <<laiClock, laiIssued, laiItems, laiClaimed, laiLoaded, laiSeen,
                     laiDispatched, laiCalls>>
      /\ \E outcome \in {"succeeded", "indeterminate"} :
            /\ LaiTell(laiThreads[t].approval, outcome)
            /\ outcome = "succeeded" => laiLoaded = LaiDesired(laiThreads[t].operation)
  BY DEF LaiVerify, LaiVerifyAs
<1>3. PICK outcome \in {"succeeded", "indeterminate"} :
        /\ LaiTell(laiThreads[t].approval, outcome)
        /\ outcome = "succeeded" => laiLoaded = LaiDesired(laiThreads[t].operation)
  BY <1>2
<1>4. outcome # "failed" /\ outcome \in LaiOutcomes
  BY <1>1
<1> QED
  BY <1>1, <1>2, <1>3, <1>4, LaiTellOK

LEMMA LaiOutsideOK ==
    ASSUME LaiIInv, LaiDrift \/ LaiTick \/ UNCHANGED laiVars
    PROVE  LaiIInv'
<1>1. LaiTypeOK /\ LaiRecords
  BY DEF LaiIInv
<1>2. UNCHANGED <<laiIssued, laiItems, laiClaimed, laiThreads, laiDispatched,
                  laiAnswers, laiCalls>>
  BY DEF LaiDrift, LaiTick, laiVars
<1>3. laiClock' \in 0..LaiMaxTime
  <2>1. laiClock' = laiClock \/ (laiClock < LaiMaxTime /\ laiClock' = laiClock + 1)
    BY DEF LaiDrift, LaiTick, laiVars
  <2>2. laiClock \in 0..LaiMaxTime
    BY <1>1 DEF LaiTypeOK
  <2> QED
    BY <2>1, <2>2, LaiBounds
<1>4. /\ laiLoaded' \in BOOLEAN
      /\ laiSeen' \in [LaiApprovals -> SUBSET BOOLEAN]
      /\ \A b \in LaiApprovals :
            /\ laiSeen[b] \subseteq laiSeen'[b]
            /\ laiSeen'[b] # {} => laiLoaded' \in laiSeen'[b]
  <2>1. laiSeen \in [LaiApprovals -> SUBSET BOOLEAN] /\ laiLoaded \in BOOLEAN
    BY <1>1 DEF LaiTypeOK
  <2>2. CASE LaiDrift
    <3>1. laiLoaded' = ~laiLoaded
          /\ laiSeen' = [a \in LaiApprovals |->
                IF laiSeen[a] = {} THEN {} ELSE laiSeen[a] \cup {~laiLoaded}]
      BY <2>2 DEF LaiDrift, LaiBecomes
    <3>2. \A b \in LaiApprovals : laiSeen[b] \cup {~laiLoaded} \in SUBSET BOOLEAN
      BY <2>1
    <3> QED
      BY <2>1, <3>1, <3>2
  <2>3. CASE UNCHANGED <<laiLoaded, laiSeen>>
    BY <1>1, <2>1, <2>3 DEF LaiRecords
  <2> QED
    BY <2>2, <2>3 DEF LaiTick, laiVars
<1>5. LaiTypeOK'
  BY <1>1, <1>2, <1>3, <1>4 DEF LaiTypeOK
<1>6. ASSUME NEW t \in LaiThreads PROVE LaiNamed(t)' /\ LaiActingOK(t)'
  <2>1. LaiNamed(t) /\ LaiActingOK(t)
    BY DEF LaiIInv
  <2>2. LaiNamed(t)'
    BY <1>2, <2>1 DEF LaiNamed
  <2>3. LaiActs(t) => laiThreads[t].approval \in LaiApprovals
    BY LaiMine DEF LaiActs
  <2>4. LaiActingOK(t)'
    BY <1>2, <1>4, <2>1, <2>3 DEF LaiActingOK, LaiActs
  <2> QED
    BY <2>2, <2>4
<1>7. LaiExclusive'
  BY <1>2 DEF LaiIInv, LaiExclusive, LaiActs
<1>8. LaiRecords'
  BY <1>1, <1>2, <1>4 DEF LaiRecords
<1>9. LaiAnswerIsTruthful'
  BY <1>2, <1>4 DEF LaiIInv, LaiAnswerIsTruthful
<1> QED
  BY <1>5, <1>6, <1>7, <1>8, <1>9 DEF LaiIInv

LEMMA LaiInitOK == LaiInit => LaiIInv
<1> SUFFICES ASSUME LaiInit PROVE LaiIInv
  OBVIOUS
<1>1. \A t \in LaiThreads : laiThreads[t] = LaiIdle
  BY DEF LaiInit
<1>2. LaiTypeOK
  BY LaiBounds, LaiIdleType DEF LaiInit, LaiTypeOK
<1>3. \A t \in LaiThreads : LaiNamed(t) /\ ~LaiActs(t) /\ LaiActingOK(t)
  BY <1>1 DEF LaiIdle, LaiNamed, LaiActs, LaiActing, LaiActingOK
<1>4. LaiExclusive /\ LaiRecords /\ LaiAnswerIsTruthful
  BY <1>3 DEF LaiExclusive, LaiRecords, LaiAnswerIsTruthful, LaiInit
<1> QED
  BY <1>2, <1>3, <1>4 DEF LaiIInv

LEMMA LaiNextOK == LaiIInv /\ [LaiNext]_laiVars => LaiIInv'
<1> SUFFICES ASSUME LaiIInv, [LaiNext]_laiVars
             PROVE  LaiIInv'
  OBVIOUS
<1> QED
  BY LaiCallOK, LaiLookOK, LaiCreateOK, LaiDecideOK, LaiRevalidateOK, LaiClaimOK,
     LaiDispatchOK, LaiVerifyOK, LaiOutsideOK
     DEF LaiNext

LEMMA LaiInvariant == LaiSpec => []LaiIInv
BY LaiInitOK, LaiNextOK, PTL DEF LaiSpec

\* LaiTypeOK: whatever interleaves, the store and the threads keep their shape.
THEOREM LaiTypeCorrect == LaiSpec => []LaiTypeOK
<1>1. LaiIInv => LaiTypeOK
  BY DEF LaiIInv
<1> QED
  BY <1>1, LaiInvariant, PTL

\* LaiAnswerIsTruthful: "succeeded" is told only of a model that was in the
\* desired state after the dispatch, "failed" only when nothing was dispatched,
\* for any number of approvals and threads and however the runtime drifts.
THEOREM LaiTruthfulAnswers == LaiSpec => []LaiAnswerIsTruthful
<1>1. LaiIInv => LaiAnswerIsTruthful
  BY DEF LaiIInv
<1> QED
  BY <1>1, LaiInvariant, PTL

\* LaiApprovedStateWasSeen: nothing is dispatched unless the model was in the
\* state of the preview at some moment after the owner approved it.
THEOREM LaiSeenBeforeDispatch == LaiSpec => LaiApprovedStateWasSeen
<1>1. LaiIInv /\ [LaiNext]_laiVars =>
        [\A a \in LaiApprovals :
            laiDispatched'[a] # laiDispatched[a]
                => LaiExpected(laiIssued[a].operation) \in laiSeen[a]]_laiVars
  <2> SUFFICES ASSUME LaiIInv, [LaiNext]_laiVars, NEW a \in LaiApprovals,
                      laiDispatched'[a] # laiDispatched[a]
               PROVE  LaiExpected(laiIssued[a].operation) \in laiSeen[a]
    OBVIOUS
  <2>1. PICK t \in LaiThreads : LaiDispatch(t)
    BY DEF LaiNext, laiVars, LaiCall, LaiLook, LaiCreate, LaiDecide, LaiRevalidate,
       LaiRevalidateIf, LaiClaim, LaiVerify, LaiVerifyAs, LaiDrift, LaiTick
  <2>2. a = laiThreads[t].approval
    <3>1. laiDispatched \in [LaiApprovals -> Seq(LaiOperations)]
      BY DEF LaiIInv, LaiTypeOK
    <3> QED
      BY <2>1, <3>1 DEF LaiDispatch
  <2>3. LaiActingOK(t) /\ LaiNamed(t) /\ laiThreads[t].pc = "dispatch"
    BY <2>1 DEF LaiIInv, LaiDispatch
  <2> QED
    BY <2>2, <2>3 DEF LaiActingOK, LaiNamed, LaiActs, LaiActing
<1> QED
  BY <1>1, LaiInvariant, PTL DEF LaiSpec, LaiApprovedStateWasSeen

-----------------------------------------------------------------------------
(* LocalAIControl implements OneShotAuthority.                              *)

LEMMA LaiLapseMap ==
    ASSUME LaiIInv, UNCHANGED <<laiIssued, laiClaimed, laiDispatched>>,
           \A a \in LaiApprovals : laiItems'[a] \in {laiItems[a], "absent"}
    PROVE  LaiAuthority!Next
<1>1. \A a \in LaiApprovals :
        \/ LaiStanding'[a] = LaiStanding[a]
        \/ LaiStanding'[a] = "gone" /\ LaiStanding[a] # "unasked"
  <2> TAKE a \in LaiApprovals
  <2>1. laiItems[a] \in {"absent", "pending", "approved", "denied", "claimed"}
    BY DEF LaiIInv, LaiTypeOK
  <2> QED
    BY <2>1 DEF LaiStanding
<1> DEFINE S == {a \in LaiApprovals : LaiStanding'[a] # LaiStanding[a]}
<1>2. LaiStanding' = LaiAuthority!Lapsed(S)
  BY <1>1 DEF LaiAuthority!Lapsed, LaiStanding
<1>3. LaiAuthority!Lapse(S)
  BY <1>2 DEF LaiAuthority!Lapse
<1> QED
  BY <1>3 DEF LaiAuthority!Next

LEMMA LaiMoveMap ==
    ASSUME NEW b \in LaiApprovals, NEW v,
           LaiStanding'[b] = v,
           \A a \in LaiApprovals \ {b} : LaiStanding'[a] = LaiStanding[a]
    PROVE  LaiStanding' = [LaiStanding EXCEPT ![b] = v]
<1>1. /\ LaiStanding = [a \in LaiApprovals |-> LaiStanding[a]]
      /\ LaiStanding' = [a \in LaiApprovals |-> LaiStanding'[a]]
  BY DEF LaiStanding
<1> HIDE DEF LaiStanding
<1> QED
  BY <1>1

LEMMA LaiQuietMap ==
    ASSUME UNCHANGED <<laiIssued, laiItems, laiClaimed, laiDispatched>>
    PROVE  UNCHANGED LaiAuthority!vars
BY DEF LaiAuthority!vars, LaiStanding

LEMMA LaiCreateMap ==
    ASSUME LaiIInv, NEW t \in LaiThreads, LaiCreate(t)
    PROVE  LaiAuthority!Next
<1> DEFINE o == laiThreads[t].operation
<1>1. LaiTypeOK /\ LaiRecords /\ laiThreads[t] \in LaiThread
  BY LaiThreadType DEF LaiIInv
<1>2. UNCHANGED <<laiClaimed, laiDispatched>>
  BY DEF LaiCreate
<1>3. PICK now \in LaiReads(t) :
        LET kept == [a \in LaiApprovals |->
                        IF LaiAlive(a, now) THEN laiItems[a] ELSE "absent"]
        IN  \/ laiItems' = kept /\ UNCHANGED laiIssued
            \/ \E a \in LaiApprovals :
                  /\ laiIssued[a] = LaiUnissued
                  /\ laiItems' = [kept EXCEPT ![a] = "pending"]
                  /\ laiIssued' = [laiIssued EXCEPT ![a] =
                        [operation |-> o, expires |-> now + LaiTTL]]
  BY DEF LaiCreate
<1> DEFINE kept == [a \in LaiApprovals |->
                       IF LaiAlive(a, now) THEN laiItems[a] ELSE "absent"]
<1>4. /\ \A a \in LaiApprovals : kept[a] \in {laiItems[a], "absent"}
      /\ kept = [a \in LaiApprovals |-> kept[a]]
  OBVIOUS
<1>5. CASE laiItems' = kept /\ UNCHANGED laiIssued
  BY <1>2, <1>4, <1>5, LaiLapseMap
<1>6. ASSUME NEW b \in LaiApprovals, laiIssued[b] = LaiUnissued,
             laiItems' = [kept EXCEPT ![b] = "pending"],
             laiIssued' = [laiIssued EXCEPT ![b] = [operation |-> o, expires |-> now + LaiTTL]]
      PROVE  LaiAuthority!Next
  <2> DEFINE terms == [a \in LaiApprovals |-> laiIssued[a].operation]
             r == [operation |-> o, expires |-> now + LaiTTL]
  <2>1. o \in LaiOperations
    BY <1>1 DEF LaiThread
  <2>2. r.operation = o /\ r # LaiUnissued
    BY <2>1 DEF LaiUnissued, LaiOperations
  <2> HIDE DEF r
  <2>3. /\ laiIssued'[b] = r
        /\ \A a \in LaiApprovals \ {b} : laiIssued'[a] = laiIssued[a]
    BY <1>1, <1>6 DEF LaiTypeOK, r
  <2> HIDE DEF kept
  <2>4. /\ laiItems'[b] = "pending"
        /\ \A a \in LaiApprovals \ {b} : laiItems'[a] \in {laiItems[a], "absent"}
    BY <1>4, <1>6
  <2>5. LaiStanding[b] = "unasked" /\ LaiStanding'[b] = "pending"
    <3>1. b \notin laiClaimed'
      BY <1>1, <1>2, <1>6 DEF LaiRecords
    <3> QED
      BY <1>6, <2>2, <2>3, <2>4, <3>1 DEF LaiStanding
  <2>6. \A a \in LaiApprovals \ {b} :
           \/ LaiStanding'[a] = LaiStanding[a]
           \/ LaiStanding'[a] = "gone" /\ LaiStanding[a] # "unasked"
    <3> TAKE a \in LaiApprovals \ {b}
    <3>1. laiItems[a] \in {"absent", "pending", "approved", "denied", "claimed"}
      BY <1>1 DEF LaiTypeOK
    <3> QED
      BY <1>2, <2>3, <2>4, <3>1 DEF LaiStanding
  <2>7. PICK S \in SUBSET LaiApprovals :
           S = {a \in LaiApprovals \ {b} : LaiStanding'[a] # LaiStanding[a]}
    OBVIOUS
  <2>8. LaiStanding' = [LaiAuthority!Lapsed(S) EXCEPT ![b] = "pending"]
    <3>1. \A a \in LaiApprovals :
            LaiStanding'[a] = IF a = b THEN "pending" ELSE LaiAuthority!Lapsed(S)[a]
      BY <2>5, <2>6, <2>7 DEF LaiAuthority!Lapsed
    <3> QED
      BY <3>1 DEF LaiAuthority!Lapsed, LaiStanding
  <2>9. terms' = [terms EXCEPT ![b] = o]
    BY <2>2, <2>3
  <2>10. LaiAuthority!Ask(b, o, S)
    BY <1>2, <2>5, <2>8, <2>9 DEF LaiAuthority!Ask
  <2> HIDE DEF o
  <2> QED
    BY <2>1, <2>7, <2>10 DEF LaiAuthority!Next
<1> QED
  BY <1>3, <1>5, <1>6

LEMMA LaiDecideMap ==
    ASSUME LaiIInv, NEW t \in LaiThreads, LaiDecide(t)
    PROVE  LaiAuthority!Next
<1> DEFINE b == laiThreads[t].approval
<1>1. /\ LaiTypeOK /\ LaiRecords /\ b \in LaiApprovals /\ laiIssued[b] # LaiUnissued
      /\ UNCHANGED <<laiIssued, laiClaimed, laiDispatched>>
  BY LaiMine DEF LaiIInv, LaiDecide
<1>2. laiItems \in [LaiApprovals -> {"absent", "pending", "approved", "denied", "claimed"}]
  BY <1>1 DEF LaiTypeOK
<1>3. CASE \E now : laiItems' = [laiItems EXCEPT ![b] =
              IF @ = "pending" \/ ~LaiAlive(b, now) THEN "absent" ELSE @]
  BY <1>1, <1>2, <1>3, LaiLapseMap
<1>4. ASSUME laiItems[b] = "pending", NEW x \in {"approved", "denied"},
             laiItems' = [laiItems EXCEPT ![b] = x]
      PROVE  LaiAuthority!Next
  <2>1. /\ laiItems'[b] = x /\ b \notin laiClaimed
        /\ \A a \in LaiApprovals \ {b} : laiItems'[a] = laiItems[a]
    BY <1>1, <1>2, <1>4 DEF LaiRecords
  <2>2. LaiStanding[b] = "pending" /\ LaiStanding'[b] = x
    BY <1>1, <1>4, <2>1 DEF LaiStanding
  <2>3. \A a \in LaiApprovals \ {b} : LaiStanding'[a] = LaiStanding[a]
    BY <1>1, <2>1 DEF LaiStanding
  <2>4. LaiStanding' = [LaiStanding EXCEPT ![b] = x]
    BY <1>1, <2>2, <2>3, LaiMoveMap
  <2>5. LaiAuthority!Decide(b, x)
    BY <1>1, <2>2, <2>4 DEF LaiAuthority!Decide
  <2> QED
    BY <1>1, <2>5 DEF LaiAuthority!Next
<1> QED
  BY <1>3, <1>4 DEF LaiDecide

LEMMA LaiClaimMap ==
    ASSUME LaiIInv, NEW t \in LaiThreads, LaiClaim(t)
    PROVE  LaiAuthority!Next
<1> DEFINE b == laiThreads[t].approval
<1>1. /\ LaiTypeOK /\ LaiRecords /\ b \in LaiApprovals /\ laiIssued[b] # LaiUnissued
      /\ UNCHANGED <<laiIssued, laiDispatched>>
  BY LaiMine DEF LaiIInv, LaiClaim, LaiActing
<1>2. laiItems \in [LaiApprovals -> {"absent", "pending", "approved", "denied", "claimed"}]
  BY <1>1 DEF LaiTypeOK
<1>3. CASE /\ \E now : laiItems' = [laiItems EXCEPT ![b] =
                 IF LaiAlive(b, now) THEN @ ELSE "absent"]
           /\ UNCHANGED laiClaimed
  BY <1>1, <1>2, <1>3, LaiLapseMap
<1>4. CASE /\ laiItems[b] = "approved"
           /\ laiItems' = [laiItems EXCEPT ![b] = "claimed"]
           /\ laiClaimed' = laiClaimed \cup {b}
  <2>1. b \notin laiClaimed /\ \A a \in LaiApprovals \ {b} : laiItems'[a] = laiItems[a]
    BY <1>1, <1>2, <1>4 DEF LaiRecords
  <2>2. LaiStanding[b] = "approved" /\ LaiStanding'[b] = "spent"
    BY <1>1, <1>4, <2>1 DEF LaiStanding
  <2>3. \A a \in LaiApprovals \ {b} : LaiStanding'[a] = LaiStanding[a]
    BY <1>1, <1>4, <2>1 DEF LaiStanding
  <2>4. LaiStanding' = [LaiStanding EXCEPT ![b] = "spent"]
    BY <1>1, <2>2, <2>3, LaiMoveMap
  <2>5. LaiAuthority!Spend(b)
    BY <1>1, <2>2, <2>4 DEF LaiAuthority!Spend
  <2> QED
    BY <1>1, <2>5 DEF LaiAuthority!Next
<1> QED
  BY <1>3, <1>4 DEF LaiClaim

LEMMA LaiDispatchMap ==
    ASSUME LaiIInv, NEW t \in LaiThreads, LaiDispatch(t)
    PROVE  LaiAuthority!Next
<1> DEFINE b == laiThreads[t].approval
           o == laiThreads[t].operation
           terms == [a \in LaiApprovals |-> laiIssued[a].operation]
<1>1. /\ b \in LaiApprovals /\ laiIssued[b] # LaiUnissued /\ o = laiIssued[b].operation
      /\ LaiActingOK(t) /\ laiThreads[t].pc = "dispatch"
  BY LaiMine DEF LaiIInv, LaiDispatch, LaiActing
<1>2. b \in laiClaimed /\ laiDispatched[b] = <<>>
  BY <1>1 DEF LaiActingOK, LaiActs, LaiActing
<1>3. /\ UNCHANGED <<laiIssued, laiItems, laiClaimed>>
      /\ laiDispatched' = [laiDispatched EXCEPT ![b] = Append(@, o)]
  BY DEF LaiDispatch
<1>4. LaiStanding[b] = "spent" /\ terms[b] = o
  BY <1>1, <1>2 DEF LaiStanding
<1>5. LaiStanding' = LaiStanding /\ terms' = terms
  BY <1>3 DEF LaiStanding
<1>6. LaiAuthority!Act(b)
  BY <1>2, <1>3, <1>4, <1>5 DEF LaiAuthority!Act
<1> QED
  BY <1>1, <1>6 DEF LaiAuthority!Next

LEMMA LaiStepMap ==
    LaiIInv /\ [LaiNext]_laiVars => [LaiAuthority!Next]_(LaiAuthority!vars)
<1> SUFFICES ASSUME LaiIInv, [LaiNext]_laiVars
             PROVE  LaiAuthority!Next \/ UNCHANGED LaiAuthority!vars
  OBVIOUS
<1>1. CASE UNCHANGED laiVars \/ LaiTick \/ LaiDrift
  BY <1>1, LaiQuietMap DEF laiVars, LaiTick, LaiDrift
<1>2. ASSUME NEW t \in LaiThreads,
             LaiCall(t) \/ LaiLook(t) \/ LaiRevalidate(t) \/ LaiVerify(t)
      PROVE  UNCHANGED LaiAuthority!vars
  BY <1>2, LaiQuietMap DEF LaiCall, LaiLook, LaiRevalidate, LaiRevalidateIf,
     LaiVerify, LaiVerifyAs
<1> QED
  BY <1>1, <1>2, LaiCreateMap, LaiDecideMap, LaiClaimMap, LaiDispatchMap DEF LaiNext

LEMMA LaiInitMap == LaiInit => LaiAuthority!Init
BY DEF LaiInit, LaiAuthority!Init, LaiStanding, LaiUnissued

\* LaiImplementsAuthority: an operation on the model is asked for, decided,
\* claimed and dispatched once, as it was asked for, or lapses.
THEOREM LaiImplements == LaiSpec => LaiImplementsAuthority
<1> QED
  BY LaiInvariant, LaiInitMap, LaiStepMap, PTL
     DEF LaiSpec, LaiImplementsAuthority, LaiAuthority!Spec

-----------------------------------------------------------------------------
(* OAuthCredentials: the inductive invariant.                               *)

\* The steps taken under the token manager's lock.
OaLocked == {"load", "refresh", "rotate", "mark"}

\* While a thread refreshes, the grant it loaded is not rotated by another,
\* and a row deleted meanwhile has a thread that is still to clear the cache.
OaThreadOK(t) ==
    LET q == oaThreads[t] IN
    /\ q.pc \in OaLocked <=> oaLock = t
    /\ q.pc \in {"idle", "exchange"} => q.grant = OaNone
    /\ q.loaded.turn <= oaRotations
    /\ q.loaded.grant \in oaGranted \cup {OaNone}
    /\ q.grant \in oaGranted \cup {OaNone}
    /\ q.pc = "revoke" => q.loaded # OaNoRow
    /\ q.pc = "rotate" => q.loaded.turn < oaRotations
    /\ q.pc \in {"refresh", "rotate"} => q.loaded.status = "active"
    /\ q.pc \in {"refresh", "rotate"} /\ oaRow.grant = q.loaded.grant =>
          oaRow.turn = q.loaded.turn
    /\ q.pc \in {"refresh", "rotate", "mark"} /\ oaRow = OaNoRow =>
          \E s \in OaThreads : oaThreads[s].pc = "clear"

\* A grant that is on its way to the row is nowhere else.
OaPending(t) ==
    oaThreads[t].pc \in {"existing", "save"} /\ oaThreads[t].grant # OaNone

OaNewGrants ==
    \A t \in OaThreads :
        OaPending(t) =>
            /\ oaRow.grant # oaThreads[t].grant
            /\ \A s \in OaThreads :
                  /\ oaThreads[s].loaded.grant # oaThreads[t].grant
                  /\ OaPending(s) /\ oaThreads[s].grant = oaThreads[t].grant => s = t

OaRowOK == oaRow.turn <= oaRotations /\ oaRow.grant \in oaGranted \cup {OaNone}

OaIInv ==
    /\ OaTypeOK
    /\ \A t \in OaThreads : OaThreadOK(t)
    /\ OaNewGrants /\ OaRowOK

-----------------------------------------------------------------------------
(* OAuthCredentials: types.                                                 *)

LEMMA OaBounds ==
    OaNone \notin OaThreads /\ OaNone \notin OaGrants /\ OaMaxRotations \in Nat
BY OaConstantsAssumption

LEMMA OaRowIs ==
    ASSUME NEW r \in OaRows
    PROVE  /\ r.grant \in OaGrants \cup {OaNone} /\ r.turn \in Nat /\ r.turn <= OaMaxRotations
           /\ r.status \in {"none", "active", "reauthorization_required"}
           /\ r = OaNoRow <=> r.grant = OaNone
           /\ r.status = "active" => r # OaNoRow
BY OaBounds DEF OaRows, OaNoRow

LEMMA OaRowType ==
    ASSUME NEW g \in OaGrants, NEW n \in 0..OaMaxRotations,
           NEW status \in {"active", "reauthorization_required"}
    PROVE  [grant |-> g, turn |-> n, status |-> status] \in OaRows
BY DEF OaRows

LEMMA OaNoRowIs ==
    OaNoRow \in OaRows /\ OaNoRow.grant = OaNone /\ OaNoRow.turn = 0
BY DEF OaRows, OaNoRow

LEMMA OaThreadType ==
    ASSUME OaTypeOK, NEW t \in OaThreads
    PROVE  /\ oaThreads[t] \in OaThread /\ oaThreads[t].loaded \in OaRows
           /\ oaThreads[t].grant \in OaGrants \cup {OaNone}
           /\ oaRow \in OaRows /\ oaRotations \in Nat
BY OaBounds DEF OaTypeOK, OaThread

LEMMA OaIdleType ==
    OaIdle \in OaThread /\ OaIdle.pc = "idle" /\ OaIdle.loaded = OaNoRow
    /\ OaIdle.grant = OaNone
BY OaNoRowIs DEF OaIdle, OaThread

LEMMA OaGoesType ==
    ASSUME OaTypeOK, NEW t \in OaThreads, NEW p \in OaThread, OaGoes(t, p)
    PROVE  /\ oaThreads' \in [OaThreads -> OaThread]
           /\ oaThreads'[t] = p
           /\ \A s \in OaThreads \ {t} : oaThreads'[s] = oaThreads[s]
BY DEF OaTypeOK, OaGoes

\* A thread that goes on with what it has.
LEMMA OaStepIs ==
    ASSUME OaTypeOK, NEW t \in OaThreads,
           NEW pc \in {"exchange", "existing", "seed", "delete", "clear", "load",
                       "rotate", "mark"},
           OaStep(t, pc)
    PROVE  \E p \in OaThread :
              /\ OaGoes(t, p) /\ p.pc = pc
              /\ p.loaded = oaThreads[t].loaded /\ p.grant = oaThreads[t].grant
<1> DEFINE p == [oaThreads[t] EXCEPT !.pc = pc]
<1>1. /\ p \in OaThread /\ p.pc = pc
      /\ p.loaded = oaThreads[t].loaded /\ p.grant = oaThreads[t].grant
  BY OaThreadType DEF OaThread
<1>2. OaGoes(t, p)
  BY DEF OaStep
<1> HIDE DEF p
<1> QED
  BY <1>1, <1>2

-----------------------------------------------------------------------------
(* OAuthCredentials: what a step leaves alone.                              *)

LEMMA OaOtherOK ==
    ASSUME OaIInv, NEW s \in OaThreads, oaThreads'[s] = oaThreads[s],
           oaLock' = s <=> oaLock = s,
           oaRotations <= oaRotations', oaRotations' \in Nat, oaGranted \subseteq oaGranted',
           oaThreads[s].pc \in {"refresh", "rotate"} /\ oaRow'.grant = oaThreads[s].loaded.grant
               => oaRow'.turn = oaThreads[s].loaded.turn,
           oaThreads[s].pc \in {"refresh", "rotate", "mark"} /\ oaRow' = OaNoRow
               => \E u \in OaThreads : oaThreads'[u].pc = "clear"
    PROVE  OaThreadOK(s)'
<1>1. OaThreadOK(s) /\ oaThreads[s].loaded.turn \in Nat /\ oaRotations \in Nat
  BY OaThreadType, OaRowIs DEF OaIInv
<1> QED
  BY <1>1 DEF OaThreadOK

\* One thread at most is under the lock.
LEMMA OaAlone ==
    ASSUME OaIInv, NEW s \in OaThreads, oaThreads[s].pc \in OaLocked
    PROVE  /\ oaLock = s /\ oaLock # OaNone
           /\ \A u \in OaThreads \ {s} : oaThreads[u].pc \notin OaLocked
<1>1. \A u \in OaThreads : OaThreadOK(u)
  BY DEF OaIInv
<1>2. oaLock = s /\ \A u \in OaThreads \ {s} : oaThreads[u].pc \notin OaLocked
  BY <1>1 DEF OaThreadOK
<1> QED
  BY <1>2, OaBounds

\* A step that leaves the row, the grants and the rotations alone.
LEMMA OaQuiet ==
    ASSUME OaIInv, NEW t \in OaThreads, NEW p \in OaThread, OaGoes(t, p),
           UNCHANGED <<oaRow, oaGranted, oaRotations>>,
           oaFlows' \in [OaFlows -> {"unissued", "pending", "used", "lapsed"}],
           oaCache' \in OaGrants \cup {OaNone}, oaFresh' \in BOOLEAN,
           oaLock' \in OaThreads \cup {OaNone}, oaRevoked' \subseteq OaGrants,
           p.pc \in OaLocked <=> oaLock' = t,
           \A s \in OaThreads \ {t} : oaLock' = s <=> oaLock = s,
           p.pc \in {"idle", "exchange"} => p.grant = OaNone,
           p.pc # "rotate", p.pc = "revoke" => p.loaded # OaNoRow,
           p.loaded \in {oaThreads[t].loaded, oaRow, OaNoRow},
           p.grant \in {oaThreads[t].grant, oaThreads[t].loaded.grant, OaNone},
           p.pc \in {"existing", "save"} /\ p.grant # OaNone =>
               OaPending(t) /\ p.grant = oaThreads[t].grant,
           p.pc = "refresh" => p.loaded = oaRow /\ oaRow.status = "active",
           p.pc = "mark" => oaThreads[t].pc = "refresh" \/ oaRow # OaNoRow,
           oaThreads[t].pc = "clear" => oaLock = OaNone
    PROVE  OaIInv'
<1>1. OaTypeOK /\ OaNewGrants /\ OaRowOK /\ OaThreadOK(t)
  BY DEF OaIInv
<1>2. /\ oaThreads' \in [OaThreads -> OaThread]
      /\ oaThreads'[t] = p
      /\ \A s \in OaThreads \ {t} : oaThreads'[s] = oaThreads[s]
  BY <1>1, OaGoesType
<1>3. OaTypeOK'
  BY <1>1, <1>2 DEF OaTypeOK
<1>4. oaRotations \in Nat /\ oaRow \in OaRows /\ oaThreads[t].loaded \in OaRows
      /\ oaRow.turn \in Nat /\ oaThreads[t].loaded.turn \in Nat
  BY <1>1, OaThreadType, OaRowIs
<1>5. ASSUME NEW s \in OaThreads, oaThreads[s].pc \in {"refresh", "rotate", "mark"},
             oaRow = OaNoRow
      PROVE  \E u \in OaThreads : oaThreads'[u].pc = "clear"
  <2>1. PICK u \in OaThreads : oaThreads[u].pc = "clear"
    BY <1>5 DEF OaIInv, OaThreadOK
  <2>2. oaLock # OaNone
    BY <1>5, OaAlone DEF OaLocked
  <2> QED
    BY <1>2, <2>1, <2>2
<1>6. \A s \in OaThreads \ {t} : OaThreadOK(s)'
  <2> TAKE s \in OaThreads \ {t}
  <2>1. /\ oaThreads[s].pc \in {"refresh", "rotate"} /\ oaRow'.grant = oaThreads[s].loaded.grant
               => oaRow'.turn = oaThreads[s].loaded.turn
        /\ oaThreads[s].pc \in {"refresh", "rotate", "mark"} /\ oaRow' = OaNoRow
               => \E u \in OaThreads : oaThreads'[u].pc = "clear"
    BY <1>5 DEF OaIInv, OaThreadOK
  <2> QED
    BY <1>2, <1>4, <2>1, OaOtherOK
<1>7. OaThreadOK(t)'
  <2>1. /\ p.loaded.turn <= oaRotations /\ p.loaded.grant \in oaGranted \cup {OaNone}
        /\ p.grant \in oaGranted \cup {OaNone}
    BY <1>1, <1>4, OaNoRowIs DEF OaThreadOK, OaRowOK
  <2>2. p.pc \in {"refresh", "rotate", "mark"} /\ oaRow = OaNoRow =>
           \E u \in OaThreads : oaThreads'[u].pc = "clear"
    <3>1. oaRow.status = "active" => oaRow # OaNoRow
      BY <1>4, OaRowIs
    <3> QED
      BY <1>5, <3>1
  <2> QED
    BY <1>2, <2>1, <2>2 DEF OaThreadOK
<1>8. OaNewGrants'
  <2>1. \A s \in OaThreads :
          OaPending(s)' => OaPending(s) /\ oaThreads'[s].grant = oaThreads[s].grant
    BY <1>2 DEF OaPending
  <2>2. \A s, u \in OaThreads :
          OaPending(s) => oaThreads'[u].loaded.grant # oaThreads[s].grant
    <3> TAKE s, u \in OaThreads
    <3> SUFFICES ASSUME OaPending(s) PROVE oaThreads'[u].loaded.grant # oaThreads[s].grant
      OBVIOUS
    <3>1. /\ oaThreads[u].loaded.grant # oaThreads[s].grant
          /\ oaRow.grant # oaThreads[s].grant /\ OaNoRow.grant # oaThreads[s].grant
      BY <1>1, OaNoRowIs DEF OaNewGrants, OaPending
    <3> QED
      BY <1>2, <3>1
  <2> QED
    BY <1>1, <2>1, <2>2 DEF OaNewGrants
<1>9. OaRowOK'
  BY <1>1 DEF OaRowOK
<1> QED
  BY <1>3, <1>6, <1>7, <1>8, <1>9 DEF OaIInv

\* The four stores as the type invariant has them, for a step that changes few.
LEMMA OaTypes ==
    ASSUME OaTypeOK
    PROVE  /\ oaFlows \in [OaFlows -> {"unissued", "pending", "used", "lapsed"}]
           /\ oaCache \in OaGrants \cup {OaNone} /\ oaFresh \in BOOLEAN
           /\ oaLock \in OaThreads \cup {OaNone} /\ oaRevoked \subseteq OaGrants
           /\ oaGranted \subseteq OaGrants
BY DEF OaTypeOK

-----------------------------------------------------------------------------
(* OAuthCredentials: the actions.                                           *)

\* A thread outside the lock that answers.
LEMMA OaReplyOK ==
    ASSUME OaIInv, NEW t \in OaThreads, OaReply(t),
           UNCHANGED <<oaRow, oaGranted, oaRotations>>,
           oaFlows' \in [OaFlows -> {"unissued", "pending", "used", "lapsed"}],
           oaCache' \in OaGrants \cup {OaNone}, oaFresh' \in BOOLEAN,
           oaRevoked' \subseteq OaGrants,
           \/ oaThreads[t].pc \notin OaLocked /\ UNCHANGED oaLock
           \/ oaThreads[t].pc \in OaLocked /\ OaUnlocked,
           oaThreads[t].pc = "clear" => oaLock = OaNone
    PROVE  OaIInv'
<1> DEFINE p == OaIdle
<1>1. OaGoes(t, p) /\ p \in OaThread /\ p.pc = "idle" /\ p.loaded = OaNoRow /\ p.grant = OaNone
  BY OaIdleType DEF OaReply
<1>2. OaTypeOK /\ OaThreadOK(t)
  BY DEF OaIInv
<1>3. /\ oaLock' \in OaThreads \cup {OaNone} /\ oaLock' # t
      /\ \A s \in OaThreads \ {t} : oaLock' = s <=> oaLock = s
  <2>1. CASE oaThreads[t].pc \notin OaLocked /\ UNCHANGED oaLock
    BY <1>2, <2>1, OaTypes DEF OaThreadOK
  <2>2. CASE oaThreads[t].pc \in OaLocked /\ OaUnlocked
    BY <1>2, <2>2, OaBounds DEF OaThreadOK, OaUnlocked
  <2> QED
    BY <2>1, <2>2
<1>4. p.pc \notin OaLocked
  BY <1>1 DEF OaLocked
<1> HIDE DEF p
<1> QED
  BY <1>1, <1>3, <1>4, OaQuiet

LEMMA OaConnectOK ==
    ASSUME OaIInv, NEW t \in OaThreads, OaCallback(t) \/ OaExisting(t) \/ OaSeed(t)
    PROVE  OaIInv'
<1>1. OaTypeOK /\ OaThreadOK(t) /\ oaThreads[t] \in OaThread
  BY OaThreadType DEF OaIInv
<1>2. UNCHANGED <<oaRow, oaLock, oaGranted, oaRevoked, oaRotations>>
  BY DEF OaCallback, OaExisting, OaSeed
<1>3. oaThreads[t].pc \notin OaLocked /\ oaThreads[t].pc # "clear" /\ oaLock # t
  BY <1>1 DEF OaCallback, OaExisting, OaSeed, OaLocked, OaThreadOK
<1>4. CASE OaCallback(t)
  <2>1. /\ oaFlows' \in [OaFlows -> {"unissued", "pending", "used", "lapsed"}]
        /\ oaCache' = oaCache /\ oaFresh' = oaFresh
    BY <1>1, <1>4, OaTypes DEF OaCallback
  <2>2. CASE OaReply(t)
    BY <1>1, <1>2, <1>3, <2>1, <2>2, OaTypes, OaReplyOK
  <2>3. CASE OaStep(t, "exchange")
    <3>1. PICK p \in OaThread :
              /\ OaGoes(t, p) /\ p.pc = "exchange"
              /\ p.loaded = oaThreads[t].loaded /\ p.grant = oaThreads[t].grant
      BY <1>1, <2>3, OaStepIs
    <3>2. p.grant = OaNone /\ p.pc \notin OaLocked
      BY <1>1, <1>4, <3>1 DEF OaCallback, OaThreadOK, OaLocked
    <3> QED
      BY <1>1, <1>2, <1>3, <2>1, <3>1, <3>2, OaTypes, OaQuiet
  <2> QED
    BY <1>4, <2>2, <2>3 DEF OaCallback
<1>5. CASE OaExisting(t)
  <2>1. UNCHANGED <<oaFlows, oaCache, oaFresh>>
    BY <1>5 DEF OaExisting
  <2>2. CASE OaReply(t)
    BY <1>1, <1>2, <1>3, <2>1, <2>2, OaTypes, OaReplyOK
  <2>3. CASE OaGoes(t, [oaThreads[t] EXCEPT !.pc = "save", !.loaded = oaRow])
    <3> DEFINE p == [oaThreads[t] EXCEPT !.pc = "save", !.loaded = oaRow]
    <3>1. /\ p \in OaThread /\ p.pc = "save" /\ p.loaded = oaRow
          /\ p.grant = oaThreads[t].grant /\ OaGoes(t, p)
      BY <1>1, <2>3, OaThreadType DEF OaThread
    <3> HIDE DEF p
    <3>2. p.pc \notin OaLocked /\ (p.grant # OaNone => OaPending(t))
      BY <1>5, <3>1 DEF OaLocked, OaPending, OaExisting
    <3> QED
      BY <1>1, <1>2, <1>3, <2>1, <3>1, <3>2, OaTypes, OaQuiet
  <2> QED
    BY <1>5, <2>2, <2>3 DEF OaExisting
<1>6. CASE OaSeed(t)
  <2>1. /\ UNCHANGED oaFlows /\ oaCache' \in OaGrants \cup {OaNone} /\ oaFresh' \in BOOLEAN
        /\ OaReply(t)
    BY <1>1, <1>6, OaThreadType DEF OaSeed
  <2> QED
    BY <1>1, <1>2, <1>3, <2>1, OaTypes, OaReplyOK
<1> QED
  BY <1>4, <1>5, <1>6

LEMMA OaExchangeOK ==
    ASSUME OaIInv, NEW t \in OaThreads, OaExchange(t)
    PROVE  OaIInv'
<1>1. /\ OaTypeOK /\ OaThreadOK(t) /\ oaThreads[t] \in OaThread /\ oaThreads[t].pc = "exchange"
      /\ OaNewGrants /\ OaRowOK
  BY OaThreadType DEF OaIInv, OaExchange
<1>2. UNCHANGED <<oaFlows, oaRow, oaCache, oaFresh, oaLock, oaRevoked, oaRotations>>
  BY DEF OaExchange
<1>3. oaThreads[t].pc \notin OaLocked /\ oaLock # t /\ oaThreads[t].grant = OaNone
  BY <1>1 DEF OaLocked, OaThreadOK
<1>4. CASE OaReply(t) /\ UNCHANGED oaGranted
  BY <1>1, <1>2, <1>3, <1>4, OaTypes, OaReplyOK
<1>5. CASE OaStep(t, "existing") /\ UNCHANGED oaGranted
  <2>1. PICK p \in OaThread :
            /\ OaGoes(t, p) /\ p.pc = "existing"
            /\ p.loaded = oaThreads[t].loaded /\ p.grant = oaThreads[t].grant
    BY <1>1, <1>5, OaStepIs
  <2>2. p.pc \notin OaLocked
    BY <2>1 DEF OaLocked
  <2> QED
    BY <1>1, <1>2, <1>3, <1>5, <2>1, <2>2, OaTypes, OaQuiet
<1>6. ASSUME NEW g \in OaGrants \ oaGranted, oaGranted' = oaGranted \cup {g},
             OaGoes(t, [oaThreads[t] EXCEPT !.pc = "existing", !.grant = g])
      PROVE  OaIInv'
  <2> DEFINE p == [oaThreads[t] EXCEPT !.pc = "existing", !.grant = g]
  <2>1. p \in OaThread /\ p.pc = "existing" /\ p.loaded = oaThreads[t].loaded /\ p.grant = g
    BY <1>1 DEF OaThread
  <2> HIDE DEF p
  <2>2. /\ oaThreads' \in [OaThreads -> OaThread]
        /\ oaThreads'[t] = p
        /\ \A s \in OaThreads \ {t} : oaThreads'[s] = oaThreads[s]
    BY <1>1, <1>6, <2>1, OaGoesType DEF p
  <2>3. OaTypeOK'
    BY <1>1, <1>2, <1>6, <2>2 DEF OaTypeOK
  <2>4. ASSUME NEW s \in OaThreads, oaThreads[s].pc \in {"refresh", "rotate", "mark"},
               oaRow = OaNoRow
        PROVE  \E u \in OaThreads : oaThreads'[u].pc = "clear"
    BY <1>1, <2>2, <2>4 DEF OaIInv, OaThreadOK
  <2>5. \A s \in OaThreads \ {t} : OaThreadOK(s)'
    <3> TAKE s \in OaThreads \ {t}
    <3>1. OaThreadOK(s) /\ oaRotations \in Nat /\ oaRotations <= oaRotations
      BY <1>1, OaThreadType DEF OaIInv
    <3>2. /\ oaThreads[s].pc \in {"refresh", "rotate"} /\ oaRow'.grant = oaThreads[s].loaded.grant
               => oaRow'.turn = oaThreads[s].loaded.turn
          /\ oaGranted \subseteq oaGranted'
      BY <1>2, <1>6, <3>1 DEF OaThreadOK
    <3> QED
      BY <1>2, <2>2, <2>4, <3>1, <3>2, OaOtherOK
  <2>6. OaThreadOK(t)'
    BY <1>1, <1>2, <1>3, <1>6, <2>1, <2>2 DEF OaThreadOK, OaLocked
  <2>7. OaNewGrants'
    <3>1. g # OaNone /\ oaRow.grant # g
      BY <1>1, OaBounds DEF OaRowOK
    <3>2. \A s \in OaThreads : oaThreads[s].loaded.grant # g /\ oaThreads[s].grant # g
      BY <3>1 DEF OaIInv, OaThreadOK
    <3>3. \A s \in OaThreads \ {t} : OaPending(s)' <=> OaPending(s)
      BY <2>2 DEF OaPending
    <3> QED
      BY <1>1, <1>2, <2>1, <2>2, <3>1, <3>2, <3>3 DEF OaNewGrants
  <2>8. OaRowOK'
    BY <1>1, <1>2, <1>6 DEF OaRowOK
  <2> QED
    BY <2>3, <2>5, <2>6, <2>7, <2>8 DEF OaIInv
<1> QED
  BY <1>4, <1>5, <1>6 DEF OaExchange


\* A step that writes the row, or counts a rotation.
LEMMA OaWriteOK ==
    ASSUME OaIInv, NEW t \in OaThreads, NEW p \in OaThread, OaGoes(t, p),
           UNCHANGED <<oaFlows, oaGranted, oaRevoked>>,
           oaRow' \in OaRows, oaRotations' \in 0..OaMaxRotations,
           oaRotations <= oaRotations',
           oaCache' \in OaGrants \cup {OaNone}, oaFresh' \in BOOLEAN,
           oaLock' \in OaThreads \cup {OaNone},
           \A s \in OaThreads \ {t} : oaLock' = s <=> oaLock = s,
           p.pc \notin {"existing", "save"},
           p.loaded \in {oaThreads[t].loaded, OaNoRow},
           OaThreadOK(t)', oaRow'.turn <= oaRotations',
           \/ oaRow'.grant \in {oaRow.grant, oaThreads[t].loaded.grant, OaNone}
           \/ OaPending(t) /\ oaRow'.grant = oaThreads[t].grant,
           \A s \in OaThreads \ {t} :
              /\ oaThreads[s].pc \in {"refresh", "rotate"}
                     /\ oaRow'.grant = oaThreads[s].loaded.grant
                   => oaRow'.turn = oaThreads[s].loaded.turn
              /\ oaThreads[s].pc \in {"refresh", "rotate", "mark"} /\ oaRow' = OaNoRow
                   => \E u \in OaThreads : oaThreads'[u].pc = "clear"
    PROVE  OaIInv'
<1>1. OaTypeOK /\ OaNewGrants /\ OaRowOK /\ OaThreadOK(t)
  BY DEF OaIInv
<1>2. /\ oaThreads' \in [OaThreads -> OaThread]
      /\ oaThreads'[t] = p
      /\ \A s \in OaThreads \ {t} : oaThreads'[s] = oaThreads[s]
  BY <1>1, OaGoesType
<1>3. OaTypeOK'
  BY <1>1, <1>2 DEF OaTypeOK
<1>4. oaRotations' \in Nat
  BY OaBounds
<1>5. \A s \in OaThreads \ {t} : OaThreadOK(s)'
  <2> TAKE s \in OaThreads \ {t}
  <2> QED
    BY <1>2, <1>4, OaOtherOK
<1>6. OaNewGrants'
  <2>1. \A s \in OaThreads :
          OaPending(s)' => s # t /\ OaPending(s) /\ oaThreads'[s].grant = oaThreads[s].grant
    BY <1>2 DEF OaPending
  <2>2. \A s, u \in OaThreads :
          OaPending(s) => oaThreads'[u].loaded.grant # oaThreads[s].grant
    <3> TAKE s, u \in OaThreads
    <3> SUFFICES ASSUME OaPending(s) PROVE oaThreads'[u].loaded.grant # oaThreads[s].grant
      OBVIOUS
    <3>1. oaThreads[u].loaded.grant # oaThreads[s].grant /\ OaNoRow.grant # oaThreads[s].grant
      BY <1>1, OaNoRowIs DEF OaNewGrants, OaPending
    <3> QED
      BY <1>2, <3>1
  <2>3. \A s \in OaThreads : OaPending(s) /\ s # t => oaRow'.grant # oaThreads[s].grant
    <3> TAKE s \in OaThreads
    <3> SUFFICES ASSUME OaPending(s), s # t PROVE oaRow'.grant # oaThreads[s].grant
      OBVIOUS
    <3>1. /\ oaRow.grant # oaThreads[s].grant /\ oaThreads[t].loaded.grant # oaThreads[s].grant
          /\ oaThreads[s].grant # OaNone
          /\ OaPending(t) => oaThreads[t].grant # oaThreads[s].grant
      BY <1>1 DEF OaNewGrants, OaPending
    <3> QED
      BY <3>1
  <2> QED
    BY <1>1, <2>1, <2>2, <2>3 DEF OaNewGrants
<1>7. OaRowOK'
  <2>1. oaRow'.grant \in oaGranted \cup {OaNone}
    BY <1>1 DEF OaRowOK, OaThreadOK
  <2> QED
    BY <2>1 DEF OaRowOK
<1> QED
  BY <1>3, <1>2, <1>5, <1>6, <1>7 DEF OaIInv

LEMMA OaSaveOK ==
    ASSUME OaIInv, NEW t \in OaThreads, OaSave(t)
    PROVE  OaIInv'
<1>1. /\ OaTypeOK /\ OaThreadOK(t) /\ OaNewGrants /\ oaThreads[t] \in OaThread
      /\ oaThreads[t].pc = "save" /\ oaThreads[t].loaded \in OaRows
      /\ oaThreads[t].grant \in OaGrants \cup {OaNone} /\ oaRow \in OaRows
  BY OaThreadType DEF OaIInv, OaSave
<1>2. UNCHANGED <<oaFlows, oaCache, oaFresh, oaLock, oaGranted, oaRevoked, oaRotations>>
  BY DEF OaSave
<1>3. oaThreads[t].pc \notin OaLocked /\ oaLock # t
  BY <1>1 DEF OaLocked, OaThreadOK
<1>4. CASE oaThreads[t].loaded # OaNoRow /\ oaRow = OaNoRow
  <2>1. OaReply(t) /\ UNCHANGED oaRow
    BY <1>4 DEF OaSave
  <2> QED
    BY <1>1, <1>2, <1>3, <2>1, OaTypes, OaReplyOK
<1>5. CASE ~(oaThreads[t].loaded # OaNoRow /\ oaRow = OaNoRow) /\ oaThreads[t].grant = OaNone
  <2> DEFINE p == [oaThreads[t] EXCEPT !.pc = "seed", !.grant = oaThreads[t].loaded.grant]
  <2>1. OaGoes(t, p) /\ UNCHANGED oaRow
    BY <1>5 DEF OaSave
  <2>2. oaThreads[t].loaded.grant \in OaGrants \cup {OaNone}
    BY <1>1, OaRowIs
  <2>3. /\ p \in OaThread /\ p.pc = "seed" /\ p.loaded = oaThreads[t].loaded
        /\ p.grant = oaThreads[t].loaded.grant
    BY <1>1, <2>2 DEF OaThread
  <2> HIDE DEF p
  <2>4. p.pc \notin OaLocked
    BY <2>3 DEF OaLocked
  <2> QED
    BY <1>1, <1>2, <1>3, <2>1, <2>3, <2>4, OaTypes, OaQuiet
<1>6. CASE ~(oaThreads[t].loaded # OaNoRow /\ oaRow = OaNoRow) /\ oaThreads[t].grant # OaNone
  <2> DEFINE status == IF oaThreads[t].loaded.status = "active" THEN oaRow.status ELSE "active"
  <2>1. /\ oaRow' = [grant |-> oaThreads[t].grant, turn |-> 0, status |-> status]
        /\ OaStep(t, "seed")
    BY <1>6 DEF OaSave
  <2>2. status \in {"active", "reauthorization_required"}
    <3>1. oaThreads[t].loaded.status = "active" => oaThreads[t].loaded # OaNoRow
      BY <1>1, OaRowIs
    <3>2. oaRow # OaNoRow => oaRow.status \in {"active", "reauthorization_required"}
      BY <1>1 DEF OaRows
    <3> QED
      BY <1>6, <3>1, <3>2
  <2> HIDE DEF status
  <2>3. oaRow' \in OaRows /\ oaRow'.grant = oaThreads[t].grant /\ oaRow'.turn = 0
    <3>1. oaThreads[t].grant \in OaGrants /\ 0 \in 0..OaMaxRotations
      BY <1>1, <1>6, OaBounds
    <3>2. [grant |-> oaThreads[t].grant, turn |-> 0, status |-> status] \in OaRows
      BY <2>2, <3>1, OaRowType
    <3> QED
      BY <2>1, <3>2
  <2>4. oaRow' # OaNoRow
    BY <1>6, <2>3, OaNoRowIs
  <2>5. PICK p \in OaThread :
            /\ OaGoes(t, p) /\ p.pc = "seed"
            /\ p.loaded = oaThreads[t].loaded /\ p.grant = oaThreads[t].grant
    BY <1>1, <2>1, OaStepIs
  <2>6. OaPending(t)
    BY <1>1, <1>6 DEF OaPending
  <2>7. \A s \in OaThreads : oaThreads[s].loaded.grant # oaRow'.grant
    BY <1>1, <2>3, <2>6 DEF OaNewGrants
  <2>8. OaThreadOK(t)'
    <3>1. oaThreads'[t] = p
      BY <1>1, <2>5, OaGoesType
    <3> QED
      BY <1>1, <1>2, <1>3, <2>5, <3>1 DEF OaThreadOK, OaLocked
  <2>9. oaRotations' \in 0..OaMaxRotations /\ oaRotations <= oaRotations' /\ 0 <= oaRotations'
    BY <1>1, <1>2, OaBounds DEF OaTypeOK
  <2>10. /\ p.pc \notin {"existing", "save"} /\ p.loaded \in {oaThreads[t].loaded, OaNoRow}
         /\ oaRow'.turn <= oaRotations'
         /\ OaPending(t) /\ oaRow'.grant = oaThreads[t].grant
    BY <2>3, <2>5, <2>6, <2>9
  <2> QED
    BY <1>1, <1>2, <1>3, <2>3, <2>4, <2>5, <2>7, <2>8, <2>9, <2>10, OaTypes, OaWriteOK
<1> QED
  BY <1>4, <1>5, <1>6

LEMMA OaDisconnectOK ==
    ASSUME OaIInv, NEW t \in OaThreads, OaDisconnect(t)
    PROVE  OaIInv'
<1>1. /\ OaTypeOK /\ OaThreadOK(t) /\ oaThreads[t].pc = "idle" /\ oaRow \in OaRows
  BY OaThreadType DEF OaIInv, OaDisconnect
<1>2. oaThreads[t].pc \notin OaLocked /\ oaLock # t
  BY <1>1 DEF OaLocked, OaThreadOK
<1> DEFINE p == [OaIdle EXCEPT !.loaded = oaRow,
                     !.pc = IF oaRow = OaNoRow THEN "clear" ELSE "revoke"]
<1>3. OaGoes(t, p)
  BY DEF OaDisconnect
<1>4. /\ p \in OaThread /\ p.loaded = oaRow /\ p.grant = OaNone
      /\ p.pc \in {"clear", "revoke"} /\ (p.pc = "revoke" => oaRow # OaNoRow)
  BY <1>1 DEF OaIdle, OaThread
<1> HIDE DEF p
<1>5. p.pc \notin OaLocked
  BY <1>4 DEF OaLocked
<1>6. UNCHANGED <<oaFlows, oaRow, oaCache, oaFresh, oaLock, oaGranted, oaRevoked, oaRotations>>
  BY DEF OaDisconnect
<1> QED
  BY <1>1, <1>2, <1>3, <1>4, <1>5, <1>6, OaTypes, OaQuiet

LEMMA OaRevokeOK ==
    ASSUME OaIInv, NEW t \in OaThreads, OaRevoke(t)
    PROVE  OaIInv'
<1>1. /\ OaTypeOK /\ OaThreadOK(t) /\ oaThreads[t].pc = "revoke"
      /\ oaThreads[t].loaded \in OaRows
  BY OaThreadType DEF OaIInv, OaRevoke
<1>2. oaThreads[t].pc \notin OaLocked /\ oaLock # t
  BY <1>1 DEF OaLocked, OaThreadOK
<1>3. UNCHANGED <<oaFlows, oaRow, oaCache, oaFresh, oaLock, oaGranted, oaRotations>>
  BY DEF OaRevoke
<1>4. oaThreads[t].loaded.grant \in OaGrants
  BY <1>1, OaRowIs DEF OaThreadOK
<1>5. oaRevoked' \subseteq OaGrants
  BY <1>1, <1>4, OaTypes DEF OaRevoke
<1>6. CASE OaReply(t)
  BY <1>1, <1>2, <1>3, <1>5, <1>6, OaTypes, OaReplyOK
<1>7. CASE OaStep(t, "delete")
  <2>1. PICK p \in OaThread :
            /\ OaGoes(t, p) /\ p.pc = "delete"
            /\ p.loaded = oaThreads[t].loaded /\ p.grant = oaThreads[t].grant
    BY <1>1, <1>7, OaStepIs
  <2>2. p.pc \notin OaLocked
    BY <2>1 DEF OaLocked
  <2> QED
    BY <1>1, <1>2, <1>3, <1>5, <2>1, <2>2, OaTypes, OaQuiet
<1> QED
  BY <1>6, <1>7 DEF OaRevoke

LEMMA OaDeleteOK ==
    ASSUME OaIInv, NEW t \in OaThreads, OaDelete(t)
    PROVE  OaIInv'
<1>1. /\ OaTypeOK /\ OaThreadOK(t) /\ oaThreads[t].pc = "delete"
  BY DEF OaIInv, OaDelete
<1>2. oaThreads[t].pc \notin OaLocked /\ oaLock # t
  BY <1>1 DEF OaLocked, OaThreadOK
<1>3. UNCHANGED <<oaFlows, oaCache, oaFresh, oaLock, oaGranted, oaRevoked, oaRotations>>
  BY DEF OaDelete
<1>4. oaRow' = OaNoRow /\ oaRow' \in OaRows /\ oaRow'.grant = OaNone /\ oaRow'.turn = 0
  BY OaNoRowIs DEF OaDelete
<1>5. PICK p \in OaThread :
          /\ OaGoes(t, p) /\ p.pc = "clear"
          /\ p.loaded = oaThreads[t].loaded /\ p.grant = oaThreads[t].grant
  BY <1>1, OaStepIs DEF OaDelete
<1>6. oaThreads'[t] = p
  BY <1>1, <1>5, OaGoesType
<1>7. oaRotations' \in 0..OaMaxRotations /\ oaRotations <= oaRotations' /\ 0 <= oaRotations'
  BY <1>1, <1>3, OaBounds DEF OaTypeOK
<1>8. OaThreadOK(t)'
  BY <1>1, <1>2, <1>3, <1>5, <1>6 DEF OaThreadOK, OaLocked
<1>9. ASSUME NEW s \in OaThreads, oaThreads[s].pc \in {"refresh", "rotate"}
      PROVE  oaThreads[s].loaded.grant # OaNone
  <2>1. oaThreads[s].loaded.status = "active" /\ oaThreads[s].loaded \in OaRows
    BY <1>1, <1>9, OaThreadType DEF OaIInv, OaThreadOK
  <2> QED
    BY <2>1, OaRowIs
<1>10. \E u \in OaThreads : oaThreads'[u].pc = "clear"
  BY <1>5, <1>6
<1> QED
  BY <1>1, <1>2, <1>3, <1>4, <1>5, <1>7, <1>8, <1>9, <1>10, OaTypes, OaWriteOK

LEMMA OaClearOK ==
    ASSUME OaIInv, NEW t \in OaThreads, OaClear(t)
    PROVE  OaIInv'
<1>1. OaTypeOK /\ oaThreads[t].pc \notin OaLocked
  BY DEF OaIInv, OaClear, OaLocked
<1>2. /\ UNCHANGED <<oaFlows, oaRow, oaFresh, oaLock, oaGranted, oaRevoked, oaRotations>>
      /\ OaReply(t) /\ oaCache' = OaNone /\ oaLock = OaNone
  BY DEF OaClear
<1> QED
  BY <1>1, <1>2, OaTypes, OaReplyOK


LEMMA OaResolveOK ==
    ASSUME OaIInv, NEW t \in OaThreads, OaResolve(t)
    PROVE  OaIInv'
<1>1. OaTypeOK /\ oaThreads[t].pc = "idle" /\ oaLock = OaNone
  BY DEF OaIInv, OaResolve
<1>2. UNCHANGED <<oaFlows, oaRow, oaCache, oaFresh, oaGranted, oaRevoked, oaRotations>>
  BY DEF OaResolve
<1>3. oaLock' = t /\ \A s \in OaThreads \ {t} : oaLock' = s <=> oaLock = s
  BY <1>1, OaBounds DEF OaResolve
<1>4. PICK p \in OaThread :
          /\ OaGoes(t, p) /\ p.pc = "load"
          /\ p.loaded = oaThreads[t].loaded /\ p.grant = oaThreads[t].grant
  BY <1>1, OaStepIs DEF OaResolve
<1>5. p.pc \in OaLocked
  BY <1>4 DEF OaLocked
<1> QED
  BY <1>1, <1>2, <1>3, <1>4, <1>5, OaTypes, OaQuiet

LEMMA OaLoadOK ==
    ASSUME OaIInv, NEW t \in OaThreads, OaLoad(t)
    PROVE  OaIInv'
<1>1. OaTypeOK /\ oaThreads[t].pc = "load" /\ oaThreads[t] \in OaThread /\ oaRow \in OaRows
  BY OaThreadType DEF OaIInv, OaLoad
<1>2. UNCHANGED <<oaFlows, oaRow, oaCache, oaFresh, oaGranted, oaRevoked, oaRotations>>
  BY DEF OaLoad
<1>3. oaThreads[t].pc \in OaLocked
  BY <1>1 DEF OaLocked
<1>4. oaLock = t
  BY <1>3, OaAlone
<1>5. CASE OaReply(t) /\ OaUnlocked
  BY <1>1, <1>2, <1>3, <1>5, OaTypes, OaReplyOK
<1>6. ASSUME oaRow.status = "active", UNCHANGED oaLock, NEW pc \in {"refresh", "mark"},
             OaGoes(t, [oaThreads[t] EXCEPT !.pc = pc, !.loaded = oaRow])
      PROVE  OaIInv'
  <2> DEFINE p == [oaThreads[t] EXCEPT !.pc = pc, !.loaded = oaRow]
  <2>1. p \in OaThread /\ p.pc = pc /\ p.loaded = oaRow /\ p.grant = oaThreads[t].grant
    BY <1>1 DEF OaThread
  <2>2. OaGoes(t, p)
    BY <1>6
  <2> HIDE DEF p
  <2>3. p.pc \in OaLocked /\ oaRow # OaNoRow
    BY <1>1, <1>6, <2>1, OaRowIs DEF OaLocked
  <2> QED
    BY <1>1, <1>2, <1>4, <1>6, <2>1, <2>2, <2>3, OaTypes, OaQuiet
<1> QED
  BY <1>5, <1>6 DEF OaLoad

LEMMA OaRefreshOK ==
    ASSUME OaIInv, NEW t \in OaThreads, OaRefresh(t)
    PROVE  OaIInv'
<1>1. /\ OaTypeOK /\ OaThreadOK(t) /\ oaThreads[t].pc = "refresh"
      /\ oaRow \in OaRows /\ oaThreads[t].loaded \in OaRows /\ OaRowOK
  BY OaThreadType DEF OaIInv, OaRefresh
<1>2. UNCHANGED <<oaFlows, oaRow, oaGranted, oaRevoked>>
  BY DEF OaRefresh
<1>3. oaThreads[t].pc \in OaLocked
  BY <1>1 DEF OaLocked
<1>4. oaLock = t /\ \A u \in OaThreads \ {t} : oaThreads[u].pc \notin OaLocked
  BY <1>3, OaAlone
<1>5. ASSUME OaReply(t), OaUnlocked, UNCHANGED oaRotations,
             \/ UNCHANGED <<oaCache, oaFresh>>
             \/ oaCache' = oaThreads[t].loaded.grant /\ oaFresh' = TRUE
      PROVE  OaIInv'
  <2>1. oaCache' \in OaGrants \cup {OaNone} /\ oaFresh' \in BOOLEAN
    BY <1>1, <1>5, OaTypes, OaRowIs
  <2> QED
    BY <1>1, <1>2, <1>3, <1>5, <2>1, OaTypes, OaReplyOK
<1>6. ASSUME OaStep(t, "mark"), UNCHANGED <<oaCache, oaFresh, oaLock, oaRotations>>
      PROVE  OaIInv'
  <2>1. PICK p \in OaThread :
            /\ OaGoes(t, p) /\ p.pc = "mark"
            /\ p.loaded = oaThreads[t].loaded /\ p.grant = oaThreads[t].grant
    BY <1>1, <1>6, OaStepIs
  <2>2. p.pc \in OaLocked
    BY <2>1 DEF OaLocked
  <2> QED
    BY <1>1, <1>2, <1>4, <1>6, <2>1, <2>2, OaTypes, OaQuiet
<1>7. ASSUME oaRotations < OaMaxRotations, oaRotations' = oaRotations + 1,
             OaStep(t, "rotate"), UNCHANGED <<oaCache, oaFresh, oaLock>>
      PROVE  OaIInv'
  <2>1. PICK p \in OaThread :
            /\ OaGoes(t, p) /\ p.pc = "rotate"
            /\ p.loaded = oaThreads[t].loaded /\ p.grant = oaThreads[t].grant
    BY <1>1, <1>7, OaStepIs
  <2>2. /\ oaThreads'[t] = p
        /\ \A s \in OaThreads \ {t} : oaThreads'[s] = oaThreads[s]
    BY <1>1, <2>1, OaGoesType
  <2>3. /\ oaRotations \in Nat /\ oaRotations' \in Nat /\ oaRotations' \in 0..OaMaxRotations
        /\ oaRotations < oaRotations'
    BY <1>1, <1>7, OaBounds, OaThreadType
  <2>4. /\ oaRow.turn \in Nat /\ oaThreads[t].loaded.turn \in Nat
        /\ oaRow.turn <= oaRotations /\ oaThreads[t].loaded.turn <= oaRotations
    BY <1>1, OaRowIs DEF OaThreadOK, OaRowOK
  <2>5. oaRow'.turn <= oaRotations' /\ oaThreads[t].loaded.turn < oaRotations'
        /\ oaRotations <= oaRotations'
    BY <1>2, <2>3, <2>4
  <2>6. oaRow = OaNoRow => \E u \in OaThreads : oaThreads'[u].pc = "clear"
    <3> SUFFICES ASSUME oaRow = OaNoRow PROVE \E u \in OaThreads : oaThreads'[u].pc = "clear"
      OBVIOUS
    <3>1. PICK u \in OaThreads : oaThreads[u].pc = "clear"
      BY <1>1 DEF OaThreadOK
    <3> QED
      BY <1>1, <2>2, <3>1
  <2>7. OaThreadOK(t)'
    <3>1. p.loaded.turn <= oaRotations' /\ p.loaded.turn < oaRotations'
      BY <2>1, <2>4, <2>5, <2>3
    <3> QED
      BY <1>1, <1>2, <1>4, <1>7, <2>1, <2>2, <2>6, <3>1 DEF OaThreadOK, OaLocked
  <2>8. \A s \in OaThreads \ {t} : oaThreads[s].pc \notin {"refresh", "rotate", "mark"}
    BY <1>4 DEF OaLocked
  <2>9. /\ p.pc \notin {"existing", "save"} /\ p.loaded \in {oaThreads[t].loaded, OaNoRow}
        /\ oaRow' \in OaRows
        /\ oaRow'.grant \in {oaRow.grant, oaThreads[t].loaded.grant, OaNone}
    BY <1>1, <1>2, <2>1
  <2> QED
    BY <1>1, <1>2, <1>4, <1>7, <2>1, <2>3, <2>5, <2>7, <2>8, <2>9, OaTypes, OaWriteOK
<1> QED
  BY <1>5, <1>6, <1>7 DEF OaRefresh

LEMMA OaRotateOK ==
    ASSUME OaIInv, NEW t \in OaThreads, OaRotate(t)
    PROVE  OaIInv'
<1>1. /\ OaTypeOK /\ OaThreadOK(t) /\ oaThreads[t].pc = "rotate"
      /\ oaRow \in OaRows /\ oaThreads[t].loaded \in OaRows /\ oaRotations \in Nat
  BY OaThreadType DEF OaIInv, OaRotate
<1>2. UNCHANGED <<oaFlows, oaGranted, oaRevoked, oaRotations>> /\ OaReply(t) /\ OaUnlocked
  BY DEF OaRotate
<1>3. oaThreads[t].pc \in OaLocked
  BY <1>1 DEF OaLocked
<1>4. oaLock = t /\ \A u \in OaThreads \ {t} : oaThreads[u].pc \notin OaLocked
  BY <1>3, OaAlone
<1>5. CASE oaRow = OaNoRow
  <2>1. UNCHANGED <<oaRow, oaCache, oaFresh>>
    BY <1>5 DEF OaRotate
  <2> QED
    BY <1>1, <1>2, <1>3, <2>1, OaTypes, OaReplyOK
<1>6. CASE oaRow # OaNoRow
  <2> DEFINE grant == oaThreads[t].loaded.grant
             turn == oaThreads[t].loaded.turn + 1
             p == OaIdle
  <2>1. /\ oaRow' = [oaRow EXCEPT !.grant = grant, !.turn = turn]
        /\ oaCache' = grant /\ oaFresh' = TRUE
    BY <1>6 DEF OaRotate
  <2>2. grant \in OaGrants /\ grant # OaNone
    <3>1. oaThreads[t].loaded.status = "active"
      BY <1>1 DEF OaThreadOK
    <3> QED
      BY <1>1, <3>1, OaRowIs
  <2>3. turn \in 0..OaMaxRotations /\ turn <= oaRotations
    <3>1. oaThreads[t].loaded.turn \in Nat /\ oaThreads[t].loaded.turn < oaRotations
          /\ oaRotations <= OaMaxRotations /\ OaMaxRotations \in Nat
      BY <1>1, OaRowIs, OaBounds DEF OaThreadOK, OaTypeOK
    <3> QED
      BY <1>1, <3>1
  <2> HIDE DEF grant, turn
  <2>4. oaRow' \in OaRows /\ oaRow'.grant = grant /\ oaRow'.turn = turn
    BY <1>1, <1>6, <2>1, <2>2, <2>3 DEF OaRows
  <2>5. oaRow' # OaNoRow
    BY <2>2, <2>4, OaNoRowIs
  <2>6. OaGoes(t, p) /\ p \in OaThread /\ p.pc = "idle" /\ p.loaded = OaNoRow /\ p.grant = OaNone
    BY <1>2, OaIdleType DEF OaReply
  <2> HIDE DEF p
  <2>7. oaThreads'[t] = p
    BY <1>1, <2>6, OaGoesType
  <2>8. oaLock' = OaNone /\ oaLock' # t /\ \A s \in OaThreads \ {t} : oaLock' = s <=> oaLock = s
    BY <1>2, <1>4, OaBounds DEF OaUnlocked
  <2>9. OaThreadOK(t)'
    <3>1. p.loaded.turn <= oaRotations' /\ p.loaded.grant = OaNone
      BY <1>1, <1>2, <2>6, OaNoRowIs
    <3> QED
      BY <1>2, <2>6, <2>7, <2>8, <3>1 DEF OaThreadOK, OaLocked
  <2>10. \A s \in OaThreads \ {t} : oaThreads[s].pc \notin {"refresh", "rotate", "mark"}
    BY <1>4 DEF OaLocked
  <2>11. /\ p.pc \notin {"existing", "save"} /\ p.loaded \in {oaThreads[t].loaded, OaNoRow}
         /\ oaRow'.grant \in {oaRow.grant, oaThreads[t].loaded.grant, OaNone}
         /\ oaRow'.turn <= oaRotations'
         /\ oaCache' \in OaGrants \cup {OaNone} /\ oaFresh' \in BOOLEAN
         /\ oaLock' \in OaThreads \cup {OaNone}
    BY <1>2, <2>1, <2>2, <2>3, <2>4, <2>6, <2>8 DEF grant
  <2>12. oaRotations' \in 0..OaMaxRotations /\ oaRotations <= oaRotations'
    BY <1>1, <1>2 DEF OaTypeOK
  <2> QED
    BY <1>2, <2>4, <2>6, <2>8, <2>9, <2>10, <2>11, <2>12, OaWriteOK
<1> QED
  BY <1>5, <1>6

LEMMA OaMarkOK ==
    ASSUME OaIInv, NEW t \in OaThreads, OaMark(t)
    PROVE  OaIInv'
<1>1. /\ OaTypeOK /\ OaThreadOK(t) /\ OaRowOK /\ oaThreads[t].pc = "mark"
      /\ oaRow \in OaRows /\ oaRotations \in Nat
  BY OaThreadType DEF OaIInv, OaMark
<1>2. /\ UNCHANGED <<oaFlows, oaFresh, oaGranted, oaRevoked, oaRotations>>
      /\ OaReply(t) /\ OaUnlocked
  BY DEF OaMark
<1>3. oaThreads[t].pc \in OaLocked
  BY <1>1 DEF OaLocked
<1>4. oaLock = t /\ \A u \in OaThreads \ {t} : oaThreads[u].pc \notin OaLocked
  BY <1>3, OaAlone
<1>5. CASE oaRow = OaNoRow
  <2>1. UNCHANGED <<oaRow, oaCache>>
    BY <1>5 DEF OaMark
  <2> QED
    BY <1>1, <1>2, <1>3, <2>1, OaTypes, OaReplyOK
<1>6. CASE oaRow # OaNoRow
  <2> DEFINE p == OaIdle
  <2>1. /\ oaRow' = [oaRow EXCEPT !.status = "reauthorization_required"]
        /\ oaCache' = OaNone
    BY <1>6 DEF OaMark
  <2>2. /\ oaRow' \in OaRows /\ oaRow'.grant = oaRow.grant /\ oaRow'.turn = oaRow.turn
        /\ oaRow'.grant # OaNone
    BY <1>1, <1>6, <2>1, OaBounds DEF OaRows
  <2>3. oaRow' # OaNoRow
    BY <2>2, OaNoRowIs
  <2>4. OaGoes(t, p) /\ p \in OaThread /\ p.pc = "idle" /\ p.loaded = OaNoRow /\ p.grant = OaNone
    BY <1>2, OaIdleType DEF OaReply
  <2> HIDE DEF p
  <2>5. oaThreads'[t] = p
    BY <1>1, <2>4, OaGoesType
  <2>6. oaLock' = OaNone /\ oaLock' # t /\ \A s \in OaThreads \ {t} : oaLock' = s <=> oaLock = s
    BY <1>2, <1>4, OaBounds DEF OaUnlocked
  <2>7. OaThreadOK(t)'
    <3>1. p.loaded.turn <= oaRotations' /\ p.loaded.grant = OaNone
      BY <1>1, <1>2, <2>4, OaNoRowIs
    <3> QED
      BY <1>2, <2>4, <2>5, <2>6, <3>1 DEF OaThreadOK, OaLocked
  <2>8. \A s \in OaThreads \ {t} : oaThreads[s].pc \notin {"refresh", "rotate", "mark"}
    BY <1>4 DEF OaLocked
  <2>9. /\ p.pc \notin {"existing", "save"} /\ p.loaded \in {oaThreads[t].loaded, OaNoRow}
        /\ oaRow'.grant \in {oaRow.grant, oaThreads[t].loaded.grant, OaNone}
        /\ oaRow'.turn <= oaRotations'
        /\ oaCache' \in OaGrants \cup {OaNone} /\ oaFresh' \in BOOLEAN
        /\ oaLock' \in OaThreads \cup {OaNone}
    BY <1>1, <1>2, <2>1, <2>2, <2>4, <2>6, OaTypes DEF OaRowOK
  <2>10. oaRotations' \in 0..OaMaxRotations /\ oaRotations <= oaRotations'
    BY <1>1, <1>2 DEF OaTypeOK
  <2> QED
    BY <1>2, <2>2, <2>4, <2>6, <2>7, <2>8, <2>9, <2>10, OaWriteOK
<1> QED
  BY <1>5, <1>6

\* A step of no thread.
LEMMA OaElseOK ==
    ASSUME OaIInv, OaStart \/ OaLapse \/ OaWithdraw \/ UNCHANGED oaVars
    PROVE  OaIInv'
<1>1. UNCHANGED <<oaRow, oaLock, oaThreads, oaGranted, oaRotations>>
  BY DEF OaStart, OaLapse, OaWithdraw, oaVars
<1>2. OaTypeOK'
  <2>1. OaTypeOK
    BY DEF OaIInv
  <2>2. /\ oaFlows' \in [OaFlows -> {"unissued", "pending", "used", "lapsed"}]
        /\ oaFresh' \in BOOLEAN /\ oaCache' = oaCache
    BY <2>1 DEF OaTypeOK, OaStart, OaLapse, OaWithdraw, oaVars
  <2>3. oaRevoked' \subseteq OaGrants
    BY <2>1 DEF OaTypeOK, OaStart, OaLapse, OaWithdraw, oaVars
  <2> QED
    BY <1>1, <2>1, <2>2, <2>3 DEF OaTypeOK
<1>3. (\A t \in OaThreads : OaThreadOK(t))' /\ OaNewGrants' /\ OaRowOK'
  BY <1>1 DEF OaIInv, OaThreadOK, OaNewGrants, OaPending, OaRowOK
<1> QED
  BY <1>2, <1>3 DEF OaIInv

LEMMA OaInitOK == OaInit => OaIInv
<1> SUFFICES ASSUME OaInit PROVE OaIInv
  OBVIOUS
<1>1. OaTypeOK
  <2>1. oaRow \in OaRows /\ oaThreads \in [OaThreads -> OaThread]
    BY OaIdleType, OaNoRowIs DEF OaInit
  <2>2. oaRotations \in 0..OaMaxRotations
    BY OaBounds DEF OaInit
  <2> QED
    BY <2>1, <2>2 DEF OaInit, OaTypeOK
<1>2. \A t \in OaThreads : oaThreads[t] = OaIdle
  BY DEF OaInit
<1>3. ASSUME NEW t \in OaThreads PROVE OaThreadOK(t)
  <2>1. /\ OaIdle.loaded.turn <= oaRotations /\ OaIdle.loaded.grant = OaNone
        /\ oaLock # t
    BY OaNoRowIs, OaIdleType, OaBounds DEF OaInit
  <2> QED
    BY <1>2, <2>1, OaIdleType DEF OaThreadOK, OaLocked
<1>4. OaNewGrants
  BY <1>2, OaIdleType DEF OaNewGrants, OaPending
<1>5. OaRowOK
  BY OaNoRowIs DEF OaInit, OaRowOK
<1> QED
  BY <1>1, <1>3, <1>4, <1>5 DEF OaIInv

LEMMA OaNextOK == OaIInv /\ [OaNext]_oaVars => OaIInv'
BY OaConnectOK, OaExchangeOK, OaSaveOK, OaDisconnectOK, OaRevokeOK, OaDeleteOK, OaClearOK,
   OaResolveOK, OaLoadOK, OaRefreshOK, OaRotateOK, OaMarkOK, OaElseOK
   DEF OaNext

LEMMA OaInvariant == OaSpec => []OaIInv
BY OaInitOK, OaNextOK, PTL DEF OaSpec

\* oaVars have the types of the credential's row, the flow states, the token
\* manager's cache and what the threads of the flow service hold.
THEOREM OaTypeCorrect == OaSpec => []OaTypeOK
<1>1. OaIInv => OaTypeOK
  BY DEF OaIInv
<1> QED
  BY <1>1, OaInvariant, PTL

\* What a refresh leaves, in the row or in the cache, neither replaces a later
\* rotation of its grant nor survives a row that was deleted meanwhile: the
\* token manager's lock holds from the load to the commit.
THEOREM OaRefreshSafe == OaSpec => OaRefreshIsSafe
<1>1. OaIInv /\ [OaNext]_oaVars => [OaRotationNotLost /\ OaRefreshIsCleared]_oaVars
  <2> SUFFICES ASSUME OaIInv, [OaNext]_oaVars PROVE OaRotationNotLost /\ OaRefreshIsCleared
    OBVIOUS
  <2>1. OaRotationNotLost
    BY DEF OaRotationNotLost, OaIInv, OaThreadOK
  <2>2. ASSUME oaRow' = OaNoRow, oaCache' # oaCache, oaCache' # OaNone, oaLock # OaNone
        PROVE  \E t \in OaThreads : oaThreads[t].pc = "clear"
    <3>1. PICK t \in OaThreads : OaRefresh(t) \/ OaRotate(t)
      BY <2>2 DEF OaNext, oaVars, OaStart, OaCallback, OaExchange, OaExisting, OaSave, OaSeed,
                  OaDisconnect, OaRevoke, OaDelete, OaClear, OaResolve, OaLoad, OaMark,
                  OaLapse, OaWithdraw
    <3>2. OaThreadOK(t) /\ oaThreads[t].pc \in {"refresh", "rotate", "mark"}
      BY <3>1 DEF OaIInv, OaRefresh, OaRotate
    <3>3. oaRow = OaNoRow
      <4>1. CASE OaRefresh(t)
        BY <2>2, <4>1 DEF OaRefresh
      <4>2. CASE OaRotate(t) /\ oaRow # OaNoRow
        <5>1. oaRow'.grant = oaThreads[t].loaded.grant
          <6>1. oaRow' = [oaRow EXCEPT !.grant = oaThreads[t].loaded.grant,
                                       !.turn = oaThreads[t].loaded.turn + 1]
            BY <4>2 DEF OaRotate
          <6>2. oaRow \in OaRows
            BY DEF OaIInv, OaTypeOK
          <6> QED
            BY <6>1, <6>2 DEF OaRows, OaNoRow
        <5>2. oaThreads[t].loaded \in OaRows /\ oaThreads[t].loaded.status = "active"
          BY <3>2, <4>2, OaThreadType DEF OaIInv, OaThreadOK, OaRotate
        <5>3. oaThreads[t].loaded.grant # OaNone
          BY <5>2, OaRowIs
        <5> QED
          BY <2>2, <5>1, <5>3, OaNoRowIs
      <4> QED
        BY <3>1, <4>1, <4>2
    <3> QED
      BY <3>2, <3>3 DEF OaThreadOK
  <2> QED
    BY <2>1, <2>2 DEF OaRefreshIsCleared
<1> QED
  BY <1>1, OaInvariant, PTL DEF OaSpec, OaRefreshIsSafe

-----------------------------------------------------------------------------
(* The lanes together: a run of all of them is a run of each.               *)

\* A step of the lanes is a step of one of them, and every other one stutters.
LEMMA LaneSteps ==
    [LaneNext]_LaneVars =>
        /\ [Next]_vars /\ [CalNext]_calVars /\ [LaiNext]_laiVars
        /\ [OaNext]_oaVars /\ [CogNext]_cogVars /\ [ChaNext]_chaVars
<1> SUFFICES ASSUME [LaneNext]_LaneVars
             PROVE  /\ [Next]_vars /\ [CalNext]_calVars /\ [LaiNext]_laiVars
                    /\ [OaNext]_oaVars /\ [CogNext]_cogVars /\ [ChaNext]_chaVars
  OBVIOUS
<1>1. CASE UNCHANGED LaneVars
  BY <1>1 DEF LaneVars
<1>2. CASE lane = "gmail" /\ Next /\ Others("gmail")
  BY <1>2 DEF Others
<1>3. CASE (CalNext \/ CalAllAnswered) /\ Others("calendar")
  BY <1>3 DEF Others, CalAllAnswered
<1>4. CASE LaiNext /\ Others("localai")
  BY <1>4 DEF Others
<1>5. CASE OaNext /\ Others("oauth")
  BY <1>5 DEF Others
<1>6. CASE CogNext /\ Others("chat")
  BY <1>6 DEF Others
<1>7. CASE (ChaNext \/ ChaAllAnswered) /\ Others("actions")
  BY <1>7 DEF Others, ChaAllAnswered
<1> QED
  BY <1>1, <1>2, <1>3, <1>4, <1>5, <1>6, <1>7 DEF LaneNext, ChaOnly

LEMMA LanesAreLanes ==
    LaneSpec => Spec /\ CalSpec /\ LaiSpec /\ OaSpec /\ CogSpec /\ ChaSpec
<1>1. LaneInit => Init /\ CalInit /\ LaiInit /\ OaInit /\ CogInit /\ ChaInit
  BY DEF LaneInit
<1> QED
  BY <1>1, LaneSteps, PTL
     DEF LaneSpec, Spec, CalSpec, LaiSpec, OaSpec, CogSpec, ChaSpec

\* The stores, threads and answers of every lane keep their shape.
THEOREM LaneTypesCorrect == LaneSpec => []TypesOK
<1>1. TypesOK <=> TypeOK /\ CalTypeOK /\ LaiTypeOK /\ OaTypeOK /\ CogTypeOK /\ ChaTypeOK
  BY DEF TypesOK
<1> QED
  BY <1>1, LanesAreLanes, TypeCorrect, CalTypeCorrect, LaiTypeCorrect, OaTypeCorrect,
     CognitiveTypeCorrect, ChaTypeCorrect, PTL

THEOREM LaneTruthfulAnswers == LaneSpec => []AnswersAreTruthful
<1>1. AnswersAreTruthful <=> CalAnswerIsTruthful /\ LaiAnswerIsTruthful
  BY DEF AnswersAreTruthful
<1> QED
  BY <1>1, LanesAreLanes, CalTruthfulAnswers, LaiTruthfulAnswers, PTL

THEOREM LaneImplements == LaneSpec => LanesImplementAuthority
BY LanesAreLanes, CalImplements, LaiImplements DEF LanesImplementAuthority

=============================================================================

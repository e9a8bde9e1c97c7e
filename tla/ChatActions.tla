----------------------------- MODULE ChatActions -----------------------------
(***************************************************************************)
(* What a chat message does before, and instead of, reaching the model     *)
(* (D46, D61, D65, D78, D83, D84, D85): send_chat_message tries the lanes  *)
(* in a fixed order, and what a lane remembers between two messages lives  *)
(* in four stores, each a dict behind a lock of its own:                   *)
(*                                                                         *)
(*   - the date the owner was asked to confirm, one per conversation;      *)
(*   - the bindings of Gmail and Calendar reads that await the owner's     *)
(*     decision, and of Calendar writes, the latter one per conversation;  *)
(*   - the results of approved reads, the last one of each source, kept    *)
(*     for a joint analysis by the model.                                  *)
(*                                                                         *)
(* The approvals themselves are abstracted to "pending until": see         *)
(* GovernedExecution and CalendarWrite for them.  So is the parser: a      *)
(* message is the lane that recognises it.  Connectors are enabled; the    *)
(* analysis may always be asked for.  A restart empties every store.       *)
(***************************************************************************)
EXTENDS Integers, Sequences, FiniteSets

CONSTANTS
    ChaThreads,
    ChaConvs,       \* conversations
    ChaApprovals,   \* approval ids, never drawn twice
    ChaDates,       \* questions, never asked twice
    ChaNone,
    ChaQuestionTTL, \* CALENDAR_CLARIFICATION_TTL
    ChaApprovalTTL, \* DEFAULT_APPROVAL_TTL
    ChaContextTTL,  \* CROSS_CONNECTOR_CONTEXT_TTL
    ChaMaxQuestions,\* CALENDAR_CLARIFICATION_MAX_ITEMS
    ChaMaxBound,    \* CHAT_PLUGIN_BINDING_MAX_ITEMS, and of the writes
    ChaMaxContexts, \* CROSS_CONNECTOR_CONTEXT_MAX_CONVERSATIONS
    ChaMaxTime,     \* bound of the clock
    ChaMaxTurns     \* bound: messages

ASSUME ChaConstantsAssumption ==
    /\ ChaNone \notin ChaConvs /\ ChaNone \notin ChaApprovals /\ ChaNone \notin ChaDates
    /\ {ChaQuestionTTL, ChaApprovalTTL, ChaContextTTL, ChaMaxTime, ChaMaxTurns} \subseteq Nat

VARIABLES
    chaClock,
    chaLive,        \* conversations that exist
    chaQuestions,   \* CalendarClarificationStore: question and expiry
    chaPending,     \* approvals that can be decided: expiry, or ChaGone
    chaBound,       \* both binding stores: expiry, or ChaGone
    chaContext,     \* CrossConnectorContextStore: approval and expiry
    chaThreads,
    chaTurns,
    chaIssued,      \* history: what each approval was proposed for
    chaTold,        \* history: approvals whose id was returned to the owner
    chaAnswered,    \* history: what became of each question
    chaRead         \* history: approvals whose read succeeded

chaStores == <<chaQuestions, chaPending, chaBound, chaContext>>
chaHistory == <<chaIssued, chaTold, chaAnswered, chaRead>>
chaWorld == <<chaClock, chaLive, chaTurns>>
chaVars == <<chaStores, chaThreads, chaWorld, chaHistory>>

-----------------------------------------------------------------------------
(* Types.                                                                  *)

ChaGone == -1
ChaSources == {"gmail", "calendar"}
ChaKinds == ChaSources \cup {"write"}
ChaMessages == ChaKinds \cup {"date", "yes", "no", "approve", "analyze", "other"}
ChaNoQuestion == [date |-> ChaNone, expires |-> 0]
ChaNoResult == [by |-> ChaNone, expires |-> 0]
ChaUnissued == [kind |-> "none", conv |-> ChaNone, date |-> ChaNone, expires |-> 0]

ChaIdle ==
    [pc |-> "idle", conv |-> ChaNone, message |-> "none", kind |-> "none",
     date |-> ChaNone, approval |-> ChaNone, now |-> 0, since |-> 0,
     offered |-> {}, approved |-> FALSE, bundle |-> {}]

ChaResult == [by : ChaApprovals \cup {ChaNone}, expires : 0..(ChaMaxTime + ChaContextTTL)]
ChaDeadlines == ChaGone..(ChaMaxTime + ChaApprovalTTL)

ChaQuestion ==
    [date : ChaDates \cup {ChaNone}, expires : 0..(ChaMaxTime + ChaQuestionTTL)]

ChaIssue ==
    [kind : ChaKinds \cup {"none"}, conv : ChaConvs \cup {ChaNone},
     date : ChaDates \cup {ChaNone}, expires : 0..(ChaMaxTime + ChaApprovalTTL)]

ChaSteps ==
    {"idle", "classify", "clear", "consume", "look", "begin", "guard", "ask",
     "check", "propose", "bind", "finish", "model", "bundle", "scope", "decide", "read",
     "complete", "answer", "capture"}

ChaThread ==
    [pc : ChaSteps, conv : ChaConvs \cup {ChaNone}, message : ChaMessages \cup {"none"},
     kind : ChaKinds \cup {"none"}, date : ChaDates \cup {ChaNone},
     approval : ChaApprovals \cup {ChaNone}, now : 0..ChaMaxTime,
     since : 0..ChaMaxTime, offered : SUBSET ChaApprovals,
     approved : BOOLEAN, bundle : SUBSET ChaResult]

ChaTypeOK ==
    /\ chaClock \in 0..ChaMaxTime
    /\ chaLive \subseteq ChaConvs
    /\ chaQuestions \in [ChaConvs -> ChaQuestion]
    /\ chaPending \in [ChaApprovals -> ChaDeadlines]
    /\ chaBound \in [ChaApprovals -> ChaDeadlines]
    /\ chaContext \in [ChaConvs -> [ChaSources -> ChaResult]]
    /\ chaThreads \in [ChaThreads -> ChaThread]
    /\ chaTurns \in 0..ChaMaxTurns
    /\ chaIssued \in [ChaApprovals -> ChaIssue]
    /\ chaTold \subseteq ChaApprovals
    /\ chaAnswered \in [ChaDates -> Seq({"confirmed", "cancelled", "expired"})]
    /\ chaRead \subseteq ChaApprovals

-----------------------------------------------------------------------------
(* Common to the stores.                                                   *)

\* Most methods read the clock before they take the lock.
ChaInstants(t) == chaThreads[t].now..chaClock

ChaGoes(t, q) == chaThreads' = [chaThreads EXCEPT ![t] = q]

\* The thread moves on, and cannot read an earlier clock than it has.
ChaStep(t, pc, now) ==
    ChaGoes(t, [chaThreads[t] EXCEPT !.pc = pc, !.now = now])

ChaReply(t) == ChaGoes(t, ChaIdle)

\* Reads and writes are bound in two stores.
ChaPeers(kind) ==
    {a \in ChaApprovals : (chaIssued[a].kind = "write") = (kind = "write")}

\* _cleanup_expired of the store that holds bindings of this kind.
ChaCleaned(kind, now) ==
    [a \in ChaApprovals |->
        IF a \in ChaPeers(kind) /\ now >= chaBound[a] THEN ChaGone ELSE chaBound[a]]

ChaHeld(bound, kind) == {a \in ChaPeers(kind) : bound[a] # ChaGone}

\* has_pending_calendar_binding, has_pending_gmail_binding,
\* pending_for_conversation.
ChaAwaiting(bound, conv, kind) ==
    {a \in ChaHeld(bound, kind) : chaIssued[a].conv = conv /\ chaIssued[a].kind = kind}

\* _cleanup_expired of the results.
ChaFresh(now) ==
    [c \in ChaConvs |-> [s \in ChaSources |->
        IF now >= chaContext[c][s].expires THEN ChaNoResult ELSE chaContext[c][s]]]

ChaHolds(results) == \E s \in ChaSources : results[s] # ChaNoResult

-----------------------------------------------------------------------------
(* A message, up to the lane that takes it.                                *)

\* A joint analysis is recognised before everything else.  What matters of
\* the messages of old is which approvals they offered.
ChaSend(t, c, m) ==
    /\ chaThreads[t].pc = "idle"
    /\ chaTurns < ChaMaxTurns
    /\ chaTurns' = chaTurns + 1
    /\ ChaGoes(t, [ChaIdle EXCEPT
          !.pc = IF m = "analyze" THEN "begin" ELSE "classify",
          !.conv = c, !.message = m, !.now = chaClock,
          !.kind = IF m \in ChaKinds THEN m ELSE IF m = "approve" THEN "calendar"
                   ELSE IF m = "no" THEN "write" ELSE "none",
          !.since = IF m = "analyze" THEN chaClock ELSE 0,
          !.offered = IF m = "approve" THEN {a \in chaTold : chaIssued[a].conv = c}
                      ELSE {}])
    /\ UNCHANGED <<chaStores, chaClock, chaLive, chaHistory>>

\* The lane of a message that answers no question.
ChaLane(m) ==
    IF m = "write" THEN "look"
    ELSE IF m \in ChaSources \cup {"date"} THEN "begin"
    ELSE IF m \in {"approve", "no"} THEN "guard" ELSE "model"

\* calendar_clarification_disposition: only a look.
ChaClassify(t) ==
    LET q == chaThreads[t] IN
    /\ q.pc = "classify"
    /\ ChaStep(t, IF chaQuestions[q.conv] = ChaNoQuestion THEN ChaLane(q.message)
                  ELSE IF q.message \in {"yes", "no"} THEN "consume" ELSE "clear", q.now)
    /\ UNCHANGED <<chaStores, chaWorld, chaHistory>>

\* "unrelated message -> clear pending clarification", whichever is pending now.
ChaClear(t) ==
    LET q == chaThreads[t] IN
    /\ q.pc = "clear"
    /\ chaQuestions' = [chaQuestions EXCEPT ![q.conv] = ChaNoQuestion]
    /\ ChaStep(t, ChaLane(q.message), q.now)
    /\ UNCHANGED <<chaPending, chaBound, chaContext, chaWorld, chaHistory>>

ChaVerdict(q) ==
    IF chaClock >= chaQuestions[q.conv].expires THEN "expired"
    ELSE IF q.message = "no" THEN "cancelled" ELSE "confirmed"

\* The answer goes to the question that is pending; of two answers one finds
\* none.  A confirmed date goes on as an exact Calendar request.
ChaConsumeInto(t, left) ==
    LET q == chaThreads[t]  d == chaQuestions[q.conv].date IN
    /\ q.pc = "consume"
    /\ IF d = ChaNone THEN ChaReply(t) /\ UNCHANGED <<chaQuestions, chaAnswered>>
       ELSE /\ chaQuestions' = [chaQuestions EXCEPT ![q.conv] = left]
            /\ chaAnswered' = [chaAnswered EXCEPT ![d] = Append(@, ChaVerdict(q))]
            /\ IF ChaVerdict(q) = "confirmed"
               THEN ChaGoes(t, [q EXCEPT !.pc = "begin", !.kind = "calendar", !.date = d])
               ELSE ChaReply(t)
    /\ UNCHANGED <<chaPending, chaBound, chaContext, chaWorld, chaIssued, chaTold, chaRead>>

\* A mutant: the answered question stays pending.
ChaConsume_Kept(t) == ChaConsumeInto(t, chaQuestions[chaThreads[t].conv])

ChaConsume(t) == ChaConsumeInto(t, ChaNoQuestion)

\* begin_turn stores the owner's message, if the conversation still exists.
ChaBegin(t) ==
    LET q == chaThreads[t] IN
    /\ q.pc = "begin"
    /\ IF q.conv \notin chaLive THEN ChaReply(t)
       ELSE ChaStep(t, IF q.message = "date" THEN "ask"
                       ELSE IF q.message = "analyze" THEN "bundle"
                       ELSE IF q.message = "write" THEN "check" ELSE "propose", q.now)
    /\ UNCHANGED <<chaStores, chaWorld, chaHistory>>

ChaGuardFor(t, next) ==
    LET q == chaThreads[t] IN
    /\ q.pc = "guard"
    /\ \E now \in ChaInstants(t) :
          /\ chaBound' = ChaCleaned(q.kind, now)
          /\ IF ChaAwaiting(chaBound', q.conv, q.kind) # {} THEN ChaReply(t)
             ELSE IF q.kind = "write" THEN ChaStep(t, "model", now)
             ELSE ChaGoes(t, [q EXCEPT !.now = now, !.kind = next[q.kind]])
    /\ UNCHANGED <<chaQuestions, chaPending, chaContext, chaWorld, chaHistory>>

\* A mutant: the Gmail guard is forgotten.
ChaGuard_Calendar(t) ==
    ChaGuardFor(t, [k \in {"gmail", "calendar"} |-> "write"])

\* A typed decision is no decision: the guards of the Calendar reads, of the
\* Gmail reads and of the writes answer it, one after the other.  (Each looks
\* twice; what the second look finds changes only the answer.)
ChaGuard(t) ==
    ChaGuardFor(t, [k \in {"gmail", "calendar"} |->
        IF k = "calendar" THEN "gmail" ELSE "write"])

\* The model answers, and what it was shown is forgotten.
ChaModel(t) ==
    /\ chaThreads[t].pc = "model"
    /\ ChaReply(t)
    /\ UNCHANGED <<chaStores, chaWorld, chaHistory>>

-----------------------------------------------------------------------------
(* What is prepared for the owner.                                         *)

\* A date of which the year is missing: the conversation's question replaces
\* the one before, and a full store asks nothing.
ChaAsk(t) ==
    LET q == chaThreads[t] IN
    /\ q.pc = "ask"
    /\ \E now \in ChaInstants(t) :
          LET kept == [c \in ChaConvs |->
                 IF c # q.conv /\ now >= chaQuestions[c].expires
                 THEN ChaNoQuestion ELSE chaQuestions[c]]
              others == {c \in ChaConvs : c # q.conv /\ kept[c] # ChaNoQuestion}
          IN
          IF kept[q.conv] = ChaNoQuestion /\ Cardinality(others) >= ChaMaxQuestions
          THEN chaQuestions' = kept
          ELSE \E d \in ChaDates :
                  /\ chaAnswered[d] = <<>>
                  /\ \A c \in ChaConvs : chaQuestions[c].date # d
                  /\ chaQuestions' = [kept EXCEPT ![q.conv] =
                        [date |-> d, expires |-> now + ChaQuestionTTL]]
    /\ ChaReply(t)
    /\ UNCHANGED <<chaPending, chaBound, chaContext, chaWorld, chaHistory>>

\* A write is proposed only where none awaits its decision: the first look is
\* before the owner's message is stored, the second after it.
ChaCheck(t) ==
    LET q == chaThreads[t] IN
    /\ q.pc \in {"look", "check"}
    /\ \E now \in ChaInstants(t) :
          /\ chaBound' = ChaCleaned("write", now)
          /\ IF ChaAwaiting(chaBound', q.conv, "write") = {}
             THEN ChaStep(t, IF q.pc = "look" THEN "begin" ELSE "propose", now)
             ELSE ChaReply(t)
    /\ UNCHANGED <<chaQuestions, chaPending, chaContext, chaWorld, chaHistory>>

\* The connector may not be connected, its status unreadable, the plan not
\* possible and the store of approvals full.
ChaPropose(t) ==
    LET q == chaThreads[t] IN
    /\ q.pc = "propose"
    /\ \/ ChaReply(t) /\ UNCHANGED <<chaPending, chaIssued>>
       \/ \E now \in ChaInstants(t), a \in ChaApprovals :
             /\ chaIssued[a] = ChaUnissued
             /\ chaIssued' = [chaIssued EXCEPT ![a] = [kind |-> q.kind, conv |-> q.conv,
                      date |-> q.date, expires |-> now + ChaApprovalTTL]]
             /\ chaPending' = [chaPending EXCEPT ![a] = now + ChaApprovalTTL]
             /\ ChaGoes(t, [q EXCEPT !.pc = "bind", !.approval = a, !.now = now])
    /\ UNCHANGED <<chaQuestions, chaBound, chaContext, chaWorld, chaTold, chaAnswered,
                   chaRead>>

\* The binding stores' add.
ChaAdmits(q, now) ==
    LET kept == ChaCleaned(q.kind, now) IN
    /\ Cardinality(ChaHeld(kept, q.kind)) < ChaMaxBound
    /\ q.kind = "write" =>
          ChaAwaiting(kept, q.conv, "write") = {} /\ now < chaIssued[q.approval].expires

\* A write that cannot be bound is withdrawn, a read is left to expire: nobody
\* is told the id of either.
ChaBind(t) ==
    LET q == chaThreads[t] IN
    /\ q.pc = "bind"
    /\ \E now \in ChaInstants(t) :
          IF ChaAdmits(q, now)
          THEN /\ chaBound' = [ChaCleaned(q.kind, now) EXCEPT ![q.approval] =
                                  chaIssued[q.approval].expires]
               /\ ChaStep(t, "finish", now)
               /\ UNCHANGED chaPending
          ELSE /\ chaBound' = ChaCleaned(q.kind, now)
               /\ chaPending' = IF q.kind # "write" THEN chaPending
                                ELSE [chaPending EXCEPT ![q.approval] = ChaGone]
               /\ ChaReply(t)
    /\ UNCHANGED <<chaQuestions, chaContext, chaWorld, chaHistory>>

\* complete_turn; then the id is returned.
ChaFinish(t) ==
    LET q == chaThreads[t] IN
    /\ q.pc = "finish"
    /\ chaTold' = IF q.conv \in chaLive THEN chaTold \cup {q.approval} ELSE chaTold
    /\ ChaReply(t)
    /\ UNCHANGED <<chaStores, chaWorld, chaIssued, chaAnswered, chaRead>>

-----------------------------------------------------------------------------
(* The owner's decision, and what follows in the chat.                     *)

ChaDecide(t, a, approved) ==
    /\ chaThreads[t].pc = "idle"
    /\ a \in chaTold
    /\ ChaGoes(t, [ChaIdle EXCEPT
          !.pc = IF chaIssued[a].kind = "write" THEN "scope" ELSE "decide",
          !.approval = a, !.now = chaClock, !.conv = chaIssued[a].conv,
          !.kind = chaIssued[a].kind, !.approved = approved])
    /\ UNCHANGED <<chaStores, chaWorld, chaHistory>>

\* A write's binding, with the digest it was named with, and its conversation
\* are looked up first.
ChaScope(t) ==
    LET q == chaThreads[t] IN
    /\ q.pc = "scope"
    /\ \E now \in ChaInstants(t) :
          /\ chaBound' = ChaCleaned("write", now)
          /\ \/ ChaReply(t)
             \/ /\ q.conv \in chaLive /\ chaBound'[q.approval] # ChaGone
                /\ ChaStep(t, "decide", now)
    /\ UNCHANGED <<chaQuestions, chaPending, chaContext, chaWorld, chaHistory>>

\* The approval is taken, for a write if it is still bound.  A read named with
\* a wrong digest is taken too, and its binding then lingers.
ChaTake(t) ==
    LET q == chaThreads[t]  a == q.approval IN
    /\ q.pc = "decide"
    /\ \E now \in ChaInstants(t), right \in BOOLEAN :
          /\ chaBound' = IF q.kind = "write" THEN ChaCleaned("write", now) ELSE chaBound
          /\ IF q.kind = "write" /\ chaBound'[a] = ChaGone
             THEN ChaReply(t) /\ UNCHANGED chaPending
             ELSE /\ chaPending' = [chaPending EXCEPT ![a] = ChaGone]
                  /\ IF now < chaPending[a] /\ (q.kind = "write" \/ right)
                     THEN ChaStep(t, IF q.approved THEN "read" ELSE "complete", now)
                     ELSE ChaReply(t)
    /\ UNCHANGED <<chaQuestions, chaContext, chaWorld, chaHistory>>

\* The provider is asked.
ChaRun(t) ==
    LET q == chaThreads[t] IN
    /\ q.pc = "read"
    /\ chaRead' \in {chaRead, chaRead \cup {q.approval}}
    /\ ChaStep(t, "complete", q.now)
    /\ UNCHANGED <<chaStores, chaWorld, chaIssued, chaTold, chaAnswered>>

\* The binding is consumed; one that lapsed meanwhile leaves no reply.
ChaComplete(t) ==
    LET q == chaThreads[t] IN
    /\ q.pc = "complete"
    /\ \E now \in ChaInstants(t) :
          LET kept == ChaCleaned(q.kind, now) IN
          /\ chaBound' = [kept EXCEPT ![q.approval] = ChaGone]
          /\ IF kept[q.approval] # ChaGone THEN ChaStep(t, "answer", now) ELSE ChaReply(t)
    /\ UNCHANGED <<chaQuestions, chaPending, chaContext, chaWorld, chaHistory>>

\* A mutant: whatever came of the read is captured.
ChaAnswer_Any(t) ==
    LET q == chaThreads[t] IN
    /\ q.pc = "answer"
    /\ IF q.conv \in chaLive /\ q.kind \in ChaSources
       THEN ChaStep(t, "capture", q.now) ELSE ChaReply(t)
    /\ UNCHANGED <<chaStores, chaWorld, chaHistory>>

\* The reply is stored, and the result of an approved read that succeeded is
\* kept for an analysis.
ChaAnswer(t) ==
    LET q == chaThreads[t] IN
    /\ q.pc = "answer"
    /\ IF /\ q.conv \in chaLive
          /\ q.kind \in ChaSources /\ q.approved /\ q.approval \in chaRead
       THEN ChaStep(t, "capture", q.now) ELSE ChaReply(t)
    /\ UNCHANGED <<chaStores, chaWorld, chaHistory>>

\* _put: a full store, or two results that are too large together, keep out
\* the newer one.
ChaCapture(t) ==
    LET q == chaThreads[t] IN
    /\ q.pc = "capture"
    /\ \E now \in ChaInstants(t) :
          LET fresh == ChaFresh(now)
              others == {c \in ChaConvs : c # q.conv /\ ChaHolds(fresh[c])} IN
          \/ chaContext' = fresh
          \/ /\ ChaHolds(fresh[q.conv]) \/ Cardinality(others) < ChaMaxContexts
             /\ chaContext' = [fresh EXCEPT ![q.conv][q.kind] =
                    [by |-> q.approval, expires |-> now + ChaContextTTL]]
    /\ ChaReply(t)
    /\ UNCHANGED <<chaQuestions, chaPending, chaBound, chaWorld, chaHistory>>

\* resolve_bundle and the prompt made of it.
ChaBundleFrom(t, kept) ==
    LET q == chaThreads[t] IN
    /\ q.pc = "bundle"
    /\ \E now \in ChaInstants(t) :
          LET results == kept[now][q.conv] IN
          /\ chaContext' = kept[now]
          /\ \/ ChaReply(t)
             \/ /\ \A s \in ChaSources : results[s] # ChaNoResult
                /\ ChaGoes(t, [q EXCEPT !.pc = "model", !.now = now,
                                        !.bundle = {results[s] : s \in ChaSources}])
    /\ UNCHANGED <<chaQuestions, chaPending, chaBound, chaWorld, chaHistory>>

\* A mutant: only captures drop what has expired.
ChaBundle_Stale(t) == ChaBundleFrom(t, [now \in 0..ChaMaxTime |-> chaContext])

ChaBundle(t) == ChaBundleFrom(t, [now \in 0..ChaMaxTime |-> ChaFresh(now)])

-----------------------------------------------------------------------------
(* The world.                                                              *)

ChaDelete(c) ==
    /\ c \in chaLive
    /\ chaLive' = chaLive \ {c}
    /\ UNCHANGED <<chaStores, chaThreads, chaClock, chaTurns, chaHistory>>

ChaTick ==
    /\ chaClock < ChaMaxTime
    /\ chaClock' = chaClock + 1
    /\ UNCHANGED <<chaStores, chaThreads, chaLive, chaTurns, chaHistory>>

ChaInit ==
    /\ chaClock = 0 /\ chaLive = ChaConvs /\ chaTurns = 0
    /\ chaQuestions = [c \in ChaConvs |-> ChaNoQuestion]
    /\ chaPending = [a \in ChaApprovals |-> ChaGone]
    /\ chaBound = [a \in ChaApprovals |-> ChaGone]
    /\ chaContext = [c \in ChaConvs |-> [s \in ChaSources |-> ChaNoResult]]
    /\ chaThreads = [t \in ChaThreads |-> ChaIdle]
    /\ chaIssued = [a \in ChaApprovals |-> ChaUnissued]
    /\ chaTold = {} /\ chaRead = {}
    /\ chaAnswered = [d \in ChaDates |-> <<>>]

ChaSendChatMessage(t) ==
    \/ \E c \in ChaConvs, m \in ChaMessages : ChaSend(t, c, m)
    \/ ChaClassify(t) \/ ChaClear(t) \/ ChaConsume(t) \/ ChaBegin(t)
    \/ ChaGuard(t) \/ ChaModel(t) \/ ChaAsk(t) \/ ChaBundle(t)
    \/ ChaCheck(t) \/ ChaPropose(t) \/ ChaBind(t) \/ ChaFinish(t)

ChaDecision(t) ==
    \/ \E a \in ChaApprovals, approved \in BOOLEAN : ChaDecide(t, a, approved)
    \/ ChaScope(t) \/ ChaTake(t) \/ ChaRun(t)
    \/ ChaComplete(t) \/ ChaAnswer(t) \/ ChaCapture(t)

ChaNext ==
    \/ \E t \in ChaThreads : ChaSendChatMessage(t) \/ ChaDecision(t)
    \/ \E c \in ChaConvs : ChaDelete(c)
    \/ ChaTick

ChaSpec == ChaInit /\ [][ChaNext]_chaVars

-----------------------------------------------------------------------------
(* Properties.                                                             *)

\* "Atomically consume clarification": whatever messages overlap, a question
\* gets one answer, and one read at most is prepared from it, if confirmed.
ChaOneAnswer ==
    \A d \in ChaDates :
        LET made == {a \in ChaApprovals : chaIssued[a].date = d} IN
        /\ Len(chaAnswered[d]) <= 1
        /\ Cardinality(made) <= 1
        /\ made # {} => chaAnswered[d] = <<"confirmed">>

\* "D78 may use only fresh, already approved connector projections": what the
\* model is shown was read for this conversation by approvals of the owner,
\* and had not expired when the analysis was asked for.
ChaPromptsAreApproved ==
    \A t \in ChaThreads :
        LET q == chaThreads[t] IN
        /\ q.bundle # {} => {chaIssued[r.by].kind : r \in q.bundle} = ChaSources
        /\ \A r \in q.bundle :
              r.by \in chaRead /\ chaIssued[r.by].conv = q.conv /\ q.since < r.expires

\* Nothing is read and nothing shown to the model but what the owner said.
ChaOwnerSaidSo == ChaOneAnswer /\ ChaPromptsAreApproved

\* "Plaintext approval-like message -> DO NOT call generic AI": a typed
\* approval never reaches the model while an approval that was offered in the
\* conversation before still awaits its decision.
ChaTypedApprovalStaysOut ==
    \A t \in ChaThreads :
        chaThreads[t].pc = "model" /\ chaThreads[t].message = "approve" =>
            \A a \in chaThreads[t].offered :
                chaPending[a] = ChaGone \/ chaClock >= chaPending[a]

=============================================================================

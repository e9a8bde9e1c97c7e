--------------------------- MODULE CognitiveTurn ---------------------------
(***************************************************************************)
(* Chat turns over one table of conversations.                             *)
(*                                                                         *)
(* A cognitive turn (D136) reserves its conversation, takes the turn       *)
(* guard's lease on it, freezes a snapshot of the context, commits the     *)
(* user's message, lets the model draft, a critic review and at most one   *)
(* revision follow, and commits the reply with its snapshot.  Two other    *)
(* lanes write to the same conversations and take no lease: the context    *)
(* lane (D97, also the rollout's control lane), which freezes a snapshot   *)
(* too, and the bridge lanes (knowledge answers, calendar, plugins), which *)
(* commit a message, work, and commit a reply.                             *)
(*                                                                         *)
(* One action per transaction, model call, lock or check that others may   *)
(* come between.  A new conversation is inserted without a commit: only    *)
(* its turn sees it, and nobody else writes to the database until the turn *)
(* commits or rolls back.  Abstracted: a message is its turn and role; a   *)
(* snapshot is how many messages of the conversation it saw, and whether   *)
(* it holds any item; the organs of the cognitive state are the action     *)
(* they recommend.  A deadline that passes is one of the failures every    *)
(* step with a check may end in; what a thread no longer needs is reset.   *)
(***************************************************************************)
EXTENDS Integers, Sequences, FiniteSets

CONSTANTS
    CogTurns,       \* chat requests, one thread each
    CogConvs,       \* conversation ids
    CogExisting,    \* conversations that exist at the start
    CogNone

ASSUME CogAssumption ==
    /\ CogExisting \subseteq CogConvs
    /\ CogNone \notin CogTurns \cup CogConvs

VARIABLES
    cogConv,        \* "absent", "pending" (inserted, not committed), "live", "deleted"
    cogMsgs,        \* committed messages of each conversation, oldest first
    cogGuard,       \* turn guard: the turn that holds each conversation
    cogWriter,      \* turn whose open transaction keeps other writers out
    cogTurn         \* the request threads

cogVars == <<cogConv, cogMsgs, cogGuard, cogWriter, cogTurn>>

-----------------------------------------------------------------------------
(* Types.                                                                  *)

CogLanes == {"cognitive", "context", "bridge"}
CogPurposes == {"primary", "critic", "revision", "post_critic"}
CogResults == {"pass", "insufficient", "revise", "invalid"}
CogUnreviewed == [of |-> 0, result |-> "pass"]

\* Steps of a request; "failing" and "answered" still have to release.
CogSteps == {"idle", "reserved", "leased", "resolved", "frozen", "prepared",
             "invoking", "calling", "verifying", "accepted", "persisting",
             "failing", "answered", "done"}

CogFresh ==
    [pc |-> "idle", lane |-> "cognitive", conv |-> CogNone, seen |-> 0,
     changed |-> FALSE, again |-> FALSE, items |-> FALSE, action |-> "respond",
     draft |-> "none", revision |-> 0, purpose |-> "primary", calls |-> {},
     review |-> CogUnreviewed, verdict |-> "pass"]

\* review: the critic's result, and 1 + the revision it is about (0: no review).
\* changed: the project was edited after it was read; action: what the
\* cognitive state recommends.
CogThread ==
    [pc : CogSteps, lane : CogLanes, conv : CogConvs \cup {CogNone},
     seen : Nat, changed : BOOLEAN, again : BOOLEAN, items : BOOLEAN,
     action : {"respond", "insufficient", "revise"},
     draft : {"none", "fixed", "model"}, revision : 0..1, purpose : CogPurposes,
     calls : SUBSET CogPurposes,
     review : [of : 0..2, result : CogResults], verdict : CogResults]

CogMessage == [turn : CogTurns, role : {"user", "assistant"}]

CogTypeOK ==
    /\ cogConv \in [CogConvs -> {"absent", "pending", "live", "deleted"}]
    /\ cogMsgs \in [CogConvs -> Seq(CogMessage)]
    /\ cogGuard \in [CogConvs -> CogTurns \cup {CogNone}]
    /\ cogWriter \in CogTurns \cup {CogNone}
    /\ cogTurn \in [CogTurns -> CogThread]

-----------------------------------------------------------------------------
(* Parts of a step.                                                        *)

CogGoes(t, q) == cogTurn' = [cogTurn EXCEPT ![t] = q]
CogStep(t, pc) == CogGoes(t, [cogTurn[t] EXCEPT !.pc = pc])

\* SQLite has one writer: another turn's open transaction keeps this one out.
CogMayWrite(t) == cogWriter \in {CogNone, t}

\* What a turn's own session can load: committed, or inserted by itself.
CogReadable(t, c) == cogConv[c] = "live" \/ (cogConv[c] = "pending" /\ cogWriter = t)

\* Rollback: a conversation inserted and not committed is gone.
CogRollback(t) ==
    /\ cogConv' = [c \in CogConvs |->
          IF cogWriter = t /\ cogConv[c] = "pending" THEN "absent" ELSE cogConv[c]]
    /\ cogWriter' = IF cogWriter = t THEN CogNone ELSE cogWriter

\* What is left of a thread that will not reply.
CogEnded(t, pc) ==
    [CogFresh EXCEPT !.pc = pc, !.lane = cogTurn[t].lane, !.conv = cogTurn[t].conv]

\* An exception: nothing committed is undone, the rest is.
CogFail(t) ==
    /\ CogGoes(t, CogEnded(t, "failing"))
    /\ CogRollback(t)
    /\ UNCHANGED <<cogMsgs, cogGuard>>

\* Add a message to a conversation and commit, the insertion of the
\* conversation included.
CogCommitMessage(t, role) ==
    LET c == cogTurn[t].conv IN
    /\ CogMayWrite(t)
    /\ cogMsgs' = [cogMsgs EXCEPT ![c] = Append(@, [turn |-> t, role |-> role])]
    /\ cogConv' = [cogConv EXCEPT ![c] = "live"]
    /\ cogWriter' = CogNone

CogKeepsTables == UNCHANGED <<cogConv, cogMsgs, cogWriter>>

CogHolds(t) == cogTurn[t].conv # CogNone /\ cogGuard[cogTurn[t].conv] = t

-----------------------------------------------------------------------------
(* Reserve, acquire, freeze, prepare.                                      *)

\* Get or create the conversation.  A new one is inserted and not committed.
CogReserve(t, lane, c) ==
    /\ cogTurn[t].pc = "idle"
    /\ lane \in {"cognitive", "context"}
    /\ \/ cogConv[c] = "live" /\ UNCHANGED <<cogConv, cogWriter>>
       \/ /\ cogConv[c] = "absent" /\ CogMayWrite(t)
          /\ cogConv' = [cogConv EXCEPT ![c] = "pending"]
          /\ cogWriter' = t
    /\ CogGoes(t, [CogFresh EXCEPT !.pc = "reserved", !.lane = lane, !.conv = c])
    /\ UNCHANGED <<cogGuard, cogMsgs>>

\* Mutant: a lease is granted over the active one.
CogLeaseFree_Always(c) == c \in CogConvs

CogLeaseFree(c) == cogGuard[c] = CogNone

\* Take the lease; a conversation that is held is refused at once.
CogAcquire(t) ==
    /\ cogTurn[t].pc = "reserved" /\ cogTurn[t].lane = "cognitive"
    /\ CogLeaseFree(cogTurn[t].conv)
    /\ cogGuard' = [cogGuard EXCEPT ![cogTurn[t].conv] = t]
    /\ CogStep(t, "leased")
    /\ CogKeepsTables

CogRefused(t) ==
    /\ cogTurn[t].pc = "reserved" /\ cogTurn[t].lane = "cognitive"
    /\ ~CogLeaseFree(cogTurn[t].conv)
    /\ CogFail(t)

\* Read the candidates of every layer.
CogResolve(t) ==
    LET c == cogTurn[t].conv IN
    /\ \/ cogTurn[t].pc = "leased"
       \/ cogTurn[t].pc = "reserved" /\ cogTurn[t].lane = "context"
    /\ CogReadable(t, c)
    /\ CogGoes(t, [cogTurn[t] EXCEPT !.pc = "resolved", !.seen = Len(cogMsgs[c])])
    /\ CogKeepsTables /\ UNCHANGED cogGuard

\* The deadline has passed, the conversation is gone, or a read fails.
CogResolveFails(t) ==
    /\ \/ cogTurn[t].pc = "leased"
       \/ cogTurn[t].pc = "reserved" /\ cogTurn[t].lane = "context"
    /\ CogFail(t)

\* Observe every source again; a text that changed makes a cognitive turn
\* resolve once more.
CogCapture(t) ==
    /\ cogTurn[t].pc = "resolved"
    /\ \/ /\ ~cogTurn[t].changed
          /\ cogTurn[t].seen > 0 => CogReadable(t, cogTurn[t].conv)
          /\ \E items \in BOOLEAN :
                CogGoes(t, [cogTurn[t] EXCEPT !.pc = "frozen", !.again = FALSE,
                               !.items = items /\ cogTurn[t].lane = "cognitive"])
       \/ /\ cogTurn[t].changed
          /\ cogTurn[t].lane = "cognitive" /\ ~cogTurn[t].again
          /\ CogGoes(t, [cogTurn[t] EXCEPT !.pc = "leased", !.changed = FALSE,
                                           !.again = TRUE])
    /\ CogKeepsTables /\ UNCHANGED cogGuard

\* A source changed twice, or has gone: a message, a memory, a document.
CogCaptureFails(t) == cogTurn[t].pc = "resolved" /\ CogFail(t)

\* Commit the user's message.  The cognitive state that follows recommends
\* what to do with it; the context lane goes straight to its model.
CogPrepare(t) ==
    /\ cogTurn[t].pc = "frozen"
    /\ CogReadable(t, cogTurn[t].conv)
    /\ CogCommitMessage(t, "user")
    /\ \E action \in {"respond", "insufficient", "revise"} :
          /\ cogTurn[t].lane = "context" => action = "respond"
          /\ CogGoes(t, [cogTurn[t] EXCEPT !.pc = "prepared", !.action = action])
    /\ UNCHANGED cogGuard

\* Deadline, conversation deleted, database busy, or a write that fails.
CogPrepareFails(t) == cogTurn[t].pc = "frozen" /\ CogFail(t)

-----------------------------------------------------------------------------
(* Drafting, review, revision.                                             *)

\* Mutant: the revised draft is not reviewed again.
CogCriticRequired_Once(q) == q.items /\ q.draft = "model" /\ q.revision = 0

\* A critic is required if the model drafted over a context that is not empty.
CogCriticRequired(q) == q.items /\ q.draft = "model"

\* After a draft: to its critic, or to the verification without one.
CogDrafted(q, critic) ==
    IF CogCriticRequired(q)
    THEN [q EXCEPT !.pc = "invoking", !.purpose = critic, !.review = CogUnreviewed]
    ELSE [q EXCEPT !.pc = "verifying", !.review = CogUnreviewed]

\* Insufficient or invalid cognition gets a fixed reply, the rest a model's.
CogSynthesize(t) ==
    /\ cogTurn[t].pc = "prepared" /\ cogTurn[t].lane = "cognitive"
    /\ CogGoes(t,
          IF cogTurn[t].action = "respond"
          THEN [cogTurn[t] EXCEPT !.pc = "invoking", !.purpose = "primary"]
          ELSE CogDrafted([cogTurn[t] EXCEPT !.draft = "fixed"], "critic"))
    /\ CogKeepsTables /\ UNCHANGED cogGuard

\* Mutant: a session may begin with any purpose.
CogMayInvoke_Unordered(q) ==
    /\ q.purpose \notin q.calls
    /\ Cardinality(q.calls) < Cardinality(CogPurposes)

\* session.invoke refuses a purpose out of its order, twice or too often.
CogMayInvoke(q) ==
    /\ q.purpose \notin q.calls
    /\ Cardinality(q.calls) < Cardinality(CogPurposes)
    /\ q.calls = {} => q.purpose = "primary"
    /\ q.purpose = "revision" => "primary" \in q.calls
    /\ q.purpose = "post_critic" => "revision" \in q.calls

CogInvoke(t) ==
    /\ cogTurn[t].pc = "invoking"
    /\ CogMayInvoke(cogTurn[t]) /\ CogHolds(t)
    /\ CogStep(t, "calling")
    /\ CogKeepsTables /\ UNCHANGED cogGuard

\* Mutant: whatever the verification may find is a critic's answer, too.
CogCriticResults_Any == CogResults

\* What a critic may answer.
CogCriticResults == {"pass", "revise", "invalid"}

\* A draft, or a review of the draft in hand.  It counts only if the turn
\* still holds the lease when it arrives; any other answer of a critic ends
\* the turn (CogSynthesisFails).
CogAnswer(t) ==
    LET q == [cogTurn[t] EXCEPT !.calls = @ \cup {cogTurn[t].purpose}] IN
    /\ cogTurn[t].pc = "calling" /\ cogTurn[t].lane = "cognitive"
    /\ CogHolds(t)
    /\ \/ /\ q.purpose = "primary"
          /\ CogGoes(t, CogDrafted([q EXCEPT !.draft = "model"], "critic"))
       \/ /\ q.purpose = "revision"
          /\ CogGoes(t, CogDrafted([q EXCEPT !.draft = "model", !.revision = 1], "post_critic"))
       \/ /\ q.purpose \in {"critic", "post_critic"}
          /\ \E result \in CogCriticResults :
                CogGoes(t, [q EXCEPT !.pc = "verifying",
                               !.review = [of |-> q.revision + 1, result |-> result]])
    /\ CogKeepsTables /\ UNCHANGED cogGuard

\* Planned, authorized or answered otherwise than it must be, too late, or
\* never: the turn ends.
CogSynthesisFails(t) ==
    /\ cogTurn[t].pc \in {"prepared", "invoking", "calling"}
    /\ CogFail(t)

-----------------------------------------------------------------------------
(* Verification and publication.                                           *)

CogSeverity == [pass |-> 0, insufficient |-> 1, revise |-> 2, invalid |-> 3]

\* What the deterministic checks may find of a draft.
CogChecks(q) ==
    IF q.action = "revise" THEN {"invalid"}
    ELSE IF q.action = "insufficient" THEN {"insufficient", "revise"}
    ELSE {"pass", "revise"}

\* A critic may make a verdict more severe, never milder.
CogVerdict(check, review) ==
    IF review.of > 0 /\ CogSeverity[review.result] > CogSeverity[check]
    THEN review.result ELSE check

\* One revision; a second "revise" is exhausted, and blocked like "invalid".
CogVerify(t) ==
    /\ cogTurn[t].pc = "verifying"
    /\ \E check \in CogChecks(cogTurn[t]) :
          LET verdict == CogVerdict(check, cogTurn[t].review)
              q == [cogTurn[t] EXCEPT !.verdict = verdict]
          IN
          \/ /\ verdict \in {"pass", "insufficient"}
             /\ CogGoes(t, [q EXCEPT !.pc = "accepted", !.calls = {},
                                     !.purpose = "primary"])
          \/ /\ verdict = "revise" /\ q.revision = 0
             /\ CogGoes(t, [q EXCEPT !.pc = "invoking", !.purpose = "revision"])
          \/ /\ verdict = "invalid" \/ (verdict = "revise" /\ q.revision = 1)
             /\ CogGoes(t, CogEnded(t, "failing"))
    /\ CogKeepsTables /\ UNCHANGED cogGuard

\* The last look at the lease and at the clock.
CogPublish(t) ==
    /\ cogTurn[t].pc = "accepted"
    /\ CogHolds(t)
    /\ CogStep(t, "persisting")
    /\ CogKeepsTables /\ UNCHANGED cogGuard

\* Commit the reply and its snapshot.  The conversation is looked up again.
CogComplete(t) ==
    /\ cogTurn[t].pc = "persisting"
    /\ CogReadable(t, cogTurn[t].conv)
    /\ CogCommitMessage(t, "assistant")
    /\ CogStep(t, "answered")
    /\ UNCHANGED cogGuard

\* Lease or time lost, conversation deleted, or a write that fails.
CogPublicationFails(t) ==
    /\ cogTurn[t].pc \in {"accepted", "persisting"}
    /\ CogFail(t)

\* finally: the session is closed and the lease released, if it is this one.
CogRelease(t) ==
    /\ cogTurn[t].pc \in {"failing", "answered"}
    /\ cogGuard' = [c \in CogConvs |-> IF cogGuard[c] = t THEN CogNone ELSE cogGuard[c]]
    /\ CogStep(t, "done")
    /\ CogKeepsTables

-----------------------------------------------------------------------------
(* The other lanes, and everything else.                                   *)

\* The context lane's model answers: its reply goes straight to the commit.
CogContextReply(t) ==
    /\ cogTurn[t].pc = "prepared" /\ cogTurn[t].lane = "context"
    /\ CogStep(t, "persisting")
    /\ CogKeepsTables /\ UNCHANGED cogGuard

\* begin_turn of a bridge lane: conversation and message in one transaction.
CogBridge(t, c) ==
    /\ cogTurn[t].pc = "idle"
    /\ cogConv[c] \in {"absent", "live"} /\ CogMayWrite(t)
    /\ cogMsgs' = [cogMsgs EXCEPT ![c] = Append(@, [turn |-> t, role |-> "user"])]
    /\ cogConv' = [cogConv EXCEPT ![c] = "live"]
    /\ CogGoes(t, [CogFresh EXCEPT !.pc = "persisting", !.lane = "bridge", !.conv = c])
    /\ UNCHANGED <<cogGuard, cogWriter>>

\* The owner deletes a conversation: its messages and snapshots go with it.
CogDelete(c) ==
    /\ cogConv[c] = "live" /\ cogWriter = CogNone
    /\ cogConv' = [cogConv EXCEPT ![c] = "deleted"]
    /\ cogMsgs' = [cogMsgs EXCEPT ![c] = <<>>]
    /\ UNCHANGED <<cogGuard, cogWriter, cogTurn>>

\* The owner edits the project: who has read it will see that it changed.
CogEdit ==
    /\ cogWriter = CogNone
    /\ cogTurn' = [t \in CogTurns |->
          IF cogTurn[t].pc = "resolved" THEN [cogTurn[t] EXCEPT !.changed = TRUE]
          ELSE cogTurn[t]]
    /\ CogKeepsTables /\ UNCHANGED cogGuard

\* The process restarts: its requests, its guard and its transactions end.
CogRestart ==
    /\ cogTurn' = [t \in CogTurns |->
          IF cogTurn[t].pc = "idle" THEN cogTurn[t]
          ELSE IF cogTurn[t].pc \in {"answered", "done"}
          THEN [cogTurn[t] EXCEPT !.pc = "done"]
          ELSE CogEnded(t, "done")]
    /\ cogGuard' = [c \in CogConvs |-> CogNone]
    /\ cogConv' = [c \in CogConvs |->
          IF cogConv[c] = "pending" THEN "absent" ELSE cogConv[c]]
    /\ cogWriter' = CogNone
    /\ UNCHANGED cogMsgs

-----------------------------------------------------------------------------

CogInit ==
    /\ cogConv = [c \in CogConvs |-> IF c \in CogExisting THEN "live" ELSE "absent"]
    /\ cogMsgs = [c \in CogConvs |-> <<>>]
    /\ cogGuard = [c \in CogConvs |-> CogNone]
    /\ cogWriter = CogNone
    /\ cogTurn = [t \in CogTurns |-> CogFresh]

CogThreadNext(t) ==
    \/ \E lane \in CogLanes, c \in CogConvs : CogReserve(t, lane, c)
    \/ \E c \in CogConvs : CogBridge(t, c)
    \/ CogAcquire(t) \/ CogRefused(t)
    \/ CogResolve(t) \/ CogResolveFails(t)
    \/ CogCapture(t) \/ CogCaptureFails(t)
    \/ CogPrepare(t) \/ CogPrepareFails(t)
    \/ CogSynthesize(t) \/ CogInvoke(t) \/ CogAnswer(t) \/ CogSynthesisFails(t)
    \/ CogVerify(t) \/ CogPublish(t) \/ CogComplete(t) \/ CogPublicationFails(t)
    \/ CogRelease(t) \/ CogContextReply(t)

CogNext ==
    \/ \E t \in CogTurns : CogThreadNext(t)
    \/ \E c \in CogConvs : CogDelete(c)
    \/ CogEdit \/ CogRestart

CogSpec == CogInit /\ [][CogNext]_cogVars

-----------------------------------------------------------------------------
(* Properties.                                                             *)

CogIsCognitive(t) == cogTurn[t].lane = "cognitive"

\* A cognitive reply stands after its own question, no other cognitive turn
\* writes in between, and its snapshot saw every cognitive message before the
\* question: a turn answers the conversation as it stands, and two cognitive
\* turns of a conversation never mix (CognitiveTurnGuard, resolve_and_freeze).
\* The other lanes take no lease and may write in between.
CogReplySeesConversation ==
    \A c \in CogConvs : \A i \in DOMAIN cogMsgs[c] :
        LET m == cogMsgs[c][i] IN
        m.role = "assistant" /\ CogIsCognitive(m.turn) =>
            \E j \in 1..(i - 1) :
                /\ cogMsgs[c][j] = [turn |-> m.turn, role |-> "user"]
                /\ \A k \in (j + 1)..(i - 1) : ~CogIsCognitive(cogMsgs[c][k].turn)
                /\ \A k \in 1..(j - 1) :
                      CogIsCognitive(cogMsgs[c][k].turn) => k <= cogTurn[m.turn].seen

\* A cognitive reply in a conversation was accepted by the verification of
\* that very draft: neither its check nor the critic's review of it, which it
\* had if the model drafted it over a context, asked for a revision or found
\* the cognition invalid (_synthesize_verify, evaluate_publication_gate).
CogReviewedIsPublished ==
    \A c \in CogConvs : \A i \in DOMAIN cogMsgs[c] :
        LET q == cogTurn[cogMsgs[c][i].turn] IN
        cogMsgs[c][i].role = "assistant" /\ q.lane = "cognitive" =>
            /\ q.verdict \in {"pass", "insufficient"}
            /\ q.items /\ q.draft = "model" =>
                  /\ q.review.of = q.revision + 1
                  /\ CogSeverity[q.review.result] <= CogSeverity[q.verdict]

\* A reply whose verification found the evidence insufficient is the fixed
\* reply, never what a model drafted.  process_chat commits the draft it has,
\* whatever the gate's disposition; what keeps a model's draft out is spread:
\* the cognitive state that chooses the fixed reply, the tokens a critic may
\* answer with, and the order of the purposes, which refuses a revision of a
\* draft no model wrote (D133: bounded_insufficiency_only "does not authorize
\* the current ordinary Draft text for publication").
CogInsufficiencyIsFixed ==
    \A c \in CogConvs : \A i \in DOMAIN cogMsgs[c] :
        LET q == cogTurn[cogMsgs[c][i].turn] IN
        cogMsgs[c][i].role = "assistant" /\ q.lane = "cognitive"
            /\ q.verdict = "insufficient" => q.draft = "fixed"

\* Only what its verification let pass is published, and as it was verified:
\* the reviewed draft of a model, or the fixed reply.
CogOnlyVerifiedIsPublished == CogReviewedIsPublished /\ CogInsufficiencyIsFixed

=============================================================================

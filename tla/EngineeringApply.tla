--------------------------- MODULE EngineeringApply ---------------------------
(***************************************************************************)
(* Controlled Engineering Apply: one proposed change of one repository     *)
(* file, from the owner's proposal to the write on disk.                   *)
(*                                                                         *)
(* Three pieces of state, none of which locks another: the binding store   *)
(* (D109: what the owner is shown, per conversation), the approval store   *)
(* (D108: authority) and the file itself, which other programs edit too.   *)
(* HTTP requests run in pool threads; each action is one critical section  *)
(* of a store, or one access to the disk.  A store method reads the clock  *)
(* before it takes its lock, so it works with any instant between the end  *)
(* of the thread's previous step and the present.  A restart loses both    *)
(* stores and keeps the file.                                              *)
(*                                                                         *)
(* Abstracted: one path (changes of different files meet in the stores     *)
(* only, where the path plays no part) below a directory that stays; a     *)
(* digest is the content it was taken from; the guard always authorizes    *)
(* the plan built from an approved snapshot; a call whose digest or        *)
(* conversation does not match its binding is refused before it acts.      *)
(***************************************************************************)
EXTENDS Integers, Sequences, FiniteSets

CONSTANTS
    EngApprovals,      \* approval ids, drawn at random and never drawn twice
    EngRequests,       \* request threads
    EngConversations,
    EngContents,       \* what the file may hold
    EngAbsent,         \* the content of a file that does not exist
    EngNoApproval, EngNoConversation,
    EngInodes,         \* file identities; the disk may use one again
    EngNoInode,        \* the identity of a file that does not exist
    EngTTL,            \* DEFAULT_ENGINEERING_APPLY_APPROVAL_TTL
    EngMaxApprovals,   \* DEFAULT_MAX_ENGINEERING_APPLY_APPROVAL_RECORDS
    EngMaxBindings,    \* DEFAULT_ENGINEERING_OWNER_BINDING_CAPACITY
    EngMaxTime,        \* bound: the clock stays here
    EngMaxFaults       \* bound: restarts, and edits by other programs

ASSUME EngConstantsAssumption ==
    /\ IsFiniteSet(EngApprovals)
    /\ EngAbsent \notin EngContents
    /\ EngNoApproval \notin EngApprovals /\ EngNoConversation \notin EngConversations
    /\ EngNoInode \notin EngInodes
    /\ {EngTTL, EngMaxApprovals, EngMaxBindings, EngMaxTime, EngMaxFaults} \subseteq Nat

VARIABLES
    engClock,
    engFile,           \* content and identity of the file
    engProposals,      \* what each approval id was issued for, and until when
    engItems,          \* approval store: state of each record, or "absent"
    engBindings,       \* binding store: presentation state, or "absent"
    engRequests,       \* what each request thread is doing
    engWritten,        \* what was published on disk under each approval
    engFaults

engVars == <<engClock, engFile, engProposals, engItems, engBindings, engRequests,
             engWritten, engFaults>>
engDisk == <<engFile, engWritten>>

-----------------------------------------------------------------------------
(* Types.                                                                  *)

EngNoFile == [content |-> EngAbsent, inode |-> EngNoInode]
EngFile == [content : EngContents, inode : EngInodes] \cup {EngNoFile}

\* The base is Absent exactly when the operation is create_text.
EngProposal == [conversation : EngConversations \cup {EngNoConversation},
             base : EngContents \cup {EngAbsent},
             content : EngContents \cup {EngAbsent},
             expires : Nat]
EngNoProposal == [conversation |-> EngNoConversation, base |-> EngAbsent,
               content |-> EngAbsent, expires |-> 0]

EngOutcomes == {"applied", "stale", "failed", "indeterminate"}
EngRecordStates == {"absent", "pending", "approved", "denied", "claimed"} \cup EngOutcomes

EngLive == {"pending", "approved"}
EngTerminal == {"denied", "expired"} \cup EngOutcomes
EngPresentationStates == {"absent"} \cup EngLive \cup EngTerminal

EngSteps == {"idle", "check", "draft", "register", "bind",
          "approve", "deny", "apply", "decide", "transition",
          "get", "revalidate", "finish", "claim",
          "resolve", "recheck", "publish", "complete"}

\* base: the content the thread drafts from; inode: the identity it saw;
\* outcome: what it is about to record and show.
EngRequest == [pc : EngSteps,
            approval : EngApprovals \cup {EngNoApproval},
            conversation : EngConversations \cup {EngNoConversation},
            content : EngContents \cup {EngAbsent},
            base : EngContents \cup {EngAbsent},
            inode : EngInodes \cup {EngNoInode},
            outcome : EngRecordStates,
            since : Nat]

EngIdle == [pc |-> "idle", approval |-> EngNoApproval, conversation |-> EngNoConversation,
         content |-> EngAbsent, base |-> EngAbsent, inode |-> EngNoInode,
         outcome |-> "absent", since |-> 0]

EngTypeOK ==
    /\ engClock \in 0..EngMaxTime
    /\ engFile \in EngFile
    /\ engProposals \in [EngApprovals -> EngProposal]
    /\ engItems \in [EngApprovals -> EngRecordStates]
    /\ engBindings \in [EngApprovals -> EngPresentationStates]
    /\ engRequests \in [EngRequests -> EngRequest]
    /\ engWritten \in [EngApprovals -> Seq(EngContents)]
    /\ engFaults \in 0..EngMaxFaults

EngHeld(store) == {a \in EngApprovals : store[a] # "absent"}

EngIssued(a) == engProposals[a].content # EngAbsent
EngExpired(a, now) == now >= engProposals[a].expires

EngInstants(q) == q.since .. engClock

EngReply(r) == engRequests' = [engRequests EXCEPT ![r] = EngIdle]

EngGoes(r, q) == engRequests' = [engRequests EXCEPT ![r] = [q EXCEPT !.since = engClock]]

-----------------------------------------------------------------------------
(* The binding store: what the owner is shown.                             *)

\* _cleanup: a live workflow past its expiry is shown as expired.
EngSwept(now) ==
    [a \in EngApprovals |->
        IF engBindings[a] \in EngLive /\ EngExpired(a, now) THEN "expired" ELSE engBindings[a]]

EngOf(v, shown) ==
    {a \in EngApprovals : shown[a] # "absent" /\ engProposals[a].conversation = v}

EngWithout(shown, S) == [a \in EngApprovals |-> IF a \in S THEN "absent" ELSE shown[a]]

\* A full store gives up one terminal workflow, if there is one.
EngRooms(shown) ==
    LET full == Cardinality(EngHeld(shown)) >= EngMaxBindings
        past == {a \in EngApprovals : shown[a] \in EngTerminal}
    IN  IF full /\ past # {} THEN {EngWithout(shown, {a}) : a \in past} ELSE {shown}

\* A mutant of EngBind: no second look at the conversation.
EngBind_NoActiveCheck(r) ==
    LET q == engRequests[r]  a == q.approval IN
    /\ q.pc = "bind"
    /\ \E now \in EngInstants(q) :
          LET shown == EngSwept(now) IN
          \E room \in EngRooms(shown) :
             engBindings' =
                IF Cardinality(EngHeld(room)) >= EngMaxBindings \/ EngExpired(a, now)
                         THEN room ELSE [room EXCEPT ![a] = "pending"]
    /\ EngReply(r)
    /\ UNCHANGED <<engClock, engDisk, engProposals, engItems, engFaults>>

\* bind: the conversation's finished workflow makes room even when the new
\* one is then refused.
EngBind(r) ==
    LET q == engRequests[r]  a == q.approval IN
    /\ q.pc = "bind"
    /\ \E now \in EngInstants(q) :
          LET shown == EngSwept(now)
              mine == EngOf(engProposals[a].conversation, shown)
          IN  \/ /\ \E b \in mine : shown[b] \in EngLive
                 /\ engBindings' = shown
              \/ /\ \A b \in mine : shown[b] \notin EngLive
                 /\ \E room \in EngRooms(EngWithout(shown, mine)) :
                       engBindings' =
                          IF Cardinality(EngHeld(room)) >= EngMaxBindings \/ EngExpired(a, now)
                          THEN room ELSE [room EXCEPT ![a] = "pending"]
    /\ EngReply(r)
    /\ UNCHANGED <<engClock, engDisk, engProposals, engItems, engFaults>>

\* require: the owner's call acts only on the state she was shown.
EngRequire(r, op, expected, next) ==
    LET q == engRequests[r] IN
    /\ q.pc = op
    /\ \E now \in EngInstants(q) :
          /\ engBindings' = EngSwept(now)
          /\ IF EngSwept(now)[q.approval] = expected THEN EngGoes(r, next) ELSE EngReply(r)
    /\ UNCHANGED <<engClock, engDisk, engProposals, engItems, engFaults>>

\* transition: expected_state depends on the operation alone.
EngShown(r, expected) ==
    LET q == engRequests[r] IN
    /\ q.pc = "transition"
    /\ (expected = "pending") = (q.outcome \in {"approved", "denied"})
    /\ \E now \in EngInstants(q) :
          engBindings' = IF EngSwept(now)[q.approval] = expected
                      THEN [EngSwept(now) EXCEPT ![q.approval] = q.outcome]
                      ELSE EngSwept(now)
    /\ EngReply(r)
    /\ UNCHANGED <<engClock, engDisk, engProposals, engItems, engFaults>>

EngTransition(r) == EngShown(r, "pending") \/ EngShown(r, "approved")

\* GET .../active: the owner looks.
EngLook ==
    /\ engBindings' = EngSwept(engClock)
    /\ UNCHANGED <<engClock, engDisk, engProposals, engItems, engRequests, engFaults>>

-----------------------------------------------------------------------------
(* The approval store: authority.                                          *)

\* _cleanup_expired: whatever the state of the record.
EngCleaned(now) ==
    [a \in EngApprovals |-> IF EngExpired(a, now) THEN "absent" ELSE engItems[a]]

\* The thread's instant also fixes when the new record expires.  Without an
\* id to allocate the proposal is refused.
EngRegister(r) ==
    LET q == engRequests[r] IN
    /\ q.pc = "register"
    /\ \E now \in EngInstants(q) :
          LET kept == EngCleaned(now) IN
          \/ /\ \/ Cardinality(EngHeld(kept)) >= EngMaxApprovals
                \/ \A a \in EngApprovals : EngIssued(a)
             /\ engItems' = kept
             /\ EngReply(r)
             /\ UNCHANGED engProposals
          \/ /\ Cardinality(EngHeld(kept)) < EngMaxApprovals
             /\ \E a \in EngApprovals :
                   /\ ~EngIssued(a)
                   /\ engItems' = [kept EXCEPT ![a] = "pending"]
                   /\ engProposals' = [engProposals EXCEPT ![a] =
                         [conversation |-> q.conversation, base |-> q.base,
                          content |-> q.content, expires |-> now + EngTTL]]
                   /\ EngGoes(r, [EngIdle EXCEPT !.pc = "bind", !.approval = a])
    /\ UNCHANGED <<engClock, engDisk, engBindings, engFaults>>

\* approve, deny, get_approved, finish_approved, claim_approved: a live
\* record in the expected state moves on; an expired one is dropped; any
\* other is left alone and the call refused.
EngAdvance(r, expected, state, next) ==
    LET q == engRequests[r]  a == q.approval IN
    /\ \E now \in EngInstants(q) :
          \/ /\ engItems[a] = expected /\ ~EngExpired(a, now)
             /\ engItems' = [engItems EXCEPT ![a] = state]
             /\ EngGoes(r, next)
          \/ /\ engItems[a] # expected \/ EngExpired(a, now)
             /\ engItems' = [engItems EXCEPT ![a] =
                             IF EngExpired(a, now) THEN "absent" ELSE @]
             /\ EngReply(r)
    /\ UNCHANGED <<engClock, engDisk, engProposals, engBindings, engFaults>>

EngDecide(r) ==
    LET q == engRequests[r] IN
    /\ q.pc = "decide"
    /\ EngAdvance(r, "pending", q.outcome, [q EXCEPT !.pc = "transition"])

EngGetApproved(r) ==
    /\ engRequests[r].pc = "get"
    /\ EngAdvance(r, "approved", "approved", [engRequests[r] EXCEPT !.pc = "revalidate"])

\* A mutant: a record that is claimed or written meanwhile is finished too.
EngFinishApproved_AnyState(r) ==
    LET q == engRequests[r] IN
    /\ q.pc = "finish"
    /\ EngAdvance(r, engItems[q.approval], q.outcome, [q EXCEPT !.pc = "transition"])

EngFinishApproved(r) ==
    LET q == engRequests[r] IN
    /\ q.pc = "finish"
    /\ EngAdvance(r, "approved", q.outcome, [q EXCEPT !.pc = "transition"])

\* A mutant: the claim looks only for a record.
EngClaimApproved_AnyState(r) ==
    LET q == engRequests[r] IN
    /\ q.pc = "claim"
    /\ EngAdvance(r, engItems[q.approval], "claimed", [q EXCEPT !.pc = "resolve"])

EngClaimApproved(r) ==
    LET q == engRequests[r] IN
    /\ q.pc = "claim"
    /\ EngAdvance(r, "approved", "claimed", [q EXCEPT !.pc = "resolve"])

\* complete: reads no clock; a record that was dropped meanwhile cannot take
\* its outcome any more.
EngComplete(r) ==
    LET q == engRequests[r] IN
    /\ q.pc = "complete"
    /\ \/ /\ engItems[q.approval] = "claimed"
          /\ engItems' = [engItems EXCEPT ![q.approval] = q.outcome]
          /\ EngGoes(r, [q EXCEPT !.pc = "transition"])
       \/ /\ engItems[q.approval] # "claimed"
          /\ EngReply(r)
          /\ UNCHANGED engItems
    /\ UNCHANGED <<engClock, engDisk, engProposals, engBindings, engFaults>>

-----------------------------------------------------------------------------
(* The file.                                                               *)

EngReads(r, next) ==
    /\ next
    /\ UNCHANGED <<engClock, engDisk, engProposals, engItems, engBindings, engFaults>>

\* propose observes the base: create_text wants no file, replace_text wants
\* one that differs.  Anything else, or a failed read, is refused.
EngDraft(r) ==
    LET q == engRequests[r] IN
    /\ q.pc = "draft"
    /\ EngReads(r,
          \/ EngReply(r)
          \/ /\ q.content # engFile.content
             /\ EngGoes(r, [q EXCEPT !.pc = "register", !.base = engFile.content]))

\* _revalidate (D106), before the claim.
EngRevalidate(r) ==
    LET q == engRequests[r]
        finish(s) == EngGoes(r, [q EXCEPT !.pc = "finish", !.outcome = s])
    IN  /\ q.pc = "revalidate"
        /\ EngReads(r,
              \/ finish("failed")                       \* unavailable
              \/ /\ engFile.content # engProposals[q.approval].base
                 /\ finish("stale")
              \/ /\ engFile.content = engProposals[q.approval].base
                 /\ EngGoes(r, [q EXCEPT !.pc = "claim"]))

EngSettles(r, s) ==
    EngGoes(r, [engRequests[r] EXCEPT !.pc = "complete", !.outcome = s, !.inode = EngNoInode])

\* The D48 adapter, after the claim: target, identity and digest ...
EngResolve(r) ==
    LET q == engRequests[r] IN
    /\ q.pc = "resolve"
    /\ EngReads(r,
          \/ EngSettles(r, "indeterminate")                \* I/O error
          \/ /\ engFile.content # engProposals[q.approval].base
             /\ EngSettles(r, "stale")
          \/ /\ engFile.content = engProposals[q.approval].base
             /\ EngGoes(r, [q EXCEPT !.pc = "recheck", !.inode = engFile.inode]))

\* ... and, with the new content staged in a temporary file, once more.
EngRecheck(r) ==
    LET q == engRequests[r]
        same == engFile = [content |-> engProposals[q.approval].base, inode |-> q.inode]
    IN  /\ q.pc = "recheck"
        /\ EngReads(r,
              \/ EngSettles(r, "indeterminate")
              \/ ~same /\ EngSettles(r, "stale")
              \/ same /\ EngGoes(r, [q EXCEPT !.pc = "publish", !.inode = EngNoInode]))

EngCreates(a) == engProposals[a].base = EngAbsent

EngPublishIf(r, free) ==
    LET q == engRequests[r]  a == q.approval IN
    /\ q.pc = "publish"
    /\ \/ /\ EngSettles(r, "indeterminate")
          /\ UNCHANGED engDisk
       \/ /\ ~free
          /\ EngSettles(r, "stale")
          /\ UNCHANGED engDisk
       \/ /\ free
          /\ \E i \in EngInodes \ {engFile.inode} :
                engFile' = [content |-> engProposals[a].content, inode |-> i]
          /\ engWritten' = [engWritten EXCEPT ![a] = Append(@, engProposals[a].content)]
          /\ EngSettles(r, "applied")
    /\ UNCHANGED <<engClock, engProposals, engItems, engBindings, engFaults>>

\* A mutant: create_text publishes by renaming, too.
EngPublish_Renames(r) == EngPublishIf(r, TRUE)

\* os.link refuses an existing target; os.replace takes its place whatever
\* it holds by now.
EngPublish(r) ==
    EngPublishIf(r, EngCreates(engRequests[r].approval) => engFile.content = EngAbsent)

-----------------------------------------------------------------------------
(* The owner's calls, the process and the world around it.                 *)

EngCallPropose(r, v, c) ==
    /\ engRequests[r].pc = "idle"
    /\ EngGoes(r, [EngIdle EXCEPT !.pc = "check", !.conversation = v, !.content = c])
    /\ UNCHANGED <<engClock, engDisk, engProposals, engItems, engBindings, engFaults>>

EngCall(r, op, a) ==
    /\ engRequests[r].pc = "idle"
    /\ EngIssued(a)
    /\ EngGoes(r, [EngIdle EXCEPT !.pc = op, !.approval = a])
    /\ UNCHANGED <<engClock, engDisk, engProposals, engItems, engBindings, engFaults>>

\* propose starts from active_for_conversation.
EngCheckActive(r) ==
    LET q == engRequests[r] IN
    /\ q.pc = "check"
    /\ \E now \in EngInstants(q) :
          /\ engBindings' = EngSwept(now)
          /\ IF \E a \in EngOf(q.conversation, EngSwept(now)) : EngSwept(now)[a] \in EngLive
             THEN EngReply(r)
             ELSE EngGoes(r, [q EXCEPT !.pc = "draft"])
    /\ UNCHANGED <<engClock, engDisk, engProposals, engItems, engFaults>>

EngRequireApprove(r) ==
    EngRequire(r, "approve", "pending",
            [engRequests[r] EXCEPT !.pc = "decide", !.outcome = "approved"])
EngRequireDeny(r) ==
    EngRequire(r, "deny", "pending",
            [engRequests[r] EXCEPT !.pc = "decide", !.outcome = "denied"])
EngRequireApply(r) ==
    EngRequire(r, "apply", "approved", [engRequests[r] EXCEPT !.pc = "get"])

\* Another program writes, replaces or removes the file.
EngEdit ==
    /\ engFaults < EngMaxFaults
    /\ engFaults' = engFaults + 1
    /\ engFile' \in EngFile \ {engFile}
    /\ UNCHANGED <<engClock, engProposals, engItems, engBindings, engRequests, engWritten>>

EngRestart ==
    /\ engFaults < EngMaxFaults
    /\ engFaults' = engFaults + 1
    /\ engItems' = [a \in EngApprovals |-> "absent"]
    /\ engBindings' = [a \in EngApprovals |-> "absent"]
    /\ engRequests' = [r \in EngRequests |-> EngIdle]
    /\ UNCHANGED <<engClock, engDisk, engProposals>>

EngTick ==
    /\ engClock < EngMaxTime
    /\ engClock' = engClock + 1
    /\ UNCHANGED <<engDisk, engProposals, engItems, engBindings, engRequests, engFaults>>

EngInit ==
    /\ engClock = 0
    /\ engFile \in EngFile
    /\ engProposals = [a \in EngApprovals |-> EngNoProposal]
    /\ engItems = [a \in EngApprovals |-> "absent"]
    /\ engBindings = [a \in EngApprovals |-> "absent"]
    /\ engRequests = [r \in EngRequests |-> EngIdle]
    /\ engWritten = [a \in EngApprovals |-> <<>>]
    /\ engFaults = 0

EngOwner(r) ==
    \/ \E v \in EngConversations, c \in EngContents : EngCallPropose(r, v, c)
    \/ \E op \in {"approve", "deny", "apply"}, a \in EngApprovals : EngCall(r, op, a)

\* What a thread does on its own once the owner has called.
EngServe(r) ==
    \/ EngCheckActive(r) \/ EngDraft(r) \/ EngRegister(r) \/ EngBind(r)
    \/ EngRequireApprove(r) \/ EngRequireDeny(r) \/ EngRequireApply(r)
    \/ EngDecide(r) \/ EngTransition(r)
    \/ EngGetApproved(r) \/ EngRevalidate(r) \/ EngFinishApproved(r) \/ EngClaimApproved(r)
    \/ EngResolve(r) \/ EngRecheck(r) \/ EngPublish(r) \/ EngComplete(r)

EngNext ==
    \/ \E r \in EngRequests : EngOwner(r) \/ EngServe(r)
    \/ EngLook
    \/ EngEdit
    \/ EngRestart
    \/ EngTick

EngSpec == EngInit /\ [][EngNext]_engVars

-----------------------------------------------------------------------------
(* Properties.                                                             *)

\* What the owner is shown never misleads, although the three pieces of state
\* behind it change one after the other: what is shown as denied, stale or
\* failed was not written, what is shown as applied was, and "One active
\* non-terminal workflow is allowed per conversation", however two proposals
\* of the conversation interleave.
EngPresentationIsTruthful ==
    /\ \A a \in EngApprovals :
        /\ engBindings[a] \in {"denied", "stale", "failed"} => engWritten[a] = <<>>
        /\ engBindings[a] = "applied" => engWritten[a] # <<>>
    /\ \A a, b \in EngApprovals :
        /\ engBindings[a] \in EngLive /\ engBindings[b] \in EngLive
        /\ engProposals[a].conversation = engProposals[b].conversation
        => a = b

\* "D48 create race after D106 revalidation becomes terminal stale, not
\* overwrite": a create never destroys a file that appeared meanwhile.
EngCreateNeverOverwrites ==
    [][\A a \in EngApprovals :
          engWritten'[a] # engWritten[a] /\ EngCreates(a) => engFile.content = EngAbsent]_engVars

\* The same for replace_text, "terminal stale, not overwrite": nothing but the
\* reviewed base, or what the owner wants there anyway, is ever replaced.
EngReplaceNeverOverwrites ==
    [][\A a \in EngApprovals :
          engWritten'[a] # engWritten[a] /\ ~EngCreates(a)
              => engFile.content \in {engProposals[a].base, engProposals[a].content}]_engVars

EngInFlight(a) ==
    \E r \in EngRequests :
        /\ engRequests[r].approval = a
        /\ engRequests[r].pc \in {"resolve", "recheck", "publish", "complete"}

\* "Atomically record one terminal outcome": while the record is there, a
\* change that reached the disk is recorded or about to be; it is not
\* dropped in between.
EngWrittenIsRecorded ==
    \A a \in EngApprovals :
        engItems[a] = "absent" /\ EngInFlight(a) => engWritten[a] = <<>>

\* Authority, whatever became of the record: the one thread that claimed
\* holds it, and it ends with the outcome.
EngStanding ==
    [a \in EngApprovals |->
        IF ~EngIssued(a) THEN "unasked"
        ELSE IF EngInFlight(a) THEN "spent"
        ELSE IF engItems[a] \in {"pending", "approved", "denied"} THEN engItems[a]
        ELSE "gone"]

EngAuthority == INSTANCE OneShotAuthority WITH
    Approvals <- EngApprovals,
    Contents <- EngContents,
    NoContent <- EngAbsent,
    standing <- EngStanding,
    terms <- [a \in EngApprovals |-> engProposals[a].content],
    effects <- engWritten

\* The lane is a one-shot authority: CLAIMED -> AT MOST ONE DISPATCH, of the
\* content the owner reviewed.
EngImplementsAuthority == EngAuthority!Spec

=============================================================================

-------------------------- MODULE AutomationApplyProofs --------------------------
(***************************************************************************)
(* The Controlled Engineering Apply, the Chat page, and the run of both    *)
(* with the automations, for every number of plans, contents, threads,     *)
(* conversations, cards, mounts and answers on their way.                  *)
(*                                                                         *)
(* EngineeringApply: a thread that holds a claim knows whether the file of *)
(* its approval is written and tells it; once the approval is shown as     *)
(* undone nobody is left who could write (EngOver); and a create links a   *)
(* name that must not exist, so what appeared meanwhile stays.             *)
(***************************************************************************)
EXTENDS MCAutomationApply, AutomationProofs

-----------------------------------------------------------------------------
(* EngineeringApply: the inductive invariant.                               *)

\* A thread that has claimed: before the write, and until the outcome is
\* recorded.
EngAloft == {"resolve", "recheck", "publish"}
EngFlying == EngAloft \cup {"complete"}

\* A thread that has no approval yet.
EngOpening == {"idle", "check", "draft", "register"}

EngUndone == {"denied", "stale", "failed"}

\* What an outcome says of the file.
EngTells(outcome, a) ==
    /\ outcome \in EngUndone => engWritten[a] = <<>>
    /\ outcome = "applied" => engWritten[a] # <<>>

\* Nothing can be written under the approval any more.
EngOver(a) ==
    /\ engItems[a] \in {"absent", "denied"} \cup EngOutcomes
    /\ \A r \in EngRequests : engRequests[r].approval = a => engRequests[r].pc \notin EngAloft

\* A thread works on an issued approval; one that has claimed holds it until
\* it is written or not, and says so.
EngThreadOK(r) ==
    LET q == engRequests[r]  a == q.approval IN
    /\ q.pc \in {"check", "draft", "register"} => q.content \in EngContents
    /\ q.pc \notin EngOpening => a \in EngApprovals /\ EngIssued(a)
    /\ q.pc = "decide" => q.outcome \in {"approved", "denied"}
    /\ q.pc = "finish" => q.outcome \in {"stale", "failed"}
    /\ q.pc = "complete" => q.outcome \in {"applied", "stale", "indeterminate"}
    /\ q.pc = "transition" => q.outcome \in {"approved", "denied"} \cup EngOutcomes
    /\ q.pc \in EngFlying => engItems[a] \in {"claimed", "absent"}
    /\ q.pc \in EngAloft => engWritten[a] = <<>>
    /\ q.pc \in {"complete", "transition"} => EngTells(q.outcome, a)
    /\ q.pc = "transition" /\ q.outcome \in EngUndone => EngOver(a)

\* An id nobody was given has left no trace; what is not claimed yet is not
\* written and in nobody's hands; what is shown as undone stays undone.
EngApprovalOK(a) ==
    /\ ~EngIssued(a) =>
          engItems[a] = "absent" /\ engBindings[a] = "absent" /\ engWritten[a] = <<>>
    /\ engItems[a] \in {"pending", "approved", "denied"} =>
          engWritten[a] = <<>> /\ ~EngInFlight(a)
    /\ EngTells(engBindings[a], a)
    /\ engBindings[a] \in EngUndone => EngOver(a)

\* One thread claims an approval.
EngExclusive ==
    \A r, s \in EngRequests :
        /\ engRequests[r].pc \in EngFlying /\ engRequests[s].pc \in EngFlying
        /\ engRequests[r].approval = engRequests[s].approval
        => r = s

EngOneActive ==
    \A a, b \in EngApprovals :
        /\ engBindings[a] \in EngLive /\ engBindings[b] \in EngLive
        /\ engProposals[a].conversation = engProposals[b].conversation
        => a = b

EngIInv ==
    /\ EngTypeOK
    /\ \A r \in EngRequests : EngThreadOK(r)
    /\ \A a \in EngApprovals : EngApprovalOK(a)
    /\ EngExclusive /\ EngOneActive

-----------------------------------------------------------------------------
(* EngineeringApply: types.                                                 *)

LEMMA EngBounds ==
    /\ IsFiniteSet(EngApprovals) /\ EngAbsent \notin EngContents
    /\ EngNoApproval \notin EngApprovals
    /\ EngTTL \in Nat /\ EngMaxTime \in Nat /\ EngMaxFaults \in Nat
BY EngConstantsAssumption

LEMMA EngIdleIs ==
    /\ EngIdle \in EngRequest /\ EngIdle.pc = "idle" /\ EngIdle.approval = EngNoApproval
BY DEF EngIdle, EngRequest, EngSteps, EngRecordStates

LEMMA EngRequestIs ==
    ASSUME EngTypeOK, NEW r \in EngRequests
    PROVE  /\ engRequests[r] \in EngRequest /\ engClock \in Nat
           /\ EngInstants(engRequests[r]) \subseteq Nat
<1>1. engRequests[r] \in EngRequest /\ engClock \in Nat
  BY EngBounds DEF EngTypeOK
<1>2. engRequests[r].since \in Nat
  BY <1>1 DEF EngRequest
<1> QED
  BY <1>1, <1>2 DEF EngInstants

\* What a thread is handed, it has, but for the instant.
LEMMA EngGoesIs ==
    ASSUME EngTypeOK, NEW r \in EngRequests, NEW q \in EngRequest, EngGoes(r, q)
    PROVE  /\ engRequests' \in [EngRequests -> EngRequest]
           /\ engRequests'[r].pc = q.pc /\ engRequests'[r].approval = q.approval
           /\ engRequests'[r].content = q.content /\ engRequests'[r].outcome = q.outcome
           /\ engRequests'[r].conversation = q.conversation
           /\ engRequests'[r].base = q.base /\ engRequests'[r].inode = q.inode
           /\ \A s \in EngRequests \ {r} : engRequests'[s] = engRequests[s]
<1> DEFINE p == [q EXCEPT !.since = engClock]
<1>1. /\ p \in EngRequest /\ p.pc = q.pc /\ p.approval = q.approval
      /\ p.content = q.content /\ p.outcome = q.outcome
      /\ p.conversation = q.conversation /\ p.base = q.base /\ p.inode = q.inode
  BY EngRequestIs DEF EngRequest
<1>2. engRequests' = [engRequests EXCEPT ![r] = p] /\ engRequests \in [EngRequests -> EngRequest]
  BY DEF EngGoes, EngTypeOK
<1> HIDE DEF p
<1> QED
  BY <1>1, <1>2

LEMMA EngReplyIs ==
    ASSUME EngTypeOK, NEW r \in EngRequests, EngReply(r)
    PROVE  /\ engRequests' \in [EngRequests -> EngRequest]
           /\ engRequests'[r].pc = "idle"
           /\ \A s \in EngRequests \ {r} : engRequests'[s] = engRequests[s]
BY EngIdleIs DEF EngReply, EngTypeOK

\* A thread that steps on, or records what it is about to show.
LEMMA EngStepIs ==
    ASSUME NEW q \in EngRequest, NEW pc \in EngSteps, NEW outcome \in EngRecordStates
    PROVE  /\ [q EXCEPT !.pc = pc] \in EngRequest
           /\ [q EXCEPT !.pc = pc].pc = pc
           /\ [q EXCEPT !.pc = pc].approval = q.approval
           /\ [q EXCEPT !.pc = pc].outcome = q.outcome
           /\ [q EXCEPT !.pc = pc].content = q.content
           /\ [q EXCEPT !.pc = pc, !.outcome = outcome] \in EngRequest
           /\ [q EXCEPT !.pc = pc, !.outcome = outcome].pc = pc
           /\ [q EXCEPT !.pc = pc, !.outcome = outcome].approval = q.approval
           /\ [q EXCEPT !.pc = pc, !.outcome = outcome].outcome = outcome
BY DEF EngRequest

LEMMA EngStatesAre ==
    /\ EngAloft \subseteq EngFlying /\ EngFlying \cap EngOpening = {}
    /\ EngFlying \subseteq EngSteps /\ EngOpening \subseteq EngSteps
    /\ EngOutcomes \subseteq EngRecordStates
    /\ EngUndone \cap {"pending", "approved", "expired", "absent", "applied"} = {}
BY DEF EngAloft, EngFlying, EngOpening, EngSteps, EngOutcomes, EngRecordStates, EngUndone

-----------------------------------------------------------------------------
(* EngineeringApply: what a step leaves alone.                              *)

\* The state of an approval moves as far as one thread can move it.
EngMoves(r, a) ==
    LET q == engRequests[r] IN
    /\ EngIssued(a) => engProposals'[a] = engProposals[a]
    /\ EngIssued(a) \/ ~EngIssued(a)' =>
          \/ engItems'[a] = engItems[a]
          \/ engItems'[a] = "absent"
          \/ engItems[a] \in {"pending", "approved"}
          \/ /\ engItems[a] = "claimed" /\ q.pc = "complete" /\ q.approval = a
             /\ engItems'[a] \in EngOutcomes
    /\ ~EngIssued(a)' =>
          engItems'[a] = "absent" /\ engBindings'[a] = "absent" /\ engWritten'[a] = <<>>
    /\ \/ engWritten'[a] = engWritten[a]
       \/ q.pc = "publish" /\ q.approval = a /\ engWritten'[a] # <<>>
    /\ engItems'[a] \in {"pending", "approved", "denied"} =>
          /\ ~EngIssued(a) \/ engItems[a] \in {"pending", "approved", "denied"}
          /\ engWritten'[a] = engWritten[a]
    /\ \/ engBindings'[a] \in {engBindings[a], "absent", "expired", "pending"}
       \/ /\ q.pc = "transition" /\ q.approval = a /\ engBindings'[a] = q.outcome
          /\ engWritten'[a] = engWritten[a] /\ EngIssued(a)

\* Only a claim takes a thread into the air, and only a look at the file keeps
\* it there.
EngClimbs(r) ==
    LET q == engRequests[r]  p == engRequests'[r] IN
    /\ \A s \in EngRequests \ {r} : engRequests'[s] = engRequests[s]
    /\ p.pc \in EngFlying =>
          /\ p.approval = q.approval
          /\ engItems'[q.approval] \notin {"pending", "approved", "denied"}
          /\ q.pc \in EngFlying \/ engItems[q.approval] = "approved"
    /\ p.pc \in EngAloft => q.pc # "complete"

LEMMA EngOverKept ==
    ASSUME EngIInv, NEW r \in EngRequests, EngClimbs(r),
           NEW a \in EngApprovals, EngMoves(r, a), EngIssued(a), EngOver(a)
    PROVE  EngOver(a)' /\ engWritten'[a] = engWritten[a]
<1>1. engItems'[a] \in {engItems[a], "absent"}
  BY DEF EngMoves, EngOver, EngOutcomes
<1>2. ASSUME NEW s \in EngRequests, engRequests'[s].approval = a,
             engRequests'[s].pc \in EngAloft
      PROVE  FALSE
  <2>1. CASE s # r
    BY <1>2, <2>1 DEF EngClimbs, EngOver
  <2>2. CASE s = r
    <3>1. \/ engRequests[r].approval = a /\ engRequests[r].pc \in EngAloft
          \/ engItems[a] = "approved"
      BY <1>2, <2>2 DEF EngClimbs, EngFlying
    <3> QED
      BY <1>2, <2>2, <3>1 DEF EngClimbs, EngOver, EngFlying, EngOutcomes
  <2> QED
    BY <2>1, <2>2
<1>3. engWritten'[a] = engWritten[a]
  BY DEF EngMoves, EngOver, EngAloft
<1> QED
  BY <1>1, <1>2, <1>3 DEF EngOver

\* The other threads still work on what they worked on.
LEMMA EngOthersOK ==
    ASSUME EngIInv, NEW r \in EngRequests, EngClimbs(r),
           \A a \in EngApprovals : EngMoves(r, a),
           NEW s \in EngRequests \ {r}
    PROVE  EngThreadOK(s)'
<1> PICK a : a = engRequests[s].approval
  OBVIOUS
<1>1. engRequests'[s] = engRequests[s] /\ EngThreadOK(s) /\ EngThreadOK(r)
  BY DEF EngClimbs, EngIInv
<1>2. CASE engRequests[s].pc \in EngOpening
  BY <1>1, <1>2 DEF EngThreadOK, EngOpening, EngFlying, EngAloft
<1>3. CASE engRequests[s].pc \notin EngOpening
  <2>1. a \in EngApprovals /\ EngIssued(a) /\ EngMoves(r, a)
    BY <1>1, <1>3 DEF EngThreadOK
  <2>2. EngIssued(a)'
    BY <2>1 DEF EngMoves, EngIssued
  <2>3. ASSUME engRequests[s].pc \in EngFlying
        PROVE  engItems'[a] \in {"claimed", "absent"} /\ engWritten'[a] = engWritten[a]
    <3>1. engItems[a] \in {"claimed", "absent"}
      BY <1>1, <2>3 DEF EngThreadOK
    <3>2. ~(engRequests[r].pc \in EngFlying /\ engRequests[r].approval = a)
      BY <2>3 DEF EngIInv, EngExclusive
    <3> QED
      BY <2>1, <3>1, <3>2 DEF EngMoves, EngFlying, EngAloft
  <2>4. ASSUME engRequests[s].pc = "transition"
        PROVE  /\ EngTells(engRequests[s].outcome, a)'
               /\ engRequests[s].outcome \in EngUndone => EngOver(a)'
    <3>1. /\ EngTells(engRequests[s].outcome, a)
          /\ engRequests[s].outcome \in EngUndone => EngOver(a)
      BY <1>1, <2>4 DEF EngThreadOK
    <3>2. CASE engRequests[s].outcome \in EngUndone
      <4>1. EngOver(a)' /\ engWritten'[a] = engWritten[a]
        BY <2>1, <3>1, <3>2, EngOverKept
      <4> QED
        BY <1>1, <3>1, <3>2, <4>1 DEF EngTells
    <3>3. CASE engRequests[s].outcome \notin EngUndone
      BY <1>1, <2>1, <3>1, <3>3 DEF EngTells, EngMoves
    <3> QED
      BY <3>2, <3>3
  <2> QED
    BY <1>1, <2>1, <2>2, <2>3, <2>4 DEF EngThreadOK, EngFlying, EngTells
<1> QED
  BY <1>2, <1>3

\* Every approval keeps what the invariant says of it.
LEMMA EngApprovalsOK ==
    ASSUME EngIInv, NEW r \in EngRequests, EngClimbs(r),
           NEW a \in EngApprovals, EngMoves(r, a)
    PROVE  EngApprovalOK(a)'
<1>1. EngApprovalOK(a) /\ EngThreadOK(r)
  BY DEF EngIInv
<1>2. ASSUME engItems'[a] \in {"pending", "approved", "denied"}
      PROVE  engWritten'[a] = <<>> /\ ~EngInFlight(a)'
  <2>1. engWritten[a] = <<>> /\ engWritten'[a] = engWritten[a] /\ ~EngInFlight(a)
    <3>1. CASE EngIssued(a)
      BY <1>1, <1>2, <3>1 DEF EngMoves, EngApprovalOK
    <3>2. CASE ~EngIssued(a)
      <4>1. \A s \in EngRequests :
              ~(engRequests[s].approval = a /\ engRequests[s].pc \in EngFlying)
        BY <3>2 DEF EngIInv, EngThreadOK, EngFlying, EngAloft, EngOpening
      <4> QED
        BY <1>1, <1>2, <3>2, <4>1 DEF EngMoves, EngApprovalOK, EngInFlight, EngFlying, EngAloft
    <3> QED
      BY <3>1, <3>2
  <2>2. ASSUME NEW s \in EngRequests, engRequests'[s].approval = a,
               engRequests'[s].pc \in EngFlying
        PROVE  FALSE
    <3>1. s = r
      BY <2>1, <2>2 DEF EngClimbs, EngInFlight, EngFlying, EngAloft
    <3> QED
      BY <1>2, <2>2, <3>1 DEF EngClimbs
  <2> QED
    BY <2>1, <2>2 DEF EngInFlight, EngFlying, EngAloft
<1>3. EngTells(engBindings[a], a)' /\ (engBindings'[a] \in EngUndone => EngOver(a)')
  <2>1. CASE ~EngIssued(a)
    BY <1>1, <2>1 DEF EngMoves, EngApprovalOK, EngTells, EngUndone
  <2>2. ASSUME NEW shown, EngTells(shown, a), shown \in EngUndone => EngOver(a),
               engBindings'[a] = shown, EngIssued(a)
        PROVE  EngTells(engBindings[a], a)' /\ (engBindings'[a] \in EngUndone => EngOver(a)')
    <3>1. CASE shown \in EngUndone
      <4>1. EngOver(a)' /\ engWritten'[a] = engWritten[a]
        BY <2>2, <3>1, EngOverKept
      <4> QED
        BY <2>2, <4>1 DEF EngTells
    <3>2. CASE shown \notin EngUndone
      BY <2>2, <3>2 DEF EngTells, EngMoves
    <3> QED
      BY <3>1, <3>2
  <2>3. CASE EngIssued(a) /\ engBindings'[a] = engBindings[a]
    BY <1>1, <2>2, <2>3 DEF EngApprovalOK
  <2>4. CASE engBindings'[a] \in {"absent", "expired", "pending"}
    BY <2>4 DEF EngTells, EngUndone
  <2>5. CASE /\ EngIssued(a) /\ engRequests[r].pc = "transition"
             /\ engRequests[r].approval = a /\ engBindings'[a] = engRequests[r].outcome
    BY <1>1, <2>2, <2>5 DEF EngThreadOK
  <2> QED
    BY <2>1, <2>3, <2>4, <2>5 DEF EngMoves
<1> QED
  BY <1>2, <1>3 DEF EngApprovalOK, EngMoves

LEMMA EngExclusiveKept ==
    ASSUME EngIInv, NEW r \in EngRequests, EngClimbs(r)
    PROVE  EngExclusive'
<1>1. ASSUME NEW s \in EngRequests \ {r}, engRequests'[r].pc \in EngFlying,
             engRequests'[s].pc \in EngFlying,
             engRequests'[r].approval = engRequests'[s].approval
      PROVE  FALSE
  <2>1. /\ engRequests[s].pc \in EngFlying
        /\ engRequests[s].approval = engRequests[r].approval
        /\ engRequests[r].pc \in EngFlying \/ engItems[engRequests[r].approval] = "approved"
    BY <1>1 DEF EngClimbs
  <2>2. engItems[engRequests[s].approval] \in {"claimed", "absent"}
    BY <2>1 DEF EngIInv, EngThreadOK
  <2> QED
    BY <2>1, <2>2 DEF EngIInv, EngExclusive
<1> QED
  BY <1>1 DEF EngIInv, EngExclusive, EngClimbs

\* No workflow comes to life, and no two meet in a conversation.
LEMMA EngOneActiveKept ==
    ASSUME EngIInv,
           \A a \in EngApprovals :
              /\ EngIssued(a) => engProposals'[a] = engProposals[a]
              /\ engBindings'[a] \in EngLive => engBindings[a] \in EngLive
    PROVE  EngOneActive'
<1>1. ASSUME NEW a \in EngApprovals, engBindings'[a] \in EngLive
      PROVE  engBindings[a] \in EngLive /\ engProposals'[a] = engProposals[a]
  <2>1. engBindings[a] \in EngLive
    BY <1>1
  <2> QED
    BY <2>1 DEF EngIInv, EngApprovalOK, EngLive
<1> QED
  BY <1>1 DEF EngIInv, EngOneActive

\* So a step of one thread preserves the invariant.
LEMMA EngKeeps ==
    ASSUME EngIInv, EngTypeOK', NEW r \in EngRequests, EngClimbs(r),
           \A a \in EngApprovals : EngMoves(r, a), EngThreadOK(r)', EngOneActive'
    PROVE  EngIInv'
<1>1. \A s \in EngRequests : EngThreadOK(s)'
  BY EngOthersOK
<1>2. \A a \in EngApprovals : EngApprovalOK(a)'
  BY EngApprovalsOK
<1> QED
  BY <1>1, <1>2, EngExclusiveKept DEF EngIInv


-----------------------------------------------------------------------------
(* EngineeringApply: looks at the file, and the owner's calls.              *)

LEMMA EngReadKeeps ==
    ASSUME EngIInv, NEW r \in EngRequests,
           UNCHANGED <<engClock, engDisk, engProposals, engItems, engBindings, engFaults>>,
           engRequests' \in [EngRequests -> EngRequest], EngClimbs(r), EngThreadOK(r)'
    PROVE  EngIInv'
<1>1. UNCHANGED <<engClock, engFile, engWritten, engProposals, engItems, engBindings, engFaults>>
  BY DEF engDisk
<1>2. EngTypeOK'
  BY <1>1 DEF EngIInv, EngTypeOK
<1>3. ASSUME NEW a \in EngApprovals PROVE EngMoves(r, a)
  BY <1>1 DEF EngMoves, EngIInv, EngApprovalOK, EngIssued
<1>4. EngOneActive'
  BY <1>1 DEF EngIInv, EngOneActive
<1> QED
  BY <1>2, <1>3, <1>4, EngKeeps

LEMMA EngReplyReads ==
    ASSUME EngIInv, NEW r \in EngRequests, EngReply(r)
    PROVE  engRequests' \in [EngRequests -> EngRequest] /\ EngClimbs(r) /\ EngThreadOK(r)'
<1>1. /\ engRequests' \in [EngRequests -> EngRequest] /\ engRequests'[r].pc = "idle"
      /\ \A s \in EngRequests \ {r} : engRequests'[s] = engRequests[s]
  BY EngReplyIs DEF EngIInv
<1> QED
  BY <1>1 DEF EngClimbs, EngThreadOK, EngFlying, EngAloft, EngOpening

LEMMA EngCallKeeps ==
    ASSUME EngIInv, NEW r \in EngRequests, EngOwner(r)
    PROVE  EngIInv'
<1>1. CASE \E v \in EngConversations, c \in EngContents : EngCallPropose(r, v, c)
  <2>1. PICK v \in EngConversations, c \in EngContents : EngCallPropose(r, v, c)
    BY <1>1
  <2> DEFINE q == [EngIdle EXCEPT !.pc = "check", !.conversation = v, !.content = c]
  <2>2. q \in EngRequest /\ q.pc = "check" /\ q.content = c
    BY DEF EngIdle, EngRequest, EngSteps, EngRecordStates
  <2>3. EngGoes(r, q)
    BY <2>1 DEF EngCallPropose
  <2> HIDE DEF q
  <2>4. /\ engRequests' \in [EngRequests -> EngRequest]
        /\ engRequests'[r].pc = "check" /\ engRequests'[r].content = c
        /\ \A s \in EngRequests \ {r} : engRequests'[s] = engRequests[s]
    BY <2>2, <2>3, EngGoesIs DEF EngIInv
  <2>5. EngClimbs(r) /\ EngThreadOK(r)'
    BY <2>4 DEF EngClimbs, EngThreadOK, EngFlying, EngAloft, EngOpening
  <2> QED
    BY <2>1, <2>4, <2>5, EngReadKeeps DEF EngCallPropose
<1>2. CASE \E op \in {"approve", "deny", "apply"}, a \in EngApprovals : EngCall(r, op, a)
  <2>1. PICK op \in {"approve", "deny", "apply"}, a \in EngApprovals : EngCall(r, op, a)
    BY <1>2
  <2> DEFINE q == [EngIdle EXCEPT !.pc = op, !.approval = a]
  <2>2. q \in EngRequest /\ q.pc = op /\ q.approval = a
    BY DEF EngIdle, EngRequest, EngSteps, EngRecordStates
  <2>3. EngGoes(r, q) /\ EngIssued(a) /\ engProposals' = engProposals
    BY <2>1 DEF EngCall
  <2> HIDE DEF q
  <2>4. /\ engRequests' \in [EngRequests -> EngRequest]
        /\ engRequests'[r].pc = op /\ engRequests'[r].approval = a
        /\ \A s \in EngRequests \ {r} : engRequests'[s] = engRequests[s]
    BY <2>2, <2>3, EngGoesIs DEF EngIInv
  <2>5. EngClimbs(r) /\ EngThreadOK(r)'
    BY <2>3, <2>4 DEF EngClimbs, EngThreadOK, EngFlying, EngAloft, EngIssued
  <2> QED
    BY <2>1, <2>4, <2>5, EngReadKeeps DEF EngCall
<1> QED
  BY <1>1, <1>2 DEF EngOwner

LEMMA EngDraftKeeps ==
    ASSUME EngIInv, NEW r \in EngRequests, EngDraft(r)
    PROVE  EngIInv'
<1>1. /\ UNCHANGED <<engClock, engDisk, engProposals, engItems, engBindings, engFaults>>
      /\ engRequests[r].pc = "draft" /\ engRequests[r] \in EngRequest /\ EngThreadOK(r)
      /\ engFile \in EngFile
  BY EngRequestIs DEF EngIInv, EngDraft, EngReads, EngTypeOK
<1>2. CASE EngReply(r)
  BY <1>1, <1>2, EngReplyReads, EngReadKeeps
<1>3. CASE EngGoes(r, [engRequests[r] EXCEPT !.pc = "register", !.base = engFile.content])
  <2> DEFINE q == [engRequests[r] EXCEPT !.pc = "register", !.base = engFile.content]
  <2>1. q \in EngRequest /\ q.pc = "register" /\ q.content = engRequests[r].content
    <3>1. engFile.content \in EngContents \cup {EngAbsent}
      BY <1>1 DEF EngFile, EngNoFile
    <3> QED
      BY <1>1, <3>1 DEF EngRequest, EngSteps
  <2> HIDE DEF q
  <2>2. /\ engRequests' \in [EngRequests -> EngRequest]
        /\ engRequests'[r].pc = "register" /\ engRequests'[r].content = engRequests[r].content
        /\ \A s \in EngRequests \ {r} : engRequests'[s] = engRequests[s]
    <3>1. EngGoes(r, q)
      BY <1>3 DEF q
    <3> QED
      BY <2>1, <3>1, EngGoesIs DEF EngIInv
  <2>3. EngClimbs(r) /\ EngThreadOK(r)'
    BY <1>1, <2>2 DEF EngClimbs, EngThreadOK, EngFlying, EngAloft, EngOpening
  <2> QED
    BY <1>1, <2>2, <2>3, EngReadKeeps
<1> QED
  BY <1>2, <1>3 DEF EngDraft, EngReads

\* A thread that goes on with its approval after it has looked at the file.
LEMMA EngGoesOn ==
    ASSUME EngIInv, NEW r \in EngRequests, EngThreadOK(r), engRequests[r].pc \notin EngOpening,
           UNCHANGED <<engClock, engDisk, engProposals, engItems, engBindings, engFaults>>,
           NEW q \in EngRequest, EngGoes(r, q), q.approval = engRequests[r].approval,
           \/ q.pc = "claim"
           \/ q.pc = "finish" /\ q.outcome \in {"stale", "failed"}
           \/ q.pc \in EngAloft /\ engRequests[r].pc \in EngAloft
           \/ /\ q.pc = "complete" /\ q.outcome \in {"stale", "indeterminate"}
              /\ engRequests[r].pc \in EngAloft
    PROVE  EngIInv'
<1> PICK a : a = engRequests[r].approval
  OBVIOUS
<1>1. /\ engRequests' \in [EngRequests -> EngRequest]
      /\ engRequests'[r].pc = q.pc /\ engRequests'[r].approval = a
      /\ engRequests'[r].outcome = q.outcome
      /\ \A s \in EngRequests \ {r} : engRequests'[s] = engRequests[s]
  BY EngGoesIs DEF EngIInv
<1>2. /\ a \in EngApprovals /\ EngIssued(a) /\ EngIssued(a)'
      /\ engWritten' = engWritten /\ engItems' = engItems
  BY DEF EngThreadOK, EngIssued, engDisk
<1>3. EngClimbs(r)
  <2>1. engRequests[r].pc \in EngFlying => engItems[a] \in {"claimed", "absent"}
    BY DEF EngThreadOK
  <2> QED
    BY <1>1, <1>2, <2>1 DEF EngClimbs, EngFlying, EngAloft
<1>4. EngThreadOK(r)'
  BY <1>1, <1>2 DEF EngThreadOK, EngFlying, EngAloft, EngOpening, EngTells, EngUndone
<1> QED
  BY <1>1, <1>3, <1>4, EngReadKeeps

LEMMA EngRevalidateKeeps ==
    ASSUME EngIInv, NEW r \in EngRequests, EngRevalidate(r)
    PROVE  EngIInv'
<1>1. /\ UNCHANGED <<engClock, engDisk, engProposals, engItems, engBindings, engFaults>>
      /\ engRequests[r].pc = "revalidate" /\ engRequests[r] \in EngRequest /\ EngThreadOK(r)
  BY EngRequestIs DEF EngIInv, EngRevalidate, EngReads
<1>2. \/ EngGoes(r, [engRequests[r] EXCEPT !.pc = "finish", !.outcome = "failed"])
      \/ EngGoes(r, [engRequests[r] EXCEPT !.pc = "finish", !.outcome = "stale"])
      \/ EngGoes(r, [engRequests[r] EXCEPT !.pc = "claim"])
  BY DEF EngRevalidate, EngReads
<1>3. ASSUME NEW s \in {"failed", "stale"},
             EngGoes(r, [engRequests[r] EXCEPT !.pc = "finish", !.outcome = s])
      PROVE  EngIInv'
  <2> DEFINE q == [engRequests[r] EXCEPT !.pc = "finish", !.outcome = s]
  <2>1. /\ q \in EngRequest /\ q.pc = "finish" /\ q.approval = engRequests[r].approval
        /\ q.outcome = s
    BY <1>1 DEF EngRequest, EngSteps, EngRecordStates, EngOutcomes
  <2>2. EngGoes(r, q)
    BY <1>3
  <2> HIDE DEF q
  <2> QED
    BY <1>1, <2>1, <2>2, EngGoesOn DEF EngOpening
<1>4. CASE EngGoes(r, [engRequests[r] EXCEPT !.pc = "claim"])
  <2> DEFINE q == [engRequests[r] EXCEPT !.pc = "claim"]
  <2>1. q \in EngRequest /\ q.pc = "claim" /\ q.approval = engRequests[r].approval
    BY <1>1 DEF EngRequest, EngSteps
  <2>2. EngGoes(r, q)
    BY <1>4
  <2> HIDE DEF q
  <2> QED
    BY <1>1, <2>1, <2>2, EngGoesOn DEF EngOpening
<1> QED
  BY <1>2, <1>3, <1>4

\* What the adapter hands on when it settles.
LEMMA EngSettlesIs ==
    ASSUME EngIInv, NEW r \in EngRequests, NEW s \in EngOutcomes, EngSettles(r, s)
    PROVE  \E q \in EngRequest :
              /\ EngGoes(r, q) /\ q.pc = "complete" /\ q.outcome = s
              /\ q.approval = engRequests[r].approval
<1> DEFINE q == [engRequests[r] EXCEPT !.pc = "complete", !.outcome = s, !.inode = EngNoInode]
<1>1. engRequests[r] \in EngRequest
  BY EngRequestIs DEF EngIInv
<1>2. /\ q \in EngRequest /\ q.pc = "complete" /\ q.outcome = s
      /\ q.approval = engRequests[r].approval
  BY <1>1 DEF EngRequest, EngSteps, EngRecordStates
<1>3. EngGoes(r, q)
  BY DEF EngSettles
<1> HIDE DEF q
<1> QED
  BY <1>2, <1>3

LEMMA EngAdapterKeeps ==
    ASSUME EngIInv, NEW r \in EngRequests, EngResolve(r) \/ EngRecheck(r)
    PROVE  EngIInv'
<1>1. /\ UNCHANGED <<engClock, engDisk, engProposals, engItems, engBindings, engFaults>>
      /\ engRequests[r].pc \in EngAloft /\ engRequests[r].pc \notin EngOpening
      /\ engRequests[r] \in EngRequest /\ EngThreadOK(r) /\ engFile \in EngFile
  BY EngRequestIs DEF EngIInv, EngResolve, EngRecheck, EngReads, EngAloft, EngOpening, EngTypeOK
<1>2. PICK inode \in EngInodes \cup {EngNoInode} : inode = engFile.inode
  BY <1>1 DEF EngFile, EngNoFile
<1>3. \/ EngSettles(r, "indeterminate") \/ EngSettles(r, "stale")
      \/ EngGoes(r, [engRequests[r] EXCEPT !.pc = "recheck", !.inode = inode])
      \/ EngGoes(r, [engRequests[r] EXCEPT !.pc = "publish", !.inode = EngNoInode])
  BY <1>2 DEF EngResolve, EngRecheck, EngReads
<1>4. ASSUME NEW s \in {"indeterminate", "stale"}, EngSettles(r, s)
      PROVE  EngIInv'
  <2>1. PICK q \in EngRequest : /\ EngGoes(r, q) /\ q.pc = "complete" /\ q.outcome = s
                                /\ q.approval = engRequests[r].approval
    BY <1>4, EngSettlesIs DEF EngOutcomes
  <2> QED
    BY <1>1, <2>1, EngGoesOn
<1>5. ASSUME NEW pc \in {"recheck", "publish"}, NEW i \in EngInodes \cup {EngNoInode},
             EngGoes(r, [engRequests[r] EXCEPT !.pc = pc, !.inode = i])
      PROVE  EngIInv'
  <2> DEFINE q == [engRequests[r] EXCEPT !.pc = pc, !.inode = i]
  <2>1. q \in EngRequest /\ q.pc = pc /\ q.approval = engRequests[r].approval
    BY <1>1 DEF EngRequest, EngSteps
  <2>2. EngGoes(r, q)
    BY <1>5
  <2> HIDE DEF q
  <2> QED
    BY <1>1, <2>1, <2>2, EngGoesOn DEF EngAloft
<1> QED
  BY <1>2, <1>3, <1>4, <1>5

-----------------------------------------------------------------------------
(* EngineeringApply: the write.                                             *)

LEMMA EngPublishKeeps ==
    ASSUME EngIInv, NEW r \in EngRequests, EngPublish(r)
    PROVE  EngIInv'
<1> PICK a : a = engRequests[r].approval
  OBVIOUS
<1>1. /\ engRequests[r].pc = "publish" /\ EngThreadOK(r) /\ EngTypeOK
      /\ UNCHANGED <<engClock, engProposals, engItems, engBindings, engFaults>>
      /\ a \in EngApprovals /\ EngIssued(a) /\ EngIssued(a)'
  BY DEF EngIInv, EngPublish, EngPublishIf, EngThreadOK, EngOpening, EngIssued
<1>2. \/ EngSettles(r, "indeterminate") /\ UNCHANGED engDisk
      \/ EngSettles(r, "stale") /\ UNCHANGED engDisk
      \/ /\ EngSettles(r, "applied")
         /\ \E i \in EngInodes \ {engFile.inode} :
                engFile' = [content |-> engProposals[a].content, inode |-> i]
         /\ engWritten' = [engWritten EXCEPT ![a] = Append(@, engProposals[a].content)]
  BY DEF EngPublish, EngPublishIf
<1>3. ASSUME NEW s \in {"indeterminate", "stale"}, EngSettles(r, s), UNCHANGED engDisk
      PROVE  EngIInv'
  <2>1. PICK q \in EngRequest : /\ EngGoes(r, q) /\ q.pc = "complete" /\ q.outcome = s
                                /\ q.approval = engRequests[r].approval
    BY <1>3, EngSettlesIs DEF EngOutcomes
  <2> QED
    BY <1>1, <1>3, <2>1, EngGoesOn DEF EngAloft, EngOpening
<1>4. CASE /\ EngSettles(r, "applied")
           /\ \E i \in EngInodes \ {engFile.inode} :
                  engFile' = [content |-> engProposals[a].content, inode |-> i]
           /\ engWritten' = [engWritten EXCEPT ![a] = Append(@, engProposals[a].content)]
  <2>1. PICK q \in EngRequest : /\ EngGoes(r, q) /\ q.pc = "complete" /\ q.outcome = "applied"
                                /\ q.approval = a
    BY <1>4, EngSettlesIs DEF EngOutcomes
  <2>2. /\ engRequests' \in [EngRequests -> EngRequest]
        /\ engRequests'[r].pc = "complete" /\ engRequests'[r].approval = a
        /\ engRequests'[r].outcome = "applied"
        /\ \A s \in EngRequests \ {r} : engRequests'[s] = engRequests[s]
    BY <1>1, <2>1, EngGoesIs
  <2>3. engProposals[a].content \in EngContents
    BY <1>1 DEF EngTypeOK, EngProposal, EngIssued
  <2>4. /\ engWritten' \in [EngApprovals -> Seq(EngContents)] /\ engWritten'[a] # <<>>
        /\ \A b \in EngApprovals \ {a} : engWritten'[b] = engWritten[b]
    <3> DEFINE w == Append(engWritten[a], engProposals[a].content)
    <3>1. engWritten \in [EngApprovals -> Seq(EngContents)] /\ engWritten[a] \in Seq(EngContents)
      BY <1>1 DEF EngTypeOK
    <3>2. w \in Seq(EngContents) /\ w # <<>>
      BY <2>3, <3>1
    <3>3. engWritten' = [engWritten EXCEPT ![a] = w]
      BY <1>4
    <3> HIDE DEF w
    <3> QED
      BY <1>1, <3>1, <3>2, <3>3
  <2>5. EngTypeOK'
    <3>1. engFile' \in EngFile
      BY <1>4, <2>3 DEF EngFile
    <3> QED
      BY <1>1, <2>2, <2>4, <3>1 DEF EngTypeOK
  <2>6. engItems[a] \in {"claimed", "absent"}
    BY <1>1 DEF EngThreadOK, EngFlying, EngAloft
  <2>7. ASSUME NEW b \in EngApprovals PROVE EngMoves(r, b)
    BY <1>1, <2>4, <2>6 DEF EngMoves, EngIssued, EngIInv, EngApprovalOK
  <2>8. EngClimbs(r)
    BY <1>1, <2>2, <2>6 DEF EngClimbs, EngFlying, EngAloft
  <2>9. EngThreadOK(r)'
    BY <1>1, <2>2, <2>4, <2>6 DEF EngThreadOK, EngFlying, EngAloft, EngOpening, EngTells, EngUndone
  <2>10. EngOneActive'
    BY <1>1 DEF EngIInv, EngOneActive
  <2> QED
    BY <2>5, <2>7, <2>8, <2>9, <2>10, EngKeeps
<1> QED
  BY <1>2, <1>3, <1>4


-----------------------------------------------------------------------------
(* EngineeringApply: what the owner is shown.                               *)

LEMMA EngShowKeeps ==
    ASSUME EngIInv, NEW r \in EngRequests,
           UNCHANGED <<engClock, engDisk, engProposals, engItems, engFaults>>,
           engBindings' \in [EngApprovals -> EngPresentationStates],
           engRequests' \in [EngRequests -> EngRequest], EngClimbs(r), EngThreadOK(r)',
           \A a \in EngApprovals :
              \/ engBindings'[a] \in {engBindings[a], "absent"}
              \/ EngIssued(a) /\ engBindings'[a] \in {"expired", "pending"}
              \/ /\ EngIssued(a) /\ engRequests[r].pc = "transition"
                 /\ engRequests[r].approval = a /\ engBindings'[a] = engRequests[r].outcome,
           EngOneActive'
    PROVE  EngIInv'
<1>1. UNCHANGED <<engClock, engFile, engWritten, engProposals, engItems, engFaults>>
  BY DEF engDisk
<1>2. EngTypeOK'
  BY <1>1 DEF EngIInv, EngTypeOK
<1>3. ASSUME NEW a \in EngApprovals PROVE EngMoves(r, a)
  <2>1. EngApprovalOK(a)
    BY DEF EngIInv
  <2> QED
    BY <1>1, <2>1 DEF EngMoves, EngApprovalOK, EngIssued
<1> QED
  BY <1>2, <1>3, EngKeeps

\* _cleanup shows live workflows as expired, and nothing else.
LEMMA EngSweptIs ==
    ASSUME EngIInv, NEW when
    PROVE  /\ EngSwept(when) \in [EngApprovals -> EngPresentationStates]
           /\ \A a \in EngApprovals :
                 /\ \/ EngSwept(when)[a] = engBindings[a]
                    \/ EngIssued(a) /\ EngSwept(when)[a] = "expired"
                 /\ EngSwept(when)[a] \in EngLive => engBindings[a] \in EngLive
<1>1. engBindings \in [EngApprovals -> EngPresentationStates]
  BY DEF EngIInv, EngTypeOK
<1>2. \A a \in EngApprovals : engBindings[a] \in EngLive => EngIssued(a)
  BY DEF EngIInv, EngApprovalOK, EngLive
<1> QED
  BY <1>1, <1>2 DEF EngSwept, EngLive, EngPresentationStates, EngTerminal

\* A step that shows what has expired, and nothing else.
LEMMA EngSweepKeeps ==
    ASSUME EngIInv, NEW r \in EngRequests, NEW when, engBindings' = EngSwept(when),
           UNCHANGED <<engClock, engDisk, engProposals, engItems, engFaults>>,
           engRequests' \in [EngRequests -> EngRequest], EngClimbs(r), EngThreadOK(r)'
    PROVE  EngIInv'
<1>1. /\ engBindings' \in [EngApprovals -> EngPresentationStates]
      /\ \A a \in EngApprovals :
            /\ engBindings'[a] = engBindings[a] \/ (EngIssued(a) /\ engBindings'[a] = "expired")
            /\ engBindings'[a] \in EngLive => engBindings[a] \in EngLive
  BY EngSweptIs
<1>2. EngOneActive'
  BY <1>1, EngOneActiveKept
<1> QED
  BY <1>1, <1>2, EngShowKeeps

LEMMA EngRequireKeeps ==
    ASSUME EngIInv, NEW r \in EngRequests, EngRequireApprove(r) \/ EngRequireDeny(r) \/ EngRequireApply(r)
    PROVE  EngIInv'
<1> PICK a : a = engRequests[r].approval
  OBVIOUS
<1>1. /\ UNCHANGED <<engClock, engDisk, engProposals, engItems, engFaults>>
      /\ engRequests[r].pc \in {"approve", "deny", "apply"}
      /\ engRequests[r] \in EngRequest /\ EngThreadOK(r)
  BY EngRequestIs DEF EngIInv, EngRequireApprove, EngRequireDeny, EngRequireApply, EngRequire
<1>2. a \in EngApprovals /\ EngIssued(a) /\ EngIssued(a)'
  BY <1>1 DEF EngThreadOK, EngOpening, EngIssued
<1>3. PICK next \in EngRequest :
        /\ next.approval = a
        /\ \/ next.pc = "decide" /\ next.outcome \in {"approved", "denied"}
           \/ next.pc = "get"
        /\ \E when : engBindings' = EngSwept(when) /\ (EngGoes(r, next) \/ EngReply(r))
  <2>1. CASE EngRequireApprove(r)
    <3> DEFINE q == [engRequests[r] EXCEPT !.pc = "decide", !.outcome = "approved"]
    <3>1. q \in EngRequest /\ q.approval = a /\ q.pc = "decide" /\ q.outcome = "approved"
      BY <1>1 DEF EngRequest, EngSteps, EngRecordStates
    <3>2. \E when : engBindings' = EngSwept(when) /\ (EngGoes(r, q) \/ EngReply(r))
      BY <2>1 DEF EngRequireApprove, EngRequire
    <3> HIDE DEF q
    <3> QED
      BY <3>1, <3>2
  <2>2. CASE EngRequireDeny(r)
    <3> DEFINE q == [engRequests[r] EXCEPT !.pc = "decide", !.outcome = "denied"]
    <3>1. q \in EngRequest /\ q.approval = a /\ q.pc = "decide" /\ q.outcome = "denied"
      BY <1>1 DEF EngRequest, EngSteps, EngRecordStates
    <3>2. \E when : engBindings' = EngSwept(when) /\ (EngGoes(r, q) \/ EngReply(r))
      BY <2>2 DEF EngRequireDeny, EngRequire
    <3> HIDE DEF q
    <3> QED
      BY <3>1, <3>2
  <2>3. CASE EngRequireApply(r)
    <3> DEFINE q == [engRequests[r] EXCEPT !.pc = "get"]
    <3>1. q \in EngRequest /\ q.approval = a /\ q.pc = "get"
      BY <1>1 DEF EngRequest, EngSteps
    <3>2. \E when : engBindings' = EngSwept(when) /\ (EngGoes(r, q) \/ EngReply(r))
      BY <2>3 DEF EngRequireApply, EngRequire
    <3> HIDE DEF q
    <3> QED
      BY <3>1, <3>2
  <2> QED
    BY <2>1, <2>2, <2>3
<1>4. PICK when : engBindings' = EngSwept(when) /\ (EngGoes(r, next) \/ EngReply(r))
  BY <1>3
<1>5. engRequests' \in [EngRequests -> EngRequest] /\ EngClimbs(r) /\ EngThreadOK(r)'
  <2>1. CASE EngReply(r)
    BY <2>1, EngReplyReads
  <2>2. CASE EngGoes(r, next)
    <3>1. /\ engRequests' \in [EngRequests -> EngRequest]
          /\ engRequests'[r].pc = next.pc /\ engRequests'[r].approval = a
          /\ engRequests'[r].outcome = next.outcome
          /\ \A s \in EngRequests \ {r} : engRequests'[s] = engRequests[s]
      BY <1>3, <2>2, EngGoesIs DEF EngIInv
    <3> QED
      BY <1>2, <1>3, <3>1 DEF EngClimbs, EngThreadOK, EngFlying, EngAloft
  <2> QED
    BY <1>4, <2>1, <2>2
<1> QED
  BY <1>1, <1>4, <1>5, EngSweepKeeps

LEMMA EngCheckActiveKeeps ==
    ASSUME EngIInv, NEW r \in EngRequests, EngCheckActive(r)
    PROVE  EngIInv'
<1> DEFINE q == [engRequests[r] EXCEPT !.pc = "draft"]
<1>1. /\ UNCHANGED <<engClock, engDisk, engProposals, engItems, engFaults>>
      /\ engRequests[r].pc = "check" /\ engRequests[r] \in EngRequest /\ EngThreadOK(r)
  BY EngRequestIs DEF EngIInv, EngCheckActive
<1>2. PICK when : engBindings' = EngSwept(when) /\ (EngGoes(r, q) \/ EngReply(r))
  BY DEF EngCheckActive
<1>3. q \in EngRequest /\ q.pc = "draft" /\ q.content = engRequests[r].content
  BY <1>1 DEF EngRequest, EngSteps
<1> HIDE DEF q
<1>4. engRequests' \in [EngRequests -> EngRequest] /\ EngClimbs(r) /\ EngThreadOK(r)'
  <2>1. CASE EngReply(r)
    BY <2>1, EngReplyReads
  <2>2. CASE EngGoes(r, q)
    <3>1. /\ engRequests' \in [EngRequests -> EngRequest]
          /\ engRequests'[r].pc = "draft" /\ engRequests'[r].content = engRequests[r].content
          /\ \A s \in EngRequests \ {r} : engRequests'[s] = engRequests[s]
      BY <1>3, <2>2, EngGoesIs DEF EngIInv
    <3> QED
      BY <1>1, <3>1 DEF EngClimbs, EngThreadOK, EngFlying, EngAloft, EngOpening
  <2> QED
    BY <1>2, <2>1, <2>2
<1> QED
  BY <1>1, <1>2, <1>4, EngSweepKeeps

LEMMA EngTransitionKeeps ==
    ASSUME EngIInv, NEW r \in EngRequests, EngTransition(r)
    PROVE  EngIInv'
<1> PICK a : a = engRequests[r].approval
  OBVIOUS
<1>1. /\ UNCHANGED <<engClock, engDisk, engProposals, engItems, engFaults>>
      /\ engRequests[r].pc = "transition" /\ EngReply(r)
      /\ engRequests[r] \in EngRequest /\ EngThreadOK(r)
  BY EngRequestIs DEF EngIInv, EngTransition, EngShown
<1>2. /\ a \in EngApprovals /\ EngIssued(a)
      /\ engRequests[r].outcome \in {"approved", "denied"} \cup EngOutcomes
  BY <1>1 DEF EngThreadOK, EngOpening
<1>3. PICK when :
        \/ engBindings' = EngSwept(when)
        \/ /\ EngSwept(when)[a] \in EngLive
           /\ engBindings' = [EngSwept(when) EXCEPT ![a] = engRequests[r].outcome]
  BY DEF EngTransition, EngShown, EngLive
<1>4. engRequests' \in [EngRequests -> EngRequest] /\ EngClimbs(r) /\ EngThreadOK(r)'
  BY <1>1, EngReplyReads
<1>5. CASE engBindings' = EngSwept(when)
  BY <1>1, <1>4, <1>5, EngSweepKeeps
<1>6. CASE /\ EngSwept(when)[a] \in EngLive
           /\ engBindings' = [EngSwept(when) EXCEPT ![a] = engRequests[r].outcome]
  <2> DEFINE shown == EngSwept(when)
  <2>1. /\ shown \in [EngApprovals -> EngPresentationStates]
        /\ \A b \in EngApprovals :
              /\ shown[b] = engBindings[b] \/ (EngIssued(b) /\ shown[b] = "expired")
              /\ shown[b] \in EngLive => engBindings[b] \in EngLive
    BY EngSweptIs
  <2>2. shown[a] \in EngLive /\ engBindings' = [shown EXCEPT ![a] = engRequests[r].outcome]
    BY <1>6
  <2>3. engRequests[r].outcome \in EngPresentationStates
    BY <1>2 DEF EngPresentationStates, EngLive, EngTerminal
  <2> HIDE DEF shown
  <2>4. /\ engBindings' \in [EngApprovals -> EngPresentationStates]
        /\ engBindings'[a] = engRequests[r].outcome
        /\ \A b \in EngApprovals \ {a} : engBindings'[b] = shown[b]
    BY <1>2, <2>1, <2>2, <2>3
  <2>5. EngOneActive'
    BY <1>1, <2>1, <2>2, <2>4, EngOneActiveKept
  <2>6. ASSUME NEW b \in EngApprovals
        PROVE  \/ engBindings'[b] \in {engBindings[b], "absent"}
               \/ EngIssued(b) /\ engBindings'[b] \in {"expired", "pending"}
               \/ /\ EngIssued(b) /\ engRequests[r].pc = "transition"
                  /\ engRequests[r].approval = b /\ engBindings'[b] = engRequests[r].outcome
    BY <1>1, <1>2, <2>1, <2>4
  <2> QED
    BY <1>1, <1>4, <2>4, <2>5, <2>6, EngShowKeeps
<1> QED
  BY <1>3, <1>5, <1>6

\* Making room only takes workflows away.
LEMMA EngRoomsAre ==
    ASSUME NEW shown \in [EngApprovals -> EngPresentationStates], NEW room \in EngRooms(shown)
    PROVE  /\ room \in [EngApprovals -> EngPresentationStates]
           /\ \A a \in EngApprovals : room[a] \in {shown[a], "absent"}
<1>1. room = shown \/ \E b : room = EngWithout(shown, {b})
  BY DEF EngRooms
<1>2. ASSUME NEW b, room = EngWithout(shown, {b})
      PROVE  /\ room \in [EngApprovals -> EngPresentationStates]
             /\ \A a \in EngApprovals : room[a] \in {shown[a], "absent"}
  BY <1>2 DEF EngWithout, EngPresentationStates
<1> QED
  BY <1>1, <1>2

LEMMA EngBindKeeps ==
    ASSUME EngIInv, NEW r \in EngRequests, EngBind(r)
    PROVE  EngIInv'
<1> PICK a : a = engRequests[r].approval
  OBVIOUS
<1>1. /\ UNCHANGED <<engClock, engDisk, engProposals, engItems, engFaults>>
      /\ engRequests[r].pc = "bind" /\ EngReply(r) /\ EngThreadOK(r)
  BY DEF EngIInv, EngBind
<1>2. a \in EngApprovals /\ EngIssued(a)
  BY <1>1 DEF EngThreadOK, EngOpening
<1>3. engRequests' \in [EngRequests -> EngRequest] /\ EngClimbs(r) /\ EngThreadOK(r)'
  BY <1>1, EngReplyReads
<1>4. PICK when :
        \/ engBindings' = EngSwept(when)
        \/ LET mine == EngOf(engProposals[a].conversation, EngSwept(when)) IN
           /\ \A b \in mine : EngSwept(when)[b] \notin EngLive
           /\ \E room \in EngRooms(EngWithout(EngSwept(when), mine)) :
                 engBindings' \in {room, [room EXCEPT ![a] = "pending"]}
  BY DEF EngBind
<1>5. CASE engBindings' = EngSwept(when)
  BY <1>1, <1>3, <1>5, EngSweepKeeps
<1>6. CASE LET mine == EngOf(engProposals[a].conversation, EngSwept(when)) IN
           /\ \A b \in mine : EngSwept(when)[b] \notin EngLive
           /\ \E room \in EngRooms(EngWithout(EngSwept(when), mine)) :
                 engBindings' \in {room, [room EXCEPT ![a] = "pending"]}
  <2> DEFINE shown == EngSwept(when)
             mine == EngOf(engProposals[a].conversation, shown)
             left == EngWithout(shown, mine)
  <2>1. /\ shown \in [EngApprovals -> EngPresentationStates]
        /\ \A b \in EngApprovals :
              /\ shown[b] = engBindings[b] \/ (EngIssued(b) /\ shown[b] = "expired")
              /\ shown[b] \in EngLive => engBindings[b] \in EngLive
    BY EngSweptIs
  <2>2. \A b \in mine : shown[b] \notin EngLive
    BY <1>6
  <2>3. PICK room \in EngRooms(left) : engBindings' \in {room, [room EXCEPT ![a] = "pending"]}
    BY <1>6
  <2> HIDE DEF shown
  <2>4. /\ left \in [EngApprovals -> EngPresentationStates]
        /\ \A b \in EngApprovals : left[b] \in {shown[b], "absent"}
    BY <2>1 DEF EngWithout, EngPresentationStates
  <2> HIDE DEF left
  <2>5. /\ room \in [EngApprovals -> EngPresentationStates]
        /\ \A b \in EngApprovals : room[b] \in {shown[b], "absent"}
    BY <2>3, <2>4, EngRoomsAre
  <2>6. /\ engBindings' \in [EngApprovals -> EngPresentationStates]
        /\ engBindings'[a] \in {room[a], "pending"}
        /\ \A b \in EngApprovals \ {a} : engBindings'[b] = room[b]
    <3>1. "pending" \in EngPresentationStates
      BY DEF EngPresentationStates, EngLive
    <3> QED
      BY <1>2, <2>3, <2>5, <3>1
  <2>7. ASSUME NEW b \in EngApprovals \ {a}, engBindings'[b] \in EngLive
        PROVE  /\ engBindings[b] \in EngLive
               /\ engProposals[b].conversation # engProposals[a].conversation
    <3>1. engBindings'[b] = room[b] /\ room[b] = shown[b] /\ shown[b] # "absent"
      BY <2>5, <2>6, <2>7 DEF EngLive
    <3> QED
      BY <2>1, <2>2, <2>7, <3>1 DEF EngOf
  <2>8. EngOneActive'
    <3>1. UNCHANGED engProposals
      BY <1>1
    <3> QED
      BY <2>7, <3>1 DEF EngIInv, EngOneActive
  <2>9. ASSUME NEW b \in EngApprovals
        PROVE  \/ engBindings'[b] \in {engBindings[b], "absent"}
               \/ EngIssued(b) /\ engBindings'[b] \in {"expired", "pending"}
    BY <1>2, <2>1, <2>5, <2>6
  <2> QED
    BY <1>1, <1>3, <2>6, <2>8, <2>9, EngShowKeeps
<1> QED
  BY <1>4, <1>5, <1>6


-----------------------------------------------------------------------------
(* EngineeringApply: authority.                                             *)

LEMMA EngItemKeeps ==
    ASSUME EngIInv, NEW r \in EngRequests,
           UNCHANGED <<engClock, engDisk, engProposals, engBindings, engFaults>>,
           engItems' \in [EngApprovals -> EngRecordStates],
           engRequests' \in [EngRequests -> EngRequest], EngClimbs(r), EngThreadOK(r)',
           \A a \in EngApprovals :
              \/ engItems'[a] \in {engItems[a], "absent"}
              \/ EngIssued(a) /\ engItems[a] \in {"pending", "approved"}
              \/ /\ EngIssued(a) /\ engItems[a] = "claimed"
                 /\ engRequests[r].pc = "complete" /\ engRequests[r].approval = a
                 /\ engItems'[a] \in EngOutcomes
    PROVE  EngIInv'
<1>1. UNCHANGED <<engClock, engFile, engWritten, engProposals, engBindings, engFaults>>
  BY DEF engDisk
<1>2. EngTypeOK'
  BY <1>1 DEF EngIInv, EngTypeOK
<1>3. ASSUME NEW a \in EngApprovals PROVE EngMoves(r, a)
  <2>1. EngApprovalOK(a)
    BY DEF EngIInv
  <2> QED
    BY <1>1, <2>1 DEF EngMoves, EngApprovalOK, EngIssued, EngOutcomes
<1>4. EngOneActive'
  BY <1>1 DEF EngIInv, EngOneActive
<1> QED
  BY <1>2, <1>3, <1>4, EngKeeps

\* A call of the owner on a record: it moves on with the record, or the call
\* is refused.
LEMMA EngAdvanceKeeps ==
    ASSUME EngIInv, NEW r \in EngRequests, engRequests[r].pc \notin EngOpening,
           engRequests[r].pc \notin EngFlying,
           NEW expected \in {"pending", "approved"}, NEW state \in EngRecordStates,
           NEW next \in EngRequest, next.approval = engRequests[r].approval,
           \/ next.pc = "transition" /\ next.outcome = state
                /\ state \in {"approved", "denied", "stale", "failed"}
           \/ next.pc = "revalidate"
           \/ next.pc = "resolve" /\ state = "claimed" /\ expected = "approved",
           EngAdvance(r, expected, state, next)
    PROVE  EngIInv'
<1> PICK a : a = engRequests[r].approval
  OBVIOUS
<1>1. /\ UNCHANGED <<engClock, engDisk, engProposals, engBindings, engFaults>>
      /\ engItems \in [EngApprovals -> EngRecordStates]
      /\ \A b \in EngApprovals : EngApprovalOK(b)
  BY DEF EngAdvance, EngIInv, EngTypeOK
<1>2. a \in EngApprovals /\ EngIssued(a) /\ EngIssued(a)'
  BY <1>1 DEF EngIInv, EngThreadOK, EngIssued
<1>3. CASE /\ engItems[a] = expected /\ engItems' = [engItems EXCEPT ![a] = state]
           /\ EngGoes(r, next)
  <2>1. /\ engRequests' \in [EngRequests -> EngRequest]
        /\ engRequests'[r].pc = next.pc /\ engRequests'[r].approval = a
        /\ engRequests'[r].outcome = next.outcome
        /\ \A s \in EngRequests \ {r} : engRequests'[s] = engRequests[s]
    BY <1>3, EngGoesIs DEF EngIInv
  <2>2. /\ engItems' \in [EngApprovals -> EngRecordStates] /\ engItems'[a] = state
        /\ \A b \in EngApprovals \ {a} : engItems'[b] = engItems[b]
    BY <1>1, <1>2, <1>3
  <2>3. engWritten[a] = <<>> /\ engWritten'[a] = <<>> /\ ~EngInFlight(a)
    BY <1>1, <1>2, <1>3 DEF EngApprovalOK, engDisk
  <2>4. EngClimbs(r)
    BY <1>3, <2>1, <2>2 DEF EngClimbs, EngFlying, EngAloft
  <2>5. next.pc = "transition" /\ next.outcome \in EngUndone => EngOver(a)'
    BY <2>1, <2>2, <2>3 DEF EngOver, EngInFlight, EngAloft, EngUndone, EngOutcomes
  <2>6. EngThreadOK(r)'
    <3>1. EngTells(next.outcome, a)' \/ next.pc # "transition"
      BY <2>3 DEF EngTells
    <3> QED
      BY <1>2, <2>1, <2>2, <2>3, <2>5, <3>1
      DEF EngThreadOK, EngFlying, EngAloft, EngOpening, EngOutcomes
  <2> QED
    BY <1>1, <1>2, <1>3, <2>1, <2>2, <2>4, <2>6, EngItemKeeps
<1>4. CASE engItems' \in {engItems, [engItems EXCEPT ![a] = "absent"]} /\ EngReply(r)
  <2>1. engRequests' \in [EngRequests -> EngRequest] /\ EngClimbs(r) /\ EngThreadOK(r)'
    BY <1>4, EngReplyReads
  <2>2. /\ engItems' \in [EngApprovals -> EngRecordStates]
        /\ \A b \in EngApprovals : engItems'[b] \in {engItems[b], "absent"}
    BY <1>1, <1>2, <1>4 DEF EngRecordStates
  <2> QED
    BY <1>1, <2>1, <2>2, EngItemKeeps
<1>5. [engItems EXCEPT ![a] = engItems[a]] = engItems
  BY <1>1, <1>2
<1> QED
  BY <1>3, <1>4, <1>5 DEF EngAdvance

LEMMA EngAuthorityKeeps ==
    ASSUME EngIInv, NEW r \in EngRequests,
           EngDecide(r) \/ EngGetApproved(r) \/ EngFinishApproved(r) \/ EngClaimApproved(r)
    PROVE  EngIInv'
<1>1. engRequests[r] \in EngRequest /\ EngThreadOK(r)
  BY EngRequestIs DEF EngIInv
<1>2. CASE EngDecide(r)
  <2> DEFINE q == [engRequests[r] EXCEPT !.pc = "transition"]
  <2>1. /\ q \in EngRequest /\ q.approval = engRequests[r].approval /\ q.pc = "transition"
        /\ q.outcome = engRequests[r].outcome
    BY <1>1 DEF EngRequest, EngSteps
  <2>2. engRequests[r].pc = "decide" /\ EngAdvance(r, "pending", engRequests[r].outcome, q)
    BY <1>2 DEF EngDecide
  <2>3. engRequests[r].outcome \in {"approved", "denied"}
    BY <1>1, <2>2 DEF EngThreadOK
  <2> HIDE DEF q
  <2> QED
    BY <2>1, <2>2, <2>3, EngAdvanceKeeps DEF EngOpening, EngFlying, EngAloft, EngRecordStates
<1>3. CASE EngGetApproved(r)
  <2> DEFINE q == [engRequests[r] EXCEPT !.pc = "revalidate"]
  <2>1. q \in EngRequest /\ q.approval = engRequests[r].approval /\ q.pc = "revalidate"
    BY <1>1 DEF EngRequest, EngSteps
  <2>2. engRequests[r].pc = "get" /\ EngAdvance(r, "approved", "approved", q)
    BY <1>3 DEF EngGetApproved
  <2> HIDE DEF q
  <2> QED
    BY <2>1, <2>2, EngAdvanceKeeps DEF EngOpening, EngFlying, EngAloft, EngRecordStates
<1>4. CASE EngFinishApproved(r)
  <2> DEFINE q == [engRequests[r] EXCEPT !.pc = "transition"]
  <2>1. /\ q \in EngRequest /\ q.approval = engRequests[r].approval /\ q.pc = "transition"
        /\ q.outcome = engRequests[r].outcome
    BY <1>1 DEF EngRequest, EngSteps
  <2>2. engRequests[r].pc = "finish" /\ EngAdvance(r, "approved", engRequests[r].outcome, q)
    BY <1>4 DEF EngFinishApproved
  <2>3. engRequests[r].outcome \in {"stale", "failed"}
    BY <1>1, <2>2 DEF EngThreadOK
  <2> HIDE DEF q
  <2> QED
    BY <2>1, <2>2, <2>3, EngAdvanceKeeps
    DEF EngOpening, EngFlying, EngAloft, EngRecordStates, EngOutcomes
<1>5. CASE EngClaimApproved(r)
  <2> DEFINE q == [engRequests[r] EXCEPT !.pc = "resolve"]
  <2>1. q \in EngRequest /\ q.approval = engRequests[r].approval /\ q.pc = "resolve"
    BY <1>1 DEF EngRequest, EngSteps
  <2>2. engRequests[r].pc = "claim" /\ EngAdvance(r, "approved", "claimed", q)
    BY <1>5 DEF EngClaimApproved
  <2> HIDE DEF q
  <2> QED
    BY <2>1, <2>2, EngAdvanceKeeps DEF EngOpening, EngFlying, EngAloft, EngRecordStates
<1> QED
  BY <1>2, <1>3, <1>4, <1>5

LEMMA EngCompleteKeeps ==
    ASSUME EngIInv, NEW r \in EngRequests, EngComplete(r)
    PROVE  EngIInv'
<1> PICK a : a = engRequests[r].approval
  OBVIOUS
<1>1. /\ UNCHANGED <<engClock, engDisk, engProposals, engBindings, engFaults>>
      /\ engItems \in [EngApprovals -> EngRecordStates]
      /\ engRequests[r].pc = "complete" /\ engRequests[r] \in EngRequest /\ EngThreadOK(r)
  BY EngRequestIs DEF EngComplete, EngIInv, EngTypeOK
<1>2. /\ a \in EngApprovals /\ EngIssued(a) /\ EngIssued(a)' /\ engWritten' = engWritten
      /\ engRequests[r].outcome \in EngOutcomes /\ EngTells(engRequests[r].outcome, a)
  BY <1>1 DEF EngThreadOK, EngOpening, EngIssued, engDisk, EngOutcomes
<1>3. CASE /\ engItems[a] = "claimed"
           /\ engItems' = [engItems EXCEPT ![a] = engRequests[r].outcome]
           /\ EngGoes(r, [engRequests[r] EXCEPT !.pc = "transition"])
  <2> DEFINE q == [engRequests[r] EXCEPT !.pc = "transition"]
  <2>1. /\ q \in EngRequest /\ q.approval = a /\ q.pc = "transition"
        /\ q.outcome = engRequests[r].outcome /\ EngGoes(r, q)
    BY <1>1, <1>3 DEF EngRequest, EngSteps
  <2> HIDE DEF q
  <2>2. /\ engRequests' \in [EngRequests -> EngRequest]
        /\ engRequests'[r].pc = "transition" /\ engRequests'[r].approval = a
        /\ engRequests'[r].outcome = engRequests[r].outcome
        /\ \A s \in EngRequests \ {r} : engRequests'[s] = engRequests[s]
    BY <2>1, EngGoesIs DEF EngIInv
  <2>3. /\ engItems' \in [EngApprovals -> EngRecordStates]
        /\ engItems'[a] = engRequests[r].outcome
        /\ \A b \in EngApprovals \ {a} : engItems'[b] = engItems[b]
    BY <1>1, <1>2, <1>3 DEF EngRecordStates
  <2>4. EngClimbs(r)
    BY <2>2 DEF EngClimbs, EngFlying, EngAloft
  <2>5. EngOver(a)'
    <3>1. ASSUME NEW s \in EngRequests, engRequests'[s].approval = a,
                 engRequests'[s].pc \in EngAloft
          PROVE  FALSE
      BY <1>1, <2>2, <3>1 DEF EngIInv, EngExclusive, EngFlying, EngAloft
    <3> QED
      BY <1>2, <2>3, <3>1 DEF EngOver
  <2>6. EngThreadOK(r)'
    BY <1>2, <2>2, <2>5 DEF EngThreadOK, EngFlying, EngAloft, EngOpening, EngTells
  <2> QED
    BY <1>1, <1>2, <1>3, <2>2, <2>3, <2>4, <2>6, EngItemKeeps
<1>4. CASE engItems' = engItems /\ EngReply(r)
  <2>1. engRequests' \in [EngRequests -> EngRequest] /\ EngClimbs(r) /\ EngThreadOK(r)'
    BY <1>4, EngReplyReads
  <2> QED
    BY <1>1, <1>4, <2>1, EngItemKeeps
<1> QED
  BY <1>3, <1>4 DEF EngComplete

LEMMA EngCleanedIs ==
    ASSUME EngIInv, NEW when
    PROVE  /\ EngCleaned(when) \in [EngApprovals -> EngRecordStates]
           /\ \A a \in EngApprovals : EngCleaned(when)[a] \in {engItems[a], "absent"}
BY DEF EngIInv, EngTypeOK, EngCleaned, EngRecordStates

LEMMA EngRegisterKeeps ==
    ASSUME EngIInv, NEW r \in EngRequests, EngRegister(r)
    PROVE  EngIInv'
<1>1. /\ UNCHANGED <<engClock, engDisk, engBindings, engFaults>>
      /\ UNCHANGED <<engFile, engWritten>>
      /\ engRequests[r].pc = "register" /\ engRequests[r] \in EngRequest /\ EngThreadOK(r)
      /\ EngTypeOK
  BY EngRequestIs DEF EngRegister, EngIInv, EngTypeOK, engDisk
<1>2. PICK when \in EngInstants(engRequests[r]) :
        \/ engItems' = EngCleaned(when) /\ EngReply(r) /\ UNCHANGED engProposals
        \/ \E a \in EngApprovals :
              /\ ~EngIssued(a)
              /\ engItems' = [EngCleaned(when) EXCEPT ![a] = "pending"]
              /\ engProposals' = [engProposals EXCEPT ![a] =
                    [conversation |-> engRequests[r].conversation,
                     base |-> engRequests[r].base,
                     content |-> engRequests[r].content, expires |-> when + EngTTL]]
              /\ EngGoes(r, [EngIdle EXCEPT !.pc = "bind", !.approval = a])
  BY DEF EngRegister
<1> DEFINE kept == EngCleaned(when)
<1>3. /\ kept \in [EngApprovals -> EngRecordStates]
      /\ \A a \in EngApprovals : kept[a] \in {engItems[a], "absent"}
  BY EngCleanedIs
<1>4. CASE engItems' = kept /\ EngReply(r) /\ UNCHANGED engProposals
  <2>1. engRequests' \in [EngRequests -> EngRequest] /\ EngClimbs(r) /\ EngThreadOK(r)'
    BY <1>4, EngReplyReads
  <2> HIDE DEF kept
  <2> QED
    BY <1>1, <1>3, <1>4, <2>1, EngItemKeeps
<1>5. ASSUME NEW a \in EngApprovals, ~EngIssued(a),
             engItems' = [kept EXCEPT ![a] = "pending"],
             engProposals' = [engProposals EXCEPT ![a] =
                    [conversation |-> engRequests[r].conversation,
                     base |-> engRequests[r].base,
                     content |-> engRequests[r].content, expires |-> when + EngTTL]],
             EngGoes(r, [EngIdle EXCEPT !.pc = "bind", !.approval = a])
      PROVE  EngIInv'
  <2> HIDE DEF kept
  <2> DEFINE q == [EngIdle EXCEPT !.pc = "bind", !.approval = a]
             d == [conversation |-> engRequests[r].conversation,
                   base |-> engRequests[r].base,
                   content |-> engRequests[r].content, expires |-> when + EngTTL]
  <2>1. q \in EngRequest /\ q.pc = "bind" /\ q.approval = a /\ EngGoes(r, q)
    BY <1>5 DEF EngIdle, EngRequest, EngSteps, EngRecordStates
  <2>2. d \in EngProposal /\ d.content \in EngContents
    <3>1. when + EngTTL \in Nat
      BY <1>1, EngRequestIs, EngBounds
    <3>2. engRequests[r].content \in EngContents
      BY <1>1 DEF EngThreadOK
    <3> QED
      BY <1>1, <3>1, <3>2 DEF EngRequest, EngProposal
  <2>3. engProposals' = [engProposals EXCEPT ![a] = d]
    BY <1>5
  <2> HIDE DEF q, d
  <2>4. /\ engProposals' \in [EngApprovals -> EngProposal] /\ engProposals'[a] = d
        /\ \A b \in EngApprovals \ {a} : engProposals'[b] = engProposals[b]
    BY <1>1, <2>2, <2>3 DEF EngTypeOK
  <2>5. /\ engItems' \in [EngApprovals -> EngRecordStates] /\ engItems'[a] = "pending"
        /\ \A b \in EngApprovals \ {a} : engItems'[b] = kept[b]
    BY <1>3, <1>5 DEF EngRecordStates
  <2>6. /\ engRequests' \in [EngRequests -> EngRequest]
        /\ engRequests'[r].pc = "bind" /\ engRequests'[r].approval = a
        /\ \A s \in EngRequests \ {r} : engRequests'[s] = engRequests[s]
    BY <1>1, <2>1, EngGoesIs
  <2>7. EngTypeOK'
    BY <1>1, <2>4, <2>5, <2>6 DEF EngTypeOK
  <2>8. EngIssued(a)'
    BY <2>2, <2>4, EngBounds DEF EngIssued
  <2>9. ASSUME NEW b \in EngApprovals PROVE EngMoves(r, b)
    <3>1. EngApprovalOK(b)
      BY DEF EngIInv
    <3>2. CASE b = a
      BY <1>1, <1>5, <2>5, <2>8, <3>1, <3>2 DEF EngMoves, EngApprovalOK
    <3>3. CASE b # a
      <4>1. engProposals'[b] = engProposals[b] /\ engItems'[b] \in {engItems[b], "absent"}
        BY <1>3, <2>4, <2>5, <3>3
      <4> QED
        BY <1>1, <3>1, <4>1 DEF EngMoves, EngApprovalOK, EngIssued
    <3> QED
      BY <3>2, <3>3
  <2>10. EngClimbs(r) /\ EngThreadOK(r)'
    BY <2>6, <2>8 DEF EngClimbs, EngThreadOK, EngFlying, EngAloft
  <2>11. EngOneActive'
    <3>1. \A b \in EngApprovals : EngIssued(b) => engProposals'[b] = engProposals[b]
      BY <1>5, <2>4
    <3> QED
      BY <1>1, <3>1, EngOneActiveKept
  <2> QED
    BY <2>7, <2>9, <2>10, <2>11, EngKeeps
<1> QED
  BY <1>2, <1>4, <1>5

-----------------------------------------------------------------------------
(* EngineeringApply: the world, and every behaviour.                        *)

LEMMA EngLookKeeps == EngIInv /\ EngLook => EngIInv'
<1> SUFFICES ASSUME EngIInv, EngLook PROVE EngIInv'
  OBVIOUS
<1>1. /\ UNCHANGED <<engClock, engFile, engWritten, engProposals, engItems, engRequests,
                     engFaults>>
      /\ engBindings' \in [EngApprovals -> EngPresentationStates]
      /\ \A a \in EngApprovals :
            /\ engBindings'[a] = engBindings[a] \/ (EngIssued(a) /\ engBindings'[a] = "expired")
            /\ engBindings'[a] \in EngLive => engBindings[a] \in EngLive
  BY EngSweptIs DEF EngLook, engDisk
<1>2. EngTypeOK'
  BY <1>1 DEF EngIInv, EngTypeOK
<1>3. ASSUME NEW r \in EngRequests PROVE EngThreadOK(r)'
  BY <1>1 DEF EngIInv, EngThreadOK, EngTells, EngOver, EngIssued
<1>4. ASSUME NEW a \in EngApprovals PROVE EngApprovalOK(a)'
  <2>1. EngApprovalOK(a)
    BY DEF EngIInv
  <2> QED
    BY <1>1, <2>1 DEF EngApprovalOK, EngTells, EngOver, EngIssued, EngInFlight, EngUndone
<1>5. EngExclusive'
  BY <1>1 DEF EngIInv, EngExclusive
<1>6. EngOneActive'
  BY <1>1, EngOneActiveKept
<1> QED
  BY <1>2, <1>3, <1>4, <1>5, <1>6 DEF EngIInv

\* Steps that touch neither a thread nor a store.
LEMMA EngAsideKeeps ==
    ASSUME EngIInv, EngTypeOK',
           UNCHANGED <<engWritten, engProposals, engItems, engBindings, engRequests>>
    PROVE  EngIInv'
<1>1. ASSUME NEW r \in EngRequests PROVE EngThreadOK(r)'
  BY DEF EngIInv, EngThreadOK, EngTells, EngOver, EngIssued
<1>2. ASSUME NEW a \in EngApprovals PROVE EngApprovalOK(a)'
  <2>1. EngApprovalOK(a)
    BY DEF EngIInv
  <2> QED
    BY <2>1 DEF EngApprovalOK, EngTells, EngOver, EngIssued, EngInFlight
<1>3. EngExclusive' /\ EngOneActive'
  BY DEF EngIInv, EngExclusive, EngOneActive
<1> QED
  BY <1>1, <1>2, <1>3 DEF EngIInv

LEMMA EngEditKeeps == EngIInv /\ EngEdit => EngIInv'
<1> SUFFICES ASSUME EngIInv, EngEdit PROVE EngIInv'
  OBVIOUS
<1>1. EngTypeOK'
  BY EngBounds DEF EngIInv, EngTypeOK, EngEdit
<1> QED
  BY <1>1, EngAsideKeeps DEF EngEdit

LEMMA EngTickKeeps == EngIInv /\ EngTick => EngIInv'
<1> SUFFICES ASSUME EngIInv, EngTick PROVE EngIInv'
  OBVIOUS
<1>1. EngTypeOK'
  BY EngBounds DEF EngIInv, EngTypeOK, EngTick, engDisk
<1> QED
  BY <1>1, EngAsideKeeps DEF EngTick, engDisk

LEMMA EngRestartKeeps == EngIInv /\ EngRestart => EngIInv'
<1> SUFFICES ASSUME EngIInv, EngRestart PROVE EngIInv'
  OBVIOUS
<1>1. /\ UNCHANGED <<engClock, engFile, engWritten, engProposals>>
      /\ engFaults' = engFaults + 1 /\ engFaults < EngMaxFaults
      /\ engItems' = [a \in EngApprovals |-> "absent"]
      /\ engBindings' = [a \in EngApprovals |-> "absent"]
      /\ engRequests' = [r \in EngRequests |-> EngIdle]
  BY DEF EngRestart, engDisk
<1>2. EngTypeOK'
  BY <1>1, EngIdleIs, EngBounds DEF EngIInv, EngTypeOK, EngRecordStates, EngPresentationStates
<1>3. ASSUME NEW r \in EngRequests PROVE EngThreadOK(r)'
  BY <1>1, EngIdleIs DEF EngThreadOK, EngFlying, EngAloft, EngOpening
<1>4. ASSUME NEW a \in EngApprovals PROVE EngApprovalOK(a)'
  BY <1>1 DEF EngIInv, EngApprovalOK, EngTells, EngUndone, EngIssued
<1>5. EngExclusive' /\ EngOneActive'
  BY <1>1, EngIdleIs DEF EngExclusive, EngOneActive, EngFlying, EngAloft, EngLive
<1> QED
  BY <1>2, <1>3, <1>4, <1>5 DEF EngIInv

LEMMA EngInitIInv == EngInit => EngIInv
<1> SUFFICES ASSUME EngInit PROVE EngIInv
  OBVIOUS
<1>1. EngTypeOK
  BY EngIdleIs, EngBounds
  DEF EngInit, EngTypeOK, EngRecordStates, EngPresentationStates, EngNoProposal, EngProposal
<1>2. ASSUME NEW r \in EngRequests PROVE EngThreadOK(r)
  BY EngIdleIs DEF EngInit, EngThreadOK, EngFlying, EngAloft, EngOpening
<1>3. ASSUME NEW a \in EngApprovals PROVE EngApprovalOK(a)
  BY DEF EngInit, EngApprovalOK, EngTells, EngUndone, EngIssued
<1>4. EngExclusive /\ EngOneActive
  BY EngIdleIs DEF EngInit, EngExclusive, EngOneActive, EngFlying, EngAloft, EngLive
<1> QED
  BY <1>1, <1>2, <1>3, <1>4 DEF EngIInv

LEMMA EngStepIInv == EngIInv /\ [EngNext]_engVars => EngIInv'
<1> SUFFICES ASSUME EngIInv, [EngNext]_engVars PROVE EngIInv'
  OBVIOUS
<1>1. CASE UNCHANGED engVars
  <2>1. UNCHANGED <<engClock, engFile, engProposals, engItems, engBindings, engRequests,
                    engWritten, engFaults>>
    BY <1>1 DEF engVars
  <2>2. EngTypeOK'
    BY <2>1 DEF EngIInv, EngTypeOK
  <2> QED
    BY <2>1, <2>2, EngAsideKeeps
<1>2. ASSUME NEW r \in EngRequests, EngServe(r) PROVE EngIInv'
  BY <1>2, EngCheckActiveKeeps, EngDraftKeeps, EngRegisterKeeps, EngBindKeeps,
     EngRequireKeeps, EngAuthorityKeeps, EngTransitionKeeps, EngRevalidateKeeps,
     EngAdapterKeeps, EngPublishKeeps, EngCompleteKeeps DEF EngServe
<1> QED
  BY <1>1, <1>2, EngCallKeeps, EngLookKeeps, EngEditKeeps, EngRestartKeeps, EngTickKeeps
  DEF EngNext

LEMMA EngIInvAlways == EngSpec => []EngIInv
BY EngInitIInv, EngStepIInv, PTL DEF EngSpec

-----------------------------------------------------------------------------
(* EngineeringApply: what is proved of it.                                  *)

\* The two stores, the file, the threads and the history keep their shape
\* (engineering_apply.py, engineering_owner_approval.py).
THEOREM EngTypeCorrect == EngSpec => []EngTypeOK
<1>1. EngIInv => EngTypeOK
  BY DEF EngIInv
<1> QED
  BY <1>1, EngIInvAlways, PTL

\* What the owner is shown never misleads, for any number of threads,
\* conversations and approvals: what is shown as denied, stale or failed was
\* not written, what is shown as applied was, and a conversation has one live
\* workflow.
THEOREM EngTruthfulPresentation == EngSpec => []EngPresentationIsTruthful
<1>1. EngIInv => EngPresentationIsTruthful
  BY DEF EngIInv, EngApprovalOK, EngTells, EngUndone, EngOneActive, EngPresentationIsTruthful
<1> QED
  BY <1>1, EngIInvAlways, PTL

\* A create never destroys a file that appeared after the owner's approval:
\* the write itself refuses (os.link in the adapter).
THEOREM EngCreateIsSafe == EngSpec => EngCreateNeverOverwrites
<1>1. EngIInv /\ [EngNext]_engVars =>
        \A a \in EngApprovals :
          engWritten'[a] # engWritten[a] /\ EngCreates(a) => engFile.content = EngAbsent
  <2> SUFFICES ASSUME EngIInv, [EngNext]_engVars, NEW a \in EngApprovals,
                      engWritten'[a] # engWritten[a], EngCreates(a)
               PROVE  engFile.content = EngAbsent
    OBVIOUS
  <2>1. CASE UNCHANGED engWritten
    BY <2>1
  <2>2. ASSUME NEW r \in EngRequests, EngPublish(r) PROVE engFile.content = EngAbsent
    <3>1. \/ UNCHANGED engDisk
          \/ /\ EngCreates(engRequests[r].approval) => engFile.content = EngAbsent
             /\ engWritten' = [engWritten EXCEPT ![engRequests[r].approval] =
                    Append(@, engProposals[engRequests[r].approval].content)]
      BY <2>2 DEF EngPublish, EngPublishIf
    <3>2. a = engRequests[r].approval /\ ~UNCHANGED engDisk
      BY <3>1 DEF engDisk, EngIInv, EngTypeOK
    <3> QED
      BY <3>1, <3>2
  <2>3. ASSUME NEW r \in EngRequests, EngServe(r) PROVE EngPublish(r) \/ UNCHANGED engWritten
    BY <2>3 DEF EngServe, EngCheckActive, EngDraft, EngRegister, EngBind, EngRequireApprove,
       EngRequireDeny, EngRequireApply, EngRequire, EngDecide, EngTransition, EngShown,
       EngGetApproved, EngRevalidate, EngFinishApproved, EngClaimApproved, EngAdvance,
       EngResolve, EngRecheck, EngComplete, EngReads, engDisk
  <2>4. ASSUME NEW r \in EngRequests, EngOwner(r) PROVE UNCHANGED engWritten
    BY <2>4 DEF EngOwner, EngCallPropose, EngCall, engDisk
  <2>5. EngLook \/ EngEdit \/ EngRestart \/ EngTick => UNCHANGED engWritten
    BY DEF EngLook, EngEdit, EngRestart, EngTick, engDisk
  <2> QED
    BY <2>1, <2>2, <2>3, <2>4, <2>5 DEF EngNext, engVars
<1> QED
  BY <1>1, EngIInvAlways, PTL DEF EngSpec, EngCreateNeverOverwrites


-----------------------------------------------------------------------------
(* EngineeringApply implements OneShotAuthority: what an approval's standing *)
(* is.                                                                       *)

\* A record the owner can still act on, or has refused.
EngOpenRecord == {"pending", "approved", "denied"}

LEMMA EngStandingIs ==
    ASSUME NEW a \in EngApprovals
    PROVE  /\ ~EngIssued(a) => EngStanding[a] = "unasked"
           /\ EngIssued(a) /\ EngInFlight(a) => EngStanding[a] = "spent"
           /\ EngIssued(a) /\ ~EngInFlight(a) /\ engItems[a] \in EngOpenRecord =>
                 EngStanding[a] = engItems[a]
           /\ EngIssued(a) /\ ~EngInFlight(a) /\ engItems[a] \notin EngOpenRecord =>
                 EngStanding[a] = "gone"
BY DEF EngStanding, EngOpenRecord

LEMMA EngStandingNext ==
    ASSUME NEW a \in EngApprovals
    PROVE  /\ ~EngIssued(a)' => EngStanding'[a] = "unasked"
           /\ EngIssued(a)' /\ EngInFlight(a)' => EngStanding'[a] = "spent"
           /\ EngIssued(a)' /\ ~EngInFlight(a)' /\ engItems'[a] \in EngOpenRecord =>
                 EngStanding'[a] = engItems'[a]
           /\ EngIssued(a)' /\ ~EngInFlight(a)' /\ engItems'[a] \notin EngOpenRecord =>
                 EngStanding'[a] = "gone"
BY DEF EngStanding, EngOpenRecord

\* The thread that claimed an approval is the flight it is in.
LEMMA EngFlightIs ==
    ASSUME NEW a
    PROVE  EngInFlight(a) <=> \E s \in EngRequests :
              engRequests[s].approval = a /\ engRequests[s].pc \in EngFlying
BY DEF EngInFlight, EngFlying, EngAloft

LEMMA EngFlightNext ==
    ASSUME NEW a
    PROVE  EngInFlight(a)' <=> \E s \in EngRequests :
              engRequests'[s].approval = a /\ engRequests'[s].pc \in EngFlying
BY DEF EngInFlight, EngFlying, EngAloft

\* A thread that was in no flight and is in none, or stays in its own.
LEMMA EngSteady ==
    ASSUME NEW r \in EngRequests,
           \A s \in EngRequests \ {r} : engRequests'[s] = engRequests[s],
           \/ engRequests[r].pc \notin EngFlying /\ engRequests'[r].pc \notin EngFlying
           \/ /\ engRequests[r].pc \in EngFlying /\ engRequests'[r].pc \in EngFlying
              /\ engRequests'[r].approval = engRequests[r].approval,
           NEW a
    PROVE  EngInFlight(a)' <=> EngInFlight(a)
BY EngFlightIs, EngFlightNext

LEMMA EngReplySteady ==
    ASSUME EngTypeOK, NEW r \in EngRequests, EngReply(r), engRequests[r].pc \notin EngFlying,
           NEW a
    PROVE  EngInFlight(a)' <=> EngInFlight(a)
<1>1. /\ engRequests'[r].pc \notin EngFlying
      /\ \A s \in EngRequests \ {r} : engRequests'[s] = engRequests[s]
  BY EngReplyIs DEF EngFlying, EngAloft
<1> QED
  BY <1>1, EngSteady

LEMMA EngGoesSteady ==
    ASSUME EngTypeOK, NEW r \in EngRequests, NEW q \in EngRequest, EngGoes(r, q),
           \/ engRequests[r].pc \notin EngFlying /\ q.pc \notin EngFlying
           \/ /\ engRequests[r].pc \in EngFlying /\ q.pc \in EngFlying
              /\ q.approval = engRequests[r].approval,
           NEW a
    PROVE  EngInFlight(a)' <=> EngInFlight(a)
<1>1. /\ engRequests'[r].pc = q.pc /\ engRequests'[r].approval = q.approval
      /\ \A s \in EngRequests \ {r} : engRequests'[s] = engRequests[s]
  BY EngGoesIs
<1> QED
  BY <1>1, EngSteady

-----------------------------------------------------------------------------
(* EngineeringApply implements OneShotAuthority: step by step.              *)

LEMMA EngInitMap == EngInit => EngAuthority!Init
<1> SUFFICES ASSUME EngInit PROVE EngAuthority!Init
  OBVIOUS
<1>1. \A a \in EngApprovals : engProposals[a].content = EngAbsent
  BY DEF EngInit, EngNoProposal
<1>2. EngStanding = [a \in EngApprovals |-> "unasked"]
  BY <1>1 DEF EngStanding, EngIssued
<1> QED
  BY <1>1, <1>2 DEF EngInit, EngAuthority!Init

\* Approvals that lapse.
LEMMA EngLapseMap ==
    ASSUME UNCHANGED <<engProposals, engWritten>>,
           \A a \in EngApprovals :
              \/ EngStanding'[a] = EngStanding[a]
              \/ EngStanding'[a] = "gone" /\ EngStanding[a] # "unasked"
    PROVE  EngAuthority!Next
<1> DEFINE S == {a \in EngApprovals : EngStanding'[a] # EngStanding[a]}
<1>1. EngStanding' = [a \in EngApprovals |-> EngStanding'[a]]
  BY DEF EngStanding
<1> HIDE DEF EngStanding
<1>2. EngStanding' = EngAuthority!Lapsed(S)
  BY <1>1 DEF EngAuthority!Lapsed
<1>3. EngAuthority!Lapse(S)
  BY <1>2 DEF EngAuthority!Lapse
<1> QED
  BY <1>3 DEF EngAuthority!Next

\* A step that at most drops records.
LEMMA EngDropMap ==
    ASSUME EngIInv, UNCHANGED <<engProposals, engWritten>>,
           \A a \in EngApprovals :
              /\ EngInFlight(a)' <=> EngInFlight(a)
              /\ engItems'[a] = engItems[a] \/ engItems'[a] \notin EngOpenRecord
    PROVE  EngAuthority!Next
<1>1. ASSUME NEW a \in EngApprovals
      PROVE  \/ EngStanding'[a] = EngStanding[a]
             \/ EngStanding'[a] = "gone" /\ EngStanding[a] # "unasked"
  <2>1. EngIssued(a)' <=> EngIssued(a)
    BY DEF EngIssued
  <2> QED
    BY <2>1, EngStandingIs, EngStandingNext DEF EngOpenRecord
<1> QED
  BY <1>1, EngLapseMap

LEMMA EngOwnerMap ==
    ASSUME EngIInv, NEW r \in EngRequests, EngOwner(r)
    PROVE  EngAuthority!Next
<1>1. /\ UNCHANGED <<engProposals, engWritten, engItems>> /\ engRequests[r].pc \notin EngFlying
      /\ EngTypeOK
  BY DEF EngOwner, EngCallPropose, EngCall, engDisk, EngFlying, EngAloft, EngIInv
<1>2. PICK q \in EngRequest : EngGoes(r, q) /\ q.pc \notin EngFlying
  <2>1. ASSUME NEW v \in EngConversations, NEW c \in EngContents, EngCallPropose(r, v, c)
        PROVE  \E q \in EngRequest : EngGoes(r, q) /\ q.pc \notin EngFlying
    <3> DEFINE q == [EngIdle EXCEPT !.pc = "check", !.conversation = v, !.content = c]
    <3>1. q \in EngRequest /\ q.pc \notin EngFlying /\ EngGoes(r, q)
      BY <2>1 DEF EngIdle, EngRequest, EngSteps, EngRecordStates, EngFlying, EngAloft, EngCallPropose
    <3> HIDE DEF q
    <3> QED
      BY <3>1
  <2>2. ASSUME NEW op \in {"approve", "deny", "apply"}, NEW a \in EngApprovals, EngCall(r, op, a)
        PROVE  \E q \in EngRequest : EngGoes(r, q) /\ q.pc \notin EngFlying
    <3> DEFINE q == [EngIdle EXCEPT !.pc = op, !.approval = a]
    <3>1. q \in EngRequest /\ q.pc \notin EngFlying /\ EngGoes(r, q)
      BY <2>2 DEF EngIdle, EngRequest, EngSteps, EngRecordStates, EngFlying, EngAloft, EngCall
    <3> HIDE DEF q
    <3> QED
      BY <3>1
  <2> QED
    BY <2>1, <2>2 DEF EngOwner
<1>3. \A a \in EngApprovals : EngInFlight(a)' <=> EngInFlight(a)
  BY <1>1, <1>2, EngGoesSteady
<1> QED
  BY <1>1, <1>3, EngDropMap

\* The steps on the ground that leave the records alone.
LEMMA EngGroundMap ==
    ASSUME EngIInv, NEW r \in EngRequests,
           \/ EngCheckActive(r) \/ EngDraft(r) \/ EngBind(r) \/ EngTransition(r)
           \/ EngRequireApprove(r) \/ EngRequireDeny(r) \/ EngRequireApply(r)
           \/ EngRevalidate(r)
    PROVE  EngAuthority!Next
<1>1. /\ UNCHANGED <<engProposals, engWritten, engItems>> /\ engRequests[r].pc \notin EngFlying
      /\ EngTypeOK /\ engRequests[r] \in EngRequest /\ engFile \in EngFile
  BY EngRequestIs DEF EngCheckActive, EngDraft, EngBind, EngTransition, EngShown, EngRequireApprove,
     EngRequireDeny, EngRequireApply, EngRequire, EngRevalidate, EngReads, engDisk, EngFlying,
     EngAloft, EngIInv, EngTypeOK
<1>2. engFile.content \in EngContents \cup {EngAbsent}
  BY <1>1 DEF EngFile, EngNoFile
<1>3. \/ EngReply(r)
      \/ \E pc \in EngSteps \ EngFlying, outcome \in EngRecordStates :
            EngGoes(r, [engRequests[r] EXCEPT !.pc = pc, !.outcome = outcome])
      \/ \E pc \in EngSteps \ EngFlying : EngGoes(r, [engRequests[r] EXCEPT !.pc = pc])
      \/ EngGoes(r, [engRequests[r] EXCEPT !.pc = "register", !.base = engFile.content])
  <2>1. /\ {"decide", "finish", "get", "claim", "draft"} \subseteq EngSteps \ EngFlying
        /\ {"approved", "denied", "failed", "stale"} \subseteq EngRecordStates
    BY DEF EngSteps, EngFlying, EngAloft, EngRecordStates, EngOutcomes
  <2> QED
    BY <2>1 DEF EngCheckActive, EngDraft, EngBind, EngTransition, EngShown, EngRequireApprove,
       EngRequireDeny, EngRequireApply, EngRequire, EngRevalidate, EngReads
<1>4. ASSUME NEW pc \in EngSteps \ EngFlying, NEW outcome \in EngRecordStates,
             NEW q, q \in {[engRequests[r] EXCEPT !.pc = pc, !.outcome = outcome],
                           [engRequests[r] EXCEPT !.pc = pc]}
      PROVE  q \in EngRequest /\ q.pc \notin EngFlying
  BY <1>1, <1>4 DEF EngRequest
<1>5. ASSUME NEW q, q = [engRequests[r] EXCEPT !.pc = "register", !.base = engFile.content]
      PROVE  q \in EngRequest /\ q.pc \notin EngFlying
  BY <1>1, <1>2, <1>5 DEF EngRequest, EngSteps, EngFlying, EngAloft
<1>6. "absent" \in EngRecordStates
  BY DEF EngRecordStates
<1>7. EngReply(r) \/ \E q \in EngRequest : EngGoes(r, q) /\ q.pc \notin EngFlying
  BY <1>3, <1>4, <1>5, <1>6
<1>8. \A a \in EngApprovals : EngInFlight(a)' <=> EngInFlight(a)
  BY <1>1, <1>7, EngReplySteady, EngGoesSteady
<1> QED
  BY <1>1, <1>8, EngDropMap

LEMMA EngAdapterMap ==
    ASSUME EngIInv, NEW r \in EngRequests, EngResolve(r) \/ EngRecheck(r)
    PROVE  EngAuthority!Next
<1>1. /\ UNCHANGED <<engProposals, engWritten, engItems>> /\ engRequests[r].pc \in EngFlying
      /\ EngTypeOK /\ engRequests[r] \in EngRequest /\ engFile \in EngFile
  BY EngRequestIs DEF EngResolve, EngRecheck, EngReads, engDisk, EngFlying, EngAloft, EngIInv,
     EngTypeOK
<1>2. engFile.inode \in EngInodes \cup {EngNoInode}
  BY <1>1 DEF EngFile, EngNoFile
<1>3. \/ \E s \in EngOutcomes : EngSettles(r, s)
      \/ \E pc \in {"recheck", "publish"}, i \in EngInodes \cup {EngNoInode} :
            EngGoes(r, [engRequests[r] EXCEPT !.pc = pc, !.inode = i])
  BY <1>2 DEF EngResolve, EngRecheck, EngReads, EngOutcomes
<1>4. ASSUME NEW pc \in {"recheck", "publish"}, NEW i \in EngInodes \cup {EngNoInode},
             NEW q, q = [engRequests[r] EXCEPT !.pc = pc, !.inode = i]
      PROVE  q \in EngRequest /\ q.pc \in EngFlying /\ q.approval = engRequests[r].approval
  BY <1>1, <1>4 DEF EngRequest, EngSteps, EngFlying, EngAloft
<1>5. PICK q \in EngRequest : /\ EngGoes(r, q) /\ q.pc \in EngFlying
                              /\ q.approval = engRequests[r].approval
  <2>1. CASE \E s \in EngOutcomes : EngSettles(r, s)
    BY <2>1, EngSettlesIs DEF EngFlying
  <2>2. CASE \E pc \in {"recheck", "publish"}, i \in EngInodes \cup {EngNoInode} :
                EngGoes(r, [engRequests[r] EXCEPT !.pc = pc, !.inode = i])
    <3>1. PICK pc \in {"recheck", "publish"}, i \in EngInodes \cup {EngNoInode} :
            EngGoes(r, [engRequests[r] EXCEPT !.pc = pc, !.inode = i])
      BY <2>2
    <3> DEFINE q == [engRequests[r] EXCEPT !.pc = pc, !.inode = i]
    <3>2. /\ q \in EngRequest /\ q.pc \in EngFlying /\ q.approval = engRequests[r].approval
          /\ EngGoes(r, q)
      BY <1>4, <3>1
    <3> HIDE DEF q
    <3> QED
      BY <3>2
  <2> QED
    BY <1>3, <2>1, <2>2
<1>6. \A a \in EngApprovals : EngInFlight(a)' <=> EngInFlight(a)
  BY <1>1, <1>5, EngGoesSteady
<1> QED
  BY <1>1, <1>6, EngDropMap

LEMMA EngWorldMap ==
    ASSUME EngIInv, EngLook \/ EngEdit \/ EngTick \/ EngRestart
    PROVE  EngAuthority!Next
<1>1. CASE EngLook \/ EngEdit \/ EngTick
  <2>1. UNCHANGED <<engProposals, engWritten, engItems, engRequests>>
    BY <1>1 DEF EngLook, EngEdit, EngTick, engDisk
  <2>2. \A a \in EngApprovals : EngInFlight(a)' <=> EngInFlight(a)
    BY <2>1, EngFlightIs, EngFlightNext
  <2> QED
    BY <2>1, <2>2, EngDropMap
<1>2. CASE EngRestart
  <2>1. /\ UNCHANGED <<engProposals, engWritten>>
        /\ engItems' = [a \in EngApprovals |-> "absent"]
        /\ engRequests' = [r \in EngRequests |-> EngIdle]
    BY <1>2 DEF EngRestart, engDisk
  <2>2. ASSUME NEW a \in EngApprovals
        PROVE  \/ EngStanding'[a] = EngStanding[a]
               \/ EngStanding'[a] = "gone" /\ EngStanding[a] # "unasked"
    <3>1. EngIssued(a)' <=> EngIssued(a)
      BY <2>1 DEF EngIssued
    <3>2. ~EngInFlight(a)' /\ engItems'[a] \notin EngOpenRecord
      BY <2>1, EngIdleIs, EngFlightNext DEF EngFlying, EngAloft, EngOpenRecord
    <3> QED
      BY <3>1, <3>2, EngStandingIs, EngStandingNext DEF EngOpenRecord
  <2> QED
    BY <2>1, <2>2, EngLapseMap
<1> QED
  BY <1>1, <1>2

LEMMA EngCompleteMap ==
    ASSUME EngIInv, NEW r \in EngRequests, EngComplete(r)
    PROVE  EngAuthority!Next
<1> PICK b : b = engRequests[r].approval
  OBVIOUS
<1>1. /\ UNCHANGED <<engProposals, engWritten>> /\ engRequests[r].pc = "complete"
      /\ EngTypeOK /\ engRequests[r] \in EngRequest /\ EngThreadOK(r)
      /\ engItems \in [EngApprovals -> EngRecordStates]
  BY EngRequestIs DEF EngComplete, engDisk, EngIInv, EngTypeOK
<1>2. b \in EngApprovals /\ EngIssued(b) /\ engRequests[r].outcome \in EngOutcomes
      /\ engItems[b] \in {"claimed", "absent"}
  BY <1>1 DEF EngThreadOK, EngOpening, EngOutcomes, EngFlying
<1>3. /\ engRequests'[r].pc \notin EngFlying
      /\ \A s \in EngRequests \ {r} : engRequests'[s] = engRequests[s]
  <2>1. CASE EngReply(r)
    BY <1>1, <2>1, EngReplyIs DEF EngFlying, EngAloft
  <2>2. CASE EngGoes(r, [engRequests[r] EXCEPT !.pc = "transition"])
    <3> DEFINE q == [engRequests[r] EXCEPT !.pc = "transition"]
    <3>1. q \in EngRequest /\ q.pc = "transition"
      BY <1>1 DEF EngRequest, EngSteps
    <3>2. EngGoes(r, q)
      BY <2>2
    <3> HIDE DEF q
    <3> QED
      BY <1>1, <3>1, <3>2, EngGoesIs DEF EngFlying, EngAloft
  <2> QED
    BY <2>1, <2>2 DEF EngComplete
<1>4. /\ engItems'[b] \notin EngOpenRecord
      /\ \A a \in EngApprovals \ {b} : engItems'[a] = engItems[a]
  BY <1>1, <1>2 DEF EngComplete, EngOpenRecord, EngOutcomes
<1>5. EngInFlight(b) /\ ~EngInFlight(b)'
  <2>1. EngInFlight(b)
    BY <1>1, EngFlightIs DEF EngFlying
  <2>2. ASSUME NEW s \in EngRequests, engRequests'[s].approval = b, engRequests'[s].pc \in EngFlying
        PROVE  FALSE
    BY <1>1, <1>3, <2>2 DEF EngIInv, EngExclusive, EngFlying
  <2> QED
    BY <2>1, <2>2, EngFlightNext
<1>6. ASSUME NEW a \in EngApprovals \ {b} PROVE EngInFlight(a)' <=> EngInFlight(a)
  BY <1>1, <1>3, EngFlightIs, EngFlightNext
<1>7. ASSUME NEW a \in EngApprovals
      PROVE  \/ EngStanding'[a] = EngStanding[a]
             \/ EngStanding'[a] = "gone" /\ EngStanding[a] # "unasked"
  <2>1. EngIssued(a)' <=> EngIssued(a)
    BY <1>1 DEF EngIssued
  <2>2. CASE a = b
    BY <1>2, <1>4, <1>5, <2>1, <2>2, EngStandingIs, EngStandingNext
  <2>3. CASE a # b
    BY <1>4, <1>6, <2>1, <2>3, EngStandingIs, EngStandingNext
  <2> QED
    BY <2>2, <2>3
<1> QED
  BY <1>1, <1>7, EngLapseMap

LEMMA EngPublishMap ==
    ASSUME EngIInv, NEW r \in EngRequests, EngPublish(r)
    PROVE  EngAuthority!Next
<1> PICK b : b = engRequests[r].approval
  OBVIOUS
<1>1. /\ UNCHANGED <<engProposals, engItems>> /\ engRequests[r].pc = "publish"
      /\ EngTypeOK /\ EngThreadOK(r) /\ engRequests[r].pc \in EngFlying
  BY DEF EngPublish, EngPublishIf, EngIInv, EngFlying, EngAloft
<1>2. b \in EngApprovals /\ EngIssued(b) /\ engWritten[b] = <<>>
  BY <1>1 DEF EngThreadOK, EngOpening, EngAloft
<1>3. PICK s \in EngOutcomes : EngSettles(r, s)
  BY DEF EngPublish, EngPublishIf, EngOutcomes
<1>4. PICK q \in EngRequest : /\ EngGoes(r, q) /\ q.pc \in EngFlying
                              /\ q.approval = engRequests[r].approval
  BY <1>3, EngSettlesIs DEF EngFlying
<1>5. \A a \in EngApprovals : EngInFlight(a)' <=> EngInFlight(a)
  BY <1>1, <1>4, EngGoesSteady
<1>6. CASE UNCHANGED engDisk
  BY <1>1, <1>5, <1>6, EngDropMap DEF engDisk
<1>7. CASE engWritten' = [engWritten EXCEPT ![b] = Append(@, engProposals[b].content)]
  <2>1. EngInFlight(b) /\ EngStanding[b] = "spent"
    BY <1>1, <1>2, EngFlightIs, EngStandingIs
  <2>2. EngStanding' = EngStanding
    <3>1. \A a \in EngApprovals : EngStanding'[a] = EngStanding[a]
      <4> TAKE a \in EngApprovals
      <4>1. EngIssued(a)' <=> EngIssued(a)
        BY <1>1 DEF EngIssued
      <4> QED
        BY <1>1, <1>5, <4>1, EngStandingIs, EngStandingNext
    <3>2. /\ EngStanding = [a \in EngApprovals |-> EngStanding[a]]
          /\ EngStanding' = [a \in EngApprovals |-> EngStanding'[a]]
      BY DEF EngStanding
    <3> HIDE DEF EngStanding
    <3> QED
      BY <3>1, <3>2
  <2>3. EngAuthority!Act(b)
    BY <1>1, <1>2, <1>7, <2>1, <2>2 DEF EngAuthority!Act
  <2> QED
    BY <1>2, <2>3 DEF EngAuthority!Next
<1> QED
  BY <1>6, <1>7 DEF EngPublish, EngPublishIf


\* A step that moves one approval.
LEMMA EngMoveMap ==
    ASSUME NEW b \in EngApprovals, NEW v, EngStanding'[b] = v,
           \A a \in EngApprovals \ {b} : EngStanding'[a] = EngStanding[a]
    PROVE  EngStanding' = [EngStanding EXCEPT ![b] = v]
<1>1. /\ EngStanding = [a \in EngApprovals |-> EngStanding[a]]
      /\ EngStanding' = [a \in EngApprovals |-> EngStanding'[a]]
  BY DEF EngStanding
<1> HIDE DEF EngStanding
<1> QED
  BY <1>1

\* What a call on a record does to the record and to its thread.
LEMMA EngAdvanceIs ==
    ASSUME EngIInv, NEW r \in EngRequests, engRequests[r].pc \notin EngOpening,
           engRequests[r].pc \notin EngFlying,
           NEW expected, NEW state, NEW next \in EngRequest,
           next.approval = engRequests[r].approval, EngAdvance(r, expected, state, next),
           NEW b, b = engRequests[r].approval
    PROVE  /\ b \in EngApprovals /\ EngIssued(b) /\ EngIssued(b)'
           /\ UNCHANGED <<engProposals, engWritten>>
           /\ \A a \in EngApprovals \ {b} : engItems'[a] = engItems[a]
           /\ \A s \in EngRequests \ {r} : engRequests'[s] = engRequests[s]
           /\ \/ /\ engItems[b] = expected /\ engItems'[b] = state
                 /\ engRequests'[r].pc = next.pc /\ engRequests'[r].approval = b
              \/ /\ engItems'[b] \in {engItems[b], "absent"}
                 /\ engRequests'[r].pc = "idle"
<1>1. UNCHANGED <<engProposals, engWritten>>
  BY DEF EngAdvance, engDisk
<1>2. /\ b \in EngApprovals /\ EngIssued(b) /\ EngIssued(b)'
      /\ engItems \in [EngApprovals -> EngRecordStates] /\ EngTypeOK
  BY <1>1 DEF EngIInv, EngThreadOK, EngIssued, EngTypeOK
<1>3. CASE /\ engItems[b] = expected /\ engItems' = [engItems EXCEPT ![b] = state]
           /\ EngGoes(r, next)
  BY <1>1, <1>2, <1>3, EngGoesIs
<1>4. CASE /\ engItems' = [engItems EXCEPT ![b] = IF EngExpired(b, engClock) THEN "absent" ELSE @]
           /\ EngReply(r)
  BY <1>1, <1>2, <1>4, EngReplyIs
<1>5. CASE engItems' \in {engItems, [engItems EXCEPT ![b] = "absent"]} /\ EngReply(r)
  BY <1>1, <1>2, <1>5, EngReplyIs
<1>6. [engItems EXCEPT ![b] = engItems[b]] = engItems
  BY <1>2
<1> QED
  BY <1>3, <1>5, <1>6 DEF EngAdvance

LEMMA EngAuthorityMap ==
    ASSUME EngIInv, NEW r \in EngRequests,
           EngDecide(r) \/ EngGetApproved(r) \/ EngFinishApproved(r) \/ EngClaimApproved(r)
    PROVE  EngAuthority!Next
<1> PICK b : b = engRequests[r].approval
  OBVIOUS
<1>1. /\ engRequests[r] \in EngRequest /\ EngThreadOK(r)
      /\ engRequests[r].pc \notin EngOpening /\ engRequests[r].pc \notin EngFlying
  BY EngRequestIs DEF EngIInv, EngDecide, EngGetApproved, EngFinishApproved, EngClaimApproved,
     EngOpening, EngFlying, EngAloft
<1>2. PICK expected, state, pc :
        /\ pc \in EngSteps
        /\ EngAdvance(r, expected, state, [engRequests[r] EXCEPT !.pc = pc])
        /\ \/ expected = "pending" /\ state \in {"approved", "denied"} /\ pc = "transition"
           \/ expected = "approved" /\ state = "approved" /\ pc = "revalidate"
           \/ expected = "approved" /\ state \in {"stale", "failed"} /\ pc = "transition"
           \/ expected = "approved" /\ state = "claimed" /\ pc = "resolve"
  <2>1. {"transition", "revalidate", "resolve"} \subseteq EngSteps
    BY DEF EngSteps
  <2>2. ASSUME EngDecide(r) PROVE engRequests[r].outcome \in {"approved", "denied"}
    BY <1>1, <2>2 DEF EngThreadOK, EngDecide
  <2>3. ASSUME EngFinishApproved(r) PROVE engRequests[r].outcome \in {"stale", "failed"}
    BY <1>1, <2>3 DEF EngThreadOK, EngFinishApproved
  <2>4. CASE EngDecide(r)
    BY <2>1, <2>2, <2>4 DEF EngDecide
  <2>5. CASE EngGetApproved(r)
    BY <2>1, <2>5 DEF EngGetApproved
  <2>6. CASE EngFinishApproved(r)
    BY <2>1, <2>3, <2>6 DEF EngFinishApproved
  <2>7. CASE EngClaimApproved(r)
    BY <2>1, <2>7 DEF EngClaimApproved
  <2> QED
    BY <2>4, <2>5, <2>6, <2>7
<1> DEFINE q == [engRequests[r] EXCEPT !.pc = pc]
<1>3. q \in EngRequest /\ q.pc = pc /\ q.approval = b /\ EngAdvance(r, expected, state, q)
  BY <1>1, <1>2 DEF EngRequest
<1> HIDE DEF q
<1>4. /\ b \in EngApprovals /\ EngIssued(b) /\ EngIssued(b)'
      /\ UNCHANGED <<engProposals, engWritten>>
      /\ \A a \in EngApprovals \ {b} : engItems'[a] = engItems[a]
      /\ \A s \in EngRequests \ {r} : engRequests'[s] = engRequests[s]
      /\ \/ /\ engItems[b] = expected /\ engItems'[b] = state
            /\ engRequests'[r].pc = pc /\ engRequests'[r].approval = b
         \/ /\ engItems'[b] \in {engItems[b], "absent"}
            /\ engRequests'[r].pc = "idle"
  BY <1>1, <1>3, EngAdvanceIs
<1>5. ASSUME engRequests'[r].pc \notin EngFlying, NEW a \in EngApprovals
      PROVE  EngInFlight(a)' <=> EngInFlight(a)
  BY <1>1, <1>4, <1>5, EngSteady
<1>6. CASE engItems'[b] = engItems[b] \/ engItems'[b] \notin EngOpenRecord
  <2>1. CASE engRequests'[r].pc \notin EngFlying
    BY <1>4, <1>5, <1>6, <2>1, EngDropMap
  <2>2. CASE engRequests'[r].pc \in EngFlying
    <3>1. /\ engItems[b] = "approved" /\ engItems'[b] = "claimed"
          /\ engRequests'[r].pc = "resolve" /\ engRequests'[r].approval = b
      BY <1>2, <1>4, <2>2 DEF EngFlying, EngAloft
    <3>2. ~EngInFlight(b) /\ EngInFlight(b)'
      <4>1. ~EngInFlight(b)
        BY <1>4, <3>1 DEF EngIInv, EngApprovalOK
      <4>2. EngInFlight(b)'
        BY <2>2, <3>1, EngFlightNext
      <4> QED
        BY <4>1, <4>2
    <3>3. EngStanding[b] = "approved" /\ EngStanding'[b] = "spent"
      BY <1>4, <3>1, <3>2, EngStandingIs, EngStandingNext DEF EngOpenRecord
    <3>4. ASSUME NEW a \in EngApprovals \ {b} PROVE EngStanding'[a] = EngStanding[a]
      <4>1. EngInFlight(a)' <=> EngInFlight(a)
        BY <1>1, <1>4, <3>1, EngFlightIs, EngFlightNext
      <4>2. EngIssued(a)' <=> EngIssued(a)
        BY <1>4 DEF EngIssued
      <4> QED
        BY <1>4, <4>1, <4>2, EngStandingIs, EngStandingNext
    <3>5. EngStanding' = [EngStanding EXCEPT ![b] = "spent"]
      BY <1>4, <3>3, <3>4, EngMoveMap
    <3>6. EngAuthority!Spend(b)
      BY <1>4, <3>3, <3>5 DEF EngAuthority!Spend
    <3> QED
      BY <1>4, <3>6 DEF EngAuthority!Next
  <2> QED
    BY <2>1, <2>2
<1>7. CASE engItems'[b] # engItems[b] /\ engItems'[b] \in EngOpenRecord
  <2>1. /\ engItems[b] = "pending" /\ engItems'[b] = state /\ state \in {"approved", "denied"}
        /\ engRequests'[r].pc = "transition"
    BY <1>2, <1>4, <1>7 DEF EngOpenRecord
  <2>2. \A a \in EngApprovals : EngInFlight(a)' <=> EngInFlight(a)
    BY <1>5, <2>1 DEF EngFlying, EngAloft
  <2>3. ~EngInFlight(b)
    BY <1>4, <2>1 DEF EngIInv, EngApprovalOK
  <2>4. EngStanding[b] = "pending" /\ EngStanding'[b] = state
    BY <1>4, <2>1, <2>2, <2>3, EngStandingIs, EngStandingNext DEF EngOpenRecord
  <2>5. ASSUME NEW a \in EngApprovals \ {b} PROVE EngStanding'[a] = EngStanding[a]
    <3>1. EngIssued(a)' <=> EngIssued(a)
      BY <1>4 DEF EngIssued
    <3> QED
      BY <1>4, <2>2, <3>1, EngStandingIs, EngStandingNext
  <2>6. EngStanding' = [EngStanding EXCEPT ![b] = state]
    BY <1>4, <2>4, <2>5, EngMoveMap
  <2>7. EngAuthority!Decide(b, state)
    BY <1>4, <2>4, <2>6 DEF EngAuthority!Decide
  <2> QED
    BY <1>4, <2>1, <2>7 DEF EngAuthority!Next
<1> QED
  BY <1>6, <1>7

LEMMA EngRegisterMap ==
    ASSUME EngIInv, NEW r \in EngRequests, EngRegister(r)
    PROVE  EngAuthority!Next
<1>1. /\ UNCHANGED engWritten /\ engRequests[r].pc = "register" /\ EngTypeOK
      /\ engRequests[r].pc \notin EngFlying /\ engRequests[r].content \in EngContents
  BY DEF EngRegister, engDisk, EngIInv, EngFlying, EngAloft, EngThreadOK
<1>2. PICK when :
        \/ engItems' = EngCleaned(when) /\ EngReply(r) /\ UNCHANGED engProposals
        \/ \E a \in EngApprovals :
              /\ ~EngIssued(a)
              /\ engItems' = [EngCleaned(when) EXCEPT ![a] = "pending"]
              /\ engProposals' = [engProposals EXCEPT ![a] =
                    [conversation |-> engRequests[r].conversation,
                     base |-> engRequests[r].base,
                     content |-> engRequests[r].content, expires |-> when + EngTTL]]
              /\ EngGoes(r, [EngIdle EXCEPT !.pc = "bind", !.approval = a])
  BY DEF EngRegister
<1> DEFINE kept == EngCleaned(when)
<1>3. /\ kept \in [EngApprovals -> EngRecordStates]
      /\ \A a \in EngApprovals : kept[a] \in {engItems[a], "absent"}
  BY EngCleanedIs
<1> HIDE DEF kept
<1>4. CASE engItems' = kept /\ EngReply(r) /\ UNCHANGED engProposals
  <2>1. \A a \in EngApprovals : EngInFlight(a)' <=> EngInFlight(a)
    BY <1>1, <1>4, EngReplySteady
  <2> QED
    BY <1>1, <1>3, <1>4, <2>1, EngDropMap DEF EngOpenRecord
<1>5. ASSUME NEW b \in EngApprovals, NEW d, ~EngIssued(b), d.content = engRequests[r].content,
             engItems' = [kept EXCEPT ![b] = "pending"],
             engProposals' = [engProposals EXCEPT ![b] = d],
             EngGoes(r, [EngIdle EXCEPT !.pc = "bind", !.approval = b])
      PROVE  EngAuthority!Next
  <2> DEFINE q == [EngIdle EXCEPT !.pc = "bind", !.approval = b]
  <2>1. q \in EngRequest /\ q.pc = "bind" /\ EngGoes(r, q)
    BY <1>5 DEF EngIdle, EngRequest, EngSteps, EngRecordStates
  <2> HIDE DEF q
  <2>2. \A a \in EngApprovals : EngInFlight(a)' <=> EngInFlight(a)
    BY <1>1, <2>1, EngGoesSteady DEF EngFlying, EngAloft
  <2>3. /\ engProposals'[b] = d /\ engItems'[b] = "pending"
        /\ \A a \in EngApprovals \ {b} :
              engProposals'[a] = engProposals[a] /\ engItems'[a] \in {engItems[a], "absent"}
    BY <1>1, <1>3, <1>5 DEF EngTypeOK
  <2>4. EngIssued(b)' /\ ~EngInFlight(b)
    <3>1. EngIssued(b)'
      BY <1>1, <1>5, <2>3, EngBounds DEF EngIssued
    <3>2. ~EngInFlight(b)
      BY <1>5, EngFlightIs, EngStatesAre DEF EngIInv, EngThreadOK
    <3> QED
      BY <3>1, <3>2
  <2>5. EngStanding[b] = "unasked" /\ EngStanding'[b] = "pending"
    BY <1>5, <2>2, <2>3, <2>4, EngStandingIs, EngStandingNext DEF EngOpenRecord
  <2>6. ASSUME NEW a \in EngApprovals \ {b}
        PROVE  \/ EngStanding'[a] = EngStanding[a]
               \/ EngStanding'[a] = "gone" /\ EngStanding[a] # "unasked"
    <3>1. EngIssued(a)' <=> EngIssued(a)
      BY <2>3 DEF EngIssued
    <3> QED
      BY <2>2, <2>3, <3>1, EngStandingIs, EngStandingNext DEF EngOpenRecord
  <2>7. PICK S \in SUBSET EngApprovals :
             S = {a \in EngApprovals \ {b} : EngStanding'[a] # EngStanding[a]}
    OBVIOUS
  <2>8. EngStanding' = [EngAuthority!Lapsed(S) EXCEPT ![b] = "pending"]
    <3>1. \A a \in EngApprovals :
            EngStanding'[a] = IF a = b THEN "pending" ELSE EngAuthority!Lapsed(S)[a]
      BY <2>5, <2>6, <2>7 DEF EngAuthority!Lapsed
    <3>2. EngStanding' = [a \in EngApprovals |-> EngStanding'[a]]
      BY DEF EngStanding
    <3> HIDE DEF EngStanding
    <3> QED
      BY <3>1, <3>2 DEF EngAuthority!Lapsed
  <2>9. [a \in EngApprovals |-> engProposals'[a].content]
          = [[a \in EngApprovals |-> engProposals[a].content]
                EXCEPT ![b] = engRequests[r].content]
    <3>1. \A a \in EngApprovals : engProposals'[a].content =
            IF a = b THEN engRequests[r].content ELSE engProposals[a].content
      <4>1. engProposals'[b].content = engRequests[r].content
        BY <1>5, <2>3
      <4>2. \A a \in EngApprovals \ {b} : engProposals'[a].content = engProposals[a].content
        BY <2>3
      <4> QED
        BY <4>1, <4>2
    <3> QED
      BY <3>1
  <2>10. EngAuthority!Ask(b, engRequests[r].content, S)
    BY <1>1, <2>5, <2>8, <2>9 DEF EngAuthority!Ask
  <2> QED
    BY <1>1, <2>7, <2>10 DEF EngAuthority!Next
<1>6. ASSUME NEW b \in EngApprovals, ~EngIssued(b),
             engItems' = [EngCleaned(when) EXCEPT ![b] = "pending"],
             engProposals' = [engProposals EXCEPT ![b] =
                    [conversation |-> engRequests[r].conversation,
                     base |-> engRequests[r].base,
                     content |-> engRequests[r].content, expires |-> when + EngTTL]],
             EngGoes(r, [EngIdle EXCEPT !.pc = "bind", !.approval = b])
      PROVE  EngAuthority!Next
  <2>1. PICK d : d = [conversation |-> engRequests[r].conversation,
                      base |-> engRequests[r].base,
                      content |-> engRequests[r].content, expires |-> when + EngTTL]
    OBVIOUS
  <2>2. d.content = engRequests[r].content
    BY <2>1
  <2> QED
    BY <1>5, <1>6, <2>1, <2>2 DEF kept
<1> QED
  BY <1>2, <1>4, <1>6 DEF kept

LEMMA EngStepMap ==
    EngIInv /\ [EngNext]_engVars => [EngAuthority!Next]_EngAuthority!vars
<1> SUFFICES ASSUME EngIInv, [EngNext]_engVars
             PROVE  [EngAuthority!Next]_EngAuthority!vars
  OBVIOUS
<1>1. CASE UNCHANGED engVars
  <2>1. UNCHANGED <<engProposals, engItems, engRequests, engWritten>>
    BY <1>1 DEF engVars
  <2>2. \A a \in EngApprovals : EngInFlight(a)' <=> EngInFlight(a)
    BY <2>1, EngFlightIs, EngFlightNext
  <2>3. EngAuthority!Next
    BY <2>1, <2>2, EngDropMap
  <2> QED
    BY <2>3
<1>2. ASSUME NEW r \in EngRequests, EngServe(r) PROVE EngAuthority!Next
  BY <1>2, EngGroundMap, EngRegisterMap, EngAuthorityMap, EngAdapterMap, EngPublishMap,
     EngCompleteMap DEF EngServe
<1> QED
  BY <1>1, <1>2, EngOwnerMap, EngWorldMap DEF EngNext

\* The lane is a one-shot authority, for any number of threads, approvals and
\* files: an approval is claimed once and written at most once, with the
\* content the owner reviewed.
THEOREM EngImplements == EngSpec => EngImplementsAuthority
BY EngInitMap, EngStepMap, EngIInvAlways, PTL
DEF EngSpec, EngImplementsAuthority, EngAuthority!Spec

-----------------------------------------------------------------------------
(***************************************************************************)
(* Proofs about ChatClient, for any number of conversations, cards, mounts *)
(* and answers on their way.                                               *)
(*                                                                         *)
(* Versions grow, so nothing sent earlier can become current again         *)
(* (CliFresh).  At most one read counts, it is for the owner's last choice *)
(* and the page is waiting for it (CliReadsOK); at most one turn belongs   *)
(* to the page, and no choice outdates it (CliTurnsOK).  Decisions on      *)
(* cards appear nowhere: they disturb none of this, they only change what  *)
(* is shown.                                                               *)
(***************************************************************************)

CliRead(r) == r.kind \notin {"turn", "card"}

CliFresh == \A r \in cliRequests : r.mount <= r.version /\ r.version <= cliScreen.version

CliReadsOK ==
    \A r \in cliRequests :
        CliRead(r) /\ CliCurrent(r) =>
            /\ cliScreen.restoring
            /\ r.conversation = cliChosen
            /\ \A s \in cliRequests : CliRead(s) /\ CliCurrent(s) => s = r

CliTurnsOK ==
    \A r \in cliRequests :
        r.kind = "turn" /\ CliMounted(r) =>
            /\ cliScreen.turn
            /\ r.version = cliScreen.version
            /\ r.conversation = cliChosen
            /\ \A s \in cliRequests : s.kind = "turn" /\ CliMounted(s) => s = r

CliIInv == CliTypeOK /\ CliFresh /\ CliReadsOK /\ CliTurnsOK /\ CliAnswersAreAwaited

\* What the page still waits for.
CliAwaited(r) ==
    \/ CliRead(r) /\ CliCurrent(r)
    \/ r.kind = "turn" /\ CliMounted(r)

\* The sets CliTypeOK draws the page and the cards from.
CliPage ==
    [mount : 0..CliMaxVersion, version : 0..CliMaxVersion,
     conversation : CliShown, shows : SUBSET CliShown,
     turn : BOOLEAN, restoring : BOOLEAN, project : BOOLEAN]
CliOffer == [state : {"unused", "open", "sent", "closed"}, conversation : CliShown]

-----------------------------------------------------------------------------
(* Types.                                                                  *)

LEMMA CliCardsGoType ==
    ASSUME cliOffers \in [CliCards -> CliOffer], CliCardsGo
    PROVE  cliOffers' \in [CliCards -> CliOffer]
<1>1. \A k \in CliCards : cliOffers[k] \in CliOffer
  OBVIOUS
<1>2. \A o \in CliOffer : [o EXCEPT !.state = "closed"] \in CliOffer
  BY DEF CliOffer
<1> QED
  BY <1>1, <1>2 DEF CliCardsGo

LEMMA CliSentType ==
    ASSUME CliTypeOK, NEW v \in 0..CliMaxVersion, NEW c \in CliShown,
           NEW k \in CliCards \cup {CliNone},
           NEW kind \in {"mount", "pending", "detail", "project", "turn", "card"}
    PROVE  CliSent(kind, v, c, k) \in CliRequest
BY DEF CliTypeOK, CliSent, CliRequest

LEMMA CliFirstType ==
    ASSUME CliAssumption, cliStored \in CliShown, NEW v \in 0..CliMaxVersion, NEW pending \in BOOLEAN
    PROVE  /\ CliFirst(v, pending) \in CliRequest
           /\ CliBlank(v) \in CliPage
<1>1. CliFirst(v, pending) \in CliRequest
  <2>1. CASE pending
    BY <2>1 DEF CliFirst, CliRequest, CliShown
  <2>2. CASE ~pending
    BY <2>2 DEF CliFirst, CliRequest, CliShown
  <2> QED
    BY <2>1, <2>2
<1>2. CliBlank(v) \in CliPage
  BY DEF CliBlank, CliPage, CliShown
<1> QED
  BY <1>1, <1>2

-----------------------------------------------------------------------------
(* The initial state.                                                      *)

LEMMA CliInitOK ==
    ASSUME CliAssumption, CliInit PROVE CliIInv
<1> PICK pending \in BOOLEAN :
        cliRequests = {CliFirst(0, pending)} /\ cliChosen = CliFirst(0, pending).conversation
  BY DEF CliInit
<1>1. cliStored \in CliShown /\ 0 \in 0..CliMaxVersion
  BY DEF CliInit, CliShown, CliAssumption
<1>2. CliFirst(0, pending) \in CliRequest /\ CliBlank(0) \in CliPage
  BY <1>1, CliFirstType
<1>3. CliTypeOK
  BY <1>1, <1>2 DEF CliTypeOK, CliInit, CliPage, CliShown, CliBlank, CliRequest
<1>4. /\ CliFirst(0, pending).kind \in {"pending", "mount"}
      /\ CliFirst(0, pending).mount = 0 /\ CliFirst(0, pending).version = 0
  BY DEF CliFirst
<1>5. cliScreen.mount = 0 /\ cliScreen.version = 0 /\ cliScreen.restoring /\ ~cliScreen.turn
  BY DEF CliInit, CliBlank
<1>6. CliFresh
  BY <1>4, <1>5 DEF CliFresh
<1>7. CliReadsOK /\ CliTurnsOK /\ CliAnswersAreAwaited
  BY <1>4, <1>5 DEF CliReadsOK, CliTurnsOK, CliAnswersAreAwaited, CliRead, CliCurrent, CliMounted
<1> QED
  BY <1>3, <1>6, <1>7 DEF CliIInv

-----------------------------------------------------------------------------
(* What a step does to the waits of the page.                              *)

\* Nothing: what it waits for stays, and only decisions on cards are sent.
LEMMA CliNoWaitChanges ==
    ASSUME CliIInv, CliTypeOK',
           cliScreen'.mount = cliScreen.mount, cliScreen'.version = cliScreen.version,
           cliScreen'.turn = cliScreen.turn, cliScreen'.restoring = cliScreen.restoring,
           cliChosen' = cliChosen,
           \A r \in cliRequests : CliAwaited(r) => r \in cliRequests',
           \A r \in cliRequests' : r \in cliRequests
               \/ (r.kind = "card" /\ r.mount <= r.version /\ r.version <= cliScreen.version)
    PROVE  CliIInv'
<1>1. CliFresh'
  BY DEF CliIInv, CliFresh
<1>2. CliReadsOK'
  BY DEF CliIInv, CliReadsOK, CliRead, CliCurrent, CliMounted
<1>3. CliTurnsOK'
  BY DEF CliIInv, CliTurnsOK, CliMounted
<1>4. CliAnswersAreAwaited'
  BY DEF CliIInv, CliAnswersAreAwaited, CliAwaited, CliRead, CliCurrent, CliMounted
<1> QED
  BY <1>1, <1>2, <1>3, <1>4 DEF CliIInv

\* A new version: all reads and turns of before are outdated, and the page
\* waits for the read that comes with it.
LEMMA CliNewVersion ==
    ASSUME CliIInv, CliTypeOK', NEW first \in cliRequests',
           cliScreen'.version = cliScreen.version + 1,
           cliScreen'.restoring, ~cliScreen'.turn,
           CliRead(first), first.version = cliScreen'.version,
           first.mount = cliScreen'.mount, first.conversation = cliChosen',
           \A r \in cliRequests' : r = first \/ r \in cliRequests,
           \A r \in cliRequests : r.kind = "turn" => r.mount # cliScreen'.mount
    PROVE  CliIInv'
<1>1. \A r \in cliRequests : r.version <= cliScreen.version /\ r.version \in Nat /\ cliScreen.version \in Nat
  BY DEF CliIInv, CliFresh, CliTypeOK, CliRequest
<1>2. \A r \in cliRequests' : r.version = cliScreen'.version => r = first
  BY <1>1
<1>3. cliScreen'.mount <= cliScreen'.version /\ cliScreen'.version \in Nat
  BY DEF CliTypeOK
<1>4. CliFresh'
  BY <1>1, <1>3 DEF CliIInv, CliFresh
<1>5. CliReadsOK'
  BY <1>2 DEF CliReadsOK, CliRead, CliCurrent, CliMounted
<1>6. CliTurnsOK'
  BY DEF CliTurnsOK, CliMounted, CliRead
<1>7. CliAnswersAreAwaited'
  BY DEF CliAnswersAreAwaited, CliCurrent, CliMounted, CliRead
<1> QED
  BY <1>4, <1>5, <1>6, <1>7 DEF CliIInv

\* The read it waits for is answered.
LEMMA CliReadEnds ==
    ASSUME CliIInv, CliTypeOK', NEW r \in cliRequests, CliRead(r), CliCurrent(r),
           cliScreen'.mount = cliScreen.mount, cliScreen'.version = cliScreen.version,
           cliScreen'.turn = cliScreen.turn, ~cliScreen'.restoring,
           cliChosen' = cliChosen, cliRequests' = cliRequests \ {r}
    PROVE  CliIInv'
<1>1. CliFresh'
  BY DEF CliIInv, CliFresh
<1>2. CliReadsOK'
  BY DEF CliIInv, CliReadsOK, CliRead, CliCurrent, CliMounted
<1>3. CliTurnsOK'
  BY DEF CliIInv, CliTurnsOK, CliMounted
<1>4. CliAnswersAreAwaited'
  BY DEF CliIInv, CliAnswersAreAwaited, CliRead, CliCurrent, CliMounted
<1> QED
  BY <1>1, <1>2, <1>3, <1>4 DEF CliIInv

\* The turn it waits for is answered, and with that the conversation chosen.
LEMMA CliTurnEnds ==
    ASSUME CliIInv, CliTypeOK', NEW r \in cliRequests, r.kind = "turn", CliMounted(r),
           cliScreen'.mount = cliScreen.mount, cliScreen'.version = cliScreen.version,
           ~cliScreen'.turn, cliScreen'.restoring = cliScreen.restoring,
           cliRequests' = cliRequests \ {r}
    PROVE  CliIInv'
<1>1. ~cliScreen.restoring
  BY DEF CliIInv, CliTurnsOK, CliAnswersAreAwaited
<1>2. CliFresh'
  BY DEF CliIInv, CliFresh
<1>3. CliReadsOK'
  BY <1>1 DEF CliIInv, CliReadsOK, CliRead, CliCurrent, CliMounted
<1>4. CliTurnsOK'
  BY DEF CliIInv, CliTurnsOK, CliMounted
<1>5. CliAnswersAreAwaited'
  BY <1>1 DEF CliAnswersAreAwaited
<1> QED
  BY <1>2, <1>3, <1>4, <1>5 DEF CliIInv

-----------------------------------------------------------------------------
(* The actions.                                                            *)

LEMMA CliTypeParts ==
    CliTypeOK <=> /\ cliScreen \in CliPage /\ cliScreen.mount <= cliScreen.version
                  /\ cliStored \in CliShown
                  /\ cliOffers \in [CliCards -> CliOffer]
                  /\ cliRequests \subseteq CliRequest
                  /\ cliExists \subseteq CliConversations
                  /\ cliChosen \in CliShown
BY DEF CliTypeOK, CliPage, CliOffer

LEMMA CliRemountOK ==
    ASSUME CliAssumption, CliIInv, CliRemount PROVE CliIInv'
<1> DEFINE v == cliScreen.version + 1
<1> PICK pending \in BOOLEAN, reload \in BOOLEAN :
        /\ cliRequests' = (IF reload THEN {} ELSE cliRequests) \cup {CliFirst(v, pending)}
        /\ cliChosen' = CliFirst(v, pending).conversation
  BY DEF CliRemount
<1>1. v \in 0..CliMaxVersion /\ cliScreen.version \in Nat
  BY DEF CliRemount, CliIInv, CliTypeOK, CliAssumption
<1>2. CliFirst(v, pending) \in CliRequest /\ CliBlank(v) \in CliPage
  BY <1>1, CliFirstType DEF CliIInv, CliTypeOK
<1>3. /\ cliScreen' = CliBlank(v) /\ cliScreen'.mount = v /\ cliScreen'.version = v
      /\ cliScreen'.restoring /\ ~cliScreen'.turn
  BY DEF CliRemount, CliBlank
<1>4. cliOffers' \in [CliCards -> CliOffer]
  BY CliCardsGoType, CliTypeParts DEF CliRemount, CliIInv
<1>5. CliFirst(v, pending).conversation \in CliShown
  BY <1>2 DEF CliRequest
<1>6. CliTypeOK'
  <2>1. cliRequests' \subseteq CliRequest
    BY <1>2, CliTypeParts DEF CliIInv
  <2>2. /\ cliScreen' \in CliPage /\ cliScreen'.mount <= cliScreen'.version
        /\ cliChosen' \in CliShown
    BY <1>1, <1>2, <1>3, <1>5
  <2>3. cliStored' \in CliShown /\ cliExists' \subseteq CliConversations
    BY CliTypeParts DEF CliRemount, CliIInv
  <2> QED
    BY <1>4, <2>1, <2>2, <2>3 DEF CliTypeOK, CliPage, CliOffer
<1>7. /\ CliRead(CliFirst(v, pending)) /\ CliFirst(v, pending).version = v
      /\ CliFirst(v, pending).mount = v
  BY DEF CliRead, CliFirst
<1>8. \A r \in cliRequests : r.mount # v
  BY <1>1 DEF CliIInv, CliFresh, CliTypeOK, CliRequest
<1> HIDE DEF v
<1>9. cliScreen'.version = cliScreen.version + 1
  BY <1>3 DEF v
<1> QED
  BY <1>3, <1>6, <1>7, <1>8, <1>9, CliNewVersion

\* A restore starts, from the mount's microtask or from the owner's choice.
LEMMA CliRestoresOK ==
    ASSUME CliAssumption, CliIInv, NEW q, NEW c \in CliShown, CliRestores(q, c),
           ~cliScreen.turn, cliChosen' = c, UNCHANGED <<cliStored, cliOffers, cliExists>>
    PROVE  CliIInv'
<1> DEFINE first == CliSent("detail", cliScreen.version + 1, c, CliNone)
<1>1. cliScreen.version \in Nat /\ cliScreen.version + 1 \in 0..CliMaxVersion
  BY DEF CliRestores, CliIInv, CliTypeOK, CliAssumption
<1>2. first \in CliRequest
  BY <1>1, CliSentType DEF CliIInv
<1>3. cliRequests' = (cliRequests \ {q}) \cup {first}
  BY DEF CliRestores, CliAnswered
<1>4. cliScreen \in CliPage /\ cliScreen.mount <= cliScreen.version
  BY CliTypeParts DEF CliIInv
<1>5. /\ cliScreen' \in CliPage /\ cliScreen'.mount = cliScreen.mount
      /\ cliScreen'.version = cliScreen.version + 1 /\ cliScreen'.restoring
      /\ cliScreen'.turn = cliScreen.turn
  BY <1>1, <1>4 DEF CliRestores, CliPage
<1>6. CliTypeOK'
  <2>1. cliRequests' \subseteq CliRequest
    BY <1>2, <1>3, CliTypeParts DEF CliIInv
  <2>2. cliScreen'.mount <= cliScreen'.version
    BY <1>1, <1>4, <1>5 DEF CliPage
  <2> QED
    BY <1>5, <2>1, <2>2, CliTypeParts DEF CliIInv, CliTypeOK, CliPage, CliOffer
<1>7. /\ CliRead(first) /\ first.version = cliScreen.version + 1
      /\ first.mount = cliScreen.mount /\ first.conversation = c
  BY DEF CliRead, CliSent
<1>8. \A r \in cliRequests : r.kind = "turn" => r.mount # cliScreen.mount
  BY DEF CliIInv, CliTurnsOK, CliMounted
<1> HIDE DEF first
<1> QED
  BY <1>3, <1>5, <1>6, <1>7, <1>8, CliNewVersion

LEMMA CliSelectOK ==
    ASSUME CliAssumption, CliIInv, NEW c \in CliConversations, CliSelect(c) PROVE CliIInv'
BY CliRestoresOK DEF CliSelect, CliShown

LEMMA CliNewOK ==
    ASSUME CliAssumption, CliIInv, CliNew PROVE CliIInv'
<1>1. cliScreen \in CliPage /\ cliScreen.mount <= cliScreen.version
  BY CliTypeParts DEF CliIInv
<1>2. cliScreen.version \in Nat /\ cliScreen.version + 1 \in 0..CliMaxVersion
  BY <1>1 DEF CliNew, CliPage, CliAssumption
<1>3. /\ cliScreen' \in CliPage /\ cliScreen'.mount = cliScreen.mount
      /\ cliScreen'.version = cliScreen.version + 1 /\ ~cliScreen'.restoring
      /\ cliScreen'.turn = cliScreen.turn /\ ~cliScreen.turn
  BY <1>1, <1>2 DEF CliNew, CliPage, CliShown
<1>4. cliOffers' \in [CliCards -> CliOffer]
  BY CliCardsGoType, CliTypeParts DEF CliNew, CliIInv
<1>5. CliTypeOK'
  <2>1. cliScreen'.mount <= cliScreen'.version
    BY <1>1, <1>2, <1>3 DEF CliPage
  <2>2. cliStored' \in CliShown /\ cliChosen' \in CliShown
    BY DEF CliNew, CliShown
  <2>3. cliRequests' \subseteq CliRequest /\ cliExists' \subseteq CliConversations
    BY CliTypeParts DEF CliNew, CliIInv
  <2> QED
    BY <1>3, <1>4, <2>1, <2>2, <2>3 DEF CliTypeOK, CliPage, CliOffer
<1>6. \A r \in cliRequests : r.version <= cliScreen.version /\ r.version \in Nat
  BY DEF CliIInv, CliFresh, CliTypeOK, CliRequest
<1>7. cliRequests' = cliRequests
  BY DEF CliNew
<1>8. \A r \in cliRequests : r.version # cliScreen'.version
  BY <1>2, <1>3, <1>6
<1>9. CliFresh'
  BY <1>2, <1>3, <1>6, <1>7 DEF CliIInv, CliFresh
<1>10. CliReadsOK'
  BY <1>7, <1>8 DEF CliReadsOK, CliCurrent
<1>11. CliTurnsOK'
  BY <1>3, <1>7 DEF CliIInv, CliTurnsOK, CliMounted
<1>12. CliAnswersAreAwaited'
  BY <1>3 DEF CliAnswersAreAwaited
<1> QED
  BY <1>5, <1>9, <1>10, <1>11, <1>12 DEF CliIInv

LEMMA CliSubmitOK ==
    ASSUME CliAssumption, CliIInv, CliSubmit PROVE CliIInv'
<1> DEFINE q == CliSent("turn", cliScreen.version, cliScreen.conversation, CliNone)
<1>1. cliScreen \in CliPage /\ cliScreen.mount <= cliScreen.version
  BY CliTypeParts DEF CliIInv
<1>2. q \in CliRequest
  BY <1>1, CliSentType DEF CliIInv, CliPage
<1>3. cliRequests' = cliRequests \cup {q} /\ cliChosen' = cliScreen.conversation
  BY DEF CliSubmit
<1>4. /\ cliScreen' \in CliPage /\ cliScreen'.mount = cliScreen.mount
      /\ cliScreen'.version = cliScreen.version /\ cliScreen'.turn
      /\ ~cliScreen'.restoring /\ ~cliScreen.turn /\ ~cliScreen.restoring
  BY <1>1 DEF CliSubmit, CliPage
<1>5. CliTypeOK'
  <2>1. cliRequests' \subseteq CliRequest
    BY <1>2, <1>3, CliTypeParts DEF CliIInv
  <2>2. cliScreen'.mount <= cliScreen'.version /\ cliChosen' \in CliShown
    BY <1>1, <1>3, <1>4 DEF CliPage
  <2> QED
    BY <1>4, <2>1, <2>2, CliTypeParts DEF CliSubmit, CliIInv, CliTypeOK, CliPage, CliOffer
<1>6. /\ q.kind = "turn" /\ q.version = cliScreen.version /\ q.mount = cliScreen.mount
      /\ q.conversation = cliScreen.conversation
  BY DEF CliSent
<1> HIDE DEF q
<1>7. CliFresh'
  BY <1>1, <1>3, <1>4, <1>6 DEF CliIInv, CliFresh, CliPage
<1>8. CliReadsOK'
  BY <1>3, <1>4, <1>6 DEF CliIInv, CliReadsOK, CliRead, CliCurrent, CliMounted
<1>9. CliTurnsOK'
  BY <1>3, <1>4, <1>6 DEF CliIInv, CliTurnsOK, CliMounted
<1>10. CliAnswersAreAwaited'
  BY <1>3, <1>4, <1>6 DEF CliAnswersAreAwaited, CliCurrent, CliMounted
<1> QED
  BY <1>5, <1>7, <1>8, <1>9, <1>10 DEF CliIInv

LEMMA CliDecideOK ==
    ASSUME CliIInv, NEW k \in CliCards, CliDecide(k) PROVE CliIInv'
<1> DEFINE q == CliSent("card", cliScreen.version, cliOffers[k].conversation, k)
<1>1. /\ cliScreen \in CliPage /\ cliScreen.mount <= cliScreen.version
      /\ cliOffers \in [CliCards -> CliOffer]
  BY CliTypeParts DEF CliIInv
<1>2. cliOffers[k].conversation \in CliShown
  BY <1>1 DEF CliOffer
<1>3. q \in CliRequest
  BY <1>1, <1>2, CliSentType DEF CliIInv, CliPage
<1>4. cliOffers' \in [CliCards -> CliOffer]
  BY <1>1 DEF CliDecide, CliOffer
<1>5. CliTypeOK'
  BY <1>3, <1>4, CliTypeParts DEF CliDecide, CliIInv, CliTypeOK, CliPage, CliOffer
<1>6. q.kind = "card" /\ q.version = cliScreen.version /\ q.mount = cliScreen.mount
  BY DEF CliSent
<1>7. cliScreen' = cliScreen /\ cliChosen' = cliChosen /\ cliRequests' = cliRequests \cup {q}
  BY DEF CliDecide
<1>8. cliScreen.version <= cliScreen.version
  BY <1>1 DEF CliPage
<1> HIDE DEF q
<1> QED
  BY <1>1, <1>5, <1>6, <1>7, <1>8, CliNoWaitChanges

\* The answer to a read that no longer counts.
LEMMA CliStaleOK ==
    ASSUME CliIInv, NEW r \in cliRequests, CliRead(r), ~CliCurrent(r), CliAnswered(r, {}),
           UNCHANGED <<cliScreen, cliStored, cliOffers, cliExists, cliChosen>>
    PROVE  CliIInv'
<1>1. cliRequests' = cliRequests \ {r}
  BY DEF CliAnswered
<1>2. CliTypeOK'
  BY <1>1 DEF CliIInv, CliTypeOK
<1>3. \A q \in cliRequests : CliAwaited(q) => q \in cliRequests'
  BY <1>1 DEF CliAwaited, CliRead
<1> QED
  BY <1>1, <1>2, <1>3, CliNoWaitChanges

\* The read that is waited for fails, or only ends the wait.
LEMMA CliReadGivesUpOK ==
    ASSUME CliIInv, NEW r \in cliRequests, CliRead(r), CliCurrent(r), CliAnswered(r, {}),
           cliScreen' = [cliScreen EXCEPT !.restoring = FALSE],
           UNCHANGED <<cliStored, cliOffers, cliExists, cliChosen>>
    PROVE  CliIInv'
<1>1. cliRequests' = cliRequests \ {r}
  BY DEF CliAnswered
<1>2. cliScreen \in CliPage /\ cliScreen.mount <= cliScreen.version
  BY CliTypeParts DEF CliIInv
<1>3. /\ cliScreen' \in CliPage /\ cliScreen'.mount = cliScreen.mount
      /\ cliScreen'.version = cliScreen.version
      /\ cliScreen'.turn = cliScreen.turn /\ ~cliScreen'.restoring
  BY <1>2 DEF CliPage
<1>4. CliTypeOK'
  BY <1>1, <1>2, <1>3, CliTypeParts DEF CliIInv, CliTypeOK, CliPage, CliOffer
<1> QED
  BY <1>1, <1>3, <1>4, CliReadEnds

LEMMA CliShowsOK ==
    ASSUME CliIInv, NEW r \in cliRequests, CliRead(r), CliCurrent(r), CliAnswered(r, {}),
           CliShows(r), UNCHANGED <<cliExists, cliChosen>>
    PROVE  CliIInv'
<1>1. cliRequests' = cliRequests \ {r}
  BY DEF CliAnswered
<1>2. /\ cliScreen \in CliPage /\ cliScreen.mount <= cliScreen.version
      /\ r.conversation \in CliShown
  BY CliTypeParts DEF CliIInv, CliRequest
<1>3. /\ cliScreen' \in CliPage /\ cliScreen'.mount = cliScreen.mount
      /\ cliScreen'.version = cliScreen.version
      /\ cliScreen'.turn = cliScreen.turn /\ ~cliScreen'.restoring
  BY <1>2 DEF CliShows, CliPage
<1>4. cliOffers' \in [CliCards -> CliOffer]
  BY CliCardsGoType, CliTypeParts DEF CliShows, CliIInv
<1>5. CliTypeOK'
  BY <1>1, <1>2, <1>3, <1>4, CliTypeParts DEF CliShows, CliIInv, CliTypeOK, CliPage, CliOffer
<1> QED
  BY <1>1, <1>3, <1>5, CliReadEnds

LEMMA CliPendingOK ==
    ASSUME CliIInv, NEW r \in cliRequests, CliPendingAnswered(r) PROVE CliIInv'
<1>1. CliRead(r) /\ CliAnswered(r, {}) /\ UNCHANGED <<cliOffers, cliExists, cliChosen>>
  BY DEF CliPendingAnswered, CliRead
<1>2. CASE /\ CliCurrent(r)
           /\ cliScreen' = [cliScreen EXCEPT !.project = TRUE, !.restoring = FALSE]
           /\ cliStored' = CliNone
  <2>1. cliRequests' = cliRequests \ {r}
    BY <1>1 DEF CliAnswered
  <2>2. cliScreen \in CliPage /\ cliScreen.mount <= cliScreen.version
    BY CliTypeParts DEF CliIInv
  <2>3. /\ cliScreen' \in CliPage /\ cliScreen'.mount = cliScreen.mount
        /\ cliScreen'.version = cliScreen.version
        /\ cliScreen'.turn = cliScreen.turn /\ ~cliScreen'.restoring
    BY <1>2, <2>2 DEF CliPage
  <2>4. CliTypeOK'
    BY <1>1, <1>2, <2>1, <2>2, <2>3, CliTypeParts
    DEF CliIInv, CliTypeOK, CliPage, CliOffer, CliShown
  <2> QED
    BY <1>1, <1>2, <2>1, <2>3, <2>4, CliReadEnds
<1>3. CASE /\ CliCurrent(r)
           /\ cliScreen' = [cliScreen EXCEPT !.restoring = FALSE]
           /\ UNCHANGED cliStored
  BY <1>1, <1>3, CliReadGivesUpOK
<1>4. CASE ~CliCurrent(r) /\ UNCHANGED <<cliScreen, cliStored>>
  BY <1>1, <1>4, CliStaleOK
<1> QED
  BY <1>2, <1>3, <1>4 DEF CliPendingAnswered

LEMMA CliMountRunsOK ==
    ASSUME CliAssumption, CliIInv, NEW r \in cliRequests, CliMountRuns(r) PROVE CliIInv'
<1>1. CliRead(r) /\ UNCHANGED <<cliStored, cliOffers, cliExists, cliChosen>>
  BY DEF CliMountRuns, CliRead
<1>2. CASE CliCurrent(r) /\ CliRestores(r, r.conversation)
  <2>1. r.conversation \in CliShown
    BY CliTypeParts DEF CliIInv, CliRequest
  <2>2. r.conversation = cliChosen /\ ~cliScreen.turn
    BY <1>1, <1>2 DEF CliIInv, CliReadsOK, CliAnswersAreAwaited
  <2> QED
    BY <1>1, <1>2, <2>1, <2>2, CliRestoresOK
<1>3. CASE /\ CliCurrent(r) /\ cliScreen' = [cliScreen EXCEPT !.restoring = FALSE]
           /\ CliAnswered(r, {})
  BY <1>1, <1>3, CliReadGivesUpOK
<1>4. CASE ~CliCurrent(r) /\ CliAnswered(r, {}) /\ UNCHANGED cliScreen
  BY <1>1, <1>4, CliStaleOK
<1> QED
  BY <1>2, <1>3, <1>4 DEF CliMountRuns

\* The first read of a restore is followed by the second.
LEMMA CliReadGoesOnOK ==
    ASSUME CliIInv, NEW r \in cliRequests, CliRead(r), CliCurrent(r),
           CliAnswered(r, {[r EXCEPT !.kind = "project"]}),
           UNCHANGED <<cliScreen, cliStored, cliOffers, cliExists, cliChosen>>
    PROVE  CliIInv'
<1> DEFINE q == [r EXCEPT !.kind = "project"]
<1>1. cliRequests' = (cliRequests \ {r}) \cup {q}
  BY DEF CliAnswered
<1>2. r \in CliRequest
  BY CliTypeParts DEF CliIInv
<1>3. /\ q \in CliRequest /\ q.kind = "project" /\ q.version = r.version
      /\ q.mount = r.mount /\ q.conversation = r.conversation
  BY <1>2 DEF CliRequest
<1>4. CliRead(q)
  BY <1>3 DEF CliRead
<1> HIDE DEF q
<1>5. CliTypeOK'
  BY <1>1, <1>3 DEF CliIInv, CliTypeOK
<1>6. CliFresh'
  BY <1>1, <1>3 DEF CliIInv, CliFresh
<1>7. CliReadsOK'
  BY <1>1, <1>3 DEF CliIInv, CliReadsOK, CliRead, CliCurrent, CliMounted
<1>8. CliTurnsOK'
  BY <1>1, <1>3 DEF CliIInv, CliTurnsOK, CliMounted
<1>9. CliAnswersAreAwaited'
  BY <1>1, <1>3 DEF CliIInv, CliAnswersAreAwaited, CliCurrent, CliMounted, CliRead
<1> QED
  BY <1>5, <1>6, <1>7, <1>8, <1>9 DEF CliIInv

LEMMA CliDetailOK ==
    ASSUME CliIInv, NEW r \in cliRequests, CliDetailAnswered(r) PROVE CliIInv'
<1>1. CliRead(r) /\ UNCHANGED <<cliExists, cliChosen>>
  BY DEF CliDetailAnswered, CliRead
<1>2. CASE CliCurrent(r) /\ CliAnswered(r, {}) /\ CliShows(r)
  BY <1>1, <1>2, CliShowsOK
<1>3. CASE /\ CliCurrent(r) /\ CliAnswered(r, {[r EXCEPT !.kind = "project"]})
           /\ UNCHANGED <<cliScreen, cliStored, cliOffers>>
  BY <1>1, <1>3, CliReadGoesOnOK
<1>4. CASE /\ CliCurrent(r) /\ CliAnswered(r, {})
           /\ cliScreen' = [cliScreen EXCEPT !.restoring = FALSE]
           /\ UNCHANGED <<cliStored, cliOffers>>
  BY <1>1, <1>4, CliReadGivesUpOK
<1>5. CASE /\ ~CliCurrent(r) /\ CliAnswered(r, {})
           /\ UNCHANGED <<cliScreen, cliStored, cliOffers>>
  BY <1>1, <1>5, CliStaleOK
<1> QED
  BY <1>2, <1>3, <1>4, <1>5 DEF CliDetailAnswered

LEMMA CliProjectOK ==
    ASSUME CliIInv, NEW r \in cliRequests, CliProjectAnswered(r) PROVE CliIInv'
<1>1. CliRead(r) /\ CliAnswered(r, {}) /\ UNCHANGED <<cliExists, cliChosen>>
  BY DEF CliProjectAnswered, CliRead
<1>2. CASE CliCurrent(r) /\ CliShows(r)
  BY <1>1, <1>2, CliShowsOK
<1>3. CASE /\ CliCurrent(r) /\ cliScreen' = [cliScreen EXCEPT !.restoring = FALSE]
           /\ UNCHANGED <<cliStored, cliOffers>>
  BY <1>1, <1>3, CliReadGivesUpOK
<1>4. CASE ~CliCurrent(r) /\ UNCHANGED <<cliScreen, cliStored, cliOffers>>
  BY <1>1, <1>4, CliStaleOK
<1> QED
  BY <1>2, <1>3, <1>4 DEF CliProjectAnswered

LEMMA CliReplyOK ==
    ASSUME CliIInv, NEW r \in cliRequests, r.kind = "turn", CliMounted(r), CliAnswered(r, {}),
           NEW c \in CliConversations, cliExists' = cliExists \cup {c}, CliReply(r, c)
    PROVE  CliIInv'
<1>1. cliRequests' = cliRequests \ {r}
  BY DEF CliAnswered
<1>2. /\ cliScreen \in CliPage /\ cliScreen.mount <= cliScreen.version
      /\ cliOffers \in [CliCards -> CliOffer]
  BY CliTypeParts DEF CliIInv
<1>3. /\ cliScreen' \in CliPage /\ cliScreen'.mount = cliScreen.mount
      /\ cliScreen'.version = cliScreen.version
      /\ ~cliScreen'.turn /\ cliScreen'.restoring = cliScreen.restoring
  BY <1>2 DEF CliReply, CliPage, CliShown
<1>4. cliOffers' \in [CliCards -> CliOffer]
  <2>1. CASE UNCHANGED cliOffers
    BY <1>2, <2>1
  <2>2. CASE \E k \in CliCards :
                cliOffers' = [cliOffers EXCEPT ![k] = [state |-> "open", conversation |-> c]]
    BY <1>2, <2>2 DEF CliOffer, CliShown
  <2> QED
    BY <2>1, <2>2 DEF CliReply
<1>5. cliStored' \in CliShown /\ cliChosen' \in CliShown
  BY DEF CliReply, CliShown
<1>6. CliTypeOK'
  BY <1>1, <1>2, <1>3, <1>4, <1>5, CliTypeParts DEF CliIInv, CliTypeOK, CliPage, CliOffer
<1> QED
  BY <1>1, <1>3, <1>6, CliTurnEnds

\* The turn fails, its reply is lost, or the page that asked has gone.
LEMMA CliNoReplyOK ==
    ASSUME CliIInv, NEW r \in cliRequests, r.kind = "turn", CliAnswered(r, {}),
           cliScreen' = IF CliMounted(r) THEN [cliScreen EXCEPT !.turn = FALSE] ELSE cliScreen,
           cliExists' \subseteq CliConversations,
           UNCHANGED <<cliStored, cliChosen, cliOffers>>
    PROVE  CliIInv'
<1>1. cliRequests' = cliRequests \ {r}
  BY DEF CliAnswered
<1>2. cliScreen \in CliPage /\ cliScreen.mount <= cliScreen.version
  BY CliTypeParts DEF CliIInv
<1>3. CASE CliMounted(r)
  <2>1. /\ cliScreen' \in CliPage /\ cliScreen'.mount = cliScreen.mount
        /\ cliScreen'.version = cliScreen.version
        /\ ~cliScreen'.turn /\ cliScreen'.restoring = cliScreen.restoring
    BY <1>2, <1>3 DEF CliPage
  <2>2. CliTypeOK'
    BY <1>1, <1>2, <2>1, CliTypeParts DEF CliIInv, CliTypeOK, CliPage, CliOffer
  <2> QED
    BY <1>1, <1>3, <2>1, <2>2, CliTurnEnds
<1>4. CASE ~CliMounted(r)
  <2>1. CliTypeOK'
    BY <1>1, <1>4, CliTypeParts DEF CliIInv, CliTypeOK, CliPage, CliOffer
  <2>2. \A q \in cliRequests : CliAwaited(q) => q \in cliRequests'
    BY <1>1, <1>4 DEF CliAwaited, CliRead
  <2> QED
    BY <1>1, <1>4, <2>1, <2>2, CliNoWaitChanges
<1> QED
  BY <1>3, <1>4

LEMMA CliTurnOK ==
    ASSUME CliIInv, NEW r \in cliRequests, CliTurnAnswered(r) PROVE CliIInv'
<1> DEFINE Ends == IF CliMounted(r) THEN [cliScreen EXCEPT !.turn = FALSE] ELSE cliScreen
<1>1. r.kind = "turn" /\ CliAnswered(r, {}) /\ cliExists \subseteq CliConversations
  BY CliTypeParts DEF CliTurnAnswered, CliIInv
<1>2. r.conversation \in CliShown
  BY CliTypeParts DEF CliIInv, CliRequest
<1>3. ASSUME NEW c \in CliServed(r), cliExists' = cliExists \cup {c},
             \/ CliCurrent(r) /\ CliReply(r, c)
             \/ cliScreen' = Ends /\ UNCHANGED <<cliStored, cliChosen, cliOffers>>
      PROVE  CliIInv'
  <2>1. c \in CliConversations
    BY <1>2 DEF CliServed, CliShown
  <2>2. CASE CliCurrent(r) /\ CliReply(r, c)
    BY <1>1, <1>3, <2>1, <2>2, CliReplyOK DEF CliCurrent
  <2>3. CASE cliScreen' = Ends /\ UNCHANGED <<cliStored, cliChosen, cliOffers>>
    BY <1>1, <1>3, <2>1, <2>3, CliNoReplyOK
  <2> QED
    BY <1>3, <2>2, <2>3
<1>4. CASE cliScreen' = Ends /\ UNCHANGED <<cliStored, cliChosen, cliOffers, cliExists>>
  BY <1>1, <1>4, CliNoReplyOK
<1> QED
  BY <1>3, <1>4 DEF CliTurnAnswered

LEMMA CliCardOK ==
    ASSUME CliAssumption, CliIInv, NEW r \in cliRequests, CliCardAnswered(r) PROVE CliIInv'
<1>1. r.kind = "card" /\ cliRequests' = cliRequests \ {r} /\ UNCHANGED <<cliExists, cliChosen>>
  BY DEF CliCardAnswered, CliAnswered
<1>2. /\ cliScreen \in CliPage /\ cliScreen.mount <= cliScreen.version
      /\ cliOffers \in [CliCards -> CliOffer] /\ cliStored \in CliShown
      /\ r.conversation \in CliShown
  BY CliTypeParts DEF CliIInv, CliRequest
<1>3. cliOffers' \in [CliCards -> CliOffer]
  <2> PICK state \in {"open", "closed"} :
        cliOffers' = [cliOffers EXCEPT ![r.card].state = IF @ = "sent" THEN state ELSE @]
    BY DEF CliCardAnswered
  <2>1. \A k \in CliCards : cliOffers[k].state \in {"unused", "open", "sent", "closed"}
                             /\ cliOffers[k].conversation \in CliShown
    BY <1>2 DEF CliOffer
  <2> QED
    BY <1>2, <2>1 DEF CliOffer
<1>4. /\ cliScreen' \in CliPage /\ cliStored' \in CliShown
      /\ cliScreen'.mount = cliScreen.mount /\ cliScreen'.version = cliScreen.version
      /\ cliScreen'.turn = cliScreen.turn /\ cliScreen'.restoring = cliScreen.restoring
  <2>1. CASE CliCompletes(r) /\ CliMounted(r)
    BY <1>2, <2>1 DEF CliCompletes, CliPage
  <2>2. CASE CliCompletes(r) /\ ~CliMounted(r)
    BY <1>2, <2>2 DEF CliCompletes
  <2>3. CASE UNCHANGED <<cliScreen, cliStored>>
    BY <1>2, <2>3
  <2> QED
    BY <2>1, <2>2, <2>3 DEF CliCardAnswered
<1>5. CliTypeOK'
  BY <1>1, <1>2, <1>3, <1>4, CliTypeParts DEF CliIInv, CliTypeOK, CliPage, CliOffer
<1>6. \A q \in cliRequests : CliAwaited(q) => q \in cliRequests'
  BY <1>1 DEF CliAwaited, CliRead
<1> QED
  BY <1>1, <1>4, <1>5, <1>6, CliNoWaitChanges

-----------------------------------------------------------------------------
(* The invariant, and what it shows.                                       *)

LEMMA CliNextOK ==
    ASSUME CliAssumption, CliIInv, CliNext PROVE CliIInv'
<1>1. CASE CliRemount \/ CliNew \/ CliSubmit
  BY <1>1, CliRemountOK, CliNewOK, CliSubmitOK
<1>2. ASSUME NEW c \in CliConversations, CliSelect(c) PROVE CliIInv'
  BY <1>2, CliSelectOK
<1>3. ASSUME NEW k \in CliCards, CliDecide(k) PROVE CliIInv'
  BY <1>3, CliDecideOK
<1>4. ASSUME NEW r \in cliRequests, CliAnswer(r) PROVE CliIInv'
  BY <1>4, CliPendingOK, CliMountRunsOK, CliDetailOK, CliProjectOK, CliTurnOK, CliCardOK
  DEF CliAnswer
<1> QED
  BY <1>1, <1>2, <1>3, <1>4 DEF CliNext

LEMMA CliInvariant == CliSpec => []CliIInv
<1>1. CliInit => CliIInv
  BY CliInitOK, CliAssumption
<1>2. CliIInv /\ [CliNext]_cliVars => CliIInv'
  <2>1. CASE CliNext
    BY <2>1, CliNextOK, CliAssumption
  <2>2. CASE UNCHANGED cliVars
    BY <2>2 DEF cliVars, CliIInv, CliTypeOK, CliFresh, CliReadsOK, CliTurnsOK,
                CliAnswersAreAwaited, CliRead, CliCurrent, CliMounted
  <2> QED
    BY <2>1, <2>2
<1> QED
  BY <1>1, <1>2, PTL DEF CliSpec

\* The page, the cards and the requests keep their shape.
THEOREM ClientTypeCorrect == CliSpec => []CliTypeOK
<1>1. CliIInv => CliTypeOK
  BY DEF CliIInv
<1> QED
  BY <1>1, CliInvariant, PTL

\* Whatever is restored, asked, left, reloaded or decided, and in whatever
\* order the answers come, the page never waits for an answer it will drop.
THEOREM ClientAnswersAwaited == CliSpec => []CliAnswersAreAwaited
<1>1. CliIInv => CliAnswersAreAwaited
  BY DEF CliIInv
<1> QED
  BY <1>1, CliInvariant, PTL

\* An answer to a read or a turn changes what is shown or stored only if it
\* answers the owner's last choice, on the page that is mounted.
THEOREM ClientOnlyLastChoiceShows == CliSpec => CliOnlyLastChoiceShows
<1> DEFINE Same == UNCHANGED <<cliStored, cliScreen.conversation, cliScreen.shows>>
           Last(r) == r.conversation = cliChosen /\ CliMounted(r)
           Shows == \A r \in cliRequests \ cliRequests' :
               (r.kind # "card" /\ cliScreen'.mount = cliScreen.mount)
                   => \/ Same
                      \/ Last(r)
<1>1. CliIInv /\ [CliNext]_cliVars => [Shows]_cliVars
  <2> SUFFICES ASSUME CliIInv, CliNext, NEW r \in cliRequests, r \notin cliRequests',
                      r.kind # "card", cliScreen'.mount = cliScreen.mount
               PROVE  Same \/ Last(r)
    OBVIOUS
  <2>1. cliScreen \in CliPage /\ cliScreen.mount <= cliScreen.version
    BY CliTypeParts DEF CliIInv
  <2>2. ~CliRemount
    BY <2>1 DEF CliRemount, CliBlank, CliPage
  <2>3. ~CliNew /\ ~CliSubmit /\ \A k \in CliCards : ~CliDecide(k)
    BY DEF CliNew, CliSubmit, CliDecide
  <2>4. ASSUME NEW c \in CliConversations, CliSelect(c) PROVE Same
    BY <2>1, <2>4 DEF CliSelect, CliRestores, CliPage
  <2>5. ASSUME NEW q \in cliRequests, CliAnswer(q) PROVE Same \/ Last(r)
    <3>1. CliMountRuns(q) => Same
      BY <2>1 DEF CliMountRuns, CliRestores, CliPage
    <3>2. ~CliMountRuns(q) => r = q
      BY <2>5 DEF CliAnswer, CliPendingAnswered, CliDetailAnswered, CliProjectAnswered,
                  CliTurnAnswered, CliCardAnswered, CliAnswered
    <3>3. CliRead(r) /\ CliCurrent(r) => Last(r)
      BY DEF CliIInv, CliReadsOK, CliCurrent
    <3>4. r.kind = "turn" /\ CliMounted(r) => Last(r)
      BY DEF CliIInv, CliTurnsOK
    <3>5. CliPendingAnswered(r) \/ CliDetailAnswered(r) \/ CliProjectAnswered(r)
            => CliRead(r) /\ (CliCurrent(r) \/ Same)
      BY DEF CliPendingAnswered, CliDetailAnswered, CliProjectAnswered, CliRead
    <3>6. CliTurnAnswered(r) => r.kind = "turn" /\ (CliMounted(r) \/ Same)
      BY DEF CliTurnAnswered, CliCurrent
    <3>7. ~CliCardAnswered(r)
      BY DEF CliCardAnswered
    <3> QED
      BY <2>5, <3>1, <3>2, <3>3, <3>4, <3>5, <3>6, <3>7 DEF CliAnswer
  <2> QED
    BY <2>2, <2>3, <2>4, <2>5 DEF CliNext
<1> QED
  BY <1>1, CliInvariant, PTL DEF CliSpec, CliOnlyLastChoiceShows

-----------------------------------------------------------------------------
(* The three together: a run of all of them is a run of each.               *)

LEMMA ApplySteps ==
    [LaneNext]_LaneVars => [Next]_vars /\ [EngNext]_engVars /\ [CliNext]_cliVars
<1> SUFFICES ASSUME [LaneNext]_LaneVars
             PROVE  [Next]_vars /\ [EngNext]_engVars /\ [CliNext]_cliVars
  OBVIOUS
<1>1. CASE UNCHANGED LaneVars
  BY <1>1 DEF LaneVars
<1>2. CASE Next /\ UNCHANGED <<engVars, cliVars>>
  BY <1>2
<1>3. CASE EngNext /\ UNCHANGED <<vars, cliVars>>
  BY <1>3
<1>4. CASE CliNext /\ UNCHANGED <<vars, engVars>>
  BY <1>4
<1> QED
  BY <1>1, <1>2, <1>3, <1>4 DEF LaneNext

LEMMA LanesAreComponents == LaneSpec => Spec /\ EngSpec /\ CliSpec
<1>1. LaneInit => Init /\ EngInit /\ CliInit
  BY DEF LaneInit
<1> QED
  BY <1>1, ApplySteps, PTL DEF LaneSpec, Spec, EngSpec, CliSpec

\* The rows, threads, locals and requests of all three keep their shape.
THEOREM ApplyTypesCorrect == LaneSpec => []TypesOK
<1>1. TypesOK <=> TypeOK /\ EngTypeOK /\ CliTypeOK
  BY DEF TypesOK
<1> QED
  BY <1>1, LanesAreComponents, TypeCorrect, EngTypeCorrect, ClientTypeCorrect, PTL

=============================================================================

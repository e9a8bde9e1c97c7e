------------------------------ MODULE GmailSend ------------------------------
(***************************************************************************)
(* The Gmail send lane: owner approval (D87) and one-shot execution (D88). *)
(*                                                                         *)
(* Two process-local stores, each a dict behind one lock: the approval     *)
(* store (items) and the execution claim store (claims).  HTTP requests    *)
(* run in pool threads; every store method reads the clock BEFORE it takes *)
(* the lock, so a request carries an instant (now) that may be old by the  *)
(* time it is served.  Each action is one critical section, or one call    *)
(* out of the process.  A restart loses both stores.                       *)
(*                                                                         *)
(* Abstracted: the message is an opaque content and its SHA-256 digest the *)
(* content itself; the guard is not modelled, because the private registry *)
(* always authorizes the plan built from an approved snapshot; a           *)
(* deployment that disables sending refuses before it touches any state.   *)
(* The clock never runs backwards, and both stores are the process's only  *)
(* instances (what happens otherwise is module FirstUse).                  *)
(***************************************************************************)
EXTENDS Integers, Sequences, FiniteSets

CONSTANTS
    Approvals,      \* approval ids, drawn at random and never drawn twice
    Requests,       \* request threads
    Contents,       \* messages an owner may ask to send
    NoContent,
    NoApproval,
    TTL,            \* DEFAULT_GMAIL_SEND_APPROVAL_TTL
    MaxApprovals,   \* DEFAULT_MAX_GMAIL_SEND_APPROVAL_RECORDS
    MaxClaims,      \* DEFAULT_MAX_GMAIL_SEND_EXECUTION_RECORDS
    MaxTime,        \* bound: the clock stays here
    MaxFaults       \* bound: restarts

ASSUME ConstantsAssumption ==
    /\ IsFiniteSet(Approvals)
    /\ NoContent \notin Contents /\ NoApproval \notin Approvals
    /\ {TTL, MaxApprovals, MaxClaims, MaxTime, MaxFaults} \subseteq Nat

VARIABLES
    clock,
    proposals,      \* what each approval id was issued for, and until when
    items,          \* approval store: state of each record, or "absent"
    claims,         \* claim store: state of each record, or "absent"
    requests,       \* what each request thread is doing
    mail,           \* messages posted to the provider for each approval
    delivered,      \* approvals whose message the provider accepted
    faults

stores == <<proposals, items, claims>>
world == <<mail, delivered>>
vars == <<clock, proposals, items, claims, requests, mail, delivered, faults>>

-----------------------------------------------------------------------------
(* Types.                                                                  *)

Proposal == [content : Contents \cup {NoContent}, expires : Nat]
NoProposal == [content |-> NoContent, expires |-> 0]

RecordStates == {"absent", "pending", "approved", "denied"}
Terminal == {"succeeded", "failed", "indeterminate"}
ClaimStates == {"absent", "claimed"} \cup Terminal

\* Where execute and the decisions stand between two critical sections.
Steps == {"idle", "propose", "approve", "deny", "get",
          "claim", "credential", "provider", "complete"}
Replies == {"refused", "accepted", "rejected", "unclear"}

Request == [pc       : Steps,
            approval : Approvals \cup {NoApproval},
            digest   : Contents \cup {NoContent},
            now      : Nat,
            snapshot : Proposal,
            result   : Replies]

Idle == [pc |-> "idle", approval |-> NoApproval, digest |-> NoContent,
         now |-> 0, snapshot |-> NoProposal, result |-> "refused"]

Naming == {"approve", "deny", "get", "claim", "credential", "provider", "complete"}

TypeOK ==
    /\ clock \in 0..MaxTime
    /\ proposals \in [Approvals -> Proposal]
    /\ items \in [Approvals -> RecordStates]
    /\ claims \in [Approvals -> ClaimStates]
    /\ requests \in [Requests -> Request]
    /\ \A r \in Requests :
          requests[r].pc \in Naming => requests[r].approval \in Approvals
    /\ mail \in [Approvals -> Seq(Contents \cup {NoContent})]
    /\ delivered \in SUBSET Approvals
    /\ faults \in 0..MaxFaults

-----------------------------------------------------------------------------
(* The approval store.                                                     *)

Issued(a) == proposals[a].content # NoContent

Held(store) == {a \in Approvals : store[a] # "absent"}

Alive(a, now) == now < proposals[a].expires

\* _cleanup_expired
Cleaned(now) ==
    [a \in Approvals |-> IF Alive(a, now) THEN items[a] ELSE "absent"]

Reply(r) == requests' = [requests EXCEPT ![r] = Idle]

Goes(r, q) == requests' = [requests EXCEPT ![r] = q]

CallPropose(r, c) ==
    /\ requests[r].pc = "idle"
    /\ Goes(r, [Idle EXCEPT !.pc = "propose", !.digest = c, !.now = clock])
    /\ UNCHANGED <<clock, stores, world, faults>>

\* A request about an id that was never issued is refused with no effect.
CallWith(r, op, a, c) ==
    /\ requests[r].pc = "idle"
    /\ Issued(a)
    /\ Goes(r, [Idle EXCEPT !.pc = op, !.approval = a, !.digest = c, !.now = clock])
    /\ UNCHANGED <<clock, stores, world, faults>>

\* The thread's instant decides both what is evicted and when the new
\* record expires.
Create(r) ==
    LET q == requests[r]
        kept == Cleaned(q.now)
    IN  /\ q.pc = "propose"
        /\ \/ /\ \/ Cardinality(Held(kept)) >= MaxApprovals
                 \/ \A a \in Approvals : Issued(a)     \* no id to allocate
              /\ items' = kept
              /\ UNCHANGED proposals
           \/ /\ Cardinality(Held(kept)) < MaxApprovals
              /\ \E a \in Approvals :
                    /\ ~Issued(a)
                    /\ items' = [kept EXCEPT ![a] = "pending"]
                    /\ proposals' = [proposals EXCEPT ![a] =
                          [content |-> q.digest, expires |-> q.now + TTL]]
        /\ Reply(r)
        /\ UNCHANGED <<clock, claims, world, faults>>

\* _pending_record: a record in another state is left alone, a stale or
\* mismatched one is dropped.
Decided(a, now, digest, decision) ==
    IF items[a] = "pending" /\ Alive(a, now) /\ digest = proposals[a].content
    THEN decision
    ELSE IF ~Alive(a, now) \/ items[a] = "pending" THEN "absent" ELSE items[a]

Decide(r, op, decision) ==
    LET q == requests[r] IN
    /\ q.pc = op
    /\ items' = [items EXCEPT ![q.approval] =
                    Decided(q.approval, q.now, q.digest, decision)]
    /\ Reply(r)
    /\ UNCHANGED <<clock, proposals, claims, world, faults>>

Approve(r) == Decide(r, "approve", "approved")
Deny(r) == Decide(r, "deny", "denied")

-----------------------------------------------------------------------------
(* Execution.                                                              *)

Usable(a, now, digest) ==
    /\ items[a] = "approved"
    /\ Alive(a, now)
    /\ digest = proposals[a].content

\* A mutant: any live record passes, whatever its state.
GetApproved_AnyState(r) ==
    LET q == requests[r] IN
    /\ q.pc = "get"
    /\ \/ /\ items[q.approval] # "absent"
          /\ Alive(q.approval, q.now)
          /\ q.digest = proposals[q.approval].content
          /\ Goes(r, [q EXCEPT !.pc = "claim", !.snapshot = proposals[q.approval]])
          /\ UNCHANGED items
       \/ /\ items[q.approval] = "absent"
          /\ Reply(r)
          /\ UNCHANGED items
    /\ UNCHANGED <<clock, proposals, claims, world, faults>>

\* get_approved: a live record is handed out as an immutable snapshot.
GetApproved(r) ==
    LET q == requests[r] IN
    /\ q.pc = "get"
    /\ \/ /\ Usable(q.approval, q.now, q.digest)
          /\ Goes(r, [q EXCEPT !.pc = "claim", !.snapshot = proposals[q.approval]])
          /\ UNCHANGED items
       \/ /\ ~Usable(q.approval, q.now, q.digest)
          /\ Reply(r)
          /\ items' = [items EXCEPT ![q.approval] =
                          IF Alive(q.approval, q.now) THEN @ ELSE "absent"]
    /\ UNCHANGED <<clock, proposals, claims, world, faults>>

ClaimIf(r, granted) ==
    LET q == requests[r] IN
    /\ q.pc = "claim"
    /\ \/ /\ granted
          /\ claims' = [claims EXCEPT ![q.approval] = "claimed"]
          /\ Goes(r, [q EXCEPT !.pc = "credential"])
       \/ /\ ~granted
          /\ Reply(r)
          /\ UNCHANGED claims
    /\ UNCHANGED <<clock, proposals, items, world, faults>>

\* Mutant of Claim: no expiry check inside the lock.
Claim_NoRecheck(r) ==
    ClaimIf(r, /\ claims[requests[r].approval] = "absent"
               /\ Cardinality(Held(claims)) < MaxClaims)

\* The clock is read again inside the lock; the check before the lock can
\* only refuse what this one refuses too.
Claim(r) ==
    ClaimIf(r, /\ clock < requests[r].snapshot.expires
               /\ claims[requests[r].approval] = "absent"
               /\ Cardinality(Held(claims)) < MaxClaims)

\* A mutant: a credential failure escapes instead of becoming a result.
ResolveCredential_Raises(r) ==
    /\ requests[r].pc = "credential"
    /\ \/ Goes(r, [requests[r] EXCEPT !.pc = "provider"])
       \/ Reply(r)
    /\ UNCHANGED <<clock, stores, world, faults>>

\* The credential broker answers, or the send fails without an attempt.
ResolveCredential(r) ==
    /\ requests[r].pc = "credential"
    /\ \/ Goes(r, [requests[r] EXCEPT !.pc = "provider"])
       \/ Goes(r, [requests[r] EXCEPT !.pc = "complete", !.result = "refused"])
    /\ UNCHANGED <<clock, stores, world, faults>>

\* One POST, unless the client refuses the token or the message first.
\* "unclear" is a timeout, 408, 5xx, or a 200 whose body names no message:
\* the provider may or may not have accepted it.
SendMessage(r) ==
    LET q == requests[r] IN
    /\ q.pc = "provider"
    /\ \E reply \in Replies, arrived \in BOOLEAN :
          /\ reply = "accepted" => arrived
          /\ reply \in {"refused", "rejected"} => ~arrived
          /\ Goes(r, [q EXCEPT !.pc = "complete", !.result = reply])
          /\ mail' = IF reply = "refused" THEN mail
                     ELSE [mail EXCEPT ![q.approval] = Append(@, q.snapshot.content)]
          /\ delivered' = IF arrived THEN delivered \cup {q.approval} ELSE delivered
    /\ UNCHANGED <<clock, stores, faults>>

\* Mutants of Outcome: an unclear reply counts as a failure; the reply is
\* recorded as it is.
Outcome_UnclearFailed(reply) == IF reply = "accepted" THEN "succeeded" ELSE "failed"

Outcome(reply) ==
    [accepted |-> "succeeded", unclear |-> "indeterminate",
     refused |-> "failed", rejected |-> "failed"][reply]

\* A mutant: a failed send gives its claim back, so that it can be retried.
Complete_ReleasesFailed(r) ==
    LET q == requests[r] IN
    /\ q.pc = "complete"
    /\ claims' = [claims EXCEPT ![q.approval] =
                    IF Outcome(q.result) = "failed" THEN "absent"
                    ELSE Outcome(q.result)]
    /\ Reply(r)
    /\ UNCHANGED <<clock, proposals, items, world, faults>>

Complete(r) ==
    LET q == requests[r] IN
    /\ q.pc = "complete"
    /\ claims' = [claims EXCEPT ![q.approval] =
                    IF @ = "claimed" THEN Outcome(q.result) ELSE @]
    /\ Reply(r)
    /\ UNCHANGED <<clock, proposals, items, world, faults>>

-----------------------------------------------------------------------------
(* The process and the world around it.                                    *)

\* Both stores and every thread live in the process.
Restart ==
    /\ faults < MaxFaults
    /\ faults' = faults + 1
    /\ items' = [a \in Approvals |-> "absent"]
    /\ claims' = [a \in Approvals |-> "absent"]
    /\ requests' = [r \in Requests |-> Idle]
    /\ UNCHANGED <<clock, proposals, world>>

Tick ==
    /\ clock < MaxTime
    /\ clock' = clock + 1
    /\ UNCHANGED <<stores, requests, world, faults>>

Init ==
    /\ clock = 0
    /\ proposals = [a \in Approvals |-> NoProposal]
    /\ items = [a \in Approvals |-> "absent"]
    /\ claims = [a \in Approvals |-> "absent"]
    /\ requests = [r \in Requests |-> Idle]
    /\ mail = [a \in Approvals |-> <<>>]
    /\ delivered = {}
    /\ faults = 0

Call(r) ==
    \/ \E c \in Contents : CallPropose(r, c)
    \/ \E op \in {"approve", "deny", "get"}, a \in Approvals, c \in Contents :
          CallWith(r, op, a, c)

\* What a thread does on its own once the owner has called.
Serve(r) ==
    \/ Create(r) \/ Approve(r) \/ Deny(r)
    \/ GetApproved(r) \/ Claim(r)
    \/ ResolveCredential(r) \/ SendMessage(r) \/ Complete(r)

Next ==
    \/ \E r \in Requests : Call(r) \/ Serve(r)
    \/ Restart
    \/ Tick

Spec == Init /\ [][Next]_vars

\* A pool thread runs its handler to the end (the provider call times out);
\* nobody has to call.
FairSpec == Spec /\ \A r \in Requests : WF_vars(Serve(r))

-----------------------------------------------------------------------------
(* Properties.                                                             *)

\* ONE APPROVAL -> AT MOST ONE PROVIDER ATTEMPT, through replays from several
\* threads, a full store and a restart.
AtMostOneAttempt == \A a \in Approvals : Len(mail[a]) <= 1

\* No thread gains execution authority once the approval has expired, however
\* long ago it read the clock or the approval.
ClaimedInTime ==
    [][\A a \in Approvals :
          claims[a] = "absent" /\ claims'[a] = "claimed"
              => clock < proposals[a].expires]_vars

\* A recorded outcome never misleads the owner about the mailbox: "failed"
\* only if the provider did not accept, "succeeded" only if it did.
OutcomeIsTruthful ==
    \A a \in Approvals :
        /\ claims[a] = "failed" => a \notin delivered
        /\ claims[a] = "succeeded" => a \in delivered

\* FAILED / INDETERMINATE != RETRY AUTHORITY: within one process a recorded
\* outcome stays as it was recorded.
TerminalIsFinal ==
    [][\A a \in Approvals :
          claims[a] \in Terminal /\ faults' = faults => claims'[a] = claims[a]]_vars

\* A claim gets its outcome unless the process dies.
ClaimSettles ==
    \A a \in Approvals : claims[a] = "claimed" ~> claims[a] # "claimed"

\* How far each approval got: a claim is authority spent, whatever became of
\* the approval record.
Standing ==
    [a \in Approvals |->
        IF ~Issued(a) THEN "unasked"
        ELSE IF claims[a] # "absent" THEN "spent"
        ELSE IF items[a] # "absent" THEN items[a]
        ELSE "gone"]

Authority == INSTANCE OneShotAuthority WITH
    standing <- Standing,
    terms <- [a \in Approvals |-> proposals[a].content],
    effects <- mail

\* The two stores together are a one-shot authority.
ImplementsAuthority == Authority!Spec

=============================================================================

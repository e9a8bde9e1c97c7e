--------------------------- MODULE GmailSendProofs ---------------------------
(* What GmailSend promises for every number of approvals and threads, every  *)
(* lifetime and every capacity.                                              *)
EXTENDS GmailSend, TLAPS

-----------------------------------------------------------------------------
(* The inductive invariant.                                                 *)

\* An id nobody was given has left no trace.
Fresh ==
    \A a \in Approvals : ~Issued(a) =>
        items[a] = "absent" /\ claims[a] = "absent" /\ mail[a] = <<>> /\ a \notin delivered

\* A thread works on an issued id, with an instant of the past.
Named(r) ==
    /\ requests[r].pc \in Naming => Issued(requests[r].approval)
    /\ requests[r].pc = "propose" => requests[r].digest \in Contents
    /\ requests[r].now <= clock

\* A snapshot on its way to the claim store is still approved, or too old to
\* be claimed: only an expired approved record is ever dropped.
Snapshot(r) ==
    LET a == requests[r].approval IN
    requests[r].pc = "claim" =>
        /\ requests[r].snapshot = proposals[a]
        /\ items[a] = "approved" \/ proposals[a].expires <= clock

Claiming == {"credential", "provider", "complete"}
InFlight(r) == requests[r].pc \in Claiming

Truth(a, result) ==
    /\ result = "accepted" => a \in delivered
    /\ result \in {"refused", "rejected"} => a \notin delivered

\* A thread past its claim owns it, and has not posted before its turn.
Owned(r) ==
    LET a == requests[r].approval IN
    InFlight(r) =>
        /\ claims[a] = "claimed"
        /\ requests[r].snapshot = proposals[a]
        /\ requests[r].pc # "complete" => mail[a] = <<>> /\ a \notin delivered
        /\ requests[r].pc = "complete" => Truth(a, requests[r].result)

Threads == \A r \in Requests : Named(r) /\ Snapshot(r) /\ Owned(r)

Exclusive ==
    \A r, s \in Requests :
        InFlight(r) /\ InFlight(s) /\ requests[r].approval = requests[s].approval
            => r = s

\* What can still be claimed has not been sent, and only an approved record
\* is ever claimed.
Unspent ==
    \A a \in Approvals :
        /\ items[a] # "absent" /\ claims[a] = "absent" =>
              mail[a] = <<>> /\ a \notin delivered
        /\ claims[a] # "absent" => items[a] \in {"approved", "absent"}

Ledger == Fresh /\ Unspent /\ AtMostOneAttempt /\ OutcomeIsTruthful

IInv == TypeOK /\ Threads /\ Exclusive /\ Ledger

-----------------------------------------------------------------------------
(* Types.                                                                   *)

LEMMA Bounds ==
    /\ {TTL, MaxApprovals, MaxClaims, MaxTime, MaxFaults} \subseteq Nat
    /\ NoContent \notin Contents /\ NoApproval \notin Approvals
BY ConstantsAssumption

LEMMA IdleType == Idle \in Request /\ Idle.pc = "idle"
BY DEF Idle, Request, Steps, NoProposal, Proposal, Replies

\* Handing a thread a well-typed record keeps the threads well typed.
LEMMA GoesType ==
    ASSUME TypeOK, NEW r \in Requests, NEW q \in Request,
           q.pc \in Naming => q.approval \in Approvals,
           Goes(r, q)
    PROVE  /\ requests' \in [Requests -> Request]
           /\ \A s \in Requests :
                 requests'[s].pc \in Naming => requests'[s].approval \in Approvals
           /\ requests'[r] = q
           /\ \A s \in Requests \ {r} : requests'[s] = requests[s]
BY DEF TypeOK, Goes

LEMMA ReplyType ==
    ASSUME TypeOK, NEW r \in Requests, Reply(r)
    PROVE  /\ requests' \in [Requests -> Request]
           /\ \A s \in Requests :
                 requests'[s].pc \in Naming => requests'[s].approval \in Approvals
           /\ requests'[r] = Idle
           /\ \A s \in Requests \ {r} : requests'[s] = requests[s]
<1>1. Goes(r, Idle)
  BY DEF Reply, Goes
<1>2. Idle.pc \notin Naming
  BY IdleType DEF Naming
<1> QED
  BY <1>1, <1>2, IdleType, GoesType

LEMMA RequestType ==
    ASSUME TypeOK, NEW r \in Requests
    PROVE  /\ requests[r] \in Request
           /\ requests[r].pc \in Naming => requests[r].approval \in Approvals
BY DEF TypeOK

\* Every value an action gives its thread.
LEMMA NextRequests ==
    ASSUME TypeOK, NEW r \in Requests
    PROVE  /\ \A c \in Contents :
                [Idle EXCEPT !.pc = "propose", !.digest = c, !.now = clock] \in Request
           /\ \A op \in {"approve", "deny", "get"}, a \in Approvals, c \in Contents :
                [Idle EXCEPT !.pc = op, !.approval = a, !.digest = c, !.now = clock]
                    \in Request
           /\ \A a \in Approvals :
                [requests[r] EXCEPT !.pc = "claim", !.snapshot = proposals[a]] \in Request
           /\ \A s \in {"credential", "provider"} :
                [requests[r] EXCEPT !.pc = s] \in Request
           /\ \A y \in Replies :
                [requests[r] EXCEPT !.pc = "complete", !.result = y] \in Request
<1>1. requests[r] \in Request /\ clock \in Nat
  BY Bounds DEF TypeOK
<1>2. \A a \in Approvals : proposals[a] \in Proposal
  BY DEF TypeOK
<1>3. \A c \in Contents :
        [Idle EXCEPT !.pc = "propose", !.digest = c, !.now = clock] \in Request
  BY <1>1, IdleType DEF Request, Steps
<1>4. \A op \in {"approve", "deny", "get"}, a \in Approvals, c \in Contents :
        [Idle EXCEPT !.pc = op, !.approval = a, !.digest = c, !.now = clock] \in Request
  BY <1>1, IdleType DEF Request, Steps
<1>5. \A a \in Approvals :
        [requests[r] EXCEPT !.pc = "claim", !.snapshot = proposals[a]] \in Request
  BY <1>1, <1>2 DEF Request, Steps
<1>6. \A s \in {"credential", "provider"} : [requests[r] EXCEPT !.pc = s] \in Request
  BY <1>1 DEF Request, Steps
<1>7. \A y \in Replies :
        [requests[r] EXCEPT !.pc = "complete", !.result = y] \in Request
  BY <1>1 DEF Request, Steps
<1> QED
  BY <1>3, <1>4, <1>5, <1>6, <1>7

RequestsOK ==
    /\ requests \in [Requests -> Request]
    /\ \A r \in Requests :
          requests[r].pc \in Naming => requests[r].approval \in Approvals

LEMMA DecidedType ==
    ASSUME TypeOK, NEW a \in Approvals, NEW now, NEW digest,
           NEW decision \in {"approved", "denied"}
    PROVE  Decided(a, now, digest, decision) \in RecordStates
BY DEF Decided, TypeOK, RecordStates

LEMMA CleanedType ==
    ASSUME TypeOK, NEW now
    PROVE  Cleaned(now) \in [Approvals -> RecordStates]
BY DEF Cleaned, TypeOK, RecordStates

LEMMA OutcomeType ==
    ASSUME NEW y \in Replies
    PROVE  /\ Outcome(y) \in Terminal
           /\ Outcome(y) = "failed" <=> y \in {"refused", "rejected"}
           /\ Outcome(y) = "succeeded" <=> y = "accepted"
BY DEF Outcome, Terminal, Replies

LEMMA AppendType ==
    ASSUME NEW C, NEW s \in Seq(C), NEW c \in C
    PROVE  /\ Append(s, c) \in Seq(C)
           /\ Len(Append(s, c)) = Len(s) + 1
           /\ Len(s) \in Nat
OBVIOUS

LEMMA TypeStep == TypeOK /\ [Next]_vars => TypeOK'
<1> SUFFICES ASSUME TypeOK, [Next]_vars PROVE TypeOK'
  OBVIOUS
<1> USE Bounds
<1>1. CASE UNCHANGED vars
  BY <1>1 DEF TypeOK, vars
<1>2. ASSUME NEW r \in Requests, NEW c \in Contents, CallPropose(r, c)
      PROVE  TypeOK'
  <2> DEFINE q == [Idle EXCEPT !.pc = "propose", !.digest = c, !.now = clock]
  <2>1. q \in Request /\ q.pc \notin Naming
    BY NextRequests, IdleType DEF Naming, Request
  <2>2. Goes(r, q)
    BY <1>2 DEF CallPropose
  <2> HIDE DEF q
  <2>3. RequestsOK'
    BY <2>1, <2>2, GoesType DEF RequestsOK
  <2> QED
    BY <1>2, <2>3 DEF CallPropose, TypeOK, RequestsOK, stores, world
<1>3. ASSUME NEW r \in Requests, NEW op \in {"approve", "deny", "get"},
             NEW a \in Approvals, NEW c \in Contents, CallWith(r, op, a, c)
      PROVE  TypeOK'
  <2> DEFINE q == [Idle EXCEPT !.pc = op, !.approval = a, !.digest = c, !.now = clock]
  <2>1. q \in Request /\ q.approval \in Approvals
    BY NextRequests, IdleType DEF Request
  <2>2. Goes(r, q)
    BY <1>3 DEF CallWith
  <2> HIDE DEF q
  <2>3. RequestsOK'
    BY <2>1, <2>2, GoesType DEF RequestsOK
  <2> QED
    BY <1>3, <2>3 DEF CallWith, TypeOK, RequestsOK, stores, world
<1>4. ASSUME NEW r \in Requests, Create(r) PROVE TypeOK'
  <2> DEFINE q == requests[r]
             kept == Cleaned(q.now)
  <2>1. RequestsOK'
    BY <1>4, ReplyType DEF Create, RequestsOK
  <2>2. kept \in [Approvals -> RecordStates]
    BY CleanedType
  <2>3. q.now + TTL \in Nat /\ q.digest \in Contents \cup {NoContent}
    BY RequestType DEF Request
  <2>4. [content |-> q.digest, expires |-> q.now + TTL] \in Proposal
    BY <2>3 DEF Proposal
  <2>5. items' \in [Approvals -> RecordStates]
    BY <1>4, <2>2 DEF Create, RecordStates
  <2>6. proposals' \in [Approvals -> Proposal]
    BY <1>4, <2>4 DEF Create, TypeOK
  <2> QED
    BY <1>4, <2>1, <2>5, <2>6 DEF Create, TypeOK, RequestsOK, world
<1>5. ASSUME NEW r \in Requests, NEW op, NEW d \in {"approved", "denied"},
             Decide(r, op, d)
      PROVE  TypeOK'
  <2>1. RequestsOK'
    BY <1>5, ReplyType DEF Decide, RequestsOK
  <2>2. items' \in [Approvals -> RecordStates]
    BY <1>5, DecidedType DEF Decide, TypeOK
  <2> QED
    BY <1>5, <2>1, <2>2 DEF Decide, TypeOK, RequestsOK, world
<1>6. ASSUME NEW r \in Requests, GetApproved(r) PROVE TypeOK'
  <2> DEFINE a == requests[r].approval
             q == [requests[r] EXCEPT !.pc = "claim", !.snapshot = proposals[a]]
  <2>1. a \in Approvals
    BY <1>6, RequestType DEF GetApproved, Naming
  <2>2. q \in Request /\ q.approval = a
    BY <2>1, NextRequests, RequestType DEF Request
  <2>3. Goes(r, q) \/ Reply(r)
    BY <1>6 DEF GetApproved
  <2> HIDE DEF q
  <2>4. RequestsOK'
    BY <2>1, <2>2, <2>3, GoesType, ReplyType DEF RequestsOK
  <2>5. items' \in [Approvals -> RecordStates]
    BY <1>6, <2>1 DEF GetApproved, TypeOK, RecordStates
  <2> QED
    BY <1>6, <2>4, <2>5 DEF GetApproved, TypeOK, RequestsOK, world
<1>7. ASSUME NEW r \in Requests, Claim(r) PROVE TypeOK'
  <2> DEFINE a == requests[r].approval
             q == [requests[r] EXCEPT !.pc = "credential"]
  <2>1. a \in Approvals
    BY <1>7, RequestType DEF Claim, ClaimIf, Naming
  <2>2. q \in Request /\ q.approval = a
    BY NextRequests, RequestType DEF Request
  <2>3. Goes(r, q) \/ Reply(r)
    BY <1>7 DEF Claim, ClaimIf
  <2> HIDE DEF q
  <2>4. RequestsOK'
    BY <2>1, <2>2, <2>3, GoesType, ReplyType DEF RequestsOK
  <2>5. claims' \in [Approvals -> ClaimStates]
    BY <1>7, <2>1 DEF Claim, ClaimIf, TypeOK, ClaimStates
  <2> QED
    BY <1>7, <2>4, <2>5 DEF Claim, ClaimIf, TypeOK, RequestsOK, world
<1>8. ASSUME NEW r \in Requests, ResolveCredential(r) PROVE TypeOK'
  <2> DEFINE a == requests[r].approval
             q1 == [requests[r] EXCEPT !.pc = "provider"]
             q2 == [requests[r] EXCEPT !.pc = "complete", !.result = "refused"]
  <2>1. a \in Approvals
    BY <1>8, RequestType DEF ResolveCredential, Naming
  <2>2. q1 \in Request /\ q2 \in Request
    <3>1. "refused" \in Replies
      BY DEF Replies
    <3> QED
      BY <3>1, NextRequests
  <2>5. q1.approval = a /\ q2.approval = a
    BY RequestType DEF Request
  <2>3. Goes(r, q1) \/ Goes(r, q2)
    BY <1>8 DEF ResolveCredential
  <2> HIDE DEF q1, q2
  <2>4. RequestsOK'
    BY <2>1, <2>2, <2>3, <2>5, GoesType DEF RequestsOK
  <2> QED
    BY <1>8, <2>4 DEF ResolveCredential, TypeOK, RequestsOK, stores, world
<1>9. ASSUME NEW r \in Requests, SendMessage(r) PROVE TypeOK'
  <2> DEFINE a == requests[r].approval
             c == requests[r].snapshot.content
             q(y) == [requests[r] EXCEPT !.pc = "complete", !.result = y]
  <2>1. a \in Approvals
    BY <1>9, RequestType DEF SendMessage, Naming
  <2>2. PICK y \in Replies, arrived \in BOOLEAN :
          /\ Goes(r, q(y))
          /\ mail' = IF y = "refused" THEN mail
                     ELSE [mail EXCEPT ![a] = Append(@, c)]
          /\ delivered' = IF arrived THEN delivered \cup {a} ELSE delivered
    BY <1>9 DEF SendMessage
  <2>3. q(y) \in Request /\ q(y).approval = a
    BY NextRequests, RequestType DEF Request
  <2> HIDE DEF q
  <2>4. RequestsOK'
    BY <2>1, <2>2, <2>3, GoesType DEF RequestsOK
  <2>5. c \in Contents \cup {NoContent}
    BY RequestType DEF Request, Proposal
  <2>6. mail[a] \in Seq(Contents \cup {NoContent})
    BY <2>1 DEF TypeOK
  <2>7. Append(mail[a], c) \in Seq(Contents \cup {NoContent})
    BY ONLY <2>5, <2>6, AppendType
  <2>8. mail' \in [Approvals -> Seq(Contents \cup {NoContent})]
    BY <2>2, <2>7 DEF TypeOK
  <2> QED
    BY <1>9, <2>1, <2>2, <2>4, <2>8 DEF SendMessage, TypeOK, RequestsOK, stores
<1>10. ASSUME NEW r \in Requests, Complete(r) PROVE TypeOK'
  <2>1. RequestsOK'
    BY <1>10, ReplyType DEF Complete, RequestsOK
  <2>2. Outcome(requests[r].result) \in Terminal
    BY OutcomeType, RequestType DEF Request
  <2>3. claims' \in [Approvals -> ClaimStates]
    BY <1>10, <2>2 DEF Complete, TypeOK, ClaimStates
  <2> QED
    BY <1>10, <2>1, <2>3 DEF Complete, TypeOK, RequestsOK, world
<1>11. CASE Restart
  <2>1. RequestsOK'
    BY <1>11, IdleType DEF Restart, RequestsOK, Naming
  <2> QED
    BY <1>11, <2>1 DEF Restart, TypeOK, RequestsOK, world, RecordStates, ClaimStates
<1>12. CASE Tick
  BY <1>12 DEF Tick, TypeOK, stores, world
<1> QED
  BY <1>1, <1>2, <1>3, <1>4, <1>5, <1>6, <1>7, <1>8, <1>9, <1>10, <1>11, <1>12
     DEF Next, Call, Serve, Approve, Deny

LEMMA TypeInit == Init => TypeOK
BY Bounds, IdleType DEF Init, TypeOK, NoProposal, Proposal, RecordStates, ClaimStates, Naming

\* TypeOK, at every number of approvals and threads.
THEOREM TypeCorrect == Spec => []TypeOK
<1>1. Init => TypeOK
  BY TypeInit
<1>2. TypeOK /\ [Next]_vars => TypeOK'
  BY TypeStep
<1> QED
  BY <1>1, <1>2, PTL DEF Spec

-----------------------------------------------------------------------------
(* One attempt per approval, and outcomes that tell the truth.              *)

LEMMA InvInit == Init => IInv
<1> SUFFICES ASSUME Init PROVE IInv
  OBVIOUS
<1>1. TypeOK
  BY TypeInit
<1>2. Threads /\ Exclusive
  BY DEF Init, Threads, Named, Snapshot, Owned, Exclusive, InFlight, Claiming, Idle, Naming
<1>3. Ledger
  BY DEF Init, Ledger, Fresh, Unspent, AtMostOneAttempt, OutcomeIsTruthful, Terminal
<1> QED
  BY <1>1, <1>2, <1>3 DEF IInv

\* A step that leaves the stores and the mailbox alone only has to say what
\* its own thread becomes.
LEMMA QuietStep ==
    ASSUME IInv, UNCHANGED <<stores, world>>, clock' = clock,
           NEW r \in Requests,
           \A s \in Requests \ {r} : requests'[s] = requests[s],
           Named(r)', Snapshot(r)', Owned(r)',
           InFlight(r)' =>
               InFlight(r) /\ requests'[r].approval = requests[r].approval
    PROVE  Threads' /\ Exclusive' /\ Ledger'
<1>1. Ledger'
  BY DEF IInv, Ledger, Fresh, Unspent, AtMostOneAttempt, OutcomeIsTruthful, Issued,
         stores, world
<1>2. ASSUME NEW s \in Requests, s # r
      PROVE  Named(s)' /\ Snapshot(s)' /\ Owned(s)'
  BY <1>2 DEF IInv, Threads, Named, Snapshot, Owned, InFlight, Truth, Issued, stores, world
<1>3. Threads'
  BY <1>2 DEF Threads
<1>4. Exclusive'
  BY DEF IInv, Exclusive, InFlight
<1> QED
  BY <1>1, <1>3, <1>4

LEMMA CallStep ==
    ASSUME IInv, NEW r \in Requests, Call(r)
    PROVE  Threads' /\ Exclusive' /\ Ledger'
<1> USE Bounds
<1>1. TypeOK /\ clock \in Nat
  BY DEF IInv, TypeOK
<1>2. ASSUME NEW c \in Contents, CallPropose(r, c)
      PROVE  Threads' /\ Exclusive' /\ Ledger'
  <2> DEFINE q == [Idle EXCEPT !.pc = "propose", !.digest = c, !.now = clock]
  <2>1. q.pc = "propose" /\ q.digest = c /\ q.now = clock /\ q \in Request
    BY <1>1, NextRequests DEF Idle
  <2>2. Goes(r, q) /\ clock' = clock /\ UNCHANGED <<stores, world>>
    BY <1>2 DEF CallPropose
  <2> HIDE DEF q
  <2>3. requests'[r] = q /\ \A s \in Requests \ {r} : requests'[s] = requests[s]
    BY <1>1, <2>1, <2>2, GoesType DEF Naming
  <2>4. Named(r)' /\ Snapshot(r)' /\ Owned(r)' /\ ~InFlight(r)'
    BY <1>1, <2>1, <2>2, <2>3 DEF Named, Snapshot, Owned, InFlight, Claiming, Naming
  <2> QED
    BY <2>2, <2>3, <2>4, QuietStep
<1>3. ASSUME NEW op \in {"approve", "deny", "get"},
             NEW a \in Approvals, NEW c \in Contents, CallWith(r, op, a, c)
      PROVE  Threads' /\ Exclusive' /\ Ledger'
  <2> DEFINE q == [Idle EXCEPT !.pc = op, !.approval = a, !.digest = c, !.now = clock]
  <2>1. q.pc = op /\ q.approval = a /\ q.now = clock /\ q \in Request
    BY <1>1, NextRequests DEF Idle
  <2>2. Goes(r, q) /\ clock' = clock /\ UNCHANGED <<stores, world>> /\ Issued(a)
    BY <1>3 DEF CallWith
  <2> HIDE DEF q
  <2>3. requests'[r] = q /\ \A s \in Requests \ {r} : requests'[s] = requests[s]
    BY <1>1, <2>1, <2>2, GoesType DEF Naming
  <2>4. Named(r)' /\ Snapshot(r)' /\ Owned(r)' /\ ~InFlight(r)'
    BY <1>1, <2>1, <2>2, <2>3
       DEF Named, Snapshot, Owned, InFlight, Claiming, Naming, Issued, stores
  <2> QED
    BY <2>2, <2>3, <2>4, QuietStep
<1> QED
  BY <1>2, <1>3 DEF Call

\* A thread that answers its caller has no further claim on anything.
LEMMA IdleThread ==
    ASSUME TypeOK, NEW r \in Requests, Reply(r), clock' = clock
    PROVE  /\ \A s \in Requests \ {r} : requests'[s] = requests[s]
           /\ Named(r)' /\ Snapshot(r)' /\ Owned(r)' /\ ~InFlight(r)'
<1> USE Bounds
<1>1. /\ requests'[r] = Idle
      /\ \A s \in Requests \ {r} : requests'[s] = requests[s]
  BY ReplyType
<1>2. clock \in Nat /\ Idle.pc = "idle" /\ Idle.now = 0
  BY DEF TypeOK, Idle
<1> HIDE DEF Idle
<1> QED
  BY <1>1, <1>2 DEF Named, Snapshot, Owned, InFlight, Claiming, Naming

\* A decision or a lookup may settle a pending record or drop one that is
\* pending or expired.
LEMMA RecordStep ==
    ASSUME IInv, NEW r \in Requests, Reply(r), NEW b \in Approvals,
           UNCHANGED <<clock, proposals, claims, world>>,
           items' = [items EXCEPT ![b] = items'[b]],
           \/ items'[b] = items[b]
           \/ items[b] = "pending"
           \/ items'[b] = "absent" /\ proposals[b].expires <= clock,
           items'[b] # "absent" => items[b] # "absent"
    PROVE  Threads' /\ Exclusive' /\ Ledger'
<1>1. TypeOK
  BY DEF IInv
<1>2. /\ \A s \in Requests \ {r} : requests'[s] = requests[s]
      /\ Named(r)' /\ Snapshot(r)' /\ Owned(r)' /\ ~InFlight(r)'
  BY <1>1, IdleThread
<1>3. \A a \in Approvals \ {b} : items'[a] = items[a]
  BY <1>1 DEF TypeOK
<1>4. Ledger'
  BY <1>3 DEF IInv, Ledger, Fresh, Unspent, AtMostOneAttempt, OutcomeIsTruthful, Issued, world
<1>5. ASSUME NEW s \in Requests, s # r
      PROVE  Named(s)' /\ Snapshot(s)' /\ Owned(s)'
  <2>1. requests'[s] = requests[s]
    BY <1>2, <1>5
  <2>2. Named(s) /\ Snapshot(s) /\ Owned(s)
    BY DEF IInv, Threads
  <2>3. Named(s)' /\ Owned(s)'
    BY <2>1, <2>2 DEF Named, Owned, InFlight, Truth, Issued, world
  <2>4. requests[s].pc = "claim" => requests[s].approval \in Approvals
    BY <1>1, RequestType DEF Naming
  <2>5. Snapshot(s)'
    BY <2>1, <2>2, <2>4, <1>3 DEF Snapshot
  <2> QED
    BY <2>3, <2>5
<1>6. Threads'
  BY <1>2, <1>5 DEF Threads
<1>7. Exclusive'
  BY <1>2 DEF IInv, Exclusive, InFlight
<1> QED
  BY <1>4, <1>6, <1>7

LEMMA DecideStep ==
    ASSUME IInv, NEW r \in Requests,
           Approve(r) \/ Deny(r)
    PROVE  Threads' /\ Exclusive' /\ Ledger'
<1> DEFINE b == requests[r].approval
<1>1. TypeOK /\ Named(r)
  BY DEF IInv, Threads
<1>2. PICK op \in {"approve", "deny"}, d \in {"approved", "denied"} : Decide(r, op, d)
  BY DEF Approve, Deny
<1>3. b \in Approvals /\ requests[r].now \in Nat /\ requests[r].now <= clock
  BY <1>1, <1>2, RequestType DEF Decide, Naming, Named, Request
<1>4. items'[b] = Decided(b, requests[r].now, requests[r].digest, d)
  BY <1>1, <1>2, <1>3 DEF Decide, TypeOK
<1>5. proposals[b].expires \in Nat /\ clock \in Nat
  BY <1>1, <1>3, Bounds DEF TypeOK, Proposal
<1>6. /\ \/ items'[b] = items[b]
         \/ items[b] = "pending"
         \/ items'[b] = "absent" /\ proposals[b].expires <= clock
      /\ items'[b] # "absent" => items[b] # "absent"
  BY <1>3, <1>4, <1>5 DEF Decided, Alive
<1>7. items' = [items EXCEPT ![b] = items'[b]]
  BY <1>2, <1>4 DEF Decide
<1> QED
  BY <1>2, <1>3, <1>6, <1>7, RecordStep DEF Decide

LEMMA GetApprovedStep ==
    ASSUME IInv, NEW r \in Requests, GetApproved(r)
    PROVE  Threads' /\ Exclusive' /\ Ledger'
<1> DEFINE b == requests[r].approval
           q == [requests[r] EXCEPT !.pc = "claim", !.snapshot = proposals[b]]
<1>1. TypeOK /\ Named(r)
  BY DEF IInv, Threads
<1>2. b \in Approvals /\ requests[r].now \in Nat /\ requests[r].now <= clock /\ Issued(b)
  BY <1>1, RequestType DEF GetApproved, Naming, Named, Request
<1>3. proposals[b].expires \in Nat /\ clock \in Nat
  BY <1>1, <1>2, Bounds DEF TypeOK, Proposal
<1>4. CASE Usable(b, requests[r].now, requests[r].digest)
  <2>1. /\ q \in Request /\ q.pc = "claim" /\ q.approval = b
        /\ q.snapshot = proposals[b] /\ q.now = requests[r].now
    BY <1>1, <1>2, NextRequests, RequestType DEF Request
  <2>2. Goes(r, q) /\ clock' = clock /\ UNCHANGED <<stores, world>>
    BY <1>4 DEF GetApproved, stores, world
  <2> HIDE DEF q
  <2>3. requests'[r] = q /\ \A s \in Requests \ {r} : requests'[s] = requests[s]
    BY <1>1, <1>2, <2>1, <2>2, GoesType
  <2>4. items[b] = "approved"
    BY <1>4 DEF Usable
  <2>5. Named(r)' /\ Snapshot(r)' /\ Owned(r)' /\ ~InFlight(r)'
    BY <1>2, <2>1, <2>2, <2>3, <2>4
       DEF Named, Snapshot, Owned, InFlight, Claiming, Issued, stores
  <2> QED
    BY <2>2, <2>3, <2>5, QuietStep
<1>5. CASE ~Usable(b, requests[r].now, requests[r].digest)
  <2>1. Reply(r) /\ items' = [items EXCEPT ![b] =
                        IF Alive(b, requests[r].now) THEN @ ELSE "absent"]
    BY <1>5 DEF GetApproved
  <2>2. items'[b] = IF Alive(b, requests[r].now) THEN items[b] ELSE "absent"
    BY <1>1, <1>2, <2>1 DEF TypeOK
  <2>3. /\ \/ items'[b] = items[b]
           \/ items'[b] = "absent" /\ proposals[b].expires <= clock
        /\ items'[b] # "absent" => items[b] # "absent"
    BY <1>2, <1>3, <2>2 DEF Alive
  <2>4. items' = [items EXCEPT ![b] = items'[b]]
    BY <2>1, <2>2
  <2> QED
    BY <1>2, <2>1, <2>3, <2>4, RecordStep DEF GetApproved
<1> QED
  BY <1>4, <1>5

LEMMA CreateStep ==
    ASSUME IInv, NEW r \in Requests, Create(r)
    PROVE  Threads' /\ Exclusive' /\ Ledger'
<1> DEFINE now == requests[r].now
           kept == Cleaned(now)
<1>1. TypeOK /\ Named(r) /\ Fresh /\ Unspent
  BY DEF IInv, Threads, Ledger
<1>2. now \in Nat /\ clock \in Nat /\ now <= clock /\ requests[r].digest \in Contents
  BY <1>1, RequestType, Bounds DEF Create, Named, Request, TypeOK
<1>3. /\ \A s \in Requests \ {r} : requests'[s] = requests[s]
      /\ Named(r)' /\ Snapshot(r)' /\ Owned(r)' /\ ~InFlight(r)'
  BY <1>1, IdleThread DEF Create
<1>4. ASSUME NEW a \in Approvals
      PROVE  /\ \/ kept[a] = items[a]
                \/ kept[a] = "absent" /\ proposals[a].expires <= clock
             /\ proposals[a].expires \in Nat
  <2>1. proposals[a].expires \in Nat
    BY <1>1 DEF TypeOK, Proposal
  <2>2. kept[a] = IF now < proposals[a].expires THEN items[a] ELSE "absent"
    BY DEF Cleaned, Alive
  <2> HIDE DEF kept, now
  <2> QED
    BY <1>2, <2>1, <2>2
<1>5. \/ items' = kept /\ proposals' = proposals
      \/ \E a \in Approvals :
            /\ ~Issued(a)
            /\ items' = [kept EXCEPT ![a] = "pending"]
            /\ proposals' = [proposals EXCEPT ![a] =
                  [content |-> requests[r].digest, expires |-> now + TTL]]
  BY DEF Create
<1>6. ASSUME NEW a \in Approvals, Issued(a)
      PROVE  /\ proposals'[a] = proposals[a] /\ Issued(a)'
             /\ \/ items'[a] = items[a]
                \/ items'[a] = "absent" /\ proposals[a].expires <= clock
  <2>1. proposals'[a] = proposals[a] /\ items'[a] = kept[a]
    BY <1>1, <1>5, <1>6 DEF TypeOK, Cleaned
  <2> QED
    BY <1>4, <1>6, <2>1 DEF Issued
<1>7. ASSUME NEW a \in Approvals, ~Issued(a)
      PROVE  /\ claims[a] = "absent" /\ mail[a] = <<>> /\ a \notin delivered
             /\ ~Issued(a)' => items'[a] = "absent"
  <2>1. claims[a] = "absent" /\ mail[a] = <<>> /\ a \notin delivered /\ items[a] = "absent"
    BY <1>1, <1>7 DEF Fresh
  <2>2. kept[a] = "absent"
    BY <1>4, <2>1
  <2>3. CASE items' = kept /\ proposals' = proposals
    BY <2>1, <2>2, <2>3
  <2>4. ASSUME NEW b \in Approvals,
               items' = [kept EXCEPT ![b] = "pending"],
               proposals' = [proposals EXCEPT ![b] =
                  [content |-> requests[r].digest, expires |-> now + TTL]]
        PROVE  ~Issued(a)' => items'[a] = "absent"
    <3>1. CASE a = b
      BY <1>1, <1>2, <2>4, <3>1, Bounds DEF Issued, TypeOK
    <3>2. CASE a # b
      BY <1>1, <2>2, <2>4, <3>2 DEF TypeOK, Cleaned
    <3> QED
      BY <3>1, <3>2
  <2> QED
    BY <1>5, <2>1, <2>3, <2>4
<1>8. UNCHANGED <<clock, claims, world>>
  BY DEF Create
<1>9. Ledger'
  BY <1>1, <1>6, <1>7, <1>8
     DEF IInv, Ledger, Fresh, Unspent, AtMostOneAttempt, OutcomeIsTruthful, world
<1>10. ASSUME NEW s \in Requests, s # r
       PROVE  Named(s)' /\ Snapshot(s)' /\ Owned(s)'
  <2> DEFINE a == requests[s].approval
  <2>1. requests'[s] = requests[s]
    BY <1>3, <1>10
  <2>2. Named(s) /\ Snapshot(s) /\ Owned(s)
    BY DEF IInv, Threads
  <2>3. requests[s].pc \in Naming => a \in Approvals /\ Issued(a)
    BY <1>1, <2>2, RequestType DEF Named
  <2>4. Named(s)'
    BY <1>6, <1>8, <2>1, <2>2, <2>3 DEF Named
  <2>5. Snapshot(s)'
    BY <1>6, <1>8, <2>1, <2>2, <2>3 DEF Snapshot, Naming
  <2>6. Owned(s)'
    BY <1>6, <1>8, <2>1, <2>2, <2>3 DEF Owned, InFlight, Claiming, Naming, Truth, world
  <2> QED
    BY <2>4, <2>5, <2>6
<1>11. Threads'
  BY <1>3, <1>10 DEF Threads
<1>12. Exclusive'
  BY <1>3 DEF IInv, Exclusive, InFlight
<1> QED
  BY <1>9, <1>11, <1>12

\* A refusal leaves everything to the other threads.
LEMMA RefusedStep ==
    ASSUME IInv, NEW r \in Requests, Reply(r), clock' = clock,
           UNCHANGED <<stores, world>>
    PROVE  Threads' /\ Exclusive' /\ Ledger'
<1>1. TypeOK
  BY DEF IInv
<1> QED
  BY <1>1, IdleThread, QuietStep

LEMMA ClaimStep ==
    ASSUME IInv, NEW r \in Requests, Claim(r)
    PROVE  Threads' /\ Exclusive' /\ Ledger'
<1> DEFINE b == requests[r].approval
           q == [requests[r] EXCEPT !.pc = "credential"]
           granted == /\ clock < requests[r].snapshot.expires
                      /\ claims[b] = "absent"
                      /\ Cardinality(Held(claims)) < MaxClaims
<1>1. TypeOK /\ Named(r) /\ Snapshot(r) /\ Ledger /\ requests[r].pc = "claim"
  BY DEF IInv, Threads, Claim, ClaimIf
<1>2. b \in Approvals /\ Issued(b) /\ requests[r] \in Request
  BY <1>1, RequestType DEF Naming, Named
<1>3. UNCHANGED <<clock, proposals, items, world>>
  BY DEF Claim, ClaimIf
<1>4. CASE ~granted
  BY <1>3, <1>4, RefusedStep DEF Claim, ClaimIf, stores, world
<1>5. CASE granted
  <2>1. /\ q \in Request /\ q.pc = "credential" /\ q.approval = b
        /\ q.snapshot = requests[r].snapshot /\ q.now = requests[r].now
    BY <1>1, <1>2, NextRequests DEF Request
  <2>2. Goes(r, q) /\ claims' = [claims EXCEPT ![b] = "claimed"]
    BY <1>5 DEF Claim, ClaimIf
  <2> HIDE DEF q
  <2>3. requests'[r] = q /\ \A s \in Requests \ {r} : requests'[s] = requests[s]
    BY <1>1, <1>2, <2>1, <2>2, GoesType
  <2>4. /\ claims'[b] = "claimed"
        /\ \A a \in Approvals \ {b} : claims'[a] = claims[a]
    BY <1>1, <1>2, <2>2 DEF TypeOK
  <2>5. /\ requests[r].snapshot = proposals[b] /\ items[b] = "approved"
        /\ mail[b] = <<>> /\ b \notin delivered
    <3>1. proposals[b].expires \in Nat /\ clock \in Nat
      BY <1>1, <1>2, Bounds DEF TypeOK, Proposal
    <3>2. requests[r].snapshot = proposals[b] /\ items[b] = "approved"
      BY <1>1, <1>5, <3>1 DEF Snapshot
    <3> QED
      BY <1>1, <1>2, <1>5, <3>2 DEF Ledger, Unspent
  <2>6. Named(r)' /\ Snapshot(r)' /\ Owned(r)'
    BY <1>1, <1>2, <1>3, <2>1, <2>3, <2>4, <2>5
       DEF Named, Snapshot, Owned, InFlight, Claiming, Issued, world
  <2>7. ASSUME NEW s \in Requests, s # r
        PROVE  /\ Named(s)' /\ Snapshot(s)' /\ Owned(s)'
               /\ InFlight(s)' => InFlight(s) /\ requests[s].approval # b
    <3> DEFINE a == requests[s].approval
    <3>1. requests'[s] = requests[s]
      BY <2>3, <2>7
    <3>2. Named(s) /\ Snapshot(s) /\ Owned(s)
      BY DEF IInv, Threads
    <3>3. Named(s)' /\ Snapshot(s)'
      BY <1>3, <3>1, <3>2 DEF Named, Snapshot, Issued
    <3>4. InFlight(s) => a # b /\ a \in Approvals
      BY <1>1, <1>5, <3>2, RequestType DEF Owned, InFlight, Claiming, Naming
    <3>5. Owned(s)'
      BY <1>3, <2>4, <3>1, <3>2, <3>4 DEF Owned, InFlight, Truth, world
    <3> QED
      BY <3>1, <3>3, <3>4, <3>5 DEF InFlight
  <2>8. Threads'
    BY <2>6, <2>7 DEF Threads
  <2>9. Exclusive'
    BY <2>1, <2>3, <2>7 DEF IInv, Exclusive, InFlight
  <2>10. Ledger'
    BY <1>1, <1>2, <1>3, <2>4, <2>5
       DEF Ledger, Fresh, Unspent, AtMostOneAttempt, OutcomeIsTruthful, Issued, world
  <2> QED
    BY <2>8, <2>9, <2>10
<1> QED
  BY <1>4, <1>5

LEMMA ResolveCredentialStep ==
    ASSUME IInv, NEW r \in Requests, ResolveCredential(r)
    PROVE  Threads' /\ Exclusive' /\ Ledger'
<1> DEFINE b == requests[r].approval
<1>1. TypeOK /\ Named(r) /\ Owned(r) /\ requests[r].pc = "credential"
  BY DEF IInv, Threads, ResolveCredential
<1>2. b \in Approvals /\ Issued(b) /\ requests[r] \in Request
  BY <1>1, RequestType DEF Naming, Named
<1>3. clock' = clock /\ UNCHANGED <<stores, world>>
  BY DEF ResolveCredential
<1>4. ASSUME NEW q \in Request, Goes(r, q),
             q.approval = b, q.snapshot = requests[r].snapshot, q.now = requests[r].now,
             \/ q.pc = "provider"
             \/ q.pc = "complete" /\ q.result = "refused"
      PROVE  Threads' /\ Exclusive' /\ Ledger'
  <2>1. requests'[r] = q /\ \A s \in Requests \ {r} : requests'[s] = requests[s]
    BY <1>1, <1>2, <1>4, GoesType
  <2>2. Named(r)' /\ Snapshot(r)' /\ Owned(r)'
    BY <1>1, <1>2, <1>3, <1>4, <2>1
       DEF Named, Snapshot, Owned, InFlight, Claiming, Truth, Issued, stores, world
  <2> QED
    BY <1>1, <1>3, <1>4, <2>1, <2>2, QuietStep DEF InFlight, Claiming
<1>5. CASE Goes(r, [requests[r] EXCEPT !.pc = "provider"])
  <2> DEFINE q == [requests[r] EXCEPT !.pc = "provider"]
  <2>1. /\ q \in Request /\ q.approval = b /\ q.snapshot = requests[r].snapshot
        /\ q.now = requests[r].now /\ q.pc = "provider"
    BY <1>1, <1>2, NextRequests DEF Request
  <2>2. Goes(r, q)
    BY <1>5
  <2> HIDE DEF q
  <2> QED
    BY <1>4, <2>1, <2>2
<1>6. CASE Goes(r, [requests[r] EXCEPT !.pc = "complete", !.result = "refused"])
  <2> DEFINE q == [requests[r] EXCEPT !.pc = "complete", !.result = "refused"]
  <2>1. "refused" \in Replies
    BY DEF Replies
  <2>2. q \in Request
    BY <1>1, <2>1, NextRequests
  <2>3. /\ q.approval = b /\ q.snapshot = requests[r].snapshot
        /\ q.now = requests[r].now /\ q.pc = "complete" /\ q.result = "refused"
    BY <1>2 DEF Request
  <2>4. Goes(r, q)
    BY <1>6
  <2> HIDE DEF q
  <2> QED
    BY <1>4, <2>2, <2>3, <2>4
<1> QED
  BY <1>5, <1>6 DEF ResolveCredential

LEMMA SendMessageStep ==
    ASSUME IInv, NEW r \in Requests, SendMessage(r)
    PROVE  Threads' /\ Exclusive' /\ Ledger'
<1> DEFINE b == requests[r].approval
           c == requests[r].snapshot.content
           q(y) == [requests[r] EXCEPT !.pc = "complete", !.result = y]
<1>1. TypeOK /\ Named(r) /\ Owned(r) /\ Ledger /\ requests[r].pc = "provider"
  BY DEF IInv, Threads, SendMessage
<1>2. b \in Approvals /\ Issued(b) /\ requests[r] \in Request
  BY <1>1, RequestType DEF Naming, Named
<1>3. UNCHANGED <<clock, stores>>
  BY DEF SendMessage
<1>4. PICK y \in Replies, arrived \in BOOLEAN :
        /\ y = "accepted" => arrived
        /\ y \in {"refused", "rejected"} => ~arrived
        /\ Goes(r, q(y))
        /\ mail' = IF y = "refused" THEN mail
                   ELSE [mail EXCEPT ![b] = Append(@, c)]
        /\ delivered' = IF arrived THEN delivered \cup {b} ELSE delivered
  BY DEF SendMessage
<1>5. /\ q(y) \in Request /\ q(y).approval = b /\ q(y).now = requests[r].now
      /\ q(y).snapshot = requests[r].snapshot /\ q(y).pc = "complete" /\ q(y).result = y
  BY <1>1, <1>2, NextRequests DEF Request
<1> HIDE DEF q
<1>6. requests'[r] = q(y) /\ \A s \in Requests \ {r} : requests'[s] = requests[s]
  BY <1>1, <1>2, <1>4, <1>5, GoesType
<1>7. claims[b] = "claimed" /\ mail[b] = <<>> /\ b \notin delivered
  BY <1>1 DEF Owned, InFlight, Claiming
<1>8. Len(mail'[b]) <= 1
  <2>1. CASE y = "refused"
    BY <1>4, <1>7, <2>1
  <2>2. CASE y # "refused"
    <3>1. c \in Contents \cup {NoContent}
      BY <1>2 DEF Request, Proposal
    <3>2. mail[b] \in Seq(Contents \cup {NoContent})
      BY <1>1, <1>2 DEF TypeOK
    <3>3. mail'[b] = Append(mail[b], c)
      BY <1>1, <1>2, <1>4, <2>2 DEF TypeOK
    <3>4. Len(Append(mail[b], c)) = Len(mail[b]) + 1
      BY ONLY <3>1, <3>2, AppendType
    <3> QED
      BY <1>7, <3>3, <3>4
  <2> QED
    BY <2>1, <2>2
<1>9. \A a \in Approvals \ {b} :
        mail'[a] = mail[a] /\ (a \in delivered' <=> a \in delivered)
  BY <1>1, <1>4 DEF TypeOK
<1>10. /\ y = "accepted" => b \in delivered'
       /\ y \in {"refused", "rejected"} => b \notin delivered'
  BY <1>4, <1>7
<1>11. Named(r)' /\ Snapshot(r)' /\ Owned(r)'
  BY <1>1, <1>2, <1>3, <1>5, <1>6, <1>7, <1>10
     DEF Named, Snapshot, Owned, InFlight, Claiming, Truth, Issued, stores
<1>12. ASSUME NEW s \in Requests, s # r
       PROVE  Named(s)' /\ Snapshot(s)' /\ Owned(s)'
  <2> DEFINE a == requests[s].approval
  <2>1. requests'[s] = requests[s]
    BY <1>6, <1>12
  <2>2. Named(s) /\ Snapshot(s) /\ Owned(s) /\ Exclusive
    BY DEF IInv, Threads
  <2>3. Named(s)' /\ Snapshot(s)'
    BY <1>3, <2>1, <2>2 DEF Named, Snapshot, Issued, stores
  <2>4. InFlight(s) => a \in Approvals \ {b}
    BY <1>1, <1>12, <2>2, RequestType DEF Exclusive, InFlight, Claiming, Naming
  <2>5. Owned(s)'
    BY <1>3, <1>9, <2>1, <2>2, <2>4 DEF Owned, InFlight, Truth, stores
  <2> QED
    BY <2>3, <2>5
<1>13. Threads'
  BY <1>11, <1>12 DEF Threads
<1>14. Exclusive'
  BY <1>1, <1>5, <1>6 DEF IInv, Exclusive, InFlight, Claiming
<1>15. Ledger'
  BY <1>1, <1>2, <1>3, <1>7, <1>8, <1>9
     DEF Ledger, Fresh, Unspent, AtMostOneAttempt, OutcomeIsTruthful, Issued, stores
<1> QED
  BY <1>13, <1>14, <1>15

LEMMA CompleteStep ==
    ASSUME IInv, NEW r \in Requests, Complete(r)
    PROVE  Threads' /\ Exclusive' /\ Ledger'
<1> DEFINE b == requests[r].approval
           y == requests[r].result
<1>1. TypeOK /\ Named(r) /\ Owned(r) /\ Ledger /\ requests[r].pc = "complete"
  BY DEF IInv, Threads, Complete
<1>2. b \in Approvals /\ Issued(b) /\ y \in Replies
  BY <1>1, RequestType DEF Naming, Named, Request
<1>3. UNCHANGED <<clock, proposals, items, world>>
  BY DEF Complete
<1>4. /\ \A s \in Requests \ {r} : requests'[s] = requests[s]
      /\ Named(r)' /\ Snapshot(r)' /\ Owned(r)' /\ ~InFlight(r)'
  BY <1>1, IdleThread DEF Complete
<1>5. InFlight(r) /\ claims[b] = "claimed" /\ Truth(b, y)
  BY <1>1 DEF Owned, InFlight, Claiming
<1>6. /\ claims'[b] = Outcome(y)
      /\ \A a \in Approvals \ {b} : claims'[a] = claims[a]
  BY <1>1, <1>2, <1>5 DEF Complete, TypeOK
<1>7. /\ Outcome(y) # "absent"
      /\ Outcome(y) = "failed" => b \notin delivered
      /\ Outcome(y) = "succeeded" => b \in delivered
  BY <1>2, <1>5, OutcomeType DEF Truth, Terminal
<1>8. ASSUME NEW s \in Requests, s # r
      PROVE  Named(s)' /\ Snapshot(s)' /\ Owned(s)'
  <2> DEFINE a == requests[s].approval
  <2>1. requests'[s] = requests[s]
    BY <1>4, <1>8
  <2>2. Named(s) /\ Snapshot(s) /\ Owned(s) /\ Exclusive
    BY DEF IInv, Threads
  <2>3. Named(s)' /\ Snapshot(s)'
    BY <1>3, <2>1, <2>2 DEF Named, Snapshot, Issued
  <2>4. InFlight(s) => a \in Approvals \ {b}
    BY <1>1, <1>5, <1>8, <2>2, RequestType DEF Exclusive, InFlight, Claiming, Naming
  <2>5. Owned(s)'
    BY <1>3, <1>6, <2>1, <2>2, <2>4 DEF Owned, InFlight, Truth, world
  <2> QED
    BY <2>3, <2>5
<1>9. Threads'
  BY <1>4, <1>8 DEF Threads
<1>10. Exclusive'
  BY <1>4 DEF IInv, Exclusive, InFlight
<1>11. Ledger'
  <2> HIDE DEF y
  <2> QED
    BY <1>1, <1>2, <1>3, <1>5, <1>6, <1>7
       DEF Ledger, Fresh, Unspent, AtMostOneAttempt, OutcomeIsTruthful, Issued, world
<1> QED
  BY <1>9, <1>10, <1>11

LEMMA RestartStep ==
    ASSUME IInv, Restart
    PROVE  Threads' /\ Exclusive' /\ Ledger'
<1>1. TypeOK /\ clock \in Nat
  BY Bounds DEF IInv, TypeOK
<1>2. Threads' /\ Exclusive'
  BY <1>1 DEF Restart, Threads, Exclusive, Named, Snapshot, Owned, InFlight, Claiming,
              Idle, Naming
<1>3. Ledger'
  BY DEF IInv, Restart, Ledger, Fresh, Unspent, AtMostOneAttempt, OutcomeIsTruthful,
         Issued, world
<1> QED
  BY <1>2, <1>3

LEMMA TickStep ==
    ASSUME IInv, Tick
    PROVE  Threads' /\ Exclusive' /\ Ledger'
<1>1. TypeOK /\ clock \in Nat
  BY Bounds DEF IInv, TypeOK
<1>2. ASSUME NEW r \in Requests
      PROVE  Named(r)' /\ Snapshot(r)' /\ Owned(r)'
  <2>1. Named(r) /\ Snapshot(r) /\ Owned(r)
    BY DEF IInv, Threads
  <2>2. requests[r].now \in Nat
    BY <1>1, RequestType DEF Request
  <2>3. Named(r)'
    BY <1>1, <2>1, <2>2 DEF Tick, Named, Issued, stores
  <2>4. requests[r].pc = "claim" => proposals[requests[r].approval].expires \in Nat
    BY <1>1, RequestType DEF Naming, TypeOK, Proposal
  <2>5. Snapshot(r)'
    BY <1>1, <2>1, <2>4 DEF Tick, Snapshot, stores
  <2>6. Owned(r)'
    BY <2>1 DEF Tick, Owned, InFlight, Truth, stores, world
  <2> QED
    BY <2>3, <2>5, <2>6
<1>3. Threads'
  BY <1>2 DEF Threads
<1>4. Exclusive' /\ Ledger'
  BY DEF IInv, Tick, Exclusive, InFlight, Ledger, Fresh, Unspent, AtMostOneAttempt,
         OutcomeIsTruthful, Issued, stores, world
<1> QED
  BY <1>3, <1>4

LEMMA InvStep == IInv /\ [Next]_vars => IInv'
<1> SUFFICES ASSUME IInv, [Next]_vars PROVE IInv'
  OBVIOUS
<1>1. TypeOK'
  BY TypeStep DEF IInv
<1>2. CASE UNCHANGED vars
  BY <1>1, <1>2
     DEF vars, IInv, Threads, Named, Snapshot, Owned, Exclusive, InFlight, Truth, Ledger,
         Fresh, Unspent, AtMostOneAttempt, OutcomeIsTruthful, Issued
<1>3. ASSUME NEW r \in Requests, Serve(r)
      PROVE  Threads' /\ Exclusive' /\ Ledger'
  BY <1>3, CreateStep, DecideStep, GetApprovedStep, ClaimStep, ResolveCredentialStep,
     SendMessageStep, CompleteStep DEF Serve
<1>4. CASE Next
  BY <1>1, <1>3, <1>4, CallStep, RestartStep, TickStep DEF Next, IInv
<1> QED
  BY <1>2, <1>4

THEOREM Invariant == Spec => []IInv
<1> QED
  BY InvInit, InvStep, PTL DEF Spec

\* AtMostOneAttempt: however many threads replay an approval, at whatever
\* lifetime and capacity, and through restarts, the provider is called once.
THEOREM OneAttempt == Spec => []AtMostOneAttempt
<1>1. IInv => AtMostOneAttempt
  BY DEF IInv, Ledger
<1> QED
  BY <1>1, Invariant, PTL

\* OutcomeIsTruthful: what the claim store records never contradicts what
\* the provider did.
THEOREM TruthfulOutcome == Spec => []OutcomeIsTruthful
<1>1. IInv => OutcomeIsTruthful
  BY DEF IInv, Ledger
<1> QED
  BY <1>1, Invariant, PTL

-----------------------------------------------------------------------------
(* What a step may never do.                                                *)

\* How each step treats the claims, when the invariant holds.
LEMMA ClaimsStep ==
    ASSUME IInv, [Next]_vars, NEW a \in Approvals, claims'[a] # claims[a]
    PROVE  \/ /\ claims[a] = "absent" /\ claims'[a] = "claimed"
              /\ clock < proposals[a].expires
           \/ claims[a] = "claimed"
           \/ faults' # faults
<1>1. TypeOK
  BY DEF IInv
<1>2. ASSUME NEW r \in Requests, Claim(r)
      PROVE  /\ claims[a] = "absent" /\ claims'[a] = "claimed"
             /\ clock < proposals[a].expires
  <2>1. a = requests[r].approval
    BY <1>1, <1>2 DEF Claim, ClaimIf, TypeOK
  <2>2. Snapshot(r)
    BY DEF IInv, Threads
  <2>3. requests[r].snapshot = proposals[a]
    BY <1>2, <2>1, <2>2 DEF Claim, ClaimIf, Snapshot
  <2> QED
    BY <1>1, <1>2, <2>1, <2>3 DEF Claim, ClaimIf, TypeOK
<1>3. ASSUME NEW r \in Requests, Complete(r) PROVE claims[a] = "claimed"
  BY <1>1, <1>3 DEF Complete, TypeOK
<1>4. CASE Restart
  BY <1>1, <1>4 DEF Restart, TypeOK
<1> QED
  BY <1>2, <1>3, <1>4
     DEF Next, Call, Serve, CallPropose, CallWith, Create, Approve, Deny, Decide,
         GetApproved, ResolveCredential, SendMessage, Tick, vars, stores

\* ClaimedInTime: no thread gains execution authority at or after expiry.
THEOREM NoLateClaim == Spec => ClaimedInTime
<1>1. IInv /\ [Next]_vars =>
        [\A a \in Approvals :
            claims[a] = "absent" /\ claims'[a] = "claimed"
                => clock < proposals[a].expires]_vars
  <2> SUFFICES ASSUME IInv, [Next]_vars, NEW a \in Approvals,
                      claims[a] = "absent", claims'[a] = "claimed", vars' # vars
               PROVE  clock < proposals[a].expires
    OBVIOUS
  <2>1. CASE faults' = faults
    BY <2>1, ClaimsStep
  <2>2. CASE faults' # faults
    BY <2>2 DEF Next, Restart, Call, Serve, CallPropose, CallWith, Create, Approve, Deny,
                Decide, GetApproved, Claim, ClaimIf, ResolveCredential, SendMessage,
                Complete, Tick, vars
  <2> QED
    BY <2>1, <2>2
<1> QED
  BY <1>1, Invariant, PTL DEF Spec, ClaimedInTime

\* TerminalIsFinal: an outcome is recorded once and kept while the process
\* lives.
THEOREM OutcomeIsFinal == Spec => TerminalIsFinal
<1>1. IInv /\ [Next]_vars =>
        [\A a \in Approvals :
            claims[a] \in Terminal /\ faults' = faults => claims'[a] = claims[a]]_vars
  BY ClaimsStep DEF Terminal
<1> QED
  BY <1>1, Invariant, PTL DEF Spec, TerminalIsFinal

-----------------------------------------------------------------------------
(* The lane implements a one-shot authority.                                *)

LEMMA StandingIs ==
    ASSUME NEW a \in Approvals
    PROVE  /\ ~Issued(a) => Standing[a] = "unasked"
           /\ Issued(a) /\ claims[a] # "absent" => Standing[a] = "spent"
           /\ Issued(a) /\ claims[a] = "absent" /\ items[a] # "absent" =>
                 Standing[a] = items[a]
           /\ Issued(a) /\ claims[a] = "absent" /\ items[a] = "absent" =>
                 Standing[a] = "gone"
BY DEF Standing

LEMMA StandingNext ==
    ASSUME NEW a \in Approvals
    PROVE  /\ ~Issued(a)' => Standing'[a] = "unasked"
           /\ Issued(a)' /\ claims'[a] # "absent" => Standing'[a] = "spent"
           /\ Issued(a)' /\ claims'[a] = "absent" /\ items'[a] # "absent" =>
                 Standing'[a] = items'[a]
           /\ Issued(a)' /\ claims'[a] = "absent" /\ items'[a] = "absent" =>
                 Standing'[a] = "gone"
BY DEF Standing

\* A step that only lets approvals lapse, or does nothing an observer of the
\* authority would see.
LEMMA LapseMap ==
    ASSUME UNCHANGED <<proposals, mail>>,
           \A a \in Approvals :
              \/ Standing'[a] = Standing[a]
              \/ Standing'[a] = "gone" /\ Standing[a] # "unasked"
    PROVE  Authority!Next
<1> DEFINE S == {a \in Approvals : Standing'[a] # Standing[a]}
<1>1. Standing' = Authority!Lapsed(S)
  BY DEF Authority!Lapsed, Standing
<1>2. Authority!Lapse(S)
  BY <1>1 DEF Authority!Lapse
<1> QED
  BY <1>2 DEF Authority!Next

\* A thread that changes only what becomes of one record b.
LEMMA RecordMap ==
    ASSUME IInv, NEW b \in Approvals, Issued(b),
           UNCHANGED <<proposals, claims, mail>>,
           items' = [items EXCEPT ![b] = items'[b]],
           items'[b] \in {items[b], "absent"}
    PROVE  Authority!Next
<1>1. TypeOK
  BY DEF IInv
<1>2. ASSUME NEW a \in Approvals
      PROVE  \/ Standing'[a] = Standing[a]
             \/ Standing'[a] = "gone" /\ Standing[a] # "unasked"
  <2>1. CASE a = b
    BY <1>1, <2>1, StandingIs, StandingNext DEF Issued, TypeOK, RecordStates
  <2>2. CASE a # b
    <3>1. items'[a] = items[a]
      BY <1>1, <2>2 DEF TypeOK
    <3> QED
      BY <3>1 DEF Standing, Issued
  <2> QED
    BY <2>1, <2>2
<1> QED
  BY <1>2, LapseMap

LEMMA CreateMap ==
    ASSUME IInv, NEW r \in Requests, Create(r)
    PROVE  Authority!Next
<1> DEFINE now == requests[r].now
           kept == Cleaned(now)
           c == requests[r].digest
<1>1. TypeOK /\ Fresh /\ c \in Contents /\ UNCHANGED <<claims, mail>>
  BY DEF IInv, Ledger, Threads, Named, Create, world
<1>2. \A a \in Approvals : kept[a] \in {items[a], "absent"}
  BY DEF Cleaned
<1>3. CASE items' = kept /\ proposals' = proposals
  <2>1. ASSUME NEW a \in Approvals
        PROVE  \/ Standing'[a] = Standing[a]
               \/ Standing'[a] = "gone" /\ Standing[a] # "unasked"
    <3>1. /\ items'[a] \in {items[a], "absent"} /\ claims'[a] = claims[a]
          /\ Issued(a)' <=> Issued(a)
      BY <1>1, <1>2, <1>3 DEF Issued
    <3> QED
      BY <1>1, <3>1, StandingIs, StandingNext DEF TypeOK, RecordStates
  <2> QED
    BY <1>1, <1>3, <2>1, LapseMap
<1>4. ASSUME NEW b \in Approvals, ~Issued(b),
             items' = [kept EXCEPT ![b] = "pending"],
             proposals' = [proposals EXCEPT ![b] = [content |-> c, expires |-> now + TTL]]
      PROVE  Authority!Next
  <2>0. PICK S \in SUBSET Approvals : S = {a \in Approvals \ {b} : Standing'[a] # Standing[a]}
    OBVIOUS
  <2> DEFINE terms == [a \in Approvals |-> proposals[a].content]
  <2>1. /\ Standing[b] = "unasked" /\ Standing'[b] = "pending"
        /\ proposals'[b].content = c
    <3>1. claims[b] = "absent"
      BY <1>1, <1>4 DEF Fresh
    <3>2. items'[b] = "pending"
      BY <1>4 DEF Cleaned
    <3>3. proposals'[b].content = c
      BY <1>1, <1>4 DEF TypeOK
    <3> QED
      BY <1>1, <1>4, <3>1, <3>2, <3>3, Bounds DEF Standing, Issued
  <2>2. ASSUME NEW a \in Approvals, a # b
        PROVE  /\ \/ Standing'[a] = Standing[a]
                  \/ Standing'[a] = "gone" /\ Standing[a] # "unasked"
               /\ proposals'[a] = proposals[a]
    <3>1. items'[a] = kept[a]
      BY <1>4, <2>2 DEF Cleaned
    <3>2. proposals'[a] = proposals[a]
      BY <1>1, <1>4, <2>2 DEF TypeOK
    <3>3. items'[a] \in {items[a], "absent"} /\ claims'[a] = claims[a]
      BY <1>1, <1>2, <3>1
    <3>4. Issued(a)' <=> Issued(a)
      BY <3>2 DEF Issued
    <3> QED
      BY <1>1, <3>2, <3>3, <3>4, StandingIs, StandingNext DEF TypeOK, RecordStates
  <2>3. Standing' = [Authority!Lapsed(S) EXCEPT ![b] = "pending"]
    <3>1. \A a \in Approvals :
            Standing'[a] = IF a = b THEN "pending" ELSE Authority!Lapsed(S)[a]
      BY <2>0, <2>1, <2>2 DEF Authority!Lapsed
    <3> QED
      BY <3>1 DEF Authority!Lapsed, Standing
  <2>4. terms' = [terms EXCEPT ![b] = c]
    BY <2>1, <2>2
  <2>5. Authority!Ask(b, c, S)
    BY <1>1, <2>1, <2>3, <2>4 DEF Authority!Ask
  <2> HIDE DEF c
  <2> QED
    BY <1>1, <2>5 DEF Authority!Next
<1> QED
  BY <1>3, <1>4 DEF Create

\* A step that changes the standing of one approval.
LEMMA MoveMap ==
    ASSUME NEW b \in Approvals, NEW v,
           UNCHANGED <<proposals, mail>>,
           Standing'[b] = v,
           \A a \in Approvals \ {b} : Standing'[a] = Standing[a]
    PROVE  Standing' = [Standing EXCEPT ![b] = v]
<1>1. /\ Standing = [a \in Approvals |-> Standing[a]]
      /\ Standing' = [a \in Approvals |-> Standing'[a]]
  BY DEF Standing
<1> HIDE DEF Standing
<1> QED
  BY <1>1

LEMMA DecideMap ==
    ASSUME IInv, NEW r \in Requests, Approve(r) \/ Deny(r)
    PROVE  Authority!Next
<1> DEFINE b == requests[r].approval
           now == requests[r].now
<1>1. TypeOK /\ Named(r) /\ Unspent
  BY DEF IInv, Threads, Ledger
<1>2. PICK op \in {"approve", "deny"}, d \in {"approved", "denied"} : Decide(r, op, d)
  BY DEF Approve, Deny
<1>3. b \in Approvals /\ Issued(b)
  BY <1>1, <1>2, RequestType DEF Decide, Naming, Named
<1>4. /\ items'[b] = Decided(b, now, requests[r].digest, d)
      /\ \A a \in Approvals \ {b} : items'[a] = items[a]
      /\ items' = [items EXCEPT ![b] = items'[b]]
      /\ UNCHANGED <<proposals, claims, mail>>
  BY <1>1, <1>2, <1>3 DEF Decide, TypeOK, world
<1>5. CASE items'[b] \in {items[b], "absent"}
  BY <1>3, <1>4, <1>5, RecordMap
<1>6. CASE items[b] = "pending" /\ items'[b] = d
  <2>1. Standing[b] = "pending" /\ Standing'[b] = d
    BY <1>1, <1>3, <1>4, <1>6 DEF Standing, Issued, Unspent
  <2>2. \A a \in Approvals \ {b} : Standing'[a] = Standing[a]
    BY <1>4 DEF Standing, Issued
  <2>3. Standing' = [Standing EXCEPT ![b] = d]
    BY <1>3, <1>4, <2>1, <2>2, MoveMap
  <2>4. Authority!Decide(b, d)
    BY <1>4, <2>1, <2>3 DEF Authority!Decide
  <2> QED
    BY <1>3, <2>4 DEF Authority!Next
<1> QED
  BY <1>4, <1>5, <1>6 DEF Decided

LEMMA ClaimMap ==
    ASSUME IInv, NEW r \in Requests, Claim(r)
    PROVE  Authority!Next \/ UNCHANGED Authority!vars
<1> DEFINE b == requests[r].approval
<1>1. TypeOK /\ Named(r) /\ Snapshot(r) /\ requests[r].pc = "claim"
  BY DEF IInv, Threads, Claim, ClaimIf
<1>2. b \in Approvals /\ Issued(b)
  BY <1>1, RequestType DEF Naming, Named
<1>3. UNCHANGED <<clock, proposals, items, mail>>
  BY DEF Claim, ClaimIf, world
<1>4. CASE claims' = claims
  BY <1>3, <1>4 DEF Authority!vars, Standing, Issued
<1>5. CASE /\ clock < requests[r].snapshot.expires /\ claims[b] = "absent"
           /\ claims' = [claims EXCEPT ![b] = "claimed"]
  <2>1. proposals[b].expires \in Nat /\ clock \in Nat
    BY <1>1, <1>2, Bounds DEF TypeOK, Proposal
  <2>2. items[b] = "approved"
    BY <1>1, <1>5, <2>1 DEF Snapshot
  <2>3. /\ claims'[b] = "claimed"
        /\ \A a \in Approvals \ {b} : claims'[a] = claims[a]
    BY <1>1, <1>2, <1>5 DEF TypeOK
  <2>4. Standing[b] = "approved" /\ Standing'[b] = "spent"
    BY <1>2, <1>3, <1>5, <2>2, <2>3 DEF Standing, Issued
  <2>5. \A a \in Approvals \ {b} : Standing'[a] = Standing[a]
    BY <1>3, <2>3 DEF Standing, Issued
  <2>6. Standing' = [Standing EXCEPT ![b] = "spent"]
    BY <1>2, <1>3, <2>4, <2>5, MoveMap
  <2>7. Authority!Spend(b)
    BY <1>3, <2>4, <2>6 DEF Authority!Spend
  <2> QED
    BY <1>2, <2>7 DEF Authority!Next
<1> QED
  BY <1>4, <1>5 DEF Claim, ClaimIf

LEMMA SendMap ==
    ASSUME IInv, NEW r \in Requests, SendMessage(r)
    PROVE  Authority!Next \/ UNCHANGED Authority!vars
<1> DEFINE b == requests[r].approval
           c == requests[r].snapshot.content
           terms == [a \in Approvals |-> proposals[a].content]
<1>1. TypeOK /\ Named(r) /\ Owned(r) /\ requests[r].pc = "provider"
  BY DEF IInv, Threads, SendMessage
<1>2. b \in Approvals /\ Issued(b)
  BY <1>1, RequestType DEF Naming, Named
<1>3. UNCHANGED <<proposals, items, claims>>
  BY DEF SendMessage, stores
<1>4. Standing' = Standing
  BY <1>3 DEF Standing, Issued
<1>5. claims[b] = "claimed" /\ requests[r].snapshot = proposals[b] /\ mail[b] = <<>>
  BY <1>1 DEF Owned, InFlight, Claiming
<1>6. CASE mail' = mail
  BY <1>3, <1>4, <1>6 DEF Authority!vars
<1>7. CASE mail' = [mail EXCEPT ![b] = Append(@, c)]
  <2>1. Standing[b] = "spent" /\ terms[b] = c
    BY <1>2, <1>5, StandingIs
  <2>2. Authority!Act(b)
    BY <1>3, <1>4, <1>5, <1>7, <2>1 DEF Authority!Act
  <2> QED
    BY <1>2, <2>2 DEF Authority!Next
<1> QED
  BY <1>6, <1>7 DEF SendMessage

LEMMA CompleteMap ==
    ASSUME IInv, NEW r \in Requests, Complete(r)
    PROVE  UNCHANGED Authority!vars
<1> DEFINE b == requests[r].approval
<1>1. TypeOK /\ Owned(r) /\ requests[r].pc = "complete"
  BY DEF IInv, Threads, Complete
<1>2. b \in Approvals /\ requests[r].result \in Replies
  BY <1>1, RequestType DEF Naming, Request
<1>3. UNCHANGED <<proposals, items, mail>>
  BY DEF Complete, world
<1>4. Outcome(requests[r].result) # "absent"
  BY <1>2, OutcomeType DEF Terminal
<1>5. claims[b] # "absent" /\ claims'[b] # "absent"
  BY <1>1, <1>2, <1>4 DEF Owned, InFlight, Claiming, Complete, TypeOK
<1>6. \A a \in Approvals \ {b} : claims'[a] = claims[a]
  BY <1>1, <1>2 DEF Complete, TypeOK
<1>7. \A a \in Approvals : Standing'[a] = Standing[a]
  BY <1>3, <1>5, <1>6 DEF Standing, Issued
<1>8. Standing' = Standing
  BY <1>7 DEF Standing
<1> QED
  BY <1>3, <1>8 DEF Authority!vars

LEMMA RestartMap ==
    ASSUME IInv, Restart
    PROVE  Authority!Next
<1>1. TypeOK
  BY DEF IInv
<1>2. UNCHANGED <<proposals, mail>>
  BY DEF Restart, world
<1>3. ASSUME NEW a \in Approvals
      PROVE  \/ Standing'[a] = Standing[a]
             \/ Standing'[a] = "gone" /\ Standing[a] # "unasked"
  <2>1. Issued(a)' <=> Issued(a)
    BY <1>2 DEF Issued
  <2>2. items'[a] = "absent" /\ claims'[a] = "absent"
    BY DEF Restart
  <2> QED
    BY <1>1, <2>1, <2>2, StandingIs, StandingNext DEF TypeOK, RecordStates
<1> QED
  BY <1>2, <1>3, LapseMap

LEMMA GetApprovedMap ==
    ASSUME IInv, NEW r \in Requests, GetApproved(r)
    PROVE  Authority!Next
<1> DEFINE b == requests[r].approval
<1>1. TypeOK /\ Named(r)
  BY DEF IInv, Threads
<1>2. b \in Approvals /\ Issued(b)
  BY <1>1, RequestType DEF GetApproved, Naming, Named
<1>3. items'[b] \in {items[b], "absent"} /\ items' = [items EXCEPT ![b] = items'[b]]
  BY <1>1, <1>2 DEF GetApproved, TypeOK
<1> QED
  BY <1>2, <1>3, RecordMap DEF GetApproved, world

\* What leaves the records, the claims and the mailbox alone is invisible.
LEMMA QuietMap ==
    ASSUME UNCHANGED <<proposals, items, claims, mail>>
    PROVE  UNCHANGED Authority!vars
BY DEF Authority!vars, Standing, Issued

LEMMA StepMap == IInv /\ [Next]_vars => [Authority!Next]_(Authority!vars)
<1> SUFFICES ASSUME IInv, [Next]_vars
             PROVE  Authority!Next \/ UNCHANGED Authority!vars
  OBVIOUS
<1>1. CASE UNCHANGED vars \/ Tick
  BY <1>1, QuietMap DEF vars, Tick, stores, world
<1>2. ASSUME NEW r \in Requests, Call(r) \/ ResolveCredential(r)
      PROVE  UNCHANGED Authority!vars
  BY <1>2, QuietMap DEF Call, CallPropose, CallWith, ResolveCredential, stores, world
<1> QED
  BY <1>1, <1>2, CreateMap, DecideMap, GetApprovedMap, ClaimMap, SendMap, CompleteMap,
     RestartMap DEF Next, Serve

LEMMA InitMap == Init => Authority!Init
BY DEF Init, Authority!Init, Standing, Issued, NoProposal

\* ImplementsAuthority: whatever the two stores and their threads do, an
\* observer sees an approval that is asked for, decided, spent and acted on
\* once, with the terms it was asked for, or that lapses.
THEOREM Implements == Spec => ImplementsAuthority
<1> QED
  BY Invariant, InitMap, StepMap, PTL DEF Spec, ImplementsAuthority, Authority!Spec

=============================================================================

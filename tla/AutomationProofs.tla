-------------------------- MODULE AutomationProofs --------------------------
(***************************************************************************)
(* What Automation promises for every number of automations, workers and   *)
(* requests, every bound and every daily schedule that moves forward, and  *)
(* that the search of AutomationSchedule finds such a schedule in any zone. *)
(***************************************************************************)
EXTENDS Automation, AutomationSchedule, FiniteSetTheorems, TLAPS

-----------------------------------------------------------------------------
(* Types.                                                                   *)

\* The run ids a worker holds are ids of rows.
PointersOK ==
    \A w \in Workers :
        /\ wk[w].pc \in {"recover_write", "deliver", "deliver_write"}
              => wk[w].run \in DOMAIN runs
        /\ \A x \in wk[w].stale : x[2] \in DOMAIN runs

TInv == TypeOK /\ PointersOK

LEMMA Bounds ==
    {Grace, StaleAge, Batch, ApprovalTTL, OnceMinLead, OnceMaxHorizon,
     PendingMax, ActiveMax, MaxTime, MaxFaults} \subseteq Nat
    /\ Automations \subseteq Nat /\ IsFiniteSet(Automations)
BY ConstantsAssumption

LEMMA TimesAreNat == Times \subseteq Nat /\ \A t \in Times : t \in Nat
BY Bounds DEF Times

LEMMA TargetType ==
    ASSUME TypeOK, NEW a \in Automations, NEW n, NEW t \in Times
    PROVE  AdvanceTarget(a, n, t) \in Nat \cup {NoDue}
BY NextDailyAssumption DEF AdvanceTarget

LEMMA AdvancedType ==
    ASSUME NEW d \in Definition, d.status = "approved",
           NEW t \in Nat \cup {NoDue}
    PROVE  Advanced(d, t) \in Definition
BY DEF Advanced, Definition, NoDue

LEMMA AdvancedFields ==
    ASSUME NEW d \in Definition, d.status = "approved",
           NEW t \in Nat \cup {NoDue}
    PROVE  LET e == Advanced(d, t) IN
           /\ e.content = d.content /\ e.nextDue = t
           /\ t = NoDue => e.status = "completed"
           /\ t # NoDue => e.status = "approved"
BY DEF Advanced, Definition, NoDue

LEMMA DueRowsType ==
    ASSUME TypeOK, NEW t \in Times
    PROVE  DueApproved(t) \subseteq Times \X Automations
<1> SUFFICES ASSUME NEW x \in DueApproved(t)
             PROVE  x \in Times \X Automations
  OBVIOUS
<1>1. PICK b \in Automations : /\ defs[b].status = "approved"
                               /\ defs[b].nextDue <= t
                               /\ x = <<defs[b].nextDue, b>>
  BY DEF DueApproved, WithStatus
<1>2. defs[b] \in Definition
  BY <1>1 DEF TypeOK, NoDefinition
<1>3. defs[b].nextDue \in Nat
  BY <1>1, <1>2 DEF Definition
<1> QED
  BY <1>1, <1>3, Bounds DEF Times

LEMMA RowType ==
    ASSUME TypeOK, NEW i \in DOMAIN runs
    PROVE  /\ i \in Nat /\ runs[i] \in Run
           /\ runs[i].automation \in Automations
           /\ runs[i].due \in Times /\ runs[i].claimedAt \in Times
<1>1. i \in Nat /\ runs[i] \in Run
  BY DEF TypeOK
<1> QED
  BY <1>1 DEF Run

LEMMA StaleRowsType ==
    ASSUME TypeOK, NEW t \in Int
    PROVE  StaleClaims(t) \subseteq Times \X DOMAIN runs
<1> SUFFICES ASSUME NEW x \in StaleClaims(t)
             PROVE  x \in Times \X DOMAIN runs
  OBVIOUS
<1>1. PICK j \in DOMAIN runs : x = <<runs[j].claimedAt, j>>
  BY DEF StaleClaims
<1> QED
  BY <1>1, RowType

LEMMA IdleType == IdleWorker \in Worker
BY Bounds DEF IdleWorker, Worker, Times

\* Only worker w moves, and it holds ids of rows.
LEMMA WorkerMoves ==
    ASSUME TInv, NEW w \in Workers, NEW v \in Worker, Goes(w, v),
           DOMAIN runs \subseteq DOMAIN runs',
           v.pc \in {"recover_write", "deliver", "deliver_write"}
              => v.run \in DOMAIN runs',
           \A x \in v.stale : x[2] \in DOMAIN runs'
    PROVE  wk' \in [Workers -> Worker] /\ PointersOK'
BY DEF TInv, TypeOK, PointersOK, Goes

\* A settlement rewrites rows in place.
LEMMA SettleType ==
    ASSUME TypeOK, NEW i \in DOMAIN runs, NEW o \in {"delivered", "indeterminate"},
           NEW t \in Nat \cup {NoDue}, SettleClaim(i, o, t)
    PROVE  /\ runs' \in Seq(Run) /\ DOMAIN runs' = DOMAIN runs
           /\ defs' \in [Automations -> Definition \cup {NoDefinition}]
<1> DEFINE a == runs[i].automation
<1>1. CASE runs[i].status = "claimed" /\ MatchesDue(a, runs[i].due)
  <2> DEFINE r == [runs[i] EXCEPT !.status = o]
  <2>1. runs' = [runs EXCEPT ![i] = r]
    BY <1>1 DEF SettleClaim
  <2>2. defs' = [defs EXCEPT ![a] = Advanced(defs[a], t)]
    BY <1>1 DEF SettleClaim
  <2>3. r \in Run
    BY RowType DEF Run
  <2>4. defs[a] \in Definition /\ defs[a].status = "approved"
    BY <1>1, RowType DEF MatchesDue, TypeOK, NoDefinition
  <2>5. Advanced(defs[a], t) \in Definition
    BY <2>4, AdvancedType
  <2> HIDE DEF r
  <2>6. runs' \in Seq(Run) /\ DOMAIN runs' = DOMAIN runs
    BY <2>1, <2>3 DEF TypeOK
  <2>7. defs' \in [Automations -> Definition \cup {NoDefinition}]
    BY <2>2, <2>5 DEF TypeOK
  <2> QED
    BY <2>6, <2>7
<1>2. CASE ~(runs[i].status = "claimed" /\ MatchesDue(a, runs[i].due))
  BY <1>2 DEF SettleClaim, TypeOK
<1> QED
  BY <1>1, <1>2

LEMMA AppendType ==
    ASSUME NEW s \in Seq(Run), NEW r \in Run
    PROVE  Append(s, r) \in Seq(Run) /\ DOMAIN s \subseteq DOMAIN Append(s, r)
OBVIOUS

LEMMA TypeInit == Init => TInv
<1> SUFFICES ASSUME Init PROVE TInv
  OBVIOUS
<1> USE Bounds DEF Init
<1>1. now \in Times /\ enabled \in BOOLEAN /\ faults \in 0..MaxFaults
  BY DEF Times
<1>2. defs \in [Automations -> Definition \cup {NoDefinition}]
  OBVIOUS
<1>3. runs \in Seq(Run)
  OBVIOUS
<1>4. req \in [Requests -> Request]
  BY DEF Request
<1>5. wk \in [Workers -> Worker]
  BY DEF IdleWorker, Worker, Times, NoDue
<1>6. PointersOK
  BY DEF PointersOK, IdleWorker
<1> QED
  BY <1>1, <1>2, <1>3, <1>4, <1>5, <1>6 DEF TInv, TypeOK

LEMMA TypeStep == TInv /\ [Next]_vars => TInv'
<1> SUFFICES ASSUME TInv, [Next]_vars PROVE TInv'
  OBVIOUS
<1> USE DEF TInv
<1>1. ASSUME NEW q \in Requests, NEW c \in Contents, ProposeBegin(q, c)
      PROVE  TInv'
  BY <1>1 DEF ProposeBegin, TypeOK, PointersOK, Request
<1>2. ASSUME NEW q \in Requests, NEW a \in Automations, ProposeCommit(q, a)
      PROVE  TInv'
  <2>1. req[q] \in [op : {"propose"}, content : Contents, at : Times]
    BY <1>2 DEF ProposeCommit, TypeOK, Request, NoRequest
  <2>2. defs'[a] \in Definition
    BY <2>1, <1>2, Bounds DEF ProposeCommit, TypeOK, Definition, Times
  <2> QED
    BY <1>2, <2>2 DEF ProposeCommit, TypeOK, PointersOK, Request
<1>3. ASSUME NEW q \in Requests, NEW a \in Automations, NEW d \in Contents,
             ApproveBegin(q, a, d)
      PROVE  TInv'
  <2>1. InitialDue(d, now) \in Nat
    BY ContentsAssumption, NextDailyAssumption DEF InitialDue, TypeOK
  <2> QED
    BY <1>3, <2>1 DEF ApproveBegin, TypeOK, PointersOK, Request
<1>4. ASSUME NEW q \in Requests, ApproveCommit(q) PROVE TInv'
  <2>1. req[q] \in [op : {"approve"}, automation : Automations, firstDue : Nat]
    BY <1>4 DEF ApproveCommit, TypeOK, Request, NoRequest
  <2> DEFINE a == req[q].automation
  <2>2. ASSUME defs[a].status = "pending"
        PROVE  [defs[a] EXCEPT !.status = "approved",
                               !.nextDue = req[q].firstDue] \in Definition
    <3>1. defs[a] \in [status : {"pending", "denied", "completed"},
              content : Contents, expiresAt : Nat, nextDue : {NoDue}]
      BY <2>1, <2>2 DEF TypeOK, Definition, NoDefinition
    <3>2. [defs[a] EXCEPT !.status = "approved", !.nextDue = req[q].firstDue]
            \in [status : {"approved", "cancelled"},
                 content : Contents, expiresAt : Nat, nextDue : Nat]
      BY <2>1, <3>1
    <3> QED
      BY <3>2 DEF Definition
  <2> QED
    BY <1>4, <2>1, <2>2 DEF ApproveCommit, TypeOK, PointersOK, Request
<1>5. ASSUME NEW q \in Requests, NEW a \in Automations, NEW d \in Contents,
             DenyBegin(q, a, d)
      PROVE  TInv'
  BY <1>5 DEF DenyBegin, TypeOK, PointersOK, Request
<1>6. ASSUME NEW q \in Requests, NEW a \in Automations, CancelBegin(q, a)
      PROVE  TInv'
  BY <1>6 DEF CancelBegin, TypeOK, PointersOK, Request
<1>7. ASSUME NEW q \in Requests, DenyCommit(q) PROVE TInv'
  <2>1. req[q] \in [op : {"deny", "cancel"}, automation : Automations]
    BY <1>7 DEF DenyCommit, TerminateCommit, TypeOK, Request, NoRequest
  <2>2. ASSUME NEW a \in Automations, defs[a].status = "pending"
        PROVE  [defs[a] EXCEPT !.status = "denied"] \in Definition
    BY <2>2 DEF TypeOK, Definition, NoDefinition
  <2> QED
    BY <1>7, <2>1, <2>2 DEF DenyCommit, TerminateCommit, TypeOK, PointersOK, Request
<1>8. ASSUME NEW q \in Requests, CancelCommit(q) PROVE TInv'
  <2>1. req[q] \in [op : {"deny", "cancel"}, automation : Automations]
    BY <1>8 DEF CancelCommit, TerminateCommit, TypeOK, Request, NoRequest
  <2>2. ASSUME NEW a \in Automations, defs[a].status = "approved"
        PROVE  [defs[a] EXCEPT !.status = "cancelled"] \in Definition
    BY <2>2 DEF TypeOK, Definition, NoDefinition
  <2> QED
    BY <1>8, <2>1, <2>2 DEF CancelCommit, TerminateCommit, TypeOK, PointersOK, Request
<1>9. ASSUME NEW w \in Workers, TickBegin(w) PROVE TInv'
  <2>1. PICK Q \in SUBSET StaleClaims(now - StaleAge) :
            Goes(w, [IdleWorker EXCEPT !.pc = "recover", !.at = now, !.stale = Q])
    BY <1>9 DEF TickBegin
  <2>2. Q \subseteq Times \X DOMAIN runs
    <3>1. now - StaleAge \in Int
      BY Bounds DEF TypeOK, Times
    <3> QED
      BY <2>1, <3>1, StaleRowsType
  <2>3. DOMAIN runs \subseteq Nat
    BY RowType
  <2> DEFINE v == [IdleWorker EXCEPT !.pc = "recover", !.at = now, !.stale = Q]
  <2>4. v \in Worker /\ v.pc = "recover" /\ v.stale = Q
    BY <2>2, <2>3 DEF IdleWorker, Worker, TypeOK, NoDue
  <2>5. Goes(w, v) /\ runs' = runs
    BY <1>9, <2>1 DEF TickBegin
  <2> HIDE DEF v
  <2>6. wk' \in [Workers -> Worker] /\ PointersOK'
    BY <2>2, <2>4, <2>5, WorkerMoves
  <2> QED
    BY <1>9, <2>6 DEF TickBegin, TypeOK
<1>10. ASSUME NEW w \in Workers, RecoverRead(w) PROVE TInv'
  <2> DEFINE t(x) == AdvanceTarget(runs[x[2]].automation,
                       Cardinality(RunsOf(runs[x[2]].automation)), wk[w].at)
             v1(x) == [wk[w] EXCEPT !.pc = "recover_write", !.run = x[2], !.target = t(x)]
             v2(x) == [wk[w] EXCEPT !.stale = @ \ {x}]
  <2>1. PICK x \in wk[w].stale : Goes(w, v1(x)) \/ Goes(w, v2(x))
    BY <1>10 DEF RecoverRead
  <2>2. x[2] \in DOMAIN runs /\ x[2] \in Nat
    BY RowType DEF PointersOK
  <2>3. t(x) \in Nat \cup {NoDue}
    BY <2>2, RowType, TargetType DEF TypeOK, Worker
  <2>4. wk[w].pc = "recover" /\ wk[w] \in Worker /\ runs' = runs
    BY <1>10 DEF RecoverRead, TypeOK
  <2> HIDE DEF t
  <2>5. v1(x) \in Worker /\ v1(x).run = x[2] /\ v1(x).stale = wk[w].stale
    BY <2>2, <2>3, <2>4 DEF Worker
  <2>6. v2(x) \in Worker /\ v2(x).pc = "recover" /\ v2(x).stale \subseteq wk[w].stale
    BY <2>2, <2>3, <2>4 DEF Worker
  <2> HIDE DEF v1, v2
  <2>7. wk' \in [Workers -> Worker] /\ PointersOK'
    <3>1. CASE Goes(w, v1(x))
      BY <3>1, <2>2, <2>4, <2>5, WorkerMoves DEF PointersOK
    <3>2. CASE Goes(w, v2(x))
      BY <3>2, <2>4, <2>6, WorkerMoves DEF PointersOK
    <3> QED
      BY <2>1, <3>1, <3>2
  <2> QED
    BY <1>10, <2>7 DEF RecoverRead, TypeOK
<1>11. ASSUME NEW w \in Workers, ScanDue(w) PROVE TInv'
  <2>1. DueApproved(wk[w].at) \subseteq Times \X Automations
    BY DueRowsType DEF TypeOK, Worker
  <2>2. PICK Q \in SUBSET DueApproved(wk[w].at) :
            Goes(w, [wk[w] EXCEPT !.pc = "due", !.due = Q])
    BY <1>11 DEF ScanDue
  <2>3. [wk[w] EXCEPT !.pc = "due", !.due = Q] \in Worker
    BY <2>1 DEF TypeOK, Worker
  <2> QED
    BY <1>11, <2>2, <2>3, WorkerMoves DEF ScanDue, TypeOK, PointersOK, Worker
<1>12. ASSUME NEW w \in Workers, DueRead(w) PROVE TInv'
  <2>1. PICK x \in wk[w].due :
            \/ Goes(w, [wk[w] EXCEPT !.due = @ \ {x}])
            \/ Goes(w, [wk[w] EXCEPT !.pc = "miss_write"])
            \/ Goes(w, [wk[w] EXCEPT !.pc = "claim_write"])
    BY <1>12 DEF DueRead
  <2> DEFINE v1 == [wk[w] EXCEPT !.due = @ \ {x}]
             v2 == [wk[w] EXCEPT !.pc = "miss_write"]
             v3 == [wk[w] EXCEPT !.pc = "claim_write"]
  <2>2. wk[w] \in Worker /\ wk[w].pc = "due" /\ runs' = runs
    BY <1>12 DEF DueRead, TypeOK
  <2>3. /\ v1 \in Worker /\ v1.stale = wk[w].stale /\ v1.pc = "due"
        /\ v2 \in Worker /\ v2.stale = wk[w].stale /\ v2.pc = "miss_write"
        /\ v3 \in Worker /\ v3.stale = wk[w].stale /\ v3.pc = "claim_write"
    BY <2>2 DEF Worker
  <2>4. Goes(w, v1) \/ Goes(w, v2) \/ Goes(w, v3)
    BY <2>1
  <2> HIDE DEF v1, v2, v3
  <2>5. wk' \in [Workers -> Worker] /\ PointersOK'
    BY <2>2, <2>3, <2>4, WorkerMoves DEF PointersOK
  <2> QED
    BY <1>12, <2>5 DEF DueRead, TypeOK
<1>13. ASSUME NEW w \in Workers, TickEnd(w) PROVE TInv'
  BY <1>13, IdleType, WorkerMoves DEF TickEnd, TypeOK, IdleWorker
<1>14. ASSUME NEW w \in Workers, TickFails(w) PROVE TInv'
  <2>1. faults' \in 0..MaxFaults
    BY <1>14, Bounds DEF TickFails, TypeOK
  <2> QED
    BY <1>14, <2>1, IdleType, WorkerMoves DEF TickFails, TypeOK, IdleWorker
<1>15. CASE Restart
  <2>1. faults' \in 0..MaxFaults
    BY <1>15, Bounds DEF Restart, TypeOK
  <2> QED
    BY <1>15, <2>1, IdleType DEF Restart, TypeOK, PointersOK, IdleWorker, Request
<1>16. CASE ClockTick
  BY <1>16, Bounds DEF ClockTick, TypeOK, PointersOK, Times
<1>17. CASE UNCHANGED vars
  BY <1>17 DEF vars, TypeOK, PointersOK
<1>18. ASSUME NEW w \in Workers, RecoverWrite(w) PROVE TInv'
  <2> DEFINE v == [wk[w] EXCEPT !.pc = "recover",
                                !.stale = {x \in @ : x[2] # wk[w].run}]
  <2>1. wk[w] \in Worker /\ wk[w].run \in DOMAIN runs
    BY <1>18 DEF RecoverWrite, TypeOK, PointersOK
  <2>2. v \in Worker /\ v.pc = "recover" /\ v.stale \subseteq wk[w].stale
    BY <2>1 DEF Worker
  <2>3. Goes(w, v) /\ SettleClaim(wk[w].run, "indeterminate", wk[w].target)
    BY <1>18 DEF RecoverWrite
  <2>4. wk[w].target \in Nat \cup {NoDue}
    BY <2>1 DEF Worker
  <2>5. /\ runs' \in Seq(Run) /\ DOMAIN runs' = DOMAIN runs
        /\ defs' \in [Automations -> Definition \cup {NoDefinition}]
    BY <2>1, <2>3, <2>4, SettleType
  <2> HIDE DEF v
  <2>6. wk' \in [Workers -> Worker] /\ PointersOK'
    BY <2>2, <2>3, <2>5, WorkerMoves DEF PointersOK
  <2> QED
    BY <1>18, <2>5, <2>6 DEF RecoverWrite, TypeOK
<1>19. ASSUME NEW w \in Workers, DeliverWrite(w) PROVE TInv'
  <2> DEFINE v == [wk[w] EXCEPT !.pc = "due"]
  <2>1. wk[w] \in Worker /\ wk[w].run \in DOMAIN runs
    BY <1>19 DEF DeliverWrite, TypeOK, PointersOK
  <2>2. v \in Worker /\ v.pc = "due" /\ v.stale = wk[w].stale
    BY <2>1 DEF Worker
  <2>3. Goes(w, v) /\ SettleClaim(wk[w].run, "delivered", wk[w].target)
    BY <1>19 DEF DeliverWrite
  <2>4. wk[w].target \in Nat \cup {NoDue}
    BY <2>1 DEF Worker
  <2>5. /\ runs' \in Seq(Run) /\ DOMAIN runs' = DOMAIN runs
        /\ defs' \in [Automations -> Definition \cup {NoDefinition}]
    BY <2>1, <2>3, <2>4, SettleType
  <2> HIDE DEF v
  <2>6. wk' \in [Workers -> Worker] /\ PointersOK'
    BY <2>2, <2>3, <2>5, WorkerMoves DEF PointersOK
  <2> QED
    BY <1>19, <2>5, <2>6 DEF DeliverWrite, TypeOK
<1>20. ASSUME NEW w \in Workers, DeliverRead(w) PROVE TInv'
  <2> DEFINE r == runs[wk[w].run]
             t == AdvanceTarget(r.automation, Cardinality(RunsOf(r.automation)), r.due)
             v1 == [wk[w] EXCEPT !.pc = "deliver_write", !.target = t]
             v2 == [wk[w] EXCEPT !.pc = "due"]
  <2>1. Goes(w, v1) \/ Goes(w, v2)
    BY <1>20 DEF DeliverRead
  <2>2. wk[w] \in Worker /\ wk[w].run \in DOMAIN runs /\ runs' = runs
    BY <1>20 DEF DeliverRead, TypeOK, PointersOK
  <2>3. t \in Nat \cup {NoDue}
    BY <2>2, RowType, TargetType
  <2> HIDE DEF t
  <2>4. v1 \in Worker /\ v1.run = wk[w].run /\ v1.stale = wk[w].stale
    BY <2>2, <2>3 DEF Worker
  <2>5. v2 \in Worker /\ v2.pc = "due" /\ v2.stale = wk[w].stale
    BY <2>2 DEF Worker
  <2> HIDE DEF v1, v2
  <2>6. wk' \in [Workers -> Worker] /\ PointersOK'
    <3>1. CASE Goes(w, v1)
      BY <3>1, <2>2, <2>4, WorkerMoves DEF PointersOK
    <3>2. CASE Goes(w, v2)
      BY <3>2, <2>2, <2>5, WorkerMoves DEF PointersOK
    <3> QED
      BY <2>1, <3>1, <3>2
  <2> QED
    BY <1>20, <2>6 DEF DeliverRead, TypeOK
<1>21. ASSUME NEW w \in Workers, ClaimWrite(w) PROVE TInv'
  <2> DEFINE v1(x) == [wk[w] EXCEPT !.pc = "due", !.due = @ \ {x}]
             v2(x) == [wk[w] EXCEPT !.pc = "deliver", !.due = @ \ {x}, !.run = Len(runs) + 1]
  <2>1. PICK x \in wk[w].due :
          \/ Goes(w, v1(x)) /\ UNCHANGED runs
          \/ /\ runs' = Append(runs, NewRun(x, "claimed", wk[w].at))
             /\ Goes(w, v2(x))
    BY <1>21 DEF ClaimWrite
  <2>2. wk[w] \in Worker
    BY DEF TypeOK
  <2>3. NewRun(x, "claimed", wk[w].at) \in Run
    BY <2>2 DEF Worker, NewRun, Run
  <2>4. runs' \in Seq(Run) /\ DOMAIN runs \subseteq DOMAIN runs'
    <3>1. runs' = runs \/ runs' = Append(runs, NewRun(x, "claimed", wk[w].at))
      BY <2>1
    <3> HIDE DEF v1, v2
    <3>2. runs \in Seq(Run)
      BY DEF TypeOK
    <3> QED
      BY ONLY <3>1, <3>2, <2>3, AppendType
  <2>5. v1(x) \in Worker /\ v1(x).pc = "due" /\ v1(x).stale = wk[w].stale
    BY <2>2 DEF Worker
  <2>6. v2(x) \in Worker /\ v2(x).run = Len(runs) + 1 /\ v2(x).stale = wk[w].stale
    <3>1. Len(runs) + 1 \in Nat
      BY DEF TypeOK
    <3> QED
      BY <2>2, <3>1 DEF Worker
  <2> HIDE DEF v1, v2
  <2>7. wk' \in [Workers -> Worker] /\ PointersOK'
    <3>1. CASE Goes(w, v1(x))
      BY <3>1, <2>4, <2>5, WorkerMoves DEF PointersOK
    <3>2. CASE Goes(w, v2(x)) /\ runs' = Append(runs, NewRun(x, "claimed", wk[w].at))
      <4>1. Len(runs) + 1 \in DOMAIN runs'
        BY <3>2, <2>3 DEF TypeOK
      <4> QED
        BY <3>2, <4>1, <2>4, <2>6, WorkerMoves DEF PointersOK
    <3> QED
      BY <2>1, <3>1, <3>2
  <2> QED
    BY <1>21, <2>4, <2>7 DEF ClaimWrite, TypeOK
<1>22. ASSUME NEW w \in Workers, MissWrite(w) PROVE TInv'
  <2> DEFINE t(x) == AdvanceTarget(x[2], Cardinality(RunsOf(x[2])) + 1, wk[w].at)
             v(x) == [wk[w] EXCEPT !.pc = "due", !.due = @ \ {x}]
  <2>1. PICK x \in wk[w].due :
          /\ Goes(w, v(x))
          /\ \/ UNCHANGED <<runs, defs>>
             \/ /\ MatchesDue(x[2], x[1])
                /\ runs' = Append(runs, NewRun(x, "missed", wk[w].at))
                /\ defs' = [defs EXCEPT ![x[2]] = Advanced(@, t(x))]
    BY <1>22 DEF MissWrite
  <2>2. wk[w] \in Worker
    BY DEF TypeOK
  <2>3. x[2] \in Automations /\ wk[w].at \in Times
    BY <2>2 DEF Worker
  <2>4. NewRun(x, "missed", wk[w].at) \in Run
    BY <2>2 DEF Worker, NewRun, Run
  <2>5. runs' \in Seq(Run) /\ DOMAIN runs \subseteq DOMAIN runs'
    <3>1. runs' = runs \/ runs' = Append(runs, NewRun(x, "missed", wk[w].at))
      BY <2>1
    <3>2. runs \in Seq(Run)
      BY DEF TypeOK
    <3> QED
      BY ONLY <3>1, <3>2, <2>4, AppendType
  <2>6. t(x) \in Nat \cup {NoDue}
    BY <2>3, TargetType
  <2> HIDE DEF t
  <2>7. defs' \in [Automations -> Definition \cup {NoDefinition}]
    <3>1. CASE UNCHANGED defs
      BY <3>1 DEF TypeOK
    <3>2. CASE MatchesDue(x[2], x[1]) /\ defs' = [defs EXCEPT ![x[2]] = Advanced(@, t(x))]
      <4>1. defs[x[2]] \in Definition /\ defs[x[2]].status = "approved"
        BY <2>3, <3>2 DEF MatchesDue, TypeOK, NoDefinition
      <4>2. Advanced(defs[x[2]], t(x)) \in Definition
        BY <4>1, <2>6, AdvancedType
      <4> QED
        BY <3>2, <4>2 DEF TypeOK
    <3> QED
      BY <2>1, <3>1, <3>2
  <2>8. v(x) \in Worker /\ v(x).pc = "due" /\ v(x).stale = wk[w].stale
    BY <2>2 DEF Worker
  <2> HIDE DEF v
  <2>9. wk' \in [Workers -> Worker] /\ PointersOK'
    BY <2>1, <2>5, <2>8, WorkerMoves DEF PointersOK
  <2> QED
    BY <1>22, <2>5, <2>7, <2>9 DEF MissWrite, TypeOK
<1> QED
  BY <1>1, <1>2, <1>3, <1>4, <1>5, <1>6, <1>7, <1>8, <1>9, <1>10, <1>11, <1>12,
     <1>13, <1>14, <1>15, <1>16, <1>17, <1>18, <1>19, <1>20, <1>21, <1>22
  DEF Next, Owner, WorkerStep

\* The tables and every thread's locals keep their shape: an approved or
\* cancelled automation always has a due slot and no other one has.
THEOREM TypeCorrect == Spec => []TypeOK
<1>1. TInv => TypeOK
  BY DEF TInv
<1> QED
  BY TypeInit, TypeStep, <1>1, PTL DEF Spec

-----------------------------------------------------------------------------
(* The grant and the schedule.                                              *)

Outstanding(a) == defs[a].status \in {"approved", "cancelled"}

\* One run per automation and slot, never before the slot.
RowsOK ==
    /\ \A i, j \in DOMAIN runs :
          runs[i].automation = runs[j].automation /\ runs[i].due = runs[j].due => i = j
    /\ \A i \in DOMAIN runs : runs[i].due <= runs[i].claimedAt

\* Runs are only made for what was approved, and while the next slot of an
\* approved or cancelled automation has no run there is still one to grant.
GrantOK ==
    \A a \in Automations :
        /\ defs[a].status \in {"none", "pending", "denied"} => RunsOf(a) = {}
        /\ \A d \in Nat :
              Outstanding(a) /\ defs[a].nextDue = d /\ ~SlotTaken(a, d)
                 => Cardinality(RunsOf(a)) < defs[a].content.maxRuns

\* A slot about to be claimed is the next one, perhaps of an automation
\* cancelled since, or has been claimed since.
ClaimIsNext(w) ==
    wk[w].pc = "claim_write" =>
        \A x \in wk[w].due :
            IsNext(x, wk[w].due) =>
                SlotTaken(x[2], x[1]) \/ (Outstanding(x[2]) /\ defs[x[2]].nextDue = x[1])

\* A settlement about to be written moves the schedule forward and, if it can
\* still be written, leaves a run to grant.
SettlementIsReady(w) ==
    (wk[w].pc \in {"recover_write", "deliver_write"} /\ wk[w].target # NoDue) =>
        \A a \in Automations, d \in Times :
           runs[wk[w].run].automation = a /\ runs[wk[w].run].due = d =>
              /\ wk[w].target > d
              /\ MatchesDue(a, d)
                    => Cardinality(RunsOf(a)) < defs[a].content.maxRuns

\* A tick's rows were due when it began.
RowsWereDue(w) ==
    /\ \A x \in wk[w].due : x[1] <= wk[w].at
    /\ \A x \in wk[w].stale : runs[x[2]].due <= wk[w].at

WorkersOK ==
    \A w \in Workers : ClaimIsNext(w) /\ SettlementIsReady(w) /\ RowsWereDue(w)

GInv == RowsOK /\ GrantOK /\ RunsWithinGrant /\ ScheduleMovesOn /\ WorkersOK

LEMMA RunsFinite ==
    ASSUME TypeOK, NEW a \in Automations
    PROVE  IsFiniteSet(RunsOf(a)) /\ Cardinality(RunsOf(a)) \in Nat
<1>1. runs \in Seq(Run) /\ Len(runs) \in Nat /\ DOMAIN runs = 1..Len(runs)
  BY DEF TypeOK
<1>2. IsFiniteSet(DOMAIN runs)
  BY <1>1, FS_Interval
<1>3. RunsOf(a) \subseteq DOMAIN runs
  BY DEF RunsOf
<1> QED
  BY <1>2, <1>3, FS_Subset, FS_CardinalityType

\* A row that was always there keeps its place.
LEMMA Inserted ==
    ASSUME TypeOK, NEW r \in Run, runs' = Append(runs, r)
    PROVE  LET n == Len(runs) + 1 IN
           /\ n \notin DOMAIN runs /\ DOMAIN runs' = DOMAIN runs \cup {n}
           /\ runs'[n] = r /\ \A i \in DOMAIN runs : runs'[i] = runs[i]
           /\ \A a \in Automations :
                 /\ RunsOf(a)' = IF a = r.automation THEN RunsOf(a) \cup {n} ELSE RunsOf(a)
                 /\ Cardinality(RunsOf(a)') =
                      IF a = r.automation THEN Cardinality(RunsOf(a)) + 1
                                          ELSE Cardinality(RunsOf(a))
           /\ \A a \in Automations, d \in Nat \cup {NoDue} :
                 SlotTaken(a, d)' <=> SlotTaken(a, d) \/ (a = r.automation /\ d = r.due)
<1> DEFINE n == Len(runs) + 1
<1>1. runs \in Seq(Run) /\ Len(runs) \in Nat /\ DOMAIN runs = 1..Len(runs)
  BY DEF TypeOK
<1>2. n \notin DOMAIN runs
  BY <1>1
<1>3. DOMAIN runs' = DOMAIN runs \cup {n}
  BY <1>1
<1>4. runs'[n] = r /\ \A i \in DOMAIN runs : runs'[i] = runs[i]
  BY <1>1
<1> HIDE DEF n
<1>5. ASSUME NEW a \in Automations
      PROVE  RunsOf(a)' = IF a = r.automation THEN RunsOf(a) \cup {n} ELSE RunsOf(a)
  BY <1>2, <1>3, <1>4 DEF RunsOf
<1>6. ASSUME NEW a \in Automations
      PROVE  Cardinality(RunsOf(a)') =
               IF a = r.automation THEN Cardinality(RunsOf(a)) + 1
                                   ELSE Cardinality(RunsOf(a))
  <2>1. n \notin RunsOf(a) /\ IsFiniteSet(RunsOf(a))
    BY <1>2, RunsFinite DEF RunsOf
  <2>2. Cardinality(RunsOf(a) \cup {n}) = Cardinality(RunsOf(a)) + 1
    BY <2>1, FS_AddElement
  <2> QED
    BY <1>5, <2>2
<1>7. ASSUME NEW a \in Automations, NEW d \in Nat \cup {NoDue}
      PROVE  SlotTaken(a, d)' <=> SlotTaken(a, d) \/ (a = r.automation /\ d = r.due)
  BY <1>2, <1>3, <1>4 DEF SlotTaken, RunsOf
<1> QED
  BY <1>2, <1>3, <1>4, <1>5, <1>6, <1>7 DEF n

\* A settled row keeps all but its status.
LEMMA Settled ==
    ASSUME TypeOK, NEW i \in DOMAIN runs, NEW o,
           runs' = [runs EXCEPT ![i] = [@ EXCEPT !.status = o]]
    PROVE  /\ DOMAIN runs' = DOMAIN runs /\ runs'[i].status = o
           /\ \A j \in DOMAIN runs :
                 /\ runs'[j].automation = runs[j].automation /\ runs'[j].due = runs[j].due
                 /\ runs'[j].claimedAt = runs[j].claimedAt
                 /\ j # i => runs'[j] = runs[j]
           /\ \A a \in Automations : RunsOf(a)' = RunsOf(a)
           /\ \A a \in Automations, d \in Nat \cup {NoDue} : SlotTaken(a, d)' <=> SlotTaken(a, d)
<1>1. \A j \in DOMAIN runs : runs[j] \in Run
  BY RowType
<1>2. /\ DOMAIN runs' = DOMAIN runs /\ runs'[i] = [runs[i] EXCEPT !.status = o]
      /\ \A j \in DOMAIN runs : j # i => runs'[j] = runs[j]
  OBVIOUS
<1>3. /\ runs'[i].status = o /\ runs'[i].automation = runs[i].automation
      /\ runs'[i].due = runs[i].due /\ runs'[i].claimedAt = runs[i].claimedAt
  BY <1>1, <1>2 DEF Run
<1>4. \A a \in Automations : RunsOf(a)' = RunsOf(a)
  BY <1>2, <1>3 DEF RunsOf
<1>5. \A a \in Automations, d \in Nat \cup {NoDue} : SlotTaken(a, d)' <=> SlotTaken(a, d)
  BY <1>2, <1>3, <1>4 DEF SlotTaken, RunsOf
<1> QED
  BY <1>2, <1>3, <1>4, <1>5

LEMMA NextUnique ==
    ASSUME NEW S \in SUBSET (Times \X Automations), NEW x, NEW y,
           IsNext(x, S), IsNext(y, S)
    PROVE  x = y
<1>1. x \in S /\ y \in S
  BY DEF IsNext
<1>2. x[1] \in Nat /\ x[2] \in Nat /\ y[1] \in Nat /\ y[2] \in Nat
  <2>1. Times \subseteq Nat /\ Automations \subseteq Nat
    BY Bounds DEF Times
  <2>2. x \in Times \X Automations /\ y \in Times \X Automations
    BY <1>1
  <2> QED
    BY <2>1, <2>2
<1>3. x # y => Before(x, y) /\ Before(y, x)
  BY <1>1 DEF IsNext
<1>4. ~(Before(x, y) /\ Before(y, x))
  BY <1>2 DEF Before
<1> QED
  BY <1>3, <1>4

LEMMA DefinitionType ==
    ASSUME TypeOK, NEW a \in Automations
    PROVE  /\ defs[a] \in Definition \/ defs[a] = NoDefinition
           /\ defs[a].status \in {"none", "pending", "approved", "denied",
                                  "cancelled", "completed"}
           /\ defs[a].status = "none" <=> defs[a] = NoDefinition
           /\ defs[a].status # "none" =>
                 defs[a].content \in Contents /\ defs[a].content.maxRuns \in Nat \ {0}
           /\ Outstanding(a) => defs[a].nextDue \in Nat
<1>1. defs[a] \in Definition \/ defs[a] = NoDefinition
  BY DEF TypeOK
<1> QED
  BY <1>1, ContentsAssumption DEF Definition, NoDefinition, Outstanding

LEMMA GInit == Init => GInv
<1> SUFFICES ASSUME Init PROVE GInv
  OBVIOUS
<1>1. DOMAIN runs = {}
  BY DEF Init
<1>2. \A a \in Automations : RunsOf(a) = {} /\ defs[a] = NoDefinition
  BY <1>1 DEF Init, RunsOf
<1>3. RowsOK
  BY <1>1 DEF RowsOK
<1>4. GrantOK /\ RunsWithinGrant /\ ScheduleMovesOn
  BY <1>2 DEF GrantOK, RunsWithinGrant, ScheduleMovesOn, Outstanding, NoDefinition, WithStatus
<1>5. WorkersOK
  BY DEF Init, WorkersOK, ClaimIsNext, SettlementIsReady, RowsWereDue, IdleWorker
<1> QED
  BY <1>3, <1>4, <1>5 DEF GInv

\* The invariant's part about the tables, and about one worker.
TablesOK == RowsOK /\ GrantOK /\ RunsWithinGrant /\ ScheduleMovesOn

WorkerOK(w) == ClaimIsNext(w) /\ SettlementIsReady(w) /\ RowsWereDue(w)

LEMMA GInvParts == GInv <=> TablesOK /\ \A w \in Workers : WorkerOK(w)
BY DEF GInv, TablesOK, WorkersOK, WorkerOK

\* What is needed of the tables for a worker that does not move.
LEMMA WorkerStays ==
    ASSUME TInv, NEW w \in Workers, WorkerOK(w), wk'[w] = wk[w],
           DOMAIN runs \subseteq DOMAIN runs',
           \A i \in DOMAIN runs : runs'[i].automation = runs[i].automation
                                  /\ runs'[i].due = runs[i].due,
           \A a \in Automations, d \in Times :
              SlotTaken(a, d) \/ (Outstanding(a) /\ defs[a].nextDue = d)
                => SlotTaken(a, d)' \/ (Outstanding(a)' /\ defs'[a].nextDue = d),
           \A a \in Automations, d \in Times :
              SlotTaken(a, d) /\ MatchesDue(a, d)'
                => /\ MatchesDue(a, d)
                   /\ Cardinality(RunsOf(a)') = Cardinality(RunsOf(a))
                   /\ defs'[a].content = defs[a].content
    PROVE  WorkerOK(w)'
<1>1. wk[w] \in Worker /\ wk[w].due \subseteq Times \X Automations
  BY DEF TInv, TypeOK, Worker
<1>2. ClaimIsNext(w)'
  BY <1>1 DEF ClaimIsNext, IsNext, WorkerOK
<1>3. SettlementIsReady(w)'
  <2> SUFFICES ASSUME wk[w].pc \in {"recover_write", "deliver_write"},
                      wk[w].target # NoDue,
                      NEW a \in Automations, NEW d \in Times,
                      runs'[wk[w].run].automation = a, runs'[wk[w].run].due = d
               PROVE  /\ wk[w].target > d
                      /\ MatchesDue(a, d)'
                           => Cardinality(RunsOf(a)') < defs'[a].content.maxRuns
    BY DEF SettlementIsReady
  <2>1. wk[w].run \in DOMAIN runs
    BY DEF TInv, PointersOK
  <2>2. runs[wk[w].run].automation = a /\ runs[wk[w].run].due = d
    BY <2>1
  <2>3. SlotTaken(a, d)
    BY <2>1, <2>2 DEF SlotTaken, RunsOf
  <2>4. /\ wk[w].target > d
        /\ MatchesDue(a, d) => Cardinality(RunsOf(a)) < defs[a].content.maxRuns
    BY <2>2 DEF WorkerOK, SettlementIsReady
  <2> QED
    BY <2>3, <2>4
<1>4. RowsWereDue(w)'
  BY DEF RowsWereDue, WorkerOK, TInv, PointersOK
<1> QED
  BY <1>2, <1>3, <1>4 DEF WorkerOK

LEMMA QuietStep ==
    ASSUME TInv, GInv, UNCHANGED <<defs, runs>>
    PROVE  TablesOK' /\ \A w \in Workers : wk'[w] = wk[w] => WorkerOK(w)'
<1>1. \A a \in Automations : RunsOf(a)' = RunsOf(a)
  BY DEF RunsOf
<1>2. \A a, d : SlotTaken(a, d)' <=> SlotTaken(a, d)
  BY DEF SlotTaken, RunsOf
<1>3. \A a, d : MatchesDue(a, d)' <=> MatchesDue(a, d)
  BY DEF MatchesDue
<1>4. \A a \in Automations : Outstanding(a)' <=> Outstanding(a)
  BY DEF Outstanding
<1>5. RowsOK' /\ GrantOK' /\ RunsWithinGrant' /\ ScheduleMovesOn'
  BY <1>1, <1>2, <1>4 DEF GInv, RowsOK, GrantOK, RunsWithinGrant, ScheduleMovesOn, WithStatus
<1>6. ASSUME NEW w \in Workers, wk'[w] = wk[w] PROVE WorkerOK(w)'
  BY <1>1, <1>2, <1>3, <1>4, <1>6, RowType, GInvParts, WorkerStays DEF TInv
<1> QED
  BY <1>5, <1>6 DEF TablesOK

\* A proposal, an approval or a denial: the automation has no run yet.
LEMMA FreshStep ==
    ASSUME TInv, GInv, NEW a \in Automations, RunsOf(a) = {}, ~Outstanding(a),
           NEW d \in Definition, defs' = [defs EXCEPT ![a] = d],
           runs' = runs, wk' = wk
    PROVE  GInv'
<1>1. /\ \A b \in Automations : RunsOf(b)' = RunsOf(b)
      /\ \A b, s : SlotTaken(b, s)' <=> SlotTaken(b, s)
  BY DEF RunsOf, SlotTaken
<1>2. defs'[a] = d /\ \A b \in Automations : b # a => defs'[b] = defs[b]
  BY DEF TInv, TypeOK
<1>3. d.content.maxRuns \in Nat \ {0} /\ Cardinality(RunsOf(a)) = 0
  BY ContentsAssumption, FS_EmptySet DEF Definition
<1>4. RowsOK'
  BY DEF GInv, RowsOK
<1>5. GrantOK'
  <2> SUFFICES ASSUME NEW b \in Automations, NEW s \in Nat
               PROVE  /\ defs'[b].status \in {"none", "pending", "denied"} => RunsOf(b)' = {}
                      /\ Outstanding(b)' /\ defs'[b].nextDue = s /\ ~SlotTaken(b, s)'
                            => Cardinality(RunsOf(b)') < defs'[b].content.maxRuns
    BY DEF GrantOK
  <2>1. CASE b = a
    BY <2>1, <1>1, <1>2, <1>3
  <2>2. CASE b # a
    BY <2>2, <1>1, <1>2 DEF GInv, GrantOK, Outstanding
  <2> QED
    BY <2>1, <2>2
<1>6. RunsWithinGrant'
  BY <1>1, <1>2, <1>3 DEF GInv, RunsWithinGrant
<1>7. ScheduleMovesOn'
  BY <1>1, <1>2 DEF GInv, ScheduleMovesOn, WithStatus
<1>8. \A s : ~SlotTaken(a, s)
  BY DEF SlotTaken
<1>9. ASSUME NEW w \in Workers PROVE WorkerOK(w)'
  <2>1. WorkerOK(w)
    BY GInvParts
  <2>2. \A b \in Automations, s \in Times :
           SlotTaken(b, s) \/ (Outstanding(b) /\ defs[b].nextDue = s)
             => SlotTaken(b, s)' \/ (Outstanding(b)' /\ defs'[b].nextDue = s)
    BY <1>1, <1>2, <1>8 DEF Outstanding
  <2>3. \A b \in Automations, s \in Times :
           SlotTaken(b, s) /\ MatchesDue(b, s)'
             => /\ MatchesDue(b, s)
                /\ Cardinality(RunsOf(b)') = Cardinality(RunsOf(b))
                /\ defs'[b].content = defs[b].content
    BY <1>1, <1>2, <1>8 DEF MatchesDue
  <2> QED
    BY <2>1, <2>2, <2>3, WorkerStays
<1> QED
  BY <1>4, <1>5, <1>6, <1>7, <1>9 DEF GInv, WorkersOK, WorkerOK

LEMMA CancelStep ==
    ASSUME TInv, GInv, NEW a \in Automations, defs[a].status = "approved",
           defs' = [defs EXCEPT ![a] = [@ EXCEPT !.status = "cancelled"]],
           runs' = runs, wk' = wk
    PROVE  GInv'
<1>1. /\ \A b \in Automations : RunsOf(b)' = RunsOf(b)
      /\ \A b, s : SlotTaken(b, s)' <=> SlotTaken(b, s)
  BY DEF RunsOf, SlotTaken
<1>2. /\ defs'[a] = [defs[a] EXCEPT !.status = "cancelled"]
      /\ \A b \in Automations : b # a => defs'[b] = defs[b]
  BY DEF TInv, TypeOK
<1>3. defs[a] \in Definition /\ defs[a] # NoDefinition
  BY DefinitionType DEF TInv, NoDefinition
<1>4. /\ defs'[a].status = "cancelled" /\ defs'[a].nextDue = defs[a].nextDue
      /\ defs'[a].content = defs[a].content
  BY <1>2, <1>3 DEF Definition
<1>5. \A b \in Automations : Outstanding(b)' <=> Outstanding(b)
  BY <1>2, <1>4 DEF Outstanding
<1>6. \A b \in Automations : defs'[b].nextDue = defs[b].nextDue
                             /\ defs'[b].content = defs[b].content
  BY <1>2, <1>4
<1>7. RowsOK'
  BY DEF GInv, RowsOK
<1>8. GrantOK'
  <2> SUFFICES ASSUME NEW b \in Automations, NEW s \in Nat
               PROVE  /\ defs'[b].status \in {"none", "pending", "denied"} => RunsOf(b)' = {}
                      /\ Outstanding(b)' /\ defs'[b].nextDue = s /\ ~SlotTaken(b, s)'
                            => Cardinality(RunsOf(b)') < defs'[b].content.maxRuns
    BY DEF GrantOK
  <2> QED
    BY <1>1, <1>2, <1>4, <1>5, <1>6 DEF GInv, GrantOK
<1>9. RunsWithinGrant'
  BY <1>1, <1>2, <1>3, <1>6 DEF GInv, RunsWithinGrant
<1>10. ScheduleMovesOn'
  BY <1>1, <1>2, <1>4 DEF GInv, ScheduleMovesOn, WithStatus
<1>11. ASSUME NEW w \in Workers PROVE WorkerOK(w)'
  <2>1. WorkerOK(w)
    BY GInvParts
  <2>2. \A b \in Automations, s \in Times :
           SlotTaken(b, s) /\ MatchesDue(b, s)'
             => /\ MatchesDue(b, s)
                /\ Cardinality(RunsOf(b)') = Cardinality(RunsOf(b))
                /\ defs'[b].content = defs[b].content
    BY <1>1, <1>2, <1>4 DEF MatchesDue
  <2> QED
    BY <1>1, <1>5, <1>6, <2>1, <2>2, WorkerStays
<1> QED
  BY <1>7, <1>8, <1>9, <1>10, <1>11 DEF GInv, WorkersOK, WorkerOK

\* The claim's INSERT: the slot is free, so there is a run to grant.
LEMMA ClaimStep ==
    ASSUME TInv, GInv, NEW a \in Automations, NEW d \in Times, NEW t \in Times,
           d <= t, ~SlotTaken(a, d), Outstanding(a), defs[a].nextDue = d,
           NEW r \in Run,
           r = [automation |-> a, due |-> d, claimedAt |-> t, status |-> "claimed"],
           runs' = Append(runs, r), defs' = defs
    PROVE  TablesOK' /\ \A w \in Workers : wk'[w] = wk[w] => WorkerOK(w)'
<1> DEFINE n == Len(runs) + 1
<1>0. /\ n \notin DOMAIN runs /\ DOMAIN runs' = DOMAIN runs \cup {n}
      /\ runs'[n] = r /\ \A i \in DOMAIN runs : runs'[i] = runs[i]
  BY Inserted DEF TInv
<1>1. r.automation = a /\ r.due = d /\ r.claimedAt = t /\ r.status = "claimed"
  OBVIOUS
<1>2. \A b \in Automations :
         /\ RunsOf(b)' = IF b = a THEN RunsOf(b) \cup {n} ELSE RunsOf(b)
         /\ Cardinality(RunsOf(b)') =
               IF b = a THEN Cardinality(RunsOf(b)) + 1 ELSE Cardinality(RunsOf(b))
  BY <1>1, Inserted DEF TInv
<1>3. \A b \in Automations, s \in Nat \cup {NoDue} :
         SlotTaken(b, s)' <=> SlotTaken(b, s) \/ (b = a /\ s = d)
  BY <1>1, Inserted DEF TInv
<1> HIDE DEF n
<1>4. \A b \in Automations : Outstanding(b)' <=> Outstanding(b)
  BY DEF Outstanding
<1>5. d \in Nat /\ \A s \in Times : s \in Nat \cup {NoDue}
  BY Bounds DEF Times
<1>6. \A i \in DOMAIN runs : runs[i].automation = a => runs[i].due # d
  BY DEF SlotTaken, RunsOf
<1>7. RowsOK'
  BY <1>0, <1>1, <1>6 DEF GInv, RowsOK
<1>8. GrantOK'
  <2> SUFFICES ASSUME NEW b \in Automations, NEW s \in Nat
               PROVE  /\ defs[b].status \in {"none", "pending", "denied"} => RunsOf(b)' = {}
                      /\ Outstanding(b) /\ defs[b].nextDue = s /\ ~SlotTaken(b, s)'
                            => Cardinality(RunsOf(b)') < defs[b].content.maxRuns
    BY <1>4 DEF GrantOK
  <2>1. CASE b = a
    BY <2>1, <1>3, <1>5 DEF Outstanding
  <2>2. CASE b # a
    BY <2>2, <1>2, <1>3, DefinitionType DEF GInv, GrantOK, TInv
  <2> QED
    BY <2>1, <2>2
<1>9. RunsWithinGrant'
  <2>1. Cardinality(RunsOf(a)) < defs[a].content.maxRuns
    BY <1>5 DEF GInv, GrantOK
  <2>2. Cardinality(RunsOf(a)) \in Nat /\ defs[a].content.maxRuns \in Nat
    BY RunsFinite, DefinitionType DEF TInv, Outstanding
  <2>3. Cardinality(RunsOf(a)) + 1 <= defs[a].content.maxRuns
    BY <2>1, <2>2
  <2> QED
    BY <1>2, <2>3 DEF GInv, RunsWithinGrant
<1>10. ScheduleMovesOn'
  BY <1>0, <1>1, <1>2 DEF GInv, ScheduleMovesOn, WithStatus, RunsOf
<1>11. ASSUME NEW w \in Workers, wk'[w] = wk[w] PROVE WorkerOK(w)'
  <2>1. WorkerOK(w)
    BY GInvParts
  <2>2. \A b \in Automations, s \in Times :
           SlotTaken(b, s) /\ MatchesDue(b, s)'
             => /\ MatchesDue(b, s)
                /\ Cardinality(RunsOf(b)') = Cardinality(RunsOf(b))
                /\ defs'[b].content = defs[b].content
    BY <1>2 DEF MatchesDue
  <2> QED
    BY <1>0, <1>3, <1>4, <1>5, <1>11, <2>1, <2>2, WorkerStays
<1> QED
  BY <1>7, <1>8, <1>9, <1>10, <1>11 DEF TablesOK

\* A missed slot: the new row and the new next slot in one transaction.
LEMMA MissStep ==
    ASSUME TInv, GInv, NEW a \in Automations, NEW d \in Times, NEW t \in Times,
           d <= t, ~SlotTaken(a, d), MatchesDue(a, d),
           NEW r \in Run,
           r = [automation |-> a, due |-> d, claimedAt |-> t, status |-> "missed"],
           runs' = Append(runs, r),
           defs' = [defs EXCEPT ![a] =
                      Advanced(@, AdvanceTarget(a, Cardinality(RunsOf(a)) + 1, t))]
    PROVE  TablesOK' /\ \A w \in Workers : wk'[w] = wk[w] => WorkerOK(w)'
<1> DEFINE n == Len(runs) + 1
           next == AdvanceTarget(a, Cardinality(RunsOf(a)) + 1, t)
<1>0. /\ n \notin DOMAIN runs /\ DOMAIN runs' = DOMAIN runs \cup {n}
      /\ runs'[n] = r /\ \A i \in DOMAIN runs : runs'[i] = runs[i]
  BY Inserted DEF TInv
<1>1. r.automation = a /\ r.due = d /\ r.claimedAt = t /\ r.status = "missed"
  OBVIOUS
<1>2. \A b \in Automations :
         /\ RunsOf(b)' = IF b = a THEN RunsOf(b) \cup {n} ELSE RunsOf(b)
         /\ Cardinality(RunsOf(b)') =
               IF b = a THEN Cardinality(RunsOf(b)) + 1 ELSE Cardinality(RunsOf(b))
  BY <1>1, Inserted DEF TInv
<1>3. \A b \in Automations, s \in Nat \cup {NoDue} :
         SlotTaken(b, s)' <=> SlotTaken(b, s) \/ (b = a /\ s = d)
  BY <1>1, Inserted DEF TInv
<1> HIDE DEF n
<1>4. d \in Nat /\ t \in Nat /\ \A s \in Times : s \in Nat \cup {NoDue}
  BY Bounds DEF Times
<1>5. defs[a] \in Definition /\ defs[a].status = "approved" /\ defs[a].nextDue = d
  BY DefinitionType DEF TInv, MatchesDue, NoDefinition
<1>6. /\ next \in Nat \cup {NoDue}
      /\ next # NoDue => /\ next > t
                         /\ Cardinality(RunsOf(a)) + 1 < defs[a].content.maxRuns
  <2>1. NextDaily[t] > t /\ NextDaily[t] \in Nat
    BY NextDailyAssumption
  <2>2. Cardinality(RunsOf(a)) \in Nat /\ defs[a].content.maxRuns \in Nat
    BY RunsFinite, DefinitionType, <1>5 DEF TInv
  <2> QED
    BY <2>1, <2>2 DEF AdvanceTarget, Completes
<1>7. /\ defs'[a] = Advanced(defs[a], next)
      /\ \A b \in Automations : b # a => defs'[b] = defs[b]
  BY DEF TInv, TypeOK
<1> HIDE DEF next
<1>8. /\ defs'[a].content = defs[a].content /\ defs'[a].nextDue = next
      /\ next = NoDue => defs'[a].status = "completed"
      /\ next # NoDue => defs'[a].status = "approved"
  BY <1>5, <1>6, <1>7, AdvancedFields
<1>9. \A i \in DOMAIN runs : runs[i].automation = a => runs[i].due < d
  BY <1>5 DEF GInv, ScheduleMovesOn, WithStatus, RunsOf, SlotTaken
<1>10. RowsOK'
  <2>1. \A i \in DOMAIN runs : runs[i].automation = a => runs[i].due # d
    BY DEF SlotTaken, RunsOf
  <2> QED
    BY <1>0, <1>1, <2>1 DEF GInv, RowsOK
<1>11. GrantOK'
  <2> SUFFICES ASSUME NEW b \in Automations, NEW s \in Nat
               PROVE  /\ defs'[b].status \in {"none", "pending", "denied"} => RunsOf(b)' = {}
                      /\ Outstanding(b)' /\ defs'[b].nextDue = s /\ ~SlotTaken(b, s)'
                            => Cardinality(RunsOf(b)') < defs'[b].content.maxRuns
    BY DEF GrantOK
  <2>1. CASE b = a
    BY <2>1, <1>2, <1>6, <1>8 DEF Outstanding
  <2>2. CASE b # a
    BY <2>2, <1>2, <1>3, <1>7, DefinitionType DEF GInv, GrantOK, TInv, Outstanding
  <2> QED
    BY <2>1, <2>2
<1>12. RunsWithinGrant'
  <2>1. Cardinality(RunsOf(a)) < defs[a].content.maxRuns
    BY <1>4, <1>5 DEF GInv, GrantOK, Outstanding
  <2>2. Cardinality(RunsOf(a)) \in Nat /\ defs[a].content.maxRuns \in Nat
    BY RunsFinite, DefinitionType, <1>5 DEF TInv
  <2>3. Cardinality(RunsOf(a)) + 1 <= defs[a].content.maxRuns
    BY <2>1, <2>2
  <2> QED
    BY <1>2, <1>7, <1>8, <2>3 DEF GInv, RunsWithinGrant
<1>13. ScheduleMovesOn'
  <2> SUFFICES ASSUME NEW b \in Automations, defs'[b].status = "approved",
                      NEW i \in RunsOf(b)'
               PROVE  \/ runs'[i].due < defs'[b].nextDue
                      \/ runs'[i].due = defs'[b].nextDue /\ runs'[i].status = "claimed"
    BY DEF ScheduleMovesOn, WithStatus
  <2>1. CASE b = a
    <3>1. next # NoDue /\ next \in Nat /\ next > t
      BY <2>1, <1>6, <1>8
    <3>2. CASE i = n
      BY <2>1, <3>1, <3>2, <1>0, <1>1, <1>4, <1>8
    <3>3. CASE i # n
      <4>1. i \in RunsOf(a) /\ i \in DOMAIN runs /\ runs[i].automation = a
        <5>1. i \in RunsOf(a)
          BY <2>1, <3>3, <1>2
        <5> QED
          BY <5>1 DEF RunsOf
      <4>2. runs[i].due < d /\ runs[i].due \in Nat
        BY <4>1, <1>9, RowType, Bounds DEF TInv, Times
      <4> QED
        BY <2>1, <3>1, <4>1, <4>2, <1>0, <1>4, <1>8
    <3> QED
      BY <3>2, <3>3
  <2>2. CASE b # a
    BY <2>2, <1>0, <1>2, <1>7 DEF GInv, ScheduleMovesOn, WithStatus, RunsOf
  <2> QED
    BY <2>1, <2>2
<1>14. ASSUME NEW w \in Workers, wk'[w] = wk[w] PROVE WorkerOK(w)'
  <2>1. WorkerOK(w)
    BY GInvParts
  <2>2. \A b \in Automations, s \in Times :
           SlotTaken(b, s) \/ (Outstanding(b) /\ defs[b].nextDue = s)
             => SlotTaken(b, s)' \/ (Outstanding(b)' /\ defs'[b].nextDue = s)
    BY <1>3, <1>4, <1>5, <1>7 DEF Outstanding
  <2>3. ASSUME NEW b \in Automations, NEW s \in Times, SlotTaken(b, s), MatchesDue(b, s)'
        PROVE  /\ MatchesDue(b, s)
               /\ Cardinality(RunsOf(b)') = Cardinality(RunsOf(b))
               /\ defs'[b].content = defs[b].content
    <3>1. CASE b = a
      <4>1. s = next /\ s \in Nat
        BY <2>3, <3>1, <1>4, <1>8, Bounds DEF MatchesDue, Times
      <4>2. s < d
        BY <2>3, <3>1, <1>9 DEF SlotTaken, RunsOf
      <4>3. s > t
        BY <4>1, <1>6 DEF NoDue
      <4> QED
        BY <4>1, <4>2, <4>3, <1>4
    <3>2. CASE b # a
      BY <2>3, <3>2, <1>2, <1>7 DEF MatchesDue
    <3> QED
      BY <3>1, <3>2
  <2> QED
    BY <1>0, <1>14, <2>1, <2>2, <2>3, WorkerStays
<1> QED
  BY <1>10, <1>11, <1>12, <1>13, <1>14 DEF TablesOK

\* A delivery's or a recovery's transaction: both rows, or neither.
LEMMA SettleStep ==
    ASSUME TInv, GInv, NEW i \in DOMAIN runs, NEW o, NEW t \in Nat \cup {NoDue},
           NEW a \in Automations, NEW d \in Times,
           runs[i].automation = a, runs[i].due = d,
           t # NoDue => /\ t > d
                        /\ MatchesDue(a, d)
                              => Cardinality(RunsOf(a)) < defs[a].content.maxRuns,
           SettleClaim(i, o, t)
    PROVE  TablesOK' /\ \A w \in Workers : wk'[w] = wk[w] => WorkerOK(w)'
<1>1. CASE ~(runs[i].status = "claimed" /\ MatchesDue(a, d))
  BY <1>1, QuietStep DEF SettleClaim
<1>2. CASE runs[i].status = "claimed" /\ MatchesDue(a, d)
  <2>1. /\ runs' = [runs EXCEPT ![i] = [@ EXCEPT !.status = o]]
        /\ defs' = [defs EXCEPT ![a] = Advanced(@, t)]
    BY <1>2 DEF SettleClaim
  <2>2. /\ DOMAIN runs' = DOMAIN runs /\ runs'[i].status = o
        /\ \A j \in DOMAIN runs :
              /\ runs'[j].automation = runs[j].automation /\ runs'[j].due = runs[j].due
              /\ runs'[j].claimedAt = runs[j].claimedAt
              /\ j # i => runs'[j] = runs[j]
        /\ \A b \in Automations : RunsOf(b)' = RunsOf(b)
        /\ \A b \in Automations, s \in Nat \cup {NoDue} : SlotTaken(b, s)' <=> SlotTaken(b, s)
    BY <2>1, Settled DEF TInv
  <2>3. defs[a] \in Definition /\ defs[a].status = "approved" /\ defs[a].nextDue = d
    BY <1>2, DefinitionType DEF TInv, MatchesDue, NoDefinition
  <2>4. /\ defs'[a] = Advanced(defs[a], t)
        /\ \A b \in Automations : b # a => defs'[b] = defs[b]
    BY <2>1 DEF TInv, TypeOK
  <2>5. /\ defs'[a].content = defs[a].content /\ defs'[a].nextDue = t
        /\ t = NoDue => defs'[a].status = "completed"
        /\ t # NoDue => defs'[a].status = "approved"
    BY <2>3, <2>4, AdvancedFields
  <2>6. d \in Nat /\ \A s \in Times : s \in Nat \cup {NoDue}
    BY Bounds DEF Times
  <2>7. i \in RunsOf(a) /\ SlotTaken(a, d)
    BY DEF RunsOf, SlotTaken
  <2>8. \A j \in RunsOf(a) : j # i => runs[j].due < d
    BY <2>3 DEF GInv, ScheduleMovesOn, RowsOK, RunsOf, WithStatus
  <2>9. RowsOK'
    BY <2>2 DEF GInv, RowsOK
  <2>10. GrantOK'
    <3> SUFFICES ASSUME NEW b \in Automations, NEW s \in Nat
                 PROVE  /\ defs'[b].status \in {"none", "pending", "denied"} => RunsOf(b)' = {}
                        /\ Outstanding(b)' /\ defs'[b].nextDue = s /\ ~SlotTaken(b, s)'
                              => Cardinality(RunsOf(b)') < defs'[b].content.maxRuns
      BY DEF GrantOK
    <3>1. CASE b = a
      BY <3>1, <1>2, <2>2, <2>5 DEF Outstanding
    <3>2. CASE b # a
      BY <3>2, <2>2, <2>4 DEF GInv, GrantOK, Outstanding
    <3> QED
      BY <3>1, <3>2
  <2>11. RunsWithinGrant'
    <3>1. defs[a] # NoDefinition
      BY <2>3 DEF Definition, NoDefinition
    <3> QED
      BY <3>1, <2>2, <2>4, <2>5 DEF GInv, RunsWithinGrant
  <2>12. ScheduleMovesOn'
    <3> SUFFICES ASSUME NEW b \in Automations, defs'[b].status = "approved",
                        NEW j \in RunsOf(b)'
                 PROVE  \/ runs'[j].due < defs'[b].nextDue
                        \/ runs'[j].due = defs'[b].nextDue /\ runs'[j].status = "claimed"
      BY DEF ScheduleMovesOn, WithStatus
    <3>0. j \in RunsOf(b) /\ j \in DOMAIN runs /\ runs[j].automation = b
      <4>1. j \in RunsOf(b)
        BY <2>2
      <4> QED
        BY <4>1 DEF RunsOf
    <3>1. CASE b = a
      <4>1. t \in Nat /\ t > d /\ defs'[b].nextDue = t
        BY <3>1, <2>5
      <4>2. runs[j].due <= d /\ runs[j].due \in Nat
        BY <3>0, <3>1, <2>6, <2>8, RowType, Bounds DEF TInv, Times
      <4> QED
        BY <4>1, <4>2, <3>0, <2>2, <2>6
    <3>2. CASE b # a
      <4>1. j # i
        BY <3>0, <3>2
      <4> QED
        BY <3>0, <3>2, <4>1, <2>2, <2>4 DEF GInv, ScheduleMovesOn, WithStatus
    <3> QED
      BY <3>1, <3>2
  <2>13. ASSUME NEW w \in Workers, wk'[w] = wk[w] PROVE WorkerOK(w)'
    <3>1. WorkerOK(w)
      BY GInvParts
    <3>2. \A b \in Automations, s \in Times :
             SlotTaken(b, s) \/ (Outstanding(b) /\ defs[b].nextDue = s)
               => SlotTaken(b, s)' \/ (Outstanding(b)' /\ defs'[b].nextDue = s)
      BY <2>2, <2>3, <2>4, <2>6, <2>7 DEF Outstanding
    <3>3. ASSUME NEW b \in Automations, NEW s \in Times, SlotTaken(b, s), MatchesDue(b, s)'
          PROVE  /\ MatchesDue(b, s)
                 /\ Cardinality(RunsOf(b)') = Cardinality(RunsOf(b))
                 /\ defs'[b].content = defs[b].content
      <4>1. CASE b = a
        <5>1. s = t /\ s \in Nat /\ s # NoDue
          BY <3>3, <4>1, <2>5, Bounds DEF MatchesDue, Times, NoDue
        <5>2. s <= d
          <6>1. PICK j \in RunsOf(a) : runs[j].due = s
            BY <3>3, <4>1 DEF SlotTaken
          <6>2. CASE j = i
            BY <6>1, <6>2, <2>6
          <6>3. CASE j # i
            BY <5>1, <6>1, <6>3, <2>6, <2>8
          <6> QED
            BY <6>2, <6>3
        <5> QED
          BY <5>1, <5>2, <2>6
      <4>2. CASE b # a
        BY <3>3, <4>2, <2>2, <2>4 DEF MatchesDue
      <4> QED
        BY <4>1, <4>2
    <3> QED
      BY <2>2, <2>6, <2>13, <3>1, <3>2, <3>3, WorkerStays
  <2> QED
    BY <2>9, <2>10, <2>11, <2>12, <2>13 DEF TablesOK
<1> QED
  BY <1>1, <1>2

\* Every worker but w stays, and w's new locals are as they should be.
LEMMA WorkerGoes ==
    ASSUME TInv, GInv, NEW w \in Workers, NEW v, Goes(w, v), TablesOK',
           \A u \in Workers : wk'[u] = wk[u] => WorkerOK(u)',
           wk'[w] = v => WorkerOK(w)'
    PROVE  GInv'
<1>1. wk'[w] = v /\ \A u \in Workers : u # w => wk'[u] = wk[u]
  BY DEF Goes, TInv, TypeOK
<1>2. \A u \in Workers : WorkerOK(u)'
  BY <1>1
<1> QED
  BY <1>2 DEF GInv, TablesOK, WorkersOK, WorkerOK

\* A worker at none of the writes only has its rows to show.
LEMMA WorkerReads ==
    ASSUME NEW w \in Workers, NEW v, wk'[w] = v,
           v.pc \notin {"claim_write", "recover_write", "deliver_write"},
           \A x \in v.due : x[1] <= v.at,
           \A x \in v.stale : runs'[x[2]].due <= v.at
    PROVE  WorkerOK(w)'
BY DEF WorkerOK, ClaimIsNext, SettlementIsReady, RowsWereDue

LEMMA GStep == TInv /\ TInv' /\ GInv /\ [Next]_vars => GInv'
<1> SUFFICES ASSUME TInv, TInv', GInv, [Next]_vars PROVE GInv'
  OBVIOUS
<1>1. ASSUME UNCHANGED <<defs, runs, wk>> PROVE GInv'
  BY <1>1, QuietStep, GInvParts DEF GInv, TablesOK, WorkersOK, WorkerOK
<1>2. ASSUME NEW q \in Requests, NEW a \in Automations, ProposeCommit(q, a) PROVE GInv'
  <2>1. defs[a] = NoDefinition /\ RunsOf(a) = {} /\ ~Outstanding(a)
    BY <1>2, DefinitionType DEF ProposeCommit, GInv, GrantOK, TInv, Outstanding
  <2>2. req[q] \in [op : {"propose"}, content : Contents, at : Times]
    BY <1>2 DEF ProposeCommit, TInv, TypeOK, Request, NoRequest
  <2> DEFINE d == [status |-> "pending", content |-> req[q].content,
                   expiresAt |-> req[q].at + ApprovalTTL, nextDue |-> NoDue]
  <2>3. d \in Definition
    BY <2>2, Bounds DEF Definition, Times
  <2>4. defs' = [defs EXCEPT ![a] = d] /\ runs' = runs /\ wk' = wk
    BY <1>2 DEF ProposeCommit
  <2> HIDE DEF d
  <2> QED
    BY <2>1, <2>3, <2>4, FreshStep
<1>3. ASSUME NEW q \in Requests, ApproveCommit(q) PROVE GInv'
  <2> DEFINE a == req[q].automation
             d == [defs[a] EXCEPT !.status = "approved", !.nextDue = req[q].firstDue]
  <2>1. req[q] \in [op : {"approve"}, automation : Automations, firstDue : Nat]
    BY <1>3 DEF ApproveCommit, TInv, TypeOK, Request, NoRequest
  <2>2. a \in Automations /\ runs' = runs /\ wk' = wk
    BY <1>3, <2>1 DEF ApproveCommit
  <2>3. CASE defs[a].status = "pending"
    <3>1. RunsOf(a) = {} /\ ~Outstanding(a)
      BY <2>2, <2>3 DEF GInv, GrantOK, Outstanding
    <3>2. defs' = [defs EXCEPT ![a] = d]
      BY <1>3, <2>3 DEF ApproveCommit
    <3>3. defs'[a] = d
      BY <2>2, <3>2 DEF TInv, TypeOK
    <3>4. d \in Definition
      <4>1. defs[a] \in [status : {"pending", "denied", "completed"},
                content : Contents, expiresAt : Nat, nextDue : {NoDue}]
        BY <2>1, <2>3 DEF TInv, TypeOK, Definition, NoDefinition
      <4>2. d \in [status : {"approved", "cancelled"},
                   content : Contents, expiresAt : Nat, nextDue : Nat]
        BY <2>1, <4>1
      <4> QED
        BY <4>2 DEF Definition
    <3> HIDE DEF d, a
    <3> QED
      BY <2>2, <3>1, <3>2, <3>4, FreshStep
  <2>4. CASE defs[a].status # "pending"
    BY <1>1, <1>3, <2>4 DEF ApproveCommit
  <2> QED
    BY <2>3, <2>4
<1>4. ASSUME NEW q \in Requests, DenyCommit(q) PROVE GInv'
  <2> DEFINE a == req[q].automation
             d == [defs[a] EXCEPT !.status = "denied"]
  <2>1. req[q] \in [op : {"deny", "cancel"}, automation : Automations]
    BY <1>4 DEF DenyCommit, TerminateCommit, TInv, TypeOK, Request, NoRequest
  <2>2. a \in Automations /\ runs' = runs /\ wk' = wk
    BY <1>4, <2>1 DEF DenyCommit, TerminateCommit
  <2>3. CASE defs[a].status = "pending"
    <3>1. RunsOf(a) = {} /\ ~Outstanding(a)
      BY <2>2, <2>3 DEF GInv, GrantOK, Outstanding
    <3>3. defs' = [defs EXCEPT ![a] = d]
      BY <1>4, <2>3 DEF DenyCommit, TerminateCommit
    <3>4. d \in Definition
      <4>1. defs[a] \in [status : {"pending", "denied", "completed"},
                content : Contents, expiresAt : Nat, nextDue : {NoDue}]
        BY <2>1, <2>3 DEF TInv, TypeOK, Definition, NoDefinition
      <4>2. d \in [status : {"pending", "denied", "completed"},
                   content : Contents, expiresAt : Nat, nextDue : {NoDue}]
        BY <4>1
      <4> QED
        BY <4>2 DEF Definition
    <3> HIDE DEF d, a
    <3> QED
      BY <2>2, <3>1, <3>3, <3>4, FreshStep
  <2>4. CASE defs[a].status # "pending"
    BY <1>1, <1>4, <2>4 DEF DenyCommit, TerminateCommit
  <2> QED
    BY <2>3, <2>4
<1>5. ASSUME NEW q \in Requests, CancelCommit(q) PROVE GInv'
  <2> DEFINE a == req[q].automation
  <2>1. req[q] \in [op : {"deny", "cancel"}, automation : Automations]
    BY <1>5 DEF CancelCommit, TerminateCommit, TInv, TypeOK, Request, NoRequest
  <2>2. a \in Automations /\ runs' = runs /\ wk' = wk
    BY <1>5, <2>1 DEF CancelCommit, TerminateCommit
  <2>3. CASE defs[a].status = "approved"
    <3>1. defs' = [defs EXCEPT ![a] = [@ EXCEPT !.status = "cancelled"]]
      BY <1>5, <2>3 DEF CancelCommit, TerminateCommit
    <3> HIDE DEF a
    <3> QED
      BY <2>2, <2>3, <3>1, CancelStep
  <2>4. CASE defs[a].status # "approved"
    BY <1>1, <1>5, <2>4 DEF CancelCommit, TerminateCommit
  <2> QED
    BY <2>3, <2>4
<1>6. ASSUME NEW w \in Workers, TickBegin(w) PROVE GInv'
  <2>1. PICK Q \in SUBSET StaleClaims(now - StaleAge) :
            Goes(w, [IdleWorker EXCEPT !.pc = "recover", !.at = now, !.stale = Q])
    BY <1>6 DEF TickBegin
  <2> DEFINE v == [IdleWorker EXCEPT !.pc = "recover", !.at = now, !.stale = Q]
  <2>2. v.pc = "recover" /\ v.at = now /\ v.stale = Q /\ v.due = {}
    BY DEF IdleWorker
  <2>3. Goes(w, v) /\ runs' = runs /\ defs' = defs
    BY <1>6, <2>1 DEF TickBegin
  <2>4. ASSUME NEW x \in Q PROVE runs[x[2]].due <= now
    <3>1. PICK j \in DOMAIN runs : x = <<runs[j].claimedAt, j>>
                                   /\ runs[j].claimedAt <= now - StaleAge
      BY <2>4 DEF StaleClaims
    <3>2. runs[j].due <= runs[j].claimedAt
      BY DEF GInv, RowsOK
    <3>3. /\ runs[j].due \in Nat /\ runs[j].claimedAt \in Nat
          /\ now \in Nat /\ StaleAge \in Nat
      BY RowType, Bounds, TimesAreNat DEF TInv, TypeOK
    <3> QED
      BY <3>1, <3>2, <3>3
  <2> HIDE DEF v
  <2>5. wk'[w] = v => WorkerOK(w)'
    BY <2>2, <2>3, <2>4, WorkerReads
  <2> QED
    BY <2>3, <2>5, QuietStep, WorkerGoes
<1>7. ASSUME NEW w \in Workers, RecoverRead(w) PROVE GInv'
  <2> DEFINE t(x) == AdvanceTarget(runs[x[2]].automation,
                       Cardinality(RunsOf(runs[x[2]].automation)), wk[w].at)
             v1(x) == [wk[w] EXCEPT !.pc = "recover_write", !.run = x[2], !.target = t(x)]
             v2(x) == [wk[w] EXCEPT !.stale = @ \ {x}]
  <2>1. PICK x \in wk[w].stale : Goes(w, v1(x)) \/ Goes(w, v2(x))
    BY <1>7 DEF RecoverRead
  <2>2. x[2] \in DOMAIN runs
    BY DEF TInv, PointersOK
  <2>3. /\ wk[w] \in Worker /\ wk[w].pc = "recover" /\ runs' = runs /\ defs' = defs
        /\ wk[w].at \in Times /\ wk[w].at \in Nat
    BY <1>7, TimesAreNat DEF RecoverRead, TInv, TypeOK, Worker
  <2>4. RowsWereDue(w)
    BY GInvParts DEF WorkerOK
  <2> DEFINE a == runs[x[2]].automation
             d == runs[x[2]].due
  <2>5. a \in Automations /\ d \in Times /\ d \in Nat /\ d <= wk[w].at
    BY <2>2, <2>4, RowType, Bounds DEF TInv, Times, RowsWereDue
  <2>6. t(x) # NoDue => /\ t(x) > d
                        /\ Outstanding(a) => Cardinality(RunsOf(a)) < defs[a].content.maxRuns
    <3>1. NextDaily[wk[w].at] > wk[w].at /\ NextDaily[wk[w].at] \in Nat
      BY <2>3, NextDailyAssumption
    <3>2. Cardinality(RunsOf(a)) \in Nat
          /\ (Outstanding(a) => defs[a].content.maxRuns \in Nat)
      BY <2>5, RunsFinite, DefinitionType DEF TInv, Outstanding
    <3> HIDE DEF a, d
    <3>3. t(x) # NoDue => t(x) = NextDaily[wk[w].at]
                          /\ ~(Cardinality(RunsOf(a)) >= defs[a].content.maxRuns)
      BY DEF AdvanceTarget, Completes, a
    <3> QED
      BY <2>3, <2>5, <3>1, <3>2, <3>3
  <2> HIDE DEF t
  <2>7. /\ v1(x).pc = "recover_write" /\ v1(x).run = x[2] /\ v1(x).target = t(x)
        /\ v1(x).stale = wk[w].stale /\ v1(x).due = wk[w].due /\ v1(x).at = wk[w].at
    BY <2>3 DEF Worker
  <2>8. /\ v2(x).pc = "recover" /\ v2(x).stale \subseteq wk[w].stale
        /\ v2(x).due = wk[w].due /\ v2(x).at = wk[w].at
    BY <2>3 DEF Worker
  <2> HIDE DEF v1, v2
  <2>9. CASE Goes(w, v1(x))
    <3>1. ASSUME wk'[w] = v1(x) PROVE WorkerOK(w)'
      <4>1. ClaimIsNext(w)'
        BY <2>7, <3>1 DEF ClaimIsNext
      <4>2. RowsWereDue(w)'
        BY <2>3, <2>4, <2>7, <3>1 DEF RowsWereDue
      <4>3. ASSUME NEW b \in Automations, NEW s \in Times, runs[x[2]].automation = b,
                   runs[x[2]].due = s, t(x) # NoDue
            PROVE  t(x) > s /\ (MatchesDue(b, s)' => Cardinality(RunsOf(b)') < defs'[b].content.maxRuns)
        <5>1. RunsOf(b)' = RunsOf(b) /\ defs' = defs
          BY <2>3 DEF RunsOf
        <5>2. MatchesDue(b, s)' => Outstanding(b)
          BY <2>3 DEF MatchesDue, Outstanding
        <5> QED
          BY <2>6, <4>3, <5>1, <5>2
      <4>4. SettlementIsReady(w)'
        BY <2>3, <2>7, <3>1, <4>3 DEF SettlementIsReady
      <4> QED
        BY <4>1, <4>2, <4>4 DEF WorkerOK
    <3> QED
      BY <2>3, <2>9, <3>1, QuietStep, WorkerGoes
  <2>10. CASE Goes(w, v2(x))
    <3>1. wk'[w] = v2(x) => WorkerOK(w)'
      BY <2>3, <2>4, <2>8, WorkerReads DEF RowsWereDue
    <3> QED
      BY <2>3, <2>10, <3>1, QuietStep, WorkerGoes
  <2> QED
    BY <2>1, <2>9, <2>10
<1>8. ASSUME NEW w \in Workers, ScanDue(w) PROVE GInv'
  <2>1. PICK Q \in SUBSET DueApproved(wk[w].at) :
            Goes(w, [wk[w] EXCEPT !.pc = "due", !.due = Q])
    BY <1>8 DEF ScanDue
  <2> DEFINE v == [wk[w] EXCEPT !.pc = "due", !.due = Q]
  <2>2. wk[w] \in Worker /\ runs' = runs /\ defs' = defs /\ RowsWereDue(w)
    BY <1>8, GInvParts DEF ScanDue, TInv, TypeOK, WorkerOK
  <2>3. v.pc = "due" /\ v.at = wk[w].at /\ v.stale = wk[w].stale /\ v.due = Q
    BY <2>2 DEF Worker
  <2>4. \A x \in Q : x[1] <= wk[w].at
    BY DEF DueApproved
  <2> HIDE DEF v
  <2>5. Goes(w, v)
    BY <2>1 DEF v
  <2>6. wk'[w] = v => WorkerOK(w)'
    BY <2>2, <2>3, <2>4, WorkerReads DEF RowsWereDue
  <2> QED
    BY <2>2, <2>5, <2>6, QuietStep, WorkerGoes
<1>9. ASSUME NEW w \in Workers, DueRead(w) PROVE GInv'
  <2> DEFINE v1(x) == [wk[w] EXCEPT !.due = @ \ {x}]
             v2 == [wk[w] EXCEPT !.pc = "miss_write"]
             v3 == [wk[w] EXCEPT !.pc = "claim_write"]
  <2>1. PICK x \in wk[w].due :
            /\ IsNext(x, wk[w].due)
            /\ \/ Goes(w, v1(x))
               \/ Goes(w, v2)
               \/ MatchesDue(x[2], x[1]) /\ Goes(w, v3)
    BY <1>9 DEF DueRead, MatchesDue
  <2>2. /\ wk[w] \in Worker /\ wk[w].pc = "due" /\ runs' = runs /\ defs' = defs
        /\ RowsWereDue(w)
    BY <1>9, GInvParts DEF DueRead, TInv, TypeOK, WorkerOK
  <2>3. /\ v1(x).pc = "due" /\ v1(x).at = wk[w].at
        /\ v1(x).stale = wk[w].stale /\ v1(x).due \subseteq wk[w].due
        /\ v2.pc = "miss_write" /\ v2.at = wk[w].at
        /\ v2.stale = wk[w].stale /\ v2.due = wk[w].due
        /\ v3.pc = "claim_write" /\ v3.at = wk[w].at
        /\ v3.stale = wk[w].stale /\ v3.due = wk[w].due
    BY <2>2 DEF Worker
  <2> HIDE DEF v1, v2, v3
  <2>4. CASE Goes(w, v1(x))
    <3>1. wk'[w] = v1(x) => WorkerOK(w)'
      BY <2>2, <2>3, WorkerReads DEF RowsWereDue
    <3> QED
      BY <2>2, <2>4, <3>1, QuietStep, WorkerGoes
  <2>5. CASE Goes(w, v2)
    <3>1. wk'[w] = v2 => WorkerOK(w)'
      BY <2>2, <2>3, WorkerReads DEF RowsWereDue
    <3> QED
      BY <2>2, <2>5, <3>1, QuietStep, WorkerGoes
  <2>6. CASE MatchesDue(x[2], x[1]) /\ Goes(w, v3)
    <3>1. ASSUME wk'[w] = v3 PROVE WorkerOK(w)'
      <4>1. ASSUME NEW y \in wk[w].due, IsNext(y, wk[w].due)
            PROVE  Outstanding(y[2])' /\ defs'[y[2]].nextDue = y[1]
        <5>1. wk[w].due \in SUBSET (Times \X Automations)
          BY <2>2 DEF Worker
        <5>2. y = x
          BY <2>1, <4>1, <5>1, NextUnique
        <5> QED
          BY <2>2, <2>6, <5>2 DEF MatchesDue, Outstanding
      <4>2. ClaimIsNext(w)'
        BY <2>3, <3>1, <4>1 DEF ClaimIsNext
      <4>3. SettlementIsReady(w)' /\ RowsWereDue(w)'
        BY <2>2, <2>3, <3>1 DEF SettlementIsReady, RowsWereDue
      <4> QED
        BY <4>2, <4>3 DEF WorkerOK
    <3> QED
      BY <2>2, <2>6, <3>1, QuietStep, WorkerGoes
  <2> QED
    BY <2>1, <2>4, <2>5, <2>6
<1>10. ASSUME NEW w \in Workers, DeliverRead(w) PROVE GInv'
  <2> DEFINE a == runs[wk[w].run].automation
             d == runs[wk[w].run].due
             t == AdvanceTarget(a, Cardinality(RunsOf(a)), d)
             v1 == [wk[w] EXCEPT !.pc = "deliver_write", !.target = t]
             v2 == [wk[w] EXCEPT !.pc = "due"]
  <2>1. Goes(w, v1) \/ Goes(w, v2)
    BY <1>10 DEF DeliverRead
  <2>2. /\ wk[w] \in Worker /\ wk[w].run \in DOMAIN runs
        /\ runs' = runs /\ defs' = defs /\ RowsWereDue(w)
    BY <1>10, GInvParts DEF DeliverRead, TInv, TypeOK, PointersOK, WorkerOK
  <2>3. a \in Automations /\ d \in Times /\ d \in Nat
    BY <2>2, RowType, TimesAreNat DEF TInv
  <2>4. t # NoDue => /\ t > d
                     /\ Outstanding(a) => Cardinality(RunsOf(a)) < defs[a].content.maxRuns
    <3>1. NextDaily[d] > d /\ NextDaily[d] \in Nat
      BY <2>3, NextDailyAssumption
    <3>2. Cardinality(RunsOf(a)) \in Nat
          /\ (Outstanding(a) => defs[a].content.maxRuns \in Nat)
      BY <2>3, RunsFinite, DefinitionType DEF TInv, Outstanding
    <3>3. t # NoDue => t = NextDaily[d] /\ ~(Cardinality(RunsOf(a)) >= defs[a].content.maxRuns)
      BY DEF AdvanceTarget, Completes
    <3> QED
      BY <2>3, <3>1, <3>2, <3>3
  <2> HIDE DEF t
  <2>5. /\ v1.pc = "deliver_write" /\ v1.run = wk[w].run /\ v1.target = t
        /\ v1.stale = wk[w].stale /\ v1.due = wk[w].due /\ v1.at = wk[w].at
        /\ v2.pc = "due"
        /\ v2.stale = wk[w].stale /\ v2.due = wk[w].due /\ v2.at = wk[w].at
    BY <2>2 DEF Worker
  <2> HIDE DEF v1, v2
  <2>6. CASE Goes(w, v1)
    <3>1. ASSUME wk'[w] = v1 PROVE WorkerOK(w)'
      <4>1. ClaimIsNext(w)' /\ RowsWereDue(w)'
        BY <2>2, <2>5, <3>1 DEF ClaimIsNext, RowsWereDue
      <4>2. ASSUME NEW b \in Automations, NEW s \in Times, a = b, d = s, t # NoDue
            PROVE  t > s /\ (MatchesDue(b, s)' => Cardinality(RunsOf(b)') < defs'[b].content.maxRuns)
        <5>1. RunsOf(b)' = RunsOf(b) /\ defs' = defs
          BY <2>2 DEF RunsOf
        <5>2. MatchesDue(b, s)' => Outstanding(b)
          BY <2>2 DEF MatchesDue, Outstanding
        <5> QED
          BY <2>4, <4>2, <5>1, <5>2
      <4>3. SettlementIsReady(w)'
        BY <2>2, <2>5, <3>1, <4>2 DEF SettlementIsReady
      <4> QED
        BY <4>1, <4>3 DEF WorkerOK
    <3> QED
      BY <2>2, <2>6, <3>1, QuietStep, WorkerGoes
  <2>7. CASE Goes(w, v2)
    <3>1. wk'[w] = v2 => WorkerOK(w)'
      BY <2>2, <2>5, WorkerReads DEF RowsWereDue
    <3> QED
      BY <2>2, <2>7, <3>1, QuietStep, WorkerGoes
  <2> QED
    BY <2>1, <2>6, <2>7
<1>11. ASSUME NEW w \in Workers, RecoverWrite(w) PROVE GInv'
  <2> DEFINE v == [wk[w] EXCEPT !.pc = "recover",
                                !.stale = {x \in @ : x[2] # wk[w].run}]
             i == wk[w].run
             a == runs[i].automation
             d == runs[i].due
  <2>1. Goes(w, v) /\ SettleClaim(i, "indeterminate", wk[w].target)
    BY <1>11 DEF RecoverWrite
  <2>2. /\ wk[w] \in Worker /\ i \in DOMAIN runs /\ RowsWereDue(w) /\ SettlementIsReady(w)
        /\ wk[w].target \in Nat \cup {NoDue}
    BY <1>11, GInvParts DEF RecoverWrite, TInv, TypeOK, PointersOK, WorkerOK, Worker
  <2>3. a \in Automations /\ d \in Times
    BY <2>2, RowType DEF TInv
  <2>4. wk[w].target # NoDue =>
           /\ wk[w].target > d
           /\ MatchesDue(a, d) => Cardinality(RunsOf(a)) < defs[a].content.maxRuns
    BY <1>11, <2>2, <2>3 DEF RecoverWrite, SettlementIsReady
  <2>5. TablesOK' /\ \A u \in Workers : wk'[u] = wk[u] => WorkerOK(u)'
    <3> HIDE DEF i, v
    <3> QED
      BY <2>1, <2>2, <2>3, <2>4, SettleStep
  <2>6. /\ v.pc = "recover" /\ v.at = wk[w].at /\ v.due = wk[w].due
        /\ v.stale \subseteq wk[w].stale
    BY <2>2 DEF Worker
  <2>7. \A j \in DOMAIN runs : runs'[j].due = runs[j].due
    BY <2>1, <2>2, Settled DEF SettleClaim, TInv
  <2> HIDE DEF v
  <2>8. wk'[w] = v => WorkerOK(w)'
    BY <2>2, <2>6, <2>7, WorkerReads DEF RowsWereDue, TInv, PointersOK
  <2> QED
    BY <2>1, <2>5, <2>8, WorkerGoes
<1>12. ASSUME NEW w \in Workers, DeliverWrite(w) PROVE GInv'
  <2> DEFINE v == [wk[w] EXCEPT !.pc = "due"]
             i == wk[w].run
             a == runs[i].automation
             d == runs[i].due
  <2>1. Goes(w, v) /\ SettleClaim(i, "delivered", wk[w].target)
    BY <1>12 DEF DeliverWrite
  <2>2. /\ wk[w] \in Worker /\ i \in DOMAIN runs /\ RowsWereDue(w) /\ SettlementIsReady(w)
        /\ wk[w].target \in Nat \cup {NoDue}
    BY <1>12, GInvParts DEF DeliverWrite, TInv, TypeOK, PointersOK, WorkerOK, Worker
  <2>3. a \in Automations /\ d \in Times
    BY <2>2, RowType DEF TInv
  <2>4. wk[w].target # NoDue =>
           /\ wk[w].target > d
           /\ MatchesDue(a, d) => Cardinality(RunsOf(a)) < defs[a].content.maxRuns
    BY <1>12, <2>2, <2>3 DEF DeliverWrite, SettlementIsReady
  <2>5. TablesOK' /\ \A u \in Workers : wk'[u] = wk[u] => WorkerOK(u)'
    <3> HIDE DEF i, v
    <3> QED
      BY <2>1, <2>2, <2>3, <2>4, SettleStep
  <2>6. /\ v.pc = "due" /\ v.at = wk[w].at /\ v.due = wk[w].due
        /\ v.stale \subseteq wk[w].stale
    BY <2>2 DEF Worker
  <2>7. \A j \in DOMAIN runs : runs'[j].due = runs[j].due
    BY <2>1, <2>2, Settled DEF SettleClaim, TInv
  <2> HIDE DEF v
  <2>8. wk'[w] = v => WorkerOK(w)'
    BY <2>2, <2>6, <2>7, WorkerReads DEF RowsWereDue, TInv, PointersOK
  <2> QED
    BY <2>1, <2>5, <2>8, WorkerGoes
<1>13. ASSUME NEW w \in Workers, ClaimWrite(w) PROVE GInv'
  <2> DEFINE v1(x) == [wk[w] EXCEPT !.pc = "due", !.due = @ \ {x}]
             v2(x) == [wk[w] EXCEPT !.pc = "deliver", !.due = @ \ {x}, !.run = Len(runs) + 1]
  <2>1. PICK x \in wk[w].due :
          /\ IsNext(x, wk[w].due)
          /\ \/ Goes(w, v1(x)) /\ UNCHANGED runs
             \/ /\ ~SlotTaken(x[2], x[1])
                /\ runs' = Append(runs, NewRun(x, "claimed", wk[w].at))
                /\ Goes(w, v2(x))
    BY <1>13 DEF ClaimWrite, SlotTaken
  <2>2. /\ wk[w] \in Worker /\ wk[w].pc = "claim_write" /\ defs' = defs
        /\ RowsWereDue(w) /\ ClaimIsNext(w)
    BY <1>13, GInvParts DEF ClaimWrite, TInv, TypeOK, WorkerOK
  <2>3. x[2] \in Automations /\ x[1] \in Times /\ wk[w].at \in Times /\ x[1] <= wk[w].at
    BY <2>2 DEF Worker, RowsWereDue
  <2>4. /\ v1(x).pc = "due" /\ v1(x).at = wk[w].at
        /\ v1(x).stale = wk[w].stale /\ v1(x).due \subseteq wk[w].due
        /\ v2(x).pc = "deliver" /\ v2(x).at = wk[w].at
        /\ v2(x).stale = wk[w].stale /\ v2(x).due \subseteq wk[w].due
    BY <2>2 DEF Worker
  <2> HIDE DEF v1, v2
  <2>5. CASE Goes(w, v1(x)) /\ UNCHANGED runs
    <3>1. wk'[w] = v1(x) => WorkerOK(w)'
      BY <2>2, <2>4, <2>5, WorkerReads DEF RowsWereDue
    <3> QED
      BY <2>2, <2>5, <3>1, QuietStep, WorkerGoes
  <2>6. CASE /\ ~SlotTaken(x[2], x[1])
             /\ runs' = Append(runs, NewRun(x, "claimed", wk[w].at))
             /\ Goes(w, v2(x))
    <3> DEFINE r == NewRun(x, "claimed", wk[w].at)
    <3>1. r \in Run
      BY <2>3 DEF NewRun, Run
    <3>2. Outstanding(x[2]) /\ defs[x[2]].nextDue = x[1]
      BY <2>1, <2>2, <2>6 DEF ClaimIsNext
    <3>3. r = [automation |-> x[2], due |-> x[1], claimedAt |-> wk[w].at, status |-> "claimed"]
      BY DEF NewRun
    <3> HIDE DEF r
    <3>4. runs' = Append(runs, r)
      BY <2>6 DEF r
    <3>5. TablesOK' /\ \A u \in Workers : wk'[u] = wk[u] => WorkerOK(u)'
      BY <2>2, <2>3, <2>6, <3>1, <3>2, <3>3, <3>4, ClaimStep
    <3>6. \A j \in DOMAIN runs : runs'[j] = runs[j]
      BY <3>1, <3>4, Inserted DEF TInv
    <3>7. wk'[w] = v2(x) => WorkerOK(w)'
      BY <2>2, <2>4, <3>6, WorkerReads DEF RowsWereDue, TInv, PointersOK
    <3> QED
      BY <2>6, <3>5, <3>7, WorkerGoes
  <2> QED
    BY <2>1, <2>5, <2>6
<1>14. ASSUME NEW w \in Workers, MissWrite(w) PROVE GInv'
  <2> DEFINE v(x) == [wk[w] EXCEPT !.pc = "due", !.due = @ \ {x}]
  <2>1. PICK x \in wk[w].due :
          /\ Goes(w, v(x))
          /\ \/ UNCHANGED <<runs, defs>>
             \/ /\ ~SlotTaken(x[2], x[1]) /\ MatchesDue(x[2], x[1])
                /\ runs' = Append(runs, NewRun(x, "missed", wk[w].at))
                /\ defs' = [defs EXCEPT ![x[2]] = Advanced(@,
                      AdvanceTarget(x[2], Cardinality(RunsOf(x[2])) + 1, wk[w].at))]
    BY <1>14 DEF MissWrite, MatchesDue, SlotTaken
  <2>2. wk[w] \in Worker /\ RowsWereDue(w)
    BY GInvParts DEF TInv, TypeOK, WorkerOK
  <2>3. x[2] \in Automations /\ x[1] \in Times /\ wk[w].at \in Times /\ x[1] <= wk[w].at
    BY <2>2 DEF Worker, RowsWereDue
  <2>4. /\ v(x).pc = "due" /\ v(x).at = wk[w].at
        /\ v(x).stale = wk[w].stale /\ v(x).due \subseteq wk[w].due
    BY <2>2 DEF Worker
  <2> HIDE DEF v
  <2>5. CASE UNCHANGED <<runs, defs>>
    <3>1. wk'[w] = v(x) => WorkerOK(w)'
      BY <2>2, <2>4, <2>5, WorkerReads DEF RowsWereDue
    <3> QED
      BY <2>1, <2>5, <3>1, QuietStep, WorkerGoes
  <2>6. CASE /\ ~SlotTaken(x[2], x[1]) /\ MatchesDue(x[2], x[1])
             /\ runs' = Append(runs, NewRun(x, "missed", wk[w].at))
             /\ defs' = [defs EXCEPT ![x[2]] = Advanced(@,
                   AdvanceTarget(x[2], Cardinality(RunsOf(x[2])) + 1, wk[w].at))]
    <3> DEFINE r == NewRun(x, "missed", wk[w].at)
    <3>1. r \in Run
      BY <2>3 DEF NewRun, Run
    <3>2. r = [automation |-> x[2], due |-> x[1], claimedAt |-> wk[w].at, status |-> "missed"]
      BY DEF NewRun
    <3> HIDE DEF r
    <3>3. runs' = Append(runs, r)
      BY <2>6 DEF r
    <3>4. TablesOK' /\ \A u \in Workers : wk'[u] = wk[u] => WorkerOK(u)'
      BY <2>3, <2>6, <3>1, <3>2, <3>3, MissStep
    <3>5. \A j \in DOMAIN runs : runs'[j] = runs[j]
      BY <3>1, <3>3, Inserted DEF TInv
    <3>6. wk'[w] = v(x) => WorkerOK(w)'
      BY <2>2, <2>4, <3>5, WorkerReads DEF RowsWereDue, TInv, PointersOK
    <3> QED
      BY <2>1, <3>4, <3>6, WorkerGoes
  <2> QED
    BY <2>1, <2>5, <2>6
<1>15. ASSUME NEW w \in Workers, wk'[w] = IdleWorker PROVE WorkerOK(w)'
  BY <1>15, WorkerReads DEF IdleWorker
<1>16. ASSUME NEW w \in Workers, TickEnd(w) \/ TickFails(w) PROVE GInv'
  BY <1>15, <1>16, QuietStep, WorkerGoes DEF TickEnd, TickFails
<1>17. CASE Restart
  <2>1. TablesOK' /\ \A w \in Workers : WorkerOK(w)'
    BY <1>15, <1>17, QuietStep DEF Restart
  <2> QED
    BY <2>1 DEF GInv, TablesOK, WorkersOK, WorkerOK
<1>18. ASSUME NEW q \in Requests, NEW a \in Automations, NEW c \in Contents,
              ApproveBegin(q, a, c) \/ DenyBegin(q, a, c)
       PROVE  GInv'
  BY <1>1, <1>18 DEF ApproveBegin, DenyBegin
<1>19. ASSUME NEW q \in Requests, NEW a \in Automations, CancelBegin(q, a)
       PROVE  GInv'
  BY <1>1, <1>19 DEF CancelBegin
<1>20. ASSUME NEW q \in Requests, NEW c \in Contents, ProposeBegin(q, c) PROVE GInv'
  BY <1>1, <1>20 DEF ProposeBegin
<1>21. CASE ClockTick \/ UNCHANGED vars
  BY <1>1, <1>21 DEF ClockTick, vars
<1> QED
  BY <1>2, <1>3, <1>4, <1>5, <1>6, <1>7, <1>8, <1>9, <1>10, <1>11, <1>12, <1>13,
     <1>14, <1>16, <1>17, <1>18, <1>19, <1>20, <1>21 DEF Next, Owner, WorkerStep

LEMMA GInvariant == Spec => []GInv
<1>1. Init => TInv /\ GInv
  BY TypeInit, GInit
<1>2. (TInv /\ GInv) /\ [Next]_vars => (TInv /\ GInv)'
  BY TypeStep, GStep
<1> QED
  BY <1>1, <1>2, PTL DEF Spec

\* However many workers, crashes and cancellations: never more run rows than
\* the owner granted.
THEOREM GrantIsRespected == Spec => []RunsWithinGrant
<1>1. GInv => RunsWithinGrant
  BY DEF GInv
<1> QED
  BY GInvariant, <1>1, PTL

\* A slot that was delivered, missed or indeterminate is never due again.
THEOREM ScheduleIsMonotonic == Spec => []ScheduleMovesOn
<1>1. GInv => ScheduleMovesOn
  BY DEF GInv
<1> QED
  BY GInvariant, <1>1, PTL

-----------------------------------------------------------------------------
(* What is over stays as it was recorded.                                   *)

\* Automation a over one step: a settlement moves the schedule, the schedule
\* moves with a settlement, and what is decided is left alone.
ScheduleIsFinal(a) ==
    LET settled == {i \in DOMAIN runs' : runs'[i].automation = a /\ Settles(i)} IN
      /\ \A i \in settled :
            /\ MatchesDue(a, runs'[i].due)
            /\ defs'[a].nextDue # defs[a].nextDue
      /\ (defs[a].status = "approved" /\ defs'[a].nextDue # defs[a].nextDue)
            => \E i \in settled : runs'[i].due = defs[a].nextDue
      /\ defs[a].status \in {"denied", "cancelled", "completed"}
            => defs'[a] = defs[a]
      /\ defs[a] # NoDefinition => defs'[a].content = defs[a].content

RowsAreFinal ==
    /\ Len(runs') >= Len(runs)
    /\ \A i \in DOMAIN runs : runs[i].status # "claimed" => runs'[i] = runs[i]

StepIsFinal == RowsAreFinal /\ \A a \in Automations : ScheduleIsFinal(a)

\* No step of an owner settles a run or moves the slot of an active automation.
LEMMA FinalOwner ==
    ASSUME TypeOK, runs' = runs, NEW b \in Automations, NEW d,
           defs' = [defs EXCEPT ![b] = d],
           defs[b].status = "approved" => d.nextDue = defs[b].nextDue,
           defs[b].status \notin {"denied", "cancelled", "completed"},
           defs[b] # NoDefinition => d.content = defs[b].content
    PROVE  StepIsFinal
<1>1. defs'[b] = d /\ \A a \in Automations : a # b => defs'[a] = defs[a]
  BY DEF TypeOK
<1>2. \A i : ~Settles(i)
  BY DEF Settles
<1>3. ASSUME NEW a \in Automations PROVE ScheduleIsFinal(a)
  <2>1. CASE a = b
    BY <1>1, <1>2, <2>1 DEF ScheduleIsFinal
  <2>2. CASE a # b
    BY <1>1, <1>2, <2>2 DEF ScheduleIsFinal
  <2> QED
    BY <2>1, <2>2
<1>4. RowsAreFinal
  BY DEF RowsAreFinal, TypeOK
<1> QED
  BY <1>3, <1>4 DEF StepIsFinal

LEMMA FinalQuiet ==
    ASSUME TypeOK, UNCHANGED <<runs, defs>>
    PROVE  StepIsFinal
<1>1. \A i : ~Settles(i)
  BY DEF Settles
<1>2. RowsAreFinal
  BY DEF RowsAreFinal, TypeOK
<1> QED
  BY <1>1, <1>2 DEF StepIsFinal, ScheduleIsFinal

\* A claim opens a run: nothing is settled and no schedule moves.
LEMMA FinalClaim ==
    ASSUME TypeOK, NEW r \in Run, r.status = "claimed", runs' = Append(runs, r),
           defs' = defs
    PROVE  StepIsFinal
<1>1. /\ DOMAIN runs' = DOMAIN runs \cup {Len(runs) + 1} /\ runs'[Len(runs) + 1] = r
      /\ \A i \in DOMAIN runs : runs'[i] = runs[i]
  BY Inserted
<1>2. \A i : ~Settles(i)
  BY <1>1 DEF Settles
<1>3. Len(runs') >= Len(runs)
  BY DEF TypeOK
<1>4. RowsAreFinal
  BY <1>1, <1>3 DEF RowsAreFinal
<1> QED
  BY <1>2, <1>4 DEF StepIsFinal, ScheduleIsFinal

\* A missed slot: the run is inserted settled and the schedule leaves the slot.
LEMMA FinalMiss ==
    ASSUME TypeOK, NEW b \in Automations, NEW r \in Run,
           r.automation = b, r.status = "missed", MatchesDue(b, r.due),
           runs' = Append(runs, r),
           NEW t \in Nat \cup {NoDue}, t # r.due,
           defs' = [defs EXCEPT ![b] = Advanced(@, t)]
    PROVE  StepIsFinal
<1> DEFINE n == Len(runs) + 1
<1>1. /\ n \notin DOMAIN runs /\ DOMAIN runs' = DOMAIN runs \cup {n} /\ runs'[n] = r
      /\ \A i \in DOMAIN runs : runs'[i] = runs[i]
  BY Inserted
<1> HIDE DEF n
<1>2. Settles(n) /\ \A i \in DOMAIN runs' : Settles(i) => i = n
  BY <1>1 DEF Settles
<1>3. Len(runs') >= Len(runs)
  BY DEF TypeOK
<1>4. RowsAreFinal
  BY <1>1, <1>3 DEF RowsAreFinal
<1>5. defs[b] \in Definition /\ defs[b].status = "approved" /\ defs[b].nextDue = r.due
  BY DefinitionType DEF MatchesDue, NoDefinition
<1>6. defs'[b] = Advanced(defs[b], t) /\ \A a \in Automations : a # b => defs'[a] = defs[a]
  BY DEF TypeOK
<1>7. defs'[b].content = defs[b].content /\ defs'[b].nextDue = t
  BY <1>5, <1>6, AdvancedFields
<1>8. ASSUME NEW a \in Automations PROVE ScheduleIsFinal(a)
  <2>1. CASE a = b
    BY <1>1, <1>2, <1>5, <1>7, <2>1 DEF ScheduleIsFinal
  <2>2. CASE a # b
    BY <1>1, <1>2, <1>6, <2>2 DEF ScheduleIsFinal
  <2> QED
    BY <2>1, <2>2
<1> QED
  BY <1>4, <1>8 DEF StepIsFinal

\* A settlement: both rows, or rollback.
LEMMA FinalSettle ==
    ASSUME TypeOK, NEW i \in DOMAIN runs, NEW o \in {"delivered", "indeterminate"},
           NEW t \in Nat \cup {NoDue}, SettleClaim(i, o, t),
           t # runs[i].due
    PROVE  StepIsFinal
<1> DEFINE b == runs[i].automation
<1>1. CASE runs[i].status = "claimed" /\ MatchesDue(b, runs[i].due)
  <2>1. /\ runs' = [runs EXCEPT ![i] = [@ EXCEPT !.status = o]]
        /\ defs' = [defs EXCEPT ![b] = Advanced(@, t)]
    BY <1>1 DEF SettleClaim
  <2>2. b \in Automations
    BY RowType
  <2> HIDE DEF b
  <2>3. /\ DOMAIN runs' = DOMAIN runs /\ runs'[i].status = o
        /\ \A j \in DOMAIN runs :
              /\ runs'[j].automation = runs[j].automation /\ runs'[j].due = runs[j].due
              /\ j # i => runs'[j] = runs[j]
    BY <2>1, Settled
  <2>4. Settles(i) /\ \A j \in DOMAIN runs' : Settles(j) => j = i
    BY <1>1, <2>3 DEF Settles
  <2>5. Len(runs') = Len(runs)
    BY <2>1 DEF TypeOK
  <2>6. Len(runs) \in Nat
    BY DEF TypeOK
  <2>7. RowsAreFinal
    BY <1>1, <2>3, <2>5, <2>6 DEF RowsAreFinal
  <2>8. defs[b] \in Definition /\ defs[b].status = "approved" /\ defs[b].nextDue = runs[i].due
    BY <1>1, <2>2, DefinitionType DEF MatchesDue, NoDefinition
  <2>9. defs'[b] = Advanced(defs[b], t) /\ \A a \in Automations : a # b => defs'[a] = defs[a]
    BY <2>1, <2>2 DEF TypeOK
  <2>10. defs'[b].content = defs[b].content /\ defs'[b].nextDue = t
    BY <2>8, <2>9, AdvancedFields
  <2>11. runs[i].automation = b /\ MatchesDue(b, runs[i].due)
    BY <1>1 DEF b
  <2>12. ASSUME NEW a \in Automations PROVE ScheduleIsFinal(a)
    <3>1. CASE a = b
      BY <2>3, <2>4, <2>8, <2>10, <2>11, <3>1 DEF ScheduleIsFinal
    <3>2. CASE a # b
      BY <2>3, <2>4, <2>9, <2>11, <3>2 DEF ScheduleIsFinal
    <3> QED
      BY <3>1, <3>2
  <2> QED
    BY <2>7, <2>12 DEF StepIsFinal
<1>2. CASE ~(runs[i].status = "claimed" /\ MatchesDue(b, runs[i].due))
  BY <1>2, FinalQuiet DEF SettleClaim
<1> QED
  BY <1>1, <1>2

\* The run a worker is about to settle leaves its slot.
LEMMA TargetMoves ==
    ASSUME TInv, GInv, NEW w \in Workers,
           wk[w].pc \in {"recover_write", "deliver_write"}
    PROVE  /\ wk[w].run \in DOMAIN runs /\ wk[w].target \in Nat \cup {NoDue}
           /\ wk[w].target # runs[wk[w].run].due
<1>1. wk[w].run \in DOMAIN runs /\ wk[w].target \in Nat \cup {NoDue}
  BY DEF TInv, TypeOK, PointersOK, Worker
<1>2. PICK d : d = runs[wk[w].run].due
  OBVIOUS
<1>3. PICK a : a = runs[wk[w].run].automation
  OBVIOUS
<1>4. d \in Times /\ d \in Nat /\ a \in Automations
  BY <1>1, <1>2, <1>3, RowType, TimesAreNat DEF TInv
<1>5. SettlementIsReady(w)
  BY DEF GInv, WorkersOK
<1>6. wk[w].target # NoDue => wk[w].target > d
  BY <1>2, <1>3, <1>4, <1>5 DEF SettlementIsReady
<1>7. wk[w].target # d
  BY <1>1, <1>4, <1>6 DEF NoDue
<1> QED
  BY <1>1, <1>2, <1>7

LEMMA FinalStep == TInv /\ GInv /\ [Next]_vars => StepIsFinal
<1> SUFFICES ASSUME TInv, GInv, [Next]_vars PROVE StepIsFinal
  OBVIOUS
<1>0. TypeOK
  BY DEF TInv
<1>1. ASSUME NEW q \in Requests, NEW a \in Automations, ProposeCommit(q, a)
      PROVE  StepIsFinal
  <2>1. defs[a] = NoDefinition /\ defs[a].status = "none"
    BY <1>1 DEF ProposeCommit, NoDefinition
  <2>2. PICK d : defs' = [defs EXCEPT ![a] = d] /\ runs' = runs
    BY <1>1 DEF ProposeCommit
  <2> QED
    BY <1>0, <2>1, <2>2, FinalOwner
<1>3. ASSUME NEW q \in Requests, ApproveCommit(q) PROVE StepIsFinal
  <2>1. req[q] \in [op : {"approve"}, automation : Automations, firstDue : Nat]
    BY <1>3 DEF ApproveCommit, TInv, TypeOK, Request, NoRequest
  <2>2. PICK A \in Automations : A = req[q].automation
    BY <2>1
  <2>3. PICK d : d = [defs[A] EXCEPT !.status = "approved", !.nextDue = req[q].firstDue]
    OBVIOUS
  <2>4. defs' = (IF defs[A].status = "pending" THEN [defs EXCEPT ![A] = d] ELSE defs) /\ runs' = runs
    BY <1>3, <2>2, <2>3 DEF ApproveCommit
  <2>5. CASE defs[A].status = "pending"
    <3>1. defs[A] \in Definition
      BY <2>5, <1>0, DefinitionType DEF NoDefinition
    <3>2. d.content = defs[A].content
      BY <2>3, <3>1 DEF Definition
    <3> QED
      BY <1>0, <2>4, <2>5, <3>2, FinalOwner
  <2>6. CASE defs[A].status # "pending"
    BY <1>0, <2>4, <2>6, FinalQuiet
  <2> QED
    BY <2>5, <2>6
<1>4. ASSUME NEW q \in Requests, NEW from \in {"pending", "approved"}, NEW to,
             NEW op \in {"deny", "cancel"}, TerminateCommit(q, op, from, to)
      PROVE  StepIsFinal
  <2>1. req[q] \in [op : {"deny", "cancel"}, automation : Automations]
    BY <1>4 DEF TerminateCommit, TInv, TypeOK, Request, NoRequest
  <2>2. PICK A \in Automations : A = req[q].automation
    BY <2>1
  <2>3. PICK d : d = [defs[A] EXCEPT !.status = to]
    OBVIOUS
  <2>4. defs' = (IF defs[A].status = from THEN [defs EXCEPT ![A] = d] ELSE defs) /\ runs' = runs
    BY <1>4, <2>2, <2>3 DEF TerminateCommit
  <2>5. CASE defs[A].status = from
    <3>1. defs[A] \in Definition
      BY <2>5, <1>0, DefinitionType DEF NoDefinition
    <3>2. d.content = defs[A].content /\ d.nextDue = defs[A].nextDue
      BY <2>3, <3>1 DEF Definition
    <3> QED
      BY <1>0, <2>4, <2>5, <3>2, FinalOwner
  <2>6. CASE defs[A].status # from
    BY <1>0, <2>4, <2>6, FinalQuiet
  <2> QED
    BY <2>5, <2>6
<1>5. ASSUME NEW w \in Workers, RecoverWrite(w) PROVE StepIsFinal
  <2>1. wk[w].pc = "recover_write" /\ SettleClaim(wk[w].run, "indeterminate", wk[w].target)
    BY <1>5 DEF RecoverWrite
  <2> QED
    BY <1>0, <2>1, TargetMoves, FinalSettle
<1>6. ASSUME NEW w \in Workers, DeliverWrite(w) PROVE StepIsFinal
  <2>1. wk[w].pc = "deliver_write" /\ SettleClaim(wk[w].run, "delivered", wk[w].target)
    BY <1>6 DEF DeliverWrite
  <2> QED
    BY <1>0, <2>1, TargetMoves, FinalSettle
<1>7. ASSUME NEW w \in Workers, ClaimWrite(w) PROVE StepIsFinal
  <2>1. PICK x \in wk[w].due :
          /\ defs' = defs
          /\ \/ runs' = runs
             \/ runs' = Append(runs, NewRun(x, "claimed", wk[w].at))
    BY <1>7 DEF ClaimWrite
  <2>2. NewRun(x, "claimed", wk[w].at) \in Run /\ NewRun(x, "claimed", wk[w].at).status = "claimed"
    BY <1>0, <2>1 DEF TypeOK, Worker, NewRun, Run
  <2> QED
    BY <1>0, <2>1, <2>2, FinalQuiet, FinalClaim
<1>8. ASSUME NEW w \in Workers, MissWrite(w) PROVE StepIsFinal
  <2>1. PICK x \in wk[w].due :
          \/ UNCHANGED <<runs, defs>>
          \/ /\ MatchesDue(x[2], x[1])
             /\ runs' = Append(runs, NewRun(x, "missed", wk[w].at))
             /\ defs' = [defs EXCEPT ![x[2]] = Advanced(@,
                   AdvanceTarget(x[2], Cardinality(RunsOf(x[2])) + 1, wk[w].at))]
    BY <1>8 DEF MissWrite, MatchesDue
  <2>2. wk[w] \in Worker /\ RowsWereDue(w)
    BY <1>0, GInvParts DEF TypeOK, WorkerOK
  <2>3. x[2] \in Automations /\ x[1] \in Times /\ wk[w].at \in Times /\ x[1] <= wk[w].at
    BY <2>2 DEF Worker, RowsWereDue
  <2>4. PICK r : r = NewRun(x, "missed", wk[w].at)
    OBVIOUS
  <2>5. r \in Run /\ r.automation = x[2] /\ r.due = x[1] /\ r.status = "missed"
    BY <2>3, <2>4 DEF NewRun, Run
  <2>6. PICK t : t = AdvanceTarget(x[2], Cardinality(RunsOf(x[2])) + 1, wk[w].at)
    OBVIOUS
  <2>7. t \in Nat \cup {NoDue} /\ t # x[1]
    <3>1. NextDaily[wk[w].at] > wk[w].at /\ NextDaily[wk[w].at] \in Nat
      BY <2>3, NextDailyAssumption
    <3>2. x[1] \in Nat /\ wk[w].at \in Nat
      BY <2>3, TimesAreNat
    <3> QED
      BY <2>3, <2>6, <3>1, <3>2 DEF AdvanceTarget, NoDue
  <2>8. CASE UNCHANGED <<runs, defs>>
    BY <1>0, <2>8, FinalQuiet
  <2>9. CASE /\ MatchesDue(x[2], x[1]) /\ runs' = Append(runs, r)
             /\ defs' = [defs EXCEPT ![x[2]] = Advanced(@, t)]
    BY <1>0, <2>3, <2>5, <2>7, <2>9, FinalMiss
  <2> QED
    BY <2>1, <2>4, <2>6, <2>8, <2>9
<1>9. ASSUME UNCHANGED <<runs, defs>> PROVE StepIsFinal
  BY <1>0, <1>9, FinalQuiet
<1>10. ASSUME NEW w \in Workers, WorkerStep(w) \/ TickFails(w) PROVE StepIsFinal
  <2>1. ASSUME \/ TickBegin(w) \/ RecoverRead(w) \/ ScanDue(w) \/ DueRead(w)
               \/ DeliverRead(w) \/ TickEnd(w) \/ TickFails(w)
        PROVE  UNCHANGED <<runs, defs>>
    BY <2>1 DEF TickBegin, RecoverRead, ScanDue, DueRead, DeliverRead, TickEnd, TickFails
  <2> QED
    BY <1>5, <1>6, <1>7, <1>8, <1>9, <1>10, <2>1 DEF WorkerStep
<1>11. CASE Owner
  <2>1. ASSUME NEW q \in Requests, NEW a \in Automations, NEW c \in Contents,
               \/ ProposeBegin(q, c) \/ CancelBegin(q, a)
               \/ ApproveBegin(q, a, c) \/ DenyBegin(q, a, c)
        PROVE  UNCHANGED <<runs, defs>>
    BY <2>1 DEF ProposeBegin, CancelBegin, ApproveBegin, DenyBegin
  <2>2. ASSUME NEW q \in Requests, DenyCommit(q) \/ CancelCommit(q) PROVE StepIsFinal
    BY <1>4, <2>2 DEF DenyCommit, CancelCommit
  <2>3. ASSUME NEW q \in Requests, NEW c \in Contents, ProposeBegin(q, c)
        PROVE  UNCHANGED <<runs, defs>>
    BY <2>3 DEF ProposeBegin
  <2>4. ASSUME NEW q \in Requests, NEW a \in Automations, CancelBegin(q, a)
        PROVE  UNCHANGED <<runs, defs>>
    BY <2>4 DEF CancelBegin
  <2> QED
    BY <1>1, <1>3, <1>9, <1>11, <2>1, <2>2, <2>3, <2>4 DEF Owner
<1>12. ASSUME Restart \/ ClockTick \/ UNCHANGED vars PROVE UNCHANGED <<runs, defs>>
  BY <1>12 DEF Restart, ClockTick, vars
<1> QED
  BY <1>9, <1>10, <1>11, <1>12 DEF Next

\* A run is settled in the step that moves its automation past the slot, and
\* what is settled, decided or recorded never changes again.
THEOREM FinalityHolds == Spec => SettlementIsFinal
<1>1. TInv /\ GInv /\ [Next]_vars => [StepIsFinal]_vars
  BY FinalStep
<1>2. Init => TInv
  BY TypeInit
<1>3. TInv /\ [Next]_vars => TInv'
  BY TypeStep
<1>4. Spec => []TInv
  BY <1>2, <1>3, PTL DEF Spec
<1>5. StepIsFinal <=>
        /\ \A a \in Automations :
            LET settled == {i \in DOMAIN runs' : runs'[i].automation = a /\ Settles(i)} IN
              /\ \A i \in settled :
                    /\ MatchesDue(a, runs'[i].due)
                    /\ defs'[a].nextDue # defs[a].nextDue
              /\ (defs[a].status = "approved" /\ defs'[a].nextDue # defs[a].nextDue)
                    => \E i \in settled : runs'[i].due = defs[a].nextDue
              /\ defs[a].status \in {"denied", "cancelled", "completed"}
                    => defs'[a] = defs[a]
              /\ defs[a] # NoDefinition => defs'[a].content = defs[a].content
        /\ Len(runs') >= Len(runs)
        /\ \A i \in DOMAIN runs : runs[i].status # "claimed" => runs'[i] = runs[i]
  BY DEF StepIsFinal, RowsAreFinal, ScheduleIsFinal
<1> QED
  BY <1>1, <1>4, <1>5, GInvariant, PTL DEF Spec, SettlementIsFinal

-----------------------------------------------------------------------------
(* AutomationSchedule: the daily search.                                    *)

\* What the search finds is a slot, it is in the future, and no slot between
\* the instant asked from and the result is passed over, whatever the clock of
\* the zone skips or shows twice (next_daily_due_after).
THEOREM SearchFindsFirstSlot ==
    ASSUME NEW zone, IsZone(zone), NEW time, NEW after \in DOMAIN zone,
           NEW due \in DOMAIN zone, IsNextDaily(zone, time, after, due)
    PROVE  IsFirstSlotAfter(zone, time, after, due)
<1>1. PICK offset \in 0..(DailySearchDays - 1) :
        /\ FoundAtOffset(zone, time, after, offset, due)
        /\ \A earlier \in 0..(offset - 1), v \in DOMAIN zone :
              ~FoundAtOffset(zone, time, after, earlier, v)
  BY DEF IsNextDaily
<1>2. /\ zone[due] = [date |-> zone[after].date + offset, time |-> time]
      /\ \A v \in DOMAIN zone : v < due => zone[v] # zone[due]
      /\ due > after
  BY <1>1 DEF FoundAtOffset, ValidLocalCandidate
<1>3. zone[due].date = zone[after].date + offset /\ zone[due].time = time
  BY <1>2
<1>4. due \in DailySlots(zone, time)
  BY <1>2, <1>3 DEF DailySlots
<1>5. ASSUME NEW u \in DailySlots(zone, time), u > after
      PROVE  due <= u
  <2>1. /\ u \in DOMAIN zone /\ zone[u].time = time
        /\ \A v \in DOMAIN zone : v < u => zone[v] # zone[u]
    BY <1>5 DEF DailySlots
  <2>2. /\ u \in Int /\ due \in Int /\ after \in Int
        /\ zone[u] \in [date : Int, time : Nat]
        /\ zone[due] \in [date : Int, time : Nat]
        /\ zone[after] \in [date : Int, time : Nat]
    BY <2>1 DEF IsZone
  <2>3. SUFFICES ASSUME u < due PROVE FALSE
    BY <2>2
  <2>4. zone[u].date < zone[due].date
    <3>1. zone[u].date # zone[due].date
      <4>1. SUFFICES ASSUME zone[u].date = zone[due].date PROVE FALSE
        OBVIOUS
      <4>2. zone[u] = zone[due]
        BY <4>1, <2>1, <2>2, <1>3
      <4> QED BY <4>2, <2>1, <2>3, <1>2
    <3>2. ~(zone[u].date > zone[due].date)
      <4>1. SUFFICES ASSUME zone[u].date > zone[due].date PROVE FALSE
        OBVIOUS
      <4>2. PICK w \in DOMAIN zone : w <= u /\ zone[w] = zone[due]
        BY <4>1, <2>1, <2>3 DEF IsZone, ShowsLater
      <4>3. w < due
        BY <4>2, <2>2, <2>3 DEF IsZone
      <4> QED BY <4>2, <4>3, <1>2
    <3> QED BY <3>1, <3>2, <2>2
  <2>5. ~(zone[u].date < zone[after].date)
    <3>1. SUFFICES ASSUME zone[u].date < zone[after].date PROVE FALSE
      OBVIOUS
    <3>2. PICK w \in DOMAIN zone : w <= after /\ zone[w] = zone[u]
      BY <3>1, <2>1, <2>2, <1>5 DEF IsZone, ShowsLater
    <3>3. w < u
      BY <3>2, <2>2, <1>5 DEF IsZone
    <3> QED BY <3>2, <3>3, <2>1
  <2> DEFINE j == zone[u].date - zone[after].date
  <2>6. j \in 0..(offset - 1)
    BY <2>2, <2>4, <2>5, <1>3, DailySearchAssumption
  <2>7. zone[u] = [date |-> zone[after].date + j, time |-> time]
    BY <2>1, <2>2
  <2>8. FoundAtOffset(zone, time, after, j, u)
    BY <2>1, <2>7, <1>5 DEF FoundAtOffset, ValidLocalCandidate
  <2> QED BY <2>1, <2>6, <2>8, <1>1
<1> QED BY <1>2, <1>4, <1>5 DEF IsFirstSlotAfter

\* next_daily_due_after answers with the first slot after the instant asked
\* from, or raises: what Automation assumes of NextDaily is what the search
\* gives.
THEOREM NextDailyIsFirstSlot ==
    ASSUME NEW zone, IsZone(zone), NEW time, NEW after \in DOMAIN zone,
           NextDailyDueAfter(zone, time, after) # NoDailySlot
    PROVE  IsFirstSlotAfter(zone, time, after, NextDailyDueAfter(zone, time, after))
<1>1. \E u \in DOMAIN zone : IsNextDaily(zone, time, after, u)
  BY DEF NextDailyDueAfter
<1> DEFINE due == CHOOSE u \in DOMAIN zone : IsNextDaily(zone, time, after, u)
<1>2. due \in DOMAIN zone /\ IsNextDaily(zone, time, after, due)
  BY <1>1
<1>3. NextDailyDueAfter(zone, time, after) = due
  BY <1>1 DEF NextDailyDueAfter
<1> HIDE DEF due
<1>4. IsFirstSlotAfter(zone, time, after, due)
  BY <1>2, SearchFindsFirstSlot
<1> QED BY <1>3, <1>4

\* "One local date can never produce two runs": two searches that find a slot
\* on the same local date find the same instant.
THEOREM OneSlotPerLocalDate ==
    ASSUME NEW zone, IsZone(zone), NEW time,
           NEW a \in DOMAIN zone, NEW b \in DOMAIN zone,
           NEW u \in DOMAIN zone, NEW v \in DOMAIN zone,
           IsNextDaily(zone, time, a, u), IsNextDaily(zone, time, b, v),
           zone[u].date = zone[v].date
    PROVE  u = v
<1>1. u \in DailySlots(zone, time) /\ v \in DailySlots(zone, time)
  BY SearchFindsFirstSlot DEF IsFirstSlotAfter
<1>2. /\ zone[u].time = time /\ \A w \in DOMAIN zone : w < u => zone[w] # zone[u]
      /\ zone[v].time = time /\ \A w \in DOMAIN zone : w < v => zone[w] # zone[v]
  BY <1>1 DEF DailySlots
<1>3. /\ u \in Int /\ v \in Int
      /\ zone[u] \in [date : Int, time : Nat] /\ zone[v] \in [date : Int, time : Nat]
  BY DEF IsZone
<1>4. zone[u] = zone[v]
  BY <1>2, <1>3
<1> QED BY <1>2, <1>3, <1>4

=============================================================================

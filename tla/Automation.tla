----------------------------- MODULE Automation -----------------------------
(***************************************************************************)
(* Durable local-reminder automations (D79).                               *)
(*                                                                         *)
(* Two tables of one SQLite database: automation_definitions (here defs)   *)
(* and automation_runs (here runs).  Owner request threads propose,        *)
(* approve, deny and cancel; scheduler workers tick.  Every service method *)
(* reads with autocommit and opens its write transaction at its first      *)
(* INSERT or UPDATE, so each method is a read action (…Begin, …Read) that  *)
(* keeps what it read in req or wk, and a write action (…Commit, …Write)   *)
(* that runs from the first write to COMMIT or ROLLBACK under SQLite's     *)
(* single writer lock.  Anything may happen between the two.               *)
(*                                                                         *)
(* Abstracted: reminder text and ids are opaque; the SHA-256 digest of a   *)
(* definition is the definition itself (collision-freedom); instants are   *)
(* natural numbers; the daily schedule is the constant function NextDaily, *)
(* any function into the future (AutomationSchedule is the code's own).    *)
(***************************************************************************)
EXTENDS Integers, Sequences, FiniteSets

CONSTANTS
    Automations,    \* ids a proposal may be given, compared by "<"
    Requests,       \* owner request threads
    Workers,        \* scheduler processes alive at the same time
    Contents,       \* definitions an owner may ask for
    NextDaily,      \* first daily slot strictly after an instant
    Grace,          \* AUTOMATION_MISFIRE_GRACE
    StaleAge,       \* AUTOMATION_STALE_CLAIM_AGE
    Batch,          \* AUTOMATION_DUE_BATCH_MAX
    ApprovalTTL,    \* AUTOMATION_APPROVAL_TTL
    OnceMinLead,    \* AUTOMATION_ONCE_MIN_LEAD
    OnceMaxHorizon, \* AUTOMATION_ONCE_MAX_HORIZON
    PendingMax,     \* AUTOMATION_PENDING_MAX
    ActiveMax,      \* AUTOMATION_ACTIVE_MAX
    MaxTime,        \* bound: the clock stays here
    MaxFaults       \* bound: crashes and failed ticks

Times == 0..MaxTime

ASSUME ConstantsAssumption ==
    /\ Automations \subseteq Nat /\ IsFiniteSet(Automations)
    /\ {Grace, StaleAge, Batch, ApprovalTTL, OnceMinLead, OnceMaxHorizon,
        PendingMax, ActiveMax, MaxTime, MaxFaults} \subseteq Nat

\* max_runs is 1 for a once definition and at least 1 for a daily one.
ASSUME ContentsAssumption ==
    \A c \in Contents :
        /\ c.kind \in {"once", "daily"}
        /\ c.runAt \in Nat
        /\ c.maxRuns \in Nat \ {0}
        /\ c.kind = "once" => c.maxRuns = 1

ASSUME NextDailyAssumption ==
    /\ NextDaily \in [Times -> Nat]
    /\ \A t \in Times : NextDaily[t] > t

NoDue == -1     \* next_due_at_utc IS NULL

VARIABLES
    now,        \* the wall clock
    enabled,    \* settings.oai_automation_enabled of the running process
    faults,     \* crashes and failed ticks so far
    defs,       \* automation_definitions
    runs,       \* automation_runs in insertion order; never deleted
    req,        \* locals of each owner request thread
    wk          \* locals of each scheduler worker

vars == <<now, enabled, faults, defs, runs, req, wk>>

-----------------------------------------------------------------------------
(* The tables and the repository's queries.                                *)

NoDefinition == [status |-> "none"]

\* Approval sets the first due slot, completion clears the last one, and a
\* cancelled row keeps the slot it had.
Definition ==
    [status : {"pending", "denied", "completed"},
     content : Contents, expiresAt : Nat, nextDue : {NoDue}]
    \cup [status : {"approved", "cancelled"},
          content : Contents, expiresAt : Nat, nextDue : Nat]

\* claimedAt is the instant of the tick that inserted the row (created_at);
\* the code's claimed_at column holds it for claims only.
Run == [automation : Automations, due : Times, claimedAt : Times,
        status : {"claimed", "delivered", "missed", "indeterminate"}]

RunsOf(a) == {i \in DOMAIN runs : runs[i].automation = a}

\* uq_automation_runs_automation_due: the slot already has a run.
SlotTaken(a, due) == \E i \in RunsOf(a) : runs[i].due = due

WithStatus(s) == {a \in Automations : defs[a].status = s}

PendingAfter(t) == {a \in WithStatus("pending") : defs[a].expiresAt > t}

\* A row of an ordered, bounded listing is <<sort key, id>>.
DueApproved(t) ==
    {<<defs[a].nextDue, a>> :
        a \in {b \in WithStatus("approved") :
                  defs[b].nextDue # NoDue /\ defs[b].nextDue <= t}}

StaleClaims(cutoff) ==
    {<<runs[i].claimedAt, i>> :
        i \in {j \in DOMAIN runs :
                  runs[j].status = "claimed" /\ runs[j].claimedAt <= cutoff}}

Before(x, y) == x[1] < y[1] \/ (x[1] = y[1] /\ x[2] < y[2])

\* Q is the rows S under ORDER BY key, id LIMIT Batch.
FirstBatch(Q, S) ==
    /\ Cardinality(Q) <= Batch
    /\ Q # S => Cardinality(Q) = Batch
    /\ \A x \in Q, y \in S \ Q : Before(x, y)

MatchesDue(a, due) == defs[a].status = "approved" /\ defs[a].nextDue = due

\* Mutant: one run too many.
Completes_OffByOne(a, count) ==
    defs[a].content.kind = "once" \/ count > defs[a].content.maxRuns

\* _advance_target, with the run count of the reading session.
Completes(a, count) ==
    defs[a].content.kind = "once" \/ count >= defs[a].content.maxRuns

\* The pair (None, True) is NoDue, (slot, False) is the slot.
AdvanceTarget(a, count, reference) ==
    IF Completes(a, count) THEN NoDue ELSE NextDaily[reference]

\* Mutant: the completed flag is lost.
Advanced_NotCompleted(d, target) == [d EXCEPT !.nextDue = target]

\* The row after advance_if_due.
Advanced(d, target) ==
    [d EXCEPT !.nextDue = target,
              !.status = IF target = NoDue THEN "completed" ELSE @]

-----------------------------------------------------------------------------
(* Owner requests (AutomationApprovalService).                             *)

NoRequest == [op |-> "idle"]

\* _validate_time_window
InWindow(c, t) ==
    c.kind = "once" => t + OnceMinLead <= c.runAt /\ c.runAt <= t + OnceMaxHorizon

InitialDue(c, t) == IF c.kind = "once" THEN c.runAt ELSE NextDaily[t]

ProposeBegin(q, c) ==
    /\ req[q] = NoRequest /\ enabled
    /\ InWindow(c, now)
    /\ Cardinality(PendingAfter(now)) < PendingMax
    /\ req' = [req EXCEPT ![q] = [op |-> "propose", content |-> c, at |-> now]]
    /\ UNCHANGED <<now, enabled, faults, defs, runs, wk>>

ProposeCommit(q, a) ==
    /\ req[q].op = "propose" /\ defs[a] = NoDefinition
    /\ defs' = [defs EXCEPT ![a] =
                  [status |-> "pending", content |-> req[q].content,
                   expiresAt |-> req[q].at + ApprovalTTL, nextDue |-> NoDue]]
    /\ req' = [req EXCEPT ![q] = NoRequest]
    /\ UNCHANGED <<now, enabled, faults, runs, wk>>

\* _pending_record: pending, unexpired at the request's clock, exact digest.
PendingRecord(a, digest) ==
    /\ defs[a].status = "pending"
    /\ defs[a].expiresAt > now
    /\ defs[a].content = digest

ApproveBegin(q, a, digest) ==
    /\ req[q] = NoRequest /\ enabled
    /\ PendingRecord(a, digest)
    /\ Cardinality(WithStatus("approved")) < ActiveMax
    /\ req' = [req EXCEPT ![q] = [op |-> "approve", automation |-> a,
                                  firstDue |-> InitialDue(digest, now)]]
    /\ UNCHANGED <<now, enabled, faults, defs, runs, wk>>

\* approve_if_pending; rowcount 0 is a rollback and a 409.
ApproveCommit(q) ==
    /\ req[q].op = "approve"
    /\ LET a == req[q].automation IN
         defs' = IF defs[a].status = "pending"
                 THEN [defs EXCEPT ![a] = [@ EXCEPT !.status = "approved",
                                                    !.nextDue = req[q].firstDue]]
                 ELSE defs
    /\ req' = [req EXCEPT ![q] = NoRequest]
    /\ UNCHANGED <<now, enabled, faults, runs, wk>>

DenyBegin(q, a, digest) ==
    /\ req[q] = NoRequest
    /\ PendingRecord(a, digest)
    /\ req' = [req EXCEPT ![q] = [op |-> "deny", automation |-> a]]
    /\ UNCHANGED <<now, enabled, faults, defs, runs, wk>>

CancelBegin(q, a) ==
    /\ req[q] = NoRequest
    /\ defs[a].status = "approved"
    /\ req' = [req EXCEPT ![q] = [op |-> "cancel", automation |-> a]]
    /\ UNCHANGED <<now, enabled, faults, defs, runs, wk>>

\* deny_if_pending and cancel_if_approved
TerminateCommit(q, op, from, to) ==
    /\ req[q].op = op
    /\ LET a == req[q].automation IN
         defs' = IF defs[a].status = from
                 THEN [defs EXCEPT ![a] = [@ EXCEPT !.status = to]] ELSE defs
    /\ req' = [req EXCEPT ![q] = NoRequest]
    /\ UNCHANGED <<now, enabled, faults, runs, wk>>

DenyCommit(q) == TerminateCommit(q, "deny", "pending", "denied")

CancelCommit(q) == TerminateCommit(q, "cancel", "approved", "cancelled")

-----------------------------------------------------------------------------
(* A scheduler tick (AutomationRunService.tick).                           *)

IdleWorker == [pc |-> "idle", at |-> 0, stale |-> {}, due |-> {},
               run |-> 0, target |-> NoDue]

Goes(w, v) == wk' = [wk EXCEPT ![w] = v]

\* The worker's loops take their rows in the listed order.
IsNext(x, S) == x \in S /\ \A y \in S \ {x} : Before(x, y)

\* Mutant: stale claims are not looked for.
TickBegin_NoRecovery(w) ==
    /\ wk[w].pc = "idle" /\ enabled
    /\ Goes(w, [IdleWorker EXCEPT !.pc = "recover", !.at = now])
    /\ UNCHANGED <<now, enabled, faults, defs, runs, req>>

\* tick reads its clock once; _recover_stale_claims lists the stale claims.
TickBegin(w) ==
    /\ wk[w].pc = "idle" /\ enabled
    /\ \E Q \in SUBSET StaleClaims(now - StaleAge) :
         /\ FirstBatch(Q, StaleClaims(now - StaleAge))
         /\ Goes(w, [IdleWorker EXCEPT !.pc = "recover", !.at = now, !.stale = Q])
    /\ UNCHANGED <<now, enabled, faults, defs, runs, req>>

\* _mark_indeterminate up to its first UPDATE.
RecoverRead(w) ==
    /\ wk[w].pc = "recover"
    /\ \E x \in wk[w].stale :
         /\ IsNext(x, wk[w].stale)
         /\ LET a == runs[x[2]].automation IN
              IF MatchesDue(a, runs[x[2]].due)
              THEN Goes(w, [wk[w] EXCEPT !.pc = "recover_write", !.run = x[2],
                     !.target = AdvanceTarget(a, Cardinality(RunsOf(a)), wk[w].at)])
              ELSE Goes(w, [wk[w] EXCEPT !.stale = @ \ {x}])
    /\ UNCHANGED <<now, enabled, faults, defs, runs, req>>

\* Mutant: the schedule is left for the next tick.
SettleClaim_RunOnly(i, outcome, target) ==
    IF runs[i].status = "claimed" /\ MatchesDue(runs[i].automation, runs[i].due)
    THEN runs' = [runs EXCEPT ![i].status = outcome] /\ UNCHANGED defs
    ELSE UNCHANGED <<runs, defs>>

\* Mutant: no rollback when the definition has moved on.
SettleClaim_NoRollback(i, outcome, target) ==
    LET a == runs[i].automation IN
      /\ runs' = IF runs[i].status = "claimed"
                 THEN [runs EXCEPT ![i].status = outcome] ELSE runs
      /\ defs' = IF MatchesDue(a, runs[i].due)
                 THEN [defs EXCEPT ![a] = Advanced(@, target)] ELSE defs

\* Mutant: the run's status is not compared either.
SettleClaim_Blind(i, outcome, target) ==
    LET a == runs[i].automation IN
      /\ runs' = [runs EXCEPT ![i].status = outcome]
      /\ defs' = IF MatchesDue(a, runs[i].due)
                 THEN [defs EXCEPT ![a] = Advanced(@, target)] ELSE defs

\* transition_claimed_run and advance_if_due: both rows, or rollback.
SettleClaim(i, outcome, target) ==
    LET a == runs[i].automation IN
      IF runs[i].status = "claimed" /\ MatchesDue(a, runs[i].due)
      THEN /\ runs' = [runs EXCEPT ![i] = [@ EXCEPT !.status = outcome]]
           /\ defs' = [defs EXCEPT ![a] = Advanced(@, target)]
      ELSE UNCHANGED <<runs, defs>>

RecoverWrite(w) ==
    /\ wk[w].pc = "recover_write"
    /\ SettleClaim(wk[w].run, "indeterminate", wk[w].target)
    /\ Goes(w, [wk[w] EXCEPT !.pc = "recover",
                             !.stale = {x \in @ : x[2] # wk[w].run}])
    /\ UNCHANGED <<now, enabled, faults, req>>

\* _due_slots, once every stale claim has been visited.
ScanDue(w) ==
    /\ wk[w].pc = "recover" /\ wk[w].stale = {}
    /\ \E Q \in SUBSET DueApproved(wk[w].at) :
         /\ FirstBatch(Q, DueApproved(wk[w].at))
         /\ Goes(w, [wk[w] EXCEPT !.pc = "due", !.due = Q])
    /\ UNCHANGED <<now, enabled, faults, defs, runs, req>>

\* _process_due_slot: a slot past the grace is missed, any other is claimed.
\* The definition is read here, before the INSERT.
DueRead(w) ==
    /\ wk[w].pc = "due"
    /\ \E x \in wk[w].due :
         /\ IsNext(x, wk[w].due)
         /\ IF ~MatchesDue(x[2], x[1]) THEN Goes(w, [wk[w] EXCEPT !.due = @ \ {x}])
            ELSE IF x[1] < wk[w].at - Grace THEN Goes(w, [wk[w] EXCEPT !.pc = "miss_write"])
            ELSE Goes(w, [wk[w] EXCEPT !.pc = "claim_write"])
    /\ UNCHANGED <<now, enabled, faults, defs, runs, req>>

NewRun(x, status, at) ==
    [automation |-> x[2], due |-> x[1], claimedAt |-> at, status |-> status]

\* _mark_missed: INSERT, count with the new row, advance_if_due, COMMIT.
\* The unique constraint or a lost definition rolls everything back.
MissWrite(w) ==
    /\ wk[w].pc = "miss_write"
    /\ \E x \in wk[w].due :
         /\ IsNext(x, wk[w].due)
         /\ IF ~SlotTaken(x[2], x[1]) /\ MatchesDue(x[2], x[1])
            THEN /\ runs' = Append(runs, NewRun(x, "missed", wk[w].at))
                 /\ defs' = [defs EXCEPT ![x[2]] = Advanced(@,
                      AdvanceTarget(x[2], Cardinality(RunsOf(x[2])) + 1, wk[w].at))]
            ELSE UNCHANGED <<runs, defs>>
         /\ Goes(w, [wk[w] EXCEPT !.pc = "due", !.due = @ \ {x}])
    /\ UNCHANGED <<now, enabled, faults, req>>

\* _claim's INSERT: guarded by the unique constraint alone.
ClaimWrite(w) ==
    /\ wk[w].pc = "claim_write"
    /\ \E x \in wk[w].due :
         /\ IsNext(x, wk[w].due)
         /\ IF SlotTaken(x[2], x[1])
            THEN /\ Goes(w, [wk[w] EXCEPT !.pc = "due", !.due = @ \ {x}])
                 /\ UNCHANGED runs
            ELSE /\ runs' = Append(runs, NewRun(x, "claimed", wk[w].at))
                 /\ Goes(w, [wk[w] EXCEPT !.pc = "deliver", !.due = @ \ {x},
                                         !.run = Len(runs) + 1])
    /\ UNCHANGED <<now, enabled, faults, defs, req>>

\* _deliver up to its first UPDATE.
DeliverRead(w) ==
    /\ wk[w].pc = "deliver"
    /\ LET r == runs[wk[w].run] IN
         IF MatchesDue(r.automation, r.due)
         THEN Goes(w, [wk[w] EXCEPT !.pc = "deliver_write",
                !.target = AdvanceTarget(r.automation,
                             Cardinality(RunsOf(r.automation)), r.due)])
         ELSE Goes(w, [wk[w] EXCEPT !.pc = "due"])
    /\ UNCHANGED <<now, enabled, faults, defs, runs, req>>

DeliverWrite(w) ==
    /\ wk[w].pc = "deliver_write"
    /\ SettleClaim(wk[w].run, "delivered", wk[w].target)
    /\ Goes(w, [wk[w] EXCEPT !.pc = "due"])
    /\ UNCHANGED <<now, enabled, faults, req>>

TickEnd(w) ==
    /\ wk[w].pc = "due" /\ wk[w].due = {}
    /\ Goes(w, IdleWorker)
    /\ UNCHANGED <<now, enabled, faults, defs, runs, req>>

\* AutomationScheduler.run swallows an exception of the tick ("database is
\* locked", say); the open transaction is rolled back.
TickFails(w) ==
    /\ wk[w].pc # "idle" /\ faults < MaxFaults
    /\ faults' = faults + 1
    /\ Goes(w, IdleWorker)
    /\ UNCHANGED <<now, enabled, defs, runs, req>>

\* The process dies and is started again, perhaps with another setting.
Restart ==
    /\ faults < MaxFaults
    /\ faults' = faults + 1
    /\ enabled' \in BOOLEAN
    /\ req' = [q \in Requests |-> NoRequest]
    /\ wk' = [w \in Workers |-> IdleWorker]
    /\ UNCHANGED <<now, defs, runs>>

ClockTick ==
    /\ now' = IF now < MaxTime THEN now + 1 ELSE now
    /\ UNCHANGED <<enabled, faults, defs, runs, req, wk>>

-----------------------------------------------------------------------------

Init ==
    /\ now = 0 /\ enabled \in BOOLEAN /\ faults = 0
    /\ defs = [a \in Automations |-> NoDefinition]
    /\ runs = << >>
    /\ req = [q \in Requests |-> NoRequest]
    /\ wk = [w \in Workers |-> IdleWorker]

Owner ==
    \E q \in Requests :
        \/ \E c \in Contents : ProposeBegin(q, c)
        \/ \E a \in Automations : ProposeCommit(q, a) \/ CancelBegin(q, a)
        \/ \E a \in Automations, digest \in Contents :
              ApproveBegin(q, a, digest) \/ DenyBegin(q, a, digest)
        \/ ApproveCommit(q) \/ DenyCommit(q) \/ CancelCommit(q)

WorkerStep(w) ==
    \/ TickBegin(w) \/ RecoverRead(w) \/ RecoverWrite(w) \/ ScanDue(w)
    \/ DueRead(w) \/ MissWrite(w) \/ ClaimWrite(w)
    \/ DeliverRead(w) \/ DeliverWrite(w) \/ TickEnd(w)

Next ==
    \/ Owner
    \/ \E w \in Workers : WorkerStep(w) \/ TickFails(w)
    \/ Restart
    \/ ClockTick

Spec == Init /\ [][Next]_vars

\* The polling loop keeps ticking and time passes; owners promise nothing.
FairSpec ==
    Spec /\ WF_vars(ClockTick) /\ \A w \in Workers : WF_vars(WorkerStep(w))

-----------------------------------------------------------------------------
(* Types.                                                                  *)

Request ==
    {NoRequest}
    \cup [op : {"propose"}, content : Contents, at : Times]
    \cup [op : {"approve"}, automation : Automations, firstDue : Nat]
    \cup [op : {"deny", "cancel"}, automation : Automations]

Worker ==
    [pc : {"idle", "recover", "recover_write", "due", "miss_write",
           "claim_write", "deliver", "deliver_write"},
     at : Times,
     stale : SUBSET (Times \X Nat), due : SUBSET (Times \X Automations),
     run : Nat, target : Nat \cup {NoDue}]

\* Every row and every thread's locals have the shape of the models and the
\* service methods.
TypeOK ==
    /\ now \in Times /\ enabled \in BOOLEAN /\ faults \in 0..MaxFaults
    /\ defs \in [Automations -> Definition \cup {NoDefinition}]
    /\ runs \in Seq(Run)
    /\ req \in [Requests -> Request]
    /\ wk \in [Workers -> Worker]

-----------------------------------------------------------------------------
(* Safety.                                                                 *)

\* The owner approved max_runs reminders: however many workers, crashes and
\* cancellations there are, no automation ever has more run rows than that.
RunsWithinGrant ==
    \A a \in Automations :
        defs[a] # NoDefinition => Cardinality(RunsOf(a)) <= defs[a].content.maxRuns

\* The schedule never points back: every run of an active automation is of
\* an earlier slot than the next one due, or is the open claim of that slot.
\* A slot already delivered, missed or indeterminate is never due again.
ScheduleMovesOn ==
    \A a \in WithStatus("approved") : \A i \in RunsOf(a) :
        \/ runs[i].due < defs[a].nextDue
        \/ runs[i].due = defs[a].nextDue /\ runs[i].status = "claimed"

\* Run i leaves the state it was claimed in, or is inserted already missed.
Settles(i) ==
    /\ i \in DOMAIN runs'
    /\ runs'[i].status # "claimed"
    /\ i \in DOMAIN runs => runs[i].status = "claimed"

\* A run is settled in the very step that moves its automation past the slot,
\* and only while the grant is active: never after a cancellation, never
\* without advancing the schedule, and the schedule never advances over a
\* slot without recording what became of it.  What is over then stays as it is
\* recorded: no run row is removed and a settled one never changes; a denied,
\* cancelled or completed definition never changes again, and no decision or
\* tick alters what the owner approved.
SettlementIsFinal ==
    [][/\ \A a \in Automations :
            LET settled == {i \in DOMAIN runs' : runs'[i].automation = a /\ Settles(i)} IN
              /\ \A i \in settled :
                    /\ MatchesDue(a, runs'[i].due)
                    /\ defs'[a].nextDue # defs[a].nextDue
              /\ (defs[a].status = "approved" /\ defs'[a].nextDue # defs[a].nextDue)
                    => \E i \in settled : runs'[i].due = defs[a].nextDue
              /\ defs[a].status \in {"denied", "cancelled", "completed"}
                    => defs'[a] = defs[a]
              /\ defs[a] # NoDefinition => defs'[a].content = defs[a].content
       /\ Len(runs') >= Len(runs)
       /\ \A i \in DOMAIN runs : runs[i].status # "claimed" => runs'[i] = runs[i]]_vars

-----------------------------------------------------------------------------
(* Liveness.                                                               *)

\* A due slot of an active automation is settled, by delivery, as missed or,
\* after a crash, as indeterminate, unless the owner revokes the grant or
\* the scheduler is switched off.  The slot leaves the clock room to make a
\* claim of it stale.
DueSlotSettles ==
    \A a \in Automations, d \in Times :
        (MatchesDue(a, d) /\ d + Grace + StaleAge <= MaxTime)
            ~> (~MatchesDue(a, d) \/ ~enabled)

=============================================================================

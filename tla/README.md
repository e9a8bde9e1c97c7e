# O-AI: specifications, model checks and proofs

O-AI is a local-first personal assistant: a Next.js client, a FastAPI backend
(`src/backend/app`) and one SQL database. What its architecture insists on is
*authority*: nothing changes outside the process unless the owner has seen it,
approved it and the approval is spent at most once. These modules specify the
parts that carry that promise, the durable state around them, and the chat turns
that everything starts from.

Contents: [the system](#1-the-system), [modules](#2-the-modules),
[runs](#3-the-runs), [findings](#4-what-the-code-does-otherwise-than-the-documents-say),
[proofs](#5-the-proofs), [not modelled](#6-not-modelled), [plan](#7-plan).

## 1. The system

The backend is one uvicorn process. Endpoints and their dependencies are plain
functions, so FastAPI runs each in a thread of a pool: **two requests interleave
at every point outside a lock or a transaction**. State lives in three places:

| Where | What | How it is protected |
| --- | --- | --- |
| SQL tables (SQLite, or PostgreSQL under docker-compose) | projects, proposals, automations, memories, conversations, knowledge, experiences, credentials | transactions opened at the first write, compare-and-set UPDATEs in some, unique constraints |
| process memory | approval stores, claim stores, bindings, questions, plugin stores, turn leases, token cache | one lock per store, no lock across two stores; lost by a restart |
| the world | provider mailboxes and calendars, local models, the owner's files | nothing: only the order of the calls |

The stores are made by `@lru_cache` factories in `api/dependencies.py`, on first
use. One task of the event loop, the automation scheduler, runs beside the
requests and ticks in a worker thread every 60 seconds.

### Components

| Component | State | Operations | Talks to | What is hard | Correct when |
| --- | --- | --- | --- | --- | --- |
| Durable automations | `automation_definitions`, `automation_runs` | propose, approve, deny, cancel; tick: recover, claim, deliver, miss | database, delivery | several workers, crash between claim and delivery, schedules that move | never more reminders than granted, no slot twice, crashed claims settle |
| Daily schedule | none | next slot in a time zone | automations | skipped and doubled local times | the first slot is found, once per local date |
| Gmail send lane | approval store, claim store | propose, approve, deny, execute | credential broker, Gmail | two stores without a common lock, replays, unclear answers | one attempt per approval, in time, with a true outcome |
| Calendar write lane | approval store, three bindings, follow-up, selection | propose, approve, deny, execute by three routes | Google Calendar | six critical sections per proposal, lost answers | one attempt per approval, one decision per selection |
| Local AI control | approval store | propose, decide and dispatch | local model server | the model changes between look and dispatch | one dispatch, after a look that agreed |
| Controlled Engineering Apply | binding store, approval store, a file | propose, approve, deny, apply, show | disk | three pieces of state, other programs on the disk, expiry during a write | one write per approval, of what was reviewed; the owner is not misled |
| Execution approval, governed execution | five stores | propose, register, approve, deny, capture | module runtime, experience records | a decision before the binding is registered, evidence that fails half-way | one execution per approval, risky plans never run |
| Experience review and trust | reviews, trusted rows, lessons | accept, reject, promote, revoke | database | decisions that overlap, rows that outlive the process | only accepted evidence is trusted, decisions are final |
| Google OAuth | flow states, credential row, token cache | start, complete, resolve, disconnect | Google | connect beside disconnect beside refresh | no rotation lost, no token left behind |
| Chat turns | conversations, messages, turn leases | cognitive, context and bridge turns, delete | AI provider, projects, memories | two transactions around a model call | a reply has seen what it answers, and was verified |
| Chat actions | questions, bindings, pending reads, connector context | ask, answer, bind, decide, analyze | approvals, connectors, model | four stores, no common lock | a question is answered once; the model sees only what was approved |
| Projects and proposals | `projects`, `project_revisions`, `project_update_proposals` | create, edit, change status; propose, approve, reject | chat turns | stale reads before each transaction | complete history, approvals hit their base, decisions final |
| Personal memories | memory rows, versions | propose, confirm, reject, archive, delete | chat turns, recovery check | no compare-and-set, a trigger | only an approved version is told to the chat; pointers and numbers hold |
| Knowledge | documents, chunks, FTS index | scan, delete | files | files that change during a scan | the index follows the files |
| Plugins | governance, loading, exposure, binding, activation | admit, load, activate, revoke, call | module registry | each step reads an earlier store | a call reaches only what is admitted and current |
| Cached factories | the caches | first use | all lanes | two threads miss together | one store of each kind |
| Chat page of the client | React state of the mounted page, `localStorage`, a version per choice | mount, restore, new, submit, decide on a card | the API | answers in any order, pages that are left with requests under way | only the owner's last choice takes the screen; no wait for an answer that will be dropped |
| Organs, assessments, guard and planner, routing, audit, the rest of the frontend, migrations | none, or none that decides | pure functions, I/O | | | see [section 6](#6-not-modelled) |

`PROJECT.json` lists each with its sources, and the hazards at their lines with
the properties that watch them.

## 2. The modules

| Module | What it is |
| --- | --- |
| `OneShotAuthority` | abstract: what every approval lane promises |
| `GmailSend`, `CalendarWrite`, `LocalAIControl`, `EngineeringApply`, `GovernedExecution` | five lanes that implement it |
| `ExperienceTrust` | extends `GovernedExecution` with what becomes of its evidence |
| `OAuthCredentials` | the credential and the token cache |
| `Automation`, `AutomationSchedule` | approval and scheduling of durable reminders; the daily rule |
| `CognitiveTurn` | chat turns of the three lanes over the conversations |
| `ChatActions` | what a chat remembers between two messages |
| `ProjectUpdates`, `Memories`, `KnowledgeScan` | durable state |
| `PluginLifecycle` | from the owner's admission to the wrapper's call |
| `FirstUse` | concurrent first use of the cached store factories |
| `ChatClient` | the Chat page of the browser: requests, answers in any order, what is shown and stored |
| `AutomationProofs`, `AutomationApplyProofs`, `GmailSendProofs`, `ChatProofs`, `OwnerLanesProofs`, `ProjectUpdatesProofs`, `ExecutionProofs`, `StoresProofs` | theorems, see [section 5](#5-the-proofs) |
| `MCAutomationApply`, `MCOwnerLanes`, `MCStores`, `MCLive`, `MCAutomation`, `MCEngineeringApply`, `MCChatClient` | instances for TLC |

All follow one convention. A thread (or worker) has a record of locals with a
program counter `pc`; each action is one critical section, one transaction or one
call out of the process, with everything the code changes in it; anything may
happen between two actions. Ids that the code draws at random are members of a
finite set, never drawn twice (allocation is refused when none is left, which the
code's collision loop also ends in). A SHA-256 digest is the content it was taken from.
Variables and definitions of a module carry its prefix (`cal`, `eng`, `gov`, ...)
where several are checked in one run. Variables marked *history* remember what a property
speaks of and guard nothing.

**OneShotAuthority.** For each approval its standing (unasked, pending, approved,
denied, spent, gone), its terms, and the effects made in its name. Authority only
shrinks; the one action with an effect, `Act`, needs a spent approval that has had none,
and makes the effect its terms say. Each lane implements it by a refinement mapping.
GmailSend derives the standing from two stores *and* the threads that still carry an
approved snapshot; EngineeringApply from the store and the thread in flight, because the
record may be dropped under that thread; CalendarWrite and LocalAIControl from the
record and the history of claims; GovernedExecution, which deletes the record when it decides,
from the thread that carries the decision.

**GmailSend.** `items` is the approval store, `claims` the claim store, `mail` and
`delivered` the provider. Each store method reads the clock before it takes its
lock, so a thread carries an instant `now` that may be old when it is served;
`Claim` reads the clock again inside the lock, as the code does. `SendMessage` may be
accepted, rejected, refused before anything was posted, or unclear, in which
case the message may or may not have arrived. `Restart` loses both stores.

**CalendarWrite.** One store holds approval and claim; `calBound`, `calSelection` and
`calFollowup` are the stores that only correlate. Three routes lead to a decision: the private API
(id and digest), Chat (the conversation's binding), and the card of an event the owner
picked. A proposal from a card is `CalSelect`, `CalFollow`, `CalCreate`, `CalUnfollow`, `CalSpend` and
`CalBind`, with `CalNeutralize` for the way back; each step has its own clock and may lose its race.
The provider's answer may be lost with the change made.

**LocalAIControl.** One request decides, revalidates, claims, dispatches and looks again
(`LaiDecide`, `LaiRevalidate`, `LaiClaim`, `LaiDispatch`, `LaiVerify`). `LaiDrift` is anybody else who loads or unloads the model
between any two of these. `laiSeen` remembers the states it was in since the approval.

**EngineeringApply.** `engBindings` is what the owner is shown, `engItems` is authority,
`engFile` is content and identity of the file. `EngDraft` observes the base,
`EngRevalidate` looks again before the claim, `EngResolve` and `EngRecheck` are the adapter's two
looks after it, and `EngPublish` is `os.link` (fails on an existing target) or `os.replace`
(does not). `EngEdit` is another program. Instants are any between the thread's previous
step and the present.

**GovernedExecution and ExperienceTrust.** Five dicts under a lock each: the records of
`PendingExecutionApprovalStore`, the cognitive and the chat bindings, feedback and runtime
outcomes. A decision looks at the binding, decides in the record's store, dispatches,
and each later stage of the evidence may fail, find its store full, or be cut off by
the end of the process. A review row is captured by the same request; it outlives the
process, and the owner's accept, reject, promote and revoke load a row and then change
it by compare-and-set.

**OAuthCredentials.** Flow states (a dict), the credential's row, and the token manager's
cache, whose lock is held through the whole refresh. `oaGranted` and `oaRevoked` are
Google's side. A thread keeps the row it loaded, and writes the columns that differ from it.

**Automation and AutomationSchedule.** `defs` and `runs` are the two tables. `ProposeBegin`,
`ApproveBegin`, ... are the reads of `AutomationApprovalService` (they take no
lock), `...Commit` its transactions, with the WHERE clause of the repository's
compare-and-set. A tick is `TickBegin`, then `RecoverRead`/`RecoverWrite` per
stale claim, `ScanDue`, then `DueRead` and `MissWrite` or `ClaimWrite`,
`DeliverRead`, `DeliverWrite`. `SettleClaim` settles a run *and* moves
the schedule, or rolls both back. `TickFails` is the exception the
polling loop swallows; `Restart` kills every thread and may come back with the
feature switched on or off. Several workers stand for overlapping processes, and for
the tick thread that outlives its cancelled task at a shutdown. `NextDaily` is any
function into the future; `AutomationSchedule` shows that the code's daily search is one. A zone
there is what its clock shows at each instant, so that a clock put forward skips
times and one put back shows them twice.

**CognitiveTurn.** Three lanes write to the same conversations. A cognitive turn reserves
its conversation, takes the lease, freezes a snapshot (reacquired once if the world
moved), commits the question, lets the model draft, a critic review and at most one
revision follow, passes the gate and commits the reply; the context and the bridge lanes take no
lease. A critic answers pass, revise or invalid; anything else ends the turn, as does a refused call. A new conversation is inserted without a commit and holds SQLite's write lock until its turn
ends. Deletes, edits of the project and restarts come anywhere in between.

**ChatActions.** `send_chat_message` tries its lanes in a fixed order, from the question that
awaits an answer (`ChaClassify`) to the model (`ChaModel`). What is remembered between two messages: the date
a conversation was asked to confirm, the approvals bound to a conversation, and the results
of approved reads that a joint analysis may show to the model. `ChaClassify` and `ChaConsume`
are the two locks an answer passes. A Calendar write looks twice for a pending one (`ChaCheck`): before the
turn begins and before it proposes.

**ProjectUpdates.** A transaction is one action: its first UPDATE takes the lock and
every WHERE is evaluated under it. Each earlier read is an action of its own.
`IsCurrent` is the compare-and-set of `mutate_if_current` together with the unique
constraint on the revision number; `DatabaseFails` ends a request anywhere, with
nothing written.

**Memories.** The same shape without a compare-and-set: a thread writes the columns that
differ from the row it loaded, whatever the row holds by now. The database refuses a second version of
one number, an UPDATE of a row that has gone and, by the trigger of migration 0004, the UPDATE of a
version that is no longer pending: of two decisions that raced, the second is rolled back (the
mutant without the trigger breaks `MemHistoryIsComplete`). `MemPointersHold` and `MemStateHolds` are what
`db/recovery.py` demands of each row.

**KnowledgeScan.** A scan discovers, hashes, compares, extracts and stores file by file, then marks what it
did not see as missing, while files are edited and documents deleted between any two
steps. What cannot be read keeps its earlier index; a file that vanishes where nothing catches
it ends the scan.

**PluginLifecycle.** The owner's decision, loading under a lock, exposure, permission
binding, activation under another lock, the registry captured by a request, and the wrapper's
check when it is called (`PlgConfirm`, `PlgRun`). `PlgCurrent` is the chain of lookups upstream.

**FirstUse.** `lru_cache` stores a value when the factory returns, so two threads
that both miss build two objects; the first to finish is kept. The module runs the Gmail lane over such
stores, without clock and capacity.

**ChatClient.** One event loop, so an action is one handler or the code between two `await`s, and
`cliRequests` is everything sent and not yet answered; any of it may be answered next, or fail. A read or a
turn carries the `restoreVersion` it was sent with (`CliCurrent`), a decision on a card only what was shown
at the click. `CliRemount` leaves the page and comes back to it (`WorkspaceResetBoundary`, or another
route), with or without a reload. `cliChosen` remembers the owner's last choice.

## 3. The runs

Components that share no state are checked in one run. A variable `lane` picks one of them at the
start; the variables of the others keep their single initial state. So a run explores the
*sum* of the components' behaviours, never their product. Two modules are split further:
the approvals of `ExperienceTrust` ("execution") and the owner's decisions on what they
left ("trust"); the questions and writes of `ChatActions` ("asking") and its reads
and analyses ("reading").

| Run | Instance | Shows |
| --- | --- | --- |
| `automations_apply` | `MCAutomationApply.cfg`: 1 automation, 2 owner requests, 2 workers, clock 0..3, 1 fault; 2 approvals of 1 conversation, 2 threads, 1 fault; a Chat page with 2 conversations, 2 cards, 3 versions | run rows within the grant, schedule moves on, settlement atomic, records final; the owner is shown the truth, one active workflow, a create never overwrites, one-shot authority; only the last choice takes the screen, every awaited answer counts |
| `lanes` | `MCOwnerLanes.cfg`: two threads in each of six components | one attempt, true outcomes and answers, no late claim, one-shot authority of three lanes; one decision per selection; the model's state was seen; no rotation or token lost; replies saw the conversation and were verified, and insufficient evidence gets the fixed reply only; the owner said so |
| `stores` | `MCStores.cfg`: two threads in each of six components, one scan after the other | complete histories, approvals hit their base, only approvals show, risky plans never run, trust has evidence, decisions final, calls current, the index follows the folder |
| `live` | `MCLive.cfg`: 1 automation, 1 worker, clock 0..5, 2 faults; 2 approvals, 2 threads, 1 restart | every due slot settles; every claim of the Gmail lane gets its outcome unless the process dies |
| `automation_starved` | `MCAutomation_starved.cfg`: 2 automations, recovery batch of 1 | *violated*: a claim that cannot settle starves the others |
| `engineering_overwrite` | `MCEngineeringApply_overwrite.cfg`: 3 contents, 2 conversations | *violated*: a replacement can destroy another |
| `engineering_unrecorded` | `MCEngineeringApply_unrecorded.cfg`: clock 0..1 | *violated*: a write whose outcome is never recorded |
| `firstuse_attempts` | `MCStores_attempts.cfg`: 1 approval | *violated*: two attempts from a fresh process |
| `oauth_revoked` | `MCOwnerLanes_revoked.cfg` | *violated*: a credential is deleted that was never revoked |
| `memories_unrecoverable` | `MCStores_unrecoverable.cfg` | *violated*: a row that the recovery check refuses |
| `client_mixed` | `MCChatClient_mixed.cfg`: 2 conversations, 1 card, 2 versions | *violated*: a late answer puts another conversation on screen |

What each property says of which code stands above it in its module.

**Bounds.** Two threads are enough for a check in one and a change in the other, and
each lane has at most one check-to-use window open per thread; the theorems of
section 5 lift the bound for every safety property of every passing run. Three versions of the Chat page are a restore at the
mount, a new conversation and a choice, or a page left and mounted again with its restore. Stores of capacity one make "full" and "evicted"
happen at once; lifetimes of one instant make every step meet its
expiry. Where three things must meet there are three: a memory's third version, a project's third
revision, three grants and two rotations (a connect during a refresh during a disconnect), three
activation tokens, three messages (ask, answer, answer again). The constants named `...Max...` that are
commented as bounds (`MaxTime`, `MaxFaults`, `MaxRevision`, `CalMaxCalls`, `OaMaxRotations`,
`ChaMaxTurns`, ...) only stop the counters; the others are the code's own limits. Where everything the
bounds allow has been asked for and answered, `AllAnswered`, `CalAllAnswered` and `ChaAllAnswered` stutter. TLC
checks deadlock in every passing run, so a request that could get stuck anywhere else would be found. The
clock of `Automation` stays at `MaxTime` rather than stopping the system, so that the liveness run has no
artificial end.

**Symmetry** is used where a run checks no liveness and no action compares the permuted
values; automations are ordered and never permuted.

**Fairness.** `live` assumes it and nothing else does. `Automation!FairSpec`: the clock goes on, and each
worker step that stays possible is taken, which the 60-second loop guarantees because it swallows every
exception and ticks again. Owners, failures and restarts are not fair. `GmailSend!FairSpec`: a handler that
has started goes on; it waits only for locks that are always released and for calls
with a timeout. Nobody has to call. `LiveSpec` states both, each in its own lane.

**The time zone search** is compared with its reference definition in every zone of a small family
(`MCSearchIsRight`, an assumption that TLC evaluates): clocks put forward or back twice, by less than a
day, a day, or more.

**Mutants.** `PROJECT.json` names, for every property of every passing run, a plausible
bug in a modelled definition that the run then finds: a forgotten re-check inside
a lock, a status that is trusted after the read, a commit too early, a released
claim, a question not cleared. They stand in the modules beside what they mutate.

## 4. What the code does otherwise than the documents say

1. **A crashed claim may never be recovered** (`automation_starved`). The claim of an
   automation that is cancelled before its delivery can neither be delivered nor
   made indeterminate. Such claims stay the oldest, fill the recovery batch, and
   keep every other stale claim out of it, for ever. `DECISIONS.md:2438` promises
   `indeterminate` after five minutes.
2. **A reviewed replacement can overwrite another** (`engineering_overwrite`). Nothing
   ties the last digest check to `os.replace`; D108 (line 954) says "terminal stale, not
   overwrite". For `create_text` the promise holds: `os.link` refuses.
3. **A change on disk without a recorded outcome** (`engineering_unrecorded`). An
   expired record is dropped whatever its state, also while its thread writes.
4. **Two attempts for one approval, once per process** (`firstuse_attempts`). The first
   two executions after a start can meet in the claim store's factory and claim in
   two stores. `GmailSend` assumes one store.
5. **A grant is deleted without having been revoked** (`oauth_revoked`). Disconnect revokes
   the token it read and deletes the row it finds. A connect in between replaces the row;
   `DECISIONS.md:1712` promises revocation first.
6. **The memory API makes rows that the recovery check refuses** (`memories_unrecoverable`). An update of
   a rejected or an archived memory sets the pending version and leaves the state. `db/recovery.py:221` and
   `:231` reject that combination, so `verify`, and with it every backup and restore,
   fails until the owner has decided the new version. Three requests in a row are enough.
7. **The answer to an approval card takes over another conversation** (`client_mixed`). The completion
   handlers compare the answer with the conversation of the click, which is the card's own. If the owner starts
   or picks another conversation while the decision is under way, the reply is appended there, the old
   conversation is the active one again, also in `localStorage`, and the next message goes to it. `chat.tsx:427`
   means to refuse this; D124 (line 119) forbids it.

Two more disagreements are known and no run is spent on them. An activation of a plugin outlives a
revocation when the subject is admitted again before anybody looks at it, although `ARCHITECTURE.md:1379`
asks for a new `activate`: `PlgRevoke` changes no store but the decisions'. And the bound of 32
active automations can be passed: `approve` counts without a lock and commits later; it is a limit on a personal calendar of reminders.

## 5. The proofs

Checked by TLAPS for every value of the constants that satisfies the module's
assumption: any number of threads, workers, approvals, projects, revisions, conversations, any
lifetime and capacity.

Every safety property and every action property of every passing run is a theorem. Each
component has its type invariant and an inductive invariant (`...IInv`); TLC checked it on
the run's instance, or on smaller ones, before it was proved.

| Module | About | Theorems beside type correctness |
| --- | --- | --- |
| `AutomationProofs` | Automation | `GrantIsRespected`, `ScheduleIsMonotonic`, `FinalityHolds` |
| | AutomationSchedule | `NextDailyIsFirstSlot` (the first slot in every zone), `OneSlotPerLocalDate` |
| `AutomationApplyProofs` | EngineeringApply | `EngTruthfulPresentation`, `EngCreateIsSafe`, `EngImplements` |
| | ChatClient | `ClientAnswersAwaited`, `ClientOnlyLastChoiceShows` |
| | run `automations_apply` | `ApplyTypesCorrect` |
| `GmailSendProofs` | GmailSend | `OneAttempt`, `TruthfulOutcome`, `NoLateClaim`, `OutcomeIsFinal`, `Implements` |
| `ChatProofs` | CognitiveTurn | `RepliesSawTheConversation`, `OnlyVerifiedPublished`, `InsufficiencyFixed` |
| | ChatActions | `ChaSaidSo`, `ChaStaysOut` |
| `OwnerLanesProofs` | CalendarWrite | `CalTruthfulAnswers`, `CalOneDecision`, `CalImplements` |
| | LocalAIControl | `LaiTruthfulAnswers`, `LaiSeenBeforeDispatch`, `LaiImplements` |
| | OAuthCredentials | `OaRefreshSafe` |
| | run `lanes` | `LaneTypesCorrect`, `LaneTruthfulAnswers`, `LaneImplements` |
| `ProjectUpdatesProofs` | ProjectUpdates | `CompleteHistory`, `ApprovalHitsItsBase`, `NotesAreDecisions`, `AllowedTransitions`, `RecordStays` |
| `ExecutionProofs` | GovernedExecution | `GovRiskyFailsClosed`, `GovImplements` |
| | ExperienceTrust | `ExpEvidence`, `ExpFinality` |
| | PluginLifecycle | `PlgCurrentCalls`, `PlgRemoval` |
| `StoresProofs` | Memories | `MemoryHistoryComplete`, `MemoryOnlyApprovalsShow` |
| | KnowledgeScan | `KnoSettles` |
| | FirstUse | `FuOneClaimStore` |
| | run `stores` | `StoreTypesCorrect` |

`...Implements` is `OneShotAuthority` under the lane's refinement mapping: the initial states map to
initial states and each action to `Ask`, `Decide`, `Lapse`, `Spend`, `Act` or a stutter. The properties of a whole run
(`TypesOK`, `AnswersAreTruthful`, `LanesImplementAuthority`) follow from the components': a step of
the run is a step of one of them and a stutter of the others (`LaneSteps`, `StoreSteps`, `ApplySteps`), so
the specification of the run implies theirs, the bounded steps of `ExecutionNext` and `TrustNext` included.

**Automation.** `RunsWithinGrant` is not inductive: a worker inserts a row from a slot it
read earlier. `GInv` adds what makes the insertion safe. All rows of an automation have distinct
slots (`RowsOK`); while the next slot of an approved or cancelled automation has no row,
its grant has one left (`GrantOK`); the schedule lies beyond the settled runs; and
what a worker carries (`WorkersOK`) still fits: the slot it is about to claim is the next
one or has been taken since, and the target it is about to write moves the schedule
forward and, if it can still be written, leaves a run to grant. The counting steps are lemmas on finite
cardinality. A worker that lost a race is
harmless because the unique constraint and `MatchesDue` are evaluated in its write. `SettlementIsFinal`
follows from the same invariant, one lemma per kind of step (an owner's, a claim, a missed slot, a
settlement): a settlement moves the schedule because the target a worker carries lies beyond the slot.

**AutomationSchedule.** The search takes local dates in order and stops at the first with a result. That no
*instant* before the result is a slot needs the shape of a zone (`IsZone`): a clock that is put back
shows only dates and times it has shown before, so nothing is shown for the first time too late.

**GmailSend.** `IInv` says what each thread may still do: a snapshot on its way to the claim
store is still approved or already too old to be claimed (`Snapshot`); a thread past its
claim owns it and has not posted before its turn (`Owned`), and no two threads own
the same one (`Exclusive`). What could still be claimed has not been sent (`Unspent`):
a restart empties the claim store, but the approvals are forgotten with it
and ids are never issued twice (`Fresh`). With that, each action maps to `Ask`,
`Decide`, `Lapse`, `Spend`, `Act` or a stutter.

**ProjectUpdates.** The properties are inductive together with two facts about values in
flight: a thread's expected revision and its values were read from a revision that still is in the
history (`RequestsOK`), and a proposal's base exists (`ProposalsOK`). The
compare-and-set then makes the read revision the current one at the write, so a
transition checked on the read is allowed at the write.

**CognitiveTurn.** A reply's place is decided long before it is written, so `CogIInv` follows each
cognitive turn through its steps: it holds the lease of its conversation until it has
replied or failed (`Exclusive`, which the lanes without a lease cannot disturb); what it froze
still holds every cognitive message (`FrozenSawAll`); once asked, its question stands with
no cognitive message after it (`Asked`); a critic's review is of the draft at hand, and past the gate
the draft is verified (`Gated`). `IdleIsSilent` and `ReplyEnds` keep a turn from having written
before it started or after it ended. A lemma says what a step that writes no message may change (`Becomes`), so
most actions need only show that they are such a step. The published draft is a reviewed one
(`ReviewedPublished`) or the fixed one; that an insufficient reply is the fixed one (`CogGrounded`)
rests on two facts: a critic has no word for "insufficient", so the verdict comes from the cognitive state; and a turn
whose state asked for the fixed reply has called no model, so a revision, which needs a primary call before it, is refused.

**Memories.** A thread computes a version number from a row it read long ago, so the
numbering alone is not inductive. `MemThreadsOK` says that the row, if it is still there, has
not gone back behind what was read; a free number is then the next one (`MemFreeIsNext`). Decisions
need no such fact, because the trigger looks at the version itself.

**ChatClient.** Versions grow, so nothing outdated becomes current again (`CliFresh`). At most one
read counts, the page is waiting for it, and it is for the last choice (`CliReadsOK`); at most one turn
is of the mounted page, and no choice outdates it, because choices are refused while it runs (`CliTurnsOK`).
Four lemmas say what a step may do to these waits: nothing, a new version, the end of a read, the end of a turn;
each action is one of the four.

**CalendarWrite and LocalAIControl.** One store holds approval and claim, so the record and the history of
claims agree (`CalRecords`, `LaiRecords`), and of the threads that work on one approval one is past the claim
(`CalExclusive`, `LaiExclusive`). It alone knows what happened, and nobody has told the owner anything else yet
(`CalHolderOK`, `LaiActingOK`): an answer that comes of a lost race says "indeterminate". That a picked event leads to one
decision is a matter of three places: the selection is there, or one proposal has taken it, or one card is
known to the owner, never two of these (`CalPickedOnce`). For the local model, what is about to be
dispatched was looked up by the same thread after the approval, so it is among the states seen.

**EngineeringApply.** A thread that holds the claim knows whether the file is written
and carries the outcome that says so (`EngThreadOK`, `EngTells`). The store may drop the record under it; what is shown
as denied, stale or failed stays true because nobody is left who could write (`EngOver`). `EngExclusive` keeps a second
claim away although the record has gone: ids are never drawn twice.

**GovernedExecution and ExperienceTrust.** The record is deleted by the decision, so the threads carry the
authority (`GovThreadOK`): past the record's consumption one thread has it (`GovExclusive`), nothing ran before its
dispatch, and an approval of an R1 action never gets there, because an R1 approval the owner knows of is bound
until it is consumed (`GovStoresOK`). Evidence in each store is of what ran. An owner's request may carry an old row;
its compare-and-set, and the review it has seen accepted, which never changes again, make that harmless.

**OAuthCredentials.** One lock spans a refresh (`OaThreadOK`). While it is held nobody rotates the grant that
was loaded, and if the row has gone the thread that deleted it is still to clear the cache. `OaNewGrants`
says that a grant on its way to the row is nowhere else, so a connect cannot bring an old one back.

**ChatActions.** Each date is in one place: asked in one conversation, carried by one thread, or
named by one approval (`ChaDateOK`), which is what two locks in a row (`ChaClassify`, `ChaConsume`) have to
preserve. An approval the owner was told of stays bound while it can be decided (`ChaTracked`), so a typed approval finds it;
what each lane has let pass is recorded by `ChaPassed`. Sources and conversations of captured results are
those of the approvals that read them (`ChaContextOK`, `ChaBundleOK`).

**PluginLifecycle.** Tokens are never made twice. A call whose activation was over at its start cannot match
a later one (`PlgThreadOK`), and each stage that is under way has the stages before it.

**KnowledgeScan.** While nobody disturbs a scan, every file it has visited is settled, but for the one in its
hands, which still has the content it was hashed by (`KnoSoFar`). A scan that was disturbed owes nothing.

**FirstUse.** `FuOneClaimStore` is the other side of finding 4: if all threads were given one store of claims, no approval leads to two
attempts, however many approval stores and services were made. So the second store of claims alone is the cause,
and the assumption under which `GmailSend` models the lane is the right one.

One precaution on the prover: with tlapm 1.4.5 the SMT translation
identifies two `CASE` expressions with the same guards, whatever their arms, so
no module that is proved about uses `CASE`.

Assumptions are those named in the modules (`...ConstantsAssumption`, `ContentsAssumption`,
`NextDailyAssumption`): bounds are naturals, ids and stand-ins for "none" are distinct, finite sets where the code counts.
`MCSearchIsRight`, which `AutomationApplyProofs` sees through `MCAutomation`, is cited by no proof.

**Only model-checked**: the two liveness properties, `DueSlotSettles` and `ClaimSettles` (fairness is out of the prover's
reach), that the search of `AutomationSchedule` finds a slot whenever there is one (`MCSearchIsRight`), and the seven violations.

## 6. Not modelled

The backend has some 105 000 lines. The modules stand for those that keep state which several
requests share, and for the steps that change it. Most of the rest changes nothing: frozen
dataclasses and the checks of their fields, parsers of English and Thai messages, prompts,
projections for a reader, HTTP and SQL plumbing, and forms that show what the API answers. The D-series
of assessments (idempotency, retry, receipts, compensation, readiness, ...) computes verdicts from a history
and enforces none of them. A model of these would repeat the code, and no property relates two
of their states, so the share of lines covered stays far below what a count
of files suggests.

* **Cognitive organs, experience and quality records**: values of one request in, values of
  the same request out; `CognitiveTurn` keeps the action they recommend. Records are best effort and nothing
  reads them back to decide.
* **Commands, guard, planner, module runtime; AI routing and adapters; read-only connectors and
  tools**: stateless validation, selection and I/O. The lanes keep the order of the calls.
* **Project action execution**: the claiming and completing services have no caller in the
  application, so only pending proposals exist.
* **Retrieval** (memories, experiences, knowledge answers, context layers): read-only ranking.
* **Audit, usage and telemetry**: failures are swallowed, nothing depends on them.
* **Migrations, verification, recovery**: offline tools of one operator.
* **Restarts** of CalendarWrite, LocalAIControl and ChatActions empty every store and leave nothing to decide
  or to claim; they are left out there, and kept where something outlives them.

What is known to be exposed and has no property: a binding of an approval nobody decides and a claim
record of the Gmail lane are never freed, so their stores fill up for the life of the process; a
connect may seed the token cache after a disconnect has cleared it (it lives for an hour at most); the context and bridge lanes take no lease, so their messages may stand between a
cognitive question and its reply; a new question replaces the one a conversation was asked; an older read
that is captured late replaces a newer one; the look at the local model before the claim says nothing
of its state at the dispatch; a scan takes a file for unchanged by its hash alone; a conversation for which a
project update was proposed can never be deleted, because the proposal's foreign key has no ON DELETE
(`services/conversations.py:639` fails); and the Engineering panel of the client shows no workflow when its
first read (`engineering-owner-panel.tsx:101`) is answered after a proposal made meanwhile.

## 7. Plan

1. Proofs of what the findings leave intact: that an apply replaces nothing but its base if no
   other program writes between the last look and the write; that a disconnect revokes what it deletes if no
   connect overlaps it; that the recovery check accepts every row the memory API makes if no update follows
   a rejection or an archive.
2. The safety part of `DueSlotSettles`: which steps of a worker stay possible until a due slot is settled.

## Running

    tlc -config MCOwnerLanes.cfg MCOwnerLanes.tla      # one to four minutes
    tlapm OwnerLanesProofs.tla                         # about seven minutes; the others take less
    tlapm StoresProofs.tla

-------------------------- MODULE ExecutionProofs --------------------------
(***************************************************************************)
(* The execution approvals, the trust that is built on what they left, and *)
(* the plugins, for every number of threads, ids, lessons and plugins.     *)
(***************************************************************************)
EXTENDS ExperienceTrust, PluginLifecycle, TLAPS

-----------------------------------------------------------------------------
(* GovernedExecution: the inductive invariant.                              *)

\* The steps that follow the record's consumption.
GovAtWork == {"authorize", "dispatch", "feedback", "integrate", "capture", "insert",
              "discard", "complete"}

\* What a thread has made sure of: a decision under way has spent the record,
\* an approval that is carried out is of no R1 action, and only what ran
\* succeeded.
GovThreadOK(t) ==
    LET q == govThreads[t] IN
    /\ q.pc # "idle" => q.id \in GovIds /\ govIssued[q.id] # GovNone
    /\ q.pc = "register" => govIssued[q.id] \in GovCognitive
    /\ q.pc = "bind" => govIssued[q.id] = "plugin"
    /\ q.pc \notin {"idle", "register", "bind"} =>
          q.decision \in {"approved", "denied"} /\ q.bound \in {govIssued[q.id], GovNone}
    /\ q.pc = "consume" /\ q.decision = "approved" /\ govIssued[q.id] = "R1" =>
          govRecords[q.id] = GovGone
    /\ q.pc \in {"consume", "authorize", "dispatch"} => q.result = "none"
    /\ q.pc = "feedback" => q.result # "none"
    /\ q.pc \in GovAtWork => govRecords[q.id] = GovGone
    /\ q.pc \in {"authorize", "dispatch"} =>
          /\ govRuns[q.id] = <<>>
          /\ q.decision = "approved" => govIssued[q.id] # "R1"
    /\ q.pc = "dispatch" => q.decision = "approved"
    /\ q.pc # "idle" /\ q.result = "succeeded" => govRuns[q.id] # <<>>
    /\ q.pc = "insert" => govRuns[q.id] = <<"R0">>

\* A consumed approval is one thread's.
GovExclusive ==
    \A s, t \in GovThreads :
        {govThreads[s].pc, govThreads[t].pc} \subseteq {"authorize", "dispatch"}
            /\ govThreads[s].id = govThreads[t].id => s = t

\* An R1 approval the owner knows of is bound or consumed; evidence is of what
\* ran, and eligible of an R0 action that did.
GovStoresOK ==
    \A a \in GovIds :
        /\ govIssued[a] = GovNone => govRecords[a] = GovGone /\ a \notin govTold
        /\ govRuns[a] \in {<<>>, <<govIssued[a]>>}
        /\ govRuns[a] # <<>> => govIssued[a] \notin {"R1", GovNone} /\ govRecords[a] = GovGone
        /\ govBindings[a] \in {govIssued[a], GovNone}
        /\ a \in govTold /\ govIssued[a] = "R1" =>
              govBindings[a] = "R1" \/ govRecords[a] = GovGone
        /\ govFeedback[a] = "succeeded" => govRuns[a] # <<>>
        /\ govRuntime[a] = "eligible" => govRuns[a] = <<"R0">>

GovIInv ==
    /\ GovTypeOK
    /\ \A t \in GovThreads : GovThreadOK(t)
    /\ GovExclusive /\ GovStoresOK

-----------------------------------------------------------------------------
(* GovernedExecution: types.                                                *)

GovExpiry == GovGone..(GovMaxTime + GovTTL)

\* GovTypeOK without the threads.
GovStoresType ==
    /\ govRecords \in [GovIds -> GovExpiry]
    /\ govBindings \in [GovIds -> GovCognitive \cup {GovNone}]
    /\ govChat \in [GovIds -> GovExpiry]
    /\ govFeedback \in [GovIds -> GovClasses \cup {GovNone}]
    /\ govRuntime \in [GovIds -> {"eligible", "ineligible", GovNone}]
    /\ govActive \in BOOLEAN
    /\ govClock \in 0..GovMaxTime
    /\ govRestarts \in 0..GovMaxRestarts
    /\ govIssued \in [GovIds -> GovKinds \cup {GovNone}]
    /\ govTold \subseteq GovIds
    /\ govRuns \in [GovIds -> Seq(GovKinds)]

LEMMA GovTypes == GovTypeOK <=> GovStoresType /\ govThreads \in [GovThreads -> GovThread]
BY DEF GovTypeOK, GovStoresType, GovExpiry

LEMMA GovTypesNext ==
    GovTypeOK' <=> GovStoresType' /\ govThreads' \in [GovThreads -> GovThread]
BY DEF GovTypeOK, GovStoresType, GovExpiry

LEMMA GovBounds ==
    /\ GovTTL \in Nat /\ GovMaxPending \in Nat /\ GovMaxItems \in Nat
    /\ GovMaxTime \in Nat /\ GovMaxRestarts \in Nat
    /\ GovNone \notin GovIds
    /\ GovNone \notin {"direct", "plugin", "R0", "R1"} /\ GovNone \notin GovKinds
    /\ GovCognitive = GovKinds \cap {"R0", "R1"}
    /\ GovKinds \subseteq {"direct", "plugin", "R0", "R1"}
BY GovConstantsAssumption DEF GovCognitive

LEMMA GovIdleIs ==
    /\ GovIdle \in GovThread /\ GovIdle.pc = "idle" /\ GovIdle.id = GovNone
    /\ GovIdle.result = "none" /\ GovIdle.decision = "none" /\ GovIdle.bound = GovNone
    /\ GovIdle.now = 0
BY GovBounds DEF GovIdle, GovThread

LEMMA GovGoneIs == GovGone \in GovExpiry /\ GovGone < 0
BY GovBounds DEF GovGone, GovExpiry

LEMMA GovThreadIs ==
    ASSUME GovIInv, NEW t \in GovThreads
    PROVE  /\ GovTypeOK /\ GovStoresType /\ GovStoresOK /\ GovThreadOK(t)
           /\ govThreads \in [GovThreads -> GovThread]
           /\ govThreads[t] \in GovThread
BY GovTypes DEF GovIInv

LEMMA GovGoesIs ==
    ASSUME GovIInv, NEW t \in GovThreads, NEW p \in GovThread, GovGoes(t, p)
    PROVE  /\ govThreads' \in [GovThreads -> GovThread]
           /\ govThreads'[t] = p
           /\ \A s \in GovThreads \ {t} : govThreads'[s] = govThreads[s]
BY GovThreadIs DEF GovGoes

\* What _cleanup_expired leaves.
LEMMA GovCleanedIs ==
    ASSUME NEW store \in [GovIds -> GovExpiry], NEW now
    PROVE  /\ GovCleaned(store, now) \in [GovIds -> GovExpiry]
           /\ \A a \in GovIds : GovCleaned(store, now)[a] \in {store[a], GovGone}
BY GovGoneIs DEF GovCleaned

\* A thread that goes on with what it has.
LEMMA GovStepIs ==
    ASSUME GovIInv, NEW t \in GovThreads,
           NEW pc \in {"dispatch", "integrate", "capture", "insert", "discard", "complete"},
           GovStep(t, pc)
    PROVE  \E p \in GovThread :
              /\ GovGoes(t, p) /\ p.pc = pc /\ p.id = govThreads[t].id
              /\ p.decision = govThreads[t].decision /\ p.bound = govThreads[t].bound
              /\ p.result = govThreads[t].result
<1> DEFINE p == [govThreads[t] EXCEPT !.pc = pc]
<1>1. /\ p \in GovThread /\ p.pc = pc /\ p.id = govThreads[t].id
      /\ p.decision = govThreads[t].decision /\ p.bound = govThreads[t].bound
      /\ p.result = govThreads[t].result
  BY GovThreadIs DEF GovThread
<1>2. GovGoes(t, p)
  BY DEF GovStep
<1> HIDE DEF p
<1> QED
  BY <1>1, <1>2

-----------------------------------------------------------------------------
(* GovernedExecution: what a step leaves alone.                             *)

\* A step of one thread: an id keeps its kind, a spent record stays spent, and
\* only a dispatch adds to what ran.
LEMMA GovThreadStep ==
    ASSUME GovIInv, NEW t \in GovThreads, NEW p \in GovThread, GovGoes(t, p),
           GovStoresType', GovStoresOK', GovThreadOK(t)',
           \A a \in GovIds :
              /\ govIssued[a] # GovNone => govIssued'[a] = govIssued[a]
              /\ govIssued[a] # GovNone /\ govRecords[a] = GovGone => govRecords'[a] = GovGone
              /\ \/ govRuns'[a] = govRuns[a]
                 \/ /\ govThreads[t].pc = "dispatch" /\ govThreads[t].id = a
                    /\ govRuns'[a] # <<>>,
           p.pc \in {"authorize", "dispatch"} =>
              /\ p.id = govThreads[t].id
              /\ govThreads[t].pc = "authorize" \/ govRecords[p.id] # GovGone
    PROVE  GovIInv'
<1>1. /\ govThreads' \in [GovThreads -> GovThread]
      /\ govThreads'[t] = p
      /\ \A s \in GovThreads \ {t} : govThreads'[s] = govThreads[s]
  BY GovGoesIs
<1>2. GovTypeOK'
  BY <1>1, GovTypesNext
<1>3. ASSUME NEW s \in GovThreads \ {t} PROVE GovThreadOK(s)'
  <2>1. GovThreadOK(s) /\ GovThreadOK(t) /\ GovExclusive
    BY DEF GovIInv
  <2>2. CASE govThreads[s].pc = "idle"
    BY <1>1, <2>2 DEF GovThreadOK, GovAtWork
  <2>3. CASE govThreads[s].pc # "idle"
    <3> DEFINE a == govThreads[s].id
    <3>1. a \in GovIds /\ govIssued[a] # GovNone /\ govIssued'[a] = govIssued[a]
      BY <2>1, <2>3 DEF GovThreadOK
    <3>2. govRecords[a] = GovGone => govRecords'[a] = GovGone
      BY <3>1
    <3>3. /\ govRuns[a] # <<>> => govRuns'[a] = govRuns[a] \/ govRuns'[a] # <<>>
          /\ govRuns[a] = <<"R0">> => govRuns'[a] = <<"R0">>
          /\ govThreads[s].pc \in {"authorize", "dispatch"} => govRuns'[a] = govRuns[a]
      <4>1. CASE govRuns'[a] = govRuns[a]
        BY <4>1
      <4>2. CASE govThreads[t].pc = "dispatch" /\ govThreads[t].id = a /\ govRuns'[a] # <<>>
        <5>1. govRuns[a] = <<>>
          BY <2>1, <4>2 DEF GovThreadOK
        <5>2. govThreads[s].pc \notin {"authorize", "dispatch"}
          BY <2>1, <4>2 DEF GovExclusive
        <5>3. <<>> # <<"R0">>
          OBVIOUS
        <5> QED
          BY <5>1, <5>2, <5>3
      <4> QED
        BY <3>1, <4>1, <4>2
    <3> QED
      BY <1>1, <2>1, <2>3, <3>1, <3>2, <3>3 DEF GovThreadOK, GovAtWork
  <2> QED
    BY <2>2, <2>3
<1>4. GovExclusive'
  <2>1. GovThreadOK(t) /\ GovExclusive
    BY DEF GovIInv
  <2>2. ASSUME NEW s \in GovThreads \ {t}, govThreads[s].pc \in {"authorize", "dispatch"},
               p.pc \in {"authorize", "dispatch"}
        PROVE  govThreads[s].id # p.id
    <3>1. GovThreadOK(s)
      BY DEF GovIInv
    <3> QED
      BY <2>1, <2>2, <3>1 DEF GovExclusive, GovThreadOK, GovAtWork
  <2> SUFFICES ASSUME NEW u \in GovThreads, NEW v \in GovThreads,
                      govThreads'[u].pc \in {"authorize", "dispatch"},
                      govThreads'[v].pc \in {"authorize", "dispatch"},
                      govThreads'[u].id = govThreads'[v].id
               PROVE  u = v
    BY DEF GovExclusive
  <2>3. CASE u # t /\ v # t
    <3>1. govThreads[u].pc \in {"authorize", "dispatch"} /\ govThreads[v].pc \in {"authorize", "dispatch"}
          /\ govThreads[u].id = govThreads[v].id
      BY <1>1, <2>3
    <3> QED
      BY <2>1, <3>1 DEF GovExclusive
  <2>4. CASE u = t \/ v = t
    BY <1>1, <2>2, <2>4
  <2> QED
    BY <2>3, <2>4
<1>5. \A s \in GovThreads : GovThreadOK(s)'
  BY <1>3
<1> QED
  BY <1>2, <1>4, <1>5 DEF GovIInv

\* A step that leaves the records, the kinds and what ran alone.
LEMMA GovQuiet ==
    ASSUME GovIInv, NEW t \in GovThreads, NEW p \in GovThread, GovGoes(t, p),
           UNCHANGED <<govRecords, govBindings, govFeedback, govRuntime, govIssued, govTold,
                       govRuns, govWorld>>,
           govChat' \in [GovIds -> GovExpiry],
           p.pc \in {"authorize", "dispatch"} =>
              p.id = govThreads[t].id /\ govThreads[t].pc = "authorize",
           GovThreadOK(t)'
    PROVE  GovIInv'
<1>1. UNCHANGED <<govActive, govClock, govRestarts>>
  BY DEF govWorld
<1>2. GovStoresType' /\ GovStoresOK'
  BY <1>1, GovThreadIs DEF GovStoresType, GovStoresOK
<1> QED
  BY <1>2, GovThreadStep

LEMMA GovReplyIs ==
    ASSUME GovIInv, NEW t \in GovThreads, GovReply(t)
    PROVE  /\ GovGoes(t, GovIdle) /\ govThreads'[t] = GovIdle /\ GovThreadOK(t)'
<1>1. GovGoes(t, GovIdle) /\ govThreads'[t] = GovIdle
  BY GovIdleIs, GovGoesIs DEF GovReply
<1> QED
  BY <1>1, GovIdleIs DEF GovThreadOK, GovAtWork


-----------------------------------------------------------------------------
(* GovernedExecution: the actions.                                          *)

LEMMA GovProposeOK ==
    ASSUME GovIInv, NEW t \in GovThreads, NEW a \in GovIds, NEW kind \in GovKinds,
           GovPropose(t, a, kind)
    PROVE  GovIInv'
<1>1. /\ GovStoresType /\ GovStoresOK /\ govThreads[t].pc = "idle" /\ govIssued[a] = GovNone
  BY GovThreadIs DEF GovPropose
<1>2. PICK now \in 0..govClock :
        /\ govRecords' = [GovCleaned(govRecords, now) EXCEPT ![a] = now + GovTTL]
        /\ govIssued' = [govIssued EXCEPT ![a] = kind]
        /\ \/ kind = "direct" /\ GovReply(t) /\ govTold' = govTold \cup {a}
           \/ /\ kind # "direct" /\ UNCHANGED govTold
              /\ GovGoes(t, [GovIdle EXCEPT !.id = a, !.active = TRUE,
                          !.pc = IF kind = "plugin" THEN "bind" ELSE "register"])
  BY DEF GovPropose
<1>3. UNCHANGED <<govBindings, govChat, govFeedback, govRuntime, govActive, govClock,
                  govRestarts, govRuns>>
  BY DEF GovPropose, govWorld
<1>4. now + GovTTL \in GovExpiry /\ now + GovTTL # GovGone
  <2>1. now \in Nat /\ now <= GovMaxTime /\ GovTTL \in Nat /\ GovMaxTime \in Nat
    BY <1>1, GovBounds DEF GovStoresType
  <2> QED
    BY <2>1 DEF GovExpiry, GovGone
<1>5. /\ govRecords' \in [GovIds -> GovExpiry]
      /\ govRecords'[a] # GovGone
      /\ \A b \in GovIds \ {a} : govRecords'[b] \in {govRecords[b], GovGone}
  <2> DEFINE cleaned == GovCleaned(govRecords, now)
  <2>1. cleaned \in [GovIds -> GovExpiry] /\ \A b \in GovIds : cleaned[b] \in {govRecords[b], GovGone}
    BY <1>1, GovCleanedIs DEF GovStoresType
  <2>2. govRecords' = [cleaned EXCEPT ![a] = now + GovTTL]
    BY <1>2
  <2> HIDE DEF cleaned
  <2> QED
    BY <1>4, <2>1, <2>2
<1>6. /\ govIssued' \in [GovIds -> GovKinds \cup {GovNone}] /\ govIssued'[a] = kind
      /\ \A b \in GovIds \ {a} : govIssued'[b] = govIssued[b]
  BY <1>1, <1>2 DEF GovStoresType
<1>7. govTold' \subseteq GovIds /\ (kind # "direct" => a \notin govTold')
      /\ \A b \in GovIds \ {a} : b \in govTold' => b \in govTold
  BY <1>1, <1>2 DEF GovStoresType, GovStoresOK
<1>8. GovStoresType'
  BY <1>1, <1>3, <1>5, <1>6, <1>7 DEF GovStoresType
<1>9. GovStoresOK'
  <2>1. govRuns[a] = <<>> /\ govBindings[a] = GovNone
    BY <1>1 DEF GovStoresOK
  <2>2. ASSUME NEW b \in GovIds \ {a}
        PROVE  /\ govRecords[b] = GovGone => govRecords'[b] = GovGone
               /\ govIssued'[b] = govIssued[b] /\ (b \in govTold' => b \in govTold)
    BY <1>5, <1>6, <1>7
  <2>3. kind # GovNone
    BY GovBounds
  <2>4. kind = "R1" => kind # "direct"
    OBVIOUS
  <2> QED
    BY <1>1, <1>3, <1>5, <1>6, <1>7, <2>1, <2>2, <2>3, <2>4 DEF GovStoresOK
<1>10. \A b \in GovIds :
          /\ govIssued[b] # GovNone => govIssued'[b] = govIssued[b]
          /\ govIssued[b] # GovNone /\ govRecords[b] = GovGone => govRecords'[b] = GovGone
          /\ govRuns'[b] = govRuns[b]
  BY <1>1, <1>3, <1>5, <1>6
<1>11. CASE GovReply(t)
  BY <1>8, <1>9, <1>10, <1>11, GovReplyIs, GovIdleIs, GovThreadStep
<1>12. CASE /\ kind # "direct"
            /\ GovGoes(t, [GovIdle EXCEPT !.id = a, !.active = TRUE,
                          !.pc = IF kind = "plugin" THEN "bind" ELSE "register"])
  <2> DEFINE p == [GovIdle EXCEPT !.id = a, !.active = TRUE,
                          !.pc = IF kind = "plugin" THEN "bind" ELSE "register"]
  <2>1. /\ p \in GovThread /\ p.id = a /\ p.result = "none"
        /\ p.pc \in {"bind", "register"} /\ (p.pc = "bind" => kind = "plugin")
        /\ (p.pc = "register" => kind # "plugin")
    BY GovIdleIs DEF GovIdle, GovThread
  <2>2. GovGoes(t, p)
    BY <1>12
  <2> HIDE DEF p
  <2>3. govThreads'[t] = p
    BY <2>1, <2>2, GovGoesIs
  <2>4. kind # "plugin" => kind \in GovCognitive
    BY <1>12, GovBounds
  <2>5. GovThreadOK(t)'
    BY <1>6, <2>1, <2>3, <2>4, GovBounds DEF GovThreadOK, GovAtWork
  <2> QED
    BY <1>8, <1>9, <1>10, <2>1, <2>2, <2>5, GovThreadStep
<1> QED
  BY <1>2, <1>11, <1>12

LEMMA GovRegisterOK ==
    ASSUME GovIInv, NEW t \in GovThreads, GovRegister(t)
    PROVE  GovIInv'
<1> DEFINE a == govThreads[t].id
<1>1. /\ GovStoresType /\ GovStoresOK /\ a \in GovIds /\ govIssued[a] \in GovCognitive
      /\ govIssued[a] # GovNone
  BY GovThreadIs, GovBounds DEF GovRegister, GovThreadOK
<1>2. /\ UNCHANGED <<govRecords, govChat, govFeedback, govRuntime, govActive, govClock,
                     govRestarts, govIssued, govRuns>>
      /\ GovReply(t)
      /\ \/ govBindings' = [govBindings EXCEPT ![a] = govIssued[a]] /\ govTold' = govTold \cup {a}
         \/ UNCHANGED <<govBindings, govTold>>
  BY DEF GovRegister, govWorld
<1>3. GovStoresType'
  BY <1>1, <1>2 DEF GovStoresType
<1>4. GovStoresOK'
  <2>1. CASE UNCHANGED <<govBindings, govTold>>
    BY <1>1, <1>2, <2>1 DEF GovStoresOK
  <2>2. CASE govBindings' = [govBindings EXCEPT ![a] = govIssued[a]] /\ govTold' = govTold \cup {a}
    <3>1. /\ govBindings'[a] = govIssued[a]
          /\ \A b \in GovIds \ {a} : govBindings'[b] = govBindings[b] /\ (b \in govTold' <=> b \in govTold)
      BY <1>1, <2>2 DEF GovStoresType
    <3> QED
      BY <1>1, <1>2, <3>1 DEF GovStoresOK
  <2> QED
    BY <1>2, <2>1, <2>2
<1> QED
  BY <1>2, <1>3, <1>4, GovReplyIs, GovIdleIs, GovThreadStep

LEMMA GovBindChatOK ==
    ASSUME GovIInv, NEW t \in GovThreads, GovBindChat(t)
    PROVE  GovIInv'
<1> DEFINE a == govThreads[t].id
           cleaned == GovCleaned(govChat, govClock)
           until == IF govRecords[a] = GovGone THEN govClock ELSE govRecords[a]
<1>1. /\ GovStoresType /\ GovStoresOK /\ a \in GovIds /\ govIssued[a] = "plugin"
  BY GovThreadIs DEF GovBindChat, GovThreadOK
<1>2. /\ UNCHANGED <<govRecords, govBindings, govFeedback, govRuntime, govActive, govClock,
                     govRestarts, govIssued, govRuns>>
      /\ GovReply(t)
      /\ govChat' = [cleaned EXCEPT ![a] = until] \/ govChat' = cleaned
      /\ govTold' \in {govTold, govTold \cup {a}}
  BY DEF GovBindChat, govWorld
<1>3. govChat' \in [GovIds -> GovExpiry]
  <2>1. until \in GovExpiry
    <3>1. govClock \in GovExpiry
      BY <1>1, GovBounds DEF GovStoresType, GovExpiry, GovGone
    <3> QED
      BY <1>1, <3>1 DEF GovStoresType
  <2>2. cleaned \in [GovIds -> GovExpiry]
    BY <1>1, GovCleanedIs DEF GovStoresType
  <2> HIDE DEF cleaned, until
  <2> QED
    BY <1>2, <2>1, <2>2
<1>4. GovStoresType' /\ GovStoresOK'
  <2>1. GovStoresType'
    BY <1>1, <1>2, <1>3 DEF GovStoresType
  <2>2. GovStoresOK'
    <3>1. "plugin" # GovNone /\ "plugin" # "R1"
      BY GovBounds
    <3>2. \A b \in GovIds \ {a} : b \in govTold' => b \in govTold
      BY <1>2
    <3> QED
      BY <1>1, <1>2, <3>1, <3>2 DEF GovStoresOK
  <2> QED
    BY <2>1, <2>2
<1> QED
  BY <1>2, <1>4, GovReplyIs, GovIdleIs, GovThreadStep

LEMMA GovDecideOK ==
    ASSUME GovIInv, NEW t \in GovThreads, NEW a \in GovIds,
           NEW decision \in {"approved", "denied"}, GovDecide(t, a, decision)
    PROVE  GovIInv'
<1>1. /\ GovStoresType /\ GovStoresOK /\ a \in govTold /\ govIssued[a] # GovNone
      /\ decision = "approved" => govBindings[a] # "R1"
  BY GovThreadIs DEF GovDecide, GovStoresOK
<1>2. UNCHANGED <<govRecords, govBindings, govChat, govFeedback, govRuntime, govIssued, govTold,
                  govRuns, govWorld>>
  BY DEF GovDecide, govStores, govHistory
<1>3. PICK right \in BOOLEAN :
          GovGoes(t, [GovIdle EXCEPT !.pc = "consume", !.id = a, !.decision = decision,
                !.right = right, !.bound = govBindings[a], !.active = govActive,
                !.now = govClock])
  BY DEF GovDecide
<1> DEFINE p == [GovIdle EXCEPT !.pc = "consume", !.id = a, !.decision = decision,
                !.right = right, !.bound = govBindings[a], !.active = govActive,
                !.now = govClock]
<1>4. /\ p \in GovThread /\ p.pc = "consume" /\ p.id = a /\ p.decision = decision
      /\ p.bound = govBindings[a] /\ p.result = "none"
  BY <1>1 DEF GovIdle, GovThread, GovStoresType
<1>5. GovGoes(t, p)
  BY <1>3
<1> HIDE DEF p
<1>6. govThreads'[t] = p
  BY <1>4, <1>5, GovGoesIs
<1>7. GovThreadOK(t)'
  <2>1. p.bound \in {govIssued[a], GovNone}
    BY <1>1, <1>4 DEF GovStoresOK
  <2>2. decision = "approved" /\ govIssued[a] = "R1" => govRecords[a] = GovGone
    BY <1>1 DEF GovStoresOK
  <2> QED
    BY <1>1, <1>2, <1>4, <1>6, <2>1, <2>2 DEF GovThreadOK, GovAtWork
<1> QED
  BY <1>1, <1>2, <1>4, <1>5, <1>7, GovQuiet DEF GovStoresType

LEMMA GovConsumeOK ==
    ASSUME GovIInv, NEW t \in GovThreads, GovConsume(t)
    PROVE  GovIInv'
<1> DEFINE q == govThreads[t]
           a == govThreads[t].id
<1>1. /\ GovStoresType /\ GovStoresOK /\ GovThreadOK(t) /\ q \in GovThread
      /\ a \in GovIds /\ govIssued[a] # GovNone /\ q.pc = "consume" /\ q.result = "none"
      /\ q.decision \in {"approved", "denied"} /\ q.bound \in {govIssued[a], GovNone}
  BY GovThreadIs DEF GovConsume, GovThreadOK
<1>2. /\ UNCHANGED <<govBindings, govChat, govFeedback, govRuntime, govActive, govClock,
                     govRestarts, govIssued, govTold, govRuns>>
      /\ govRecords' = [govRecords EXCEPT ![a] = GovGone]
  BY DEF GovConsume, govWorld, govHistory
<1>3. /\ govRecords' \in [GovIds -> GovExpiry] /\ govRecords'[a] = GovGone
      /\ \A b \in GovIds \ {a} : govRecords'[b] = govRecords[b]
  BY <1>1, <1>2, GovGoneIs DEF GovStoresType
<1>4. GovStoresType' /\ GovStoresOK'
  BY <1>1, <1>2, <1>3 DEF GovStoresType, GovStoresOK
<1>5. \A b \in GovIds :
          /\ govIssued'[b] = govIssued[b] /\ govRuns'[b] = govRuns[b]
          /\ govRecords[b] = GovGone => govRecords'[b] = GovGone
  BY <1>2, <1>3
<1>6. CASE GovReply(t)
  BY <1>4, <1>5, <1>6, GovReplyIs, GovIdleIs, GovThreadStep
<1>7. CASE GovGoes(t, [q EXCEPT !.pc = "discard", !.result = "none"])
  <2> DEFINE p == [q EXCEPT !.pc = "discard", !.result = "none"]
  <2>1. /\ p \in GovThread /\ p.pc = "discard" /\ p.id = a /\ p.result = "none"
        /\ p.decision = q.decision /\ p.bound = q.bound
    BY <1>1 DEF GovThread
  <2>2. GovGoes(t, p)
    BY <1>7
  <2> HIDE DEF p
  <2>3. govThreads'[t] = p
    BY <2>1, <2>2, GovGoesIs
  <2>4. GovThreadOK(t)'
    BY <1>1, <1>2, <1>3, <2>1, <2>3 DEF GovThreadOK, GovAtWork
  <2> QED
    BY <1>4, <1>5, <2>1, <2>2, <2>4, GovThreadStep
<1>8. ASSUME NEW now \in q.now..govClock, govRecords[a] # GovGone,
             GovGoes(t, [q EXCEPT !.pc = "authorize", !.now = now])
      PROVE  GovIInv'
  <2> DEFINE p == [q EXCEPT !.pc = "authorize", !.now = now]
  <2>1. now \in 0..GovMaxTime
    <3>1. q.now \in Nat /\ govClock \in Nat /\ govClock <= GovMaxTime /\ GovMaxTime \in Nat
      BY <1>1, GovBounds DEF GovThread, GovStoresType
    <3> QED
      BY <3>1
  <2>2. /\ p \in GovThread /\ p.pc = "authorize" /\ p.id = a /\ p.result = "none"
        /\ p.decision = q.decision /\ p.bound = q.bound
    BY <1>1, <2>1 DEF GovThread
  <2>3. GovGoes(t, p)
    BY <1>8
  <2> HIDE DEF p
  <2>4. govThreads'[t] = p
    BY <2>2, <2>3, GovGoesIs
  <2>5. govRuns[a] = <<>> /\ (q.decision = "approved" => govIssued[a] # "R1")
    BY <1>1, <1>8 DEF GovStoresOK, GovThreadOK
  <2>6. GovThreadOK(t)'
    BY <1>1, <1>2, <1>3, <2>2, <2>4, <2>5 DEF GovThreadOK, GovAtWork
  <2> QED
    BY <1>1, <1>4, <1>5, <1>8, <2>2, <2>3, <2>6, GovThreadStep
<1> QED
  BY <1>6, <1>7, <1>8 DEF GovConsume, GovFails

LEMMA GovAuthorizeOK ==
    ASSUME GovIInv, NEW t \in GovThreads, GovAuthorize(t)
    PROVE  GovIInv'
<1> DEFINE q == govThreads[t]
<1>1. /\ GovStoresType /\ GovThreadOK(t) /\ q \in GovThread /\ q.pc = "authorize"
      /\ q.id \in GovIds /\ govIssued[q.id] # GovNone
  BY GovThreadIs DEF GovAuthorize, GovThreadOK
<1>2. UNCHANGED <<govRecords, govBindings, govChat, govFeedback, govRuntime, govIssued, govTold,
                  govRuns, govWorld>>
  BY DEF GovAuthorize, govStores, govHistory
<1>3. CASE q.decision = "approved" /\ GovStep(t, "dispatch")
  <2>1. PICK p \in GovThread :
              /\ GovGoes(t, p) /\ p.pc = "dispatch" /\ p.id = govThreads[t].id
              /\ p.decision = govThreads[t].decision /\ p.bound = govThreads[t].bound
              /\ p.result = govThreads[t].result
    BY <1>3, GovStepIs
  <2>2. govThreads'[t] = p
    BY <2>1, GovGoesIs
  <2>3. GovThreadOK(t)'
    BY <1>1, <1>2, <1>3, <2>1, <2>2 DEF GovThreadOK, GovAtWork
  <2> QED
    BY <1>1, <1>2, <2>1, <2>3, GovQuiet DEF GovStoresType
<1>4. ASSUME NEW pc \in {"complete", "feedback"}, NEW result \in {"adverse", "denied", "lost"},
             GovGoes(t, [q EXCEPT !.pc = pc, !.result = result])
      PROVE  GovIInv'
  <2> DEFINE p == [q EXCEPT !.pc = pc, !.result = result]
  <2>1. /\ p \in GovThread /\ p.pc = pc /\ p.id = q.id /\ p.result = result
        /\ p.decision = q.decision /\ p.bound = q.bound
    BY <1>1 DEF GovThread, GovClasses
  <2>2. GovGoes(t, p)
    BY <1>4
  <2> HIDE DEF p
  <2>3. govThreads'[t] = p
    BY <2>1, <2>2, GovGoesIs
  <2>4. GovThreadOK(t)'
    BY <1>1, <1>2, <2>1, <2>3 DEF GovThreadOK, GovAtWork
  <2> QED
    BY <1>1, <1>2, <2>1, <2>2, <2>4, GovQuiet DEF GovStoresType
<1>5. CASE q.decision = "approved" /\ q.active
  BY <1>3, <1>5 DEF GovAuthorize
<1>6. CASE ~(q.decision = "approved" /\ q.active)
  <2> DEFINE pc == IF q.bound = GovNone THEN "complete" ELSE "feedback"
             result == IF q.decision = "approved" THEN "adverse"
                       ELSE IF q.active THEN "denied" ELSE "lost"
  <2>1. GovGoes(t, [q EXCEPT !.pc = pc, !.result = result])
    BY <1>6 DEF GovAuthorize
  <2>2. pc \in {"complete", "feedback"} /\ result \in {"adverse", "denied", "lost"}
    OBVIOUS
  <2> HIDE DEF pc, result
  <2> QED
    BY <1>4, <2>1, <2>2
<1> QED
  BY <1>5, <1>6

LEMMA GovDispatchOK ==
    ASSUME GovIInv, NEW t \in GovThreads, GovDispatch(t)
    PROVE  GovIInv'
<1> DEFINE q == govThreads[t]
           a == govThreads[t].id
<1>1. /\ GovStoresType /\ GovStoresOK /\ GovThreadOK(t) /\ q \in GovThread
      /\ q.pc = "dispatch" /\ a \in GovIds /\ govIssued[a] # GovNone /\ govIssued[a] # "R1"
      /\ govRuns[a] = <<>> /\ govRecords[a] = GovGone
  BY GovThreadIs DEF GovDispatch, GovThreadOK, GovAtWork
<1>2. /\ UNCHANGED <<govRecords, govBindings, govChat, govFeedback, govRuntime, govActive,
                     govClock, govRestarts, govIssued, govTold>>
      /\ govRuns' = [govRuns EXCEPT ![a] = Append(govRuns[a], govIssued[a])]
  BY DEF GovDispatch, govStores, govWorld
<1>3. govIssued[a] \in GovKinds
  BY <1>1 DEF GovStoresType
<1>4. /\ govRuns' \in [GovIds -> Seq(GovKinds)]
      /\ govRuns'[a] = <<govIssued[a]>> /\ govRuns'[a] # <<>>
      /\ \A b \in GovIds \ {a} : govRuns'[b] = govRuns[b]
  <2>1. Append(govRuns[a], govIssued[a]) = <<govIssued[a]>>
    BY <1>1
  <2>2. <<govIssued[a]>> \in Seq(GovKinds) /\ <<govIssued[a]>> # <<>>
    BY <1>3
  <2> QED
    BY <1>1, <1>2, <2>1, <2>2 DEF GovStoresType
<1>5. GovStoresType'
  BY <1>1, <1>2, <1>4 DEF GovStoresType
<1>6. GovStoresOK'
  <2> SUFFICES ASSUME NEW b \in GovIds
               PROVE  /\ govIssued[b] = GovNone => govRecords[b] = GovGone /\ b \notin govTold
                      /\ govRuns'[b] \in {<<>>, <<govIssued[b]>>}
                      /\ govRuns'[b] # <<>> => govIssued[b] \notin {"R1", GovNone}
                                                /\ govRecords[b] = GovGone
                      /\ govBindings[b] \in {govIssued[b], GovNone}
                      /\ b \in govTold /\ govIssued[b] = "R1" =>
                            govBindings[b] = "R1" \/ govRecords[b] = GovGone
                      /\ govFeedback[b] = "succeeded" => govRuns'[b] # <<>>
                      /\ govRuntime[b] = "eligible" => govRuns'[b] = <<"R0">>
    BY <1>2 DEF GovStoresOK
  <2>1. CASE b # a
    BY <1>1, <1>4, <2>1 DEF GovStoresOK
  <2>2. CASE b = a
    <3>1. govRuntime[a] # "eligible"
      BY <1>1 DEF GovStoresOK
    <3> QED
      BY <1>1, <1>4, <2>2, <3>1 DEF GovStoresOK
  <2> QED
    BY <2>1, <2>2
<1>7. PICK result \in {"succeeded", "adverse"}, pc \in {"complete", "feedback"} :
          GovGoes(t, [q EXCEPT !.result = result, !.pc = pc])
  BY DEF GovDispatch
<1> DEFINE p == [q EXCEPT !.result = result, !.pc = pc]
<1>8. /\ p \in GovThread /\ p.pc = pc /\ p.id = a /\ p.decision = q.decision /\ p.bound = q.bound
      /\ p.result = result /\ GovGoes(t, p)
  BY <1>1, <1>7 DEF GovThread, GovClasses
<1> HIDE DEF p
<1>9. govThreads'[t] = p
  BY <1>8, GovGoesIs
<1>10. GovThreadOK(t)'
  BY <1>1, <1>2, <1>4, <1>8, <1>9 DEF GovThreadOK, GovAtWork
<1>11. \A b \in GovIds :
          /\ govIssued'[b] = govIssued[b] /\ govRecords'[b] = govRecords[b]
          /\ \/ govRuns'[b] = govRuns[b]
             \/ q.pc = "dispatch" /\ q.id = b /\ govRuns'[b] # <<>>
  BY <1>1, <1>2, <1>4
<1> QED
  BY <1>5, <1>6, <1>8, <1>10, <1>11, GovThreadStep

\* A step on the evidence: after it a thread goes on with what it has.
LEMMA GovEvidence ==
    ASSUME GovIInv, NEW t \in GovThreads,
           NEW pc \in {"integrate", "capture", "insert", "discard", "complete"}, GovStep(t, pc),
           govThreads[t].pc \in GovAtWork, GovStoresType', GovStoresOK',
           UNCHANGED <<govRecords, govIssued, govRuns>>,
           pc = "insert" => govRuns[govThreads[t].id] = <<"R0">>
    PROVE  GovIInv'
<1>1. GovThreadOK(t)
  BY DEF GovIInv
<1>2. PICK p \in GovThread :
              /\ GovGoes(t, p) /\ p.pc = pc /\ p.id = govThreads[t].id
              /\ p.decision = govThreads[t].decision /\ p.bound = govThreads[t].bound
              /\ p.result = govThreads[t].result
  BY GovStepIs
<1>3. govThreads'[t] = p
  BY <1>2, GovGoesIs
<1>4. GovThreadOK(t)'
  BY <1>1, <1>2, <1>3 DEF GovThreadOK, GovAtWork
<1> QED
  BY <1>2, <1>4, GovThreadStep

LEMMA GovRecordOK ==
    ASSUME GovIInv, NEW t \in GovThreads, GovRecord(t)
    PROVE  GovIInv'
<1> DEFINE q == govThreads[t]
           a == govThreads[t].id
<1>1. /\ GovStoresType /\ GovStoresOK /\ GovThreadOK(t) /\ q \in GovThread
      /\ q.pc = "feedback" /\ q.pc \in GovAtWork /\ a \in GovIds
  BY GovThreadIs DEF GovRecord, GovThreadOK, GovAtWork
<1>2. UNCHANGED <<govRecords, govBindings, govChat, govRuntime, govActive, govClock,
                  govRestarts, govIssued, govTold, govRuns>>
  BY DEF GovRecord, govWorld, govHistory
<1>3. CASE UNCHANGED govFeedback /\ GovStep(t, "discard")
  <2>1. GovStoresType' /\ GovStoresOK'
    BY <1>1, <1>2, <1>3 DEF GovStoresType, GovStoresOK
  <2> QED
    BY <1>1, <1>2, <1>3, <2>1, GovEvidence
<1>4. CASE q.result # "lost" /\ GovStep(t, "integrate")
           /\ govFeedback' = [govFeedback EXCEPT ![a] = q.result]
  <2>1. q.result \in GovClasses \cup {"none"}
    BY <1>1, <1>4 DEF GovThread
  <2>2. CASE q.result \in GovClasses
    <3>1. /\ govFeedback' \in [GovIds -> GovClasses \cup {GovNone}]
          /\ govFeedback'[a] = q.result
          /\ \A b \in GovIds \ {a} : govFeedback'[b] = govFeedback[b]
      BY <1>1, <1>4, <2>2 DEF GovStoresType
    <3>2. q.result = "succeeded" => govRuns[a] # <<>>
      BY <1>1 DEF GovThreadOK
    <3>3. GovStoresType'
      BY <1>1, <1>2, <3>1 DEF GovStoresType
    <3>4. GovStoresOK'
      BY <1>1, <1>2, <3>1, <3>2 DEF GovStoresOK
    <3> QED
      BY <1>1, <1>2, <1>4, <3>3, <3>4, GovEvidence
  <2> QED
    BY <1>1, <2>1, <2>2 DEF GovThreadOK
<1> QED
  BY <1>3, <1>4 DEF GovRecord

LEMMA GovIntegrateOK ==
    ASSUME GovIInv, NEW t \in GovThreads, GovIntegrate(t)
    PROVE  GovIInv'
<1> DEFINE q == govThreads[t]
           a == govThreads[t].id
<1>1. /\ GovStoresType /\ GovStoresOK /\ GovThreadOK(t) /\ q \in GovThread
      /\ q.pc = "integrate" /\ q.pc \in GovAtWork /\ a \in GovIds
      /\ q.bound \in {govIssued[a], GovNone}
  BY GovThreadIs DEF GovIntegrate, GovThreadOK, GovAtWork
<1>2. UNCHANGED <<govRecords, govBindings, govChat, govFeedback, govActive, govClock,
                  govRestarts, govIssued, govTold, govRuns>>
  BY DEF GovIntegrate, govWorld, govHistory
<1>3. CASE UNCHANGED govRuntime /\ GovStep(t, "discard")
  <2>1. GovStoresType' /\ GovStoresOK'
    BY <1>1, <1>2, <1>3 DEF GovStoresType, GovStoresOK
  <2> QED
    BY <1>1, <1>2, <1>3, <2>1, GovEvidence
<1>4. CASE /\ GovStep(t, "capture")
           /\ govRuntime' = [govRuntime EXCEPT ![a] =
                    IF GovEligible(q) THEN "eligible" ELSE "ineligible"]
  <2>1. /\ govRuntime' \in [GovIds -> {"eligible", "ineligible", GovNone}]
        /\ govRuntime'[a] = IF GovEligible(q) THEN "eligible" ELSE "ineligible"
        /\ \A b \in GovIds \ {a} : govRuntime'[b] = govRuntime[b]
    BY <1>1, <1>4 DEF GovStoresType
  <2>2. GovEligible(q) => govRuns[a] = <<"R0">>
    <3>1. GovEligible(q) => govRuns[a] # <<>> /\ govIssued[a] = "R0"
      BY <1>1, GovBounds DEF GovEligible, GovStoresOK
    <3> QED
      BY <1>1, <3>1 DEF GovStoresOK
  <2>3. GovStoresType'
    BY <1>1, <1>2, <2>1 DEF GovStoresType
  <2>4. govRuntime'[a] = "eligible" => govRuns[a] = <<"R0">>
    BY <2>1, <2>2
  <2>5. GovStoresOK'
    BY <1>1, <1>2, <2>1, <2>4 DEF GovStoresOK
  <2> QED
    BY <1>1, <1>2, <1>4, <2>3, <2>5, GovEvidence
<1> QED
  BY <1>3, <1>4 DEF GovIntegrate

LEMMA GovDiscardOK ==
    ASSUME GovIInv, NEW t \in GovThreads, GovDiscard(t)
    PROVE  GovIInv'
<1> DEFINE a == govThreads[t].id
<1>1. /\ GovStoresType /\ GovStoresOK /\ GovThreadOK(t)
      /\ govThreads[t].pc \in GovAtWork /\ a \in GovIds /\ govRecords[a] = GovGone
  BY GovThreadIs DEF GovDiscard, GovThreadOK, GovAtWork
<1>2. /\ UNCHANGED <<govRecords, govChat, govFeedback, govRuntime, govActive, govClock,
                     govRestarts, govIssued, govTold, govRuns>>
      /\ govBindings' = [govBindings EXCEPT ![a] = GovNone]
  BY DEF GovDiscard, govWorld, govHistory
<1>3. /\ govBindings' \in [GovIds -> GovCognitive \cup {GovNone}] /\ govBindings'[a] = GovNone
      /\ \A b \in GovIds \ {a} : govBindings'[b] = govBindings[b]
  BY <1>1, <1>2 DEF GovStoresType
<1>4. GovStoresType' /\ GovStoresOK'
  BY <1>1, <1>2, <1>3 DEF GovStoresType, GovStoresOK
<1>5. CASE GovReply(t)
  BY <1>2, <1>4, <1>5, GovReplyIs, GovIdleIs, GovThreadStep
<1>6. CASE GovStep(t, "complete")
  BY <1>1, <1>2, <1>4, <1>6, GovEvidence
<1> QED
  BY <1>5, <1>6 DEF GovDiscard

LEMMA GovCompleteOK ==
    ASSUME GovIInv, NEW t \in GovThreads, GovComplete(t)
    PROVE  GovIInv'
<1> DEFINE cleaned == GovCleaned(govChat, govClock)
<1>1. /\ UNCHANGED <<govRecords, govBindings, govFeedback, govRuntime, govIssued, govTold,
                     govRuns, govWorld>>
      /\ govChat' = [cleaned EXCEPT ![govThreads[t].id] = GovGone] /\ GovReply(t)
  BY DEF GovComplete, govHistory
<1>2. cleaned \in [GovIds -> GovExpiry]
  BY GovThreadIs, GovCleanedIs DEF GovStoresType
<1> HIDE DEF cleaned
<1>3. govChat' \in [GovIds -> GovExpiry]
  BY <1>1, <1>2, GovGoneIs
<1> QED
  BY <1>1, <1>3, GovReplyIs, GovIdleIs, GovQuiet

LEMMA GovRestartOK ==
    ASSUME GovIInv, GovRestart
    PROVE  GovIInv'
<1>1. GovTypeOK /\ GovStoresType /\ GovStoresOK
  BY GovTypes DEF GovIInv
<1>2. UNCHANGED <<govActive, govClock, govIssued, govTold, govRuns>>
  BY DEF GovRestart, govHistory
<1>3. govRestarts' \in 0..GovMaxRestarts
  BY <1>1, GovBounds DEF GovStoresType, GovRestart
<1>4. /\ govRecords' = [a \in GovIds |-> GovGone] /\ govChat' = [a \in GovIds |-> GovGone]
      /\ govBindings' = [a \in GovIds |-> GovNone] /\ govFeedback' = [a \in GovIds |-> GovNone]
      /\ govRuntime' = [a \in GovIds |-> GovNone]
      /\ govThreads' = [t \in GovThreads |-> GovIdle]
  BY DEF GovRestart, GovNoExpiry, GovEmpty, GovAllIdle
<1>5. GovStoresType'
  BY <1>1, <1>2, <1>3, <1>4, GovGoneIs DEF GovStoresType
<1>6. GovTypeOK'
  BY <1>4, <1>5, GovIdleIs, GovTypesNext
<1>7. \A t \in GovThreads : govThreads'[t].pc = "idle"
  BY <1>4, GovIdleIs
<1>8. (\A t \in GovThreads : GovThreadOK(t))' /\ GovExclusive'
  BY <1>7 DEF GovThreadOK, GovExclusive, GovAtWork
<1>9. GovStoresOK'
  <2>1. \A a \in GovIds :
          /\ govRecords'[a] = GovGone /\ govBindings'[a] = GovNone /\ govFeedback'[a] = GovNone
          /\ govRuntime'[a] = GovNone
    BY <1>4
  <2>2. GovNone # "succeeded" /\ GovNone # "eligible"
    BY GovConstantsAssumption
  <2> QED
    BY <1>1, <1>2, <2>1, <2>2 DEF GovStoresOK
<1> QED
  BY <1>6, <1>8, <1>9 DEF GovIInv

\* A step of no thread.
LEMMA GovElseOK ==
    ASSUME GovIInv, GovTick \/ GovSwitchOff \/ UNCHANGED govVars
    PROVE  GovIInv'
<1>1. UNCHANGED <<govRecords, govBindings, govChat, govFeedback, govRuntime, govThreads,
                  govRestarts, govIssued, govTold, govRuns>>
  BY DEF GovTick, GovSwitchOff, govVars, govStores, govWorld, govHistory
<1>2. GovTypeOK
  BY DEF GovIInv
<1>3. govActive' \in BOOLEAN /\ govClock' \in 0..GovMaxTime
  <2>1. CASE GovTick
    BY <1>2, <2>1, GovBounds DEF GovTypeOK, GovTick
  <2>2. CASE GovSwitchOff
    BY <1>2, <2>2 DEF GovTypeOK, GovSwitchOff
  <2>3. CASE UNCHANGED govVars
    BY <1>2, <2>3 DEF GovTypeOK, govVars, govWorld
  <2> QED
    BY <2>1, <2>2, <2>3
<1>4. GovTypeOK'
  BY <1>1, <1>2, <1>3 DEF GovTypeOK
<1>5. (\A t \in GovThreads : GovThreadOK(t))' /\ GovExclusive' /\ GovStoresOK'
  BY <1>1 DEF GovIInv, GovThreadOK, GovExclusive, GovStoresOK
<1> QED
  BY <1>4, <1>5 DEF GovIInv

LEMMA GovNextOK == GovIInv /\ (GovNext \/ UNCHANGED govVars) => GovIInv'
<1> SUFFICES ASSUME GovIInv, GovNext \/ UNCHANGED govVars PROVE GovIInv'
  OBVIOUS
<1>1. ASSUME NEW t \in GovThreads, GovLane(t) PROVE GovIInv'
  BY <1>1, GovProposeOK, GovDecideOK, GovRegisterOK, GovBindChatOK, GovConsumeOK,
     GovAuthorizeOK, GovDispatchOK, GovRecordOK, GovIntegrateOK, GovDiscardOK, GovCompleteOK
     DEF GovLane
<1> QED
  BY <1>1, GovElseOK, GovRestartOK DEF GovNext

\* capture: what it finds eligible has run.
LEMMA GovFindOK ==
    ASSUME GovIInv, NEW t \in GovThreads, ExpFind(t) \/ ExpCapture(t)
    PROVE  GovIInv'
<1> DEFINE a == govThreads[t].id
<1>1. /\ GovStoresType /\ GovStoresOK /\ GovThreadOK(t)
      /\ govThreads[t].pc \in {"capture", "insert"} /\ govThreads[t].pc \in GovAtWork
      /\ a \in GovIds
  BY GovThreadIs DEF ExpFind, ExpCapture, GovThreadOK, GovAtWork
<1>2. UNCHANGED <<govRecords, govBindings, govChat, govFeedback, govRuntime, govActive, govClock,
                  govRestarts, govIssued, govTold, govRuns>>
  BY DEF ExpFind, ExpCapture, govStores, govWorld, govHistory
<1>3. GovStoresType' /\ GovStoresOK'
  BY <1>1, <1>2 DEF GovStoresType, GovStoresOK
<1>4. CASE GovStep(t, "discard")
  BY <1>1, <1>2, <1>3, <1>4, GovEvidence
<1>5. CASE GovStep(t, "insert") /\ govRuntime[a] = "eligible"
  <2>1. govRuns[a] = <<"R0">>
    BY <1>1, <1>5 DEF GovStoresOK
  <2> QED
    BY <1>1, <1>2, <1>3, <1>5, <2>1, GovEvidence
<1> QED
  BY <1>4, <1>5 DEF ExpFind, ExpCapture

-----------------------------------------------------------------------------
(* ExperienceTrust: the inductive invariant.                                *)

\* A decision under way is one of the transitions, on a row of its table; a
\* promotion under way is of a review that was accepted.
ExpOwnerOK(o) ==
    LET q == expOwners[o] IN
    /\ q.pc \in {"review", "trust", "lesson"} =>
          /\ <<q.pc, q.from, q.to>> \in ExpTransitions
          /\ q.id \in IF q.pc = "lesson" THEN ExpLessons ELSE GovIds
    /\ q.pc = "promote" => q.id \in GovIds /\ expReviews[q.id] = "REVIEW_ACCEPTED"

ExpIInv ==
    /\ GovIInv /\ ExpTypeOK /\ ExpTrustHasEvidence
    /\ \A o \in ExpOwners : ExpOwnerOK(o)

\* What a row of a table may become.
ExpRowsMove ==
    /\ \A a \in GovIds :
          /\ expReviews[a] \in {"REVIEW_ACCEPTED", "REVIEW_REJECTED"}
                => expReviews'[a] = expReviews[a]
          /\ expTrusted[a] = "REVOKED" => expTrusted'[a] = "REVOKED"
    /\ \A l \in ExpLessons :
          expLessons[l] \in {"REJECTED", "REVOKED"} => expLessons'[l] = expLessons[l]

LEMMA ExpIdleIs ==
    ExpIdle \in ExpOwner /\ ExpIdle.pc = "idle"
BY DEF ExpIdle, ExpOwner

LEMMA ExpGoesIs ==
    ASSUME ExpTypeOK, NEW o \in ExpOwners, NEW p \in ExpOwner, ExpGoes(o, p)
    PROVE  /\ expOwners' \in [ExpOwners -> ExpOwner]
           /\ expOwners'[o] = p
           /\ \A u \in ExpOwners \ {o} : expOwners'[u] = expOwners[u]
BY DEF ExpTypeOK, ExpGoes

\* A step of one owner request: an accepted review stays accepted.
LEMMA ExpOwnerStep ==
    ASSUME ExpIInv, NEW o \in ExpOwners, NEW p \in ExpOwner, ExpGoes(o, p), UNCHANGED govVars,
           expReviews' \in [GovIds ->
              {ExpNoRow, "PENDING_REVIEW", "REVIEW_ACCEPTED", "REVIEW_REJECTED"}],
           expTrusted' \in [GovIds -> {ExpNoRow, "TRUSTED", "REVOKED"}],
           expLessons' \in [ExpLessons ->
              {ExpNoRow, "PENDING_REVIEW", "TRUSTED", "REJECTED", "REVOKED"}],
           ExpRowsMove, ExpTrustHasEvidence', ExpOwnerOK(o)'
    PROVE  ExpIInv'
<1>1. /\ expOwners' \in [ExpOwners -> ExpOwner]
      /\ \A u \in ExpOwners \ {o} : expOwners'[u] = expOwners[u]
  BY ExpGoesIs DEF ExpIInv
<1>2. ExpTypeOK'
  BY <1>1 DEF ExpTypeOK
<1>3. GovIInv'
  BY GovNextOK DEF ExpIInv
<1>4. ASSUME NEW u \in ExpOwners \ {o} PROVE ExpOwnerOK(u)'
  <2>1. ExpOwnerOK(u)
    BY DEF ExpIInv
  <2> QED
    BY <1>1, <2>1 DEF ExpOwnerOK, ExpRowsMove
<1> QED
  BY <1>2, <1>3, <1>4 DEF ExpIInv

LEMMA ExpReplyIs ==
    ASSUME ExpIInv, NEW o \in ExpOwners, ExpReply(o)
    PROVE  ExpIdle \in ExpOwner /\ ExpGoes(o, ExpIdle) /\ ExpOwnerOK(o)'
<1>1. ExpIdle \in ExpOwner /\ ExpGoes(o, ExpIdle)
  BY ExpIdleIs DEF ExpReply
<1>2. expOwners'[o] = ExpIdle
  BY <1>1, ExpGoesIs DEF ExpIInv
<1> QED
  BY <1>1, <1>2, ExpIdleIs DEF ExpOwnerOK

-----------------------------------------------------------------------------
(* ExperienceTrust: the actions.                                            *)

LEMMA ExpLoadOK ==
    ASSUME ExpIInv, NEW o \in ExpOwners, ExpLoad(o) \/ ExpPromote(o) \/ ExpFails(o)
    PROVE  ExpIInv' /\ ExpRowsMove
<1>1. UNCHANGED <<govVars, expReviews, expTrusted, expLessons>>
  BY DEF ExpLoad, ExpPromote, ExpFails
<1>2. ExpRowsMove /\ ExpTrustHasEvidence' /\ ExpTypeOK
  <2>1. govRuns' = govRuns
    BY <1>1 DEF govVars, govHistory
  <2> QED
    BY <1>1, <2>1 DEF ExpRowsMove, ExpIInv, ExpTrustHasEvidence
<1>3. ASSUME NEW p \in ExpOwner, ExpGoes(o, p), ExpOwnerOK(o)' PROVE ExpIInv'
  BY <1>1, <1>2, <1>3, ExpOwnerStep DEF ExpTypeOK
<1>4. CASE ExpFails(o)
  BY <1>2, <1>3, <1>4, ExpReplyIs DEF ExpFails
<1>5. CASE ExpPromote(o)
  <2>1. PICK a \in GovIds : /\ expReviews[a] = "REVIEW_ACCEPTED"
                            /\ ExpGoes(o, [ExpIdle EXCEPT !.pc = "promote", !.id = a])
    BY <1>5 DEF ExpPromote, ExpEligible
  <2> DEFINE p == [ExpIdle EXCEPT !.pc = "promote", !.id = a]
  <2>2. p \in ExpOwner /\ p.pc = "promote" /\ p.id = a /\ ExpGoes(o, p)
    BY <2>1 DEF ExpIdle, ExpOwner
  <2> HIDE DEF p
  <2>3. ExpOwnerOK(o)'
    BY <1>1, <1>2, <2>1, <2>2, ExpGoesIs DEF ExpOwnerOK
  <2> QED
    BY <1>2, <1>3, <2>2, <2>3
<1>6. CASE ExpLoad(o)
  <2>0. PICK x \in ExpTransitions : \E a \in DOMAIN ExpTable(x[1]) :
          ExpGoes(o, [pc |-> x[1], id |-> a, from |-> x[2], to |-> x[3]])
    BY <1>6 DEF ExpLoad
  <2>1. PICK a \in DOMAIN ExpTable(x[1]) :
          ExpGoes(o, [pc |-> x[1], id |-> a, from |-> x[2], to |-> x[3]])
    BY <2>0
  <2> DEFINE p == [pc |-> x[1], id |-> a, from |-> x[2], to |-> x[3]]
  <2>2. /\ x[1] \in {"review", "trust", "lesson"} /\ x[2] \in ExpStates /\ x[3] \in ExpStates
        /\ <<x[1], x[2], x[3]>> = x
    BY DEF ExpTransitions, ExpStates
  <2>3. a \in IF x[1] = "lesson" THEN ExpLessons ELSE GovIds
    BY <1>2, <2>2 DEF ExpTable, ExpTypeOK
  <2>4. /\ p \in ExpOwner /\ p.pc = x[1] /\ p.id = a /\ p.from = x[2] /\ p.to = x[3]
        /\ ExpGoes(o, p)
    BY <2>1, <2>2, <2>3 DEF ExpOwner
  <2> HIDE DEF p
  <2>5. ExpOwnerOK(o)'
    BY <1>2, <2>2, <2>3, <2>4, ExpGoesIs DEF ExpOwnerOK
  <2> QED
    BY <1>2, <1>3, <2>4, <2>5
<1> QED
  BY <1>4, <1>5, <1>6

LEMMA ExpDecideOK ==
    ASSUME ExpIInv, NEW o \in ExpOwners, ExpDecide(o)
    PROVE  ExpIInv' /\ ExpRowsMove
<1> DEFINE q == expOwners[o]
<1>1. /\ ExpTypeOK /\ ExpOwnerOK(o) /\ ExpTrustHasEvidence
      /\ q.pc \in {"review", "trust", "lesson"}
      /\ ExpReply(o) /\ UNCHANGED govVars /\ govRuns' = govRuns
  BY DEF ExpIInv, ExpDecide, govVars, govHistory
<1>2. /\ <<q.pc, q.from, q.to>> \in ExpTransitions
      /\ q.id \in IF q.pc = "lesson" THEN ExpLessons ELSE GovIds
  BY <1>1 DEF ExpOwnerOK
<1>3. CASE q.pc = "review"
  <2>1. q.from = "PENDING_REVIEW" /\ q.to \in {"REVIEW_ACCEPTED", "REVIEW_REJECTED"} /\ q.id \in GovIds
    BY <1>2, <1>3 DEF ExpTransitions
  <2>2. /\ expReviews' = [expReviews EXCEPT ![q.id] = IF @ = q.from THEN q.to ELSE @]
        /\ UNCHANGED <<expTrusted, expLessons>>
    BY <1>3 DEF ExpDecide, ExpUpdate
  <2>3. /\ expReviews' \in [GovIds ->
              {ExpNoRow, "PENDING_REVIEW", "REVIEW_ACCEPTED", "REVIEW_REJECTED"}]
        /\ \A a \in GovIds : expReviews'[a] = expReviews[a] \/ expReviews[a] = "PENDING_REVIEW"
    BY <1>1, <2>1, <2>2 DEF ExpTypeOK
  <2>4. ExpRowsMove /\ ExpTrustHasEvidence'
    BY <1>1, <2>2, <2>3 DEF ExpRowsMove, ExpTrustHasEvidence, ExpNoRow
  <2> QED
    BY <1>1, <2>2, <2>3, <2>4, ExpReplyIs, ExpOwnerStep DEF ExpTypeOK
<1>4. CASE q.pc = "trust"
  <2>1. q.from = "TRUSTED" /\ q.to = "REVOKED" /\ q.id \in GovIds
    BY <1>2, <1>4 DEF ExpTransitions
  <2>2. /\ expTrusted' = [expTrusted EXCEPT ![q.id] = IF @ = q.from THEN q.to ELSE @]
        /\ UNCHANGED <<expReviews, expLessons>>
    BY <1>4 DEF ExpDecide, ExpUpdate
  <2>3. /\ expTrusted' \in [GovIds -> {ExpNoRow, "TRUSTED", "REVOKED"}]
        /\ \A a \in GovIds : expTrusted'[a] = expTrusted[a] \/ expTrusted[a] = "TRUSTED"
    BY <1>1, <2>1, <2>2 DEF ExpTypeOK
  <2>4. ExpRowsMove /\ ExpTrustHasEvidence'
    BY <1>1, <2>2, <2>3 DEF ExpRowsMove, ExpTrustHasEvidence, ExpNoRow
  <2> QED
    BY <1>1, <2>2, <2>3, <2>4, ExpReplyIs, ExpOwnerStep DEF ExpTypeOK
<1>5. CASE q.pc = "lesson"
  <2>1. /\ q.from \in {"PENDING_REVIEW", "TRUSTED"} /\ q.to \in {"TRUSTED", "REJECTED", "REVOKED"}
        /\ q.id \in ExpLessons
    BY <1>2, <1>5 DEF ExpTransitions
  <2>2. /\ expLessons' = [expLessons EXCEPT ![q.id] = IF @ = q.from THEN q.to ELSE @]
        /\ UNCHANGED <<expReviews, expTrusted>>
    BY <1>5 DEF ExpDecide, ExpUpdate
  <2>3. /\ expLessons' \in [ExpLessons ->
              {ExpNoRow, "PENDING_REVIEW", "TRUSTED", "REJECTED", "REVOKED"}]
        /\ \A l \in ExpLessons :
              expLessons'[l] = expLessons[l] \/ expLessons[l] \in {"PENDING_REVIEW", "TRUSTED"}
    BY <1>1, <2>1, <2>2 DEF ExpTypeOK
  <2>4. ExpRowsMove /\ ExpTrustHasEvidence'
    BY <1>1, <2>2, <2>3 DEF ExpRowsMove, ExpTrustHasEvidence
  <2> QED
    BY <1>1, <2>2, <2>3, <2>4, ExpReplyIs, ExpOwnerStep DEF ExpTypeOK
<1> QED
  BY <1>1, <1>3, <1>4, <1>5

LEMMA ExpInsertOK ==
    ASSUME ExpIInv, NEW o \in ExpOwners, ExpInsert(o)
    PROVE  ExpIInv' /\ ExpRowsMove
<1> DEFINE a == expOwners[o].id
<1>1. /\ ExpTypeOK /\ ExpTrustHasEvidence /\ a \in GovIds
      /\ expReviews[a] = "REVIEW_ACCEPTED"
  BY DEF ExpIInv, ExpInsert, ExpOwnerOK
<1>2. /\ ExpReply(o) /\ UNCHANGED <<govVars, expReviews, expLessons>>
      /\ expTrusted' = [expTrusted EXCEPT ![a] = IF @ = ExpNoRow THEN "TRUSTED" ELSE @]
      /\ govRuns' = govRuns
  BY DEF ExpInsert, govVars, govHistory
<1>3. /\ expTrusted' \in [GovIds -> {ExpNoRow, "TRUSTED", "REVOKED"}]
      /\ \A b \in GovIds : \/ expTrusted'[b] = expTrusted[b]
                           \/ expTrusted[b] = ExpNoRow /\ b = a
  BY <1>1, <1>2 DEF ExpTypeOK
<1>4. ExpRowsMove /\ ExpTrustHasEvidence'
  BY <1>1, <1>2, <1>3 DEF ExpRowsMove, ExpTrustHasEvidence, ExpNoRow
<1> QED
  BY <1>1, <1>2, <1>3, <1>4, ExpReplyIs, ExpOwnerStep DEF ExpTypeOK

LEMMA ExpCaptureOK ==
    ASSUME ExpIInv, NEW t \in GovThreads, ExpFind(t) \/ ExpCapture(t)
    PROVE  ExpIInv' /\ ExpRowsMove
<1> DEFINE a == govThreads[t].id
<1>1. /\ ExpTypeOK /\ ExpTrustHasEvidence /\ GovIInv'
      /\ UNCHANGED <<expTrusted, expLessons, expOwners>> /\ govRuns' = govRuns
  BY GovFindOK DEF ExpIInv, ExpFind, ExpCapture, expVars, govHistory
<1>2. \/ UNCHANGED expReviews
      \/ /\ a \in GovIds /\ govRuns[a] = <<"R0">> /\ expReviews[a] = ExpNoRow
         /\ expReviews' = [expReviews EXCEPT ![a] = "PENDING_REVIEW"]
  BY GovThreadIs DEF ExpIInv, ExpFind, ExpCapture, expVars, GovThreadOK
<1>3. /\ expReviews' \in [GovIds ->
              {ExpNoRow, "PENDING_REVIEW", "REVIEW_ACCEPTED", "REVIEW_REJECTED"}]
      /\ \A b \in GovIds :
            \/ expReviews'[b] = expReviews[b]
            \/ expReviews[b] = ExpNoRow /\ govRuns[b] = <<"R0">>
  BY <1>1, <1>2 DEF ExpTypeOK
<1>4. ExpRowsMove /\ ExpTrustHasEvidence'
  BY <1>1, <1>3 DEF ExpRowsMove, ExpTrustHasEvidence, ExpNoRow
<1>5. ExpTypeOK'
  BY <1>1, <1>3 DEF ExpTypeOK
<1>6. (\A o \in ExpOwners : ExpOwnerOK(o))'
  BY <1>1, <1>4 DEF ExpIInv, ExpOwnerOK, ExpRowsMove
<1> QED
  BY <1>1, <1>4, <1>5, <1>6 DEF ExpIInv

LEMMA ExpGovOK ==
    ASSUME ExpIInv, GovNext \/ UNCHANGED govVars, UNCHANGED expVars
    PROVE  ExpIInv' /\ ExpRowsMove
<1>1. GovIInv'
  BY GovNextOK DEF ExpIInv
<1>2. \A a \in GovIds : govRuns[a] = <<"R0">> => govRuns'[a] = <<"R0">>
  <2>1. GovTypeOK
    BY DEF ExpIInv, GovIInv
  <2>2. ASSUME NEW t \in GovThreads, GovDispatch(t)
        PROVE  \A a \in GovIds : govRuns[a] = <<"R0">> => govRuns'[a] = <<"R0">>
    <3>1. GovThreadOK(t) /\ govThreads[t].pc = "dispatch"
      BY <2>2 DEF ExpIInv, GovIInv, GovDispatch
    <3>2. govRuns[govThreads[t].id] = <<>>
      BY <3>1 DEF GovThreadOK
    <3>3. <<>> # <<"R0">>
      OBVIOUS
    <3> QED
      BY <2>1, <2>2, <3>2, <3>3 DEF GovDispatch, GovTypeOK
  <2>3. (\E t \in GovThreads : GovDispatch(t)) \/ govRuns' = govRuns
    BY DEF GovNext, GovLane, GovPropose, GovRegister, GovBindChat, GovDecide, GovConsume,
       GovAuthorize, GovRecord, GovIntegrate, GovDiscard, GovComplete, GovTick, GovSwitchOff,
       GovRestart, govHistory, govVars
  <2> QED
    BY <2>2, <2>3
<1>3. ExpTrustHasEvidence' /\ ExpRowsMove
  BY <1>2 DEF ExpIInv, ExpTrustHasEvidence, ExpRowsMove, expVars
<1>4. ExpTypeOK' /\ (\A o \in ExpOwners : ExpOwnerOK(o))'
  BY DEF ExpIInv, ExpTypeOK, ExpOwnerOK, expVars
<1> QED
  BY <1>1, <1>3, <1>4 DEF ExpIInv

LEMMA ExpProposeOK ==
    ASSUME ExpIInv, NEW l \in ExpLessons, ExpPropose(l), UNCHANGED govVars
    PROVE  ExpIInv' /\ ExpRowsMove
<1>1. GovIInv' /\ govRuns' = govRuns
  BY GovNextOK DEF ExpIInv, govVars, govHistory
<1>2. /\ UNCHANGED <<expReviews, expTrusted, expOwners>> /\ expLessons[l] = ExpNoRow
      /\ expLessons' = [expLessons EXCEPT ![l] = "PENDING_REVIEW"]
  BY DEF ExpPropose
<1>3. ExpTypeOK' /\ ExpRowsMove
  BY <1>2 DEF ExpIInv, ExpTypeOK, ExpRowsMove, ExpNoRow
<1>4. ExpTrustHasEvidence' /\ (\A o \in ExpOwners : ExpOwnerOK(o))'
  BY <1>1, <1>2 DEF ExpIInv, ExpTrustHasEvidence, ExpOwnerOK
<1> QED
  BY <1>1, <1>3, <1>4 DEF ExpIInv

LEMMA ExpInitOK == ExpInit => ExpIInv
<1> SUFFICES ASSUME ExpInit PROVE ExpIInv
  OBVIOUS
<1>1. GovInit
  BY DEF ExpInit
<1>2. /\ govRecords = [a \in GovIds |-> GovGone] /\ govChat = [a \in GovIds |-> GovGone]
      /\ govBindings = [a \in GovIds |-> GovNone] /\ govFeedback = [a \in GovIds |-> GovNone]
      /\ govRuntime = [a \in GovIds |-> GovNone] /\ govIssued = [a \in GovIds |-> GovNone]
      /\ govThreads = [t \in GovThreads |-> GovIdle]
      /\ govRuns = [a \in GovIds |-> <<>>] /\ govTold = {}
      /\ govActive = TRUE /\ govClock = 0 /\ govRestarts = 0
  BY <1>1 DEF GovInit, GovNoExpiry, GovEmpty, GovAllIdle
<1>3. GovStoresType
  BY <1>2, GovBounds, GovGoneIs DEF GovStoresType
<1>4. GovTypeOK
  BY <1>2, <1>3, GovIdleIs, GovTypes
<1>5. \A t \in GovThreads : govThreads[t].pc = "idle"
  BY <1>2, GovIdleIs
<1>6. (\A t \in GovThreads : GovThreadOK(t)) /\ GovExclusive
  BY <1>5 DEF GovThreadOK, GovExclusive, GovAtWork
<1>7. GovStoresOK
  <2>1. GovNone # "succeeded" /\ GovNone # "eligible"
    BY GovConstantsAssumption
  <2> QED
    BY <1>2, <2>1 DEF GovStoresOK
<1>8. ExpTypeOK /\ (\A o \in ExpOwners : ExpOwnerOK(o)) /\ ExpTrustHasEvidence
  BY ExpIdleIs DEF ExpInit, ExpTypeOK, ExpOwnerOK, ExpTrustHasEvidence
<1> QED
  BY <1>4, <1>6, <1>7, <1>8 DEF ExpIInv, GovIInv

LEMMA ExpNextOK ==
    ExpIInv /\ [ExpNext]_<<govVars, expVars>> => ExpIInv' /\ ExpRowsMove
BY ExpLoadOK, ExpDecideOK, ExpInsertOK, ExpCaptureOK, ExpGovOK, ExpProposeOK DEF ExpNext

LEMMA ExpInvariant == ExpSpec => []ExpIInv
BY ExpInitOK, ExpNextOK, PTL DEF ExpSpec

-----------------------------------------------------------------------------
(* What holds of every behaviour.                                           *)

\* govVars have the types of the five stores and of the request threads.
THEOREM GovTypeCorrect == ExpSpec => []GovTypeOK
<1>1. ExpIInv => GovTypeOK
  BY DEF ExpIInv, GovIInv
<1> QED
  BY <1>1, ExpInvariant, PTL

\* expVars have the types of the three tables and of the owner's requests.
THEOREM ExpTypeCorrect == ExpSpec => []ExpTypeOK
<1>1. ExpIInv => ExpTypeOK
  BY DEF ExpIInv
<1> QED
  BY <1>1, ExpInvariant, PTL

\* "R1, R2 and R3 cognitive approvals fail closed": the binding outlives every
\* record of an approval the owner was told of.
THEOREM GovRiskyFailsClosed == ExpSpec => []GovRiskyNeverRuns
<1>1. ExpIInv => GovRiskyNeverRuns
  BY DEF ExpIInv, GovIInv, GovStoresOK, GovRiskyNeverRuns
<1> QED
  BY <1>1, ExpInvariant, PTL

\* What is trusted was accepted by the owner, and what can be reviewed is an
\* R0 action that was dispatched once; across restarts.
THEOREM ExpEvidence == ExpSpec => []ExpTrustHasEvidence
<1>1. ExpIInv => ExpTrustHasEvidence
  BY DEF ExpIInv
<1> QED
  BY <1>1, ExpInvariant, PTL

\* No request that raced a decision of the owner takes it back.
THEOREM ExpFinality == ExpSpec => ExpDecisionIsFinal
<1>1. ExpIInv /\ [ExpNext]_<<govVars, expVars>> => [ExpRowsMove]_expVars
  BY ExpNextOK
<1> QED
  BY <1>1, ExpInvariant, PTL DEF ExpSpec, ExpDecisionIsFinal, ExpRowsMove


-----------------------------------------------------------------------------
(* GovernedExecution implements OneShotAuthority.                           *)

\* Is a thread carrying out a?
GovHolds(t, a) == govThreads[t].id = a /\ govThreads[t].pc \in {"authorize", "dispatch"}

\* Where each approval stands, without GovStanding's choice of a thread.
GovStandingFacts ==
    /\ \A a \in GovIds :
          /\ govIssued[a] = GovNone => GovStanding[a] = "unasked"
          /\ govIssued[a] # GovNone /\ govRecords[a] # GovGone => GovStanding[a] = "pending"
          /\ govIssued[a] # GovNone /\ govRecords[a] = GovGone /\ govRuns[a] # <<>> =>
                GovStanding[a] = "spent"
          /\ govIssued[a] # GovNone /\ govRecords[a] = GovGone /\ govRuns[a] = <<>>
                /\ (\A t \in GovThreads : ~GovHolds(t, a)) => GovStanding[a] = "gone"
    /\ \A t \in GovThreads :
          /\ govThreads[t].pc = "authorize" =>
                GovStanding[govThreads[t].id] = govThreads[t].decision
          /\ govThreads[t].pc = "dispatch" => GovStanding[govThreads[t].id] = "spent"

LEMMA GovStandingIs == GovIInv => GovStandingFacts
<1> SUFFICES ASSUME GovIInv PROVE GovStandingFacts
  OBVIOUS
<1>1. ASSUME NEW a \in GovIds
      PROVE  /\ govIssued[a] = GovNone => GovStanding[a] = "unasked"
             /\ govIssued[a] # GovNone /\ govRecords[a] # GovGone => GovStanding[a] = "pending"
             /\ govIssued[a] # GovNone /\ govRecords[a] = GovGone /\ govRuns[a] # <<>> =>
                   GovStanding[a] = "spent"
             /\ govIssued[a] # GovNone /\ govRecords[a] = GovGone /\ govRuns[a] = <<>>
                   /\ (\A t \in GovThreads : ~GovHolds(t, a)) => GovStanding[a] = "gone"
  BY DEF GovStanding, GovHolds
<1>2. ASSUME NEW t \in GovThreads, govThreads[t].pc \in {"authorize", "dispatch"}
      PROVE  /\ govThreads[t].id \in GovIds /\ govIssued[govThreads[t].id] # GovNone
             /\ govRecords[govThreads[t].id] = GovGone /\ govRuns[govThreads[t].id] = <<>>
             /\ \A s \in GovThreads : GovHolds(s, govThreads[t].id) => s = t
  BY <1>2 DEF GovIInv, GovThreadOK, GovAtWork, GovExclusive, GovHolds
<1>3. ASSUME NEW t \in GovThreads, govThreads[t].pc = "dispatch"
      PROVE  GovStanding[govThreads[t].id] = "spent"
  BY <1>2, <1>3 DEF GovStanding
<1>4. ASSUME NEW t \in GovThreads, govThreads[t].pc = "authorize"
      PROVE  GovStanding[govThreads[t].id] = govThreads[t].decision
  <2> DEFINE a == govThreads[t].id
             u == CHOOSE x \in GovThreads :
                        govThreads[x].id = a /\ govThreads[x].pc = "authorize"
  <2>1. u \in GovThreads /\ govThreads[u].id = a /\ govThreads[u].pc = "authorize"
    BY <1>4
  <2>2. u = t
    BY <1>2, <1>4, <2>1 DEF GovHolds
  <2>3. \A s \in GovThreads : ~(govThreads[s].id = a /\ govThreads[s].pc = "dispatch")
    BY <1>2, <1>4 DEF GovHolds
  <2>4. GovStanding[a] = govThreads[u].decision
    BY <1>2, <1>4, <2>3 DEF GovStanding
  <2> HIDE DEF u
  <2> QED
    BY <2>2, <2>4
<1> QED
  BY <1>1, <1>3, <1>4 DEF GovStandingFacts

LEMMA GovStandingNext == GovIInv' => GovStandingFacts'
BY GovStandingIs, PTL

\* A step that leaves an approval's record, its runs and its thread alone.
LEMMA GovSame ==
    ASSUME GovIInv, GovIInv', NEW a \in GovIds,
           govIssued'[a] = govIssued[a], govRecords'[a] = govRecords[a],
           govRuns'[a] = govRuns[a],
           \A t \in GovThreads : GovHolds(t, a) \/ GovHolds(t, a)' =>
              govThreads'[t] = govThreads[t]
    PROVE  GovStanding'[a] = GovStanding[a]
<1>1. GovStandingFacts /\ GovStandingFacts'
  BY GovStandingIs, GovStandingNext
<1>2. CASE \E t \in GovThreads : GovHolds(t, a)
  <2>1. PICK t \in GovThreads : GovHolds(t, a)
    BY <1>2
  <2>2. govThreads'[t] = govThreads[t]
    BY <2>1
  <2>3. CASE govThreads[t].pc = "authorize"
    BY <1>1, <2>1, <2>2, <2>3 DEF GovStandingFacts, GovHolds
  <2>4. CASE govThreads[t].pc = "dispatch"
    BY <1>1, <2>1, <2>2, <2>4 DEF GovStandingFacts, GovHolds
  <2> QED
    BY <2>1, <2>3, <2>4 DEF GovHolds
<1>3. CASE \A t \in GovThreads : ~GovHolds(t, a)
  <2>1. \A t \in GovThreads : ~GovHolds(t, a)'
    BY <1>3 DEF GovHolds
  <2> QED
    BY <1>1, <1>3, <2>1 DEF GovStandingFacts
<1> QED
  BY <1>2, <1>3

\* A step that moves one approval.
LEMMA GovMoveMap ==
    ASSUME NEW b \in GovIds, NEW v, GovStanding'[b] = v,
           \A a \in GovIds \ {b} : GovStanding'[a] = GovStanding[a]
    PROVE  GovStanding' = [GovStanding EXCEPT ![b] = v]
<1>1. /\ GovStanding = [a \in GovIds |-> GovStanding[a]]
      /\ GovStanding' = [a \in GovIds |-> GovStanding'[a]]
  BY DEF GovStanding
<1> HIDE DEF GovStanding
<1> QED
  BY <1>1

\* A step that changes no approval's standing.
LEMMA GovQuietMap ==
    ASSUME UNCHANGED <<govIssued, govRuns>>,
           \A a \in GovIds : GovStanding'[a] = GovStanding[a]
    PROVE  UNCHANGED GovAuthority!vars
<1>1. /\ GovStanding = [a \in GovIds |-> GovStanding[a]]
      /\ GovStanding' = [a \in GovIds |-> GovStanding'[a]]
  BY DEF GovStanding
<1>2. GovStanding' = GovStanding
  <2> HIDE DEF GovStanding
  <2> QED
    BY <1>1
<1> QED
  BY <1>2 DEF GovAuthority!vars

\* A step that at most lets approvals lapse.
LEMMA GovLapseMap ==
    ASSUME UNCHANGED <<govIssued, govRuns>>,
           \A a \in GovIds :
              \/ GovStanding'[a] = GovStanding[a]
              \/ GovStanding'[a] = "gone" /\ GovStanding[a] # "unasked"
    PROVE  GovAuthority!Next
<1> DEFINE S == {a \in GovIds : GovStanding'[a] # GovStanding[a]}
<1>1. GovStanding' = [a \in GovIds |-> GovStanding'[a]]
  BY DEF GovStanding
<1> HIDE DEF GovStanding
<1>2. GovStanding' = GovAuthority!Lapsed(S)
  BY <1>1 DEF GovAuthority!Lapsed
<1>3. GovAuthority!Lapse(S)
  BY <1>2 DEF GovAuthority!Lapse
<1> QED
  BY <1>3 DEF GovAuthority!Next

\* A step of one thread that has no approval in hand, before or after.
LEMMA GovFreeMap ==
    ASSUME GovIInv, GovIInv', NEW t \in GovThreads,
           \A s \in GovThreads \ {t} : govThreads'[s] = govThreads[s],
           govThreads[t].pc \notin {"authorize", "dispatch"},
           govThreads'[t].pc \notin {"authorize", "dispatch"},
           UNCHANGED <<govRecords, govIssued, govRuns>>
    PROVE  UNCHANGED GovAuthority!vars
<1>1. ASSUME NEW a \in GovIds PROVE GovStanding'[a] = GovStanding[a]
  <2>1. \A s \in GovThreads : GovHolds(s, a) \/ GovHolds(s, a)' =>
              govThreads'[s] = govThreads[s]
    BY DEF GovHolds
  <2> QED
    BY <2>1, GovSame
<1> QED
  BY <1>1, GovQuietMap

LEMMA GovProposeMap ==
    ASSUME GovIInv, GovIInv', NEW t \in GovThreads, NEW b \in GovIds, NEW kind \in GovKinds,
           GovPropose(t, b, kind)
    PROVE  GovAuthority!Next
<1>1. /\ GovStandingFacts /\ GovStandingFacts' /\ GovStoresType /\ GovStoresOK
      /\ govThreads[t].pc = "idle" /\ govIssued[b] = GovNone
  BY GovStandingIs, GovStandingNext, GovThreadIs DEF GovPropose
<1>2. PICK now \in 0..govClock :
        /\ govRecords' = [GovCleaned(govRecords, now) EXCEPT ![b] = now + GovTTL]
        /\ govIssued' = [govIssued EXCEPT ![b] = kind] /\ govRuns' = govRuns
        /\ \/ GovReply(t)
           \/ GovGoes(t, [GovIdle EXCEPT !.id = b, !.active = TRUE,
                          !.pc = IF kind = "plugin" THEN "bind" ELSE "register"])
  BY DEF GovPropose
<1>3. /\ govIssued'[b] = kind /\ kind # GovNone
      /\ \A a \in GovIds \ {b} : govIssued'[a] = govIssued[a]
  BY <1>1, <1>2, GovBounds DEF GovStoresType
<1>4. /\ govRecords'[b] # GovGone
      /\ \A a \in GovIds \ {b} : govRecords'[a] \in {govRecords[a], GovGone}
  <2> DEFINE cleaned == GovCleaned(govRecords, now)
  <2>1. cleaned \in [GovIds -> GovExpiry] /\ \A a \in GovIds : cleaned[a] \in {govRecords[a], GovGone}
    BY <1>1, GovCleanedIs DEF GovStoresType
  <2>2. now + GovTTL # GovGone
    BY <1>1, GovBounds DEF GovStoresType, GovGone
  <2>3. govRecords' = [cleaned EXCEPT ![b] = now + GovTTL]
    BY <1>2
  <2> HIDE DEF cleaned
  <2> QED
    BY <2>1, <2>2, <2>3
<1>5. /\ \A s \in GovThreads \ {t} : govThreads'[s] = govThreads[s]
      /\ govThreads'[t].pc \notin {"authorize", "dispatch"}
  <2>1. govThreads \in [GovThreads -> GovThread]
    BY GovThreadIs
  <2>2. CASE GovReply(t)
    BY <2>1, <2>2, GovReplyIs, GovIdleIs, GovGoesIs
  <2>3. CASE GovGoes(t, [GovIdle EXCEPT !.id = b, !.active = TRUE,
                          !.pc = IF kind = "plugin" THEN "bind" ELSE "register"])
    BY <2>1, <2>3 DEF GovGoes, GovIdle
  <2> QED
    BY <1>2, <2>2, <2>3
<1>6. GovStanding[b] = "unasked" /\ GovStanding'[b] = "pending"
  BY <1>1, <1>3, <1>4 DEF GovStandingFacts
<1>7. ASSUME NEW a \in GovIds \ {b}
      PROVE  \/ GovStanding'[a] = GovStanding[a]
             \/ GovStanding'[a] = "gone" /\ GovStanding[a] # "unasked"
  <2>1. CASE govRecords'[a] = govRecords[a]
    <3>1. \A s \in GovThreads : GovHolds(s, a) \/ GovHolds(s, a)' =>
              govThreads'[s] = govThreads[s]
      BY <1>1, <1>5 DEF GovHolds
    <3> QED
      BY <1>2, <1>3, <2>1, <3>1, GovSame
  <2>2. CASE govRecords'[a] # govRecords[a]
    <3>1. govRecords[a] # GovGone /\ govRecords'[a] = GovGone /\ govIssued[a] # GovNone
      BY <1>1, <1>4, <2>2 DEF GovStoresOK
    <3>2. govRuns'[a] = <<>> /\ govIssued'[a] # GovNone
      BY <1>1, <1>2, <1>3, <3>1 DEF GovStoresOK
    <3>3. \A s \in GovThreads : ~GovHolds(s, a)'
      <4> TAKE s \in GovThreads
      <4>1. GovThreadOK(s)
        BY DEF GovIInv
      <4>2. ~GovHolds(s, a)
        BY <3>1, <4>1 DEF GovThreadOK, GovHolds, GovAtWork
      <4> QED
        BY <1>5, <4>2 DEF GovHolds
    <3> QED
      BY <1>1, <3>1, <3>2, <3>3 DEF GovStandingFacts
  <2> QED
    BY <2>1, <2>2
<1>8. PICK S \in SUBSET GovIds : S = {a \in GovIds \ {b} : GovStanding'[a] # GovStanding[a]}
  OBVIOUS
<1>9. GovStanding' = [GovAuthority!Lapsed(S) EXCEPT ![b] = "pending"]
  <2>1. \A a \in GovIds :
          GovStanding'[a] = IF a = b THEN "pending" ELSE GovAuthority!Lapsed(S)[a]
    BY <1>6, <1>7, <1>8 DEF GovAuthority!Lapsed
  <2>2. GovStanding' = [a \in GovIds |-> GovStanding'[a]]
    BY DEF GovStanding
  <2> HIDE DEF GovStanding
  <2> QED
    BY <2>1, <2>2 DEF GovAuthority!Lapsed
<1>10. GovAuthority!Ask(b, kind, S)
  BY <1>2, <1>6, <1>9 DEF GovAuthority!Ask
<1> QED
  BY <1>8, <1>10 DEF GovAuthority!Next

LEMMA GovConsumeMap ==
    ASSUME GovIInv, GovIInv', NEW t \in GovThreads, GovConsume(t)
    PROVE  GovAuthority!Next
<1> PICK b : b = govThreads[t].id
  OBVIOUS
<1>1. /\ GovStandingFacts /\ GovStandingFacts' /\ GovStoresType /\ GovStoresOK
      /\ govThreads[t] \in GovThread /\ govThreads[t].pc = "consume"
      /\ b \in GovIds /\ govIssued[b] # GovNone
      /\ govThreads[t].decision \in {"approved", "denied"}
  BY GovStandingIs, GovStandingNext, GovThreadIs DEF GovConsume, GovThreadOK
<1>2. /\ UNCHANGED <<govIssued, govRuns>>
      /\ govRecords' = [govRecords EXCEPT ![b] = GovGone]
  BY DEF GovConsume, govHistory
<1>3. govRecords'[b] = GovGone /\ \A a \in GovIds \ {b} : govRecords'[a] = govRecords[a]
  BY <1>1, <1>2 DEF GovStoresType
<1>4. ASSUME NEW p, GovGoes(t, p), p.id \in {b, GovNone}
      PROVE  /\ govThreads'[t] = p
             /\ \A s \in GovThreads \ {t} : govThreads'[s] = govThreads[s]
             /\ \A a \in GovIds \ {b} : GovStanding'[a] = GovStanding[a]
  <2>1. /\ govThreads'[t] = p
        /\ \A s \in GovThreads \ {t} : govThreads'[s] = govThreads[s]
    BY <1>4, GovThreadIs DEF GovGoes
  <2>2. ASSUME NEW a \in GovIds \ {b} PROVE GovStanding'[a] = GovStanding[a]
    <3>1. \A s \in GovThreads : GovHolds(s, a) \/ GovHolds(s, a)' =>
              govThreads'[s] = govThreads[s]
      BY <1>4, <2>1, GovBounds DEF GovHolds
    <3> QED
      BY <1>2, <1>3, <3>1, GovSame
  <2> QED
    BY <2>1, <2>2
<1>5. CASE GovFails(t)
  <2>1. \E p : GovGoes(t, p) /\ p.id \in {b, GovNone} /\ p.pc \notin {"authorize", "dispatch"}
    <3>1. CASE GovReply(t)
      BY <3>1, GovIdleIs DEF GovReply
    <3>2. CASE GovGoes(t, [govThreads[t] EXCEPT !.pc = "discard", !.result = "none"])
      <4> DEFINE p == [govThreads[t] EXCEPT !.pc = "discard", !.result = "none"]
      <4>1. p.id = b /\ p.pc = "discard" /\ GovGoes(t, p)
        BY <1>1, <3>2 DEF GovThread
      <4> HIDE DEF p
      <4> QED
        BY <4>1
    <3> QED
      BY <1>5, <3>1, <3>2 DEF GovFails
  <2>2. PICK p : GovGoes(t, p) /\ p.id \in {b, GovNone} /\ p.pc \notin {"authorize", "dispatch"}
    BY <2>1
  <2>3. /\ govThreads'[t] = p
        /\ \A s \in GovThreads \ {t} : govThreads'[s] = govThreads[s]
        /\ \A a \in GovIds \ {b} : GovStanding'[a] = GovStanding[a]
    BY <1>4, <2>2
  <2>4. \/ GovStanding'[b] = GovStanding[b]
        \/ GovStanding'[b] = "gone" /\ GovStanding[b] # "unasked"
    <3>1. CASE govRecords[b] = GovGone
      <4>1. \A s \in GovThreads : GovHolds(s, b) \/ GovHolds(s, b)' =>
              govThreads'[s] = govThreads[s]
        BY <1>1, <2>2, <2>3 DEF GovHolds
      <4> QED
        BY <1>1, <1>2, <1>3, <3>1, <4>1, GovSame
    <3>2. CASE govRecords[b] # GovGone
      <4>1. govRuns'[b] = <<>>
        BY <1>1, <1>2, <3>2 DEF GovStoresOK
      <4>2. \A s \in GovThreads : ~GovHolds(s, b)'
        <5> TAKE s \in GovThreads
        <5>1. GovThreadOK(s)
          BY DEF GovIInv
        <5>2. ~GovHolds(s, b)
          BY <3>2, <5>1 DEF GovThreadOK, GovHolds, GovAtWork
        <5> QED
          BY <2>2, <2>3, <5>2 DEF GovHolds
      <4> QED
        BY <1>1, <1>2, <1>3, <3>2, <4>1, <4>2 DEF GovStandingFacts
    <3> QED
      BY <3>1, <3>2
  <2> QED
    BY <1>2, <2>3, <2>4, GovLapseMap
<1>6. ASSUME NEW now, govRecords[b] # GovGone,
             GovGoes(t, [govThreads[t] EXCEPT !.pc = "authorize", !.now = now])
      PROVE  GovAuthority!Next
  <2> DEFINE p == [govThreads[t] EXCEPT !.pc = "authorize", !.now = now]
             d == govThreads[t].decision
  <2>1. p.id = b /\ p.pc = "authorize" /\ p.decision = d /\ GovGoes(t, p)
    BY <1>1, <1>6 DEF GovThread
  <2> HIDE DEF p
  <2>2. govThreads'[t] = p /\ \A a \in GovIds \ {b} : GovStanding'[a] = GovStanding[a]
    BY <1>4, <2>1
  <2>3. GovStanding[b] = "pending" /\ GovStanding'[b] = d
    BY <1>1, <1>6, <2>1, <2>2 DEF GovStandingFacts
  <2>4. GovStanding' = [GovStanding EXCEPT ![b] = d]
    BY <1>1, <2>2, <2>3, GovMoveMap
  <2>5. GovAuthority!Decide(b, d)
    BY <1>2, <2>3, <2>4 DEF GovAuthority!Decide
  <2> QED
    BY <1>1, <2>5 DEF GovAuthority!Next
<1> QED
  BY <1>5, <1>6 DEF GovConsume

LEMMA GovAuthorizeMap ==
    ASSUME GovIInv, GovIInv', NEW t \in GovThreads, GovAuthorize(t)
    PROVE  GovAuthority!Next
<1> PICK b : b = govThreads[t].id
  OBVIOUS
<1>1. /\ GovStandingFacts /\ GovStandingFacts' /\ GovExclusive /\ GovThreadOK(t)
      /\ govThreads[t] \in GovThread /\ govThreads[t].pc = "authorize"
      /\ b \in GovIds /\ govIssued[b] # GovNone /\ govRecords[b] = GovGone /\ govRuns[b] = <<>>
      /\ govThreads[t].decision \in {"approved", "denied"}
  BY GovStandingIs, GovStandingNext, GovThreadIs DEF GovAuthorize, GovThreadOK, GovIInv, GovAtWork
<1>2. UNCHANGED <<govRecords, govIssued, govRuns>>
  BY DEF GovAuthorize, govStores, govHistory
<1>3. GovStanding[b] = govThreads[t].decision
  BY <1>1 DEF GovStandingFacts
<1>4. ASSUME NEW pc, NEW result,
             GovGoes(t, [govThreads[t] EXCEPT !.pc = pc, !.result = result])
      PROVE  /\ govThreads'[t].pc = pc /\ govThreads'[t].id = b
             /\ \A s \in GovThreads \ {t} : govThreads'[s] = govThreads[s]
             /\ \A a \in GovIds \ {b} : GovStanding'[a] = GovStanding[a]
  <2>1. /\ govThreads'[t] = [govThreads[t] EXCEPT !.pc = pc, !.result = result]
        /\ \A s \in GovThreads \ {t} : govThreads'[s] = govThreads[s]
    BY <1>4, GovThreadIs DEF GovGoes
  <2>2. govThreads'[t].pc = pc /\ govThreads'[t].id = b
    BY <1>1, <2>1 DEF GovThread
  <2>3. ASSUME NEW a \in GovIds \ {b} PROVE GovStanding'[a] = GovStanding[a]
    <3>1. \A s \in GovThreads : GovHolds(s, a) \/ GovHolds(s, a)' =>
              govThreads'[s] = govThreads[s]
      BY <2>1, <2>2 DEF GovHolds
    <3> QED
      BY <1>2, <3>1, GovSame
  <2> QED
    BY <2>1, <2>2, <2>3
<1>5. CASE govThreads[t].decision = "approved" /\ GovStep(t, "dispatch")
  <2>1. [govThreads[t] EXCEPT !.pc = "dispatch"]
           = [govThreads[t] EXCEPT !.pc = "dispatch", !.result = govThreads[t].result]
    BY <1>1 DEF GovThread
  <2>2. /\ govThreads'[t].pc = "dispatch" /\ govThreads'[t].id = b
        /\ \A a \in GovIds \ {b} : GovStanding'[a] = GovStanding[a]
    BY <1>4, <1>5, <2>1 DEF GovStep
  <2>3. GovStanding'[b] = "spent"
    BY <1>1, <2>2 DEF GovStandingFacts
  <2>4. GovStanding' = [GovStanding EXCEPT ![b] = "spent"]
    BY <1>1, <2>2, <2>3, GovMoveMap
  <2>5. GovAuthority!Spend(b)
    BY <1>2, <1>3, <1>5, <2>4 DEF GovAuthority!Spend
  <2> QED
    BY <1>1, <2>5 DEF GovAuthority!Next
<1>6. ASSUME NEW pc \in {"complete", "feedback"}, NEW result,
             GovGoes(t, [govThreads[t] EXCEPT !.pc = pc, !.result = result])
      PROVE  GovAuthority!Next
  <2>1. /\ govThreads'[t].pc = pc /\ govThreads'[t].id = b
        /\ \A s \in GovThreads \ {t} : govThreads'[s] = govThreads[s]
        /\ \A a \in GovIds \ {b} : GovStanding'[a] = GovStanding[a]
    BY <1>4, <1>6
  <2>2. \A s \in GovThreads : ~GovHolds(s, b)'
    BY <1>1, <2>1 DEF GovHolds, GovExclusive
  <2>3. GovStanding'[b] = "gone"
    BY <1>1, <1>2, <2>2 DEF GovStandingFacts
  <2> QED
    BY <1>1, <1>2, <1>3, <2>1, <2>3, GovLapseMap
<1>7. CASE govThreads[t].decision = "approved" /\ govThreads[t].active
  BY <1>5, <1>7 DEF GovAuthorize
<1>8. CASE ~(govThreads[t].decision = "approved" /\ govThreads[t].active)
  <2> DEFINE pc == IF govThreads[t].bound = GovNone THEN "complete" ELSE "feedback"
             result == IF govThreads[t].decision = "approved" THEN "adverse"
                       ELSE IF govThreads[t].active THEN "denied" ELSE "lost"
  <2>1. GovGoes(t, [govThreads[t] EXCEPT !.pc = pc, !.result = result])
    BY <1>8 DEF GovAuthorize
  <2>2. pc \in {"complete", "feedback"}
    OBVIOUS
  <2> HIDE DEF pc, result
  <2> QED
    BY <1>6, <2>1, <2>2
<1> QED
  BY <1>7, <1>8

LEMMA GovDispatchMap ==
    ASSUME GovIInv, GovIInv', NEW t \in GovThreads, GovDispatch(t)
    PROVE  GovAuthority!Next
<1> DEFINE b == govThreads[t].id
<1>1. /\ GovStandingFacts /\ GovStandingFacts' /\ GovExclusive /\ GovStoresType
      /\ govThreads[t] \in GovThread /\ govThreads[t].pc = "dispatch"
      /\ b \in GovIds /\ govIssued[b] # GovNone /\ govRecords[b] = GovGone /\ govRuns[b] = <<>>
  BY GovStandingIs, GovStandingNext, GovThreadIs DEF GovDispatch, GovThreadOK, GovIInv, GovAtWork
<1>2. /\ UNCHANGED <<govRecords, govIssued>>
      /\ govRuns' = [govRuns EXCEPT ![b] = Append(@, govIssued[b])]
  BY DEF GovDispatch, govStores
<1>3. govRuns'[b] # <<>> /\ \A a \in GovIds \ {b} : govRuns'[a] = govRuns[a]
  BY <1>1, <1>2 DEF GovStoresType
<1>4. PICK pc \in {"complete", "feedback"} :
          pc = IF govThreads[t].bound = GovNone THEN "complete" ELSE "feedback"
  OBVIOUS
<1>10. PICK result \in {"succeeded", "adverse"} :
          GovGoes(t, [govThreads[t] EXCEPT !.result = result, !.pc = pc])
  BY <1>4 DEF GovDispatch
<1>5. /\ govThreads'[t].pc = pc /\ govThreads'[t].id = b
      /\ \A s \in GovThreads \ {t} : govThreads'[s] = govThreads[s]
  BY <1>1, <1>10, GovThreadIs DEF GovGoes, GovThread
<1>6. ASSUME NEW a \in GovIds \ {b} PROVE GovStanding'[a] = GovStanding[a]
  <2>1. \A s \in GovThreads : GovHolds(s, a) \/ GovHolds(s, a)' =>
              govThreads'[s] = govThreads[s]
    BY <1>5 DEF GovHolds
  <2> QED
    BY <1>2, <1>3, <2>1, GovSame
<1>7. GovStanding[b] = "spent" /\ GovStanding'[b] = "spent"
  BY <1>1, <1>2, <1>3 DEF GovStandingFacts
<1>8. GovStanding' = GovStanding
  <2>1. /\ GovStanding = [a \in GovIds |-> GovStanding[a]]
        /\ GovStanding' = [a \in GovIds |-> GovStanding'[a]]
    BY DEF GovStanding
  <2>2. \A a \in GovIds : GovStanding'[a] = GovStanding[a]
    BY <1>6, <1>7
  <2> HIDE DEF GovStanding
  <2> QED
    BY <2>1, <2>2
<1>9. GovAuthority!Act(b)
  BY <1>1, <1>2, <1>7, <1>8 DEF GovAuthority!Act
<1> QED
  BY <1>1, <1>9 DEF GovAuthority!Next

LEMMA GovRestartMap ==
    ASSUME GovIInv, GovIInv', GovRestart
    PROVE  GovAuthority!Next
<1>1. GovStandingFacts /\ GovStandingFacts' /\ GovStoresOK
  BY GovStandingIs, GovStandingNext DEF GovIInv
<1>2. /\ UNCHANGED <<govIssued, govRuns>>
      /\ \A a \in GovIds : govRecords'[a] = GovGone
      /\ \A t \in GovThreads : govThreads'[t].pc = "idle"
  BY GovIdleIs DEF GovRestart, govHistory, GovNoExpiry, GovAllIdle
<1>3. ASSUME NEW a \in GovIds
      PROVE  \/ GovStanding'[a] = GovStanding[a]
             \/ GovStanding'[a] = "gone" /\ GovStanding[a] # "unasked"
  <2>1. CASE govIssued[a] = GovNone
    BY <1>1, <1>2, <2>1 DEF GovStandingFacts
  <2>2. CASE govIssued[a] # GovNone /\ govRuns[a] # <<>>
    <3>1. govRecords[a] = GovGone
      BY <1>1, <2>2 DEF GovStoresOK
    <3> QED
      BY <1>1, <1>2, <2>2, <3>1 DEF GovStandingFacts
  <2>3. CASE govIssued[a] # GovNone /\ govRuns[a] = <<>>
    <3>1. GovStanding'[a] = "gone"
      <4>1. \A t \in GovThreads : ~GovHolds(t, a)'
        BY <1>2 DEF GovHolds
      <4> QED
        BY <1>1, <1>2, <2>3, <4>1 DEF GovStandingFacts
    <3>2. GovStanding[a] # "unasked"
      <4>1. CASE govRecords[a] # GovGone
        BY <1>1, <2>3, <4>1 DEF GovStandingFacts
      <4>2. CASE govRecords[a] = GovGone /\ \A t \in GovThreads : ~GovHolds(t, a)
        BY <1>1, <2>3, <4>2 DEF GovStandingFacts
      <4>3. ASSUME NEW t \in GovThreads, GovHolds(t, a) PROVE GovStanding[a] # "unasked"
        <5>1. govThreads[t].decision \in {"approved", "denied"}
          BY <4>3 DEF GovIInv, GovThreadOK, GovHolds
        <5>2. GovStanding[a] \in {"spent", govThreads[t].decision}
          BY <1>1, <4>3 DEF GovStandingFacts, GovHolds
        <5> QED
          BY <5>1, <5>2
      <4> QED
        BY <4>1, <4>2, <4>3
    <3> QED
      BY <3>1, <3>2
  <2> QED
    BY <2>1, <2>2, <2>3
<1> QED
  BY <1>2, <1>3, GovLapseMap

\* The steps an observer of the authority does not see.
LEMMA GovElseMap ==
    ASSUME GovIInv, GovIInv', NEW t \in GovThreads,
           \/ GovRegister(t) \/ GovBindChat(t) \/ GovRecord(t) \/ GovIntegrate(t)
           \/ GovDiscard(t) \/ GovComplete(t) \/ ExpFind(t) \/ ExpCapture(t)
           \/ \E a \in GovIds, decision \in {"approved", "denied"} : GovDecide(t, a, decision)
    PROVE  UNCHANGED GovAuthority!vars
<1>1. UNCHANGED <<govRecords, govIssued, govRuns>>
  BY DEF GovRegister, GovBindChat, GovRecord, GovIntegrate, GovDiscard, GovComplete, ExpFind,
     ExpCapture, GovDecide, govStores, govHistory
<1>2. govThreads[t].pc \notin {"authorize", "dispatch"}
  BY DEF GovRegister, GovBindChat, GovRecord, GovIntegrate, GovDiscard, GovComplete, ExpFind,
     ExpCapture, GovDecide
<1>3. ASSUME NEW p, GovGoes(t, p), p.pc \notin {"authorize", "dispatch"}
      PROVE  UNCHANGED GovAuthority!vars
  <2>1. govThreads'[t] = p /\ \A s \in GovThreads \ {t} : govThreads'[s] = govThreads[s]
    BY <1>3, GovThreadIs DEF GovGoes
  <2> QED
    BY <1>1, <1>2, <1>3, <2>1, GovFreeMap
<1>4. CASE GovReply(t)
  BY <1>3, <1>4, GovIdleIs DEF GovReply
<1>5. ASSUME NEW pc \in {"integrate", "capture", "insert", "discard", "complete"}, GovStep(t, pc)
      PROVE  UNCHANGED GovAuthority!vars
  <2>1. [govThreads[t] EXCEPT !.pc = pc].pc = pc
    BY GovThreadIs DEF GovThread
  <2> QED
    BY <1>3, <1>5, <2>1 DEF GovStep
<1>6. ASSUME NEW a \in GovIds, NEW decision \in {"approved", "denied"}, GovDecide(t, a, decision)
      PROVE  UNCHANGED GovAuthority!vars
  <2>1. PICK right \in BOOLEAN :
          GovGoes(t, [GovIdle EXCEPT !.pc = "consume", !.id = a, !.decision = decision,
                !.right = right, !.bound = govBindings[a], !.active = govActive,
                !.now = govClock])
    BY <1>6 DEF GovDecide
  <2>2. [GovIdle EXCEPT !.pc = "consume", !.id = a, !.decision = decision,
                !.right = right, !.bound = govBindings[a], !.active = govActive,
                !.now = govClock].pc = "consume"
    BY DEF GovIdle
  <2> QED
    BY <1>3, <2>1, <2>2
<1>7. CASE GovRegister(t) \/ GovBindChat(t) \/ GovComplete(t)
  BY <1>4, <1>7 DEF GovRegister, GovBindChat, GovComplete
<1>8. CASE GovRecord(t) \/ GovIntegrate(t)
  BY <1>5, <1>8 DEF GovRecord, GovIntegrate
<1>9. CASE GovDiscard(t)
  BY <1>4, <1>5, <1>9 DEF GovDiscard
<1>10. CASE ExpFind(t) \/ ExpCapture(t)
  BY <1>5, <1>10 DEF ExpFind, ExpCapture
<1> QED
  BY <1>6, <1>7, <1>8, <1>9, <1>10

LEMMA GovStepMap ==
    ExpIInv /\ ExpIInv' /\ [ExpNext]_<<govVars, expVars>>
        => [GovAuthority!Next]_(GovAuthority!vars)
<1> SUFFICES ASSUME GovIInv, GovIInv', [ExpNext]_<<govVars, expVars>>
             PROVE  GovAuthority!Next \/ UNCHANGED GovAuthority!vars
  BY DEF ExpIInv
<1>1. CASE UNCHANGED govVars \/ GovTick \/ GovSwitchOff
  <2>1. UNCHANGED <<govRecords, govIssued, govRuns, govThreads>>
    BY <1>1 DEF govVars, GovTick, GovSwitchOff, govStores, govHistory
  <2>2. \A a \in GovIds : GovStanding'[a] = GovStanding[a]
    BY <2>1, GovSame
  <2> QED
    BY <2>1, <2>2, GovQuietMap
<1>2. ASSUME NEW t \in GovThreads, GovLane(t)
      PROVE  GovAuthority!Next \/ UNCHANGED GovAuthority!vars
  BY <1>2, GovProposeMap, GovConsumeMap, GovAuthorizeMap, GovDispatchMap, GovElseMap DEF GovLane
<1>3. CASE GovNext
  BY <1>1, <1>2, <1>3, GovRestartMap DEF GovNext
<1>4. ASSUME NEW t \in GovThreads, ExpFind(t) \/ ExpCapture(t)
      PROVE  UNCHANGED GovAuthority!vars
  BY <1>4, GovElseMap
<1>5. CASE \E o \in ExpOwners :
          ExpLoad(o) \/ ExpDecide(o) \/ ExpPromote(o) \/ ExpInsert(o) \/ ExpFails(o)
  BY <1>1, <1>5 DEF ExpLoad, ExpDecide, ExpPromote, ExpInsert, ExpFails
<1> QED
  BY <1>1, <1>3, <1>4, <1>5 DEF ExpNext

LEMMA GovInitMap == GovInit => GovAuthority!Init
BY DEF GovInit, GovAuthority!Init, GovStanding, GovEmpty

\* "ONE PENDING APPROVAL -> AT MOST ONE EXECUTION ATTEMPT": an observer sees an
\* approval asked for, decided once, spent once and dispatched at most once,
\* with the kind it was asked for, or lapsed; restarts included.
THEOREM GovImplements == ExpSpec => GovImplementsAuthority
<1> QED
  BY ExpInvariant, GovInitMap, GovStepMap, PTL
     DEF ExpSpec, ExpInit, GovImplementsAuthority, GovAuthority!Spec

-----------------------------------------------------------------------------
(* PluginLifecycle: the inductive invariant.                                *)

\* The steps of a look at an activation that a call can make.
PlgCallPcs == {"validate", "upstream", "remove", "invoke", "run"}

\* A stage that is under way has the stages before it; a call goes on past
\* its first look only while its token is as current as it was when it was
\* made, and an admitted moment it can still find is one it has seen.
PlgThreadOK(t) ==
    LET q == plgThreads[t] IN
    /\ q.pc = "expose" => plgLoaded
    /\ q.pc = "bind" => plgExposed
    /\ q.pc \in {"activate", "add"} => plgBound
    /\ q.pc \in {"invoke", "run"} => q.goal = "execute"
    /\ q.goal = "snapshot" => ~q.dead
    /\ q.goal = "execute" =>
          /\ q.pc \in PlgCallPcs
          /\ q.token # PlgNone
          /\ q.dead => q.pc = "validate" /\ plgActive # q.token
          /\ plgDecision = "admitted" => t \in plgAdmitted
    /\ q.pc = "run" => t \in plgAdmitted

PlgIInv == PlgTypeOK /\ \A t \in PlgThreads : PlgThreadOK(t)

\* What a thread is, by the tokens there have been.
PlgThread ==
    [pc : PlgPcs, token : plgMade \cup {PlgNone},
     goal : {"snapshot", "execute"}, dead : BOOLEAN]

-----------------------------------------------------------------------------
(* PluginLifecycle: types, and what a step leaves alone.                    *)

LEMMA PlgIdleIs ==
    /\ PlgIdle \in PlgThread /\ PlgIdle \in PlgThread' /\ PlgIdle.pc = "idle"
    /\ PlgIdle.goal = "snapshot" /\ PlgIdle.dead = FALSE /\ PlgIdle.token = PlgNone
BY DEF PlgIdle, PlgThread, PlgPcs

LEMMA PlgGoesType ==
    ASSUME PlgTypeOK, plgMade \subseteq plgMade', NEW t \in PlgThreads, NEW p \in PlgThread',
           PlgGoes(t, p)
    PROVE  /\ plgThreads' \in [PlgThreads -> PlgThread']
           /\ plgThreads'[t] = p
           /\ \A s \in PlgThreads \ {t} : plgThreads'[s] = plgThreads[s]
<1>1. plgThreads \in [PlgThreads -> PlgThread] /\ PlgThread \subseteq PlgThread'
  BY DEF PlgTypeOK, PlgThread
<1> QED
  BY <1>1 DEF PlgGoes

\* What the type invariant says of a thread and of the stages.
LEMMA PlgTypes ==
    ASSUME PlgIInv, NEW t \in PlgThreads
    PROVE  /\ PlgTypeOK /\ PlgThreadOK(t) /\ plgThreads[t] \in PlgThread
           /\ plgDecision \in {"none", "admitted", "rejected", "revoked"}
           /\ plgLoaded \in BOOLEAN /\ plgExposed \in BOOLEAN /\ plgBound \in BOOLEAN
           /\ (plgBound => plgExposed) /\ (plgExposed => plgLoaded)
           /\ plgMade \subseteq PlgTokens /\ plgActive \in plgMade \cup {PlgNone}
           /\ (plgActive # PlgNone => plgBound)
           /\ plgLoading \in PlgThreads \cup {PlgNone}
           /\ plgActivating \in PlgThreads \cup {PlgNone}
           /\ plgThreads[t].pc = "construct" <=> plgLoading = t
           /\ plgThreads[t].pc = "add" <=> plgActivating = t
           /\ plgAdmitted \subseteq PlgThreads
           /\ PlgNone \notin PlgThreads /\ PlgNone \notin PlgTokens
BY PlgAssumption DEF PlgIInv, PlgTypeOK, PlgThread

\* A step of one thread: the stages are only added to, an activation is the
\* one there was or has a new token, and only its own calls leave a thread
\* without its admitted moment.
LEMMA PlgThreadStep ==
    ASSUME PlgIInv, NEW t \in PlgThreads, NEW p \in PlgThread', PlgGoes(t, p),
           plgDecision' \in {"none", "admitted", "rejected", "revoked"},
           plgLoaded' \in BOOLEAN, plgExposed' \in BOOLEAN, plgBound' \in BOOLEAN,
           plgLoaded => plgLoaded', plgExposed => plgExposed', plgBound => plgBound',
           plgExposed' => plgLoaded', plgBound' => plgExposed',
           plgMade \subseteq plgMade', plgMade' \subseteq PlgTokens,
           plgActive' \in plgMade' \cup {PlgNone}, plgActive' # PlgNone => plgBound',
           plgActive' \notin plgMade \/ plgActive' = plgActive,
           plgLoading' \in PlgThreads \cup {PlgNone},
           plgActivating' \in PlgThreads \cup {PlgNone},
           p.pc = "construct" <=> plgLoading' = t, p.pc = "add" <=> plgActivating' = t,
           \A s \in PlgThreads \ {t} :
              /\ plgLoading' = s <=> plgLoading = s
              /\ plgActivating' = s <=> plgActivating = s
              /\ s \in plgAdmitted => s \in plgAdmitted',
           plgDecision' = "admitted" => plgDecision = "admitted" \/ plgAdmitted' = PlgThreads,
           plgAdmitted' \subseteq PlgThreads,
           PlgThreadOK(t)'
    PROVE  PlgIInv'
<1>1. PlgTypeOK
  BY DEF PlgIInv
<1>2. /\ plgThreads' \in [PlgThreads -> PlgThread']
      /\ plgThreads'[t] = p
      /\ \A s \in PlgThreads \ {t} : plgThreads'[s] = plgThreads[s]
  BY <1>1, PlgGoesType
<1>3. \A s \in PlgThreads :
          /\ plgThreads'[s].pc = "construct" <=> plgLoading' = s
          /\ plgThreads'[s].pc = "add" <=> plgActivating' = s
  BY <1>1, <1>2 DEF PlgTypeOK
<1>4. PlgTypeOK'
  BY <1>2, <1>3 DEF PlgTypeOK, PlgThread
<1>5. ASSUME NEW s \in PlgThreads \ {t} PROVE PlgThreadOK(s)'
  <2>1. PlgThreadOK(s) /\ plgThreads[s] \in PlgThread /\ PlgNone \notin plgMade
    BY PlgTypes
  <2>2. plgThreads[s].token # PlgNone => plgThreads[s].token \in plgMade
    BY <2>1 DEF PlgThread
  <2>3. plgThreads[s].token # PlgNone /\ plgActive # plgThreads[s].token
            => plgActive' # plgThreads[s].token
    BY <2>2
  <2> QED
    BY <1>2, <2>1, <2>3 DEF PlgThreadOK
<1> QED
  BY <1>4, <1>5 DEF PlgIInv

\* A step that changes its thread, and perhaps ends an activation.
LEMMA PlgLookOK ==
    ASSUME PlgIInv, NEW t \in PlgThreads, NEW p \in PlgThread, PlgGoes(t, p),
           UNCHANGED <<PlgUpstream, plgMade, PlgLocks>>,
           plgActive' \in {plgActive, PlgNone},
           plgThreads[t].pc \notin {"construct", "add"}, p.pc \notin {"construct", "add"},
           \A s \in PlgThreads \ {t} : s \in plgAdmitted => s \in plgAdmitted',
           plgAdmitted' \subseteq PlgThreads, PlgThreadOK(t)'
    PROVE  PlgIInv'
<1>1. p \in PlgThread'
  BY DEF PlgThread
<1>2. UNCHANGED <<plgDecision, plgLoaded, plgExposed, plgBound, plgLoading, plgActivating>>
  BY DEF PlgUpstream, PlgLocks
<1> HIDE DEF PlgUpstream, PlgLocks
<1>3. plgActive' \notin plgMade \/ plgActive' = plgActive
  BY PlgTypes
<1> QED
  BY <1>1, <1>2, <1>3, PlgTypes, PlgThreadStep

\* The two ways a thread goes on: with another program counter, or idle.
LEMMA PlgStepIs ==
    ASSUME PlgIInv, NEW t \in PlgThreads, NEW pc \in PlgPcs, PlgStep(t, pc)
    PROVE  \E p \in PlgThread :
              /\ PlgGoes(t, p) /\ plgThreads'[t] = p /\ p.pc = pc
              /\ p.token = plgThreads[t].token /\ p.goal = plgThreads[t].goal
              /\ p.dead = plgThreads[t].dead
<1> DEFINE p == [plgThreads[t] EXCEPT !.pc = pc]
<1>1. plgThreads[t] \in PlgThread
  BY PlgTypes
<1>2. /\ p \in PlgThread /\ p.pc = pc /\ p.token = plgThreads[t].token
      /\ p.goal = plgThreads[t].goal /\ p.dead = plgThreads[t].dead
  BY <1>1 DEF PlgThread
<1>3. PlgGoes(t, p) /\ plgThreads'[t] = p
  BY DEF PlgStep, PlgGoes, PlgIInv, PlgTypeOK
<1> HIDE DEF p
<1> QED
  BY <1>2, <1>3

LEMMA PlgReplyIs ==
    ASSUME PlgIInv, NEW t \in PlgThreads, PlgReply(t)
    PROVE  /\ PlgGoes(t, PlgIdle) /\ plgThreads'[t] = PlgIdle
           /\ PlgThreadOK(t)'
<1>1. PlgGoes(t, PlgIdle) /\ plgThreads'[t] = PlgIdle
  BY DEF PlgReply, PlgGoes, PlgIInv, PlgTypeOK
<1> QED
  BY <1>1, PlgIdleIs DEF PlgThreadOK


-----------------------------------------------------------------------------
(* PluginLifecycle: the actions.                                            *)

LEMMA PlgReplyOK ==
    ASSUME PlgIInv, NEW t \in PlgThreads, PlgReply(t),
           UNCHANGED <<PlgUpstream, plgMade, PlgLocks, plgAdmitted>>,
           plgActive' \in {plgActive, PlgNone},
           plgThreads[t].pc \notin {"construct", "add"}
    PROVE  PlgIInv'
BY PlgReplyIs, PlgIdleIs, PlgTypes, PlgLookOK

LEMMA PlgAdmitOK ==
    ASSUME PlgIInv, NEW t \in PlgThreads, PlgAdmit(t)
    PROVE  PlgIInv'
<1>1. /\ plgDecision' = "admitted" /\ plgAdmitted' = PlgThreads /\ plgThreads[t].pc = "idle"
      /\ UNCHANGED <<plgLoaded, plgExposed, plgBound, plgActive, plgMade,
                     plgLoading, plgActivating>>
  BY DEF PlgAdmit, PlgLocks
<1>2. PICK p \in PlgThread :
              /\ PlgGoes(t, p) /\ plgThreads'[t] = p /\ p.pc = "load"
              /\ p.token = plgThreads[t].token /\ p.goal = plgThreads[t].goal
              /\ p.dead = plgThreads[t].dead
  BY PlgStepIs DEF PlgAdmit, PlgPcs
<1>3. p \in PlgThread'
  BY <1>1 DEF PlgThread
<1>4. PlgThreadOK(t)'
  BY <1>1, <1>2, PlgTypes DEF PlgThreadOK, PlgCallPcs
<1> QED
  BY <1>1, <1>2, <1>3, <1>4, PlgTypes, PlgThreadStep

LEMMA PlgLoadOK ==
    ASSUME PlgIInv, NEW t \in PlgThreads, PlgLoad(t)
    PROVE  PlgIInv'
<1>1. /\ UNCHANGED <<plgDecision, plgLoaded, plgExposed, plgBound, plgActive, plgMade,
                     plgActivating, plgAdmitted>>
      /\ plgThreads[t].pc = "load" /\ plgLoading = PlgNone
  BY DEF PlgLoad, PlgUpstream
<1>2. CASE PlgReply(t) /\ UNCHANGED plgLoading
  BY <1>1, <1>2, PlgReplyOK DEF PlgUpstream, PlgLocks
<1>3. ASSUME NEW pc \in {"expose", "construct"}, PlgStep(t, pc),
             pc = "expose" => plgLoaded /\ UNCHANGED plgLoading,
             pc = "construct" => plgLoading' = t
      PROVE  PlgIInv'
  <2>1. PICK p \in PlgThread :
              /\ PlgGoes(t, p) /\ plgThreads'[t] = p /\ p.pc = pc
              /\ p.token = plgThreads[t].token /\ p.goal = plgThreads[t].goal
              /\ p.dead = plgThreads[t].dead
    BY <1>3, PlgStepIs DEF PlgPcs
  <2>2. p \in PlgThread'
    BY <1>1 DEF PlgThread
  <2>3. PlgThreadOK(t)'
    BY <1>1, <1>3, <2>1, PlgTypes DEF PlgThreadOK, PlgCallPcs
  <2>4. /\ plgLoading' \in PlgThreads \cup {PlgNone} /\ p.pc = "construct" <=> plgLoading' = t
        /\ \A s \in PlgThreads \ {t} : plgLoading' = s <=> plgLoading = s
    BY <1>1, <1>3, <2>1, PlgTypes
  <2> QED
    BY <1>1, <1>3, <2>1, <2>2, <2>3, <2>4, PlgTypes, PlgThreadStep
<1> QED
  BY <1>2, <1>3 DEF PlgLoad

LEMMA PlgConstructOK ==
    ASSUME PlgIInv, NEW t \in PlgThreads, PlgConstruct(t)
    PROVE  PlgIInv'
<1>1. /\ UNCHANGED <<plgDecision, plgExposed, plgBound, plgActive, plgMade,
                     plgActivating, plgAdmitted>>
      /\ plgThreads[t].pc = "construct" /\ plgLoading = t /\ plgLoading' = PlgNone
  BY PlgTypes DEF PlgConstruct
<1>2. ASSUME NEW p \in PlgThread, PlgGoes(t, p), PlgThreadOK(t)', p.pc \in {"idle", "expose"},
             plgLoaded' \in BOOLEAN, plgLoaded => plgLoaded'
      PROVE  PlgIInv'
  <2>1. p \in PlgThread'
    BY <1>1 DEF PlgThread
  <2> QED
    BY <1>1, <1>2, <2>1, PlgTypes, PlgThreadStep
<1>3. CASE PlgReply(t) /\ UNCHANGED plgLoaded
  BY <1>2, <1>3, PlgReplyIs, PlgIdleIs, PlgTypes
<1>4. CASE plgLoaded' = TRUE /\ PlgStep(t, "expose")
  <2>1. PICK p \in PlgThread :
              /\ PlgGoes(t, p) /\ plgThreads'[t] = p /\ p.pc = "expose"
              /\ p.token = plgThreads[t].token /\ p.goal = plgThreads[t].goal
              /\ p.dead = plgThreads[t].dead
    BY <1>4, PlgStepIs DEF PlgPcs
  <2>2. PlgThreadOK(t)'
    BY <1>1, <1>4, <2>1, PlgTypes DEF PlgThreadOK, PlgCallPcs
  <2> QED
    BY <1>2, <1>4, <2>1, <2>2
<1> QED
  BY <1>3, <1>4 DEF PlgConstruct

LEMMA PlgExposeOK ==
    ASSUME PlgIInv, NEW t \in PlgThreads, PlgExpose(t)
    PROVE  PlgIInv'
<1>1. /\ UNCHANGED <<plgDecision, plgLoaded, plgBound, plgActive, plgMade,
                     plgLoading, plgActivating, plgAdmitted>>
      /\ plgThreads[t].pc = "expose" /\ plgLoaded
  BY PlgTypes DEF PlgExpose, PlgLocks, PlgThreadOK
<1>2. CASE PlgReply(t) /\ UNCHANGED plgExposed
  BY <1>1, <1>2, PlgReplyOK DEF PlgUpstream, PlgLocks
<1>3. CASE plgExposed' = TRUE /\ PlgStep(t, "bind")
  <2>1. PICK p \in PlgThread :
              /\ PlgGoes(t, p) /\ plgThreads'[t] = p /\ p.pc = "bind"
              /\ p.token = plgThreads[t].token /\ p.goal = plgThreads[t].goal
              /\ p.dead = plgThreads[t].dead
    BY <1>3, PlgStepIs DEF PlgPcs
  <2>2. PlgThreadOK(t)'
    BY <1>1, <1>3, <2>1, PlgTypes DEF PlgThreadOK, PlgCallPcs
  <2>3. p \in PlgThread'
    BY <1>1 DEF PlgThread
  <2> QED
    BY <1>1, <1>3, <2>1, <2>2, <2>3, PlgTypes, PlgThreadStep
<1> QED
  BY <1>2, <1>3 DEF PlgExpose

LEMMA PlgBindOK ==
    ASSUME PlgIInv, NEW t \in PlgThreads, PlgBind(t)
    PROVE  PlgIInv'
<1>1. /\ UNCHANGED <<plgDecision, plgLoaded, plgExposed, plgActive, plgMade,
                     plgLoading, plgActivating, plgAdmitted>>
      /\ plgThreads[t].pc = "bind" /\ plgExposed
  BY PlgTypes DEF PlgBind, PlgLocks, PlgThreadOK
<1>2. CASE PlgReply(t) /\ UNCHANGED plgBound
  BY <1>1, <1>2, PlgReplyOK DEF PlgUpstream, PlgLocks
<1>3. CASE plgBound' = TRUE /\ PlgStep(t, "activate")
  <2>1. PICK p \in PlgThread :
              /\ PlgGoes(t, p) /\ plgThreads'[t] = p /\ p.pc = "activate"
              /\ p.token = plgThreads[t].token /\ p.goal = plgThreads[t].goal
              /\ p.dead = plgThreads[t].dead
    BY <1>3, PlgStepIs DEF PlgPcs
  <2>2. PlgThreadOK(t)'
    BY <1>1, <1>3, <2>1, PlgTypes DEF PlgThreadOK, PlgCallPcs
  <2>3. p \in PlgThread'
    BY <1>1 DEF PlgThread
  <2> QED
    BY <1>1, <1>3, <2>1, <2>2, <2>3, PlgTypes, PlgThreadStep
<1> QED
  BY <1>2, <1>3 DEF PlgBind

LEMMA PlgActivateOK ==
    ASSUME PlgIInv, NEW t \in PlgThreads, PlgActivate(t)
    PROVE  PlgIInv'
<1>1. /\ UNCHANGED <<plgDecision, plgLoaded, plgExposed, plgBound, plgActive, plgMade,
                     plgLoading, plgAdmitted>>
      /\ plgThreads[t].pc = "activate" /\ plgActivating = PlgNone /\ plgBound
  BY PlgTypes DEF PlgActivate, PlgUpstream, PlgThreadOK
<1>2. CASE PlgReply(t) /\ UNCHANGED plgActivating
  BY <1>1, <1>2, PlgReplyOK DEF PlgUpstream, PlgLocks
<1>3. CASE PlgStep(t, "add") /\ plgActivating' = t
  <2>1. PICK p \in PlgThread :
              /\ PlgGoes(t, p) /\ plgThreads'[t] = p /\ p.pc = "add"
              /\ p.token = plgThreads[t].token /\ p.goal = plgThreads[t].goal
              /\ p.dead = plgThreads[t].dead
    BY <1>3, PlgStepIs DEF PlgPcs
  <2>2. PlgThreadOK(t)'
    BY <1>1, <2>1, PlgTypes DEF PlgThreadOK, PlgCallPcs
  <2>3. p \in PlgThread'
    BY <1>1 DEF PlgThread
  <2>4. /\ plgActivating' \in PlgThreads \cup {PlgNone}
        /\ \A s \in PlgThreads \ {t} : plgActivating' = s <=> plgActivating = s
    BY <1>1, <1>3, PlgTypes
  <2> QED
    BY <1>1, <1>3, <2>1, <2>2, <2>3, <2>4, PlgTypes, PlgThreadStep
<1> QED
  BY <1>2, <1>3 DEF PlgActivate

LEMMA PlgAddOK ==
    ASSUME PlgIInv, NEW t \in PlgThreads, PlgAdd(t)
    PROVE  PlgIInv'
<1>1. /\ UNCHANGED <<plgDecision, plgLoaded, plgExposed, plgBound, plgLoading, plgAdmitted>>
      /\ plgThreads[t].pc = "add" /\ plgActivating' = PlgNone /\ plgActivating = t /\ plgBound
  BY PlgTypes DEF PlgAdd, PlgUpstream, PlgThreadOK
<1>2. /\ plgMade \subseteq plgMade' /\ plgMade' \subseteq PlgTokens
      /\ plgActive' \in plgMade' \cup {PlgNone}
      /\ plgActive' \notin plgMade \/ plgActive' = plgActive
  BY PlgTypes DEF PlgAdd
<1>3. PICK p \in PlgThread :
              /\ PlgGoes(t, p) /\ plgThreads'[t] = p /\ p.pc = "handles"
              /\ p.token = plgThreads[t].token /\ p.goal = plgThreads[t].goal
              /\ p.dead = plgThreads[t].dead
  BY PlgStepIs DEF PlgAdd, PlgPcs
<1>4. p \in PlgThread'
  BY <1>2 DEF PlgThread
<1>5. PlgThreadOK(t)'
  BY <1>1, <1>3, PlgTypes DEF PlgThreadOK, PlgCallPcs
<1> QED
  BY <1>1, <1>2, <1>3, <1>4, <1>5, PlgTypes, PlgThreadStep

LEMMA PlgHandlesOK ==
    ASSUME PlgIInv, NEW t \in PlgThreads, PlgHandles(t) \/ PlgCapture(t)
    PROVE  PlgIInv'
<1>1. /\ UNCHANGED <<PlgUpstream, plgActive, plgMade, PlgLocks, plgAdmitted>>
      /\ plgThreads[t].pc \in {"handles", "capture"}
  BY DEF PlgHandles, PlgCapture
<1>2. PICK pc \in {"capture", "validate", "ready"} :
          PlgGoes(t, [plgThreads[t] EXCEPT !.pc = pc, !.token = plgActive])
  BY DEF PlgHandles, PlgCapture
<1> DEFINE p == [plgThreads[t] EXCEPT !.pc = pc, !.token = plgActive]
<1>3. /\ p \in PlgThread /\ p.pc = pc /\ p.goal = plgThreads[t].goal
      /\ p.dead = plgThreads[t].dead /\ PlgGoes(t, p) /\ plgThreads'[t] = p
  BY <1>2, PlgTypes DEF PlgThread, PlgPcs, PlgGoes, PlgIInv, PlgTypeOK
<1> HIDE DEF p
<1>4. PlgThreadOK(t)'
  BY <1>1, <1>2, <1>3, PlgTypes DEF PlgThreadOK, PlgCallPcs
<1> QED
  BY <1>1, <1>2, <1>3, <1>4, PlgTypes, PlgLookOK

\* Where a look at an activation ends.
LEMMA PlgLookFailsOK ==
    ASSUME PlgIInv, NEW t \in PlgThreads, PlgLookFails(t),
           UNCHANGED <<PlgUpstream, plgMade, PlgLocks, plgAdmitted>>,
           plgActive' \in {plgActive, PlgNone},
           plgThreads[t].pc \in {"validate", "remove"}
    PROVE  PlgIInv'
<1>1. CASE PlgReply(t)
  BY <1>1, PlgReplyOK
<1>2. CASE plgThreads[t].goal = "snapshot" /\ PlgStep(t, "capture")
  <2>1. PICK p \in PlgThread :
              /\ PlgGoes(t, p) /\ plgThreads'[t] = p /\ p.pc = "capture"
              /\ p.token = plgThreads[t].token /\ p.goal = plgThreads[t].goal
              /\ p.dead = plgThreads[t].dead
    BY <1>2, PlgStepIs DEF PlgPcs
  <2>2. PlgThreadOK(t)'
    BY <1>2, <2>1, PlgTypes DEF PlgThreadOK, PlgCallPcs
  <2> QED
    BY <2>1, <2>2, PlgTypes, PlgLookOK
<1> QED
  BY <1>1, <1>2 DEF PlgLookFails

\* A look that goes on, and a call.
LEMMA PlgLooksOK ==
    ASSUME PlgIInv, NEW t \in PlgThreads,
           PlgValidate(t) \/ PlgLookUpstream(t) \/ PlgInvoke(t)
    PROVE  PlgIInv'
<1>1. UNCHANGED <<PlgUpstream, plgActive, plgMade, PlgLocks, plgAdmitted>>
  BY DEF PlgValidate, PlgLookUpstream, PlgInvoke
<1>2. ASSUME NEW pc \in PlgPcs, PlgStep(t, pc), pc \notin {"construct", "add"},
             plgThreads[t].pc \in {"validate", "upstream", "invoke"},
             pc \notin {"expose", "bind", "activate"},
             plgThreads[t].goal = "execute" => pc \in {"upstream", "remove", "invoke", "run"},
             pc \in {"invoke", "run"} => plgThreads[t].goal = "execute",
             plgThreads[t].pc = "validate" => plgActive = plgThreads[t].token,
             pc = "run" => PlgCurrent
      PROVE  PlgIInv'
  <2>1. PICK p \in PlgThread :
              /\ PlgGoes(t, p) /\ plgThreads'[t] = p /\ p.pc = pc
              /\ p.token = plgThreads[t].token /\ p.goal = plgThreads[t].goal
              /\ p.dead = plgThreads[t].dead
    BY <1>2, PlgStepIs
  <2>2. plgThreads[t].goal \in {"snapshot", "execute"}
    BY PlgTypes DEF PlgThread
  <2>3. PlgThreadOK(t)'
    BY <1>1, <1>2, <2>1, <2>2, PlgTypes DEF PlgThreadOK, PlgCallPcs, PlgCurrent, PlgUpstream
  <2> QED
    BY <1>1, <1>2, <2>1, <2>3, PlgTypes, PlgLookOK
<1>3. plgThreads[t].goal \in {"snapshot", "execute"}
  BY PlgTypes DEF PlgThread
<1>4. CASE PlgValidate(t)
  <2>1. CASE plgActive = plgThreads[t].token
    BY <1>2, <1>3, <1>4, <2>1 DEF PlgValidate, PlgPcs
  <2>2. CASE plgActive # plgThreads[t].token
    BY <1>1, <1>4, <2>2, PlgLookFailsOK DEF PlgValidate
  <2> QED
    BY <2>1, <2>2
<1>5. CASE PlgLookUpstream(t)
  <2>1. PICK pc \in {"remove", "capture", "invoke"} :
            /\ PlgStep(t, pc)
            /\ pc = "capture" => plgThreads[t].goal = "snapshot"
            /\ pc = "invoke" => plgThreads[t].goal # "snapshot"
    BY <1>5 DEF PlgLookUpstream
  <2> QED
    BY <1>2, <1>3, <1>5, <2>1 DEF PlgLookUpstream, PlgPcs
<1>6. CASE PlgInvoke(t)
  <2>1. plgThreads[t].pc = "invoke" /\ plgThreads[t].goal = "execute"
    BY <1>6, PlgTypes DEF PlgInvoke, PlgThreadOK
  <2>2. CASE PlgCurrent
    BY <1>2, <1>6, <2>1, <2>2 DEF PlgInvoke, PlgPcs
  <2>3. CASE ~PlgCurrent
    BY <1>1, <1>6, <2>1, <2>3, PlgReplyOK DEF PlgInvoke
  <2> QED
    BY <2>2, <2>3
<1> QED
  BY <1>4, <1>5, <1>6

LEMMA PlgRemoveOK ==
    ASSUME PlgIInv, NEW t \in PlgThreads, PlgRemove(t)
    PROVE  PlgIInv'
BY PlgLookFailsOK DEF PlgRemove

LEMMA PlgExecuteOK ==
    ASSUME PlgIInv, NEW t \in PlgThreads, PlgExecute(t)
    PROVE  PlgIInv'
<1>1. /\ UNCHANGED <<PlgUpstream, plgActive, plgMade, PlgLocks>>
      /\ plgThreads[t].pc = "ready" /\ plgThreads[t].token # PlgNone
      /\ plgAdmitted' = IF plgDecision = "admitted" THEN plgAdmitted \cup {t}
                        ELSE plgAdmitted \ {t}
  BY DEF PlgExecute
<1> DEFINE p == [plgThreads[t] EXCEPT !.pc = "validate", !.goal = "execute",
                      !.dead = plgActive # plgThreads[t].token]
<1>2. /\ p \in PlgThread /\ p.pc = "validate" /\ p.goal = "execute"
      /\ p.dead = (plgActive # plgThreads[t].token) /\ p.token = plgThreads[t].token
  BY PlgTypes DEF PlgThread, PlgPcs
<1>3. PlgGoes(t, p) /\ plgThreads'[t] = p
  BY DEF PlgExecute, PlgGoes, PlgIInv, PlgTypeOK
<1> HIDE DEF p
<1>4. /\ plgAdmitted' \subseteq PlgThreads /\ plgDecision' = plgDecision
      /\ plgDecision = "admitted" => t \in plgAdmitted'
      /\ \A s \in PlgThreads \ {t} : s \in plgAdmitted => s \in plgAdmitted'
  BY <1>1, PlgTypes DEF PlgUpstream
<1>5. PlgThreadOK(t)'
  BY <1>1, <1>2, <1>3, <1>4 DEF PlgThreadOK, PlgCallPcs
<1> QED
  BY <1>1, <1>2, <1>3, <1>4, <1>5, PlgTypes, PlgLookOK

\* A step of no thread.
LEMMA PlgElseOK ==
    ASSUME PlgIInv, PlgReject \/ PlgRevoke \/ PlgDeactivate \/ UNCHANGED plgVars
    PROVE  PlgIInv'
<1>1. /\ UNCHANGED <<plgLoaded, plgExposed, plgBound, plgMade, plgLoading, plgActivating,
                     plgThreads, plgAdmitted>>
      /\ plgActive' \in {plgActive, PlgNone}
      /\ plgDecision' \in {plgDecision, "rejected", "revoked"}
  BY DEF PlgReject, PlgRevoke, PlgDeactivate, PlgLocks, PlgUpstream, plgVars
<1>2. PlgTypeOK'
  BY <1>1 DEF PlgIInv, PlgTypeOK
<1>3. ASSUME NEW t \in PlgThreads PROVE PlgThreadOK(t)'
  <2>1. PlgThreadOK(t)
    BY PlgTypes
  <2> QED
    BY <1>1, <2>1 DEF PlgThreadOK
<1> QED
  BY <1>2, <1>3 DEF PlgIInv

LEMMA PlgInitOK == PlgInit => PlgIInv
<1> SUFFICES ASSUME PlgInit PROVE PlgIInv
  OBVIOUS
<1>1. PlgTypeOK
  BY PlgAssumption, PlgIdleIs DEF PlgInit, PlgTypeOK, PlgThread
<1>2. \A t \in PlgThreads : PlgThreadOK(t)
  BY PlgIdleIs DEF PlgInit, PlgThreadOK
<1> QED
  BY <1>1, <1>2 DEF PlgIInv

LEMMA PlgNextOK == PlgIInv /\ [PlgNext]_plgVars => PlgIInv'
<1> SUFFICES ASSUME PlgIInv, [PlgNext]_plgVars PROVE PlgIInv'
  OBVIOUS
<1>1. ASSUME NEW t \in PlgThreads, PlgDone(t) \/ PlgRun(t) PROVE PlgIInv'
  BY <1>1, PlgReplyOK DEF PlgDone, PlgRun
<1> QED
  BY <1>1, PlgAdmitOK, PlgLoadOK, PlgConstructOK, PlgExposeOK, PlgBindOK, PlgActivateOK,
     PlgAddOK, PlgHandlesOK, PlgLooksOK, PlgRemoveOK, PlgExecuteOK, PlgElseOK DEF PlgNext

LEMMA PlgInvariant == PlgSpec => []PlgIInv
BY PlgInitOK, PlgNextOK, PTL DEF PlgSpec

\* plgVars have their types; no stage is there without the one before it, and
\* each of the two locks is held by the thread that is in its section.
THEOREM PlgTypeCorrect == PlgSpec => []PlgTypeOK
<1>1. PlgIInv => PlgTypeOK
  BY DEF PlgIInv
<1> QED
  BY <1>1, PlgInvariant, PTL

\* A captured wrapper is no authority: one whose activation was over when it
\* was called does not reach the plugin, and none does unless the subject was
\* admitted at some moment of the call (tokens are never made twice).
THEOREM PlgCurrentCalls == PlgSpec => []PlgCallsAreCurrent
<1>1. PlgIInv => PlgCallsAreCurrent
  BY DEF PlgIInv, PlgThreadOK, PlgCallsAreCurrent
<1> QED
  BY <1>1, PlgInvariant, PTL

\* A stale look never takes away an activation made after it.
THEOREM PlgRemoval == PlgSpec => PlgRemovesWhatItSaw
<1>1. PlgIInv /\ [PlgNext]_plgVars =>
        [plgActive # PlgNone /\ plgActive' = PlgNone
            => \/ plgThreads' = plgThreads
               \/ \E t \in PlgThreads :
                     plgThreads[t].token = plgActive /\ plgThreads'[t] # plgThreads[t]]_plgVars
  <2> SUFFICES ASSUME PlgIInv, [PlgNext]_plgVars, plgActive # PlgNone, plgActive' = PlgNone,
                      plgThreads' # plgThreads
               PROVE  \E t \in PlgThreads :
                         plgThreads[t].token = plgActive /\ plgThreads'[t] # plgThreads[t]
    OBVIOUS
  <2>1. PICK t \in PlgThreads : PlgRemove(t)
    BY DEF PlgNext, plgVars, PlgReject, PlgRevoke, PlgDeactivate, PlgAdmit, PlgLoad,
       PlgConstruct, PlgExpose, PlgBind, PlgActivate, PlgAdd, PlgHandles, PlgValidate,
       PlgLookUpstream, PlgCapture, PlgDone, PlgExecute, PlgInvoke, PlgRun
  <2>2. plgThreads[t].token = plgActive /\ plgThreads[t].pc = "remove"
    BY <2>1 DEF PlgRemove
  <2>3. plgThreads'[t].pc # "remove"
    <3>1. CASE PlgReply(t)
      BY <3>1, PlgReplyIs, PlgIdleIs
    <3>2. CASE PlgStep(t, "capture")
      <4>1. PICK p \in PlgThread : plgThreads'[t] = p /\ p.pc = "capture"
        BY <3>2, PlgStepIs DEF PlgPcs
      <4> QED
        BY <4>1
    <3> QED
      BY <2>1, <3>1, <3>2 DEF PlgRemove, PlgLookFails
  <2> QED
    BY <2>2, <2>3
<1> QED
  BY <1>1, PlgInvariant, PTL DEF PlgSpec, PlgRemovesWhatItSaw

=============================================================================

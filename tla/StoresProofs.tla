-------------------------- MODULE StoresProofs --------------------------
(***************************************************************************)
(* The memories, the knowledge scan, the first use of the process-wide     *)
(* services, and the run of all the stores.                                *)
(***************************************************************************)
EXTENDS MCStores, ProjectUpdatesProofs, ExecutionProofs

-----------------------------------------------------------------------------
(***************************************************************************)
(* Proofs about Memories, for any number of request threads, memories and  *)
(* versions.                                                               *)
(*                                                                         *)
(* That a history has no gap is not inductive: a thread inserts a version  *)
(* whose number it computed from a row it read long ago.  MemThreadsOK says *)
(* what still holds of that row: a memory that is still there has not gone *)
(* back behind it.  If the number is free, the row is therefore the one    *)
(* that was read.  Nothing of the kind is needed for the decisions: the    *)
(* trigger looks at the version itself.                                    *)
(***************************************************************************)

\* What a thread carries from its read to its transaction.
MemThreadOK(q) ==
    q.pc # "idle" =>
        /\ q.memory \in MemIds
        /\ q.loaded \in MemRows
        /\ memRows[q.memory] # MemUnused
        /\ MemExists(q.memory) => q.loaded.current <= memRows[q.memory].current
        /\ q.pc \in {"propose", "archive"} => q.loaded.current < MemMaxVersion
        /\ q.pc \in {"judge", "confirm", "reject"} => q.loaded.pending # 0

MemThreadsOK == \A t \in MemThreads : MemThreadOK(memThreads[t])

MemIInv == MemTypeOK /\ MemHistoryIsComplete /\ MemThreadsOK

\* The set MemTypeOK draws the threads from.
MemThread ==
    [pc : {"idle", "propose", "archive", "judge", "confirm", "reject"},
     memory : MemIds \cup {MemNone}, loaded : MemRows \cup {MemUnused}]

LEMMA MemRowKinds ==
    /\ MemUnused \notin MemRows
    /\ MemDeleted \notin MemRows
    /\ MemUnused # MemDeleted
    /\ MemIdle \in MemThread
    /\ MemIdle.pc = "idle"
BY DEF MemUnused, MemDeleted, MemRows, MemStates, MemIdle, MemThread

-----------------------------------------------------------------------------
(* The steps that change no row.                                           *)

LEMMA MemOnlyThreads ==
    ASSUME MemIInv, NEW t \in MemThreads, NEW q \in MemThread,
           MemThreadOK(q), MemGoes(t, q), UNCHANGED <<memRows, memVersions>>
    PROVE  MemIInv'
<1>1. MemTypeOK'
  BY DEF MemIInv, MemTypeOK, MemGoes, MemThread
<1>2. MemHistoryIsComplete'
  BY DEF MemIInv, MemHistoryIsComplete, MemExists, MemPointersHold
<1>3. MemThreadsOK'
  <2> SUFFICES ASSUME NEW u \in MemThreads PROVE MemThreadOK(memThreads[u])'
    BY DEF MemThreadsOK
  <2>1. memThreads'[u] = IF u = t THEN q ELSE memThreads[u]
    BY DEF MemGoes, MemIInv, MemTypeOK
  <2>2. MemThreadOK(memThreads[u])
    BY DEF MemIInv, MemThreadsOK
  <2> QED
    BY <2>1, <2>2 DEF MemThreadOK, MemExists
<1> QED
  BY <1>1, <1>2, <1>3 DEF MemIInv

LEMMA MemLoadIsOK ==
    ASSUME MemIInv, NEW t \in MemThreads, NEW m \in MemIds, MemExists(m),
           NEW pc \in {"propose", "archive", "judge"}, MemLoads(t, m, pc),
           pc = "judge" => memRows[m].pending # 0,
           pc # "judge" => memRows[m].current < MemMaxVersion,
           UNCHANGED <<memRows, memVersions>>
    PROVE  MemIInv'
<1> DEFINE q == [pc |-> pc, memory |-> m, loaded |-> memRows[m]]
<1>1. q \in MemThread
  BY DEF MemThread, MemExists
<1>2. memRows[m].current \in MemNumbers
  BY DEF MemExists, MemRows
<1>3. MemThreadOK(q)
  BY <1>2, MemRowKinds, MemAssumption DEF MemThreadOK, MemExists, MemNumbers
<1>4. MemGoes(t, q)
  BY DEF MemLoads
<1> QED
  BY <1>1, <1>3, <1>4, MemOnlyThreads

\* A request that changes nothing.
LEMMA MemQuits ==
    ASSUME MemIInv, NEW t \in MemThreads, MemReply(t), UNCHANGED <<memRows, memVersions>>
    PROVE  MemIInv'
BY MemRowKinds, MemOnlyThreads DEF MemReply, MemThreadOK

-----------------------------------------------------------------------------
(* The transactions: one memory's row and versions, and the end of a       *)
(* request.                                                                *)

\* A memory that is there was there, and is not behind what it was; or it is
\* new, and no thread has heard of it.
LEMMA MemTransaction ==
    ASSUME MemIInv, NEW m \in MemIds, NEW r \in MemRows \cup {MemDeleted},
           NEW v \in [MemNumbers -> MemStates \cup {"none"}],
           memRows' = [memRows EXCEPT ![m] = r],
           memVersions' = [memVersions EXCEPT ![m] = v],
           UNCHANGED memThreads \/ \E t \in MemThreads : MemReply(t),
           r \in MemRows =>
              \/ memRows[m] = MemUnused
              \/ MemExists(m) /\ memRows[m].current <= r.current,
           \A n \in MemNumbers : v[n] # "none" <=> r \in MemRows /\ n <= r.current,
           r \in MemRows =>
              /\ r.active = 0 \/ v[r.active] = "CONFIRMED"
              /\ r.pending = 0 \/ v[r.pending] = "PENDING"
    PROVE  MemIInv'
<1>1. MemTypeOK'
  BY MemRowKinds DEF MemIInv, MemTypeOK, MemReply, MemGoes, MemThread
<1>2. MemHistoryIsComplete'
  <2> SUFFICES ASSUME NEW k \in MemIds
               PROVE  /\ \A n \in MemNumbers :
                            memVersions'[k][n] # "none" <=>
                               memRows'[k] \in MemRows /\ n <= memRows'[k].current
                      /\ memRows'[k] \in MemRows =>
                            /\ memRows'[k].active = 0
                               \/ memVersions'[k][memRows'[k].active] = "CONFIRMED"
                            /\ memRows'[k].pending = 0
                               \/ memVersions'[k][memRows'[k].pending] = "PENDING"
    BY DEF MemHistoryIsComplete, MemExists, MemPointersHold
  <2>1. CASE k = m
    <3>1. memRows'[k] = r /\ memVersions'[k] = v
      BY <2>1 DEF MemIInv, MemTypeOK
    <3> QED
      BY <3>1
  <2>2. CASE k # m
    <3>1. memRows'[k] = memRows[k] /\ memVersions'[k] = memVersions[k]
      BY <2>2 DEF MemIInv, MemTypeOK
    <3> QED
      BY <3>1 DEF MemIInv, MemHistoryIsComplete, MemExists, MemPointersHold
  <2> QED
    BY <2>1, <2>2
<1>3. MemThreadsOK'
  <2> SUFFICES ASSUME NEW u \in MemThreads PROVE MemThreadOK(memThreads[u])'
    BY DEF MemThreadsOK
  <2>1. memThreads'[u] \in {memThreads[u], MemIdle}
    BY DEF MemReply, MemGoes, MemIInv, MemTypeOK
  <2>2. CASE memThreads'[u].pc = "idle"
    BY <2>2 DEF MemThreadOK
  <2>3. CASE memThreads'[u].pc # "idle"
    <3>1. memThreads'[u] = memThreads[u]
      BY <2>1, <2>3, MemRowKinds
    <3> DEFINE q == memThreads[u]
    <3>2. MemThreadOK(q) /\ q.pc # "idle"
      BY <2>3, <3>1 DEF MemIInv, MemThreadsOK
    <3>3. /\ q.memory \in MemIds /\ q.loaded \in MemRows
          /\ memRows[q.memory] # MemUnused
          /\ memRows[q.memory] \in MemRows => q.loaded.current <= memRows[q.memory].current
      BY <3>2 DEF MemThreadOK, MemExists
    <3>4. /\ memRows'[q.memory] # MemUnused
          /\ memRows'[q.memory] \in MemRows => q.loaded.current <= memRows'[q.memory].current
      <4>1. CASE q.memory = m
        <5>1. memRows'[q.memory] = r
          BY <4>1 DEF MemIInv, MemTypeOK
        <5>2. r # MemUnused
          BY MemRowKinds
        <5>3. ASSUME r \in MemRows PROVE q.loaded.current <= r.current
          <6>1. MemExists(m) /\ memRows[m].current <= r.current
            BY <3>3, <4>1, <5>3
          <6>2. q.loaded.current <= memRows[m].current
            BY <3>3, <4>1, <6>1 DEF MemExists
          <6>3. /\ q.loaded.current \in Nat /\ memRows[m].current \in Nat
                /\ r.current \in Nat
            BY <3>3, <5>3, <6>1 DEF MemExists, MemRows, MemNumbers
          <6> QED
            BY <6>1, <6>2, <6>3
        <5> QED
          BY <5>1, <5>2, <5>3
      <4>2. CASE q.memory # m
        BY <4>2, <3>3 DEF MemIInv, MemTypeOK
      <4> QED
        BY <4>1, <4>2
    <3> QED
      BY <3>1, <3>2, <3>4 DEF MemThreadOK, MemExists
  <2> QED
    BY <2>2, <2>3
<1> QED
  BY <1>1, <1>2, <1>3 DEF MemIInv

-----------------------------------------------------------------------------
(* What a transaction finds.                                               *)

\* The row and the versions of a memory that is there.
LEMMA MemRowFacts ==
    ASSUME MemIInv, NEW m \in MemIds, MemExists(m)
    PROVE  /\ memRows[m] \in MemRows
           /\ memRows[m].current \in MemNumbers
           /\ memRows[m].active \in 0..MemMaxVersion
           /\ memRows[m].pending \in 0..MemMaxVersion
           /\ memVersions[m] \in [MemNumbers -> MemStates \cup {"none"}]
           /\ \A n \in MemNumbers : memVersions[m][n] # "none" <=> n <= memRows[m].current
           /\ memRows[m].active = 0 \/ memVersions[m][memRows[m].active] = "CONFIRMED"
           /\ memRows[m].pending = 0 \/ memVersions[m][memRows[m].pending] = "PENDING"
BY DEF MemIInv, MemTypeOK, MemHistoryIsComplete, MemExists, MemPointersHold, MemRows

\* A free number is the one after the row's, whatever happened since the read.
LEMMA MemFreeIsNext ==
    ASSUME MemIInv, NEW t \in MemThreads, MemCanInsert(t),
           memThreads[t].pc \in {"propose", "archive"}
    PROVE  LET q == memThreads[t] IN
           /\ q.memory \in MemIds
           /\ MemExists(q.memory)
           /\ q.loaded \in MemRows
           /\ q.loaded.current = memRows[q.memory].current
           /\ q.loaded.current + 1 \in MemNumbers
           /\ memVersions[q.memory][q.loaded.current + 1] = "none"
<1> DEFINE q == memThreads[t]
           m == q.memory
<1>1. /\ m \in MemIds /\ q.loaded \in MemRows /\ MemExists(m)
      /\ q.loaded.current <= memRows[m].current
      /\ q.loaded.current < MemMaxVersion
      /\ memVersions[m][q.loaded.current + 1] = "none"
  BY DEF MemIInv, MemThreadsOK, MemThreadOK, MemCanInsert
<1>2. q.loaded.current \in MemNumbers
  BY <1>1 DEF MemRows
<1>3. q.loaded.current + 1 \in MemNumbers
  BY <1>1, <1>2, MemAssumption DEF MemNumbers
<1>4. memRows[m].current \in MemNumbers /\ ~(q.loaded.current + 1 <= memRows[m].current)
  BY <1>1, <1>3, MemRowFacts
<1>5. q.loaded.current = memRows[m].current
  BY <1>1, <1>2, <1>4, MemAssumption DEF MemNumbers
<1> QED
  BY <1>1, <1>3, <1>5

-----------------------------------------------------------------------------
(* The steps.                                                              *)

LEMMA MemInitHolds == MemInit => MemIInv
<1> SUFFICES ASSUME MemInit PROVE MemIInv
  OBVIOUS
<1>1. MemTypeOK
  BY MemRowKinds DEF MemInit, MemTypeOK, MemThread
<1>2. MemHistoryIsComplete
  BY MemRowKinds DEF MemInit, MemHistoryIsComplete, MemExists
<1>3. MemThreadsOK
  BY MemRowKinds DEF MemInit, MemThreadsOK, MemThreadOK
<1> QED
  BY <1>1, <1>2, <1>3 DEF MemIInv

LEMMA MemCreateHolds ==
    ASSUME MemIInv, NEW m \in MemIds, MemCreate(m)
    PROVE  MemIInv'
<1> DEFINE r == [state |-> "PENDING", current |-> 1, active |-> 0, pending |-> 1]
           v == [memVersions[m] EXCEPT ![1] = "PENDING"]
<1>1. 1 \in MemNumbers /\ 0 \in 0..MemMaxVersion /\ 1 \in 0..MemMaxVersion
  BY MemAssumption DEF MemNumbers
<1>2. r \in MemRows
  BY <1>1 DEF MemRows, MemStates
<1>3. memVersions[m] \in [MemNumbers -> MemStates \cup {"none"}]
  BY DEF MemIInv, MemTypeOK
<1>4. \A n \in MemNumbers : memVersions[m][n] = "none"
  BY MemRowKinds DEF MemIInv, MemHistoryIsComplete, MemExists, MemCreate
<1>5. v \in [MemNumbers -> MemStates \cup {"none"}]
  BY <1>1, <1>3 DEF MemStates
<1>6. \A n \in MemNumbers : v[n] # "none" <=> r \in MemRows /\ n <= r.current
  BY <1>1, <1>2, <1>3, <1>4, MemAssumption DEF MemNumbers
<1>7. r \in MemRows =>
         /\ r.active = 0 \/ v[r.active] = "CONFIRMED"
         /\ r.pending = 0 \/ v[r.pending] = "PENDING"
  BY <1>1, <1>3
<1>8. /\ memRows' = [memRows EXCEPT ![m] = r]
      /\ memVersions' = [memVersions EXCEPT ![m] = v]
      /\ UNCHANGED memThreads
      /\ memRows[m] = MemUnused
  BY DEF MemCreate
<1> HIDE DEF v, r
<1> QED
  BY <1>2, <1>5, <1>6, <1>7, <1>8, MemTransaction

LEMMA MemDeleteHolds ==
    ASSUME MemIInv, NEW m \in MemIds, MemDelete(m)
    PROVE  MemIInv'
<1> DEFINE v == [n \in MemNumbers |-> "none"]
<1>1. v \in [MemNumbers -> MemStates \cup {"none"}]
  OBVIOUS
<1>2. /\ memRows' = [memRows EXCEPT ![m] = MemDeleted]
      /\ memVersions' = [memVersions EXCEPT ![m] = v]
      /\ UNCHANGED memThreads
  BY DEF MemDelete
<1>3. \A n \in MemNumbers : v[n] = "none"
  OBVIOUS
<1> HIDE DEF v
<1> QED
  BY <1>1, <1>2, <1>3, MemRowKinds, MemTransaction

\* A version with the next number, and a row that says so.
LEMMA MemInsertHolds ==
    ASSUME MemIInv, NEW t \in MemThreads, MemCanInsert(t),
           memThreads[t].pc \in {"propose", "archive"}, MemReply(t),
           NEW m, m = memThreads[t].memory, NEW n, n = memThreads[t].loaded.current + 1,
           NEW state \in MemStates, NEW r \in MemRows,
           memVersions' = [memVersions EXCEPT ![m][n] = state],
           memRows' = [memRows EXCEPT ![m] = r],
           r.current = n, r.active = memRows[m].active,
           r.pending = memRows[m].pending \/ (r.pending = n /\ state = "PENDING")
    PROVE  MemIInv'
<1> DEFINE v == [memVersions[m] EXCEPT ![n] = state]
<1>1. /\ m \in MemIds /\ MemExists(m) /\ n \in MemNumbers
      /\ n = memRows[m].current + 1 /\ memVersions[m][n] = "none"
  BY MemFreeIsNext
<1>2. /\ memRows[m].current \in MemNumbers
      /\ memVersions[m] \in [MemNumbers -> MemStates \cup {"none"}]
      /\ \A k \in MemNumbers : memVersions[m][k] # "none" <=> k <= memRows[m].current
      /\ memRows[m].active = 0 \/ memVersions[m][memRows[m].active] = "CONFIRMED"
      /\ memRows[m].pending = 0 \/ memVersions[m][memRows[m].pending] = "PENDING"
      /\ memRows[m].active \in 0..MemMaxVersion /\ memRows[m].pending \in 0..MemMaxVersion
  BY <1>1, MemRowFacts
<1>3. /\ v \in [MemNumbers -> MemStates \cup {"none"}]
      /\ \A k \in MemNumbers : v[k] = IF k = n THEN state ELSE memVersions[m][k]
  BY <1>1, <1>2
<1>4. \A k \in MemNumbers : v[k] # "none" <=> r \in MemRows /\ k <= r.current
  <2> SUFFICES ASSUME NEW k \in MemNumbers PROVE v[k] # "none" <=> k <= n
    OBVIOUS
  <2>1. state # "none"
    BY DEF MemStates
  <2>2. k <= n <=> k = n \/ k <= memRows[m].current
    BY <1>1, <1>2, MemAssumption DEF MemNumbers
  <2> QED
    BY <1>2, <1>3, <2>1, <2>2
<1>5. r.active = 0 \/ v[r.active] = "CONFIRMED"
  <2>1. memRows[m].active # 0 => memRows[m].active \in MemNumbers
    BY <1>2, MemAssumption DEF MemNumbers
  <2> QED
    BY <1>1, <1>2, <1>3, <2>1
<1>6. r.pending = 0 \/ v[r.pending] = "PENDING"
  <2>1. memRows[m].pending # 0 => memRows[m].pending \in MemNumbers
    BY <1>2, MemAssumption DEF MemNumbers
  <2> QED
    BY <1>1, <1>2, <1>3, <2>1
<1>7. MemExists(m) /\ memRows[m].current <= r.current
  BY <1>1, <1>2, MemAssumption DEF MemNumbers
<1>8. memVersions' = [memVersions EXCEPT ![m] = v]
  OBVIOUS
<1>9. v \in [MemNumbers -> MemStates \cup {"none"}]
  BY <1>3
<1> HIDE DEF v
<1> QED
  BY <1>1, <1>4, <1>5, <1>6, <1>7, <1>8, <1>9, MemTransaction

LEMMA MemProposeHolds ==
    ASSUME MemIInv, NEW t \in MemThreads, MemPropose(t)
    PROVE  MemIInv'
<1> DEFINE q == memThreads[t]
           m == q.memory
           n == q.loaded.current + 1
           r == [memRows[m] EXCEPT !.current = n, !.pending = n]
<1>1. CASE ~MemCanInsert(t)
  BY <1>1, MemQuits DEF MemPropose
<1>2. CASE MemCanInsert(t)
  <2>1. /\ m \in MemIds /\ MemExists(m) /\ n \in MemNumbers /\ q.pc = "propose"
        /\ memRows[m] \in MemRows
    BY <1>2, MemFreeIsNext DEF MemPropose, MemExists
  <2>2. r \in MemRows /\ r.current = n /\ r.pending = n /\ r.active = memRows[m].active
    <3>1. n \in 0..MemMaxVersion
      BY <2>1, MemAssumption DEF MemNumbers
    <3> HIDE DEF m, n
    <3> QED
      BY <2>1, <3>1 DEF MemRows
  <2>3. /\ memVersions' = [memVersions EXCEPT ![m][n] = "PENDING"]
        /\ memRows' = [memRows EXCEPT ![m] = r]
        /\ MemReply(t)
    BY <1>2 DEF MemPropose
  <2>4. "PENDING" \in MemStates
    BY DEF MemStates
  <2> HIDE DEF r
  <2> QED
    BY <1>2, <2>1, <2>2, <2>3, <2>4, MemInsertHolds
<1> QED
  BY <1>1, <1>2

LEMMA MemArchiveHolds ==
    ASSUME MemIInv, NEW t \in MemThreads, MemArchive(t)
    PROVE  MemIInv'
<1> DEFINE q == memThreads[t]
           m == q.memory
           n == q.loaded.current + 1
           s == IF q.loaded.state = "ARCHIVED" THEN memRows[m].state ELSE "ARCHIVED"
           r == [memRows[m] EXCEPT !.current = n, !.state = s]
<1>1. CASE ~MemCanInsert(t)
  BY <1>1, MemQuits DEF MemArchive
<1>2. CASE MemCanInsert(t)
  <2>1. /\ m \in MemIds /\ MemExists(m) /\ n \in MemNumbers /\ q.pc = "archive"
        /\ memRows[m] \in MemRows
    BY <1>2, MemFreeIsNext DEF MemArchive, MemExists
  <2>2. s \in MemStates /\ "ARCHIVED" \in MemStates
    BY <2>1 DEF MemRows, MemStates
  <2>3. /\ r \in MemRows /\ r.current = n /\ r.active = memRows[m].active
        /\ r.pending = memRows[m].pending
    BY <2>1, <2>2 DEF MemRows
  <2>4. /\ memVersions' = [memVersions EXCEPT ![m][n] = "ARCHIVED"]
        /\ memRows' = [memRows EXCEPT ![m] = r]
        /\ MemReply(t)
    BY <1>2 DEF MemArchive
  <2>5. r.pending = memRows[m].pending \/ (r.pending = n /\ "ARCHIVED" = "PENDING")
    BY <2>3
  <2>6. q.pc \in {"propose", "archive"} /\ "ARCHIVED" \in MemStates
    BY <2>1, <2>2
  <2> HIDE DEF r, s
  <2> QED
    BY <1>2, <2>3, <2>4, <2>5, <2>6, MemInsertHolds
<1> QED
  BY <1>1, <1>2

LEMMA MemDecideHolds ==
    ASSUME MemIInv, NEW t \in MemThreads,
           \/ MemDecide(t, "confirm", "CONFIRMED")
           \/ MemDecide(t, "reject", "REJECTED")
    PROVE  MemIInv'
<1>0. PICK c \in {<<"confirm", "CONFIRMED">>, <<"reject", "REJECTED">>} :
             MemDecide(t, c[1], c[2])
  OBVIOUS
<1> DEFINE pc == c[1]
           state == c[2]
<1>1. /\ MemDecide(t, pc, state)
      /\ \/ pc = "confirm" /\ state = "CONFIRMED"
         \/ pc = "reject" /\ state = "REJECTED"
  BY <1>0
<1> HIDE DEF pc, state
<1> DEFINE q == memThreads[t]
           m == q.memory
           n == q.loaded.pending
           says == IF pc = "confirm" \/ q.loaded.active = 0 THEN state ELSE q.loaded.state
           s == IF says = q.loaded.state THEN memRows[m].state ELSE says
           a == IF pc = "confirm" THEN n ELSE memRows[m].active
           r == [memRows[m] EXCEPT !.pending = 0, !.active = a, !.state = s]
           v == [memVersions[m] EXCEPT ![n] = state]
<1>2. CASE ~MemMayDecide(t)
  BY <1>2, <1>1, MemQuits DEF MemDecide
<1>3. CASE MemMayDecide(t)
  <2>1. /\ q.pc = pc /\ MemReply(t)
        /\ memVersions' = [memVersions EXCEPT ![m][n] = state]
        /\ memRows' = [memRows EXCEPT ![m] = r]
    BY <1>3, <1>1 DEF MemDecide
  <2>2. m \in MemIds /\ q.loaded \in MemRows /\ n # 0
    BY <1>1, <2>1 DEF MemIInv, MemThreadsOK, MemThreadOK
  <2>3. n \in MemNumbers /\ n \in 0..MemMaxVersion
    BY <2>2, MemAssumption DEF MemRows, MemNumbers
  <2>4. memVersions[m][n] = "PENDING"
    BY <1>3 DEF MemMayDecide
  <2>5. MemExists(m)
    BY <2>2, <2>3, <2>4 DEF MemIInv, MemHistoryIsComplete
  <2>6. /\ memRows[m] \in MemRows
        /\ memVersions[m] \in [MemNumbers -> MemStates \cup {"none"}]
        /\ memRows[m].active \in 0..MemMaxVersion
        /\ \A k \in MemNumbers : memVersions[m][k] # "none" <=> k <= memRows[m].current
        /\ memRows[m].active = 0 \/ memVersions[m][memRows[m].active] = "CONFIRMED"
    BY <2>2, <2>5, MemRowFacts
  <2>7. state \in MemStates /\ s \in MemStates /\ a \in 0..MemMaxVersion /\ 0 \in 0..MemMaxVersion
    BY <1>1, <2>2, <2>3, <2>6, MemAssumption DEF MemRows, MemStates
  <2>8. /\ r \in MemRows /\ r.current = memRows[m].current
        /\ r.pending = 0 /\ r.active = a
    <3> HIDE DEF a, s, m, n
    <3> QED
      BY <2>6, <2>7 DEF MemRows
  <2>9. /\ v \in [MemNumbers -> MemStates \cup {"none"}]
        /\ \A k \in MemNumbers : v[k] = IF k = n THEN state ELSE memVersions[m][k]
    BY <2>3, <2>6, <2>7
  <2>10. \A k \in MemNumbers : v[k] # "none" <=> r \in MemRows /\ k <= r.current
    BY <1>1, <2>3, <2>4, <2>6, <2>8, <2>9 DEF MemStates
  <2>11. r.active = 0 \/ v[r.active] = "CONFIRMED"
    <3>1. memRows[m].active # 0 => memRows[m].active \in MemNumbers
      BY <2>6, MemAssumption DEF MemNumbers
    <3> QED
      BY <1>1, <2>3, <2>4, <2>6, <2>8, <2>9, <3>1
  <2>12. memRows[m].current <= r.current
    BY <2>6, <2>8, MemAssumption DEF MemRows, MemNumbers
  <2>13. memVersions' = [memVersions EXCEPT ![m] = v]
    BY <2>1
  <2>14. v \in [MemNumbers -> MemStates \cup {"none"}]
    BY <2>9
  <2> HIDE DEF v, r
  <2> QED
    BY <2>1, <2>2, <2>5, <2>8, <2>10, <2>11, <2>12, <2>13, <2>14, MemTransaction
<1> QED
  BY <1>2, <1>3

LEMMA MemStepHolds ==
    ASSUME MemIInv, NEW t \in MemThreads, MemStep(t)
    PROVE  MemIInv'
<1>1. ASSUME NEW m \in MemIds, MemUpdate(t, m) PROVE MemIInv'
  BY <1>1, MemLoadIsOK DEF MemUpdate
<1>2. ASSUME NEW m \in MemIds, MemDecideLoad(t, m) PROVE MemIInv'
  BY <1>2, MemLoadIsOK DEF MemDecideLoad
<1>3. ASSUME NEW m \in MemIds, MemArchiveLoad(t, m) PROVE MemIInv'
  BY <1>3, MemLoadIsOK DEF MemArchiveLoad
<1>4. ASSUME NEW pc \in {"confirm", "reject"}, MemJudge(t, pc) PROVE MemIInv'
  <2> DEFINE q == [memThreads[t] EXCEPT !.pc = pc]
  <2>1. CASE MemReply(t)
    BY <1>4, <2>1, MemQuits DEF MemJudge
  <2>2. CASE MemGoes(t, q)
    <3>1. memThreads[t] \in MemThread /\ memThreads[t].pc = "judge"
      BY <1>4 DEF MemIInv, MemTypeOK, MemThread, MemJudge
    <3>2. q \in MemThread
      BY <3>1 DEF MemThread
    <3>3. MemThreadOK(memThreads[t])
      BY DEF MemIInv, MemThreadsOK
    <3>4. /\ q.pc = pc /\ q.memory = memThreads[t].memory
          /\ q.loaded = memThreads[t].loaded
      BY <3>1 DEF MemThread
    <3>5. MemThreadOK(q)
      <4> HIDE DEF q
      <4> QED
        BY <3>1, <3>3, <3>4 DEF MemThreadOK
    <3>6. UNCHANGED <<memRows, memVersions>>
      BY <1>4 DEF MemJudge
    <3> HIDE DEF q
    <3> QED
      BY <2>2, <3>2, <3>5, <3>6, MemOnlyThreads
  <2> QED
    BY <1>4, <2>1, <2>2 DEF MemJudge
<1>5. CASE MemDatabaseFails(t)
  BY <1>5, MemQuits DEF MemDatabaseFails
<1> QED
  BY <1>1, <1>2, <1>3, <1>4, <1>5, MemProposeHolds, MemDecideHolds, MemArchiveHolds
  DEF MemStep

LEMMA MemNextHolds == MemIInv /\ [MemNext]_memVars => MemIInv'
<1> SUFFICES ASSUME MemIInv, [MemNext]_memVars PROVE MemIInv'
  OBVIOUS
<1>1. CASE UNCHANGED memVars
  BY <1>1 DEF memVars, MemIInv, MemTypeOK, MemHistoryIsComplete, MemExists,
              MemPointersHold, MemThreadsOK, MemThreadOK
<1>2. CASE MemNext
  BY <1>2, MemCreateHolds, MemDeleteHolds, MemStepHolds DEF MemNext
<1> QED
  BY <1>1, <1>2

LEMMA MemInvariant == MemSpec => []MemIInv
BY MemInitHolds, MemNextHolds, PTL DEF MemSpec

-----------------------------------------------------------------------------

\* Rows, versions and threads keep their types: services/memories.py and
\* repositories/memories.py.
THEOREM MemoryTypeCorrect == MemSpec => []MemTypeOK
<1>1. MemIInv => MemTypeOK
  BY DEF MemIInv
<1> QED
  BY <1>1, MemInvariant, PTL

\* Versions are numbered without a gap, pointers name what they should, and a
\* deleted memory leaves nothing, however many requests overlap.
THEOREM MemoryHistoryComplete == MemSpec => []MemHistoryIsComplete
<1>1. MemIInv => MemHistoryIsComplete
  BY DEF MemIInv
<1> QED
  BY <1>1, MemInvariant, PTL

-----------------------------------------------------------------------------
(* What a chat turn is told.                                               *)

\* The same active version, shown on no better grounds than before.
LEMMA MemNothingNewShows ==
    ASSUME MemIInv, NEW m \in MemIds,
           \/ memRows'[m] \notin MemRows
           \/ memRows'[m].state # "CONFIRMED"
           \/ /\ MemExists(m)
              /\ memRows'[m].state = memRows[m].state
              /\ memRows'[m].active = memRows[m].active
              /\ \/ memRows[m].active = 0
                 \/ memVersions'[m][memRows[m].active] = "CONFIRMED" =>
                       memVersions[m][memRows[m].active] = "CONFIRMED"
    PROVE  MemContext(m)' \in {0, MemContext(m)}
BY DEF MemContext, MemExists

LEMMA MemInsertShowsNothing ==
    ASSUME MemIInv, NEW t \in MemThreads, MemPropose(t) \/ MemArchive(t), NEW m \in MemIds
    PROVE  MemContext(m)' \in {0, MemContext(m)}
<1> DEFINE q == memThreads[t]
           k == q.memory
           n == q.loaded.current + 1
<1>1. CASE ~MemCanInsert(t) \/ k # m
  <2>1. memRows'[m] = memRows[m] /\ memVersions'[m] = memVersions[m]
    BY <1>1 DEF MemPropose, MemArchive, MemIInv, MemTypeOK
  <2> QED
    BY <2>1 DEF MemContext, MemExists
<1>2. CASE MemCanInsert(t) /\ k = m
  <2>1. q.pc \in {"propose", "archive"}
    BY DEF MemPropose, MemArchive
  <2>2. MemExists(m) /\ n \in MemNumbers /\ memVersions[m][n] = "none"
    BY <1>2, <2>1, MemFreeIsNext
  <2>3. /\ memRows[m] \in MemRows /\ memRows[m].active \in 0..MemMaxVersion
        /\ memVersions[m] \in [MemNumbers -> MemStates \cup {"none"}]
        /\ memRows[m].active = 0 \/ memVersions[m][memRows[m].active] = "CONFIRMED"
    BY <2>2, MemRowFacts
  <2>4. memRows \in [MemIds -> MemRows \cup {MemUnused, MemDeleted}]
    BY DEF MemIInv, MemTypeOK
  <2>5. /\ memRows'[m].active = memRows[m].active
        /\ memRows'[m].state \in {memRows[m].state, "ARCHIVED"}
    BY <1>2, <2>3, <2>4 DEF MemPropose, MemArchive, MemRows
  <2> QED
    BY <2>2, <2>3, <2>5, MemNothingNewShows
<1> QED
  BY <1>1, <1>2

LEMMA MemDecisionShows ==
    ASSUME MemIInv, NEW t \in MemThreads, NEW m \in MemIds,
           MemContext(m)' \notin {0, MemContext(m)},
           \/ MemDecide(t, "confirm", "CONFIRMED")
           \/ MemDecide(t, "reject", "REJECTED")
    PROVE  /\ memThreads[t].pc = "confirm"
           /\ memThreads'[t].pc = "idle"
           /\ memThreads[t].memory = m
           /\ memThreads[t].loaded.pending = MemContext(m)'
<1> DEFINE q == memThreads[t]
           n == q.loaded.pending
<1>1. MemMayDecide(t) /\ q.memory = m
  <2>1. CASE ~MemMayDecide(t) \/ q.memory # m
    <3>1. memRows'[m] = memRows[m] /\ memVersions'[m] = memVersions[m]
      BY <2>1 DEF MemDecide, MemIInv, MemTypeOK
    <3> QED
      BY <3>1 DEF MemContext, MemExists
  <2> QED
    BY <2>1
<1>2. memThreads'[t].pc = "idle"
  BY MemRowKinds DEF MemDecide, MemReply, MemGoes, MemIInv, MemTypeOK
<1>3. /\ memRows \in [MemIds -> MemRows \cup {MemUnused, MemDeleted}]
      /\ MemThreadOK(q)
  BY DEF MemIInv, MemTypeOK, MemThreadsOK
<1>4. CASE MemDecide(t, "reject", "REJECTED")
  <2>1. q.pc = "reject" /\ q.loaded \in MemRows /\ n # 0
    BY <1>3, <1>4 DEF MemThreadOK, MemDecide
  <2>2. n \in MemNumbers
    BY <2>1, MemAssumption DEF MemRows, MemNumbers
  <2>3. MemExists(m)
    BY <1>1, <2>2 DEF MemMayDecide, MemIInv, MemHistoryIsComplete
  <2>4. /\ memRows[m] \in MemRows /\ memRows[m].active \in 0..MemMaxVersion
        /\ memRows[m].active = 0 \/ memVersions[m][memRows[m].active] = "CONFIRMED"
    BY <2>3, MemRowFacts
  <2>5. /\ memRows'[m].active = memRows[m].active
        /\ memRows'[m].state \in {memRows[m].state, "REJECTED"}
    BY <1>1, <1>3, <1>4, <2>1, <2>4 DEF MemDecide, MemRows
  <2> QED
    BY <2>3, <2>4, <2>5, MemNothingNewShows
<1>5. CASE MemDecide(t, "confirm", "CONFIRMED")
  <2>1. q.pc = "confirm" /\ q.loaded \in MemRows /\ n # 0
    BY <1>3, <1>5 DEF MemThreadOK, MemDecide
  <2>2. n \in MemNumbers
    BY <2>1, MemAssumption DEF MemRows, MemNumbers
  <2>3. memRows[m] \in MemRows
    BY <1>1, <2>2 DEF MemMayDecide, MemIInv, MemHistoryIsComplete, MemExists
  <2>4. memRows'[m].active = n
    BY <1>1, <1>3, <1>5, <2>1, <2>3 DEF MemDecide, MemRows
  <2> QED
    BY <1>1, <1>2, <2>1, <2>4 DEF MemContext
<1> QED
  BY <1>4, <1>5

\* The chat is told of a version only once the owner has approved it, whatever
\* requests overlap: confirmed_versions_for_context.
THEOREM MemoryOnlyApprovalsShow == MemSpec => MemOnlyApprovalsShow
<1> DEFINE Approved(m) == \E t \in MemThreads :
                  /\ memThreads[t].pc = "confirm"
                  /\ memThreads'[t].pc = "idle"
                  /\ memThreads[t].memory = m
                  /\ memThreads[t].loaded.pending = MemContext(m)'
           Shows == \A m \in MemIds : MemContext(m)' \notin {0, MemContext(m)} => Approved(m)
<1>1. MemIInv /\ [MemNext]_memVars => [Shows]_memVars
  <2> SUFFICES ASSUME MemIInv, MemNext, NEW m \in MemIds,
                      MemContext(m)' \notin {0, MemContext(m)}
               PROVE  Approved(m)
    OBVIOUS
  <2>1. ~(memRows'[m] = memRows[m] /\ memVersions'[m] = memVersions[m])
    BY DEF MemContext, MemExists
  <2>2. memRows \in [MemIds -> MemRows \cup {MemUnused, MemDeleted}]
        /\ memVersions \in [MemIds -> [MemNumbers -> MemStates \cup {"none"}]]
    BY DEF MemIInv, MemTypeOK
  <2>3. ASSUME NEW k \in MemIds, MemCreate(k) PROVE FALSE
    <3>1. k = m /\ memRows'[m].state = "PENDING"
      BY <2>1, <2>2, <2>3 DEF MemCreate
    <3> QED
      BY <3>1, MemNothingNewShows
  <2>4. ASSUME NEW k \in MemIds, MemDelete(k) PROVE FALSE
    <3>1. k = m /\ memRows'[m] = MemDeleted
      BY <2>1, <2>2, <2>4 DEF MemDelete
    <3> QED
      BY <3>1, MemNothingNewShows, MemRowKinds
  <2>5. ASSUME NEW t \in MemThreads, MemStep(t) PROVE Approved(m)
    <3>1. \/ MemPropose(t) \/ MemArchive(t)
          \/ MemDecide(t, "confirm", "CONFIRMED") \/ MemDecide(t, "reject", "REJECTED")
      BY <2>1, <2>5 DEF MemStep, MemUpdate, MemDecideLoad, MemArchiveLoad, MemJudge,
                        MemDatabaseFails
    <3>2. ~(MemPropose(t) \/ MemArchive(t))
      BY MemInsertShowsNothing
    <3> QED
      BY <3>1, <3>2, MemDecisionShows
  <2> QED
    BY <2>3, <2>4, <2>5 DEF MemNext
<1> QED
  BY <1>1, MemInvariant, PTL DEF MemSpec, MemOnlyApprovalsShow

-----------------------------------------------------------------------------
(* KnowledgeScan: the inductive invariant.                                  *)

\* The steps that work on one file.
KnoBusy == {"hash", "extract", "store", "failure"}

\* A file the scan is through with.
KnoSettled(p) ==
    IF knoDisk[p] = KnoNone THEN p \notin knoScan.listed
    ELSE /\ p \in knoScan.listed
         /\ \/ p \in knoScan.failed
            \/ knoDocs[p].status = "indexed" /\ knoDocs[p].hash = knoDisk[p]

\* What a scan nobody disturbed has made of the folder so far: every file it
\* has visited is settled, but for the one in its hands, which still holds the
\* content it was hashed by.
KnoSoFar ==
    /\ knoScan.pc \in KnoBusy => knoDisk[knoScan.path] # KnoNone
    /\ knoScan.pc \in {"extract", "store"} => knoScan.hash = knoDisk[knoScan.path]
    /\ \A p \in knoScan.todo : p \notin knoScan.listed
    /\ \A p \in KnoPaths \ (KnoUnsupported \cup knoScan.todo) :
          (knoScan.pc \in KnoBusy /\ p = knoScan.path) \/ KnoSettled(p)
    /\ knoScan.pc = "return" =>
          \A p \in KnoPaths \ KnoUnsupported :
                knoDisk[p] = KnoNone => knoDocs[p].status # "indexed"

KnoScanOK ==
    /\ knoScan.pc \in KnoBusy =>
          knoScan.path \in knoScan.listed \ (knoScan.todo \cup KnoUnsupported)
    /\ knoScan.pc = "store" => knoScan.text # KnoNone
    /\ knoScan.pc = "return" => knoScan.todo = {}
    /\ knoScan.pc # "idle" /\ knoScan.undisturbed => KnoSoFar

KnoIInv == KnoTypeOK /\ KnoScanOK

-----------------------------------------------------------------------------
(* KnowledgeScan: every step preserves it.                                  *)

LEMMA KnoIdleIs ==
    /\ KnoIdle \in KnoScanning /\ KnoIdle.pc = "idle"
    /\ KnoNoDoc \in KnoDocument /\ KnoNoDoc.status = "none"
BY DEF KnoIdle, KnoScanning, KnoNoDoc, KnoDoc, KnoDocument

LEMMA KnoInitIInv == KnoInit => KnoIInv
<1> SUFFICES ASSUME KnoInit PROVE KnoIInv
  OBVIOUS
<1>1. KnoTypeOK
  BY KnoIdleIs DEF KnoInit, KnoTypeOK
<1>2. KnoScanOK
  BY KnoIdleIs DEF KnoInit, KnoScanOK, KnoBusy
<1> QED
  BY <1>1, <1>2 DEF KnoIInv

\* A scan that ends, or one the owner has disturbed, promises nothing of the
\* folder.
LEMMA KnoEndKeeps == KnoIInv /\ KnoEnd => KnoIInv'
<1> SUFFICES ASSUME KnoIInv, KnoEnd PROVE KnoIInv'
  OBVIOUS
<1>1. knoScan' = KnoIdle /\ UNCHANGED <<knoDisk, knoDocs>>
  BY DEF KnoEnd, KnoGoes
<1>2. KnoTypeOK'
  BY <1>1, KnoIdleIs DEF KnoIInv, KnoTypeOK
<1>3. KnoScanOK'
  BY <1>1, KnoIdleIs DEF KnoScanOK, KnoBusy
<1> QED
  BY <1>2, <1>3 DEF KnoIInv

LEMMA KnoDisturbKeeps ==
    ASSUME KnoIInv, KnoDisturb
    PROVE  knoScan' \in KnoScanning /\ KnoScanOK'
<1> DEFINE q == [knoScan EXCEPT !.undisturbed = (knoScan.pc = "idle")]
<1>1. knoScan \in KnoScanning
  BY DEF KnoIInv, KnoTypeOK
<1>2. /\ q \in KnoScanning /\ q.pc = knoScan.pc /\ q.path = knoScan.path
      /\ q.listed = knoScan.listed /\ q.todo = knoScan.todo /\ q.text = knoScan.text
      /\ q.undisturbed => q.pc = "idle"
  BY <1>1 DEF KnoScanning
<1>3. knoScan' = q
  BY DEF KnoDisturb
<1> HIDE DEF q
<1> QED
  BY <1>2, <1>3 DEF KnoIInv, KnoScanOK

LEMMA KnoDeleteKeeps ==
    ASSUME KnoIInv, NEW p \in KnoPaths, KnoDelete(p) PROVE KnoIInv'
<1>1. /\ UNCHANGED knoDisk /\ knoDocs' = [knoDocs EXCEPT ![p] = KnoNoDoc]
      /\ knoScan' \in KnoScanning /\ KnoScanOK'
  BY KnoDisturbKeeps DEF KnoDelete
<1> QED
  BY <1>1, KnoIdleIs DEF KnoIInv, KnoTypeOK

LEMMA KnoEditKeeps ==
    ASSUME KnoIInv, NEW p \in KnoPaths, NEW c \in KnoContents \cup {KnoNone}, KnoEdit(p, c)
    PROVE  KnoIInv'
<1>1. /\ UNCHANGED knoDocs /\ knoDisk' = [knoDisk EXCEPT ![p] = c]
      /\ knoScan' \in KnoScanning /\ KnoScanOK'
  BY KnoDisturbKeeps DEF KnoEdit
<1> QED
  BY <1>1 DEF KnoIInv, KnoTypeOK

LEMMA KnoStartKeeps == KnoIInv /\ KnoStart => KnoIInv'
<1> SUFFICES ASSUME KnoIInv, KnoStart PROVE KnoIInv'
  OBVIOUS
<1> DEFINE q == [KnoIdle EXCEPT !.pc = "visit", !.todo = KnoPaths]
<1>1. /\ q \in KnoScanning /\ q.pc = "visit" /\ q.todo = KnoPaths /\ q.listed = {}
  BY DEF KnoIdle, KnoScanning
<1>2. knoScan' = q /\ UNCHANGED <<knoDisk, knoDocs>>
  BY DEF KnoStart, KnoGoes
<1> HIDE DEF q
<1>3. KnoTypeOK'
  BY <1>1, <1>2 DEF KnoIInv, KnoTypeOK
<1>4. KnoScanOK'
  BY <1>1, <1>2 DEF KnoScanOK, KnoSoFar, KnoBusy
<1> QED
  BY <1>3, <1>4 DEF KnoIInv

LEMMA KnoVisitKeeps ==
    ASSUME KnoIInv, NEW p \in KnoPaths, KnoVisit(p) PROVE KnoIInv'
<1>1. /\ knoScan \in KnoScanning /\ knoScan.pc = "visit" /\ p \in knoScan.todo
      /\ UNCHANGED <<knoDisk, knoDocs>> /\ KnoTypeOK /\ KnoScanOK
  BY DEF KnoIInv, KnoTypeOK, KnoVisit
<1>2. PICK q \in KnoScanning :
        /\ knoScan' = q
        /\ q.todo = knoScan.todo \ {p} /\ q.failed = knoScan.failed
        /\ q.undisturbed = knoScan.undisturbed
        /\ \/ knoDisk[p] = KnoNone /\ q.listed = knoScan.listed /\ q.pc = "visit"
           \/ /\ knoDisk[p] # KnoNone /\ q.listed = knoScan.listed \cup {p}
              /\ \/ p \in KnoUnsupported /\ q.pc = "visit"
                 \/ p \notin KnoUnsupported /\ q.pc = "hash" /\ q.path = p
  <2> DEFINE rest == [knoScan EXCEPT !.todo = @ \ {p}]
             listed == [rest EXCEPT !.listed = @ \cup {p}]
             held == [listed EXCEPT !.pc = "hash", !.path = p]
  <2>1. /\ rest \in KnoScanning /\ rest.todo = knoScan.todo \ {p}
        /\ rest.failed = knoScan.failed /\ rest.undisturbed = knoScan.undisturbed
        /\ rest.listed = knoScan.listed /\ rest.pc = "visit"
    BY <1>1 DEF KnoScanning
  <2>2. /\ listed \in KnoScanning /\ listed.todo = knoScan.todo \ {p}
        /\ listed.failed = knoScan.failed /\ listed.undisturbed = knoScan.undisturbed
        /\ listed.listed = knoScan.listed \cup {p} /\ listed.pc = "visit"
    BY <1>1 DEF KnoScanning
  <2>3. /\ held \in KnoScanning /\ held.todo = knoScan.todo \ {p}
        /\ held.failed = knoScan.failed /\ held.undisturbed = knoScan.undisturbed
        /\ held.listed = knoScan.listed \cup {p} /\ held.pc = "hash" /\ held.path = p
    BY <1>1 DEF KnoScanning
  <2>4. \/ knoDisk[p] = KnoNone /\ knoScan' = rest
        \/ knoDisk[p] # KnoNone /\ p \in KnoUnsupported /\ knoScan' = listed
        \/ knoDisk[p] # KnoNone /\ p \notin KnoUnsupported /\ knoScan' = held
    BY DEF KnoVisit, KnoGoes
  <2> HIDE DEF rest, listed, held
  <2> QED
    BY <2>1, <2>2, <2>3, <2>4
<1>3. KnoTypeOK'
  BY <1>1, <1>2 DEF KnoTypeOK
<1>4. ASSUME knoScan'.undisturbed PROVE KnoSoFar'
  <2>1. KnoSoFar
    BY <1>1, <1>2, <1>4 DEF KnoScanOK
  <2>2. ASSUME NEW o \in KnoPaths \ (KnoUnsupported \cup knoScan'.todo)
        PROVE  (knoScan'.pc \in KnoBusy /\ o = knoScan'.path) \/ KnoSettled(o)'
    <3>1. CASE o = p
      BY <1>1, <1>2, <2>1, <2>2, <3>1 DEF KnoSettled, KnoSoFar, KnoBusy
    <3>2. CASE o # p
      <4>1. KnoSettled(o)
        BY <1>1, <1>2, <2>1, <2>2, <3>2 DEF KnoSoFar, KnoBusy
      <4> QED
        BY <1>1, <1>2, <3>2, <4>1 DEF KnoSettled
    <3> QED
      BY <3>1, <3>2
  <2>3. \A o \in knoScan'.todo : o \notin knoScan'.listed
    BY <1>2, <2>1 DEF KnoSoFar
  <2>4. knoScan'.pc \in KnoBusy => knoDisk'[knoScan'.path] # KnoNone
    BY <1>1, <1>2 DEF KnoBusy
  <2> QED
    BY <1>2, <2>2, <2>3, <2>4 DEF KnoSoFar
<1>5. KnoScanOK'
  BY <1>2, <1>4 DEF KnoScanOK, KnoBusy
<1> QED
  BY <1>3, <1>5 DEF KnoIInv

\* A step on the file in hand that leaves the index and the folder alone.
LEMMA KnoOnKeeps ==
    ASSUME KnoIInv, knoScan.pc \in KnoBusy, UNCHANGED <<knoDisk, knoDocs>>,
           NEW q \in KnoScanning, knoScan' = q, q.pc \in KnoBusy, q.path = knoScan.path,
           q.todo = knoScan.todo, q.listed = knoScan.listed, q.failed = knoScan.failed,
           q.undisturbed = knoScan.undisturbed,
           q.pc = "store" => q.text # KnoNone,
           knoScan.undisturbed /\ q.pc \in {"extract", "store"} => q.hash = knoDisk[q.path]
    PROVE  KnoIInv'
<1>1. KnoTypeOK'
  BY DEF KnoIInv, KnoTypeOK
<1>2. ASSUME q.undisturbed PROVE KnoSoFar'
  <2>1. KnoSoFar
    BY <1>2 DEF KnoIInv, KnoScanOK, KnoBusy
  <2> QED
    BY <1>2, <2>1 DEF KnoSoFar, KnoSettled, KnoBusy
<1> QED
  BY <1>1, <1>2 DEF KnoIInv, KnoScanOK, KnoBusy

\* The next file, once the one in hand is settled.
LEMMA KnoContinueKeeps ==
    ASSUME KnoIInv, knoScan.pc \in KnoBusy, KnoTypeOK', UNCHANGED knoDisk,
           NEW q \in KnoScanning, knoScan' = q, q.pc = "visit",
           q.todo = knoScan.todo, q.listed = knoScan.listed,
           q.undisturbed = knoScan.undisturbed,
           knoScan.failed \subseteq q.failed,
           NEW f, f = knoScan.path,
           \A p \in KnoPaths \ {f} : knoDocs'[p] = knoDocs[p],
           knoScan.undisturbed => KnoSettled(f)'
    PROVE  KnoIInv'
<1>1. ASSUME q.undisturbed PROVE KnoSoFar'
  <2>1. KnoSoFar
    BY <1>1 DEF KnoIInv, KnoScanOK, KnoBusy
  <2>2. ASSUME NEW p \in KnoPaths \ (KnoUnsupported \cup q.todo) PROVE KnoSettled(p)'
    <3>1. CASE p = f
      BY <1>1, <3>1 DEF KnoSettled
    <3>2. CASE p # f
      BY <2>1, <2>2, <3>2 DEF KnoSoFar, KnoSettled
    <3> QED
      BY <3>1, <3>2
  <2> QED
    BY <1>1, <2>1, <2>2 DEF KnoSoFar, KnoBusy
<1> QED
  BY <1>1 DEF KnoIInv, KnoScanOK, KnoBusy

LEMMA KnoContinueIs ==
    ASSUME NEW q \in KnoScanning, KnoContinue(q)
    PROVE  /\ knoScan' \in KnoScanning /\ knoScan'.pc = "visit"
           /\ knoScan'.todo = q.todo /\ knoScan'.listed = q.listed
           /\ knoScan'.undisturbed = q.undisturbed /\ knoScan'.failed = q.failed
<1> DEFINE n == [q EXCEPT !.pc = "visit", !.path = KnoNone, !.row = FALSE,
                          !.hash = KnoNone, !.text = KnoNone]
<1>1. /\ n \in KnoScanning /\ n.pc = "visit" /\ n.todo = q.todo /\ n.listed = q.listed
      /\ n.undisturbed = q.undisturbed /\ n.failed = q.failed
  BY DEF KnoScanning
<1>2. knoScan' = n
  BY DEF KnoContinue, KnoGoes
<1> HIDE DEF n
<1> QED
  BY <1>1, <1>2

\* The file in hand: it is listed, and nobody has emptied the folder of it.
LEMMA KnoInHand ==
    ASSUME KnoIInv, knoScan.pc \in KnoBusy
    PROVE  /\ knoScan \in KnoScanning
           /\ knoScan.path \in KnoPaths /\ knoScan.path \in knoScan.listed
           /\ knoDisk[knoScan.path] \in KnoContents \cup {KnoNone}
           /\ knoDocs[knoScan.path] \in KnoDocument
           /\ knoScan.undisturbed =>
                 /\ knoDisk[knoScan.path] # KnoNone
                 /\ knoScan.pc \in {"extract", "store"} => knoScan.hash = knoDisk[knoScan.path]
<1>1. knoScan \in KnoScanning
  BY DEF KnoIInv, KnoTypeOK
<1>2. knoScan.path \in KnoPaths /\ knoScan.path \in knoScan.listed
  BY <1>1 DEF KnoIInv, KnoScanOK, KnoScanning
<1> QED
  BY <1>1, <1>2 DEF KnoIInv, KnoTypeOK, KnoScanOK, KnoSoFar, KnoBusy

LEMMA KnoHashKeeps == KnoIInv /\ KnoHash => KnoIInv'
<1> SUFFICES ASSUME KnoIInv, KnoHash PROVE KnoIInv'
  OBVIOUS
<1>1. /\ knoScan.pc = "hash" /\ knoScan.pc \in KnoBusy /\ KnoFile # KnoNone
      /\ UNCHANGED <<knoDisk, knoDocs>>
  BY DEF KnoHash, KnoBusy
<1>2. knoScan \in KnoScanning /\ knoScan.path \in knoScan.listed /\ KnoFile \in KnoContents
  BY <1>1, KnoInHand DEF KnoFile
<1>3. CASE KnoFile \in KnoBig /\ KnoGoes([knoScan EXCEPT !.pc = "failure"])
  <2> DEFINE q == [knoScan EXCEPT !.pc = "failure"]
  <2>1. /\ q \in KnoScanning /\ q.pc = "failure" /\ q.path = knoScan.path
        /\ q.todo = knoScan.todo /\ q.listed = knoScan.listed /\ q.failed = knoScan.failed
        /\ q.undisturbed = knoScan.undisturbed /\ knoScan' = q
    BY <1>2, <1>3 DEF KnoScanning, KnoGoes
  <2> HIDE DEF q
  <2> QED
    BY <1>1, <2>1, KnoOnKeeps DEF KnoBusy
<1>4. CASE KnoUnchanged(knoScan.path, KnoFile) /\ KnoContinue(knoScan)
  <2>1. KnoSettled(knoScan.path)
    BY <1>1, <1>2, <1>4 DEF KnoUnchanged, KnoSettled, KnoFile
  <2>2. /\ knoScan' \in KnoScanning /\ knoScan'.pc = "visit"
        /\ knoScan'.todo = knoScan.todo /\ knoScan'.listed = knoScan.listed
        /\ knoScan'.undisturbed = knoScan.undisturbed /\ knoScan'.failed = knoScan.failed
    BY <1>2, <1>4, KnoContinueIs
  <2>3. KnoTypeOK'
    BY <1>1, <2>2 DEF KnoIInv, KnoTypeOK
  <2>4. ASSUME knoScan.undisturbed PROVE KnoSoFar'
    <3>1. KnoSoFar
      BY <1>1, <2>4 DEF KnoIInv, KnoScanOK, KnoBusy
    <3>2. ASSUME NEW p \in KnoPaths \ (KnoUnsupported \cup knoScan.todo) PROVE KnoSettled(p)'
      <4>1. KnoSettled(p)
        BY <2>1, <3>1, <3>2 DEF KnoSoFar
      <4> QED
        BY <1>1, <2>2, <4>1 DEF KnoSettled
    <3> QED
      BY <1>1, <2>2, <3>1, <3>2 DEF KnoSoFar, KnoBusy
  <2>5. KnoScanOK'
    BY <2>2, <2>4 DEF KnoScanOK, KnoBusy
  <2> QED
    BY <2>3, <2>5 DEF KnoIInv
<1>5. CASE KnoGoes([knoScan EXCEPT !.pc = "extract", !.hash = KnoFile,
                         !.row = knoDocs[knoScan.path] # KnoNoDoc])
  <2> DEFINE q == [knoScan EXCEPT !.pc = "extract", !.hash = KnoFile,
                         !.row = knoDocs[knoScan.path] # KnoNoDoc]
  <2>1. /\ q \in KnoScanning /\ q.pc = "extract" /\ q.path = knoScan.path
        /\ q.todo = knoScan.todo /\ q.listed = knoScan.listed /\ q.failed = knoScan.failed
        /\ q.undisturbed = knoScan.undisturbed /\ q.hash = KnoFile /\ knoScan' = q
    BY <1>2, <1>5 DEF KnoScanning, KnoGoes
  <2> HIDE DEF q
  <2> QED
    BY <1>1, <2>1, KnoOnKeeps DEF KnoBusy, KnoFile
<1> QED
  BY <1>3, <1>4, <1>5 DEF KnoHash

LEMMA KnoExtractKeeps == KnoIInv /\ KnoExtract => KnoIInv'
<1> SUFFICES ASSUME KnoIInv, KnoExtract PROVE KnoIInv'
  OBVIOUS
<1>1. /\ knoScan.pc = "extract" /\ knoScan.pc \in KnoBusy /\ UNCHANGED <<knoDisk, knoDocs>>
  BY DEF KnoExtract, KnoBusy
<1>2. /\ knoScan \in KnoScanning
      /\ knoScan.undisturbed => knoScan.hash = knoDisk[knoScan.path]
  BY <1>1, KnoInHand
<1>3. CASE KnoFile \in KnoGood \cup KnoBig /\ KnoGoes([knoScan EXCEPT !.pc = "store", !.text = KnoFile])
  <2> DEFINE q == [knoScan EXCEPT !.pc = "store", !.text = KnoFile]
  <2>1. KnoFile \in KnoContents /\ KnoFile # KnoNone
    BY <1>3, KnoAssumption DEF KnoContents
  <2>2. /\ q \in KnoScanning /\ q.pc = "store" /\ q.path = knoScan.path
        /\ q.todo = knoScan.todo /\ q.listed = knoScan.listed /\ q.failed = knoScan.failed
        /\ q.undisturbed = knoScan.undisturbed /\ q.text = KnoFile /\ q.hash = knoScan.hash
        /\ knoScan' = q
    BY <1>2, <1>3, <2>1 DEF KnoScanning, KnoGoes
  <2> HIDE DEF q
  <2> QED
    BY <1>1, <1>2, <2>1, <2>2, KnoOnKeeps DEF KnoBusy
<1>4. CASE KnoGoes([knoScan EXCEPT !.pc = "failure"])
  <2> DEFINE q == [knoScan EXCEPT !.pc = "failure"]
  <2>1. /\ q \in KnoScanning /\ q.pc = "failure" /\ q.path = knoScan.path
        /\ q.todo = knoScan.todo /\ q.listed = knoScan.listed /\ q.failed = knoScan.failed
        /\ q.undisturbed = knoScan.undisturbed /\ knoScan' = q
    BY <1>2, <1>4 DEF KnoScanning, KnoGoes
  <2> HIDE DEF q
  <2> QED
    BY <1>1, <2>1, KnoOnKeeps DEF KnoBusy
<1> QED
  BY <1>3, <1>4 DEF KnoExtract

LEMMA KnoStoreFailsKeeps == KnoIInv /\ KnoStoreFails => KnoIInv'
<1> SUFFICES ASSUME KnoIInv, KnoStoreFails PROVE KnoIInv'
  OBVIOUS
<1> DEFINE q == [knoScan EXCEPT !.pc = "failure"]
<1>1. knoScan.pc \in KnoBusy /\ UNCHANGED <<knoDisk, knoDocs>>
  BY DEF KnoStoreFails, KnoBusy
<1>2. /\ q \in KnoScanning /\ q.pc = "failure" /\ q.path = knoScan.path
      /\ q.todo = knoScan.todo /\ q.listed = knoScan.listed /\ q.failed = knoScan.failed
      /\ q.undisturbed = knoScan.undisturbed /\ knoScan' = q
  BY DEF KnoIInv, KnoTypeOK, KnoStoreFails, KnoScanning, KnoGoes
<1> HIDE DEF q
<1> QED
  BY <1>1, <1>2, KnoOnKeeps DEF KnoBusy

LEMMA KnoStoreKeeps == KnoIInv /\ KnoStore => KnoIInv'
<1> SUFFICES ASSUME KnoIInv, KnoStore PROVE KnoIInv'
  OBVIOUS
<1> PICK f : f = knoScan.path
  OBVIOUS
<1> DEFINE d == KnoDoc("indexed", knoScan.hash, knoScan.text)
<1>1. /\ knoScan.pc = "store" /\ knoScan.pc \in KnoBusy /\ UNCHANGED knoDisk
      /\ knoDocs' = [knoDocs EXCEPT ![f] = d] /\ KnoContinue(knoScan)
  BY DEF KnoStore, KnoBusy
<1>2. /\ knoScan \in KnoScanning /\ f \in KnoPaths /\ f \in knoScan.listed /\ KnoTypeOK
      /\ knoScan.text # KnoNone
      /\ knoScan.undisturbed => knoDisk[f] # KnoNone /\ knoScan.hash = knoDisk[f]
  BY <1>1, KnoInHand DEF KnoIInv, KnoScanOK
<1>3. /\ knoScan' \in KnoScanning /\ knoScan'.pc = "visit"
      /\ knoScan'.todo = knoScan.todo /\ knoScan'.listed = knoScan.listed
      /\ knoScan'.undisturbed = knoScan.undisturbed /\ knoScan'.failed = knoScan.failed
  BY <1>1, <1>2, KnoContinueIs
<1>4. /\ d \in KnoDocument /\ d.status = "indexed" /\ d.hash = knoScan.hash
      /\ d.text = knoScan.text
  BY <1>2 DEF KnoDoc, KnoDocument, KnoScanning
<1> HIDE DEF d
<1>5. /\ knoDocs' \in [KnoPaths -> KnoDocument] /\ knoDocs'[f] = d
      /\ \A p \in KnoPaths \ {f} : knoDocs'[p] = knoDocs[p]
  BY <1>1, <1>2, <1>4 DEF KnoTypeOK
<1>6. KnoTypeOK'
  BY <1>1, <1>2, <1>3, <1>4, <1>5 DEF KnoTypeOK
<1>7. knoScan.undisturbed => KnoSettled(f)'
  BY <1>1, <1>2, <1>3, <1>4, <1>5 DEF KnoSettled
<1>8. PICK q \in KnoScanning : q = knoScan'
  BY <1>3
<1> QED
  BY <1>1, <1>3, <1>5, <1>6, <1>7, <1>8, KnoContinueKeeps DEF KnoBusy

LEMMA KnoFailureKeeps == KnoIInv /\ KnoFailure => KnoIInv'
<1> SUFFICES ASSUME KnoIInv, KnoFailure PROVE KnoIInv'
  OBVIOUS
<1> PICK f : f = knoScan.path
  OBVIOUS
<1> DEFINE counted == [knoScan EXCEPT !.failed = @ \cup {knoScan.path}]
           d == [knoDocs[f] EXCEPT !.status = IF @ = "indexed" THEN "indexed" ELSE "failed"]
<1>1. /\ knoScan.pc \in KnoBusy /\ UNCHANGED knoDisk /\ knoDisk[f] # KnoNone
      /\ knoDocs' = [knoDocs EXCEPT ![f] = d] /\ KnoContinue(counted)
  BY DEF KnoFailure, KnoBusy, KnoFile
<1>2. /\ knoScan \in KnoScanning /\ f \in KnoPaths /\ f \in knoScan.listed /\ KnoTypeOK
      /\ knoDocs[f] \in KnoDocument
  BY <1>1, KnoInHand DEF KnoIInv
<1>3. /\ counted \in KnoScanning /\ counted.todo = knoScan.todo
      /\ counted.listed = knoScan.listed /\ counted.undisturbed = knoScan.undisturbed
      /\ counted.failed = knoScan.failed \cup {f}
  BY <1>2 DEF KnoScanning
<1>4. /\ d \in KnoDocument /\ d.text = knoDocs[f].text
      /\ d.status \in {"indexed", "missing"} => knoDocs[f].status = "indexed"
  BY <1>2 DEF KnoDocument
<1> HIDE DEF counted, d
<1>5. /\ knoScan' \in KnoScanning /\ knoScan'.pc = "visit"
      /\ knoScan'.todo = knoScan.todo /\ knoScan'.listed = knoScan.listed
      /\ knoScan'.undisturbed = knoScan.undisturbed
      /\ knoScan'.failed = knoScan.failed \cup {f}
  BY <1>1, <1>3, KnoContinueIs
<1>6. /\ knoDocs' \in [KnoPaths -> KnoDocument] /\ knoDocs'[f] = d
      /\ \A p \in KnoPaths \ {f} : knoDocs'[p] = knoDocs[p]
  BY <1>1, <1>2, <1>4 DEF KnoTypeOK
<1>7. KnoTypeOK'
  BY <1>1, <1>2, <1>4, <1>5, <1>6 DEF KnoTypeOK
<1>8. KnoSettled(f)'
  BY <1>1, <1>2, <1>5 DEF KnoSettled
<1>9. PICK q \in KnoScanning : q = knoScan'
  BY <1>5
<1> QED
  BY <1>1, <1>5, <1>6, <1>7, <1>8, <1>9, KnoContinueKeeps DEF KnoBusy

LEMMA KnoFinishKeeps == KnoIInv /\ KnoFinish => KnoIInv'
<1> SUFFICES ASSUME KnoIInv, KnoFinish PROVE KnoIInv'
  OBVIOUS
<1> DEFINE q == [knoScan EXCEPT !.pc = "return"]
           M(p) == [knoDocs[p] EXCEPT !.status = "missing"]
<1>1. /\ KnoTypeOK /\ KnoScanOK /\ knoScan \in KnoScanning
      /\ knoScan.pc = "visit" /\ knoScan.todo = {} /\ UNCHANGED knoDisk
  BY DEF KnoIInv, KnoTypeOK, KnoFinish
<1>2. /\ q \in KnoScanning /\ q.pc = "return" /\ q.todo = {} /\ q.listed = knoScan.listed
      /\ q.failed = knoScan.failed /\ q.undisturbed = knoScan.undisturbed /\ knoScan' = q
  BY <1>1 DEF KnoFinish, KnoGoes, KnoScanning
<1>3. ASSUME NEW p \in KnoPaths
      PROVE  M(p) \in KnoDocument /\ M(p).status = "missing" /\ M(p).text = knoDocs[p].text
  <2>1. knoDocs[p] \in KnoDocument
    BY <1>1 DEF KnoTypeOK
  <2> QED
    BY <2>1 DEF KnoDocument
<1>4. knoDocs' = [p \in KnoPaths |->
          IF knoDocs[p].status = "indexed" /\ p \notin knoScan.listed
          THEN M(p) ELSE knoDocs[p]]
  BY DEF KnoFinish
<1> HIDE DEF q, M
<1>5. ASSUME NEW p \in KnoPaths
      PROVE  /\ knoDocs'[p] \in KnoDocument
             /\ p \in knoScan.listed => knoDocs'[p] = knoDocs[p]
             /\ p \notin knoScan.listed => knoDocs'[p].status # "indexed"
             /\ knoDocs'[p].status \in {"indexed", "missing"} => knoDocs'[p].text # KnoNone
  BY <1>1, <1>3, <1>4 DEF KnoTypeOK
<1>6. KnoTypeOK'
  BY <1>1, <1>2, <1>4, <1>5 DEF KnoTypeOK
<1>7. ASSUME knoScan.undisturbed PROVE KnoSoFar'
  <2>1. \A p \in KnoPaths \ KnoUnsupported : KnoSettled(p)
    BY <1>1, <1>7 DEF KnoScanOK, KnoSoFar, KnoBusy
  <2>2. \A p \in KnoPaths \ KnoUnsupported : KnoSettled(p)'
    BY <1>1, <1>2, <1>5, <2>1 DEF KnoSettled
  <2> QED
    BY <1>1, <1>2, <1>5, <2>1, <2>2 DEF KnoSoFar, KnoBusy, KnoSettled
<1>8. KnoScanOK'
  BY <1>2, <1>7 DEF KnoScanOK, KnoBusy
<1> QED
  BY <1>6, <1>8 DEF KnoIInv

LEMMA KnoStepIInv == KnoIInv /\ [KnoNext]_knoVars => KnoIInv'
<1> SUFFICES ASSUME KnoIInv, [KnoNext]_knoVars PROVE KnoIInv'
  OBVIOUS
<1>1. CASE UNCHANGED knoVars
  BY <1>1 DEF knoVars, KnoIInv, KnoTypeOK, KnoScanOK, KnoSoFar, KnoSettled
<1>2. CASE KnoNext
  BY <1>2, KnoStartKeeps, KnoHashKeeps, KnoExtractKeeps, KnoStoreKeeps, KnoStoreFailsKeeps,
     KnoFailureKeeps, KnoFinishKeeps, KnoEndKeeps, KnoVisitKeeps, KnoDeleteKeeps,
     KnoEditKeeps DEF KnoNext
<1> QED
  BY <1>1, <1>2

LEMMA KnoIInvAlways == KnoSpec => []KnoIInv
BY KnoInitIInv, KnoStepIInv, PTL DEF KnoSpec

-----------------------------------------------------------------------------
(* KnowledgeScan: what is proved of it.                                     *)

\* The folder, the index and the scan keep their shape, and a document that is
\* indexed or missing holds the text it was indexed with (KnowledgeDocument,
\* KnowledgeService.scan).
THEOREM KnoTypeCorrect == KnoSpec => []KnoTypeOK
<1>1. KnoIInv => KnoTypeOK
  BY DEF KnoIInv
<1> QED
  BY <1>1, KnoIInvAlways, PTL

\* A scan nobody disturbed leaves the index as the folder is, whatever
\* interrupted or disturbed scans came before it, for every folder and every
\* set of contents (KnowledgeService.scan).
THEOREM KnoSettles == KnoSpec => []KnoScanSettles
<1>1. KnoIInv => KnoScanSettles
  <2> SUFFICES ASSUME KnoIInv, knoScan.pc = "return", knoScan.undisturbed,
                      NEW p \in KnoPaths \ KnoUnsupported
               PROVE  IF knoDisk[p] = KnoNone THEN knoDocs[p].status # "indexed"
                      ELSE p \in knoScan.failed
                        \/ (knoDocs[p].status = "indexed" /\ knoDocs[p].hash = knoDisk[p])
    BY DEF KnoScanSettles
  <2>1. KnoSoFar /\ knoScan.todo = {}
    BY DEF KnoIInv, KnoScanOK
  <2> QED
    BY <2>1 DEF KnoSoFar, KnoBusy, KnoSettled
<1> QED
  BY <1>1, KnoIInvAlways, PTL

-----------------------------------------------------------------------------
(* FirstUse: types.                                                         *)

\* A thread that is to compose a service, or to look for the claims, has been
\* given its approval store.
FuThreadOK(q) ==
    /\ q.pc # "idle" => q.approval \in FuApprovals
    /\ q.pc \in {"act", "get", "claim", "send"} => q.store \in FuInstances
    /\ q.pc \in {"get", "claim", "send"} => q.claims \in FuInstances
    /\ q.pc = "build" /\ q.factory = "service" => q.store \in FuInstances
    /\ q.pc \in {"find", "build"} /\ q.factory = "claims" => q.store \in FuInstances

FuStoreTypes ==
    /\ fuCache \in [FuFactories -> FuObject]
    /\ fuBuilt \in SUBSET FuInstances
    /\ fuItems \in [FuInstances -> [FuApprovals -> {"absent", "pending", "approved"}]]
    /\ fuClaims \in [FuInstances -> SUBSET FuApprovals]
    /\ fuAttempts \in [FuApprovals -> 0..FuMaxAttempts]

FuIInv ==
    /\ FuStoreTypes
    /\ fuRequests \in [FuRequests -> FuRequest]
    /\ \A r \in FuRequests : FuThreadOK(fuRequests[r])

LEMMA FuIInvType == FuIInv => FuTypeOK
BY DEF FuIInv, FuStoreTypes, FuThreadOK, FuTypeOK

LEMMA FuIdleIs == FuIdle \in FuRequest /\ FuThreadOK(FuIdle) /\ FuIdle.pc = "idle"
BY DEF FuIdle, FuRequest, FuThreadOK, FuOps, FuFactories, FuObject

LEMMA FuGoesSafe ==
    ASSUME FuIInv, NEW r \in FuRequests, NEW q \in FuRequest, FuThreadOK(q),
           FuGoes(r, q), FuStoreTypes'
    PROVE  FuIInv'
<1>1. /\ fuRequests' \in [FuRequests -> FuRequest] /\ fuRequests'[r] = q
      /\ \A s \in FuRequests \ {r} : fuRequests'[s] = fuRequests[s]
  BY DEF FuIInv, FuGoes
<1>2. \A s \in FuRequests : FuThreadOK(fuRequests'[s])
  BY <1>1 DEF FuIInv
<1>3. \A s \in FuRequests : FuThreadOK(fuRequests[s])'
  BY <1>2 DEF FuThreadOK
<1> QED
  BY <1>1, <1>3 DEF FuIInv

LEMMA FuRequestAt ==
    ASSUME FuIInv, NEW r \in FuRequests
    PROVE  fuRequests[r] \in FuRequest /\ FuThreadOK(fuRequests[r])
BY DEF FuIInv

LEMMA FuWithIs ==
    ASSUME NEW q \in FuRequest, NEW i \in FuInstances, FuThreadOK(q),
           q.pc \in {"find", "build"}
    PROVE  FuWith(q, i) \in FuRequest /\ FuThreadOK(FuWith(q, i))
<1>1. i \in FuObject /\ q.factory \in FuFactories
  BY DEF FuObject, FuRequest
<1>2. CASE q.factory = "claims"
  <2> DEFINE p == [q EXCEPT !.pc = "get", !.claims = i]
  <2>1. /\ p \in FuRequest /\ p.pc = "get" /\ p.claims = i /\ p.store = q.store
        /\ p.approval = q.approval /\ p.factory = q.factory
    BY <1>1 DEF FuRequest
  <2> HIDE DEF p
  <2>2. FuThreadOK(p)
    BY <1>2, <2>1 DEF FuThreadOK
  <2>3. FuWith(q, i) = p
    BY <1>2 DEF FuWith, p
  <2> QED
    BY <2>1, <2>2, <2>3
<1>3. CASE q.factory = "service"
  <2> DEFINE p == [q EXCEPT !.pc = "act", !.store = i]
  <2>1. /\ p \in FuRequest /\ p.pc = "act" /\ p.store = i
        /\ p.approval = q.approval /\ p.factory = q.factory
    BY <1>1 DEF FuRequest
  <2> HIDE DEF p
  <2>2. FuThreadOK(p)
    BY <1>3, <2>1 DEF FuThreadOK
  <2>3. FuWith(q, i) = p
    BY <1>3 DEF FuWith, p
  <2> QED
    BY <2>1, <2>2, <2>3
<1>4. CASE q.factory = "store" /\ q.op = "execute"
  <2> DEFINE p == [q EXCEPT !.pc = "find", !.factory = "claims", !.store = i]
  <2>1. /\ p \in FuRequest /\ p.pc = "find" /\ p.store = i
        /\ p.approval = q.approval /\ p.factory = "claims"
    BY <1>1 DEF FuRequest, FuFactories
  <2> HIDE DEF p
  <2>2. FuThreadOK(p)
    BY <2>1 DEF FuThreadOK
  <2>3. FuWith(q, i) = p
    BY <1>4 DEF FuWith, p
  <2> QED
    BY <2>1, <2>2, <2>3
<1>5. CASE q.factory = "store" /\ q.op # "execute"
  <2> DEFINE p == [q EXCEPT !.pc = "build", !.factory = "service", !.store = i]
  <2>1. /\ p \in FuRequest /\ p.pc = "build" /\ p.store = i
        /\ p.approval = q.approval /\ p.factory = "service"
    BY <1>1 DEF FuRequest, FuFactories
  <2> HIDE DEF p
  <2>2. FuThreadOK(p)
    BY <2>1 DEF FuThreadOK
  <2>3. FuWith(q, i) = p
    BY <1>5 DEF FuWith, p
  <2> QED
    BY <2>1, <2>2, <2>3
<1> QED
  BY <1>1, <1>2, <1>3, <1>4, <1>5 DEF FuFactories

LEMMA FuCallSafe ==
    ASSUME FuIInv, NEW r \in FuRequests, NEW op \in FuOps, NEW a \in FuApprovals,
           FuCall(r, op, a)
    PROVE  FuIInv'
<1> DEFINE q == [FuIdle EXCEPT !.pc = "find", !.op = op, !.approval = a,
                   !.factory = IF op = "execute" THEN "store" ELSE "service"]
<1>1. q \in FuRequest /\ q.pc = "find" /\ q.approval = a /\ q.factory # "claims"
  BY FuIdleIs DEF FuRequest, FuFactories, FuIdle
<1>2. FuGoes(r, q)
  BY DEF FuCall
<1> HIDE DEF q
<1>3. FuThreadOK(q)
  BY <1>1 DEF FuThreadOK
<1>4. FuStoreTypes'
  BY DEF FuCall, FuIInv, FuStoreTypes
<1> QED
  BY <1>1, <1>2, <1>3, <1>4, FuGoesSafe

LEMMA FuFindSafe ==
    ASSUME FuIInv, NEW r \in FuRequests, FuFind(r)
    PROVE  FuIInv'
<1> PICK q \in FuRequest : q = fuRequests[r]
  BY FuRequestAt
<1>1. FuThreadOK(q) /\ q.pc = "find" /\ q.factory \in FuFactories
  BY FuRequestAt DEF FuFind, FuRequest
<1>2. FuStoreTypes'
  BY DEF FuFind, FuIInv, FuStoreTypes
<1>3. ASSUME NEW i \in FuInstances, FuGoes(r, FuWith(q, i)) PROVE FuIInv'
  BY <1>1, <1>2, <1>3, FuWithIs, FuGoesSafe
<1>4. CASE fuCache[q.factory] # FuNone
  <2>1. PICK i \in FuInstances : i = fuCache[q.factory]
    BY <1>1, <1>4 DEF FuIInv, FuStoreTypes, FuObject
  <2> QED
    BY <1>3, <1>4, <2>1 DEF FuFind
<1>5. CASE q.factory = "service" /\ FuGoes(r, [q EXCEPT !.factory = "store"])
  <2> DEFINE p == [q EXCEPT !.factory = "store"]
  <2>1. p \in FuRequest /\ p.pc = "find" /\ p.factory = "store" /\ p.approval = q.approval
    BY <1>1 DEF FuRequest, FuFactories
  <2>2. FuGoes(r, p)
    BY <1>5
  <2> HIDE DEF p
  <2>3. FuThreadOK(p)
    BY <1>1, <2>1 DEF FuThreadOK
  <2> QED
    BY <1>2, <2>1, <2>2, <2>3, FuGoesSafe
<1>6. CASE q.factory # "service" /\ FuGoes(r, [q EXCEPT !.pc = "build"])
  <2> DEFINE p == [q EXCEPT !.pc = "build"]
  <2>1. /\ p \in FuRequest /\ p.pc = "build" /\ p.factory = q.factory
        /\ p.approval = q.approval /\ p.store = q.store
    BY <1>1 DEF FuRequest
  <2>2. FuGoes(r, p)
    BY <1>6
  <2> HIDE DEF p
  <2>3. FuThreadOK(p)
    BY <1>1, <1>6, <2>1 DEF FuThreadOK
  <2> QED
    BY <1>2, <2>1, <2>2, <2>3, FuGoesSafe
<1> QED
  BY <1>4, <1>5, <1>6 DEF FuFind

LEMMA FuBuildSafe ==
    ASSUME FuIInv, NEW r \in FuRequests, FuBuild(r)
    PROVE  FuIInv'
<1> PICK q \in FuRequest : q = fuRequests[r]
  BY FuRequestAt
<1>1. FuThreadOK(q) /\ q.pc = "build" /\ q.factory \in FuFactories
      /\ UNCHANGED <<fuItems, fuClaims, fuAttempts>>
  BY FuRequestAt DEF FuBuild, FuRequest
<1>2. PICK i \in FuInstances :
        /\ fuBuilt' = fuBuilt \cup {i}
        /\ fuCache' = [fuCache EXCEPT ![q.factory] = IF @ = FuNone THEN i ELSE @]
        /\ FuGoes(r, FuWith(q, i))
  BY DEF FuBuild
<1>3. fuCache' \in [FuFactories -> FuObject]
  BY <1>1, <1>2 DEF FuIInv, FuStoreTypes, FuObject
<1>4. FuStoreTypes'
  BY <1>1, <1>2, <1>3 DEF FuIInv, FuStoreTypes
<1> QED
  BY <1>1, <1>2, <1>4, FuWithIs, FuGoesSafe

LEMMA FuReplySafe ==
    ASSUME FuIInv, NEW r \in FuRequests, FuReply(r), FuStoreTypes'
    PROVE  FuIInv'
BY FuIdleIs, FuGoesSafe DEF FuReply

\* A thread goes on with the objects it was given.
LEMMA FuMoves ==
    ASSUME FuIInv, NEW r \in FuRequests, NEW pc \in {"claim", "send"},
           fuRequests[r].pc \in {"get", "claim"},
           FuGoes(r, [fuRequests[r] EXCEPT !.pc = pc]), FuStoreTypes'
    PROVE  FuIInv'
<1> PICK q \in FuRequest : q = fuRequests[r]
  BY FuRequestAt
<1> DEFINE p == [q EXCEPT !.pc = pc]
<1>1. /\ p \in FuRequest /\ p.pc = pc /\ p.claims = q.claims
      /\ p.approval = q.approval /\ p.store = q.store
  BY DEF FuRequest
<1>2. FuGoes(r, p)
  OBVIOUS
<1> HIDE DEF p
<1>3. FuThreadOK(p)
  BY <1>1, FuRequestAt DEF FuThreadOK
<1> QED
  BY <1>1, <1>2, <1>3, FuGoesSafe

LEMMA FuActSafe ==
    ASSUME FuIInv, NEW r \in FuRequests,
           FuAct(r) \/ FuGetApproved(r) \/ FuClaim(r) \/ FuSend(r)
    PROVE  FuIInv'
<1> PICK q \in FuRequest : q = fuRequests[r]
  BY FuRequestAt
<1>1. FuThreadOK(q) /\ FuStoreTypes
  BY FuRequestAt DEF FuIInv
<1>2. CASE FuAct(r)
  <2>1. q.store \in FuInstances /\ q.approval \in FuApprovals
    BY <1>1, <1>2 DEF FuAct, FuThreadOK
  <2>2. PICK v : v = IF q.op = "propose" THEN "pending"
                     ELSE IF fuItems[q.store][q.approval] = "pending" THEN "approved"
                     ELSE fuItems[q.store][q.approval]
    OBVIOUS
  <2>3. v \in {"absent", "pending", "approved"}
    BY <1>1, <2>1, <2>2 DEF FuStoreTypes
  <2>4. fuItems' = [fuItems EXCEPT ![q.store] = [fuItems[q.store] EXCEPT ![q.approval] = v]]
    BY <1>2, <2>2 DEF FuAct
  <2>5. [fuItems[q.store] EXCEPT ![q.approval] = v]
            \in [FuApprovals -> {"absent", "pending", "approved"}]
    BY <1>1, <2>1, <2>3 DEF FuStoreTypes
  <2>6. fuItems' \in [FuInstances -> [FuApprovals -> {"absent", "pending", "approved"}]]
    BY <1>1, <2>1, <2>4, <2>5 DEF FuStoreTypes
  <2>7. FuStoreTypes'
    BY <1>1, <1>2, <2>6 DEF FuAct, FuStoreTypes
  <2> QED
    BY <1>2, <2>7, FuReplySafe DEF FuAct
<1>3. CASE FuGetApproved(r)
  <2>1. FuStoreTypes'
    BY <1>1, <1>3 DEF FuGetApproved, FuStoreTypes
  <2> QED
    BY <1>3, <2>1, FuReplySafe, FuMoves DEF FuGetApproved
<1>4. CASE FuClaim(r)
  <2>1. q.claims \in FuInstances /\ q.approval \in FuApprovals
    BY <1>1, <1>4 DEF FuClaim, FuThreadOK
  <2>2. fuClaims' \in [FuInstances -> SUBSET FuApprovals]
    BY <1>1, <1>4, <2>1 DEF FuClaim, FuStoreTypes
  <2>3. FuStoreTypes'
    BY <1>1, <1>4, <2>2 DEF FuClaim, FuStoreTypes
  <2> QED
    BY <1>4, <2>3, FuReplySafe, FuMoves DEF FuClaim
<1>5. CASE FuSend(r)
  <2>1. q.approval \in FuApprovals
    BY <1>1, <1>5 DEF FuSend, FuThreadOK
  <2>2. fuAttempts' \in [FuApprovals -> 0..FuMaxAttempts]
    BY <1>1, <1>5, <2>1, FuConstantsAssumption DEF FuSend, FuStoreTypes
  <2>3. FuStoreTypes'
    BY <1>1, <1>5, <2>2 DEF FuSend, FuStoreTypes
  <2> QED
    BY <1>5, <2>3, FuReplySafe DEF FuSend
<1> QED
  BY <1>2, <1>3, <1>4, <1>5

LEMMA FuInitSafe == FuInit => FuIInv
BY FuIdleIs, FuConstantsAssumption DEF FuInit, FuIInv, FuStoreTypes, FuObject

LEMMA FuNextSafe == FuIInv /\ [FuNext]_fuVars => FuIInv'
<1> SUFFICES ASSUME FuIInv, [FuNext]_fuVars PROVE FuIInv'
  OBVIOUS
<1>1. CASE UNCHANGED fuVars
  BY <1>1 DEF FuIInv, FuStoreTypes, FuThreadOK, fuVars
<1>2. CASE FuNext
  BY <1>2, FuCallSafe, FuFindSafe, FuBuildSafe, FuActSafe DEF FuNext
<1> QED
  BY <1>1, <1>2

\* The stores, the caches of the factories and the threads keep their shape: no
\* thread acts, claims or sends with a store it was not given.
THEOREM FuTypeCorrect == FuSpec => []FuTypeOK
BY FuInitSafe, FuNextSafe, FuIInvType, PTL DEF FuSpec

-----------------------------------------------------------------------------
(* FirstUse: one store of claims is enough.                                 *)

\* Every thread that was given a store of claims was given store i.
FuClaimsIn(i) == \A r \in FuRequests : fuRequests[r].claims \in {FuNone, i}

FuSending(r, a) == fuRequests[r].pc = "send" /\ fuRequests[r].approval = a

\* A claim in store i is used by one thread, once.
FuClaimsCount(i) ==
    \A a \in FuApprovals :
        /\ fuAttempts[a] \in {0, 1}
        /\ a \notin fuClaims[i] => fuAttempts[a] = 0
        /\ \A r \in FuRequests : FuSending(r, a) => a \in fuClaims[i] /\ fuAttempts[a] = 0
        /\ \A r, s \in FuRequests : FuSending(r, a) /\ FuSending(s, a) => r = s

\* A step that claims nothing, sends nothing and brings no thread to send.
LEMMA FuCountKept ==
    ASSUME FuIInv, NEW i \in FuInstances, FuClaimsCount(i),
           UNCHANGED <<fuClaims, fuAttempts>>,
           NEW r \in FuRequests, NEW q, FuGoes(r, q), q.pc # "send"
    PROVE  FuClaimsCount(i)'
<1>1. fuRequests'[r] = q /\ \A s \in FuRequests \ {r} : fuRequests'[s] = fuRequests[s]
  BY DEF FuIInv, FuGoes
<1>2. \A s \in FuRequests, a \in FuApprovals : FuSending(s, a)' => FuSending(s, a)
  BY <1>1 DEF FuSending
<1> QED
  BY <1>2 DEF FuClaimsCount

LEMMA FuCountClaim ==
    ASSUME FuIInv, NEW i \in FuInstances, FuClaimsCount(i), FuClaimsIn(i),
           NEW r \in FuRequests, FuClaim(r)
    PROVE  FuClaimsCount(i)'
<1> DEFINE q == fuRequests[r]
<1>1. /\ q \in FuRequest /\ q.pc = "claim" /\ q.approval \in FuApprovals
      /\ q.claims \in FuInstances
  BY FuRequestAt DEF FuClaim, FuThreadOK
<1>2. q.claims = i
  BY <1>1, FuConstantsAssumption DEF FuClaimsIn
<1>3. CASE q.approval \in fuClaims[i]
  <2>1. FuGoes(r, FuIdle) /\ UNCHANGED <<fuClaims, fuAttempts>>
    BY <1>2, <1>3 DEF FuClaim, FuReply
  <2> QED
    BY <2>1, FuIdleIs, FuCountKept
<1>4. CASE q.approval \notin fuClaims[i]
  <2>1. PICK b \in FuApprovals : b = q.approval
    BY <1>1
  <2>2. PICK p : p = [q EXCEPT !.pc = "send"]
    OBVIOUS
  <2>3. p.pc = "send" /\ p.approval = b
    BY <1>1, <2>1, <2>2 DEF FuRequest
  <2>4. /\ fuRequests' = [fuRequests EXCEPT ![r] = p]
        /\ fuClaims' = [fuClaims EXCEPT ![i] = @ \cup {b}] /\ fuAttempts' = fuAttempts
    BY <1>2, <1>4, <2>1, <2>2 DEF FuClaim, FuGoes
  <2>5. fuRequests'[r] = p /\ \A s \in FuRequests \ {r} : fuRequests'[s] = fuRequests[s]
    BY <2>4 DEF FuIInv
  <2>6. fuClaims'[i] = fuClaims[i] \cup {b}
    BY <2>4 DEF FuIInv, FuStoreTypes
  <2>7. \A s \in FuRequests, a \in FuApprovals :
            FuSending(s, a)' <=> (s = r /\ a = b) \/ (s # r /\ FuSending(s, a))
    BY <2>3, <2>5 DEF FuSending
  <2>8. fuAttempts[b] = 0 /\ \A s \in FuRequests : ~FuSending(s, b)
    BY <1>4, <2>1 DEF FuClaimsCount
  <2> QED
    BY <2>4, <2>6, <2>7, <2>8 DEF FuClaimsCount
<1> QED
  BY <1>3, <1>4

LEMMA FuCountSend ==
    ASSUME FuIInv, NEW i \in FuInstances, FuClaimsCount(i),
           NEW r \in FuRequests, FuSend(r)
    PROVE  FuClaimsCount(i)'
<1>1. PICK b \in FuApprovals : b = fuRequests[r].approval
  BY FuRequestAt DEF FuSend, FuThreadOK
<1>2. FuSending(r, b)
  BY <1>1 DEF FuSend, FuSending
<1>3. fuAttempts[b] = 0 /\ b \in fuClaims[i] /\ \A s \in FuRequests : FuSending(s, b) => s = r
  BY <1>2 DEF FuClaimsCount
<1>4. /\ fuAttempts' = [fuAttempts EXCEPT ![b] = fuAttempts[b] + 1]
      /\ fuClaims' = fuClaims /\ fuRequests' = [fuRequests EXCEPT ![r] = FuIdle]
  BY <1>1 DEF FuSend, FuReply, FuGoes
<1>5. fuAttempts'[b] = 1 /\ \A a \in FuApprovals \ {b} : fuAttempts'[a] = fuAttempts[a]
  BY <1>3, <1>4 DEF FuIInv, FuStoreTypes
<1>6. fuRequests'[r] = FuIdle /\ \A s \in FuRequests \ {r} : fuRequests'[s] = fuRequests[s]
  BY <1>4 DEF FuIInv
<1>7. \A s \in FuRequests, a \in FuApprovals : FuSending(s, a)' <=> s # r /\ FuSending(s, a)
  BY <1>6, FuIdleIs DEF FuSending
<1> QED
  BY <1>3, <1>4, <1>5, <1>7 DEF FuClaimsCount

LEMMA FuCountStep ==
    ASSUME FuIInv, NEW i \in FuInstances, FuClaimsIn(i), FuClaimsCount(i),
           [FuNext]_fuVars
    PROVE  FuClaimsCount(i)'
<1>1. ASSUME NEW r \in FuRequests, NEW op \in FuOps, NEW a \in FuApprovals, FuCall(r, op, a)
      PROVE  FuClaimsCount(i)'
  <2>1. PICK f : f = IF op = "execute" THEN "store" ELSE "service"
    OBVIOUS
  <2>2. PICK q : q = [FuIdle EXCEPT !.pc = "find", !.op = op, !.approval = a, !.factory = f]
    OBVIOUS
  <2>3. q.pc = "find"
    BY <2>2 DEF FuIdle
  <2>4. FuGoes(r, q) /\ UNCHANGED <<fuClaims, fuAttempts>>
    BY <1>1, <2>1, <2>2 DEF FuCall
  <2> QED
    BY <2>3, <2>4, FuCountKept
<1>2. ASSUME NEW q \in FuRequest, NEW j PROVE FuWith(q, j).pc # "send"
  BY DEF FuWith, FuRequest
<1>3. ASSUME NEW r \in FuRequests, FuFind(r) PROVE FuClaimsCount(i)'
  <2>1. fuRequests[r] \in FuRequest /\ fuRequests[r].pc = "find"
    BY <1>3, FuRequestAt DEF FuFind
  <2>2. PICK q : /\ FuGoes(r, q) /\ UNCHANGED <<fuClaims, fuAttempts>>
                 /\ \/ \E j : q = FuWith(fuRequests[r], j)
                    \/ q = [fuRequests[r] EXCEPT !.factory = "store"]
                    \/ q = [fuRequests[r] EXCEPT !.pc = "build"]
    BY <1>3 DEF FuFind
  <2>3. q.pc # "send"
    BY <1>2, <2>1, <2>2 DEF FuRequest
  <2> QED
    BY <2>2, <2>3, FuCountKept
<1>4. ASSUME NEW r \in FuRequests, FuBuild(r) PROVE FuClaimsCount(i)'
  <2>1. fuRequests[r] \in FuRequest
    BY FuRequestAt
  <2>2. PICK j : FuGoes(r, FuWith(fuRequests[r], j)) /\ UNCHANGED <<fuClaims, fuAttempts>>
    BY <1>4 DEF FuBuild
  <2> QED
    BY <1>2, <2>1, <2>2, FuCountKept
<1>5. ASSUME NEW r \in FuRequests, FuAct(r) PROVE FuClaimsCount(i)'
  BY <1>5, FuIdleIs, FuCountKept DEF FuAct, FuReply
<1>6. ASSUME NEW r \in FuRequests, FuGetApproved(r) PROVE FuClaimsCount(i)'
  <2>1. PICK q : /\ FuGoes(r, q) /\ UNCHANGED <<fuClaims, fuAttempts>>
                 /\ q = FuIdle \/ q = [fuRequests[r] EXCEPT !.pc = "claim"]
    BY <1>6 DEF FuGetApproved, FuReply
  <2>2. q.pc # "send"
    BY <2>1, FuIdleIs, FuRequestAt DEF FuRequest
  <2> QED
    BY <2>1, <2>2, FuCountKept
<1>7. CASE UNCHANGED fuVars
  BY <1>7 DEF fuVars, FuClaimsCount, FuSending
<1> QED
  BY <1>1, <1>3, <1>4, <1>5, <1>6, <1>7, FuCountClaim, FuCountSend DEF FuNext

\* What breaks "ONE APPROVAL -> AT MOST ONE PROVIDER ATTEMPT" is the second
\* store of claims alone: in every behaviour whose threads were all given one
\* store of claims, however many approval stores and services the cached
\* factories made, no approval leads to two attempts.
THEOREM FuOneClaimStore ==
    ASSUME NEW i \in FuInstances
    PROVE  FuSpec /\ []FuClaimsIn(i) => []FuAtMostOneAttempt
<1>1. FuInit => FuClaimsCount(i)
  BY FuIdleIs DEF FuInit, FuClaimsCount, FuSending
<1>2. FuIInv /\ FuClaimsIn(i) /\ FuClaimsCount(i) /\ [FuNext]_fuVars => FuClaimsCount(i)'
  BY FuCountStep
<1>3. FuClaimsCount(i) => FuAtMostOneAttempt
  BY DEF FuClaimsCount, FuAtMostOneAttempt
<1> QED
  BY <1>1, <1>2, <1>3, FuInitSafe, FuNextSafe, PTL DEF FuSpec

-----------------------------------------------------------------------------
(* The stores together: a run of all of them is a run of each.              *)

\* What the runs leave out of the approvals and the lessons is left out of
\* ExpNext's steps: the bounded steps are steps of the component.
LEMMA BoundedSteps ==
    ExecutionNext \/ TrustNext => ExpNext
BY DEF ExecutionNext, TrustNext, ExpNext

\* A step of the stores is a step of one of them, and every other one stutters.
LEMMA StoreSteps ==
    [StoreNext]_StoreVars =>
        /\ [Next]_vars /\ [MemNext]_memVars /\ [ExpNext]_<<govVars, expVars>>
        /\ [PlgNext]_plgVars /\ [FuNext]_fuVars /\ [KnoNext]_knoVars
<1> SUFFICES ASSUME [StoreNext]_StoreVars
             PROVE  /\ [Next]_vars /\ [MemNext]_memVars /\ [ExpNext]_<<govVars, expVars>>
                    /\ [PlgNext]_plgVars /\ [FuNext]_fuVars /\ [KnoNext]_knoVars
  OBVIOUS
<1>1. CASE UNCHANGED StoreVars
  BY <1>1 DEF StoreVars
<1>2. CASE AllAnswered
  BY <1>2 DEF AllAnswered, StoreVars
<1>3. CASE Next /\ Others("projects")
  BY <1>3 DEF Others
<1>4. CASE MemNext /\ Others("memories")
  BY <1>4 DEF Others
<1>5. CASE (ExecutionNext \/ TrustNext) /\ Others("execution")
  BY <1>5, BoundedSteps DEF Others
<1>6. CASE PlgNext /\ Others("plugins")
  BY <1>6 DEF Others
<1>7. CASE FuNext /\ Others("firstuse")
  BY <1>7 DEF Others
<1>8. CASE KnoNext /\ Others("knowledge")
  BY <1>8 DEF Others
<1> QED
  BY <1>1, <1>2, <1>3, <1>4, <1>5, <1>6, <1>7, <1>8 DEF StoreNext

LEMMA StoresAreStores ==
    StoreSpec => Spec /\ MemSpec /\ ExpSpec /\ PlgSpec /\ FuSpec /\ KnoSpec
<1>1. StoreInit => Init /\ MemInit /\ ExpInit /\ PlgInit /\ FuInit /\ KnoInit
  BY DEF StoreInit
<1> QED
  BY <1>1, StoreSteps, PTL DEF StoreSpec, Spec, MemSpec, ExpSpec, PlgSpec, FuSpec, KnoSpec

\* The rows, records, threads and history of every component keep their shape.
THEOREM StoreTypesCorrect == StoreSpec => []TypesOK
<1>1. TypesOK <=> /\ TypeOK /\ MemTypeOK /\ GovTypeOK /\ ExpTypeOK /\ PlgTypeOK
                  /\ FuTypeOK /\ KnoTypeOK
  BY DEF TypesOK
<1> QED
  BY <1>1, StoresAreStores, TypeCorrect, MemoryTypeCorrect, GovTypeCorrect,
     ExpTypeCorrect, PlgTypeCorrect, FuTypeCorrect, KnoTypeCorrect, PTL

=============================================================================

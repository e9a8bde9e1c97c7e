------------------------------- MODULE Memories -------------------------------
(***************************************************************************)
(* Personal memories: versions the owner proposes, confirms, rejects and   *)
(* archives.                                                               *)
(*                                                                         *)
(* A request thread loads rows, checks them, and then makes one            *)
(* transaction.  There is no compare-and-set: SQLAlchemy writes the        *)
(* columns that differ from what the thread loaded, whatever the row holds *)
(* by now.  What the database does refuse is a second version of the same  *)
(* number, an UPDATE of a row that has gone, and, by a trigger, any change *)
(* of a version that has been decided.                                     *)
(*                                                                         *)
(* Abstracted: a version's id is its number; keys, values and evidence are *)
(* left out (a taken key, an invalid value or an update that changes       *)
(* nothing changes no row).                                                *)
(***************************************************************************)
EXTENDS Naturals

CONSTANTS
    MemThreads,
    MemIds,         \* memory ids, never drawn twice
    MemNone,
    MemMaxVersion   \* bound: no change starts from this version

ASSUME MemAssumption == MemMaxVersion \in Nat \ {0}

VARIABLES
    memRows,        \* memories
    memVersions,    \* memory_versions: the state of each
    memThreads

memVars == <<memRows, memVersions, memThreads>>

-----------------------------------------------------------------------------
(* Types.                                                                  *)

MemNumbers == 1..MemMaxVersion
MemStates == {"PENDING", "CONFIRMED", "REJECTED", "ARCHIVED"}

\* 0 is a NULL version id.
MemRows == [state : MemStates, current : MemNumbers,
            active : 0..MemMaxVersion, pending : 0..MemMaxVersion]

MemUnused == [state |-> "unused"]
MemDeleted == [state |-> "deleted"]
MemIdle == [pc |-> "idle", memory |-> MemNone, loaded |-> MemUnused]

MemTypeOK ==
    /\ memRows \in [MemIds -> MemRows \cup {MemUnused, MemDeleted}]
    /\ memVersions \in [MemIds -> [MemNumbers -> MemStates \cup {"none"}]]
    /\ memThreads \in [MemThreads ->
          [pc : {"idle", "propose", "archive", "judge", "confirm", "reject"},
           memory : MemIds \cup {MemNone}, loaded : MemRows \cup {MemUnused}]]

MemExists(m) == memRows[m] \in MemRows

MemGoes(t, q) == memThreads' = [memThreads EXCEPT ![t] = q]
MemReply(t) == MemGoes(t, MemIdle)

\* get: the row as this thread sees it from now on.
MemLoads(t, m, pc) ==
    MemGoes(t, [pc |-> pc, memory |-> m, loaded |-> memRows[m]])

-----------------------------------------------------------------------------
(* Proposals.                                                              *)

MemCreate(m) ==
    /\ memRows[m] = MemUnused
    /\ memRows' = [memRows EXCEPT ![m] =
            [state |-> "PENDING", current |-> 1, active |-> 0, pending |-> 1]]
    /\ memVersions' = [memVersions EXCEPT ![m][1] = "PENDING"]
    /\ UNCHANGED memThreads

\* update, up to its transaction.
MemUpdate(t, m) ==
    /\ memThreads[t].pc = "idle"
    /\ MemExists(m)
    /\ memRows[m].pending = 0
    /\ memRows[m].current < MemMaxVersion
    /\ MemLoads(t, m, "propose")
    /\ UNCHANGED <<memRows, memVersions>>

\* A mutant: nothing checks that the number is free.
MemCanInsert_Any(t) == MemExists(memThreads[t].memory)

\* create_version: the row is there, and no version has the next number yet.
MemCanInsert(t) ==
    LET q == memThreads[t] IN
    /\ MemExists(q.memory)
    /\ memVersions[q.memory][q.loaded.current + 1] = "none"

\* A mutant: a confirmed memory's new version is confirmed with it.
MemPropose_Confirmed(t) ==
    LET q == memThreads[t]  n == q.loaded.current + 1  m == q.memory IN
    /\ q.pc = "propose"
    /\ IF MemCanInsert(t)
       THEN /\ memVersions' = [memVersions EXCEPT ![m][n] = q.loaded.state]
            /\ memRows' = [memRows EXCEPT ![m].current = n, ![m].active = n]
       ELSE UNCHANGED <<memVersions, memRows>>
    /\ MemReply(t)

\* The rest of update.
MemPropose(t) ==
    LET q == memThreads[t]  n == q.loaded.current + 1  m == q.memory IN
    /\ q.pc = "propose"
    /\ IF MemCanInsert(t)
       THEN /\ memVersions' = [memVersions EXCEPT ![m][n] = "PENDING"]
            /\ memRows' = [memRows EXCEPT ![m].current = n, ![m].pending = n]
       ELSE UNCHANGED <<memVersions, memRows>>
    /\ MemReply(t)

-----------------------------------------------------------------------------
(* Decisions.                                                              *)

\* approve and reject load the memory, then the version.
MemDecideLoad(t, m) ==
    /\ memThreads[t].pc = "idle"
    /\ MemExists(m)
    /\ memRows[m].pending # 0
    /\ MemLoads(t, m, "judge")
    /\ UNCHANGED <<memRows, memVersions>>

\* Any version but the pending one is refused.
MemJudge(t, pc) ==
    LET q == memThreads[t] IN
    /\ q.pc = "judge"
    /\ IF memVersions[q.memory][q.loaded.pending] = "PENDING"
       THEN MemGoes(t, [q EXCEPT !.pc = pc])
       ELSE MemReply(t)
    /\ UNCHANGED <<memRows, memVersions>>

\* A mutant: a version is updated whatever it says by now.
MemMayDecide_Any(t) == MemExists(memThreads[t].memory)

\* trg_memory_versions_immutable: the UPDATE of a version that is no longer
\* pending is refused (and one that has gone with its memory is not found).
MemMayDecide(t) ==
    memVersions[memThreads[t].memory][memThreads[t].loaded.pending] = "PENDING"

\* The state is written when it differs from the one that was loaded; only a
\* memory that never had an active version is rejected itself.
MemDecide(t, pc, state) ==
    LET q == memThreads[t]  v == q.loaded.pending  m == q.memory
        says == IF pc = "confirm" \/ q.loaded.active = 0 THEN state ELSE q.loaded.state IN
    /\ q.pc = pc
    /\ IF MemMayDecide(t)
       THEN /\ memVersions' = [memVersions EXCEPT ![m][v] = state]
            /\ memRows' = [memRows EXCEPT
                    ![m].pending = 0,
                    ![m].active = IF pc = "confirm" THEN v ELSE @,
                    ![m].state = IF says = q.loaded.state THEN @ ELSE says]
       ELSE UNCHANGED <<memVersions, memRows>>
    /\ MemReply(t)

-----------------------------------------------------------------------------
(* Archiving and deleting.                                                 *)

MemArchiveLoad(t, m) ==
    /\ memThreads[t].pc = "idle"
    /\ MemExists(m)
    /\ memRows[m].pending = 0 /\ memRows[m].active # 0
    /\ memRows[m].current < MemMaxVersion
    /\ MemLoads(t, m, "archive")
    /\ UNCHANGED <<memRows, memVersions>>

MemArchive(t) ==
    LET q == memThreads[t]  n == q.loaded.current + 1  m == q.memory IN
    /\ q.pc = "archive"
    /\ IF MemCanInsert(t)
       THEN /\ memVersions' = [memVersions EXCEPT ![m][n] = "ARCHIVED"]
            /\ memRows' = [memRows EXCEPT ![m].current = n,
                    ![m].state = IF q.loaded.state = "ARCHIVED" THEN @ ELSE "ARCHIVED"]
       ELSE UNCHANGED <<memVersions, memRows>>
    /\ MemReply(t)

\* A mutant: the versions are kept.
MemDelete_Kept(m) ==
    /\ MemExists(m)
    /\ memRows' = [memRows EXCEPT ![m] = MemDeleted]
    /\ UNCHANGED <<memVersions, memThreads>>

\* The versions go with the row (ON DELETE CASCADE).
MemDelete(m) ==
    /\ MemExists(m)
    /\ memRows' = [memRows EXCEPT ![m] = MemDeleted]
    /\ memVersions' = [memVersions EXCEPT ![m] = [n \in MemNumbers |-> "none"]]
    /\ UNCHANGED memThreads

\* A locked or failing database: the transaction is rolled back.
MemDatabaseFails(t) ==
    /\ memThreads[t].pc # "idle"
    /\ MemReply(t)
    /\ UNCHANGED <<memRows, memVersions>>

-----------------------------------------------------------------------------

MemInit ==
    /\ memRows = [m \in MemIds |-> MemUnused]
    /\ memVersions = [m \in MemIds |-> [n \in MemNumbers |-> "none"]]
    /\ memThreads = [t \in MemThreads |-> MemIdle]

MemStep(t) ==
    \/ \E m \in MemIds : MemUpdate(t, m) \/ MemDecideLoad(t, m) \/ MemArchiveLoad(t, m)
    \/ MemPropose(t)
    \/ MemJudge(t, "confirm") \/ MemJudge(t, "reject")
    \/ MemDecide(t, "confirm", "CONFIRMED") \/ MemDecide(t, "reject", "REJECTED")
    \/ MemArchive(t)
    \/ MemDatabaseFails(t)

MemNext ==
    \/ \E m \in MemIds : MemCreate(m) \/ MemDelete(m)
    \/ \E t \in MemThreads : MemStep(t)

MemSpec == MemInit /\ [][MemNext]_memVars

-----------------------------------------------------------------------------
(* validate_memory_invariants, which every backup and every restore runs.  *)

MemPointersHold(m) ==
    LET r == memRows[m] IN
    /\ r.active = 0 \/ memVersions[m][r.active] = "CONFIRMED"
    /\ r.pending = 0 \/ memVersions[m][r.pending] = "PENDING"

MemHas(m, states) == \E n \in MemNumbers : memVersions[m][n] \in states

MemStateHolds(m) ==
    LET r == memRows[m] IN
    /\ r.state = "PENDING" => r.active = 0 /\ r.pending # 0
    /\ r.state = "CONFIRMED" => r.active # 0
    /\ r.state = "REJECTED" => r.active = 0 /\ r.pending = 0 /\ MemHas(m, {"REJECTED"})
    /\ r.state = "ARCHIVED" =>
          /\ r.pending = 0 /\ MemHas(m, {"ARCHIVED"})
          /\ r.active # 0 \/ ~MemHas(m, MemStates \ {"ARCHIVED"})

-----------------------------------------------------------------------------
(* Properties.                                                             *)

\* confirmed_versions_for_context: the version a chat turn is told, or 0.
MemContext(m) ==
    IF /\ MemExists(m) /\ memRows[m].state = "CONFIRMED"
       /\ memRows[m].active # 0
       /\ memVersions[m][memRows[m].active] = "CONFIRMED"
    THEN memRows[m].active ELSE 0

\* A memory's versions are numbered without a gap up to the row's current
\* version, for updates and archives that raced too, and the row's active and
\* pending ids name a confirmed and a pending one of them, for decisions that
\* raced too; a deleted memory leaves no version behind, not even one that a
\* slower request was about to insert or to decide.
MemHistoryIsComplete ==
    \A m \in MemIds :
        /\ \A n \in MemNumbers :
              memVersions[m][n] # "none" <=> MemExists(m) /\ n <= memRows[m].current
        /\ MemExists(m) => MemPointersHold(m)

\* A confirmed value stays what the chat is told until a newer one is approved:
\* whatever requests overlap, a version enters the chat context by the owner's
\* approval of that version, and by nothing else.
MemOnlyApprovalsShow ==
    [][\A m \in MemIds :
          MemContext(m)' \notin {0, MemContext(m)} =>
              \E t \in MemThreads :
                  /\ memThreads[t].pc = "confirm"
                  /\ memThreads'[t].pc = "idle"
                  /\ memThreads[t].memory = m
                  /\ memThreads[t].loaded.pending = MemContext(m)']_memVars

\* The application's own recovery check accepts every row the memory service
\* leaves behind: otherwise backup and restore refuse the database (checked to
\* fail: an update of a rejected or of an archived memory leaves its state).
MemRecoverable ==
    \A m \in MemIds : MemExists(m) => MemPointersHold(m) /\ MemStateHolds(m)

=============================================================================

-------------------------- MODULE OAuthCredentials --------------------------
(***************************************************************************)
(* Connecting Google, disconnecting it, and handing out access tokens      *)
(* (D64), for one of the three credential subjects.                        *)
(*                                                                         *)
(* Three stores that no common lock covers: the flow states (a dict), the  *)
(* credential's row (the refresh token, encrypted), and the access token   *)
(* cached in the token manager, whose lock is held through the whole       *)
(* refresh, Google's answer included.  Google is a fourth: what it has     *)
(* revoked no longer refreshes.                                            *)
(*                                                                         *)
(* A thread keeps the row it loaded: SQLAlchemy writes the columns that    *)
(* differ from what was loaded, and fails when the row has gone.           *)
(* Abstracted: a token is the grant it belongs to and how often it was     *)
(* rotated; lifetimes lapse at any time (OaLapse); the cipher is exact and *)
(* the configuration complete.                                             *)
(***************************************************************************)
EXTENDS Integers, FiniteSets

CONSTANTS
    OaThreads,
    OaFlows,        \* state values, never issued twice
    OaGrants,       \* consents the owner gives Google, one per connection
    OaNone,
    OaMaxPending,   \* OAUTH_FLOW_MAX_PENDING
    OaMaxRotations  \* bound: refresh tokens Google rotates

ASSUME OaConstantsAssumption ==
    /\ OaNone \notin OaThreads \cup OaGrants
    /\ OaMaxRotations \in Nat

VARIABLES
    oaFlows,        \* "unissued", "pending", "used" or "lapsed"
    oaRow,          \* the credential, or OaNoRow
    oaCache,        \* the cached access token's grant, or OaNone
    oaFresh,        \* is the cached token far enough from its expiry?
    oaLock,         \* the thread in resolve_access_token, or OaNone
    oaThreads,
    oaGranted,      \* at Google: grants the owner has given
    oaRevoked,      \* at Google: grants that are revoked
    oaRotations

oaVars == <<oaFlows, oaRow, oaCache, oaFresh, oaLock, oaThreads,
            oaGranted, oaRevoked, oaRotations>>

-----------------------------------------------------------------------------
(* Types.                                                                  *)

OaNoRow == [grant |-> OaNone, turn |-> 0, status |-> "none"]

OaRows == {OaNoRow} \cup
    [grant : OaGrants, turn : 0..OaMaxRotations,
     status : {"active", "reauthorization_required"}]

OaIdle == [pc |-> "idle", loaded |-> OaNoRow, grant |-> OaNone]

OaThread ==
    [pc : {"idle", "exchange", "existing", "save", "seed", "revoke",
           "delete", "clear", "load", "refresh", "rotate", "mark"},
     loaded : OaRows, grant : OaGrants \cup {OaNone}]

OaTypeOK ==
    /\ oaFlows \in [OaFlows -> {"unissued", "pending", "used", "lapsed"}]
    /\ oaRow \in OaRows
    /\ oaCache \in OaGrants \cup {OaNone}
    /\ oaFresh \in BOOLEAN
    /\ oaLock \in OaThreads \cup {OaNone}
    /\ oaThreads \in [OaThreads -> OaThread]
    /\ oaGranted \subseteq OaGrants
    /\ oaRevoked \subseteq OaGrants
    /\ oaRotations \in 0..OaMaxRotations

OaGoes(t, q) == oaThreads' = [oaThreads EXCEPT ![t] = q]
OaStep(t, pc) == OaGoes(t, [oaThreads[t] EXCEPT !.pc = pc])
OaReply(t) == OaGoes(t, OaIdle)

-----------------------------------------------------------------------------
(* Connecting.                                                             *)

\* start_authorization: a full store refuses.
OaStart ==
    /\ Cardinality({f \in OaFlows : oaFlows[f] = "pending"}) < OaMaxPending
    /\ \E f \in OaFlows :
          /\ oaFlows[f] = "unissued"
          /\ oaFlows' = [oaFlows EXCEPT ![f] = "pending"]
    /\ UNCHANGED <<oaRow, oaCache, oaFresh, oaLock, oaThreads,
                   oaGranted, oaRevoked, oaRotations>>

\* complete_authorization: the state is popped whatever follows, and then
\* the owner may turn out to have declined.
OaCallback(t) ==
    /\ oaThreads[t].pc = "idle"
    /\ \E f \in OaFlows :
          /\ oaFlows[f] = "pending"
          /\ oaFlows' = [oaFlows EXCEPT ![f] = "used"]
          /\ OaStep(t, "exchange") \/ OaReply(t)
    /\ UNCHANGED <<oaRow, oaCache, oaFresh, oaLock, oaGranted, oaRevoked, oaRotations>>

\* Google exchanges the code for a grant with a refresh token, for an access
\* token alone, or not at all.
OaExchange(t) ==
    /\ oaThreads[t].pc = "exchange"
    /\ \/ OaReply(t) /\ UNCHANGED oaGranted
       \/ OaStep(t, "existing") /\ UNCHANGED oaGranted
       \/ \E g \in OaGrants \ oaGranted :
             /\ oaGranted' = oaGranted \cup {g}
             /\ OaGoes(t, [oaThreads[t] EXCEPT !.pc = "existing", !.grant = g])
    /\ UNCHANGED <<oaFlows, oaRow, oaCache, oaFresh, oaLock, oaRevoked,
                   oaRotations>>

\* The existing row is loaded; it must do when Google gave no refresh token.
OaExisting(t) ==
    LET q == oaThreads[t] IN
    /\ q.pc = "existing"
    /\ IF q.grant = OaNone /\ oaRow.status # "active"
       THEN OaReply(t)
       ELSE OaGoes(t, [q EXCEPT !.pc = "save", !.loaded = oaRow])
    /\ UNCHANGED <<oaFlows, oaRow, oaCache, oaFresh, oaLock, oaGranted,
                   oaRevoked, oaRotations>>

\* save_active and commit.  A row that was loaded and has gone meanwhile is
\* an error; without a refresh token nothing differs from what was loaded;
\* a status that was loaded active is not written.
OaSave(t) ==
    LET q == oaThreads[t] IN
    /\ q.pc = "save"
    /\ IF q.loaded # OaNoRow /\ oaRow = OaNoRow
       THEN OaReply(t) /\ UNCHANGED oaRow
       ELSE IF q.grant = OaNone
       THEN /\ OaGoes(t, [q EXCEPT !.pc = "seed", !.grant = q.loaded.grant])
            /\ UNCHANGED oaRow
       ELSE /\ oaRow' = [grant |-> q.grant, turn |-> 0,
                         status |-> IF q.loaded.status = "active"
                                    THEN oaRow.status ELSE "active"]
            /\ OaStep(t, "seed")
    /\ UNCHANGED <<oaFlows, oaCache, oaFresh, oaLock, oaGranted, oaRevoked,
                   oaRotations>>

\* seed_access_token, after the commit.
OaSeed(t) ==
    /\ oaThreads[t].pc = "seed"
    /\ oaLock = OaNone
    /\ oaCache' = oaThreads[t].grant
    /\ oaFresh' = TRUE
    /\ OaReply(t)
    /\ UNCHANGED <<oaFlows, oaRow, oaLock, oaGranted, oaRevoked, oaRotations>>

-----------------------------------------------------------------------------
(* Disconnecting.                                                          *)

OaDisconnect(t) ==
    /\ oaThreads[t].pc = "idle"
    /\ OaGoes(t, [OaIdle EXCEPT !.loaded = oaRow,
                     !.pc = IF oaRow = OaNoRow THEN "clear" ELSE "revoke"])
    /\ UNCHANGED <<oaFlows, oaRow, oaCache, oaFresh, oaLock, oaGranted,
                   oaRevoked, oaRotations>>

\* Google refuses what is revoked already, and its answer may be lost; then
\* the row stays.
OaRevoke(t) ==
    LET g == oaThreads[t].loaded.grant IN
    /\ oaThreads[t].pc = "revoke"
    /\ \/ OaReply(t) /\ oaRevoked' \in {oaRevoked, oaRevoked \cup {g}}
       \/ /\ g \notin oaRevoked
          /\ oaRevoked' = oaRevoked \cup {g}
          /\ OaStep(t, "delete")
    /\ UNCHANGED <<oaFlows, oaRow, oaCache, oaFresh, oaLock, oaGranted,
                   oaRotations>>

\* The row of the profile is deleted, whatever it holds by now.
OaDelete(t) ==
    /\ oaThreads[t].pc = "delete"
    /\ oaRow' = OaNoRow
    /\ OaStep(t, "clear")
    /\ UNCHANGED <<oaFlows, oaCache, oaFresh, oaLock, oaGranted, oaRevoked,
                   oaRotations>>

OaClear(t) ==
    /\ oaThreads[t].pc = "clear"
    /\ oaLock = OaNone
    /\ oaCache' = OaNone
    /\ OaReply(t)
    /\ UNCHANGED <<oaFlows, oaRow, oaFresh, oaLock, oaGranted, oaRevoked,
                   oaRotations>>

-----------------------------------------------------------------------------
(* Handing out tokens.  From OaResolve to its reply a thread holds the     *)
(* token manager's lock.                                                   *)

\* A mutant: a refresh does not wait for another one.
OaResolve_Unlocked(t) ==
    /\ oaThreads[t].pc = "idle"
    /\ oaCache = OaNone \/ ~oaFresh
    /\ OaStep(t, "load")
    /\ UNCHANGED <<oaFlows, oaRow, oaCache, oaFresh, oaLock, oaGranted,
                   oaRevoked, oaRotations>>

\* A fresh cached token is handed out at once, and changes nothing.
OaResolve(t) ==
    /\ oaThreads[t].pc = "idle"
    /\ oaLock = OaNone
    /\ oaCache = OaNone \/ ~oaFresh
    /\ oaLock' = t
    /\ OaStep(t, "load")
    /\ UNCHANGED <<oaFlows, oaRow, oaCache, oaFresh, oaGranted, oaRevoked,
                   oaRotations>>

OaUnlocked == oaLock' = OaNone

\* A refresh token past its own expiry is marked, not sent.
OaLoad(t) ==
    /\ oaThreads[t].pc = "load"
    /\ IF oaRow.status # "active"
       THEN OaReply(t) /\ OaUnlocked
       ELSE /\ \E pc \in {"refresh", "mark"} :
                  OaGoes(t, [oaThreads[t] EXCEPT !.pc = pc, !.loaded = oaRow])
            /\ UNCHANGED oaLock
    /\ UNCHANGED <<oaFlows, oaRow, oaCache, oaFresh, oaGranted, oaRevoked,
                   oaRotations>>

\* Google's answer: an access token, maybe with the next refresh token; that
\* the grant is invalid or its scope drifted; or nothing usable.
OaRefresh(t) ==
    LET q == oaThreads[t] IN
    /\ q.pc = "refresh"
    /\ \/ /\ OaReply(t) /\ OaUnlocked
          /\ UNCHANGED <<oaCache, oaFresh, oaRotations>>
       \/ /\ OaStep(t, "mark")
          /\ UNCHANGED <<oaCache, oaFresh, oaLock, oaRotations>>
       \/ /\ q.loaded.grant \notin oaRevoked
          /\ oaCache' = q.loaded.grant /\ oaFresh' = TRUE
          /\ OaReply(t) /\ OaUnlocked
          /\ UNCHANGED oaRotations
       \/ /\ q.loaded.grant \notin oaRevoked
          /\ oaRotations < OaMaxRotations
          /\ oaRotations' = oaRotations + 1
          /\ OaStep(t, "rotate")
          /\ UNCHANGED <<oaCache, oaFresh, oaLock>>
    /\ UNCHANGED <<oaFlows, oaRow, oaGranted, oaRevoked>>

\* The new refresh token is committed before the access token is cached.
OaRotate(t) ==
    LET q == oaThreads[t] IN
    /\ q.pc = "rotate"
    /\ IF oaRow = OaNoRow
       THEN UNCHANGED <<oaRow, oaCache, oaFresh>>
       ELSE /\ oaRow' = [oaRow EXCEPT !.grant = q.loaded.grant,
                                      !.turn = q.loaded.turn + 1]
            /\ oaCache' = q.loaded.grant
            /\ oaFresh' = TRUE
    /\ OaReply(t) /\ OaUnlocked
    /\ UNCHANGED <<oaFlows, oaGranted, oaRevoked, oaRotations>>

\* mark_reauthorization_required, commit, clear; a row that has gone raises
\* before the cache is cleared.
OaMark(t) ==
    /\ oaThreads[t].pc = "mark"
    /\ IF oaRow = OaNoRow
       THEN UNCHANGED <<oaRow, oaCache>>
       ELSE /\ oaRow' = [oaRow EXCEPT !.status = "reauthorization_required"]
            /\ oaCache' = OaNone
    /\ OaReply(t) /\ OaUnlocked
    /\ UNCHANGED <<oaFlows, oaFresh, oaGranted, oaRevoked, oaRotations>>

-----------------------------------------------------------------------------
(* Time and Google.                                                        *)

\* A pending state, or the cached access token, reaches its end.
OaLapse ==
    /\ \/ \E f \in OaFlows :
             /\ oaFlows[f] = "pending"
             /\ oaFlows' = [oaFlows EXCEPT ![f] = "lapsed"]
             /\ UNCHANGED oaFresh
       \/ oaFresh /\ oaFresh' = FALSE /\ UNCHANGED oaFlows
    /\ UNCHANGED <<oaRow, oaCache, oaLock, oaThreads, oaGranted, oaRevoked,
                   oaRotations>>

\* The owner withdraws a grant in the Google account itself.
OaWithdraw ==
    /\ \E g \in oaGranted \ oaRevoked : oaRevoked' = oaRevoked \cup {g}
    /\ UNCHANGED <<oaFlows, oaRow, oaCache, oaFresh, oaLock, oaThreads,
                   oaGranted, oaRotations>>

OaInit ==
    /\ oaFlows = [f \in OaFlows |-> "unissued"]
    /\ oaRow = OaNoRow
    /\ oaCache = OaNone /\ oaFresh = FALSE /\ oaLock = OaNone
    /\ oaThreads = [t \in OaThreads |-> OaIdle]
    /\ oaGranted = {} /\ oaRevoked = {} /\ oaRotations = 0

OaNext ==
    \/ OaStart
    \/ \E t \in OaThreads :
          \/ OaCallback(t) \/ OaExchange(t) \/ OaExisting(t) \/ OaSave(t) \/ OaSeed(t)
          \/ OaDisconnect(t) \/ OaRevoke(t) \/ OaDelete(t) \/ OaClear(t)
          \/ OaResolve(t) \/ OaLoad(t) \/ OaRefresh(t) \/ OaRotate(t) \/ OaMark(t)
    \/ OaLapse
    \/ OaWithdraw

OaSpec == OaInit /\ [][OaNext]_oaVars

-----------------------------------------------------------------------------
(* Properties.                                                             *)

\* A refresh overwrites no later rotation of the grant it loaded.
OaRotationNotLost ==
    \A t \in OaThreads :
        oaThreads[t].pc = "rotate" /\ oaThreads'[t].pc = "idle"
            /\ oaRow.grant = oaThreads[t].loaded.grant
          => oaRow.turn = oaThreads[t].loaded.turn

\* A token that a refresh caches although the row is gone is cleared by the
\* request that deleted the row.
OaRefreshIsCleared ==
    oaRow' = OaNoRow /\ oaCache' # oaCache /\ oaCache' # OaNone /\ oaLock # OaNone
      => \E t \in OaThreads : oaThreads[t].pc = "clear"

\* A process lock prevents concurrent refresh duplication: what a refresh
\* leaves, in the row or in the cache, neither replaces a later rotation of
\* its grant nor survives a row that was deleted meanwhile.
OaRefreshIsSafe == [][OaRotationNotLost /\ OaRefreshIsCleared]_oaVars

\* "Explicit disconnect revokes Google access before deleting local
\* ciphertext" (checked to fail: the row deleted need not be the one whose
\* token was revoked).
OaRevokedBeforeDeleted ==
    [][oaRow # OaNoRow /\ oaRow' = OaNoRow => oaRow.grant \in oaRevoked]_oaVars

=============================================================================

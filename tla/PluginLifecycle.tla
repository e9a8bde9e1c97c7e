---------------------------- MODULE PluginLifecycle ----------------------------
(***************************************************************************)
(* The life of one plugin capability (D54-D58): admitted by the owner,     *)
(* loaded, exposed as a module, bound to a permission, activated, captured *)
(* in the registry of a request, and executed through its wrapper.         *)
(*                                                                         *)
(* Each stage keeps its own process-wide store behind its own lock, and a  *)
(* stage asks the stages before it whether they still hold; nothing tells  *)
(* a later stage that an earlier one changed.  Loaded, exposed and bound   *)
(* subjects are never taken back, so what a fresh look upstream can find   *)
(* changed is the owner's decision: PlgCurrent stands for the whole chain  *)
(* of lookups.  Every request enables the configured plugins anew before   *)
(* it captures its registry.                                               *)
(*                                                                         *)
(* Abstracted: the subject's metadata never changes and no other subject   *)
(* takes its identifiers or fills a store; discovery finds it.             *)
(***************************************************************************)
EXTENDS Integers, FiniteSets

CONSTANTS
    PlgThreads,     \* request threads
    PlgTokens,      \* activation tokens, each a new object
    PlgNone

ASSUME PlgAssumption == PlgNone \notin PlgTokens /\ PlgNone \notin PlgThreads

VARIABLES
    plgDecision,    \* the owner's governance decision
    plgLoaded,
    plgExposed,
    plgBound,
    plgActive,      \* the current activation's token, or PlgNone
    plgMade,        \* tokens of every activation so far
    plgLoading,     \* the thread that holds the load lock, or PlgNone
    plgActivating,  \* the thread that holds the activation lock, or PlgNone
    plgThreads,
    plgAdmitted     \* history: threads whose call saw an admitted moment

plgVars == <<plgDecision, plgLoaded, plgExposed, plgBound, plgActive,
             plgMade, plgLoading, plgActivating, plgThreads, plgAdmitted>>

-----------------------------------------------------------------------------
(* Types.                                                                  *)

\* A request enables the plugin stage by stage, looks at the activation it
\* finds ("handles" to "remove"), captures its registry, and executes.
PlgPcs == {"idle", "load", "construct", "expose", "bind", "activate", "add",
           "handles", "validate", "upstream", "remove", "capture", "ready",
           "invoke", "run"}

\* token: the wrapper's; goal: what a look at an activation is for.  History:
\* was the activation over when its wrapper was called (dead)?
PlgIdle == [pc |-> "idle", token |-> PlgNone, goal |-> "snapshot", dead |-> FALSE]

PlgTypeOK ==
    /\ plgDecision \in {"none", "admitted", "rejected", "revoked"}
    /\ {plgLoaded, plgExposed, plgBound} \subseteq BOOLEAN
    /\ plgBound => plgExposed
    /\ plgExposed => plgLoaded
    /\ plgMade \subseteq PlgTokens
    /\ plgActive \in plgMade \cup {PlgNone}
    /\ plgActive # PlgNone => plgBound
    /\ {plgLoading, plgActivating} \subseteq PlgThreads \cup {PlgNone}
    /\ plgThreads \in [PlgThreads ->
          [pc : PlgPcs, token : plgMade \cup {PlgNone},
           goal : {"snapshot", "execute"}, dead : BOOLEAN]]
    /\ \A t \in PlgThreads :
          /\ plgThreads[t].pc = "construct" <=> plgLoading = t
          /\ plgThreads[t].pc = "add" <=> plgActivating = t
    /\ plgAdmitted \subseteq PlgThreads

PlgGoes(t, q) == plgThreads' = [plgThreads EXCEPT ![t] = q]
PlgStep(t, pc) == PlgGoes(t, [plgThreads[t] EXCEPT !.pc = pc])
PlgReply(t) == PlgGoes(t, PlgIdle)

PlgUpstream == <<plgDecision, plgLoaded, plgExposed, plgBound>>
PlgLocks == <<plgLoading, plgActivating>>

\* _resolve_current_subject: admitted, and all that was built is still there.
PlgCurrent == plgDecision = "admitted"

-----------------------------------------------------------------------------
(* The owner's decisions.                                                  *)

\* admit, for an enabled plugin, at the start of every request: whatever was
\* decided before.  Bound: an activation for every request under way.
PlgAdmit(t) ==
    /\ plgThreads[t].pc = "idle"
    /\ Cardinality(PlgTokens \ plgMade) >= Cardinality(PlgThreads)
    /\ plgDecision' = "admitted"
    /\ plgAdmitted' = PlgThreads
    /\ PlgStep(t, "load")
    /\ UNCHANGED <<plgLoaded, plgExposed, plgBound, plgActive, plgMade,
                   PlgLocks>>

\* reject: before any other decision.
PlgReject ==
    /\ plgDecision = "none"
    /\ plgDecision' = "rejected"
    /\ UNCHANGED <<plgLoaded, plgExposed, plgBound, plgActive, plgMade,
                   PlgLocks, plgThreads, plgAdmitted>>

\* revoke touches nothing downstream.
PlgRevoke ==
    /\ plgDecision = "admitted"
    /\ plgDecision' = "revoked"
    /\ UNCHANGED <<plgLoaded, plgExposed, plgBound, plgActive, plgMade,
                   PlgLocks, plgThreads, plgAdmitted>>

-----------------------------------------------------------------------------
(* Loading, exposing, binding.                                             *)

\* load, up to the loader: the lock is kept through the construction.
PlgLoad(t) ==
    /\ plgThreads[t].pc = "load"
    /\ plgLoading = PlgNone
    /\ \/ ~PlgCurrent /\ PlgReply(t) /\ UNCHANGED plgLoading
       \/ PlgCurrent /\ plgLoaded /\ PlgStep(t, "expose") /\ UNCHANGED plgLoading
       \/ PlgCurrent /\ ~plgLoaded /\ PlgStep(t, "construct") /\ plgLoading' = t
    /\ UNCHANGED <<PlgUpstream, plgActive, plgMade, plgActivating, plgAdmitted>>

\* The factory fails, or its plugin is kept: nothing looks at the decision again.
PlgConstruct(t) ==
    /\ plgThreads[t].pc = "construct"
    /\ plgLoading' = PlgNone
    /\ \/ PlgReply(t) /\ UNCHANGED plgLoaded
       \/ plgLoaded' = TRUE /\ PlgStep(t, "expose")
    /\ UNCHANGED <<plgDecision, plgExposed, plgBound, plgActive, plgMade,
                   plgActivating, plgAdmitted>>

PlgExpose(t) ==
    /\ plgThreads[t].pc = "expose"
    /\ \/ ~PlgCurrent /\ PlgReply(t) /\ UNCHANGED plgExposed
       \/ PlgCurrent /\ plgExposed' = TRUE /\ PlgStep(t, "bind")
    /\ UNCHANGED <<plgDecision, plgLoaded, plgBound, plgActive, plgMade,
                   PlgLocks, plgAdmitted>>

PlgBind(t) ==
    /\ plgThreads[t].pc = "bind"
    /\ \/ ~PlgCurrent /\ PlgReply(t) /\ UNCHANGED plgBound
       \/ PlgCurrent /\ plgBound' = TRUE /\ PlgStep(t, "activate")
    /\ UNCHANGED <<plgDecision, plgLoaded, plgExposed, plgActive, plgMade,
                   PlgLocks, plgAdmitted>>

-----------------------------------------------------------------------------
(* Activation.                                                             *)

\* activate looks upstream first, under its lock ...
PlgActivate(t) ==
    /\ plgThreads[t].pc = "activate"
    /\ plgActivating = PlgNone
    /\ \/ ~PlgCurrent /\ PlgReply(t) /\ UNCHANGED plgActivating
       \/ PlgCurrent /\ PlgStep(t, "add") /\ plgActivating' = t
    /\ UNCHANGED <<PlgUpstream, plgActive, plgMade, plgLoading, plgAdmitted>>

\* ... and keeps an activation it finds, or makes one with a new token.
PlgAdd(t) ==
    /\ plgThreads[t].pc = "add"
    /\ \/ plgActive # PlgNone /\ UNCHANGED <<plgActive, plgMade>>
       \/ /\ plgActive = PlgNone
          /\ \E k \in PlgTokens \ plgMade :
                plgActive' = k /\ plgMade' = plgMade \cup {k}
    /\ PlgStep(t, "handles")
    /\ plgActivating' = PlgNone
    /\ UNCHANGED <<PlgUpstream, plgLoading, plgAdmitted>>

PlgDeactivate ==
    /\ plgActivating = PlgNone
    /\ plgActive # PlgNone
    /\ plgActive' = PlgNone
    /\ UNCHANGED <<PlgUpstream, plgMade, PlgLocks, plgThreads, plgAdmitted>>

-----------------------------------------------------------------------------
(* Looking at an activation: runtime_snapshot before it captures, and the  *)
(* wrapper before it delegates.                                            *)

\* runtime_snapshot, up to _validation_handles.
PlgHandles(t) ==
    /\ plgThreads[t].pc = "handles"
    /\ PlgGoes(t, [plgThreads[t] EXCEPT
           !.pc = IF plgActive = PlgNone THEN "capture" ELSE "validate",
           !.token = plgActive])
    /\ UNCHANGED <<PlgUpstream, plgActive, plgMade, PlgLocks, plgAdmitted>>

\* Where a look ends: a snapshot goes on, a call is refused.
PlgLookFails(t) ==
    IF plgThreads[t].goal = "snapshot" THEN PlgStep(t, "capture") ELSE PlgReply(t)

\* A mutant: the record is compared and the token is not.
PlgValidate_ByRecord(t) ==
    /\ plgThreads[t].pc = "validate"
    /\ IF plgActive # PlgNone THEN PlgStep(t, "upstream") ELSE PlgLookFails(t)
    /\ UNCHANGED <<PlgUpstream, plgActive, plgMade, PlgLocks, plgAdmitted>>

\* _is_activation_current, up to is_current_token.
PlgValidate(t) ==
    /\ plgThreads[t].pc = "validate"
    /\ IF plgActive = plgThreads[t].token THEN PlgStep(t, "upstream") ELSE PlgLookFails(t)
    /\ UNCHANGED <<PlgUpstream, plgActive, plgMade, PlgLocks, plgAdmitted>>

\* _resolve_current_materialization.
PlgLookUpstream(t) ==
    /\ plgThreads[t].pc = "upstream"
    /\ PlgStep(t, IF ~PlgCurrent THEN "remove"
                  ELSE IF plgThreads[t].goal = "snapshot" THEN "capture" ELSE "invoke")
    /\ UNCHANGED <<PlgUpstream, plgActive, plgMade, PlgLocks, plgAdmitted>>

\* A mutant: whatever is active by now is removed.
PlgRemove_Any(t) ==
    /\ plgThreads[t].pc = "remove"
    /\ plgActive' = PlgNone
    /\ PlgLookFails(t)
    /\ UNCHANGED <<PlgUpstream, plgMade, PlgLocks, plgAdmitted>>

\* remove_if_matches: only the activation that was looked at.
PlgRemove(t) ==
    /\ plgThreads[t].pc = "remove"
    /\ plgActive' = IF plgActive = plgThreads[t].token THEN PlgNone ELSE plgActive
    /\ PlgLookFails(t)
    /\ UNCHANGED <<PlgUpstream, plgMade, PlgLocks, plgAdmitted>>

\* _runtime_snapshot: the request's registry is made, for as long as it lasts.
PlgCapture(t) ==
    /\ plgThreads[t].pc = "capture"
    /\ PlgGoes(t, [plgThreads[t] EXCEPT !.pc = "ready", !.token = plgActive])
    /\ UNCHANGED <<PlgUpstream, plgActive, plgMade, PlgLocks, plgAdmitted>>

-----------------------------------------------------------------------------
(* Execution.                                                              *)

\* The request has no use for the plugin, or its registry lacks it.
PlgDone(t) ==
    /\ plgThreads[t].pc = "ready"
    /\ PlgReply(t)
    /\ UNCHANGED <<PlgUpstream, plgActive, plgMade, PlgLocks, plgAdmitted>>

\* ActivatedPluginModuleAdapter.execute.
PlgExecute(t) ==
    /\ plgThreads[t].pc = "ready"
    /\ plgThreads[t].token # PlgNone
    /\ PlgGoes(t, [plgThreads[t] EXCEPT !.pc = "validate", !.goal = "execute",
                      !.dead = plgActive # plgThreads[t].token])
    /\ plgAdmitted' = IF plgDecision = "admitted" THEN plgAdmitted \cup {t}
                      ELSE plgAdmitted \ {t}
    /\ UNCHANGED <<PlgUpstream, plgActive, plgMade, PlgLocks>>

\* _invoke_active_exposure looks upstream once more; then no lock is held.
PlgInvoke(t) ==
    /\ plgThreads[t].pc = "invoke"
    /\ IF PlgCurrent THEN PlgStep(t, "run") ELSE PlgReply(t)
    /\ UNCHANGED <<PlgUpstream, plgActive, plgMade, PlgLocks, plgAdmitted>>

\* plugin.execute.
PlgRun(t) ==
    /\ plgThreads[t].pc = "run"
    /\ PlgReply(t)
    /\ UNCHANGED <<PlgUpstream, plgActive, plgMade, PlgLocks, plgAdmitted>>

-----------------------------------------------------------------------------

\* A fresh process: all of the stores are in memory.
PlgInit ==
    /\ plgDecision = "none"
    /\ plgLoaded = FALSE
    /\ plgExposed = FALSE
    /\ plgBound = FALSE
    /\ plgActive = PlgNone
    /\ plgMade = {}
    /\ plgLoading = PlgNone
    /\ plgActivating = PlgNone
    /\ plgThreads = [t \in PlgThreads |-> PlgIdle]
    /\ plgAdmitted = {}

PlgNext ==
    \/ PlgReject \/ PlgRevoke \/ PlgDeactivate
    \/ \E t \in PlgThreads :
          \/ PlgAdmit(t) \/ PlgLoad(t) \/ PlgConstruct(t) \/ PlgExpose(t)
          \/ PlgBind(t) \/ PlgActivate(t) \/ PlgAdd(t)
          \/ PlgHandles(t) \/ PlgValidate(t) \/ PlgLookUpstream(t) \/ PlgRemove(t)
          \/ PlgCapture(t) \/ PlgDone(t) \/ PlgExecute(t) \/ PlgInvoke(t) \/ PlgRun(t)

PlgSpec == PlgInit /\ [][PlgNext]_plgVars

-----------------------------------------------------------------------------
(* Properties.                                                             *)

\* A captured wrapper is no authority.  One whose activation was over when it
\* was called does not reach the plugin, although an activation of the same
\* metadata may be current by then; and no call reaches the plugin unless the
\* subject was admitted at some moment of the call.
PlgCallsAreCurrent ==
    \A t \in PlgThreads :
        /\ plgThreads[t].pc \in {"invoke", "run"} => ~plgThreads[t].dead
        /\ plgThreads[t].pc = "run" => t \in plgAdmitted

\* A stale look never takes away an activation made after it: what removes an
\* activation is a deactivation or a look at that very activation.
PlgRemovesWhatItSaw ==
    [][plgActive # PlgNone /\ plgActive' = PlgNone
        => \/ plgThreads' = plgThreads
           \/ \E t \in PlgThreads :
                 plgThreads[t].token = plgActive /\ plgThreads'[t] # plgThreads[t]]_plgVars

=============================================================================

------------------------------- MODULE MCStores -------------------------------
(* The stores the owner's requests share, one component at a time: they       *)
(* share no state, so a run explores the behaviours of each component in      *)
(* Lanes and never mixes them.  "execution" and "trust" are the same module:  *)
(* the first explores the approvals and what is captured of them, the second  *)
(* the owner's decisions on what one R0 execution after the other left.       *)
EXTENDS ProjectUpdates, Memories, ExperienceTrust, PluginLifecycle,
        FirstUse, KnowledgeScan, TLC

CONSTANT Lanes      \* the components this run explores

VARIABLE lane

\* Everything but the variables of the component explored.
Others(mine) ==
    /\ mine # "projects" => UNCHANGED vars
    /\ mine # "memories" => UNCHANGED memVars
    /\ mine # "execution" => UNCHANGED <<govVars, expVars>>
    /\ mine # "plugins" => UNCHANGED plgVars
    /\ mine # "firstuse" => UNCHANGED fuVars
    /\ mine # "knowledge" => UNCHANGED knoVars

StoreVars == <<lane, vars, memVars, govVars, expVars, plgVars, fuVars, knoVars>>

\* Where everything the bounds allow has been asked for and answered.
AllAnswered ==
    /\ \/ lane = "memories" /\ \A t \in MemThreads : memThreads[t] = MemIdle
       \/ lane \in {"execution", "trust"} /\ \A t \in GovThreads : govThreads[t] = GovIdle
       \/ lane = "plugins" /\ \A t \in PlgThreads : plgThreads[t] = PlgIdle
    /\ UNCHANGED StoreVars

\* The owner's side of ExpNext and the restarts are left to "trust", which in
\* turn explores one decision of an R0 approval at a time, while no record
\* expires and the capabilities stay registered, or the lessons, of which the
\* approvals know nothing.
ExecutionNext ==
    /\ \/ GovNext /\ UNCHANGED expVars
       \/ \E t \in GovThreads : ExpFind(t) \/ ExpCapture(t)
    /\ govRestarts' = govRestarts

TrustNext ==
    /\ ExpNext
    /\ govActive' /\ govClock' = govClock
    /\ \A a \in GovIds : govIssued'[a] \in {GovNone, "R0"}
    /\ \A t, u \in GovThreads :
          govThreads'[t].pc # "idle" /\ govThreads'[u].pc # "idle" => t = u
    /\ (\E l \in ExpLessons : expLessons'[l] # ExpNoRow)
          => \A a \in GovIds : govIssued'[a] = GovNone

StoreInit ==
    /\ lane \in Lanes
    /\ Init /\ MemInit /\ ExpInit /\ PlgInit /\ FuInit /\ KnoInit

StoreNext ==
    \/ /\ UNCHANGED lane
       /\ \/ lane = "projects" /\ Next /\ Others("projects")
          \/ lane = "memories" /\ MemNext /\ Others("memories")
          \/ lane = "execution" /\ ExecutionNext /\ Others("execution")
          \/ lane = "trust" /\ TrustNext /\ Others("execution")
          \/ lane = "plugins" /\ PlgNext /\ Others("plugins")
          \/ lane = "firstuse" /\ FuNext /\ Others("firstuse")
          \/ lane = "knowledge" /\ KnoNext /\ Others("knowledge")
    \/ AllAnswered

StoreSpec == StoreInit /\ [][StoreNext]_StoreVars

\* The rows, records, threads and history of every component keep their shape.
TypesOK ==
    /\ TypeOK /\ MemTypeOK /\ GovTypeOK /\ ExpTypeOK /\ PlgTypeOK /\ FuTypeOK
    /\ KnoTypeOK

\* Sound: no component chooses between threads or approvals by name.
MCSymmetry == Permutations(GovThreads) \cup Permutations(GovIds)

=============================================================================

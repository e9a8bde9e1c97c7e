--------------------------- MODULE MCAutomationApply ---------------------------
(* The automations, the Controlled Engineering Apply and the Chat page, one at *)
(* a time: they share no state, so a run explores the behaviours of each and  *)
(* never mixes them.                                                          *)
EXTENDS MCAutomation, EngineeringApply, ChatClient

VARIABLE lane

LaneVars == <<lane, vars, engVars, cliVars>>

\* A component that is not explored has one initial state.
LaneInit ==
    /\ lane \in {"automation", "engineering", "client"}
    /\ Init /\ EngInit /\ CliInit
    /\ lane # "engineering" => engFile = EngNoFile
    /\ lane # "automation" => ~enabled
    /\ lane # "client" => cliExists = {} /\ \A r \in cliRequests : r.kind = "mount"

LaneNext ==
    /\ UNCHANGED lane
    /\ \/ lane = "automation" /\ Next /\ UNCHANGED <<engVars, cliVars>>
       \/ lane = "engineering" /\ EngNext /\ UNCHANGED <<vars, cliVars>>
       \/ lane = "client" /\ CliNext /\ UNCHANGED <<vars, engVars>>

LaneSpec == LaneInit /\ [][LaneNext]_LaneVars

\* The rows, threads, locals and requests of all three keep their shape.
TypesOK == TypeOK /\ EngTypeOK /\ CliTypeOK

\* Sound: no component chooses between threads, workers or ids by name.
LaneSymmetry == Permutations(Requests) \cup Permutations(Workers)

=============================================================================

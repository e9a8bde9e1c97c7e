-------------------------------- MODULE MCLive --------------------------------
(* What the code must eventually do, under the fairness its scheduling gives *)
(* it: the scheduler's loop of the automations, and the request threads of   *)
(* the Gmail send lane.  They share no state, so the run explores one of the *)
(* two at a time, without symmetry.                                          *)
EXTENDS MCAutomation

CONSTANTS
    Approvals, Threads, Messages, NoContent, NoApproval,
    TTL, MaxApprovals, MaxClaims, GmailMaxTime, Restarts

VARIABLES
    lane, clock, proposals, items, claims, threads, mail, delivered, restarts

Gmail == INSTANCE GmailSend WITH
    Requests <- Threads, Contents <- Messages, requests <- threads,
    MaxTime <- GmailMaxTime, MaxFaults <- Restarts, faults <- restarts

gmailVars == <<clock, proposals, items, claims, threads, mail, delivered, restarts>>

LiveVars == <<lane, vars, gmailVars>>

\* A lane that is not explored has one initial state.
LiveInit ==
    /\ lane \in {"automation", "gmail"} /\ Init /\ Gmail!Init
    /\ lane = "gmail" => ~enabled

LiveNext ==
    /\ UNCHANGED lane
    /\ \/ lane = "automation" /\ Next /\ UNCHANGED gmailVars
       \/ lane = "gmail" /\ Gmail!Next /\ UNCHANGED vars

\* The fairness of the two specifications, each in its own lane.
LiveSpec ==
    /\ LiveInit /\ [][LiveNext]_LiveVars
    /\ WF_vars(lane = "automation" /\ ClockTick)
    /\ \A w \in Workers : WF_vars(lane = "automation" /\ WorkerStep(w))
    /\ \A r \in Threads : WF_gmailVars(lane = "gmail" /\ Gmail!Serve(r))

\* A claim of the Gmail send lane gets its outcome unless the process dies.
ClaimSettles == Gmail!ClaimSettles

=============================================================================

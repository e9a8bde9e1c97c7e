----------------------------- MODULE MCOwnerLanes -----------------------------
(* The lanes to Google and to the local AI runtime, and the chat turns, one   *)
(* at a time: they share no state, so a run explores the behaviours of each   *)
(* lane in Lanes and never mixes them.  "asking" and "reading" are the same   *)
(* module: the first explores the questions a chat asks and the writes it     *)
(* prepares, the second the reads and what the model is shown of them, in a   *)
(* conversation nobody deletes.                                               *)
EXTENDS GmailSend, CalendarWrite, LocalAIControl, OAuthCredentials,
        CognitiveTurn, ChatActions, TLC

CONSTANT Lanes      \* the lanes this run explores

VARIABLE lane

LaneVars == <<lane, vars, calVars, laiVars, oaVars, cogVars, chaVars>>

\* The calendar's requests are bounded: they may all be answered.
CalAllAnswered ==
    /\ calCalls = CalMaxCalls /\ calClock = CalMaxTime
    /\ \A t \in CalThreads : calThreads[t] = CalIdle
    /\ UNCHANGED calVars

\* Everything but the variables of the lane explored.
Others(mine) ==
    /\ mine # "gmail" => UNCHANGED vars
    /\ mine # "calendar" => UNCHANGED calVars
    /\ mine # "localai" => UNCHANGED laiVars
    /\ mine # "oauth" => UNCHANGED oaVars
    /\ mine # "chat" => UNCHANGED cogVars
    /\ mine # "actions" => UNCHANGED chaVars

\* The chat's messages and decisions, but for those the other lane explores.
ChaOnly(messages) ==
    /\ ChaNext
    /\ \A t \in ChaThreads : chaThreads'[t].message \in messages \cup {"none"}

\* The chat's messages and questions are bounded: all may be answered, but for
\* one that would ask a question more.
ChaAllAnswered ==
    /\ chaTurns = ChaMaxTurns /\ chaClock = ChaMaxTime
    /\ lane = "asking" => chaLive = {}
    /\ \A t \in ChaThreads : chaThreads[t].pc \in {"idle", "ask"}
    /\ UNCHANGED chaVars

\* A lane that is not explored has one initial state.
LaneInit ==
    /\ lane \in Lanes
    /\ Init /\ CalInit /\ LaiInit /\ OaInit /\ CogInit /\ ChaInit
    /\ lane # "localai" => ~laiLoaded

LaneNext ==
    /\ UNCHANGED lane
    /\ \/ lane = "gmail" /\ Next /\ Others("gmail")
       \/ /\ lane = "calendar"
          /\ CalNext \/ CalAllAnswered
          /\ Others("calendar")
       \/ lane = "localai" /\ LaiNext /\ Others("localai")
       \/ lane = "oauth" /\ OaNext /\ Others("oauth")
       \/ lane = "chat" /\ CogNext /\ Others("chat")
       \/ /\ \/ /\ lane = "asking"
                /\ ChaOnly({"date", "yes", "no", "other", "write", "approve"})
             \/ /\ lane = "reading"
                /\ ChaOnly({"gmail", "calendar", "approve", "analyze"})
                /\ chaLive' = chaLive
             \/ lane \in {"asking", "reading"} /\ ChaAllAnswered
          /\ Others("actions")

LaneSpec == LaneInit /\ [][LaneNext]_LaneVars

\* The stores, threads and answers of every lane keep their shape.
TypesOK == TypeOK /\ CalTypeOK /\ LaiTypeOK /\ OaTypeOK /\ CogTypeOK /\ ChaTypeOK

\* What the owner is told of a calendar write or of an operation on the model
\* is what happened at the provider: see the two modules.
AnswersAreTruthful == CalAnswerIsTruthful /\ LaiAnswerIsTruthful

\* Both are one-shot authorities, like the Gmail lane: one decision, one claim
\* and one attempt for what the owner approved, in this order and in time.
LanesImplementAuthority == CalImplementsAuthority /\ LaiImplementsAuthority

\* Sound: no lane chooses between threads, ids or messages by name.
MCSymmetry ==
    Permutations(Requests) \cup Permutations(Approvals) \cup Permutations(Contents)

=============================================================================
